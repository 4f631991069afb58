\* Promotions, against the radio and the worker.
SPECIFICATION Spec
CONSTANTS
  Listeners = {host, ann}
  Host = host
  Radio = radio
  Voters = {}
  VoteValues = {}
  Videos = {v1, v2}
  Requests = {r1}
  MaxPending = 1
  MaxTracks = 3
  MaxPriority = 2
  None = None
VIEW OrderView
PROPERTIES
  PromotionLeads
