\* Round robin over time: an early second track against a later first one.
SPECIFICATION Spec
CONSTANTS
  Listeners = {host, ann}
  Host = host
  Radio = radio
  Voters = {}
  VoteValues = {}
  Videos = {v1, v2, v3}
  Requests = {r1}
  MaxPending = 2
  MaxTracks = 3
  MaxPriority = 1
  None = None
PROPERTIES
  EveryonesTurn
