\* Two requests in flight: what a check still promises when it is acted on.
SPECIFICATION Spec
CONSTANTS
  Listeners = {host, ann}
  Host = host
  Radio = radio
  Voters = {ann}
  VoteValues = {0, 1}
  Videos = {v1}
  Requests = {r1, r2}
  MaxPending = 1
  MaxTracks = 2
  MaxPriority = 0
  None = None
SYMMETRY Symmetry
VIEW OverlapView
INVARIANTS
  
  BannedLeaveNothing
