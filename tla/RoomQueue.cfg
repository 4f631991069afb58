\* One request at a time, besides the worker and the radio: the order and the
\* length of every queue a room can reach.
SPECIFICATION Spec
CONSTANTS
  Listeners = {host, ann}
  Host = host
  Radio = radio
  Voters = {ann}
  VoteValues = {0, 1}
  Videos = {v1, v2, v3}
  Requests = {r1}
  MaxPending = 1
  MaxTracks = 3
  MaxPriority = 0
  None = None
VIEW OrderView
INVARIANTS
  TypeOK
  FirstBeforeSecond
  

  
