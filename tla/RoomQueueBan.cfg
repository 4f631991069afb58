\* A ban against a request of the banned listener that is past the ban check.
SPECIFICATION Spec
CONSTANTS
  Listeners = {host, ann}
  Host = host
  Radio = radio
  Voters = {}
  VoteValues = {}
  Videos = {v1}
  Requests = {r1, r2}
  MaxPending = 1
  MaxTracks = 2
  MaxPriority = 0
  None = None
INVARIANTS
  BannedStayOut
