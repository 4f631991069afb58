\* Two workers and one room, with one thing going wrong at any moment.
SPECIFICATION FairSpec
CONSTANTS
  Workers = {w1, w2}
  Rooms = {r1}
  None = none
  Gone = gone
  LOCK_TTL = 2
  STARTUP_GRACE = 1
  LiveTimes = {0, 1}
  LIMIT = 1
  Mishaps = {"crash", "stall", "flush", "error", "died"}
  MaxMishaps = 1
INVARIANTS
  SupervisorTypeOK
  OneSource
PROPERTIES
  AstrayEnds
  RoomIsServed
  RoomIsDropped
