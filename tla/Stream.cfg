SPECIFICATION StreamSpec
CONSTANTS
  Workers = {w1}
  Rooms = {r1}
  Sessions = {s1}
  Visits = {v1, v2}
  None = None
  Gone = Gone
  LOCK_TTL = 2
  STARTUP_GRACE = 1
  LIMIT = 1
  PRESENCE_TTL = 3
  LAST_LISTENER_GRACE = 1
  HEARTBEAT = 2
  LiveTimes = {0, 1, 2, 3}
  Mishaps = {"crash", "flush", "error", "died", "api"}
  MaxMishaps = 1
SYMMETRY Alike
INVARIANTS SocketIsPresent
PROPERTIES SweepsSpareListeners 
