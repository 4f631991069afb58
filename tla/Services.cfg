SPECIFICATION Spec
CONSTANTS
  None = none
  Rooms = {r1}
  Sessions = {s1, s2}
  Visits = {v1, v2}
  PRESENCE_TTL = 3
  LAST_LISTENER_GRACE = 1
  HEARTBEAT = 2
  Players = {p1, p2}
  Keys = {k1, k2}
  Slots = {i1, i2}
  Budget = 1
  Intervals = {2, 3}
  NEWS_RETRY = 1
  Requests = {q1, q2}
  LIMIT = 1
  WINDOW = 1
  STRIKES = 3
  STRIKE_WINDOW = 2
  Newcomers = {n1, n2, n3, n4}
  Joins = {j1, j2}
  MaxListeners = {1, 2}
  Messages = {m1, m2}
  HISTORY_LIMIT = 1
  Station = {x1, x2, x3}
  Seed = x1
  Callers = {c1, c2}
  MIX_WINDOW = 2
  MIX_POOL_CAP = 2
  Videos <- MCVideos
  Artists = {"A", "B"}
  Histories = {0, 6, 40}
  Outings = {0, 6, 12}
  Catalogue <- MCCatalogue
  PICK_FROM_TOP = 2
  MAX_CANDIDATES = 3
  Found <- MCFound
  Listings <- MCListings
  Hits <- MCHits
  WORDS = 2
  RESULTS = 3
SYMMETRY Alike
INVARIANTS
  ServicesTypeOK
  LiveOutlastsPresence
  
  FoundFilesStay
  OneWriterPerPlayer
  KeyFollowsClip
  CountersExpire
  Overbooking
  
  LapEnds
  
  RadioPlaysOn
  PlaysBuyNothing
  TooLongIsRefused
PROPERTIES
  NewsIsSpaced
  MutedForFlooding
  PoolClimbs
