\* What one crash of the worker leaves behind.
SPECIFICATION Spec
CONSTANTS
  Tracks = {t1, t2}
  News = news
  None = none
  Faults = {"crash"}
  MaxFaults = 1
  MaxNews = 0
INVARIANTS
  RestartLosesNothing
