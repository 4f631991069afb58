\* A skip against the end of its track, with nothing failing.
SPECIFICATION Spec
CONSTANTS
  Tracks = {t1, t2}
  News = news
  None = none
  Faults = {}
  MaxFaults = 0
  MaxNews = 0
PROPERTIES
  VerdictStands
