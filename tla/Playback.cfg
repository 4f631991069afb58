\* Every interleaving of a player, a host and the lookahead, with faults.
SPECIFICATION FairSpec
CONSTANTS
  Tracks = {t1, t2}
  News = news
  None = none
  Faults = {"error", "stop", "crash", "lost"}
  MaxFaults = 2
  MaxNews = 1
INVARIANTS
  TypeOK
  HeardIsClaimed
  OnAirNeverWaits
  NoSecondDecoder
  
  ShowsWhatIsHeard
PROPERTIES
  EveryTrackLeavesTheQueue
  ImplementsBroadcast
