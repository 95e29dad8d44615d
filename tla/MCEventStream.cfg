SPECIFICATION FairSpec
CONSTANTS
  Match = {m1, m2}
  Surface = {"ticker", "live", "console"}
  Kind = {"recorded", "internal"}
  NoEvent = NoEvent
  MaxFacts = 2
  MaxRows = 2
  MaxClock = 2
  Window = 1
  BatchLimit = 1
  Skew = 1
  MaxWire = 1
  MaxFetches = 2
  MaxDrops = 1
INVARIANTS TypeOK NoSilentGap
PROPERTY EveryFactReaches
CHECK_DEADLOCK FALSE
