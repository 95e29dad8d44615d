SPECIFICATION Spec
CONSTANTS
  Match = {m1, m2}
  Surface = {"ticker", "live"}
  Kind = {"recorded", "finalized"}
  NoEvent = NoEvent
  MaxFacts = 2
  MaxRows = 2
  MaxClock = 2
  Window = 1
  BatchLimit = 1
  Skew = 0
  MaxWire = 1
  MaxFetches = 2
  MaxDrops = 1


CHECK_DEADLOCK FALSE
INVARIANT FinalReachesScreen
