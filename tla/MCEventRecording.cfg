SPECIFICATION FairSpec
CONSTANTS
  Request = {r1, r2}
  Key = {k1, k2}
  NoKey = NoKey
  Person = {ana, bea}
  Threshold = 2
  PoolSize = 3
  Operation = {"record", "roster"}
INVARIANTS TypeOK LogGapFree NoAlertMissed StoredKeyIsDone
PROPERTY EveryRequestEnds
