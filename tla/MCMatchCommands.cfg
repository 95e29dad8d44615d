SPECIFICATION FairSpec
CONSTANTS
  Request = {r1, r2}
  NumSegments = 2
  Key = {k1, k2}
  NoKey = NoKey
  Result = {res1, res2}
  NoResult = NoResult
  Nobody = Nobody
  Operation = {"resume", "end", "finalize", "activate", "adjust", "correct"}
  InitialStatus = {"in-progress"}
  InitialSegment = {"active"}
INVARIANTS TypeOK ResultRecordedOnce FinalizeKeyAtomic ProjectionFollowsMatch
PROPERTY EveryRequestEnds
