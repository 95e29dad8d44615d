SPECIFICATION QueueSpec
CONSTANTS
  Command = {c1, r1, f1}
  Roster = {r1}
  Finalize = f1
  Invalid = {}
  MaxTroubles = 1
  MaxFinalizes = 2
INVARIANTS QueueTypeOK NothingLost OrderKept NothingLeftBehind
CHECK_DEADLOCK FALSE
