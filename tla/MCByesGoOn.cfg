SPECIFICATION Spec
CONSTANTS
  Request = {r1}
  Field = {5, 6}
  Format = {"swiss", "single-elimination"}
  Verdict <- Verdicts
  Loads <- Loaded
  MaxAtOnce <- AtOnce
  MaxRounds <- Rounds
  MaxFixtures <- Fixtures
  MaxCorrections <- Corrections
CHECK_DEADLOCK FALSE
INVARIANT ByesGoOn
