SPECIFICATION Spec
CONSTANTS
  Request = {r1, r2}
  Field = {4, 5, 6, 7}
  Format = {"swiss", "single-elimination"}
  Verdict <- Verdicts
  Loads <- Loaded
  MaxAtOnce <- AtOnce
  MaxRounds <- Rounds
  MaxFixtures <- Fixtures
  MaxCorrections <- Corrections
SYMMETRY Sessions
CHECK_DEADLOCK FALSE
INVARIANTS TypeOK PairedOnce RoundsInTurn SwissGoesOn
PROPERTY PlayStands
