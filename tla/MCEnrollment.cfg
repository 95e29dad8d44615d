SPECIFICATION FairSpec
CONSTANTS
  autumn = autumn
  spring = spring
  ana = ana
  bea = bea
  dni = dni
  Alias = {ana, bea}
  Known = {ana}
  Registered = {}
  Key = {dni}
  NoKey = NoKey
  Carried <- CarriedDef
  Import = {autumn, spring}
  File <- FileDef
  Worker = {w1, w2}
  Request = {r1, r2}
  Decision = {"accepted"}
  Nobody = Nobody
  MaxReviewed = 2
  MaxTroubles = 1
INVARIANTS TypeOK AppliedOnce RegisteredOnce
PROPERTIES EveryFileJudged EveryRequestEnds
CHECK_DEADLOCK FALSE
