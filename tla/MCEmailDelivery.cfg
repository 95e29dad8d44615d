SPECIFICATION Spec
CONSTANTS
  NumRecipients = 3
  Worker = {w1, w2}
  MaxAttempts = 2
  MaxRuns = 4
  MaxCrashes = 1
SYMMETRY Interchangeable
INVARIANTS AtMostOneEmail ReservationExplained
