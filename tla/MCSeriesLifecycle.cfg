SPECIFICATION Spec
CONSTANTS
  Span = 3
  Side = {ana, bea}
  Draw = Draw
  NoResult = NoResult
  Request = {r1, r2, r3}
  Nobody = Nobody
  Operation = {"start", "finalize", "load", "correct"}
SYMMETRY Interchangeable
INVARIANTS TypeOK GuaranteedKept AnulledForAReason
