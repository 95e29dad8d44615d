SPECIFICATION FairLeaseSpec
CONSTANTS
  Replica = {p1, p2}
  Nobody = Nobody
  Slot = {s1}
  TTL = 2
  Interval = 2
  MaxAge = 2
  MaxSkew = 1
  MaxStops = 1
INVARIANTS OncePerInterval NoDualLease
PROPERTY JobKeepsComing
