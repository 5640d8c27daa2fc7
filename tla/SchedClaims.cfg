SPECIFICATION Spec
CONSTANTS
  Monitor = {m1, m2}
  Replica = {r1, r2}
  None = None
  Workers = 1
  Interval = 1
  Retention = 1
  MaxTime = 3
  Requests = {"delete"}
  Faults = {"stop", "crash", "claim", "unlock"}
SYMMETRY Symmetry
INVARIANT TypeOK
INVARIANT MutualExclusion
INVARIANT LocksMatchClaims
PROPERTY StoresInOrder
