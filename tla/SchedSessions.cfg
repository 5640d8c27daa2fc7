SPECIFICATION Spec
CONSTANTS
  Monitor = {m1, m2}
  Replica = {r1, r2}
  None = None
  Workers = 2
  Interval = 1
  Retention = 1
  MaxTime = 2
  Requests = {}
  Faults = {"session", "claim", "unlock", "stop"}
SYMMETRY Symmetry
INVARIANT NoLockOrphaned
