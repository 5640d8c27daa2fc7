SPECIFICATION Spec
CONSTANTS
  Monitor = {m1, m2}
  Replica = {r1, r2}
  None = None
  Workers = 1
  Interval = 1
  Retention = 1
  MaxTime = 3
  Requests = {}
  Faults = {"session"}
SYMMETRY Symmetry
INVARIANT MutualExclusion
