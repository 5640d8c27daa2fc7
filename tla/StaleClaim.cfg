SPECIFICATION Spec
CONSTANTS
  Monitor = {m1}
  Replica = {r1, r2}
  None = None
  Workers = 1
  Interval = 2
  Retention = 3
  MaxTime = 4
  Requests = {}
  Faults = {}
SYMMETRY Symmetry
PROPERTY ClaimsOnlyDue
