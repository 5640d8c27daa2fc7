SPECIFICATION Spec
CONSTANTS
  Monitor = {m1}
  Replica = {r1}
  None = None
  Workers = 1
  Interval = 2
  Retention = 2
  MaxTime = 5
  Requests = {"manual"}
  Faults = {"crash", "store"}
SYMMETRY Symmetry
INVARIANT IntervalKept
INVARIANT IncidentsAccurate
PROPERTY ClaimsOnlyDue
