SPECIFICATION Spec
CONSTANTS
  Monitor = {m1}
  Replica = {r1, r2}
  None = None
  Workers = 1
  Interval = 1
  Retention = 3
  MaxTime = 6
  Requests = {"update"}
  Faults = {"stop", "store"}
SYMMETRY Symmetry
INVARIANT IncidentTimeline
PROPERTY CutChecksAreNotStored
PROPERTY ImplementsLifecycle
PROPERTY StoresLikeCalls
