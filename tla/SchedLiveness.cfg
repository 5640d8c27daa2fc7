SPECIFICATION FairSpec
CONSTANTS
  Monitor = {m1, m2}
  Replica = {r1}
  None = None
  Workers = 2
  Interval = 1
  Retention = 1
  MaxTime = 3
  Requests = {"delete"}
  Faults = {"stop", "session", "store"}
INVARIANT BatchGoesOn
PROPERTY BatchesOnlyAdvance
PROPERTY BatchesEnd
PROPERTY ShutdownCompletes
