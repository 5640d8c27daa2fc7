CONSTANTS
  Monitor = {m1, m2}
  Config = {a, b}
  Slot = {s1, s2}
  NoMonitor = none
  NoRow = norow
  Closed = closed
  MaxCalls = 2
SPECIFICATION Spec
INVARIANTS TypeOK PendingHasCall OneSave PageAgrees
PROPERTIES ToggleOnlyFlips
SYMMETRY Symmetry
