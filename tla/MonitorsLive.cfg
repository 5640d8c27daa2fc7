CONSTANTS
  Monitor = {m1}
  Config = {a}
  Slot = {s1, s2}
  NoMonitor = none
  NoRow = norow
  Closed = closed
  MaxCalls = 2
SPECIFICATION Spec
PROPERTIES Responds
