CONSTANTS
  Monitor = {m1, m2}
  Ranges = {"24h", "7d"}
  Day = "24h"
  Attention = 1
  Slot = {s1, s2}
  NoData = nodata
  MaxLoads = 2
  MaxChanges = 1
SPECIFICATION Spec
INVARIANTS ShowsSelectedRange
CHECK_DEADLOCK FALSE
