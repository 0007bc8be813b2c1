SPECIFICATION Spec
CONSTANTS
  None = None
  d1 = d1
  Drives = {d1}
  PerHour = 1
  PerBucket = 1
  TeslaMate <- MCTeslaMate
  MaxTime = 2
  MaxId = 3
  MaxCharges = 1
INVARIANTS
  HourlyAgrees
  Compacted
PROPERTIES
  EndsKept
  RoutesKept
