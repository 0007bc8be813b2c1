SPECIFICATION InterruptedSpec
CONSTANTS
  a1 = a1
  a2 = a2
  Admins <- TwoAdmins
  MaxCalls = 2
PROPERTIES
  ChangesReachHistory
CHECK_DEADLOCK FALSE
