SPECIFICATION JobsSpec
CONSTANTS
  a1 = a1
  a2 = a2
  Admins <- TwoAdmins
  MaxCalls = 4
INVARIANTS
  TaskOwnsJob
  CompletedIsCurrent
PROPERTIES
  Coalesces
  ChangesReachHistory
CHECK_DEADLOCK FALSE
