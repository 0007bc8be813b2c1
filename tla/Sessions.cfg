SPECIFICATION Spec
CONSTANTS
  None = None
  Gap = 1
  Streaming = TRUE
  Ranges <- WithRange
  MaxPositions = 4
  MaxHourly = 1
  MaxTime = 3
INVARIANTS
  TypeOK
  Settled
  ChargesApart
PROPERTIES
  ReadingsJoinRecent
  EndedStay
  KeepsLog
