SPECIFICATION Spec
CONSTANTS
  None = None
  Gap = 1
  Streaming = FALSE
  Ranges <- WithRange
  MaxPositions = 4
  MaxHourly = 3
  MaxTime = 3
PROPERTY ParkedPointJoins
