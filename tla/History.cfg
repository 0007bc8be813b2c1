SPECIFICATION Spec
CONSTANTS
  None = None
  States = {"online", "asleep"}
  MaxTime = 1
  MaxEvents = 4
INVARIANTS
  StatesApart
PROPERTIES
  CatchesUp
