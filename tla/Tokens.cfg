SPECIFICATION Spec
CONSTANTS
  None = None
  Processes = {"serve", "shell"}
  Tasks = {"logger", "invoices", "command"}
  ProcessOf <- MCProcessOf
  Logger = "logger"
  Commands = {"command"}
  Cars <- MCCars
  Legacy = {TRUE, FALSE}
  MaxTokens = 3
INVARIANTS
  Decryptable
PROPERTIES
  EveryCarPolled
