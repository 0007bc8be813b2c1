SPECIFICATION Spec
CONSTANTS
  None = None
  i1 = i1
  i2 = i2
  c1 = c1
  c2 = c2
  Charges = {c1, c2}
  Invoices = {i1, i2}
  Syncs = {"task", "command"}
  Task = "task"
  Distance <- MCDistance
  MatchSecs = 3
  PageSize = 1
  MaxPages = 2
  Prices = {"low"}
INVARIANTS
  PricesSettle
PROPERTIES
  InvoicedStays
  InvoicesArrive
