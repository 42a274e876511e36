CONSTANTS
  Invoices = {i1, i2}
  Files = {f1}
  Uploads = {r1}
  MaxPolls = 1
  QueueCap = 1
  MaxFaults = 1
  NoInvoice = NoInvoice
  NoFile = NoFile
SPECIFICATION BoundedSpec
INVARIANTS HeldOnce AnswersStand UnheldWasDropped OnePerFile
PROPERTIES ToolReturns SettlesOnceRecovered
CHECK_DEADLOCK FALSE
