CONSTANTS
  Invoices = {i1, i2, i3}
  Files = {f1, f2, f3}
  Keys = {k1}
  BlankKeys = {}
  Requests = {r1}
  QueueCap = 1
  NoInvoice = NoInvoice
  NoKey = NoKey
  NoFile = NoFile
  BootOverlap = FALSE
  QuickRestart = FALSE
  DbErrors = FALSE
SPECIFICATION FairSpec
PROPERTIES PendingIsEnqueuedOnBoot
