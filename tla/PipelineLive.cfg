CONSTANTS
  Invoices = {i1, i2}
  Files = {f1}
  Keys = {k1, blank}
  BlankKeys = {blank}
  Requests = {r1}
  QueueCap = 3
  NoInvoice = NoInvoice
  NoKey = NoKey
  NoFile = NoFile
  BootOverlap = TRUE
  QuickRestart = FALSE
  DbErrors = TRUE
SPECIFICATION FairHistorySpec
PROPERTIES EveryInvoiceSettles
