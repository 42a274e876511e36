CONSTANTS
  Invoices = {i1, i2, i3}
  Files = {f1}
  Keys = {k1}
  BlankKeys = {}
  Requests = {r1, r2}
  QueueCap = 1
  NoInvoice = NoInvoice
  NoKey = NoKey
  NoFile = NoFile
  BootOverlap = TRUE
  QuickRestart = TRUE
  DbErrors = TRUE
SPECIFICATION HistorySpec
INVARIANTS TypeOK NoLostWork SingleTicket DuplicatesGrounded RecoveryFitsQueue
PROPERTIES ImplementsLifecycle
SYMMETRY Interchangeable
