CONSTANTS
  CompanyIds = {k1, k2}
  Invoices = {i1}
  Workers = {w1, w2}
  Requests = {r1, r2}
  Extractions <- SmallExtractions
  LetterFirst = {2}
  Blank = Blank
  NoCompany = NoCompany
  NoRow = NoRow
  NoParty = NoParty
  NoInvoice = NoInvoice
  DbErrors = FALSE
SPECIFICATION Spec
INVARIANTS OncePerVat ResolvedFits
PROPERTIES KeylessWasMatched MergeLosesNoLink DeletedLinksAreNew
SYMMETRY Interchangeable
CHECK_DEADLOCK FALSE
