CONSTANTS
  Ids = {v1, v2, v3}
  Invoices = {i1}
  Workers = {w1}
  Requests = {r1}
  Forms <- SmallForms
  Catalogue <- SmallCatalogue
  Extractions <- SmallExtractions
  Blank = Blank
  Unset = Unset
  NoRow = NoRow
  NoId = NoId
  NoInvoice = NoInvoice
  NoCode = NoCode
SPECIFICATION Spec
INVARIANTS WarningMatchesLines UnknownIsFlagged
PROPERTIES DeletedIsUnused
SYMMETRY Interchangeable
CHECK_DEADLOCK FALSE
