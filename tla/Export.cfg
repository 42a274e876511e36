CONSTANTS
  i1 = i1
  i2 = i2
  Invoices = {i1, i2}
  Requests = {r1, r2}
  Forms <- MixedForms
  MaxVersion = 1
  NoVersion = NoVersion
  NoForm = NoForm
  NoPosting = NoPosting
SPECIFICATION Spec
INVARIANTS TypeOK RecordedFirst PostedHeadersReviewed NoLaterRepost
SYMMETRY Interchangeable
CHECK_DEADLOCK FALSE
