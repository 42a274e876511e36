CONSTANTS
  MaxInvoice = 3
  MaxTime = 1
  MaxUploads = 2
  MaxChanges = 2
SPECIFICATION Spec
INVARIANTS WalkShowsAll
PROPERTIES AllReviewedIsTrue
CHECK_DEADLOCK FALSE
