CONSTANTS
  Readings <- TwoReadings
  Rests <- SomeRests
  Others <- SomeOthers
  OurId <- OurCompany
  Directories <- AllDirectories
  Totals <- SomeTotals
  Grosses <- AllGrosses
  LineIds = {1, 2, 3, 4, 5, 6, 7}
  CompanyIds <- DirectoryIds
  InvoiceIds = {"this", "other"}
  This = "this"
  MaxRows = 3
  MaxEdits = 3
  Nil = Nil
  NoPayload = NoPayload
  NoText = NoText
SPECIFICATION FormSpec
INVARIANTS PartiesKeptApart BucketsComplete LinesAddUp
PROPERTIES StoredAsWritten WholeFormIsSaved
CHECK_DEADLOCK FALSE
