CONSTANTS
  Users = {u1}
  Importers = {a1, a2}
  Workers = {w1}
  PageCount = 2
  NoUser = NoUser
SPECIFICATION Spec
INVARIANTS KeptIsWhole TempIsClean PagesAreWhole
SYMMETRY Interchangeable
CHECK_DEADLOCK FALSE
