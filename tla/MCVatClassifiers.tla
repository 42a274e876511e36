--------------------------- MODULE MCVatClassifiers ---------------------------
(***************************************************************************)
(* A small instance of VatClassifiers for TLC: one code in two countries   *)
(* with different tariffs, a reduced one that may be switched off, and a   *)
(* code that no catalogue has.                                             *)
(***************************************************************************)
EXTENDS VatClassifiers, TLC

Row(country, c, tariff, active) ==
  [country |-> country, code |-> c, tariff |-> tariff, active |-> active]

SmallCatalogue == [LT |-> {Row("LT", "STD", 21, TRUE), Row("LT", "RED", 9, TRUE)}]

SmallForms == {Row("DE", "STD", 19, TRUE), Row("LT", "RED", 5, FALSE)}

SmallExtractions == {{"STD", "XXX"}, {"RED", Blank}}

Interchangeable ==
  Permutations(Ids) \cup Permutations(Invoices) \cup Permutations(Requests)

===============================================================================
