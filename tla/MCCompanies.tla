------------------------------ MODULE MCCompanies ------------------------------
(***************************************************************************)
(* A small instance of Companies for TLC: one company that is printed with *)
(* and without its country prefix, code or VAT code, and another one whose *)
(* VAT number starts with a letter, so that its prefix is not stripped.    *)
(***************************************************************************)
EXTENDS Companies, TLC

Vat(cc, num) == [cc |-> cc, num |-> num]

Known(title, code, vat, country) ==
  [title |-> title, code |-> code, vat |-> vat, country |-> country]

Prefixed == Known("t1", "c1", Vat("LT", 1), "LT")
Plain    == Known("t1", Blank, Vat(Blank, 1), Blank)
Nameless == Known("t1", Blank, Blank, "LT")
Other    == Known("t2", Blank, Vat("AT", 2), Blank)

Pair(seller, buyer) == [s \in Sides |-> IF s = "seller" THEN seller ELSE buyer]

SmallExtractions ==
  {Pair(Prefixed, Other), Pair(Plain, NoParty), Pair(NoParty, Nameless)}

Interchangeable ==
  Permutations(CompanyIds) \cup Permutations(Workers) \cup Permutations(Requests)

===============================================================================
