--------------------------- MODULE MCReviewedExport ----------------------------
(***************************************************************************)
(* A small instance of ReviewedExport for TLC.                             *)
(***************************************************************************)
EXTENDS ReviewedExport

\* Plain, and with thousands set apart by a dot, a comma, a blank or an apostrophe.
Styles == {<<<<>>, Dot>>, <<<<>>, Comma>>, <<<<Dot>>, Comma>>, <<<<Comma>>, Dot>>,
           <<<<Space>>, Comma>>, <<<<Apostrophe>>, Dot>>}

\* 0.05, 12.50, 1234.00, 1234.56, 1234567.89
Values == {5, 1250, 123400, 123456, 123456789}

Places(v) == {p \in 0 .. 2 : Exact(v, p)}

AllGrosses ==
  {[text |-> <<>>, cents |-> Nil], [text |-> Write(-1250, <<>>, Comma, 2), cents |-> -1250]}
    \cup UNION {{[text |-> Write(v, s[1], s[2], p), cents |-> v] : p \in Places(v)} :
                  v \in Values, s \in Styles}

SomeTotals == {[text |-> <<>>, cents |-> Nil],
               [text |-> <<1, Dot, 2, 1, 0, Comma, 0, 0>>, cents |-> 121000]}

Line(id, total, vat) == [id |-> id, described |-> TRUE, total |-> total, vat |-> vat]

TwoReadings ==
  {[lines |-> <<>>, gross |-> Nil],
   [lines |-> <<Line(1, 12100, 2100), Line(2, 1250, Nil)>>, gross |-> 13350]}

Us      == [title |-> "us", code |-> "1", vat |-> "11"]
Vendor  == [title |-> "vendor", code |-> "2", vat |-> "22"]
ByVat   == [title |-> "vendor", code |-> "", vat |-> "22"]
Double  == [title |-> "agent", code |-> "2", vat |-> "33"]
ByTitle == [title |-> "vendor", code |-> "", vat |-> ""]

Company(id, p) == [id |-> <<"company", id>>, title |-> p.title, code |-> p.code, vat |-> p.vat]

DirectoryIds == {<<"company", id>> : id \in {"c1", "c2", "c3", "c4"}}

OurCompany == <<"company", "c1">>

AllDirectories ==
  {<<Company("c1", Us)>>, <<Company("c1", Us), Company("c2", Vendor)>>,
   <<Company("c3", ByVat)>>, <<Company("c2", Vendor), Company("c4", Double)>>}

SomeRests ==
  {[credit |-> c, net |-> 11250, vat |-> 2100, seller |-> s, buyer |-> Us] :
     c \in BOOLEAN, s \in {ByVat, ByTitle}}

Other(seller) ==
  [id |-> "other", credit |-> FALSE, net |-> 10000, vat |-> 2100, gross |-> 12101,
   seller |-> seller, buyer |-> ByTitle, lines |-> <<Line(1, 12100, 2100)>>]

SomeOthers == {<<>>, <<Other(Us)>>, <<Other(Vendor)>>, <<Other(Vendor), Other(Vendor)>>}

===============================================================================
