----------------------------- MODULE ExportPayload -----------------------------
(***************************************************************************)
(* export.BuildPayload (export/context.go) and the reconciliation that     *)
(* ExportInvoices does beside it (service/export.go): pure functions of    *)
(* the selected invoices and the organization's company directory.         *)
(*                                                                         *)
(* Amounts are integer cents.  A party is what an invoice prints of it: a  *)
(* title, a company code and a VAT number, "" where nothing is printed; an *)
(* address, a bank account and the like follow the same path as the title. *)
(* Letter case and surrounding blanks, which the code folds away when it   *)
(* compares titles, are not part of these values.                          *)
(***************************************************************************)
EXTENDS Decimal, FiniteSets, Functions

\* derefFloat, centsToFloat: NULL counts as zero.
Cents(v) == IF v = Nil THEN 0 ELSE v

-------------------------------------------------------------------------------
(* Companies                                                               *)

\* companyKey: the code if there is one, else the VAT number, else the title.
CompanyKey(p) ==
  CASE p.code # "" -> <<"code", p.code>>
    [] p.code = "" /\ p.vat # "" -> <<"vat", p.vat>>
    [] OTHER -> <<"title", p.title>>

\* Every key under which the directory lists company c.
KeysOf(c) ==
  {<<"code", c.code>>, <<"vat", c.vat>>, <<"title", c.title>>}
    \ {<<"code", "">>, <<"vat", "">>, <<"title", "">>}

\* Where several companies share a key, the last one of the list has it.
Known(directory, k) == SelectLastInSeq(directory, LAMBDA c : k \in KeysOf(c))

Filled(own, other) == IF own = "" THEN other ELSE own

\* Mutant: code and VAT number are not filled in from the directory.
NewCompanyUnfilled(p, internal, directory) ==
  LET k == CompanyKey(p)
      n == Known(directory, k)
  IN  [id |-> IF n = 0 THEN k ELSE directory[n].id,
       title |-> p.title, code |-> p.code, vat |-> p.vat, internal |-> internal]

\* The payload's company for a party met for the first time.
NewCompany(p, internal, directory) ==
  LET k == CompanyKey(p)
      n == Known(directory, k)
      c == directory[n]
  IN  IF n = 0
        THEN [id |-> k, title |-> p.title, code |-> p.code, vat |-> p.vat,
              internal |-> internal]
        ELSE [id |-> c.id, title |-> Filled(p.title, c.title),
              code |-> Filled(p.code, c.code), vat |-> Filled(p.vat, c.vat),
              internal |-> internal]

\* Mutant: the side of the invoice a party stands on is not looked at.
AnyoneInternal(cache, p, internal, directory) ==
  LET k == CompanyKey(p)
  IN  IF k \in DOMAIN cache THEN cache[k] ELSE NewCompany(p, TRUE, directory)

\* partyCompany: the first invoice that shows a key decides what all the later
\* ones get, the side of the invoice it stood on included.
PartyCompany(cache, p, internal, directory) ==
  LET k == CompanyKey(p)
  IN  IF k \in DOMAIN cache THEN cache[k] ELSE NewCompany(p, internal, directory)

Remember(cache, p, c) ==
  LET k == CompanyKey(p)
  IN  [x \in DOMAIN cache \cup {k} |-> IF x = k THEN c ELSE cache[x]]

\* matchesParty: two codes, two VAT numbers or two titles that are equal.  What is
\* not printed is NULL and matches nothing.
MatchesParty(c, p) ==
  \/ p.code # "" /\ c.code = p.code
  \/ p.vat # "" /\ c.vat = p.vat
  \/ p.title # "" /\ c.title = p.title

-------------------------------------------------------------------------------
(* Invoices                                                                *)

\* Mutant: a line of a credit note keeps the sign of its VAT.
MapLineUnsigned(line, sign) ==
  [net   |-> (Cents(line.total) - Cents(line.vat)) * sign,
   vat   |-> Cents(line.vat),
   gross |-> Cents(line.total) * sign]

\* A stored total is the gross amount.
MapLine(line, sign) ==
  [net   |-> (Cents(line.total) - Cents(line.vat)) * sign,
   vat   |-> Cents(line.vat) * sign,
   gross |-> Cents(line.total) * sign]

\* mapInvoice: a credit note has all its amounts negated.
MapInvoice(inv, from, to) ==
  LET sign == IF inv.credit THEN -1 ELSE 1
  IN  [id |-> inv.id, from |-> from, to |-> to,
       net   |-> Cents(inv.net) * sign,
       vat   |-> Cents(inv.vat) * sign,
       gross |-> Cents(inv.gross) * sign,
       lines |-> [n \in DOMAIN inv.lines |-> MapLine(inv.lines[n], sign)]]

\* classifyInvoice
Classify(inv, directory, type) ==
  IF type \in {"sales", "purchases"} THEN type
  ELSE IF \E n \in DOMAIN directory : MatchesParty(directory[n], inv.seller)
         THEN "sales" ELSE "purchases"

\* The body of BuildPayload's loop: the seller is looked up before the buyer,
\* and both in the cache the earlier invoices have filled.
AddInvoice(acc, inv, directory, type) ==
  LET from   == PartyCompany(acc.cache, inv.seller, TRUE, directory)
      seen   == Remember(acc.cache, inv.seller, from)
      to     == PartyCompany(seen, inv.buyer, FALSE, directory)
      mapped == MapInvoice(inv, from, to)
      bucket == Classify(inv, directory, type)
  IN  [cache     |-> Remember(seen, inv.buyer, to),
       invoices  |-> Append(acc.invoices, mapped),
       purchases |-> IF bucket = "sales" THEN acc.purchases ELSE Append(acc.purchases, mapped),
       sales     |-> IF bucket = "sales" THEN Append(acc.sales, mapped) ELSE acc.sales]

\* What the loop has put together after the first n invoices, for every n.
Loop(invoices, directory, type) ==
  LET start == [cache |-> <<>>, invoices |-> <<>>, purchases |-> <<>>, sales |-> <<>>]
      after[n \in 0 .. Len(invoices)] ==
        IF n = 0 THEN start ELSE AddInvoice(after[n - 1], invoices[n], directory, type)
  IN  after

\* The sellers and buyers, in the order the set of companies is filled in.
PartiesOf(invoices) ==
  [m \in 1 .. 2 * Len(invoices) |->
     IF m % 2 = 1 THEN invoices[(m + 1) \div 2].from ELSE invoices[m \div 2].to]

\* The companies of the payload, by the key of the filled-in record; of two
\* with the same key the later one stays.
CompanySet(invoices) ==
  LET parties == PartiesOf(invoices)
      latest(n) == \A m \in DOMAIN parties :
                     CompanyKey(parties[m]) = CompanyKey(parties[n]) => m <= n
  IN  {parties[n] : n \in {m \in DOMAIN parties : latest(m)}}

\* Mutant: the sales are not handed to the purchase-side templates.
SalesApart(invoices, directory, type) ==
  LET end == Loop(invoices, directory, type)[Len(invoices)]
  IN  [type |-> type, invoices |-> end.invoices, sales |-> end.sales,
       purchases |-> end.purchases,
       companies |-> CompanySet(end.invoices),
       suppliers |-> {c \in CompanySet(end.invoices) : c.internal},
       customers |-> {c \in CompanySet(end.invoices) : ~c.internal}]

\* With "all" the purchases bucket also gets the sales.
BuildPayload(invoices, directory, type) ==
  LET end == Loop(invoices, directory, type)[Len(invoices)]
  IN  [type |-> type, invoices |-> end.invoices, sales |-> end.sales,
       purchases |-> IF type = "all" THEN end.purchases \o end.sales ELSE end.purchases,
       companies |-> CompanySet(end.invoices),
       suppliers |-> {c \in CompanySet(end.invoices) : c.internal},
       customers |-> {c \in CompanySet(end.invoices) : ~c.internal}]

-------------------------------------------------------------------------------
(* Reconciliation                                                          *)

\* The sum of the first n amounts, for every n.
Sums(amounts) ==
  LET sum[n \in 0 .. Len(amounts)] == IF n = 0 THEN 0 ELSE sum[n - 1] + amounts[n]
  IN  sum

Total(amounts) == Sums(amounts)[Len(amounts)]

\* The differences between the sums of the lines, each of a net, a VAT and a
\* gross amount, and the header.
Gaps(lines, header) ==
  {Total([n \in DOMAIN lines |-> lines[n].net]) - header.net,
   Total([n \in DOMAIN lines |-> lines[n].vat]) - header.vat,
   Total([n \in DOMAIN lines |-> lines[n].gross]) - header.gross}

\* What reconcileInvoices compares is the stored invoice, with no sign changed.
StoredGaps(inv) ==
  Gaps([n \in DOMAIN inv.lines |-> MapLine(inv.lines[n], 1)],
       [net |-> Cents(inv.net), vat |-> Cents(inv.vat), gross |-> Cents(inv.gross)])

Beyond(gaps, cents) == \E g \in gaps : g > cents \/ -g > cents

\* reconcileInvoices: the invoices it warns of.  A gap of exactly one cent may
\* or may not exceed the tolerance of 0.01 in floating point, depending on the
\* two amounts, so it warns of all those beyond it and of any of those at it.
Reconciled(invoices) ==
  LET at(tolerance) == {inv.id : inv \in {i \in Range(invoices) :
                          i.lines # <<>> /\ Beyond(StoredGaps(i), tolerance)}}
  IN  {W \in SUBSET at(0) : at(1) \subseteq W}

===============================================================================
