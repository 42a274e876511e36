---------------------------- MODULE ReviewedExport -----------------------------
(***************************************************************************)
(* From the review form to the accounting file: a reviewer corrects the    *)
(* lines and the total of an invoice on review.html, handleUpdateInvoice   *)
(* reads the form and UpdateInvoice stores it, and an export of the        *)
(* invoice, with others, builds the payload that every format, template    *)
(* and webhook is rendered from.                                           *)
(*                                                                         *)
(* Decimal and ExportPayload hold the pure functions.  Who may do what     *)
(* when is InvoicePipeline's subject: here the invoice is editable, and    *)
(* its export is the end.                                                  *)
(***************************************************************************)
EXTENDS ExportPayload

CONSTANTS
  Readings,     \* what the worker may have stored: records of lines and gross
  Rests,        \* what the form does not touch here: records of credit, net, vat, seller, buyer
  OurId,        \* id of the organization's own company in the directory
  Others,       \* sequences of stored invoices selected along with it
  Directories,  \* sequences of companies, as ListCompanies returns them
  Totals,       \* what a reviewer may type as a line's total: records of a
                \* text and of the cents it is meant to say
  Grosses,      \* ... and as the invoice's total
  LineIds,      \* ids that uuid.New() may hand out
  CompanyIds,   \* ids of the directory's rows
  InvoiceIds,   \* ids of invoices
  This,         \* ... that of the invoice in the form
  MaxRows,      \* bound on the rows of the form
  MaxEdits,     \* bound on the changes made to the form
  NoPayload, NoText

ASSUME BoundAssumption == MaxRows \in Nat

\* There are more ids than rows, stored and shown, so uuid.New() has one left.
ASSUME IdAssumption == IsFiniteSet(LineIds) => Cardinality(LineIds) > 2 * MaxRows

\* What the database and the form can hold of an invoice.
Lines == Seq([id : LineIds, described : BOOLEAN, total : Amount, vat : Amount])

Party == [title : STRING, code : STRING, vat : STRING]

Selected == [id : InvoiceIds, credit : BOOLEAN, net : Amount, vat : Amount, gross : Amount,
             seller : Party, buyer : Party, lines : Lines]

DirectoryRow == [id : CompanyIds, title : STRING, code : STRING, vat : STRING]

Keys == {"code", "vat", "title"} \X STRING

IdsDiffer(seq) == \A m, n \in DOMAIN seq : seq[m].id = seq[n].id => m = n

VatsDiffer(directory) ==
  \A m, n \in DOMAIN directory :
    directory[m].vat # "" /\ directory[m].vat = directory[n].vat => m = n

Typed == [text : Seq(Char), cents : Amount]

\* Nothing, or an amount in one of the documented styles.
Meant(t) ==
  \/ t.text = <<>> /\ t.cents = Nil
  \/ t.cents \in Int /\ Says(t.text, t.cents)

ASSUME InvoiceAssumption ==
  /\ \A r \in Readings : r.lines \in Lines /\ Len(r.lines) <= MaxRows /\ r.gross \in Amount
  /\ \A t \in Totals \cup Grosses : t \in Typed /\ Meant(t)
  /\ Rests \subseteq [credit : BOOLEAN, net : Amount, vat : Amount, seller : Party, buyer : Party]

\* Nothing keeps an invoice from being selected twice.
ASSUME SelectionAssumption == This \in InvoiceIds /\ Others \subseteq Seq(Selected)

\* The id is the primary key of the directory, its VAT numbers are unique
\* (idx_companies_org_vat_unique), and no company's key is an id.
ASSUME DirectoryAssumption ==
  /\ \A id \in CompanyIds : id \notin Keys
  /\ \A directory \in Directories :
       /\ directory \in Seq(DirectoryRow)
       /\ IdsDiffer(directory) /\ VatsDiffer(directory)

VARIABLES
  lines, gross, \* the invoice's rows in invoice_items; its amount_with_vat
  open,         \* the review page is open
  table,        \* its table of lines, in document order
  field,        \* its field for the total
  removed,      \* history: a row was removed since the page was opened
  edits,        \* history: the changes made to the form so far
  out, warned   \* the payload of the export, the invoices it warned of

stored == <<lines, gross>>
page   == <<open, table, field, removed, edits>>
formVars == <<stored, page, out, warned>>

\* NULL is shown as 0.00, which is not what it says.
Shown(v) == [text |-> Rendered(v), cents |-> v]

FormInit ==
  /\ \E r \in Readings : lines = r.lines /\ gross = r.gross
  /\ open = FALSE /\ table = <<>> /\ field = NoText /\ removed = FALSE /\ edits = 0
  /\ out = NoPayload /\ warned = {}

-------------------------------------------------------------------------------
(* The page                                                                *)

\* Rows are numbered from zero in the order they are stored in.
OpenPage ==
  /\ ~open /\ out = NoPayload
  /\ open' = TRUE /\ removed' = FALSE
  /\ table' = [n \in DOMAIN lines |->
                [index |-> n - 1, id |-> lines[n].id, described |-> lines[n].described,
                 total |-> Shown(lines[n].total), vat |-> Shown(lines[n].vat)]]
  /\ field' = Shown(gross)
  /\ UNCHANGED <<stored, edits, out, warned>>

Edit == open /\ edits < MaxEdits /\ edits' = edits + 1

NewRow(n, id) ==
  [index |-> n, id |-> id, described |-> FALSE, total |-> Shown(0), vat |-> Shown(0)]

\* What uuid.New() makes up: an id of no row, on the page or stored.
FreshId == CHOOSE id \in LineIds : /\ \A n \in DOMAIN table : table[n].id # id
                               /\ \A n \in DOMAIN lines : lines[n].id # id

\* A new row gets the number of rows there are as its index.  Its id is empty
\* until the server makes one up; here it is chosen at once.
AddRow ==
  /\ Edit /\ Len(table) < MaxRows
  /\ table' = Append(table, NewRow(Len(table), FreshId))
  /\ UNCHANGED <<stored, open, field, removed, out, warned>>

\* The other rows keep their indices.
RemoveRow(n) ==
  /\ Edit /\ n \in DOMAIN table
  /\ table' = RemoveAt(table, n) /\ removed' = TRUE
  /\ UNCHANGED <<stored, open, field, out, warned>>

TypeDescription(n) ==
  /\ Edit /\ n \in DOMAIN table
  /\ \E b \in BOOLEAN : table' = [table EXCEPT ![n].described = b]
  /\ UNCHANGED <<stored, open, field, removed, out, warned>>

TypeTotal(n) ==
  /\ Edit /\ n \in DOMAIN table
  /\ \E t \in Totals : table' = [table EXCEPT ![n].total = t]
  /\ UNCHANGED <<stored, open, field, removed, out, warned>>

TypeGross ==
  /\ Edit
  /\ \E t \in Grosses : field' = t
  /\ UNCHANGED <<stored, open, table, removed, out, warned>>

-------------------------------------------------------------------------------
(* The server                                                              *)

\* The row whose fields FormValue finds for index i: the first in the document.
RowOf(i) == SelectInSeq(table, LAMBDA row : row.index = i)

\* No description and no total, as with an index that no row has.
BlankAt(i) ==
  LET n == RowOf(i)
  IN  n = 0 \/ (~table[n].described /\ table[n].total.text = <<>>)

\* Mutant: the first row is not looked at before the second.
LinesOneMore ==
  CHOOSE n \in 0 .. MaxRows : BlankAt(n + 1) /\ \A i \in 1 .. n : ~BlankAt(i)

\* The loop over the indices ends at the first that is blank; its safety break
\* at 100 ends it no sooner.
LinesInForm ==
  CHOOSE n \in 0 .. MaxRows : BlankAt(n) /\ \A i \in 0 .. n - 1 : ~BlankAt(i)

LineOf(i) ==
  LET row == table[RowOf(i)]
  IN  [id |-> row.id, described |-> row.described,
       total |-> ParseCents(row.total.text), vat |-> ParseCents(row.vat.text)]

\* UpdateInvoice replaces the header's amounts and all the lines in one
\* transaction.
Save ==
  /\ open
  /\ gross' = ParseCents(field.text)
  /\ lines' = [n \in 1 .. LinesInForm |-> LineOf(n - 1)]
  /\ open' = FALSE /\ table' = <<>> /\ field' = NoText /\ removed' = FALSE
  /\ UNCHANGED <<edits, out, warned>>

\* ExportInvoices: the selection is in the order the user made it in, and an id
\* that it has twice is read twice.
Export(rest, others, directory, type) ==
  /\ ~open /\ out = NoPayload
  /\ LET this == [id |-> This, credit |-> rest.credit, net |-> rest.net,
                  vat |-> rest.vat, gross |-> gross, seller |-> rest.seller,
                  buyer |-> rest.buyer, lines |-> lines]
         selection == {<<this>> \o others, others \o <<this>>,
                       <<this>> \o others \o <<this>>}
     IN  \E invoices \in selection :
           /\ out' = BuildPayload(invoices, directory, type)
           /\ warned' \in Reconciled(invoices)
  /\ UNCHANGED <<stored, page>>

FormNext ==
  \/ OpenPage \/ AddRow \/ TypeGross \/ Save
  \/ \E n \in 1 .. MaxRows : RemoveRow(n) \/ TypeDescription(n) \/ TypeTotal(n)
  \/ \E rest \in Rests, others \in Others, directory \in Directories,
        type \in {"purchases", "sales", "all"} :
       Export(rest, others, directory, type)

FormSpec == FormInit /\ [][FormNext]_formVars

-------------------------------------------------------------------------------
(* Properties                                                              *)

\* What the reviewer sees is what is stored (QA.md:405, "protects against silent
\* data loss"): an amount written in any of the documented styles is stored as
\* the amount it says, and a line is stored with its own amounts.  Nothing is
\* promised where there is no amount: an emptied field is not rejected, as the
\* same line of QA.md says it is, but stored as NULL, and a NULL that was shown
\* as 0.00 is stored as zero by the next save.
StoredAsWritten ==
  [][open /\ ~open' =>
       /\ field.cents \in {Nil, gross'}
       /\ \A n \in DOMAIN lines' : \E m \in DOMAIN table :
            /\ lines'[n].id = table[m].id
            /\ table[m].total.cents \in {Nil, lines'[n].total}
            /\ table[m].vat.cents \in {Nil, lines'[n].vat}]_formVars

\* No line of the form is lost (review.go:185-220) as long as no row was removed
\* from the middle and none is blank; the rows keep their order.
WholeFormIsSaved ==
  [][open /\ ~open' =>
       \/ removed
       \/ \E n \in DOMAIN table : ~table[n].described /\ table[n].total.text = <<>>
       \/ /\ Len(lines') = Len(table)
          /\ \A n \in DOMAIN table : lines'[n].id = table[n].id]_formVars

Exported == out # NoPayload

Parties(invoices) ==
  {invoices[n].from : n \in DOMAIN invoices} \cup {invoices[n].to : n \in DOMAIN invoices}

\* A code stands for one id.  It does not where the directory has two entries
\* with one code, which no constraint of the database rules out.
CodesIdentify ==
  \A p, q \in Parties(out.invoices) : p.code # "" /\ p.code = q.code => p.id = q.id

\* The list of companies has every id once.  As long as a code stands for one id,
\* every party of an invoice is in the list under the id that the invoice gives it
\* (docs/export-templates.md:188), though the list is put together by keys and
\* not by ids; and sellers are suppliers and buyers are customers (QA.md:341),
\* unless one id is on both sides of the selected invoices.  It is ids that are
\* kept apart: a company that one invoice names by a code the directory does not
\* have, and another by a VAT number it has, is in the list under two ids.
PartiesKeptApart ==
  LET sellers == {out.invoices[n].from.id : n \in DOMAIN out.invoices}
      buyers  == {out.invoices[n].to.id : n \in DOMAIN out.invoices}
  IN  Exported =>
        /\ \A c, d \in out.companies : c.id = d.id => c = d
        /\ CodesIdentify =>
             /\ {c.id : c \in out.companies} = sellers \cup buyers
             /\ sellers \cap buyers = {} =>
                  /\ {c.id : c \in out.suppliers} = sellers
                  /\ {c.id : c \in out.customers} = buyers

\* The buckets of docs/export-templates.md:267-274: no invoice gets lost between
\* them, the purchase-side templates see every invoice of "all", and none twice
\* unless it was selected twice.
BucketsComplete ==
  Exported =>
    /\ IdsDiffer(out.invoices) => IdsDiffer(out.purchases) /\ IdsDiffer(out.sales)
    /\ Range(out.invoices) =
         IF out.type = "sales" THEN Range(out.sales) ELSE Range(out.purchases)
    /\ out.type = "purchases" => out.sales = <<>>
    /\ out.type = "sales" => out.purchases = <<>>

\* Templates that sum the lines get the header's totals, credit notes included
\* (QA.md:356-359), unless a reconciliation warning says otherwise.
LinesAddUp ==
  Exported =>
    \A inv \in Range(out.invoices) :
      inv.id \in warned \/ inv.lines = <<>> \/ ~Beyond(Gaps(inv.lines, inv), 1)

-------------------------------------------------------------------------------
(* What the documentation says and the code does not keep                  *)

\* "All — the system auto-classifies each invoice based on whether the seller or
\* buyer matches your organization" (QA.md:329): what somebody else sold is no
\* sale.  The code compares the seller with the whole directory, which holds
\* every company that an invoice was ever read from.
SalesAreOurs ==
  Exported /\ out.type = "all" =>
    \A n \in DOMAIN out.sales : out.sales[n].from.id = OurId

===============================================================================
