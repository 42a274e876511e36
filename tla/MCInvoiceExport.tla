---------------------------- MODULE MCInvoiceExport ----------------------------
(***************************************************************************)
(* Small instances of InvoiceExport for TLC.                               *)
(***************************************************************************)
EXTENDS InvoiceExport, TLC

CONSTANTS i1, i2

Form(ids, api, mark, re) == [ids |-> ids, api |-> api, mark |-> mark, re |-> re]

\* Two invoices in both orders, posted and as a file; one of them alone, as an
\* explicit re-export and without a mark; one named twice.
MixedForms == {Form(<<i1, i2>>, TRUE,  TRUE,  FALSE),
               Form(<<i2, i1>>, FALSE, TRUE,  FALSE),
               Form(<<i1>>,     TRUE,  TRUE,  TRUE),
               Form(<<i2>>,     TRUE,  FALSE, FALSE),
               Form(<<i2, i2>>, TRUE,  TRUE,  FALSE)}

Interchangeable == Permutations(Requests)

===============================================================================
