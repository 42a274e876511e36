--------------------------- MODULE InvoiceLifecycle ---------------------------
(***************************************************************************)
(* What the invoice pipeline promises about one organisation's invoices,   *)
(* with no queue, worker, request or restart in sight: every change is one *)
(* atomic step, a business key belongs to at most one live invoice, and a  *)
(* duplicate names another invoice as its original.  TicketHistory shows   *)
(* that InvoicePipeline implements it.  The permitted status changes are   *)
(* those of QA.md:285-297 together with the ones only the worker and the   *)
(* boot recovery make, and one exception: an invoice that was put in line  *)
(* while a boot was looking for pending ones can be read a second time.    *)
(***************************************************************************)
EXTENDS Naturals

CONSTANTS
  Invoices,    \* row ids of table invoices
  Keys,        \* business keys: pairs <<seller_vat, series_and_number>>
  NoInvoice,   \* NULL in duplicate_of_id
  NoKey        \* NULL in seller_vat and series_and_number

VARIABLES
  status,      \* column status of each row; "absent" before its INSERT
  key,         \* columns seller_vat and series_and_number
  dupOf,       \* column duplicate_of_id
  again        \* the invoices that the last boot put in line a second time

rowVars  == <<status, key, dupOf>>
bookVars == <<rowVars, again>>

Statuses == {"absent", "pending", "processing", "processed", "failed",
             "ready_for_export", "exported", "duplicate"}

\* The rows the unique index covers: all that exist and are not duplicates.
Live(i) == status[i] \notin {"absent", "duplicate"}

\* Writing key k into row i would violate the unique index.
KeyTaken(i, k) == \E j \in Invoices \ {i} : Live(j) /\ key[j] = k

BookInit ==
  /\ status = [i \in Invoices |-> "absent"]
  /\ key    = [i \in Invoices |-> NoKey]
  /\ dupOf  = [i \in Invoices |-> NoInvoice]
  /\ again  = {}

Move(i, from, to) ==
  /\ status[i] \in from
  /\ status' = [status EXCEPT ![i] = to]

\* A new file, or a file whose checksum is already known.
Register(i) ==
  Move(i, {"absent"}, "pending") /\ UNCHANGED <<key, dupOf, again>>

RegisterDuplicate(i, j) ==
  /\ j # i /\ status[j] # "absent"
  /\ Move(i, {"absent"}, "duplicate")
  /\ dupOf' = [dupOf EXCEPT ![i] = j]
  /\ UNCHANGED <<key, again>>

\* The worker's four effects on a row.  Once begun a second time, a duplicate is
\* live again: the unique index must allow that.
Begin(i) ==
  /\ Move(i, IF i \in again THEN Statuses \ {"absent"} ELSE {"pending"}, "processing")
  /\ Live(i) \/ key[i] = NoKey \/ ~KeyTaken(i, key[i])
  /\ UNCHANGED <<key, dupOf, again>>

Publish(i, k) ==
  /\ ~KeyTaken(i, k)
  /\ Move(i, {"processing"}, "processed")
  /\ key'   = [key   EXCEPT ![i] = k]
  /\ dupOf' = [dupOf EXCEPT ![i] = NoInvoice]
  /\ UNCHANGED again

MarkDuplicate(i, j, k) ==
  /\ j # i /\ Live(j)
  /\ Move(i, {"processing"}, "duplicate")
  /\ key'   = [key EXCEPT ![i] = k]
  /\ dupOf' = [dupOf EXCEPT ![i] = j]
  /\ UNCHANGED again

Fail(i) ==
  Move(i, {"processing"}, "failed") /\ UNCHANGED <<key, dupOf, again>>

\* A boot puts interrupted extractions back in line, and some invoices that are
\* in line already, a second time; the next crash forgets those.
Interrupt(S) ==
  /\ \A i \in S : status[i] = "processing"
  /\ status' = [i \in Invoices |-> IF i \in S THEN "pending" ELSE status[i]]
  /\ UNCHANGED <<key, dupOf, again>>

LineUpAgain(S) ==
  /\ \A i \in S : status[i] = "pending"
  /\ again' = again \cup S
  /\ UNCHANGED rowVars

Forget == again' = {} /\ UNCHANGED rowVars

\* The user's effects.
Confirm(i) ==
  Move(i, {"processed"}, "ready_for_export") /\ UNCHANGED <<key, dupOf, again>>

Redo(i) ==
  /\ Move(i, {"failed", "processed", "ready_for_export"}, "pending")
  /\ UNCHANGED <<key, dupOf, again>>

Export(i) ==
  Move(i, {"ready_for_export"}, "exported") /\ UNCHANGED <<key, dupOf, again>>

\* An edit may rewrite the key of any row that exists: the code checks the
\* status only when it reads, so that even an exported row can still change.
Amend(i, k) ==
  /\ status[i] # "absent"
  /\ Live(i) => ~KeyTaken(i, k)
  /\ key' = [key EXCEPT ![i] = k]
  /\ UNCHANGED <<status, dupOf, again>>

BookNext ==
  \/ \E i \in Invoices :
       \/ Register(i) \/ Begin(i) \/ Fail(i)
       \/ Confirm(i) \/ Redo(i) \/ Export(i)
       \/ \E j \in Invoices : RegisterDuplicate(i, j)
       \/ \E k \in Keys : Publish(i, k) \/ Amend(i, k)
       \/ \E j \in Invoices, k \in Keys : MarkDuplicate(i, j, k)
  \/ \E S \in SUBSET Invoices : Interrupt(S) \/ LineUpAgain(S)
  \/ Forget

BookSpec == BookInit /\ [][BookNext]_bookVars

===============================================================================
