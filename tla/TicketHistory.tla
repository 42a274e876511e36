---------------------------- MODULE TicketHistory -----------------------------
(***************************************************************************)
(* What InvoicePipeline promises about tickets, links and statuses.  The   *)
(* recovery of a boot runs beside the HTTP server (serve.go:78-88), so an  *)
(* invoice can be enqueued by its handler and by the recovery; and a       *)
(* failing SQL statement loses a ticket.  Three history variables, which   *)
(* no action reads, record for which invoices that has happened, so that   *)
(* the promises can be stated for all the others.                          *)
(***************************************************************************)
EXTENDS InvoicePipeline

VARIABLES
  doubled,   \* since the last boot: enqueued although they had a ticket
  dropped,   \* since the last boot: taken out of line by an error, and unsettled
  reopened   \* duplicates read a second time, and not saved since

historyVars == <<doubled, dropped, reopened>>
allVars == <<vars, historyVars>>

\* The invoices that a failing statement of this step leaves behind: the worker's
\* claim, its deferred handler, or a recovery that gives up, with what it would
\* still have reset or put in line.
Lost ==
  IF WorkerClaimFails /\ ~IndexRejects(cur, key[cur]) THEN {cur}
  ELSE IF WorkerFail /\ ~SetStatus(cur, "failed") THEN {cur}
  ELSE IF RecoverFails
    THEN stale \cup {i \in Invoices :
           status[i] = "pending" /\ ~(InQueue(i) \/ Sending(i) \/ Taken(i))}
  ELSE {}

\* The recovery opens its cursor over invoices that have a ticket already.
Doubles == {i \in todo' \ todo : HasTicket(i)}

Record ==
  /\ doubled' = IF boot' = "down" THEN {} ELSE doubled \cup Doubles
  /\ dropped' = IF boot' = "down" THEN {}
                ELSE {i \in dropped \cup Lost : ~Settled(i)'}
  /\ reopened' = IF WorkerClaim /\ status[cur] = "duplicate" THEN reopened \cup {cur}
                 ELSE IF WorkerSave THEN reopened \ {cur}
                 ELSE reopened

HistoryInit == Init /\ doubled = {} /\ dropped = {} /\ reopened = {}
HistoryNext == Next /\ Record
HistorySpec == HistoryInit /\ [][HistoryNext]_allVars

FairHistorySpec == HistorySpec /\ Fairness

-------------------------------------------------------------------------------
(* Properties                                                              *)

\* No lost work (recovery.go:13-22, QA.md:243): once the boot recovery is
\* through, a pending invoice always has a ticket that leads it to the worker,
\* unless a failing SQL statement lost it.
NoLostWork ==
  boot = "done" =>
    \A i \in Invoices : status[i] = "pending" => HasTicket(i) \/ i \in dropped

\* One ticket at most (recovery_test.go:34-37): the queue, the blocked handlers,
\* the recovery and the worker never hold the same invoice twice, and they hold
\* only pending ones, so that the unconditional claim of worker.go:74 is
\* harmless; except for the invoices that the recovery found in line already.
SingleTicket ==
  /\ \A i \in Invoices \ doubled : HasTicket(i) => status[i] = "pending"
  /\ \A m, n \in 1 .. Len(queue) :
       queue[m] = queue[n] => m = n \/ queue[m] \in doubled
  /\ \A r, s \in Requests :
       rpc[r] = "enqueue" /\ rpc[s] = "enqueue" /\ rinv[r] = rinv[s] =>
         r = s \/ rinv[r] \in doubled
  /\ \A i \in Invoices \ doubled :
       /\ InQueue(i) => ~Sending(i) /\ ~Taken(i) /\ i \notin todo
       /\ Sending(i) => ~Taken(i) /\ i \notin todo
       /\ Taken(i) => i \notin todo

\* Every chain of duplicate_of_id links ends at an invoice that is no duplicate
\* (the link of the "Duplicate detected" banner, QA.md:234): no set of
\* duplicates has all its links inside.  Duplicates have a link, and a row
\* with a link is a duplicate, or was one and is being read a second time.
DuplicatesGrounded ==
  /\ \A S \in SUBSET {i \in Invoices : status[i] = "duplicate"} :
       S # {} => \E i \in S : dupOf[i] \notin S
  /\ \A i \in Invoices :
       /\ status[i] = "duplicate" => dupOf[i] # NoInvoice
       /\ dupOf[i] # NoInvoice => status[i] = "duplicate" \/ i \in reopened

\* The recovery holds the only connection while it sends (recovery.go:48-65): on
\* a full queue it waits for the worker, which waits for the connection.  That
\* cannot happen while the pending invoices fit the queue and the worker's hand,
\* and none of them was in line already.
RecoveryFitsQueue ==
  /\ doubled = {}
  /\ Cardinality({i \in Invoices : status[i] = "pending" \/ i = cur}) <= QueueCap + 1
  => ~(boot = "send" /\ Len(queue) = QueueCap /\ wpc # "idle")

\* Exported is final: "an already-exported invoice may only be reprocessed when
\* allowUnExport is true" (invoice.go:272-274), and no caller says so.  Handlers
\* check that before they write; what can still undo an export is the second
\* ticket of an invoice, which the worker claims whatever the status is.
ExportedNeverReprocessed ==
  [][\A i \in Invoices \ doubled :
       status[i] = "exported" => status'[i] = "exported"]_allVars

\* Every invoice that is waiting or being read is settled in the end, if the
\* process stays up from some point on (QA.md:243, "nothing is lost"), unless a
\* failing SQL statement has left it behind since the last boot.
EveryInvoiceSettles ==
  <>[](boot # "down") =>
    \A i \in Invoices :
      status[i] \in {"pending", "processing"} ~> Settled(i) \/ i \in dropped

\* The pipeline implements the atomic book of InvoiceLifecycle; the queue, the
\* worker, the handlers and the file column are hidden, and the invoices that
\* the book may begin again are those with a doubled ticket.
Workflow == INSTANCE InvoiceLifecycle WITH
              Invoices <- Invoices, Keys <- Keys,
              NoInvoice <- NoInvoice, NoKey <- NoKey,
              status <- status, key <- key, dupOf <- dupOf, again <- doubled

ImplementsLifecycle == Workflow!BookSpec

===============================================================================
