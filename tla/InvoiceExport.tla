----------------------------- MODULE InvoiceExport -----------------------------
(***************************************************************************)
(* Exports of several invoices, one statement at a time: the status gate,  *)
(* the posting to an accounting API or the rendering of a file, the audit  *)
(* batch, the marks and the answer.  Requests run concurrently with each   *)
(* other and with reviews, edits and reprocessing, and can end early at    *)
(* every step.                                                             *)
(*                                                                         *)
(* The content of an invoice is a version number.  A version is reviewed   *)
(* when a user confirmed or typed it; what the worker extracts is not.     *)
(* The header and the items of an invoice are written in one transaction,  *)
(* but an export reads them with two statements.                           *)
(***************************************************************************)
EXTENDS Naturals, Sequences, FiniteSets

CONSTANTS
  Invoices,
  Requests,    \* export requests; each is submitted at most once
  Forms,       \* what requests ask for, see ExportAssumption
  MaxVersion,  \* bound: versions of an invoice's content
  NoVersion,   \* no items loaded
  NoForm,      \* no request in flight
  NoPosting    \* the accounting program got nothing

ASSUME ExportAssumption ==
  /\ \A f \in Forms :
       /\ f.ids \in Seq(Invoices) /\ f.ids # <<>>  \* may name an invoice twice
       /\ f.api  \in BOOLEAN   \* the template posts to an API
       /\ f.mark \in BOOLEAN   \* mark_exported
       /\ f.re   \in BOOLEAN   \* re_export
  /\ MaxVersion \in Nat
  /\ NoVersion \notin Nat /\ NoForm \notin Forms

VARIABLES
  status,      \* column status; "pending" stands for pending and processing
  version,     \* the content of the row and of its items
  reviewed,    \* its versions that a user confirmed or typed
  pc,          \* where ExportInvoices stands for each request
  form,        \* what the request asks for
  next,        \* index of the loop it is in
  head,        \* versions of the headers loaded, in the order of the ids
  lines,       \* itemsByInvoice: version of the items loaded
  batch,       \* invoice_count of the export_batches row, 0 if there is none
  linked,      \* its export_batch_items rows
  ledger,      \* what the accounting program got from the request
  after        \* history: the requests answered "ok" before this one began

bookVars  == <<status, version, reviewed>>
localVars == <<form, next, head, lines>>
auditVars == <<batch, linked>>
vars == <<bookVars, pc, localVars, auditVars, ledger, after>>

Versions == 0 .. MaxVersion

Payloads == [form : Forms, head : Seq(Versions),
             lines : [Invoices -> Versions \cup {NoVersion}]]

NoLines == [i \in Invoices |-> NoVersion]

Init ==
  /\ status   = [i \in Invoices |-> "processed"]
  /\ version  = [i \in Invoices |-> 0]
  /\ reviewed = [i \in Invoices |-> {}]
  /\ pc     = [r \in Requests |-> "idle"]
  /\ form   = [r \in Requests |-> NoForm]
  /\ next   = [r \in Requests |-> 1]
  /\ head   = [r \in Requests |-> <<>>]
  /\ lines  = [r \in Requests |-> NoLines]
  /\ batch  = [r \in Requests |-> 0]
  /\ linked = [r \in Requests |-> {}]
  /\ ledger = [r \in Requests |-> NoPosting]
  /\ after  = [r \in Requests |-> {}]

-------------------------------------------------------------------------------
(* The steps of a request                                                  *)

Ids(r) == form[r].ids

InFlight(r) == pc[r] \notin {"idle", "ok", "error"}

\* The invoice the loop is at, and the loop's next round or what follows it.
Current(r) == Ids(r)[next[r]]

\* Mutant: the bound of the loop is off by one.
LoopPastTheEnd(r, again, then) ==
  IF next[r] <= Len(Ids(r))
    THEN /\ next' = [next EXCEPT ![r] = @ + 1]
         /\ pc'   = [pc   EXCEPT ![r] = again]
    ELSE /\ next' = [next EXCEPT ![r] = 1]
         /\ pc'   = [pc   EXCEPT ![r] = then]

Loop(r, again, then) ==
  IF next[r] < Len(Ids(r))
    THEN /\ next' = [next EXCEPT ![r] = @ + 1]
         /\ pc'   = [pc   EXCEPT ![r] = again]
    ELSE /\ next' = [next EXCEPT ![r] = 1]
         /\ pc'   = [pc   EXCEPT ![r] = then]

\* The requests of R end, and their locals with them.
Finish(R, answer) ==
  /\ pc'    = [r \in Requests |-> IF r \in R THEN answer  ELSE pc[r]]
  /\ form'  = [r \in Requests |-> IF r \in R THEN NoForm  ELSE form[r]]
  /\ next'  = [r \in Requests |-> IF r \in R THEN 1       ELSE next[r]]
  /\ head'  = [r \in Requests |-> IF r \in R THEN <<>>    ELSE head[r]]
  /\ lines' = [r \in Requests |-> IF r \in R THEN NoLines ELSE lines[r]]

\* The payload arrives.
Receive(r) ==
  ledger' = [ledger EXCEPT ![r] = [form |-> form[r], head |-> head[r],
                                   lines |-> lines[r]]]

Submit(r, f) ==
  /\ pc[r] = "idle"
  /\ pc'    = [pc    EXCEPT ![r] = "header"]
  /\ form'  = [form  EXCEPT ![r] = f]
  /\ after' = [after EXCEPT ![r] = {s \in Requests : pc[s] = "ok"}]
  /\ UNCHANGED <<bookVars, next, head, lines, auditVars, ledger>>

\* Mutant: the gate lets invoices pass that were never confirmed.
ExportableUnconfirmed(r, i) ==
  \/ status[i] \in {"processed", "ready_for_export"}
  \/ status[i] = "exported" /\ form[r].re

\* The status gate of loadExportData.
Exportable(r, i) ==
  status[i] = "ready_for_export" \/ (status[i] = "exported" /\ form[r].re)

LoadHeader(r) ==
  /\ pc[r] = "header" /\ Exportable(r, Current(r))
  /\ head' = [head EXCEPT ![r] = Append(@, version[Current(r)])]
  /\ pc'   = [pc   EXCEPT ![r] = "items"]
  /\ UNCHANGED <<bookVars, form, next, lines, auditVars, ledger, after>>

Refuse(r) ==
  /\ pc[r] = "header" /\ ~Exportable(r, Current(r))
  /\ Finish({r}, "error")
  /\ UNCHANGED <<bookVars, auditVars, ledger, after>>

\* ListInvoiceItems reads again, and does not look at the status.
LoadItems(r) ==
  /\ pc[r] = "items"
  /\ lines' = [lines EXCEPT ![r][Current(r)] = version[Current(r)]]
  /\ Loop(r, "header", "send")
  /\ UNCHANGED <<bookVars, form, head, auditVars, ledger, after>>

\* ExecuteAPI: the answer may get lost after the payload has arrived.
PostToAPI(r) ==
  /\ pc[r] = "send" /\ form[r].api
  /\ Receive(r)
  /\ \/ pc' = [pc EXCEPT ![r] = "batch"] /\ UNCHANGED localVars
     \/ Finish({r}, "error")
  /\ UNCHANGED <<bookVars, auditVars, after>>

\* Mutant: only postings are recorded.
RenderUnrecorded(r) ==
  /\ pc[r] = "send" /\ ~form[r].api
  /\ pc' = [pc EXCEPT ![r] = IF form[r].mark THEN "mark" ELSE "answer"]
  /\ UNCHANGED <<bookVars, localVars, auditVars, ledger, after>>

\* A file is rendered into memory; the client has it when the request answers.
RenderFile(r) ==
  /\ pc[r] = "send" /\ ~form[r].api
  /\ pc' = [pc EXCEPT ![r] = "batch"]
  /\ UNCHANGED <<bookVars, localVars, auditVars, ledger, after>>

RecordBatch(r) ==
  /\ pc[r] = "batch"
  /\ batch' = [batch EXCEPT ![r] = Len(head[r])]
  /\ pc'    = [pc    EXCEPT ![r] = "link"]
  /\ UNCHANGED <<bookVars, localVars, linked, ledger, after>>

\* One INSERT per id; the primary key rejects an id that comes twice.
LinkInvoice(r) ==
  /\ pc[r] = "link" /\ Current(r) \notin linked[r]
  /\ linked' = [linked EXCEPT ![r] = @ \cup {Current(r)}]
  /\ Loop(r, "link", IF form[r].mark THEN "mark" ELSE "answer")
  /\ UNCHANGED <<bookVars, form, head, lines, batch, ledger, after>>

LinkRejected(r) ==
  /\ pc[r] = "link" /\ Current(r) \in linked[r]
  /\ Finish({r}, "error")
  /\ UNCHANGED <<bookVars, auditVars, ledger, after>>

\* Mutant: only the first invoice of the request is marked.
MarkFirstOnly(r) ==
  /\ pc[r] = "mark"
  /\ status' = [status EXCEPT ![Current(r)] =
                  IF @ = "ready_for_export" THEN "exported" ELSE @]
  /\ pc' = [pc EXCEPT ![r] = "answer"]
  /\ UNCHANGED <<version, reviewed, localVars, auditVars, ledger, after>>

\* One UPDATE per id; a row that is no longer ready is skipped silently.
MarkExported(r) ==
  /\ pc[r] = "mark"
  /\ status' = [status EXCEPT ![Current(r)] =
                  IF @ = "ready_for_export" THEN "exported" ELSE @]
  /\ Loop(r, "mark", "answer")
  /\ UNCHANGED <<version, reviewed, form, head, lines, auditVars, ledger, after>>

Answer(r) ==
  /\ pc[r] = "answer"
  /\ Receive(r)
  /\ Finish({r}, "ok")
  /\ UNCHANGED <<bookVars, auditVars, after>>

\* An SQL error, a broken template, a refused posting or a client that is gone.
Abort(r) ==
  /\ InFlight(r)
  /\ Finish({r}, "error")
  /\ UNCHANGED <<bookVars, auditVars, ledger, after>>

\* The process is killed; every request in flight ends where it is.
Crash ==
  /\ \E r \in Requests : InFlight(r)
  /\ Finish({r \in Requests : InFlight(r)}, "error")
  /\ UNCHANGED <<bookVars, auditVars, ledger, after>>

-------------------------------------------------------------------------------
(* What others do to the invoices meanwhile                                *)

ConfirmInvoice(i) ==
  /\ status[i] = "processed"
  /\ status'   = [status   EXCEPT ![i] = "ready_for_export"]
  /\ reviewed' = [reviewed EXCEPT ![i] = @ \cup {version[i]}]
  /\ UNCHANGED version

\* An edit opened on a reviewable invoice is written whatever its status is by
\* then (see InvoicePipeline); the form holds every field.
UpdateInvoice(i) ==
  /\ version[i] < MaxVersion
  /\ version'  = [version  EXCEPT ![i] = @ + 1]
  /\ reviewed' = [reviewed EXCEPT ![i] = @ \cup {version[i] + 1}]
  /\ UNCHANGED status

ScheduleReprocess(i) ==
  /\ status[i] \in {"failed", "processed", "ready_for_export"}
  /\ status' = [status EXCEPT ![i] = "pending"]
  /\ UNCHANGED <<version, reviewed>>

\* The worker saves what it extracted, or fails.  A duplicate it finds can never
\* be exported: for exports it is an invoice that stays pending.
WorkerSave(i) ==
  /\ status[i] = "pending" /\ version[i] < MaxVersion
  /\ status'  = [status  EXCEPT ![i] = "processed"]
  /\ version' = [version EXCEPT ![i] = @ + 1]
  /\ UNCHANGED reviewed

WorkerFail(i) ==
  /\ status[i] = "pending"
  /\ status' = [status EXCEPT ![i] = "failed"]
  /\ UNCHANGED <<version, reviewed>>

-------------------------------------------------------------------------------

ExportInvoices(r) ==
  \/ \E f \in Forms : Submit(r, f)
  \/ LoadHeader(r) \/ Refuse(r) \/ LoadItems(r)
  \/ PostToAPI(r) \/ RenderFile(r)
  \/ RecordBatch(r) \/ LinkInvoice(r) \/ LinkRejected(r)
  \/ MarkExported(r) \/ Answer(r) \/ Abort(r)

Others(i) ==
  /\ \/ ConfirmInvoice(i) \/ UpdateInvoice(i) \/ ScheduleReprocess(i)
     \/ WorkerSave(i) \/ WorkerFail(i)
  /\ UNCHANGED <<pc, localVars, auditVars, ledger, after>>

Next ==
  \/ \E r \in Requests : ExportInvoices(r)
  \/ \E i \in Invoices : Others(i)
  \/ Crash

Spec == Init /\ [][Next]_vars

-------------------------------------------------------------------------------
(* Properties                                                              *)

\* Type correctness of the columns, the locals of each request and the ledger.
TypeOK ==
  /\ status   \in [Invoices -> {"pending", "processed", "failed",
                                "ready_for_export", "exported"}]
  /\ version  \in [Invoices -> Versions]
  /\ reviewed \in [Invoices -> SUBSET Versions]
  /\ pc   \in [Requests -> {"idle", "header", "items", "send", "batch", "link",
                            "mark", "answer", "ok", "error"}]
  /\ form \in [Requests -> Forms \cup {NoForm}]
  /\ next \in [Requests -> Nat \ {0}]
  /\ head \in [Requests -> Seq(Versions)]
  /\ lines  \in [Requests -> [Invoices -> Versions \cup {NoVersion}]]
  /\ batch  \in [Requests -> Nat]
  /\ linked \in [Requests -> SUBSET Invoices]
  /\ ledger \in [Requests -> Payloads \cup {NoPosting}]
  /\ after  \in [Requests -> SUBSET Requests]
  /\ \A r \in Requests : IF InFlight(r)
                          THEN form[r] \in Forms /\ next[r] <= Len(Ids(r))
                          ELSE next[r] = 1

Posted(r) == ledger[r] # NoPosting

Postings(r) == 1 .. Len(ledger[r].head)

\* The audit batch of the request has an item for each invoice it counts.
Recorded(r) == batch[r] > 0 /\ Cardinality(linked[r]) = batch[r]

\* Nothing is marked, and no success is reported, before the audit batch names
\* every invoice of the run (QA.md:353, export.go:173-177).
RecordedFirst ==
  /\ \A i \in Invoices : status[i] = "exported" =>
       \E r \in Requests : Recorded(r) /\ i \in linked[r]
  /\ \A r \in Requests : pc[r] = "ok" =>
       Recorded(r) /\ linked[r] = {ledger[r].form.ids[n] : n \in Postings(r)}

\* Every header that reaches the accounting program was reviewed (QA.md:350),
\* though the invoice may be edited, reprocessed or exported by others between
\* the gate and the posting.
PostedHeadersReviewed ==
  \A r \in Requests : Posted(r) =>
    \A n \in Postings(r) : ledger[r].head[n] \in reviewed[ledger[r].form.ids[n]]

\* Two requests post the same content of an invoice.
SamePosted(r, s) ==
  \E m \in Postings(r), n \in Postings(s) :
    /\ ledger[r].form.ids[m] = ledger[s].form.ids[n]
    /\ ledger[r].head[m] = ledger[s].head[n]

\* What a finished export has marked is not posted again by a request that
\* begins later, except on explicit re-export or after a new extraction
\* (QA.md:350): the gate and the marks that skip rows silently are enough.
NoLaterRepost ==
  \A s \in Requests : \A r \in after[s] :
    Posted(s) /\ ledger[r].form.mark /\ ~ledger[s].form.re => ~SamePosted(r, s)

===============================================================================
