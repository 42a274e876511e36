-------------------------- MODULE InvoiceExportProofs --------------------------
(***************************************************************************)
(* Theorems about InvoiceExport for every value of its constants.          *)
(***************************************************************************)
EXTENDS InvoiceExport, FiniteSetTheorems, TLAPS

-------------------------------------------------------------------------------
(* The inductive invariant, in named parts                                 *)

Loaded(r) == pc[r] \in {"send", "batch", "link", "mark", "answer"}

\* A request at rest has no locals; one in flight has loaded what its place says.
LocalsOK(r) ==
  /\ pc[r] = "idle"    => ledger[r] = NoPosting
  /\ ~InFlight(r)      => head[r] = <<>>
  /\ pc[r] = "header"  => Len(head[r]) = next[r] - 1
  /\ pc[r] = "items"   => Len(head[r]) = next[r]
  /\ Loaded(r)         => Len(head[r]) = Len(Ids(r))
  /\ pc[r] \in {"send", "batch", "answer"} => next[r] = 1

\* What it has loaded was confirmed, and what it has posted as well.
HeadsReviewed(r) ==
  InFlight(r) => \A n \in 1 .. Len(head[r]) : head[r][n] \in reviewed[Ids(r)[n]]

PostingReviewed(r) ==
  Posted(r) =>
    /\ ledger[r] \in Payloads
    /\ Len(ledger[r].head) = Len(ledger[r].form.ids)
    /\ \A n \in Postings(r) : ledger[r].head[n] \in reviewed[ledger[r].form.ids[n]]

RequestInv(r) == LocalsOK(r) /\ HeadsReviewed(r) /\ PostingReviewed(r)

StatusReviewed ==
  \A i \in Invoices :
    status[i] \in {"ready_for_export", "exported"} => version[i] \in reviewed[i]

ReviewInv == TypeOK /\ StatusReviewed /\ \A r \in Requests : RequestInv(r)

\* The invoices of the first n ids of f.
FirstOf(f, n) == {f.ids[m] : m \in 1 .. n}

\* How far the audit batch of a request is.
BatchOK(r) ==
  /\ IsFiniteSet(linked[r])
  /\ pc[r] \in {"idle", "header", "items", "send", "batch"} =>
       batch[r] = 0 /\ linked[r] = {}
  /\ pc[r] = "link" =>
       /\ batch[r] = Len(Ids(r))
       /\ linked[r] = FirstOf(form[r], next[r] - 1)
       /\ Cardinality(linked[r]) = next[r] - 1
  /\ pc[r] \in {"mark", "answer"} =>
       Recorded(r) /\ linked[r] = FirstOf(form[r], Len(Ids(r)))
  /\ pc[r] = "ok" =>
       /\ ledger[r] \in Payloads
       /\ Len(ledger[r].head) = Len(ledger[r].form.ids)
       /\ Recorded(r) /\ linked[r] = FirstOf(ledger[r].form, Len(ledger[r].form.ids))

\* An invoice marked exported is in the audit batch of a request.
MarkedIsRecorded ==
  \A i \in Invoices : status[i] = "exported" =>
    \E r \in Requests : Recorded(r) /\ i \in linked[r]

BatchInv == MarkedIsRecorded /\ \A r \in Requests : BatchOK(r)

\* What can have become of an invoice since version v was loaded: only a new
\* version makes it reviewable again.
SinceLoad(i, v) ==
  /\ v <= version[i]
  /\ version[i] = v => status[i] # "processed"

\* ... and since it was marked: only a new version makes it exportable again.
SinceMark(i, v) ==
  /\ SinceLoad(i, v)
  /\ version[i] = v => status[i] # "ready_for_export"

MarkOK(r) ==
  /\ InFlight(r) => \A n \in 1 .. Len(head[r]) : SinceLoad(Ids(r)[n], head[r][n])
  /\ pc[r] = "mark" => \A n \in 1 .. next[r] - 1 : SinceMark(Ids(r)[n], head[r][n])
  /\ pc[r] = "answer" /\ form[r].mark =>
       \A n \in 1 .. Len(head[r]) : SinceMark(Ids(r)[n], head[r][n])
  /\ pc[r] = "ok" /\ ledger[r].form.mark =>
       \A n \in Postings(r) : SinceMark(ledger[r].form.ids[n], ledger[r].head[n])

\* A request without re-export loads nothing that an earlier one has marked.
LoadsOnlyNew(s, r) ==
  InFlight(s) /\ ~form[s].re /\ ledger[r].form.mark =>
    \A m \in Postings(r), n \in 1 .. Len(head[s]) :
      ledger[r].form.ids[m] = Ids(s)[n] => ledger[r].head[m] # head[s][n]

LaterOK(s) ==
  \A r \in after[s] :
    /\ pc[r] = "ok"
    /\ LoadsOnlyNew(s, r)
    /\ Posted(s) /\ ledger[r].form.mark /\ ~ledger[s].form.re => ~SamePosted(r, s)

LaterInv == \A r \in Requests : MarkOK(r) /\ LaterOK(r)

-------------------------------------------------------------------------------
(* Types                                                                   *)

LEMMA FormFacts ==
  ASSUME NEW f \in Forms
  PROVE  /\ f.ids \in Seq(Invoices)
         /\ Len(f.ids) \in Nat \ {0}
         /\ \A n \in 1 .. Len(f.ids) : f.ids[n] \in Invoices
  BY ExportAssumption

\* The invoice a loop is at is one of the request's.
LEMMA CurrentFacts ==
  ASSUME TypeOK, NEW r \in Requests, InFlight(r)
  PROVE  /\ form[r] \in Forms
         /\ next[r] \in 1 .. Len(Ids(r))
         /\ Len(Ids(r)) \in Nat \ {0}
         /\ Current(r) \in Invoices
         /\ \A n \in 1 .. Len(Ids(r)) : Ids(r)[n] \in Invoices
  BY FormFacts DEF TypeOK, Ids, Current

LEMMA InitTypeOK == Init => TypeOK
  BY ExportAssumption DEF Init, TypeOK, Versions, NoLines, InFlight

\* A round of a loop keeps its index within the ids of the request.
LEMMA LoopTypes ==
  ASSUME TypeOK, NEW r \in Requests, InFlight(r),
         NEW again, NEW then, Loop(r, again, then)
  PROVE  /\ next' \in [Requests -> Nat \ {0}]
         /\ next'[r] <= Len(Ids(r))
         /\ \A s \in Requests \ {r} : next'[s] = next[s] /\ pc'[s] = pc[s]
         /\ pc' = [pc EXCEPT ![r] = again] \/ pc' = [pc EXCEPT ![r] = then]
<1>1. /\ next \in [Requests -> Nat \ {0}] /\ pc = [s \in Requests |-> pc[s]]
      /\ next[r] \in 1 .. Len(Ids(r)) /\ Len(Ids(r)) \in Nat \ {0}
  BY CurrentFacts DEF TypeOK
<1>2. \/ next[r] < Len(Ids(r)) /\ next' = [next EXCEPT ![r] = @ + 1]
         /\ pc' = [pc EXCEPT ![r] = again]
      \/ next' = [next EXCEPT ![r] = 1] /\ pc' = [pc EXCEPT ![r] = then]
  BY DEF Loop
<1>3. CASE next[r] < Len(Ids(r)) /\ next' = [next EXCEPT ![r] = @ + 1]
  <2>1. next'[r] = next[r] + 1
    BY <1>1, <1>3
  <2> QED
    BY <1>1, <1>2, <1>3, <2>1
<1>4. CASE next' = [next EXCEPT ![r] = 1]
  BY <1>1, <1>2, <1>4
<1> QED
  BY <1>2, <1>3, <1>4

\* Whoever ends leaves locals of the right type behind.
LEMMA FinishTypes ==
  ASSUME TypeOK, NEW R \in SUBSET Requests, NEW answer \in {"ok", "error"},
         Finish(R, answer), UNCHANGED <<bookVars, auditVars, after>>,
         ledger' \in [Requests -> Payloads \cup {NoPosting}]
  PROVE  TypeOK'
<1>1. /\ pc' \in [Requests -> {"idle", "header", "items", "send", "batch",
                               "link", "mark", "answer", "ok", "error"}]
      /\ form' \in [Requests -> Forms \cup {NoForm}]
      /\ next' \in [Requests -> Nat \ {0}]
  BY DEF TypeOK, Finish
<1>2. head' \in [Requests -> Seq(Versions)]
  BY DEF TypeOK, Finish
<1>3. lines' \in [Requests -> [Invoices -> Versions \cup {NoVersion}]]
  BY DEF TypeOK, Finish, NoLines
<1>4. \A r \in Requests : IF InFlight(r)'
                         THEN form'[r] \in Forms /\ next'[r] <= Len(Ids(r)')
                         ELSE next'[r] = 1
  BY DEF TypeOK, Finish, InFlight, Ids
<1> QED
  BY <1>1, <1>2, <1>3, <1>4 DEF TypeOK, bookVars, auditVars

\* What is posted is a payload.
LEMMA ReceiveTypes ==
  ASSUME TypeOK, NEW r \in Requests, InFlight(r), Receive(r)
  PROVE  ledger' \in [Requests -> Payloads \cup {NoPosting}]
  BY CurrentFacts DEF TypeOK, Receive, Payloads

LEMMA NextTypeOK == TypeOK /\ [Next]_vars => TypeOK'
<1> SUFFICES ASSUME TypeOK, [Next]_vars PROVE TypeOK'
  OBVIOUS
<1>1. ASSUME NEW r \in Requests, ExportInvoices(r) PROVE TypeOK'
  <2> USE DEF bookVars, localVars, auditVars
  <2>1. ASSUME NEW f \in Forms, Submit(r, f) PROVE TypeOK'
    <3>1. /\ pc'   = [pc   EXCEPT ![r] = "header"]
          /\ form' = [form EXCEPT ![r] = f]
          /\ next' = next /\ next[r] = 1
      BY <2>1 DEF Submit, TypeOK, InFlight
    <3>2. \A s \in Requests : IF InFlight(s)'
                             THEN form'[s] \in Forms /\ next'[s] <= Len(Ids(s)')
                             ELSE next'[s] = 1
      BY <3>1, FormFacts DEF TypeOK, InFlight, Ids
    <3> QED
      BY <2>1, <3>1, <3>2 DEF Submit, TypeOK
  <2>2. CASE LoadHeader(r)
    <3>1. version[Current(r)] \in Versions
      BY <2>2, CurrentFacts DEF LoadHeader, InFlight, TypeOK
    <3> QED
      BY <2>2, <3>1 DEF LoadHeader, TypeOK, InFlight, Ids
  <2>3. CASE Refuse(r)
    BY <2>3, FinishTypes DEF Refuse, TypeOK
  <2>4. CASE LoadItems(r)
    <3>1. InFlight(r) /\ version[Current(r)] \in Versions
      BY <2>4, CurrentFacts DEF LoadItems, InFlight, TypeOK
    <3>2. PICK to \in {"header", "send"} : pc' = [pc EXCEPT ![r] = to]
      BY <2>4, <3>1, LoopTypes DEF LoadItems
    <3>3. /\ next' \in [Requests -> Nat \ {0}]
          /\ \A s \in Requests : IF InFlight(s)'
                                THEN form'[s] \in Forms /\ next'[s] <= Len(Ids(s)')
                                ELSE next'[s] = 1
      BY <2>4, <3>1, <3>2, LoopTypes DEF LoadItems, TypeOK, InFlight, Ids
    <3> QED
      BY <2>4, <3>1, <3>2, <3>3 DEF LoadItems, TypeOK
  <2>5. CASE PostToAPI(r)
    <3>1. ledger' \in [Requests -> Payloads \cup {NoPosting}]
      BY <2>5, ReceiveTypes DEF PostToAPI, InFlight
    <3>2. CASE Finish({r}, "error")
      BY <2>5, <3>1, <3>2, FinishTypes DEF PostToAPI
    <3>3. CASE pc' = [pc EXCEPT ![r] = "batch"] /\ UNCHANGED localVars
      BY <2>5, <3>1, <3>3 DEF PostToAPI, TypeOK, InFlight, Ids
    <3> QED
      BY <2>5, <3>2, <3>3 DEF PostToAPI
  <2>6. CASE RenderFile(r)
    BY <2>6 DEF RenderFile, TypeOK, InFlight, Ids
  <2>7. CASE RecordBatch(r)
    BY <2>7 DEF RecordBatch, TypeOK, InFlight, Ids
  <2>8. CASE LinkInvoice(r)
    <3>1. InFlight(r) /\ Current(r) \in Invoices
      BY <2>8, CurrentFacts DEF LinkInvoice, InFlight
    <3>2. PICK to \in {"link", "mark", "answer"} : pc' = [pc EXCEPT ![r] = to]
      BY <2>8, <3>1, LoopTypes DEF LinkInvoice
    <3>3. /\ next' \in [Requests -> Nat \ {0}]
          /\ \A s \in Requests : IF InFlight(s)'
                                THEN form'[s] \in Forms /\ next'[s] <= Len(Ids(s)')
                                ELSE next'[s] = 1
      BY <2>8, <3>1, <3>2, LoopTypes DEF LinkInvoice, TypeOK, InFlight, Ids
    <3> QED
      BY <2>8, <3>1, <3>2, <3>3 DEF LinkInvoice, TypeOK
  <2>9. CASE LinkRejected(r)
    BY <2>9, FinishTypes DEF LinkRejected, TypeOK
  <2>10. CASE MarkExported(r)
    <3>1. InFlight(r) /\ Current(r) \in Invoices
      BY <2>10, CurrentFacts DEF MarkExported, InFlight
    <3>2. PICK to \in {"mark", "answer"} : pc' = [pc EXCEPT ![r] = to]
      BY <2>10, <3>1, LoopTypes DEF MarkExported
    <3>3. /\ next' \in [Requests -> Nat \ {0}]
          /\ \A s \in Requests : IF InFlight(s)'
                                THEN form'[s] \in Forms /\ next'[s] <= Len(Ids(s)')
                                ELSE next'[s] = 1
      BY <2>10, <3>1, <3>2, LoopTypes DEF MarkExported, TypeOK, InFlight, Ids
    <3> QED
      BY <2>10, <3>1, <3>2, <3>3 DEF MarkExported, TypeOK
  <2>11. CASE Answer(r)
    BY <2>11, ReceiveTypes, FinishTypes DEF Answer, InFlight
  <2>12. CASE Abort(r)
    BY <2>12, FinishTypes DEF Abort, TypeOK
  <2> QED
    BY <1>1, <2>1, <2>2, <2>3, <2>4, <2>5, <2>6, <2>7, <2>8, <2>9, <2>10, <2>11,
       <2>12 DEF ExportInvoices
<1>2. ASSUME NEW i \in Invoices, Others(i) PROVE TypeOK'
  <2>1. UNCHANGED <<pc, localVars, auditVars, ledger, after>>
    BY <1>2 DEF Others
  <2>2. /\ status' \in [Invoices -> {"pending", "processed", "failed",
                                     "ready_for_export", "exported"}]
        /\ version'  \in [Invoices -> Versions]
        /\ reviewed' \in [Invoices -> SUBSET Versions]
    <3>1. version[i] < MaxVersion => version[i] + 1 \in Versions
      BY ExportAssumption DEF TypeOK, Versions
    <3>2. version[i] \in Versions
      BY DEF TypeOK
    <3>3. CASE ConfirmInvoice(i)
      BY <3>2, <3>3 DEF ConfirmInvoice, TypeOK
    <3>4. CASE UpdateInvoice(i)
      BY <3>1, <3>4 DEF UpdateInvoice, TypeOK
    <3>5. CASE ScheduleReprocess(i) \/ WorkerFail(i)
      BY <3>5 DEF ScheduleReprocess, WorkerFail, TypeOK
    <3>6. CASE WorkerSave(i)
      BY <3>1, <3>6 DEF WorkerSave, TypeOK
    <3> QED
      BY <1>2, <3>3, <3>4, <3>5, <3>6 DEF Others
  <2>3. \A r \in Requests : InFlight(r)' = InFlight(r) /\ Ids(r)' = Ids(r)
    BY <2>1 DEF InFlight, Ids, localVars
  <2>4. UNCHANGED <<pc, form, next, head, lines, batch, linked, ledger, after>>
    BY <2>1 DEF localVars, auditVars
  <2>5. \A r \in Requests : IF InFlight(r)'
                           THEN form'[r] \in Forms /\ next'[r] <= Len(Ids(r)')
                           ELSE next'[r] = 1
    BY <2>3, <2>4 DEF TypeOK
  <2>6. ledger' \in [Requests -> Payloads \cup {NoPosting}]
    BY <2>4 DEF TypeOK
  <2> QED
    BY <2>2, <2>4, <2>5, <2>6 DEF TypeOK
<1>3. CASE Crash
  BY <1>3, FinishTypes DEF Crash, TypeOK
<1>4. CASE UNCHANGED vars
  BY <1>4 DEF vars, bookVars, localVars, auditVars, TypeOK, InFlight, Ids
<1> QED
  BY <1>1, <1>2, <1>3, <1>4 DEF Next

\* Type correctness: versions stay within their bound, program counters and
\* locals in their ranges, and a loop over the ids of a request never leaves them.
THEOREM TypeCorrect == Spec => []TypeOK
<1>1. Init => TypeOK
  BY InitTypeOK
<1>2. TypeOK /\ [Next]_vars => TypeOK'
  BY NextTypeOK
<1> QED
  BY <1>1, <1>2, PTL DEF Spec

-------------------------------------------------------------------------------
(* What a step leaves alone                                                *)

\* Nothing of request s changes.
Untouched(s) ==
  /\ pc'[s] = pc[s] /\ form'[s] = form[s] /\ next'[s] = next[s]
  /\ head'[s] = head[s] /\ ledger'[s] = ledger[s] /\ after'[s] = after[s]
  /\ batch'[s] = batch[s] /\ linked'[s] = linked[s]

\* A request ends.
Ended(s) ==
  /\ InFlight(s) /\ pc'[s] \in {"ok", "error"}
  /\ head'[s] = <<>> /\ next'[s] = 1
  /\ after'[s] = after[s] /\ batch'[s] = batch[s] /\ linked'[s] = linked[s]

\* What one request does to the book: it marks.
OnlyMarks ==
  /\ version' = version /\ reviewed' = reviewed
  /\ \A i \in Invoices :
       \/ status'[i] = status[i]
       \/ status[i] = "ready_for_export" /\ status'[i] = "exported"

LEMMA FinishEffect ==
  ASSUME TypeOK, NEW R \in SUBSET Requests, NEW answer, Finish(R, answer)
  PROVE  /\ \A s \in R : pc'[s] = answer /\ head'[s] = <<>> /\ next'[s] = 1
         /\ \A s \in Requests \ R :
              /\ pc'[s] = pc[s] /\ form'[s] = form[s]
              /\ next'[s] = next[s] /\ head'[s] = head[s]
  BY DEF Finish

LEMMA ReceiveEffect ==
  ASSUME TypeOK, NEW r \in Requests, Receive(r)
  PROVE  /\ ledger'[r] = [form |-> form[r], head |-> head[r], lines |-> lines[r]]
         /\ \A s \in Requests \ {r} : ledger'[s] = ledger[s]
  BY DEF Receive, TypeOK

LEMMA OthersUntouched ==
  ASSUME TypeOK, NEW r \in Requests, ExportInvoices(r), NEW s \in Requests \ {r}
  PROVE  Untouched(s)
<1> USE DEF Untouched, bookVars, localVars, auditVars
<1>1. ASSUME NEW f \in Forms, Submit(r, f) PROVE Untouched(s)
  BY <1>1 DEF Submit, TypeOK
<1>2. CASE LoadHeader(r)
  BY <1>2 DEF LoadHeader, TypeOK
<1>3. CASE Refuse(r)
  BY <1>3, FinishEffect DEF Refuse
<1>4. CASE LoadItems(r)
  BY <1>4, LoopTypes DEF LoadItems, InFlight
<1>5. CASE PostToAPI(r)
  <2>1. /\ ledger'[s] = ledger[s]
        /\ UNCHANGED <<batch, linked, after>>
    BY <1>5, ReceiveEffect DEF PostToAPI
  <2>2. CASE Finish({r}, "error")
    BY <2>1, <2>2, FinishEffect
  <2>3. CASE pc' = [pc EXCEPT ![r] = "batch"] /\ UNCHANGED localVars
    BY <2>1, <2>3 DEF TypeOK
  <2> QED
    BY <1>5, <2>2, <2>3 DEF PostToAPI
<1>6. CASE RenderFile(r)
  BY <1>6 DEF RenderFile, TypeOK
<1>7. CASE RecordBatch(r)
  BY <1>7 DEF RecordBatch, TypeOK
<1>8. CASE LinkInvoice(r)
  BY <1>8, LoopTypes DEF LinkInvoice, InFlight, TypeOK
<1>9. CASE LinkRejected(r)
  BY <1>9, FinishEffect DEF LinkRejected
<1>10. CASE MarkExported(r)
  BY <1>10, LoopTypes DEF MarkExported, InFlight
<1>11. CASE Answer(r)
  BY <1>11, FinishEffect, ReceiveEffect DEF Answer
<1>12. CASE Abort(r)
  BY <1>12, FinishEffect DEF Abort
<1> QED
  BY <1>1, <1>2, <1>3, <1>4, <1>5, <1>6, <1>7, <1>8, <1>9, <1>10, <1>11, <1>12
  DEF ExportInvoices

LEMMA RequestsOnlyMark ==
  ASSUME TypeOK, NEW r \in Requests, ExportInvoices(r)
  PROVE  OnlyMarks
<1>1. CASE MarkExported(r)
  <2>1. UNCHANGED <<version, reviewed>>
    BY <1>1 DEF MarkExported
  <2>2. status' = [status EXCEPT ![Current(r)] =
                     IF status[Current(r)] = "ready_for_export" THEN "exported"
                     ELSE status[Current(r)]]
    BY <1>1 DEF MarkExported
  <2>3. ASSUME NEW i \in Invoices
        PROVE  \/ status'[i] = status[i]
               \/ status[i] = "ready_for_export" /\ status'[i] = "exported"
    BY <2>2 DEF TypeOK
  <2> QED
    BY <2>1, <2>3 DEF OnlyMarks
<1>2. CASE ~MarkExported(r)
  <2>1. UNCHANGED bookVars
    BY <1>2 DEF ExportInvoices, Submit, LoadHeader, Refuse, LoadItems, PostToAPI,
       RenderFile, RecordBatch, LinkInvoice, LinkRejected, Answer, Abort, bookVars
  <2> QED
    BY <2>1 DEF bookVars, OnlyMarks
<1> QED
  BY <1>1, <1>2

\* A crash ends every request in flight and touches no other.
LEMMA CrashEffect ==
  ASSUME TypeOK, Crash, NEW s \in Requests
  PROVE  /\ UNCHANGED <<bookVars, auditVars, ledger, after>>
         /\ InFlight(s) => pc'[s] = "error" /\ Ended(s) /\ ledger'[s] = ledger[s]
         /\ ~InFlight(s) => Untouched(s)
<1>1. UNCHANGED <<bookVars, auditVars, ledger, after>>
  BY DEF Crash
<1>2. Finish({r \in Requests : InFlight(r)}, "error")
  BY DEF Crash
<1>3. InFlight(s) => pc'[s] = "error" /\ head'[s] = <<>> /\ next'[s] = 1
  BY <1>2, FinishEffect
<1>4. ~InFlight(s) => /\ pc'[s] = pc[s] /\ form'[s] = form[s]
                      /\ next'[s] = next[s] /\ head'[s] = head[s]
  BY <1>2, FinishEffect
<1> QED
  BY <1>1, <1>3, <1>4 DEF Untouched, Ended, auditVars

\* What others do leaves the requests alone, and a book only grows.
LEMMA OthersEffect ==
  ASSUME TypeOK, NEW i \in Invoices, Others(i)
  PROVE  /\ UNCHANGED <<pc, form, next, head, lines, batch, linked, ledger, after>>
         /\ \A s \in Requests : Untouched(s)
         /\ \A j \in Invoices : reviewed[j] \subseteq reviewed'[j]
         /\ \A j \in Invoices \ {i} : status'[j] = status[j] /\ version'[j] = version[j]
<1>1. UNCHANGED <<pc, form, next, head, lines, batch, linked, ledger, after>>
  BY DEF Others, localVars, auditVars
<1>2. \A s \in Requests : Untouched(s)
  BY <1>1 DEF Untouched
<1>3. /\ \A j \in Invoices : reviewed[j] \subseteq reviewed'[j]
      /\ \A j \in Invoices \ {i} : status'[j] = status[j] /\ version'[j] = version[j]
  <2>1. CASE ConfirmInvoice(i)
    BY <2>1 DEF ConfirmInvoice, TypeOK
  <2>2. CASE UpdateInvoice(i)
    BY <2>2 DEF UpdateInvoice, TypeOK
  <2>3. CASE ScheduleReprocess(i) \/ WorkerFail(i)
    BY <2>3 DEF ScheduleReprocess, WorkerFail, TypeOK
  <2>4. CASE WorkerSave(i)
    BY <2>4 DEF WorkerSave, TypeOK
  <2> QED
    BY <2>1, <2>2, <2>3, <2>4 DEF Others
<1> QED
  BY <1>1, <1>2, <1>3

-------------------------------------------------------------------------------
(* Only reviewed headers are posted                                        *)

\* Requests that a step does not touch, or ends, stay as they should be.
LEMMA RequestInvFrame ==
  ASSUME TypeOK, NEW s \in Requests, RequestInv(s),
         \A i \in Invoices : reviewed[i] \subseteq reviewed'[i],
         \/ Untouched(s)
         \/ Ended(s) /\ ledger'[s] = ledger[s]
  PROVE  RequestInv(s)'
<1>1. LocalsOK(s)'
  BY DEF RequestInv, LocalsOK, Untouched, Ended, InFlight, Loaded, Ids
<1>2. HeadsReviewed(s)'
  <2>1. CASE Ended(s)
    BY <2>1 DEF HeadsReviewed, Ended, InFlight
  <2>2. CASE Untouched(s) /\ InFlight(s)
    <3>1. /\ Len(head[s]) \in Nat /\ Len(head[s]) <= Len(Ids(s))
      BY <2>2, CurrentFacts DEF RequestInv, LocalsOK, InFlight, Loaded, TypeOK
    <3>2. \A n \in 1 .. Len(head[s]) : Ids(s)[n] \in Invoices
      BY <2>2, <3>1, CurrentFacts
    <3> QED
      BY <2>2, <3>2 DEF RequestInv, HeadsReviewed, Untouched, InFlight, Ids
  <2>3. CASE Untouched(s) /\ ~InFlight(s)
    BY <2>3 DEF HeadsReviewed, Untouched, InFlight
  <2> QED
    BY <2>1, <2>2, <2>3
<1>3. PostingReviewed(s)'
  <2>1. ledger'[s] = ledger[s]
    BY DEF Untouched
  <2>2. CASE Posted(s)
    <3>1. \A n \in Postings(s) : ledger[s].form.ids[n] \in Invoices
      BY <2>2, FormFacts DEF RequestInv, PostingReviewed, Payloads, Postings
    <3> QED
      BY <2>1, <2>2, <3>1 DEF RequestInv, PostingReviewed, Posted, Postings, Payloads
  <2>3. CASE ~Posted(s)
    BY <2>1, <2>3 DEF PostingReviewed, Posted
  <2> QED
    BY <2>2, <2>3
<1> QED
  BY <1>1, <1>2, <1>3 DEF RequestInv


\* Where a step of request r itself leads.
LEMMA RequestInvStep ==
  ASSUME TypeOK, TypeOK', StatusReviewed, NEW r \in Requests, RequestInv(r),
         ExportInvoices(r)
  PROVE  RequestInv(r)'
<1> USE DEF bookVars, localVars, auditVars
<1>0. reviewed' = reviewed
  BY RequestsOnlyMark DEF OnlyMarks
<1>1. ASSUME NEW f \in Forms, Submit(r, f) PROVE RequestInv(r)'
  <2>1. /\ pc[r] = "idle" /\ pc'[r] = "header" /\ next'[r] = 1
        /\ head'[r] = <<>> /\ ledger'[r] = NoPosting
    BY <1>1 DEF Submit, TypeOK, RequestInv, LocalsOK, InFlight
  <2> QED
    BY <2>1 DEF RequestInv, LocalsOK, HeadsReviewed, PostingReviewed, Posted,
                InFlight, Loaded
<1>2. CASE LoadHeader(r)
  <2> DEFINE v == version[Current(r)]
  <2>1. /\ pc[r] = "header" /\ pc'[r] = "items" /\ InFlight(r)
        /\ head'[r] = Append(head[r], v)
        /\ UNCHANGED <<form, next, ledger>>
    BY <1>2 DEF LoadHeader, InFlight, TypeOK
  <2>2. /\ head[r] \in Seq(Versions) /\ v \in Versions
        /\ Len(head[r]) = next[r] - 1 /\ v \in reviewed[Current(r)]
    BY <1>2, <2>1, CurrentFacts
    DEF RequestInv, LocalsOK, StatusReviewed, LoadHeader, Exportable, TypeOK
  <2>3. Len(head'[r]) = next[r]
    BY <2>1, <2>2 DEF TypeOK
  <2>4. ASSUME NEW n \in 1 .. Len(head'[r])
        PROVE  head'[r][n] \in reviewed[Ids(r)[n]]
    <3>1. CASE n = next[r]
      BY <2>1, <2>2, <2>3, <3>1 DEF Current
    <3>2. CASE n # next[r]
      <4>1. n \in 1 .. Len(head[r]) /\ head'[r][n] = head[r][n]
        BY <2>1, <2>2, <2>3, <3>2 DEF TypeOK
      <4> QED
        BY <2>1, <4>1 DEF RequestInv, HeadsReviewed
    <3> QED
      BY <3>1, <3>2
  <2>5. LocalsOK(r)'
    BY <2>1, <2>3 DEF LocalsOK, InFlight, Loaded
  <2>6. HeadsReviewed(r)'
    BY <1>0, <2>1, <2>4 DEF HeadsReviewed, Ids
  <2> QED
    BY <1>0, <2>1, <2>5, <2>6 DEF RequestInv, PostingReviewed, Posted, Postings, Payloads
<1>3. CASE Refuse(r) \/ LinkRejected(r) \/ Abort(r)
  <2>1. InFlight(r) /\ Finish({r}, "error")
        /\ UNCHANGED <<bookVars, auditVars, ledger, after>>
    BY <1>3 DEF Refuse, LinkRejected, Abort, InFlight
  <2>2. Ended(r) /\ ledger'[r] = ledger[r]
    BY <2>1, FinishEffect DEF Ended
  <2> QED
    BY <1>0, <2>2, RequestInvFrame
<1>4. CASE LoadItems(r) \/ LinkInvoice(r) \/ MarkExported(r)
  <2>1. /\ InFlight(r) /\ UNCHANGED <<form, head, ledger>>
        /\ next'[r] \in Nat \ {0}
    BY <1>4 DEF LoadItems, LinkInvoice, MarkExported, InFlight, TypeOK
  <2>2. /\ Len(head[r]) \in Nat /\ Len(Ids(r)) \in Nat \ {0}
        /\ next[r] \in 1 .. Len(Ids(r))
    BY <2>1, CurrentFacts DEF TypeOK
  <2>3. \/ /\ pc[r] = "items" /\ Len(head[r]) = next[r]
           /\ \/ pc'[r] = "header" /\ next'[r] = next[r] + 1
              \/ pc'[r] = "send" /\ next'[r] = 1 /\ next[r] >= Len(Ids(r))
        \/ /\ pc[r] \in {"link", "mark"} /\ Len(head[r]) = Len(Ids(r))
           /\ \/ pc'[r] \in {"link", "mark"}
              \/ pc'[r] = "answer" /\ next'[r] = 1
    <3>1. CASE LoadItems(r)
      BY <2>2, <3>1 DEF LoadItems, Loop, RequestInv, LocalsOK, TypeOK
    <3>2. CASE LinkInvoice(r)
      BY <2>2, <3>2 DEF LinkInvoice, Loop, RequestInv, LocalsOK, Loaded, TypeOK
    <3>3. CASE MarkExported(r)
      BY <2>2, <3>3 DEF MarkExported, Loop, RequestInv, LocalsOK, Loaded, TypeOK
    <3> QED
      BY <1>4, <3>1, <3>2, <3>3
  <2>4. LocalsOK(r)'
    BY SMTT(40), <2>1, <2>2, <2>3 DEF LocalsOK, InFlight, Loaded, Ids
  <2>5. HeadsReviewed(r)'
    BY <1>0, <2>1 DEF RequestInv, HeadsReviewed, Ids
  <2> QED
    BY <1>0, <2>1, <2>4, <2>5 DEF RequestInv, PostingReviewed, Posted, Postings, Payloads
<1>5. CASE RenderFile(r) \/ RecordBatch(r)
  <2>1. /\ InFlight(r) /\ UNCHANGED <<form, next, head, ledger>>
        /\ \/ pc[r] = "send" /\ pc'[r] = "batch"
           \/ pc[r] = "batch" /\ pc'[r] = "link"
    BY <1>5 DEF RenderFile, RecordBatch, InFlight, TypeOK
  <2>2. LocalsOK(r)'
    BY <2>1 DEF RequestInv, LocalsOK, InFlight, Loaded, Ids
  <2>3. HeadsReviewed(r)'
    BY <1>0, <2>1 DEF RequestInv, HeadsReviewed, Ids
  <2> QED
    BY <1>0, <2>1, <2>2, <2>3 DEF RequestInv, PostingReviewed, Posted, Postings, Payloads
<1>6. CASE PostToAPI(r) \/ Answer(r)
  <2>1. /\ InFlight(r) /\ Loaded(r) /\ pc[r] \in {"send", "answer"} /\ Receive(r)
        /\ \/ Finish({r}, "ok") \/ Finish({r}, "error")
           \/ pc[r] = "send" /\ pc'[r] = "batch" /\ UNCHANGED <<form, next, head>>
    BY <1>6 DEF PostToAPI, Answer, InFlight, Loaded, TypeOK
  <2>2. /\ ledger'[r].form = form[r] /\ ledger'[r].head = head[r]
        /\ ledger'[r] \in Payloads
    <3>1. ledger'[r] = [form |-> form[r], head |-> head[r], lines |-> lines[r]]
      BY <2>1, ReceiveEffect
    <3>2. /\ form[r] \in Forms /\ head[r] \in Seq(Versions)
          /\ lines[r] \in [Invoices -> Versions \cup {NoVersion}]
      BY <2>1, CurrentFacts DEF TypeOK
    <3> QED
      BY <3>1, <3>2 DEF Payloads
  <2>3. PostingReviewed(r)'
    BY <1>0, <2>1, <2>2 DEF RequestInv, LocalsOK, HeadsReviewed, PostingReviewed,
       Posted, Postings, Payloads, Ids
  <2>4. LocalsOK(r)' /\ HeadsReviewed(r)'
    <3>1. CASE Finish({r}, "ok") \/ Finish({r}, "error")
      <4>1. pc'[r] \in {"ok", "error"} /\ head'[r] = <<>>
        BY <3>1, FinishEffect
      <4> QED
        BY <4>1 DEF LocalsOK, HeadsReviewed, InFlight, Loaded
    <3>2. CASE pc[r] = "send" /\ pc'[r] = "batch" /\ UNCHANGED <<form, next, head>>
      BY <1>0, <2>1, <3>2
      DEF RequestInv, LocalsOK, HeadsReviewed, InFlight, Loaded, Ids
    <3> QED
      BY <2>1, <3>1, <3>2
  <2> QED
    BY <2>3, <2>4 DEF RequestInv
<1> QED
  BY <1>1, <1>2, <1>3, <1>4, <1>5, <1>6 DEF ExportInvoices

LEMMA InitReviewInv == Init => ReviewInv
<1> SUFFICES ASSUME Init PROVE ReviewInv
  OBVIOUS
<1>1. TypeOK
  BY InitTypeOK
<1>2. StatusReviewed /\ \A r \in Requests : RequestInv(r)
  BY DEF Init, StatusReviewed, RequestInv, LocalsOK, HeadsReviewed,
     PostingReviewed, Posted, InFlight, Loaded
<1> QED
  BY <1>1, <1>2 DEF ReviewInv

LEMMA NextReviewInv == ReviewInv /\ [Next]_vars => ReviewInv'
<1> SUFFICES ASSUME ReviewInv, [Next]_vars PROVE ReviewInv'
  OBVIOUS
<1> USE DEF ReviewInv
<1>0. TypeOK'
  BY NextTypeOK
<1>1. ASSUME NEW r \in Requests, ExportInvoices(r) PROVE ReviewInv'
  <2>1. OnlyMarks
    BY <1>1, RequestsOnlyMark
  <2>2. StatusReviewed'
    BY <2>1 DEF StatusReviewed, OnlyMarks
  <2>3. ASSUME NEW s \in Requests \ {r} PROVE RequestInv(s)'
    BY <1>1, <2>1, <2>3, OthersUntouched, RequestInvFrame DEF OnlyMarks
  <2>4. RequestInv(r)'
    BY <1>0, <1>1, RequestInvStep
  <2> QED
    BY <1>0, <2>2, <2>3, <2>4
<1>2. ASSUME NEW i \in Invoices, Others(i) PROVE ReviewInv'
  <2>1. \A s \in Requests : RequestInv(s)'
    BY <1>2, OthersEffect, RequestInvFrame
  <2>2. ASSUME NEW j \in Invoices,
               status'[j] \in {"ready_for_export", "exported"}
        PROVE  version'[j] \in reviewed'[j]
    <3>1. CASE j # i
      BY <1>2, <2>2, <3>1, OthersEffect DEF StatusReviewed
    <3>2. CASE j = i
      <4>1. CASE ConfirmInvoice(i)
        BY <3>2, <4>1 DEF ConfirmInvoice, TypeOK
      <4>2. CASE UpdateInvoice(i)
        BY <3>2, <4>2 DEF UpdateInvoice, TypeOK
      <4>3. CASE ScheduleReprocess(i) \/ WorkerFail(i)
        BY <2>2, <3>2, <4>3 DEF ScheduleReprocess, WorkerFail, TypeOK
      <4>4. CASE WorkerSave(i)
        BY <2>2, <3>2, <4>4 DEF WorkerSave, TypeOK
      <4> QED
        BY <1>2, <4>1, <4>2, <4>3, <4>4 DEF Others
    <3> QED
      BY <3>1, <3>2
  <2> QED
    BY <1>0, <2>1, <2>2 DEF StatusReviewed
<1>3. CASE Crash
  <2>1. UNCHANGED <<status, version, reviewed>>
    BY <1>3 DEF Crash, bookVars
  <2>2. \A s \in Requests : Untouched(s) \/ (Ended(s) /\ ledger'[s] = ledger[s])
    BY <1>3, CrashEffect
  <2>3. \A s \in Requests : RequestInv(s)'
    BY <2>1, <2>2, RequestInvFrame
  <2> QED
    BY <1>0, <2>1, <2>3 DEF StatusReviewed
<1>4. CASE UNCHANGED vars
  <2>1. UNCHANGED <<status, version, reviewed>> /\ \A s \in Requests : Untouched(s)
    BY <1>4 DEF vars, bookVars, localVars, auditVars, Untouched
  <2>2. \A s \in Requests : RequestInv(s)'
    BY <2>1, RequestInvFrame
  <2> QED
    BY <1>0, <2>1, <2>2 DEF StatusReviewed
<1> QED
  BY <1>1, <1>2, <1>3, <1>4 DEF Next

\* Every header that reaches the accounting program was reviewed, for any number
\* of requests, invoices and ids per request, whatever edits, extractions and
\* crashes come between the gate and the posting.
THEOREM ReviewedIsPosted == Spec => []PostedHeadersReviewed
<1>1. Init => ReviewInv
  BY InitReviewInv
<1>2. ReviewInv /\ [Next]_vars => ReviewInv'
  BY NextReviewInv
<1>3. ReviewInv => PostedHeadersReviewed
  BY DEF ReviewInv, RequestInv, PostingReviewed, PostedHeadersReviewed
<1> QED
  BY <1>1, <1>2, <1>3, PTL DEF Spec

-------------------------------------------------------------------------------
(* The audit batch comes first                                             *)

\* Naming one more invoice.
LEMMA FirstOfNext ==
  ASSUME NEW f, NEW n \in Nat \ {0}
  PROVE  /\ FirstOf(f, 0) = {}
         /\ FirstOf(f, n) = FirstOf(f, n - 1) \cup {f.ids[n]}
<1>1. FirstOf(f, 0) = {}
  BY DEF FirstOf
<1>2. 1 .. n = (1 .. (n - 1)) \cup {n}
  OBVIOUS
<1> QED
  BY <1>1, <1>2 DEF FirstOf

\* Requests that a step does not touch, or aborts, keep their batch.
LEMMA BatchFrame ==
  ASSUME TypeOK, NEW s \in Requests, BatchOK(s),
         \/ Untouched(s)
         \/ Ended(s) /\ pc'[s] = "error" /\ ledger'[s] = ledger[s]
  PROVE  /\ BatchOK(s)'
         /\ batch'[s] = batch[s] /\ linked'[s] = linked[s]
<1>1. batch'[s] = batch[s] /\ linked'[s] = linked[s] /\ ledger'[s] = ledger[s]
  BY DEF Untouched, Ended
<1>2. CASE Untouched(s)
  BY <1>1, <1>2 DEF BatchOK, Untouched, Recorded, Ids
<1>3. CASE pc'[s] = "error"
  BY <1>1, <1>3 DEF BatchOK
<1> QED
  BY <1>1, <1>2, <1>3

\* Each statement of recordExportBatch, and what follows it.
LEMMA BatchStep ==
  ASSUME TypeOK, TypeOK', NEW r \in Requests, RequestInv(r), RequestInv(r)',
         BatchOK(r), ExportInvoices(r)
  PROVE  /\ BatchOK(r)'
         /\ Recorded(r) => Recorded(r)' /\ linked'[r] = linked[r]
<1> USE DEF bookVars, localVars, auditVars
<1>1. CASE ~(RecordBatch(r) \/ LinkInvoice(r) \/ MarkExported(r) \/ Answer(r))
  <2>1. /\ UNCHANGED <<batch, linked>>
        /\ pc'[r] \in {"header", "items", "send", "batch", "error"}
        /\ pc'[r] # "error" => pc[r] \in {"idle", "header", "items", "send"}
    <3>1. ASSUME NEW f \in Forms, Submit(r, f)
          PROVE  UNCHANGED <<batch, linked>> /\ pc[r] = "idle" /\ pc'[r] = "header"
      BY <3>1 DEF Submit, TypeOK
    <3>2. CASE LoadHeader(r) \/ RenderFile(r)
      BY <3>2 DEF LoadHeader, RenderFile, TypeOK
    <3>3. CASE Refuse(r) \/ LinkRejected(r) \/ Abort(r)
      BY <3>3, FinishEffect DEF Refuse, LinkRejected, Abort
    <3>4. CASE LoadItems(r)
      BY <3>4 DEF LoadItems, Loop, TypeOK
    <3>5. CASE PostToAPI(r)
      <4>1. CASE Finish({r}, "error")
        BY <3>5, <4>1, FinishEffect DEF PostToAPI
      <4>2. CASE pc' = [pc EXCEPT ![r] = "batch"]
        BY <3>5, <4>2 DEF PostToAPI, TypeOK
      <4> QED
        BY <3>5, <4>1, <4>2 DEF PostToAPI
    <3> QED
      BY <1>1, <3>1, <3>2, <3>3, <3>4, <3>5 DEF ExportInvoices
  <2> QED
    BY <2>1 DEF BatchOK, Recorded
<1>2. CASE RecordBatch(r)
  <2>1. /\ pc[r] = "batch" /\ pc'[r] = "link" /\ next[r] = 1
        /\ UNCHANGED <<form, next, linked>>
        /\ batch[r] = 0 /\ linked[r] = {} /\ batch'[r] = Len(head[r])
        /\ Len(head[r]) = Len(Ids(r))
    <3>1. /\ pc[r] = "batch" /\ pc'[r] = "link"
          /\ UNCHANGED <<form, next, linked>> /\ batch'[r] = Len(head[r])
      BY <1>2 DEF RecordBatch, TypeOK
    <3> QED
      BY <3>1 DEF BatchOK, RequestInv, LocalsOK, Loaded
  <2>2. FirstOf(form[r], next[r] - 1) = {} /\ Cardinality({}) = 0
    <3>1. next[r] - 1 = 0
      BY <2>1
    <3> QED
      BY <3>1, FirstOfNext, FS_EmptySet
  <2> QED
    BY <2>1, <2>2 DEF BatchOK, Recorded, Ids
<1>3. CASE LinkInvoice(r)
  <2>1. /\ pc[r] = "link" /\ InFlight(r) /\ UNCHANGED <<form, batch>>
        /\ Current(r) \notin linked[r]
        /\ linked'[r] = linked[r] \cup {Current(r)}
    BY <1>3 DEF LinkInvoice, InFlight, TypeOK
  <2>2. /\ next[r] \in 1 .. Len(Ids(r)) /\ Len(Ids(r)) \in Nat \ {0}
    BY <2>1, CurrentFacts
  <2>3. /\ IsFiniteSet(linked[r]) /\ batch[r] = Len(Ids(r))
        /\ linked[r] = FirstOf(form[r], next[r] - 1)
        /\ Cardinality(linked[r]) = next[r] - 1
    BY <2>1 DEF BatchOK
  <2>4. /\ IsFiniteSet(linked'[r]) /\ Cardinality(linked'[r]) = next[r]
    <3>1. Cardinality(linked[r] \cup {Current(r)}) = (next[r] - 1) + 1
      BY <2>1, <2>3, FS_AddElement
    <3> QED
      BY <2>1, <2>2, <2>3, <3>1, FS_AddElement
  <2>5. linked'[r] = FirstOf(form[r], next[r])
    BY <2>1, <2>2, <2>3, FirstOfNext DEF Current, Ids
  <2>6. \/ pc'[r] = "link" /\ next'[r] = next[r] + 1
        \/ pc'[r] \in {"mark", "answer"} /\ next[r] = Len(Ids(r))
    BY <1>3, <2>2 DEF LinkInvoice, Loop, TypeOK
  <2>7. ~Recorded(r)
    BY <2>2, <2>3 DEF Recorded
  <2>8. CASE pc'[r] = "link" /\ next'[r] = next[r] + 1
    <3>1. next'[r] - 1 = next[r]
      BY <2>2, <2>8
    <3> QED
      BY <2>1, <2>3, <2>4, <2>5, <2>7, <2>8, <3>1 DEF BatchOK, Ids
  <2>9. CASE pc'[r] \in {"mark", "answer"} /\ next[r] = Len(Ids(r))
    BY <2>1, <2>2, <2>3, <2>4, <2>5, <2>7, <2>9 DEF BatchOK, Recorded, Ids
  <2> QED
    BY <2>6, <2>8, <2>9
<1>4. CASE MarkExported(r)
  <2>1. /\ pc[r] = "mark" /\ pc'[r] \in {"mark", "answer"}
        /\ UNCHANGED <<form, batch, linked>>
    BY <1>4 DEF MarkExported, Loop, TypeOK
  <2> QED
    BY <2>1 DEF BatchOK, Recorded, Ids
<1>5. CASE Answer(r)
  <2>1. /\ pc[r] = "answer" /\ pc'[r] = "ok" /\ InFlight(r)
        /\ UNCHANGED <<batch, linked>> /\ Receive(r)
    BY <1>5, FinishEffect DEF Answer, InFlight
  <2>2. ledger'[r] = [form |-> form[r], head |-> head[r], lines |-> lines[r]]
    BY <2>1, ReceiveEffect
  <2>3. /\ form[r] \in Forms /\ head[r] \in Seq(Versions)
        /\ lines[r] \in [Invoices -> Versions \cup {NoVersion}]
    BY <2>1, CurrentFacts DEF TypeOK
  <2>4. ledger'[r] \in Payloads
    BY <2>2, <2>3 DEF Payloads
  <2>5. Len(head[r]) = Len(form[r].ids)
    BY <2>1 DEF RequestInv, LocalsOK, Loaded, Ids
  <2> QED
    BY <2>1, <2>2, <2>4, <2>5 DEF BatchOK, Recorded, Ids
<1> QED
  BY <1>1, <1>2, <1>3, <1>4, <1>5

LEMMA InitBatchInv == Init => BatchInv
  BY FS_EmptySet DEF Init, BatchInv, BatchOK, MarkedIsRecorded

LEMMA NextBatchInv == ReviewInv /\ ReviewInv' /\ BatchInv /\ [Next]_vars => BatchInv'
<1> SUFFICES ASSUME ReviewInv, ReviewInv', BatchInv, [Next]_vars PROVE BatchInv'
  OBVIOUS
<1> USE DEF ReviewInv, BatchInv
\* It is enough that batches stay complete, and that what is new is recorded.
<1>0. ASSUME \A s \in Requests : BatchOK(s)',
             \A s \in Requests : Recorded(s) => Recorded(s)' /\ linked'[s] = linked[s],
             \A i \in Invoices : status'[i] = "exported" =>
               \/ status[i] = "exported"
               \/ \E s \in Requests : Recorded(s) /\ i \in linked[s]
      PROVE  BatchInv'
  <2>1. ASSUME NEW i \in Invoices, status'[i] = "exported"
        PROVE  \E s \in Requests : Recorded(s)' /\ i \in linked'[s]
    <3>1. PICK s \in Requests : Recorded(s) /\ i \in linked[s]
      BY <1>0, <2>1 DEF MarkedIsRecorded
    <3> QED
      BY <1>0, <3>1
  <2> QED
    BY <1>0, <2>1 DEF MarkedIsRecorded
<1>1. ASSUME NEW r \in Requests, ExportInvoices(r) PROVE BatchInv'
  <2>1. ASSUME NEW s \in Requests
        PROVE  BatchOK(s)' /\ (Recorded(s) => Recorded(s)' /\ linked'[s] = linked[s])
    <3>1. CASE s = r
      BY <1>1, <3>1, BatchStep
    <3>2. CASE s # r
      BY <1>1, <3>2, OthersUntouched, BatchFrame DEF Recorded
    <3> QED
      BY <3>1, <3>2
  <2>2. ASSUME NEW i \in Invoices, status'[i] = "exported", status[i] # "exported"
        PROVE  \E s \in Requests : Recorded(s) /\ i \in linked[s]
    <3>1. MarkExported(r)
      <4>1. UNCHANGED bookVars \/ MarkExported(r)
        BY <1>1 DEF ExportInvoices, Submit, LoadHeader, Refuse, LoadItems, PostToAPI,
           RenderFile, RecordBatch, LinkInvoice, LinkRejected, Answer, Abort, bookVars
      <4> QED
        BY <2>2, <4>1 DEF bookVars
    <3>2. i = Current(r) /\ pc[r] = "mark" /\ InFlight(r)
      BY <2>2, <3>1 DEF MarkExported, InFlight, TypeOK
    <3>3. Recorded(r) /\ i \in linked[r]
      BY <3>2, CurrentFacts DEF BatchOK, FirstOf, Current, Ids
    <3> QED
      BY <3>3
  <2> QED
    BY <1>0, <2>1, <2>2
<1>2. ASSUME NEW i \in Invoices, Others(i) PROVE BatchInv'
  <2>1. \A s \in Requests :
          BatchOK(s)' /\ (Recorded(s) => Recorded(s)' /\ linked'[s] = linked[s])
    BY <1>2, OthersEffect, BatchFrame DEF Recorded
  <2>2. ASSUME NEW j \in Invoices PROVE status'[j] = "exported" => status[j] = "exported"
    BY <1>2 DEF Others, ConfirmInvoice, UpdateInvoice, ScheduleReprocess, WorkerSave,
       WorkerFail, TypeOK
  <2> QED
    BY <1>0, <2>1, <2>2
<1>3. CASE Crash
  <2>1. status' = status
    BY <1>3 DEF Crash, bookVars
  <2>2. \A s \in Requests :
          BatchOK(s)' /\ (Recorded(s) => Recorded(s)' /\ linked'[s] = linked[s])
    BY <1>3, CrashEffect, BatchFrame DEF Recorded
  <2> QED
    BY <1>0, <2>1, <2>2
<1>4. CASE UNCHANGED vars
  <2>1. status' = status /\ \A s \in Requests : Untouched(s)
    BY <1>4 DEF vars, bookVars, localVars, auditVars, Untouched
  <2>2. \A s \in Requests :
          BatchOK(s)' /\ (Recorded(s) => Recorded(s)' /\ linked'[s] = linked[s])
    BY <2>1, BatchFrame DEF Recorded
  <2> QED
    BY <1>0, <2>1, <2>2
<1> QED
  BY <1>1, <1>2, <1>3, <1>4 DEF Next

\* An invoice marked exported, and one in a successful export, is named by a
\* complete audit batch, whichever statement fails or process dies.
THEOREM RecordsComeFirst == Spec => []RecordedFirst
<1>1. Init => ReviewInv /\ BatchInv
  BY InitReviewInv, InitBatchInv
<1>2. ReviewInv /\ BatchInv /\ [Next]_vars => (ReviewInv /\ BatchInv)'
  BY NextReviewInv, NextBatchInv
<1>3. BatchInv => RecordedFirst
  BY DEF BatchInv, MarkedIsRecorded, BatchOK, RecordedFirst, FirstOf, Postings
<1> QED
  BY <1>1, <1>2, <1>3, PTL DEF Spec

-------------------------------------------------------------------------------
(* What is marked is not posted again by later requests                    *)

\* Marks, reviews, edits and extractions of one step keep these promises.
LEMMA SinceStable ==
  ASSUME TypeOK, [Next]_vars, NEW i \in Invoices, NEW v \in Versions
  PROVE  /\ SinceLoad(i, v) => SinceLoad(i, v)'
         /\ SinceMark(i, v) => SinceMark(i, v)'
<1>1. version[i] \in Nat /\ v \in Nat
  BY ExportAssumption DEF TypeOK, Versions
<1>2. ASSUME NEW r \in Requests, ExportInvoices(r)
      PROVE  /\ SinceLoad(i, v) => SinceLoad(i, v)'
             /\ SinceMark(i, v) => SinceMark(i, v)'
  BY <1>2, RequestsOnlyMark DEF OnlyMarks, SinceLoad, SinceMark
<1>3. ASSUME NEW j \in Invoices, Others(j)
      PROVE  /\ SinceLoad(i, v) => SinceLoad(i, v)'
             /\ SinceMark(i, v) => SinceMark(i, v)'
  <2>1. CASE i # j
    BY <1>3, <2>1, OthersEffect DEF SinceLoad, SinceMark
  <2>2. CASE i = j
    <3>1. CASE ConfirmInvoice(i)
      BY <3>1 DEF ConfirmInvoice, SinceLoad, SinceMark, TypeOK
    <3>2. CASE UpdateInvoice(i) \/ WorkerSave(i)
      <4>1. version'[i] = version[i] + 1
        BY <3>2 DEF UpdateInvoice, WorkerSave, TypeOK
      <4> QED
        BY <1>1, <4>1 DEF SinceLoad, SinceMark
    <3>3. CASE ScheduleReprocess(i) \/ WorkerFail(i)
      BY <3>3 DEF ScheduleReprocess, WorkerFail, SinceLoad, SinceMark, TypeOK
    <3> QED
      BY <1>3, <2>2, <3>1, <3>2, <3>3 DEF Others
  <2> QED
    BY <2>1, <2>2
<1>4. CASE Crash \/ UNCHANGED vars
  BY <1>4 DEF Crash, vars, bookVars, SinceLoad, SinceMark
<1> QED
  BY <1>2, <1>3, <1>4 DEF Next

\* A request that has answered "ok" is over.
LEMMA OkStays ==
  ASSUME TypeOK, [Next]_vars, NEW r \in Requests, pc[r] = "ok"
  PROVE  Untouched(r)
<1>1. ASSUME NEW q \in Requests, ExportInvoices(q) PROVE Untouched(r)
  <2>1. pc[q] # "ok"
    BY <1>1 DEF ExportInvoices, Submit, LoadHeader, Refuse, LoadItems, PostToAPI,
       RenderFile, RecordBatch, LinkInvoice, LinkRejected, MarkExported, Answer,
       Abort, InFlight
  <2> QED
    BY <1>1, <2>1, OthersUntouched
<1>2. ASSUME NEW i \in Invoices, Others(i) PROVE Untouched(r)
  BY <1>2, OthersEffect
<1>3. CASE Crash
  BY <1>3, CrashEffect DEF InFlight
<1>4. CASE UNCHANGED vars
  BY <1>4 DEF vars, localVars, auditVars, Untouched
<1> QED
  BY <1>1, <1>2, <1>3, <1>4 DEF Next

\* The ranges over which MarkOK and LaterOK speak.
LEMMA LoadedFacts ==
  ASSUME TypeOK, NEW r \in Requests, RequestInv(r), InFlight(r),
         NEW n \in 1 .. Len(head[r])
  PROVE  n \in 1 .. Len(Ids(r)) /\ Ids(r)[n] \in Invoices /\ head[r][n] \in Versions
<1>1. /\ Len(head[r]) \in Nat /\ Len(head[r]) <= Len(Ids(r))
      /\ Len(Ids(r)) \in Nat
  BY CurrentFacts DEF RequestInv, LocalsOK, InFlight, Loaded, TypeOK
<1> QED
  BY <1>1, CurrentFacts DEF TypeOK

LEMMA AnsweredFacts ==
  ASSUME NEW r \in Requests, BatchOK(r), pc[r] = "ok", NEW n \in Postings(r)
  PROVE  /\ ledger[r].form.ids[n] \in Invoices
         /\ ledger[r].head[n] \in Versions
  BY FormFacts DEF BatchOK, Payloads, Postings

LEMMA MarkFrame ==
  ASSUME TypeOK, [Next]_vars, NEW s \in Requests, RequestInv(s), BatchOK(s), MarkOK(s),
         Untouched(s) \/ (Ended(s) /\ pc'[s] = "error")
  PROVE  MarkOK(s)'
<1>1. CASE Ended(s) /\ pc'[s] = "error"
  BY <1>1 DEF MarkOK, InFlight
<1>2. CASE Untouched(s)
  <2>1. CASE InFlight(s)
    <3>1. \A n \in 1 .. Len(head[s]) :
            /\ SinceLoad(Ids(s)[n], head[s][n])'
            /\ SinceMark(Ids(s)[n], head[s][n]) => SinceMark(Ids(s)[n], head[s][n])'
      <4> TAKE n \in 1 .. Len(head[s])
      <4>1. SinceLoad(Ids(s)[n], head[s][n])
        BY <2>1 DEF MarkOK
      <4>2. Ids(s)' = Ids(s) /\ head'[s] = head[s]
        BY <1>2 DEF Untouched, Ids
      <4>3. Ids(s)[n] \in Invoices /\ head[s][n] \in Versions
        BY <2>1, LoadedFacts
      <4> DEFINE i == Ids(s)[n]  v == head[s][n]
      <4>4. /\ v <= version'[i] /\ (version'[i] = v => status'[i] # "processed")
            /\ SinceMark(i, v) => (version'[i] = v => status'[i] # "ready_for_export")
        BY <4>1, <4>3, SinceStable DEF SinceLoad, SinceMark
      <4> QED
        BY <4>2, <4>4 DEF SinceLoad, SinceMark
    <3>2. pc[s] = "mark" => 1 .. (next[s] - 1) \subseteq 1 .. Len(head[s])
      BY <2>1, CurrentFacts DEF RequestInv, LocalsOK, Loaded, InFlight
    <3> QED
      BY <1>2, <2>1, <3>1, <3>2 DEF MarkOK, Untouched, InFlight, Ids
  <2>2. CASE pc[s] = "ok"
    <3>1. ASSUME ledger[s].form.mark, NEW n \in Postings(s)
          PROVE  SinceMark(ledger[s].form.ids[n], ledger[s].head[n])'
      <4> DEFINE i == ledger[s].form.ids[n]  v == ledger[s].head[n]
      <4>1. ledger'[s] = ledger[s]
        BY <1>2 DEF Untouched
      <4>2. i \in Invoices /\ v \in Versions /\ SinceMark(i, v)
        BY <2>2, <3>1, AnsweredFacts DEF MarkOK
      <4>3. /\ v <= version'[i] /\ (version'[i] = v => status'[i] # "processed")
            /\ version'[i] = v => status'[i] # "ready_for_export"
        BY <4>2, SinceStable DEF SinceLoad, SinceMark
      <4> QED
        BY <4>1, <4>3 DEF SinceLoad, SinceMark
    <3> QED
      BY <1>2, <2>2, <3>1 DEF MarkOK, Untouched, InFlight, Postings
  <2>3. CASE ~InFlight(s) /\ pc[s] # "ok"
    BY <1>2, <2>3 DEF MarkOK, Untouched, InFlight
  <2> QED
    BY <2>1, <2>2, <2>3
<1> QED
  BY <1>1, <1>2

\* An earlier request that answered keeps what LaterOK says of it.
LEMMA LaterFrame ==
  ASSUME TypeOK, [Next]_vars, NEW s \in Requests, LaterOK(s),
         \/ Untouched(s)
         \/ Ended(s) /\ pc'[s] = "error" /\ ledger'[s] = ledger[s]
  PROVE  LaterOK(s)'
<1>1. after'[s] = after[s] /\ ledger'[s] = ledger[s] /\ after[s] \subseteq Requests
  BY DEF Untouched, Ended, TypeOK
<1>2. ASSUME NEW r \in after[s]
      PROVE  /\ pc'[r] = "ok" /\ ledger'[r] = ledger[r]
             /\ LoadsOnlyNew(s, r)'
             /\ (Posted(s) /\ ledger[r].form.mark /\ ~ledger[s].form.re
                   => ~SamePosted(r, s))'
  <2>1. pc'[r] = "ok" /\ ledger'[r] = ledger[r]
    BY <1>1, OkStays DEF LaterOK, Untouched
  <2>2. LoadsOnlyNew(s, r)'
    <3>1. CASE Untouched(s)
      BY <2>1, <3>1 DEF LaterOK, LoadsOnlyNew, Untouched, InFlight, Ids, Postings
    <3>2. CASE pc'[s] = "error"
      BY <3>2 DEF LoadsOnlyNew, InFlight
    <3> QED
      BY <3>1, <3>2
  <2> QED
    BY <1>1, <2>1, <2>2 DEF LaterOK, Posted, SamePosted, Postings
<1> QED
  BY <1>1, <1>2 DEF LaterOK

\* Loading, marking and answering of request r itself.
LEMMA MarkStep ==
  ASSUME TypeOK, [Next]_vars, NEW r \in Requests, RequestInv(r), RequestInv(r)',
         BatchOK(r), BatchOK(r)', MarkOK(r), ExportInvoices(r)
  PROVE  MarkOK(r)'
<1> USE DEF bookVars, localVars, auditVars
\* What was loaded or marked before the step.
<1>0. ASSUME InFlight(r), NEW n \in 1 .. Len(head[r])
      PROVE  /\ Ids(r)[n] \in Invoices /\ head[r][n] \in Versions
             /\ SinceLoad(Ids(r)[n], head[r][n])
             /\ head[r][n] <= version'[Ids(r)[n]]
             /\ version'[Ids(r)[n]] = head[r][n] => status'[Ids(r)[n]] # "processed"
             /\ SinceMark(Ids(r)[n], head[r][n]) =>
                  (version'[Ids(r)[n]] = head[r][n]
                     => status'[Ids(r)[n]] # "ready_for_export")
  <2>1. Ids(r)[n] \in Invoices /\ head[r][n] \in Versions
    BY <1>0, LoadedFacts
  <2>2. SinceLoad(Ids(r)[n], head[r][n])
    BY <1>0 DEF MarkOK
  <2> QED
    BY <2>1, <2>2, SinceStable DEF SinceLoad, SinceMark
<1>1. ASSUME NEW f \in Forms, Submit(r, f) PROVE MarkOK(r)'
  BY <1>1 DEF Submit, RequestInv, LocalsOK, MarkOK, InFlight, TypeOK
<1>2. CASE LoadHeader(r)
  <2> DEFINE i == Current(r)
  <2>1. /\ pc[r] = "header" /\ pc'[r] = "items" /\ InFlight(r)
        /\ head'[r] = Append(head[r], version[i])
        /\ UNCHANGED <<form, next, status, version>>
    BY <1>2 DEF LoadHeader, InFlight, TypeOK
  <2>2. /\ head[r] \in Seq(Versions) /\ version[i] \in Versions
        /\ Len(head[r]) = next[r] - 1 /\ status[i] # "processed"
        /\ next[r] \in Nat \ {0}
    BY <1>2, <2>1, CurrentFacts
    DEF RequestInv, LocalsOK, LoadHeader, Exportable, TypeOK
  <2>3. ASSUME NEW n \in 1 .. Len(head'[r]) PROVE SinceLoad(Ids(r)[n], head[r][n])'
    <3>1. CASE n = next[r]
      <4>1. head'[r][n] = version[i] /\ Ids(r)[n] = i /\ version[i] \in Nat
        BY <2>1, <2>2, <3>1 DEF Current, Versions
      <4> QED
        BY <2>1, <2>2, <4>1 DEF SinceLoad, Ids
    <3>2. CASE n # next[r]
      <4>1. n \in 1 .. Len(head[r]) /\ head'[r][n] = head[r][n]
        BY <2>1, <2>2, <3>2
      <4> QED
        BY <1>0, <2>1, <4>1 DEF SinceLoad, Ids
    <3> QED
      BY <3>1, <3>2
  <2> QED
    BY <2>1, <2>3 DEF MarkOK, Ids
<1>3. CASE LoadItems(r) \/ RenderFile(r) \/ RecordBatch(r) \/ LinkInvoice(r)
  <2>1. /\ InFlight(r) /\ UNCHANGED <<form, head>>
        /\ \/ pc'[r] \in {"header", "send", "batch", "link"}
           \/ pc'[r] = "mark" /\ next'[r] = 1
           \/ pc'[r] = "answer" /\ ~form[r].mark
    <3>1. CASE LoadItems(r)
      BY <3>1 DEF LoadItems, Loop, InFlight, TypeOK
    <3>2. CASE RenderFile(r) \/ RecordBatch(r)
      BY <3>2 DEF RenderFile, RecordBatch, InFlight, TypeOK
    <3>3. CASE LinkInvoice(r)
      BY <3>3 DEF LinkInvoice, Loop, InFlight, TypeOK
    <3> QED
      BY <1>3, <3>1, <3>2, <3>3
  <2>2. \A n \in 1 .. Len(head'[r]) : SinceLoad(Ids(r)[n], head[r][n])'
    BY <1>0, <2>1 DEF SinceLoad, Ids
  <2>3. pc'[r] = "mark" => 1 .. (next'[r] - 1) = {}
    BY <2>1
  <2> QED
    BY <2>1, <2>2, <2>3 DEF MarkOK, Ids
<1>4. CASE MarkExported(r)
  <2> DEFINE i == Current(r)  v == head[r][next[r]]
  <2>1. /\ pc[r] = "mark" /\ InFlight(r) /\ UNCHANGED <<form, head, version>>
        /\ status' = [status EXCEPT ![i] =
                        IF status[i] = "ready_for_export" THEN "exported" ELSE status[i]]
    BY <1>4 DEF MarkExported, InFlight
  <2>2. /\ Len(head[r]) = Len(Ids(r)) /\ next[r] \in 1 .. Len(head[r])
        /\ Len(head[r]) \in Nat /\ i = Ids(r)[next[r]] /\ i \in Invoices
    BY <2>1, CurrentFacts DEF RequestInv, LocalsOK, Loaded, Current
  <2>3. \/ pc'[r] = "mark" /\ next'[r] = next[r] + 1
        \/ pc'[r] = "answer" /\ next[r] = Len(head[r])
    BY <1>4, <2>2 DEF MarkExported, Loop, TypeOK
  <2>4. \A n \in 1 .. Len(head[r]) : SinceLoad(Ids(r)[n], head[r][n])'
    BY <1>0, <2>1 DEF SinceLoad, Ids
  <2>5. ASSUME NEW n \in 1 .. next[r] PROVE SinceMark(Ids(r)[n], head[r][n])'
    <3>0. n \in 1 .. Len(head[r])
      BY <2>2
    <3>1. CASE n = next[r]
      <4>1. status'[i] # "ready_for_export"
        BY <2>1, <2>2 DEF TypeOK
      <4> QED
        BY <2>1, <2>2, <2>4, <3>0, <3>1, <4>1 DEF SinceMark, Ids
    <3>2. CASE n # next[r]
      <4>1. n \in 1 .. (next[r] - 1)
        BY <2>2, <3>2
      <4>2. SinceMark(Ids(r)[n], head[r][n])
        BY <2>1, <4>1 DEF MarkOK
      <4> QED
        BY <1>0, <2>1, <2>4, <3>0, <4>2 DEF SinceMark, Ids
    <3> QED
      BY <3>1, <3>2
  <2>6. CASE pc'[r] = "mark" /\ next'[r] = next[r] + 1
    <3>1. 1 .. (next'[r] - 1) = 1 .. next[r]
      BY <2>2, <2>6
    <3> QED
      BY <2>1, <2>4, <2>5, <2>6, <3>1 DEF MarkOK, Ids
  <2>7. CASE pc'[r] = "answer" /\ next[r] = Len(head[r])
    BY <2>1, <2>4, <2>5, <2>7 DEF MarkOK, Ids
  <2> QED
    BY <2>3, <2>6, <2>7
<1>5. CASE PostToAPI(r) \/ Refuse(r) \/ LinkRejected(r) \/ Abort(r)
  <2>1. CASE Finish({r}, "error")
    <3>1. pc'[r] = "error"
      BY <2>1, FinishEffect
    <3> QED
      BY <3>1 DEF MarkOK, InFlight
  <2>2. CASE ~Finish({r}, "error")
    <3>1. InFlight(r) /\ pc'[r] = "batch" /\ UNCHANGED <<form, head>>
      BY <1>5, <2>2 DEF PostToAPI, Refuse, LinkRejected, Abort, InFlight, TypeOK
    <3>2. \A n \in 1 .. Len(head'[r]) : SinceLoad(Ids(r)[n], head[r][n])'
      BY <1>0, <3>1 DEF SinceLoad, Ids
    <3> QED
      BY <3>1, <3>2 DEF MarkOK, Ids
  <2> QED
    BY <2>1, <2>2
<1>6. CASE Answer(r)
  <2>1. /\ pc[r] = "answer" /\ pc'[r] = "ok" /\ InFlight(r)
        /\ Receive(r) /\ UNCHANGED <<status, version>>
    <3>1. Finish({r}, "ok")
      BY <1>6 DEF Answer
    <3> QED
      BY <1>6, <3>1, FinishEffect DEF Answer, InFlight
  <2>2. ledger'[r].form = form[r] /\ ledger'[r].head = head[r]
    <3>1. ledger'[r] = [form |-> form[r], head |-> head[r], lines |-> lines[r]]
      BY <2>1, ReceiveEffect
    <3> QED
      BY <3>1
  <2>3. ASSUME form[r].mark, NEW n \in 1 .. Len(head[r])
        PROVE  SinceMark(form[r].ids[n], head[r][n])
    BY <2>1, <2>3 DEF MarkOK, Ids
  <2> QED
    BY <2>1, <2>2, <2>3 DEF MarkOK, InFlight, Postings, SinceMark, SinceLoad
<1> QED
  BY <1>1, <1>2, <1>3, <1>4, <1>5, <1>6 DEF ExportInvoices

\* A request posts only what it loaded, and loads nothing that is marked.
LEMMA LaterStep ==
  ASSUME TypeOK, [Next]_vars, NEW s \in Requests, RequestInv(s), LaterOK(s),
         \A r \in Requests : BatchOK(r) /\ MarkOK(r),
         ExportInvoices(s)
  PROVE  LaterOK(s)'
<1> USE DEF bookVars, localVars, auditVars
\* What an earlier request keeps.
<1>0. ASSUME NEW r \in Requests, pc[r] = "ok"
      PROVE  pc'[r] = "ok" /\ ledger'[r] = ledger[r]
  BY <1>0, OkStays DEF Untouched
<1>1. ASSUME NEW f \in Forms, Submit(s, f) PROVE LaterOK(s)'
  <2>1. /\ pc[s] = "idle" /\ head'[s] = <<>> /\ ledger'[s] = NoPosting
        /\ after'[s] = {r \in Requests : pc[r] = "ok"}
    BY <1>1 DEF Submit, RequestInv, LocalsOK, InFlight, TypeOK
  <2> QED
    BY <1>0, <2>1 DEF LaterOK, LoadsOnlyNew, Posted
<1>2. CASE ~\E f \in Forms : Submit(s, f)
  <2>1. after'[s] = after[s] /\ after[s] \subseteq Requests /\ InFlight(s)
    BY <1>2 DEF ExportInvoices, LoadHeader, Refuse, LoadItems, PostToAPI, RenderFile,
       RecordBatch, LinkInvoice, LinkRejected, MarkExported, Answer, Abort, InFlight,
       TypeOK
  <2>2. ASSUME NEW r \in after[s]
        PROVE  /\ pc[r] = "ok" /\ r \in Requests
               /\ pc'[r] = "ok" /\ ledger'[r] = ledger[r]
               /\ LoadsOnlyNew(s, r)
    BY <1>0, <2>1, <2>2 DEF LaterOK
  <2>3. ASSUME NEW r \in after[s] PROVE LoadsOnlyNew(s, r)'
    <3>1. CASE LoadHeader(s)
      <4> DEFINE i == Current(s)
      <4>1. /\ pc[s] = "header" /\ head'[s] = Append(head[s], version[i])
            /\ form'[s] = form[s]
        BY <3>1 DEF LoadHeader, TypeOK
      <4>2. /\ head[s] \in Seq(Versions) /\ version[i] \in Versions
            /\ Len(head[s]) = next[s] - 1 /\ next[s] \in Nat \ {0}
            /\ i \in Invoices /\ i = Ids(s)[next[s]]
        BY <2>1, <4>1, CurrentFacts DEF RequestInv, LocalsOK, TypeOK, Current
      <4>3. ASSUME ~form[s].re, ledger[r].form.mark,
                   NEW m \in Postings(r), NEW n \in 1 .. Len(head'[s]),
                   ledger[r].form.ids[m] = Ids(s)[n]
            PROVE  ledger[r].head[m] # head'[s][n]
        <5>1. CASE n = next[s]
          <6>1. status[i] = "ready_for_export"
            BY <3>1, <4>3 DEF LoadHeader, Exportable
          <6>2. SinceMark(i, ledger[r].head[m])
            BY <2>2, <4>2, <4>3, <5>1 DEF MarkOK
          <6>3. head'[s][n] = version[i]
            BY <4>1, <4>2, <5>1
          <6> QED
            BY <6>1, <6>2, <6>3 DEF SinceMark
        <5>2. CASE n # next[s]
          <6>1. n \in 1 .. Len(head[s]) /\ head'[s][n] = head[s][n]
            BY <4>1, <4>2, <5>2
          <6> QED
            BY <2>1, <2>2, <4>3, <6>1 DEF LoadsOnlyNew
        <5> QED
          BY <5>1, <5>2
      <4> QED
        BY SMTT(40), <2>2, <4>1, <4>3 DEF LoadsOnlyNew, Postings, Ids
    <3>2. CASE Finish({s}, "ok") \/ Finish({s}, "error")
      <4>1. pc'[s] \in {"ok", "error"}
        BY <3>2, FinishEffect
      <4> QED
        BY <4>1 DEF LoadsOnlyNew, InFlight
    <3>3. CASE UNCHANGED <<form, head>>
      BY <2>1, <2>2, <3>3 DEF LoadsOnlyNew, Postings, Ids
    <3> QED
      BY <1>2, <3>1, <3>2, <3>3 DEF ExportInvoices, Refuse, LoadItems, PostToAPI,
         RenderFile, RecordBatch, LinkInvoice, LinkRejected, MarkExported, Answer, Abort
  <2>4. ASSUME NEW r \in after[s], Posted(s)', ledger[r].form.mark, ~ledger'[s].form.re
        PROVE  ~SamePosted(r, s)'
    <3>1. CASE ledger' = ledger
      BY <2>2, <2>4, <3>1 DEF LaterOK, Posted, SamePosted, Postings
    <3>2. CASE Receive(s)
      <4>1. ledger'[s] = [form |-> form[s], head |-> head[s], lines |-> lines[s]]
        BY <3>2, ReceiveEffect
      <4>2. ledger'[s].form = form[s] /\ ledger'[s].head = head[s]
        BY <4>1
      <4> QED
        BY <2>1, <2>2, <2>4, <4>2 DEF LoadsOnlyNew, SamePosted, Postings, Ids
    <3> QED
      BY <1>2, <3>1, <3>2 DEF ExportInvoices, LoadHeader, Refuse, LoadItems, PostToAPI,
         RenderFile, RecordBatch, LinkInvoice, LinkRejected, MarkExported, Answer, Abort
  <2> QED
    BY <2>1, <2>2, <2>3, <2>4 DEF LaterOK
<1> QED
  BY <1>1, <1>2

ExportInv == ReviewInv /\ BatchInv /\ LaterInv

LEMMA InitExportInv == Init => ExportInv
<1> SUFFICES ASSUME Init PROVE LaterInv
  BY InitReviewInv, InitBatchInv DEF ExportInv
<1> QED
  BY DEF Init, LaterInv, MarkOK, LaterOK, InFlight

LEMMA NextExportInv == ExportInv /\ [Next]_vars => ExportInv'
<1> SUFFICES ASSUME ExportInv, [Next]_vars PROVE LaterInv' /\ ReviewInv' /\ BatchInv'
  BY DEF ExportInv
<1>1. ReviewInv' /\ BatchInv'
  BY NextReviewInv, NextBatchInv DEF ExportInv
<1>2. /\ TypeOK
      /\ \A s \in Requests : /\ RequestInv(s) /\ BatchOK(s) /\ MarkOK(s) /\ LaterOK(s)
                             /\ RequestInv(s)' /\ BatchOK(s)'
  BY <1>1 DEF ExportInv, ReviewInv, BatchInv, LaterInv
\* Requests that the step does not move.
<1>3. ASSUME NEW s \in Requests,
             \/ Untouched(s)
             \/ Ended(s) /\ pc'[s] = "error" /\ ledger'[s] = ledger[s]
      PROVE  MarkOK(s)' /\ LaterOK(s)'
  BY <1>2, <1>3, MarkFrame, LaterFrame
<1>4. ASSUME NEW r \in Requests, ExportInvoices(r) PROVE LaterInv'
  <2>1. MarkOK(r)' /\ LaterOK(r)'
    BY <1>2, <1>4, MarkStep, LaterStep
  <2>2. \A s \in Requests \ {r} : MarkOK(s)' /\ LaterOK(s)'
    BY <1>2, <1>3, <1>4, OthersUntouched
  <2> QED
    BY <2>1, <2>2 DEF LaterInv
<1>5. ASSUME NEW i \in Invoices, Others(i) PROVE LaterInv'
  BY <1>2, <1>3, <1>5, OthersEffect DEF LaterInv
<1>6. CASE Crash
  <2>1. ASSUME NEW s \in Requests PROVE MarkOK(s)' /\ LaterOK(s)'
    <3>1. CASE InFlight(s)
      BY <1>2, <1>3, <1>6, <3>1, CrashEffect
    <3>2. CASE ~InFlight(s)
      BY <1>2, <1>3, <1>6, <3>2, CrashEffect
    <3> QED
      BY <3>1, <3>2
  <2> QED
    BY <1>1, <2>1 DEF LaterInv
<1>7. CASE UNCHANGED vars
  <2>1. ASSUME NEW s \in Requests PROVE MarkOK(s)' /\ LaterOK(s)'
    <3>1. Untouched(s)
      BY <1>7 DEF vars, localVars, auditVars, Untouched
    <3> QED
      BY <1>3, <3>1
  <2> QED
    BY <1>1, <2>1 DEF LaterInv
<1> QED
  BY <1>1, <1>4, <1>5, <1>6, <1>7 DEF Next

\* What a finished export has marked is not posted again with the same content
\* by a request that began after it, unless it asked for a re-export.
THEOREM NothingRepostedLater == Spec => []NoLaterRepost
<1>1. Init => ExportInv
  BY InitExportInv
<1>2. ExportInv /\ [Next]_vars => ExportInv'
  BY NextExportInv
<1>3. ExportInv => NoLaterRepost
  BY DEF ExportInv, LaterInv, LaterOK, NoLaterRepost
<1> QED
  BY <1>1, <1>2, <1>3, PTL DEF Spec

===============================================================================
