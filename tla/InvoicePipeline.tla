--------------------------- MODULE InvoicePipeline ----------------------------
(***************************************************************************)
(* The invoice pipeline of `importinvoices serve`: HTTP handlers that      *)
(* import, edit, confirm, reprocess and export invoices, the in-memory     *)
(* queue, the one worker goroutine, the boot recovery goroutine, and the   *)
(* process dying at any point.                                             *)
(*                                                                         *)
(* One action is what happens between two points where another goroutine   *)
(* can get in: one SQL statement or one transaction, since db.Open allows  *)
(* a single connection (db/store.go:27), or one channel operation.         *)
(* Invoice contents are reduced to the business key.                       *)
(***************************************************************************)
EXTENDS Naturals, Sequences, FiniteSets

CONSTANTS
  Invoices,      \* ids that uuid.New() may hand out
  Files,         \* file contents, identified by their SHA-256 checksum
  Keys,          \* <<seller_vat, series_and_number>> pairs, never NULL
  BlankKeys,     \* those with an empty component, which the dedup query skips
  Requests,      \* HTTP handlers that can be in flight at the same time
  QueueCap,      \* capacity of the worker's channel, 100 in worker.go:34
  NoInvoice, NoKey, NoFile,
  BootOverlap,   \* requests are served while the boot recovery still runs
  QuickRestart,  \* a restart may find processing rows fresher than 5 minutes
  DbErrors       \* SQL statements may fail for reasons of their own

ASSUME PipelineAssumption ==
  /\ BlankKeys \subseteq Keys
  /\ QueueCap \in Nat \ {0}
  /\ NoInvoice \notin Invoices
  /\ NoKey \notin Keys
  /\ NoFile \notin Files
  /\ BootOverlap \in BOOLEAN /\ QuickRestart \in BOOLEAN /\ DbErrors \in BOOLEAN

VARIABLES
  status, key, dupOf, \* table invoices, see InvoiceLifecycle
  file,               \* column checksum
  queue,              \* the worker's channel
  wpc,                \* where Worker.process stands
  cur,                \* the invoice it works on
  found,              \* the key the model extracted
  orig,               \* the original its dedup query returned
  boot,               \* where RecoverStuckInvoices stands; "down": no process
  todo,               \* pending ids its open cursor has still to return
  stale,              \* processing rows older than the threshold at boot
  rpc,                \* where each handler stands
  rinv,               \* the invoice it works on (or the original, for imports)
  rfile               \* the file it imports

bookVars    == <<status, key, dupOf>>
workerVars  == <<wpc, cur, found, orig>>
bootVars    == <<boot, todo, stale>>
requestVars == <<rpc, rinv, rfile>>
vars == <<bookVars, file, queue, workerVars, bootVars, requestVars>>

\* The rows of table invoices as the abstract book sees them; TicketHistory has
\* the tickets that a boot hands out a second time.
Book == INSTANCE InvoiceLifecycle WITH
          Invoices <- Invoices, Keys <- Keys,
          NoInvoice <- NoInvoice, NoKey <- NoKey,
          status <- status, key <- key, dupOf <- dupOf, again <- {}

Statuses == Book!Statuses
Live(i) == Book!Live(i)
KeyTaken(i, k) == Book!KeyTaken(i, k)

\* The statuses the review screen lets a user edit, and those a reprocess
\* accepts: the same three.
Reviewable == {"processed", "failed", "ready_for_export"}

\* The single connection is free: the recovery's cursor holds it as long as
\* the loop over its rows lasts.
ConnFree == boot \notin {"down", "send"}

\* The HTTP server takes requests.
Serving == ConnFree /\ (boot = "done" \/ BootOverlap)

Init ==
  /\ Book!BookInit
  /\ file  = [i \in Invoices |-> NoFile]
  /\ queue = <<>>
  /\ wpc = "idle" /\ cur = NoInvoice /\ found = NoKey /\ orig = NoInvoice
  /\ boot = "reset" /\ todo = {} /\ stale = {}
  /\ rpc   = [r \in Requests |-> "idle"]
  /\ rinv  = [r \in Requests |-> NoInvoice]
  /\ rfile = [r \in Requests |-> NoFile]

-------------------------------------------------------------------------------
(* HTTP handlers                                                           *)

Go(r, pc, i, f) ==
  /\ rpc'   = [rpc   EXCEPT ![r] = pc]
  /\ rinv'  = [rinv  EXCEPT ![r] = i]
  /\ rfile' = [rfile EXCEPT ![r] = f]

Return(r) == Go(r, "idle", NoInvoice, NoFile)

SetStatus(i, s) == status' = [status EXCEPT ![i] = s]

\* ImportInvoice looks the checksum up, whatever the status of the row found;
\* a lookup that fails counts as one that finds nothing.
ImportCheck(r, f) ==
  /\ Serving /\ rpc[r] = "idle"
  /\ \/ \E j \in Invoices : file[j] = f /\ Go(r, "insert", j, f)
     \/ /\ DbErrors \/ \A j \in Invoices : file[j] # f
        /\ Go(r, "insert", NoInvoice, f)
  /\ UNCHANGED <<bookVars, file, queue, workerVars, bootVars>>

\* After saving the file and its preview, ImportInvoice inserts the row.
ImportInsert(r) ==
  /\ Serving /\ rpc[r] = "insert"
  /\ \E i \in Invoices :
       /\ status[i] = "absent"
       /\ file'  = [file EXCEPT ![i] = rfile[r]]
       /\ dupOf' = [dupOf EXCEPT ![i] = rinv[r]]
       /\ IF rinv[r] = NoInvoice
            THEN SetStatus(i, "pending") /\ Go(r, "enqueue", i, NoFile)
            ELSE SetStatus(i, "duplicate") /\ Return(r)
  /\ UNCHANGED <<key, queue, workerVars, bootVars>>

\* Mutant: the send lets one invoice more into the channel than it holds.
EnqueueOffByOne(r) ==
  /\ boot # "down" /\ rpc[r] = "enqueue"
  /\ Len(queue) <= QueueCap
  /\ queue' = Append(queue, rinv[r])
  /\ Return(r)
  /\ UNCHANGED <<bookVars, file, workerVars, bootVars>>

\* Worker.Queue: a send that blocks while the channel is full.  It needs no
\* connection, so it can happen while the recovery holds it.
Enqueue(r) ==
  /\ boot # "down" /\ rpc[r] = "enqueue"
  /\ Len(queue) < QueueCap
  /\ queue' = Append(queue, rinv[r])
  /\ Return(r)
  /\ UNCHANGED <<bookVars, file, workerVars, bootVars>>

\* handleUpdateInvoice reads the invoice and checks its status ...
EditRead(r, i) ==
  /\ Serving /\ rpc[r] = "idle"
  /\ status[i] \in Reviewable
  /\ Go(r, "edit", i, NoFile)
  /\ UNCHANGED <<bookVars, file, queue, workerVars, bootVars>>

\* ... and UpdateInvoice later writes the form, whatever the status is now;
\* the unique index can reject the key.
EditWrite(r, k) ==
  /\ Serving /\ rpc[r] = "edit"
  /\ IF Live(rinv[r]) /\ KeyTaken(rinv[r], k)
       THEN UNCHANGED key
       ELSE key' = [key EXCEPT ![rinv[r]] = k]
  /\ Return(r)
  /\ UNCHANGED <<status, dupOf, file, queue, workerVars, bootVars>>

ConfirmInvoice(i) ==
  /\ Serving /\ status[i] = "processed"
  /\ SetStatus(i, "ready_for_export")
  /\ UNCHANGED <<key, dupOf, file, queue, workerVars, bootVars, requestVars>>

\* Mutant: an invoice that already waits for the worker is accepted, too.
ReprocessWaiting(r, i) ==
  /\ Serving /\ rpc[r] = "idle"
  /\ status[i] \in Reviewable \cup {"pending"}
  /\ SetStatus(i, "pending")
  /\ Go(r, "enqueue", i, NoFile)
  /\ UNCHANGED <<key, dupOf, file, queue, workerVars, bootVars>>

\* No caller in the repository sets allowUnExport.
ScheduleReprocess(r, i) ==
  /\ Serving /\ rpc[r] = "idle"
  /\ status[i] \in Reviewable
  /\ SetStatus(i, "pending")
  /\ Go(r, "enqueue", i, NoFile)
  /\ UNCHANGED <<key, dupOf, file, queue, workerVars, bootVars>>

\* ExportInvoices loads the invoice through the status gate, which lets an
\* exported one pass on an explicit re-export ...
ExportLoad(r, i) ==
  /\ Serving /\ rpc[r] = "idle"
  /\ status[i] \in {"ready_for_export", "exported"}
  /\ Go(r, "mark", i, NoFile)
  /\ UNCHANGED <<bookVars, file, queue, workerVars, bootVars>>

\* Mutant: the UPDATE does not look at the status again.
MarkUnchecked(r) ==
  /\ Serving /\ rpc[r] = "mark"
  /\ SetStatus(rinv[r], "exported")
  /\ Return(r)
  /\ UNCHANGED <<key, dupOf, file, queue, workerVars, bootVars>>

\* ... and marks it once the rendering or the API call has succeeded.
MarkInvoicesExported(r) ==
  /\ Serving /\ rpc[r] = "mark"
  /\ IF status[rinv[r]] = "ready_for_export"
       THEN SetStatus(rinv[r], "exported")
       ELSE UNCHANGED status
  /\ Return(r)
  /\ UNCHANGED <<key, dupOf, file, queue, workerVars, bootVars>>

\* A handler returns early: its client is gone, the disk is full, the form is
\* not valid, the accounting API answers with an error.
RequestDropped(r) ==
  /\ boot # "down" /\ rpc[r] \in {"insert", "edit", "mark"}
  /\ Return(r)
  /\ UNCHANGED <<bookVars, file, queue, workerVars, bootVars>>

-------------------------------------------------------------------------------
(* The worker goroutine: one call of Worker.process after another          *)

WorkerGo(pc, i, k, j) == wpc' = pc /\ cur' = i /\ found' = k /\ orig' = j

WorkerIdle == WorkerGo("idle", NoInvoice, NoKey, NoInvoice)

\* Changing row i to a live status while it holds key k hits the unique index.
IndexRejects(i, k) == k # NoKey /\ KeyTaken(i, k)

WorkerTake ==
  /\ boot # "down" /\ wpc = "idle" /\ queue # <<>>
  /\ queue' = Tail(queue)
  /\ WorkerGo("taken", Head(queue), NoKey, NoInvoice)
  /\ UNCHANGED <<bookVars, file, bootVars, requestVars>>

\* The row is set to processing whatever its status was.
WorkerClaim ==
  /\ ConnFree /\ wpc = "taken"
  /\ ~IndexRejects(cur, key[cur])
  /\ SetStatus(cur, "processing")
  /\ WorkerGo("extract", cur, NoKey, NoInvoice)
  /\ UNCHANGED <<key, dupOf, file, queue, bootVars, requestVars>>

\* When that UPDATE fails the deferred handler is not installed yet: the
\* invoice is dropped with the status it had.
WorkerClaimFails ==
  /\ ConnFree /\ wpc = "taken"
  /\ DbErrors \/ IndexRejects(cur, key[cur])
  /\ WorkerIdle
  /\ UNCHANGED <<bookVars, file, queue, bootVars, requestVars>>

\* GetProcessor, the VAT classifiers, the page images and the language model:
\* any key can come out of it, or an error.
WorkerExtract ==
  /\ ConnFree /\ wpc = "extract"
  /\ \/ \E k \in Keys : WorkerGo("dedup", cur, k, NoInvoice)
     \/ WorkerGo("failing", cur, NoKey, NoInvoice)
  /\ UNCHANGED <<bookVars, file, queue, bootVars, requestVars>>

\* Mutant: the lookup does not leave the invoice itself out.
DedupWithItself ==
  /\ ConnFree /\ wpc = "dedup"
  /\ LET same == {j \in Invoices : Live(j) /\ key[j] = found}
     IN  \/ /\ found \notin BlankKeys
            /\ \E j \in same : WorkerGo("save", cur, found, j)
         \/ /\ found \in BlankKeys \/ same = {}
            /\ WorkerGo("save", cur, found, NoInvoice)
         \/ DbErrors /\ WorkerGo("failing", cur, NoKey, NoInvoice)
  /\ UNCHANGED <<bookVars, file, queue, bootVars, requestVars>>

\* The business-key lookup, skipped for keys with an empty component.
WorkerDedup ==
  /\ ConnFree /\ wpc = "dedup"
  /\ LET same == {j \in Invoices \ {cur} : Live(j) /\ key[j] = found}
     IN  \/ /\ found \notin BlankKeys
            /\ \E j \in same : WorkerGo("save", cur, found, j)
         \/ /\ found \in BlankKeys \/ same = {}
            /\ WorkerGo("save", cur, found, NoInvoice)
         \/ DbErrors /\ WorkerGo("failing", cur, NoKey, NoInvoice)
  /\ UNCHANGED <<bookVars, file, queue, bootVars, requestVars>>

\* The transaction that stores the extracted data.
WorkerSave ==
  /\ ConnFree /\ wpc = "save"
  /\ orig = NoInvoice => ~KeyTaken(cur, found)
  /\ SetStatus(cur, IF orig = NoInvoice THEN "processed" ELSE "duplicate")
  /\ key'   = [key   EXCEPT ![cur] = found]
  /\ dupOf' = [dupOf EXCEPT ![cur] = orig]
  /\ WorkerIdle
  /\ UNCHANGED <<file, queue, bootVars, requestVars>>

\* It is rolled back when the unique index rejects the key.
WorkerSaveFails ==
  /\ ConnFree /\ wpc = "save"
  /\ DbErrors \/ (orig = NoInvoice /\ KeyTaken(cur, found))
  /\ WorkerGo("failing", cur, NoKey, NoInvoice)
  /\ UNCHANGED <<bookVars, file, queue, bootVars, requestVars>>

\* The deferred handler marks the invoice; an error there is only logged.
WorkerFail ==
  /\ ConnFree /\ wpc = "failing"
  /\ SetStatus(cur, "failed") \/ (DbErrors /\ UNCHANGED status)
  /\ WorkerIdle
  /\ UNCHANGED <<key, dupOf, file, queue, bootVars, requestVars>>

-------------------------------------------------------------------------------
(* The recovery goroutine of a boot                                        *)

\* Mutant: interrupted extractions are left as they are.
RecoverNothing ==
  /\ boot = "reset" /\ boot' = "select" /\ stale' = {}
  /\ UNCHANGED <<bookVars, file, queue, workerVars, todo, requestVars>>

RecoverReset ==
  /\ boot = "reset"
  /\ status' = [i \in Invoices |->
                  IF i \in stale /\ status[i] = "processing"
                    THEN "pending" ELSE status[i]]
  /\ boot' = "select" /\ stale' = {}
  /\ UNCHANGED <<key, dupOf, file, queue, workerVars, todo, requestVars>>

\* Mutant: interrupted extractions are enqueued along with the pending ones.
SelectProcessingToo ==
  /\ boot = "select"
  /\ todo' = {i \in Invoices : status[i] \in {"pending", "processing"}}
  /\ boot' = IF todo' = {} THEN "done" ELSE "send"
  /\ UNCHANGED <<bookVars, file, queue, workerVars, stale, requestVars>>

\* The cursor stays open, and the connection taken, until its last row.
RecoverSelect ==
  /\ boot = "select"
  /\ todo' = {i \in Invoices : status[i] = "pending"}
  /\ boot' = IF todo' = {} THEN "done" ELSE "send"
  /\ UNCHANGED <<bookVars, file, queue, workerVars, stale, requestVars>>

\* Mutant: a send that does not block and forgets what the channel cannot take.
SendOrForget ==
  /\ boot = "send"
  /\ \E i \in todo :
       /\ queue' = IF Len(queue) < QueueCap THEN Append(queue, i) ELSE queue
       /\ todo'  = todo \ {i}
       /\ boot'  = IF todo = {i} THEN "done" ELSE "send"
  /\ UNCHANGED <<bookVars, file, workerVars, stale, requestVars>>

\* The order is that of created_at, whose ties are arbitrary: any order here.
RecoverSend ==
  /\ boot = "send" /\ Len(queue) < QueueCap
  /\ \E i \in todo :
       /\ queue' = Append(queue, i)
       /\ todo'  = todo \ {i}
       /\ boot'  = IF todo = {i} THEN "done" ELSE "send"
  /\ UNCHANGED <<bookVars, file, workerVars, stale, requestVars>>

\* An SQL error ends the recovery; nothing calls it again before the next boot.
RecoverFails ==
  /\ DbErrors /\ boot \in {"reset", "select", "send"}
  /\ boot' = "done" /\ todo' = {} /\ stale' = {}
  /\ UNCHANGED <<bookVars, file, queue, workerVars, requestVars>>

-------------------------------------------------------------------------------
(* The process                                                             *)

\* Killed, or stopped by SIGTERM: the context of the worker is cancelled, so
\* the deferred handler's own UPDATE fails and the row stays as it is.
Crash ==
  /\ boot # "down"
  /\ boot' = "down" /\ todo' = {} /\ stale' = {}
  /\ queue' = <<>>
  /\ WorkerIdle
  /\ rpc'   = [r \in Requests |-> "idle"]
  /\ rinv'  = [r \in Requests |-> NoInvoice]
  /\ rfile' = [r \in Requests |-> NoFile]
  /\ UNCHANGED <<bookVars, file>>

Restart ==
  /\ boot = "down"
  /\ boot' = "reset"
  /\ LET interrupted == {i \in Invoices : status[i] = "processing"}
     IN  stale' \in IF QuickRestart THEN SUBSET interrupted ELSE {interrupted}
  /\ UNCHANGED <<bookVars, file, queue, workerVars, todo, requestVars>>

-------------------------------------------------------------------------------

Handler(r) ==
  \/ \E f \in Files : ImportCheck(r, f)
  \/ ImportInsert(r)
  \/ Enqueue(r)
  \/ \E i \in Invoices : EditRead(r, i)
  \/ \E k \in Keys : EditWrite(r, k)
  \/ \E i \in Invoices : ScheduleReprocess(r, i)
  \/ \E i \in Invoices : ExportLoad(r, i)
  \/ MarkInvoicesExported(r)
  \/ RequestDropped(r)

Worker ==
  \/ WorkerTake \/ WorkerClaim \/ WorkerClaimFails \/ WorkerExtract
  \/ WorkerDedup \/ WorkerSave \/ WorkerSaveFails \/ WorkerFail

Recovery == RecoverReset \/ RecoverSelect \/ RecoverSend \/ RecoverFails

Next ==
  \/ \E r \in Requests : Handler(r)
  \/ \E i \in Invoices : ConfirmInvoice(i)
  \/ Worker \/ Recovery \/ Crash \/ Restart

Spec == Init /\ [][Next]_vars

\* The worker and the recovery are goroutines that always run on, and the
\* language model answers.  Blocked senders are served in order by a Go
\* channel, so a send that is possible again and again succeeds; that an error
\* ends a send of the recovery instead is not counted on.  The container is
\* restarted by its policy (docker-compose.yml:20).
Fairness ==
  /\ WF_vars(Worker)
  /\ WF_vars(boot # "send" /\ (RecoverReset \/ RecoverSelect \/ RecoverFails))
  /\ SF_vars(RecoverSend)
  /\ \A r \in Requests : SF_vars(Enqueue(r))
  /\ WF_vars(Restart)

FairSpec == Spec /\ Fairness

-------------------------------------------------------------------------------
(* Properties                                                              *)

\* Type correctness: every variable stays in the set its columns, channel and
\* program counters range over.
TypeOK ==
  /\ status \in [Invoices -> Statuses]
  /\ key    \in [Invoices -> Keys \cup {NoKey}]
  /\ dupOf  \in [Invoices -> Invoices \cup {NoInvoice}]
  /\ file   \in [Invoices -> Files \cup {NoFile}]
  /\ queue  \in Seq(Invoices) /\ Len(queue) <= QueueCap
  /\ wpc \in {"idle", "taken", "extract", "dedup", "save", "failing"}
  /\ cur  \in Invoices \cup {NoInvoice} /\ (wpc # "idle" => cur \in Invoices)
  /\ found \in Keys \cup {NoKey} /\ (wpc \in {"dedup", "save"} => found \in Keys)
  /\ orig \in Invoices \cup {NoInvoice}
  /\ boot \in {"down", "reset", "select", "send", "done"}
  /\ todo \subseteq Invoices /\ stale \subseteq Invoices
  /\ rpc   \in [Requests -> {"idle", "insert", "enqueue", "edit", "mark"}]
  /\ rinv  \in [Requests -> Invoices \cup {NoInvoice}]
  /\ rfile \in [Requests -> Files \cup {NoFile}]
  /\ \A r \in Requests :
       rpc[r] \in {"enqueue", "edit", "mark"} => rinv[r] \in Invoices

\* The promises of an invoice's ticket: the queue entry, the blocked handler,
\* the recovery's cursor row or the worker's hand that will get it processed.
InQueue(i)  == \E n \in 1 .. Len(queue) : queue[n] = i
Sending(i)  == \E r \in Requests : rpc[r] = "enqueue" /\ rinv[r] = i
Taken(i)    == wpc = "taken" /\ cur = i
HasTicket(i) == InQueue(i) \/ Sending(i) \/ Taken(i) \/ i \in todo

\* A business key belongs to one live invoice (QA.md:234, the unique index of
\* 001_initial.sql:203-205), through edits, claims and saves that race.
BusinessKeyUnique ==
  \A i, j \in Invoices :
    Live(i) /\ Live(j) /\ key[i] = key[j] /\ key[i] # NoKey => i = j

\* Nothing waits for the invoice any more.
Settled(i) == status[i] \notin {"absent", "pending", "processing"}

-------------------------------------------------------------------------------
(* What the documentation says and the code does not keep                  *)

\* "All pending invoices are enqueued on boot" (QA.md:243, recovery.go:22): a
\* boot that is not cut short gets through its recovery.
PendingIsEnqueuedOnBoot ==
  boot = "reset" ~> boot \in {"done", "down"}

===============================================================================
