------------------------------- MODULE McpImport -------------------------------
(***************************************************************************)
(* Two processes on one database and one storage directory: `serve` with   *)
(* its upload handlers, its worker and its boot recovery, and `mcp`, which *)
(* answers the tool calls of one agent and runs a worker of its own on a   *)
(* queue of its own.  The import tool can wait for its invoice by polling. *)
(*                                                                         *)
(* InvoicePipeline looks into one process; here an extraction is a claim   *)
(* and an outcome.  SQL statements can fail, also because the other        *)
(* process has the database locked; where that leaves an invoice to        *)
(* nobody, the history says so.                                            *)
(***************************************************************************)
EXTENDS Naturals, Sequences

CONSTANTS
  Invoices, Files,
  Uploads,     \* upload handlers of serve that can be in flight at once
  MaxPolls,    \* the tool polls so often, 60 times in mcp.go:377
  QueueCap,    \* capacity of a worker's channel, 100 in worker.go:34
  NoInvoice, NoFile

ASSUME McpAssumption ==
  /\ MaxPolls \in Nat \ {0}
  /\ QueueCap \in Nat
  /\ "mcp" \notin Uploads
  /\ NoInvoice \notin Invoices
  /\ NoFile \notin Files

Procs == {"serve", "mcp"}

\* Whoever imports: the handlers of serve, and mcp, which takes one request
\* after the other from its input.
Importers == Uploads \cup {"mcp"}

Home(c) == IF c = "mcp" THEN "mcp" ELSE "serve"

VARIABLES
  status,  \* column status
  file,    \* column checksum
  up,      \* the processes that run
  queue,   \* the channel of each worker
  wpc,     \* where each worker stands
  hand,    \* the invoice it holds
  ipc,     \* where each import stands
  ifile,   \* the file it imports
  iinv,    \* its invoice; before the INSERT, the original the lookup found
  polls,   \* how often the waiting tool has looked
  boot,    \* where serve's recovery stands, "none" when it is over
  todo,    \* pending ids its open cursor has still to return
  answer,  \* the outcome the agent was told, until the invoice is reprocessed
  raced,   \* history: files that two imports looked up before either inserted,
           \* or that a lookup missed because it failed
  twice,   \* history: invoices that a recovery reset or found in line while a
           \* process held them
  dropped  \* history: invoices a process held when it ended or gave up on an
           \* error, until a recovery queues them

bookVars    == <<status, file>>
workerVars  == <<queue, wpc, hand>>
bootVars    == <<boot, todo>>
importVars  == <<ipc, ifile, iinv, polls>>
historyVars == <<raced, twice, dropped>>
vars == <<bookVars, up, workerVars, bootVars, importVars, answer, historyVars>>

InQueue(p, i) == \E n \in 1 .. Len(queue[p]) : queue[p][n] = i

\* Process p will work on i, or is at it.
Holds(p, i) ==
  \/ InQueue(p, i)
  \/ hand[p] = i
  \/ \E c \in Importers : Home(c) = p /\ ipc[c] = "enqueue" /\ iinv[c] = i

\* Process p gets a connection: a process has one, and the recovery's cursor
\* keeps that of serve as long as the loop over its rows lasts.
CanQuery(p) == p \in up /\ ~(p = "serve" /\ boot = "send")

Init ==
  /\ status = [i \in Invoices |-> "absent"]
  /\ file   = [i \in Invoices |-> NoFile]
  /\ up = {"serve"}
  /\ queue = [p \in Procs |-> <<>>]
  /\ wpc   = [p \in Procs |-> "idle"]
  /\ hand  = [p \in Procs |-> NoInvoice]
  /\ ipc   = [c \in Importers |-> "idle"]
  /\ ifile = [c \in Importers |-> NoFile]
  /\ iinv  = [c \in Importers |-> NoInvoice]
  /\ polls = 0
  /\ boot = "reset" /\ todo = {}
  /\ answer = [i \in Invoices |-> "none"]
  /\ raced = {} /\ twice = {} /\ dropped = {}

SetStatus(i, s) == status' = [status EXCEPT ![i] = s]

-------------------------------------------------------------------------------
(* Imports, by an upload or by the import tool                             *)

Go(c, pc, f, i) ==
  /\ ipc'   = [ipc   EXCEPT ![c] = pc]
  /\ ifile' = [ifile EXCEPT ![c] = f]
  /\ iinv'  = [iinv  EXCEPT ![c] = i]

Return(c) == Go(c, "idle", NoFile, NoInvoice)

\* Mutant: no lookup of the checksum.
LookupNothing(c, f) ==
  /\ CanQuery(Home(c)) /\ ipc[c] = "idle"
  /\ Go(c, "insert", f, NoInvoice)
  /\ UNCHANGED <<bookVars, up, workerVars, bootVars, polls, answer, historyVars>>

\* ImportInvoice looks for an invoice with the checksum ...
Lookup(c, f) ==
  /\ CanQuery(Home(c)) /\ ipc[c] = "idle"
  /\ \/ \E j \in Invoices : file[j] = f /\ Go(c, "insert", f, j)
     \/ (\A j \in Invoices : file[j] # f) /\ Go(c, "insert", f, NoInvoice)
  /\ UNCHANGED <<bookVars, up, workerVars, bootVars, polls, answer, historyVars>>

\* ... a lookup that fails counts as one that finds nothing ...
LookupFails(c, f) ==
  /\ CanQuery(Home(c)) /\ ipc[c] = "idle"
  /\ \E j \in Invoices : file[j] = f
  /\ Go(c, "insert", f, NoInvoice)
  /\ raced' = raced \cup {f}
  /\ UNCHANGED <<bookVars, up, workerVars, bootVars, polls, answer, twice, dropped>>

\* What the import tool returns to after the import: an agent that wants the
\* outcome waits for it, also when it is a duplicate.
AfterImport(c, i) ==
  IF c = "mcp" THEN \/ Go(c, "wait", NoFile, i) /\ polls' = 0
                    \/ Return(c) /\ polls' = 0
               ELSE Return(c) /\ UNCHANGED polls

\* ... inserts the row, a duplicate if there was one ...
Insert(c) ==
  /\ CanQuery(Home(c)) /\ ipc[c] = "insert"
  /\ \E i \in Invoices :
       /\ status[i] = "absent"
       /\ file' = [file EXCEPT ![i] = ifile[c]]
       /\ IF iinv[c] = NoInvoice
            THEN /\ SetStatus(i, "pending")
                 /\ Go(c, "enqueue", NoFile, i) /\ UNCHANGED polls
            ELSE SetStatus(i, "duplicate") /\ AfterImport(c, i)
  /\ raced' = IF iinv[c] = NoInvoice /\ \E d \in Importers \ {c} :
                   /\ ipc[d] = "insert" /\ ifile[d] = ifile[c]
                   /\ iinv[d] = NoInvoice
                THEN raced \cup {ifile[c]} ELSE raced
  /\ UNCHANGED <<up, workerVars, bootVars, answer, twice, dropped>>

\* ... and queues the invoice with the worker of its own process, as a handler
\* that reprocesses one does.  The send needs no connection.
Enqueue(c) ==
  /\ Home(c) \in up /\ ipc[c] = "enqueue"
  /\ Len(queue[Home(c)]) < QueueCap
  /\ queue' = [queue EXCEPT ![Home(c)] = Append(@, iinv[c])]
  /\ AfterImport(c, iinv[c])
  /\ UNCHANGED <<bookVars, up, wpc, hand, bootVars, answer, historyVars>>

\* Mutant: a handler whose client is gone gives the send up, too.
SendGivenUp(c) ==
  /\ ipc[c] \in {"insert", "enqueue", "wait"}
  /\ Return(c)
  /\ UNCHANGED <<bookVars, up, workerVars, bootVars, polls, answer, historyVars>>

\* A handler returns early: its client is gone, or a call fails.
ImportEnds(c) ==
  /\ ipc[c] \in {"insert", "wait"}
  /\ Return(c)
  /\ UNCHANGED <<bookVars, up, workerVars, bootVars, polls, answer, historyVars>>

Tell(a) ==
  /\ answer' = [answer EXCEPT ![iinv["mcp"]] = a]
  /\ Return("mcp") /\ polls' = 0

\* Mutant: whatever is no longer waiting is taken for a success.
PollNotPending ==
  /\ "mcp" \in up /\ ipc["mcp"] = "wait"
  /\ polls < MaxPolls
  /\ IF status[iinv["mcp"]] \notin {"pending", "processing"}
       THEN Tell("ok")
       ELSE polls' = polls + 1 /\ UNCHANGED <<ipc, ifile, iinv, answer>>
  /\ UNCHANGED <<bookVars, up, workerVars, bootVars, historyVars>>

\* Mutant: looks at an unsettled invoice do not count.
PollForever ==
  /\ "mcp" \in up /\ ipc["mcp"] = "wait"
  /\ IF status[iinv["mcp"]] \in {"processed", "ready_for_export"}
       THEN Tell("ok") ELSE UNCHANGED <<ipc, ifile, iinv, polls, answer>>
  /\ UNCHANGED <<bookVars, up, workerVars, bootVars, historyVars>>

\* The tool looks at the invoice once a second.
Poll ==
  /\ "mcp" \in up /\ ipc["mcp"] = "wait"
  /\ polls < MaxPolls
  /\ LET s == status[iinv["mcp"]]
     IN  CASE s \in {"processed", "ready_for_export"} -> Tell("ok")
           [] s = "failed" -> Tell("failed")
           [] s = "duplicate" -> Tell("duplicate")
           [] OTHER -> /\ polls' = polls + 1
                       /\ UNCHANGED <<ipc, ifile, iinv, answer>>
  /\ UNCHANGED <<bookVars, up, workerVars, bootVars, historyVars>>

\* It gives up after so many looks, and the agent is told no outcome.
PollsEnd ==
  /\ "mcp" \in up /\ ipc["mcp"] = "wait"
  /\ polls = MaxPolls
  /\ Return("mcp") /\ polls' = 0
  /\ UNCHANGED <<bookVars, up, workerVars, bootVars, answer, historyVars>>

-------------------------------------------------------------------------------
(* The workers                                                             *)

WorkerTake(p) ==
  /\ p \in up /\ wpc[p] = "idle" /\ queue[p] # <<>>
  /\ hand'  = [hand EXCEPT ![p] = Head(queue[p])]
  /\ queue' = [queue EXCEPT ![p] = Tail(@)]
  /\ wpc'   = [wpc EXCEPT ![p] = "taken"]
  /\ UNCHANGED <<bookVars, up, bootVars, importVars, answer, historyVars>>

LayDown(p) ==
  /\ wpc'  = [wpc EXCEPT ![p] = "idle"]
  /\ hand' = [hand EXCEPT ![p] = NoInvoice]
  /\ UNCHANGED <<file, up, queue, bootVars, importVars, answer, raced, twice>>

\* The claim does not ask for the status, nor for who else is at it.
WorkerClaim(p) ==
  /\ CanQuery(p) /\ wpc[p] = "taken"
  /\ SetStatus(hand[p], "processing")
  /\ wpc' = [wpc EXCEPT ![p] = "reading"]
  /\ UNCHANGED <<file, up, queue, hand, bootVars, importVars, answer, historyVars>>

\* When the SELECT or the claim fails, the deferred handler is not installed
\* yet: the invoice keeps its status and nobody has it any more.
WorkerClaimFails(p) ==
  /\ CanQuery(p) /\ wpc[p] = "taken"
  /\ LayDown(p)
  /\ dropped' = dropped \cup {hand[p]}
  /\ UNCHANGED status

\* Mutant: no deferred handler marks a failed extraction.
FinishOrForget(p) ==
  /\ CanQuery(p) /\ wpc[p] = "reading"
  /\ LayDown(p)
  /\ (\E s \in {"processed", "duplicate"} : SetStatus(hand[p], s)) \/ UNCHANGED status
  /\ UNCHANGED dropped

\* The transaction with the data, or the deferred handler's mark ...
WorkerFinish(p) ==
  /\ CanQuery(p) /\ wpc[p] = "reading"
  /\ LayDown(p)
  /\ \E s \in {"processed", "duplicate", "failed"} : SetStatus(hand[p], s)
  /\ UNCHANGED dropped

\* ... whose own error is only logged: the invoice stays as it is.
WorkerMarkFails(p) ==
  /\ CanQuery(p) /\ wpc[p] = "reading"
  /\ LayDown(p)
  /\ dropped' = dropped \cup {hand[p]}
  /\ UNCHANGED status

-------------------------------------------------------------------------------
(* Users of serve                                                          *)

ConfirmInvoice(i) ==
  /\ CanQuery("serve") /\ status[i] = "processed"
  /\ SetStatus(i, "ready_for_export")
  /\ UNCHANGED <<file, up, workerVars, bootVars, importVars, answer, historyVars>>

MarkExported(i) ==
  /\ CanQuery("serve") /\ status[i] = "ready_for_export"
  /\ SetStatus(i, "exported")
  /\ UNCHANGED <<file, up, workerVars, bootVars, importVars, answer, historyVars>>

\* Mutant: an invoice that waits is queued again.
ReprocessWaiting(r, i) ==
  /\ CanQuery("serve") /\ ipc[r] = "idle"
  /\ status[i] \in {"pending", "processed", "failed", "ready_for_export"}
  /\ SetStatus(i, "pending")
  /\ Go(r, "enqueue", NoFile, i)
  /\ answer' = [answer EXCEPT ![i] = "none"]
  /\ UNCHANGED <<file, up, workerVars, bootVars, polls, historyVars>>

\* The UPDATE of ScheduleReprocess, which the handler r sends to the worker
\* next; from here on the agent's answer is about an earlier extraction.
ScheduleReprocess(r, i) ==
  /\ CanQuery("serve") /\ ipc[r] = "idle"
  /\ status[i] \in {"processed", "failed", "ready_for_export"}
  /\ SetStatus(i, "pending")
  /\ Go(r, "enqueue", NoFile, i)
  /\ answer' = [answer EXCEPT ![i] = "none"]
  /\ UNCHANGED <<file, up, workerVars, bootVars, polls, historyVars>>

-------------------------------------------------------------------------------
(* The processes                                                           *)

\* A process ends: killed, stopped, or, for mcp, at the end of its input.  Its
\* queue and the extraction at hand go with it.
ProcessEnds(p) ==
  /\ p \in up /\ up' = up \ {p}
  /\ queue' = [queue EXCEPT ![p] = <<>>]
  /\ wpc'   = [wpc   EXCEPT ![p] = "idle"]
  /\ hand'  = [hand  EXCEPT ![p] = NoInvoice]
  /\ ipc'   = [c \in Importers |-> IF Home(c) = p THEN "idle" ELSE ipc[c]]
  /\ ifile' = [c \in Importers |-> IF Home(c) = p THEN NoFile ELSE ifile[c]]
  /\ iinv'  = [c \in Importers |-> IF Home(c) = p THEN NoInvoice ELSE iinv[c]]
  /\ polls' = IF p = "mcp" THEN 0 ELSE polls
  /\ boot'  = IF p = "serve" THEN "none" ELSE boot
  /\ todo'  = IF p = "serve" THEN {} ELSE todo
  /\ dropped' = dropped \cup {i \in Invoices : Holds(p, i)}
  /\ UNCHANGED <<bookVars, answer, raced, twice>>

\* mcp starts its worker with an empty queue; it recovers nothing.
McpStarts ==
  /\ "mcp" \notin up /\ up' = up \cup {"mcp"}
  /\ UNCHANGED <<bookVars, workerVars, bootVars, importVars, answer, historyVars>>

\* serve starts: the recovery is a goroutine beside the worker and the handlers.
ServeStarts ==
  /\ "serve" \notin up /\ up' = up \cup {"serve"}
  /\ boot' = "reset"
  /\ UNCHANGED <<bookVars, workerVars, todo, importVars, answer, historyVars>>

-------------------------------------------------------------------------------
(* The recovery of serve                                                   *)

Held(i) == \E p \in Procs : Holds(p, i)

\* Rows in processing for more than five minutes are set to pending, whoever is
\* at them.
RecoverReset ==
  /\ "serve" \in up /\ boot = "reset" /\ boot' = "select"
  /\ \E stale \in SUBSET {i \in Invoices : status[i] = "processing"} :
       /\ status' = [i \in Invoices |->
                       IF i \in stale THEN "pending" ELSE status[i]]
       /\ twice' = twice \cup {i \in stale : Held(i)}
  /\ UNCHANGED <<file, up, workerVars, todo, importVars, answer, raced, dropped>>

\* All that is pending is to be queued, whoever holds it; the cursor stays open,
\* and the connection taken, until its last row.
RecoverSelect ==
  /\ "serve" \in up /\ boot = "select"
  /\ todo' = {i \in Invoices : status[i] = "pending"}
  /\ boot' = IF todo' = {} THEN "none" ELSE "send"
  /\ twice' = twice \cup {i \in todo' : Held(i)}
  /\ UNCHANGED <<bookVars, up, workerVars, importVars, answer, raced, dropped>>

RecoverSend ==
  /\ "serve" \in up /\ boot = "send" /\ Len(queue["serve"]) < QueueCap
  /\ \E i \in todo :
       /\ queue' = [queue EXCEPT !["serve"] = Append(@, i)]
       /\ todo'  = todo \ {i}
       /\ boot'  = IF todo' = {} THEN "none" ELSE "send"
       /\ dropped' = dropped \ {i}
  /\ UNCHANGED <<bookVars, up, wpc, hand, importVars, answer, raced, twice>>

\* An SQL error ends the recovery; nothing calls it again before the next start.
RecoverFails ==
  /\ "serve" \in up /\ boot # "none"
  /\ boot' = "none" /\ todo' = {}
  /\ UNCHANGED <<bookVars, up, workerVars, importVars, answer, historyVars>>

-------------------------------------------------------------------------------

Import(c) ==
  \/ \E f \in Files : Lookup(c, f) \/ LookupFails(c, f)
  \/ Insert(c) \/ Enqueue(c) \/ ImportEnds(c)

Worker(p) ==
  \/ WorkerTake(p) \/ WorkerClaim(p) \/ WorkerClaimFails(p)
  \/ WorkerFinish(p) \/ WorkerMarkFails(p)

Recovery == RecoverReset \/ RecoverSelect \/ RecoverSend \/ RecoverFails

Next ==
  \/ \E c \in Importers : Import(c)
  \/ Poll \/ PollsEnd
  \/ \E p \in Procs : Worker(p) \/ ProcessEnds(p)
  \/ McpStarts \/ ServeStarts \/ Recovery
  \/ \E i \in Invoices : ConfirmInvoice(i) \/ MarkExported(i)
  \/ \E r \in Uploads, i \in Invoices : ScheduleReprocess(r, i)

Spec == Init /\ [][Next]_vars

\* Workers run while their process has a connection for them, and the language
\* model answers; the tool's clock ticks; a send to a channel that has room
\* again and again gets through.  Nothing is assumed of the recovery, nor that
\* a statement ever succeeds.
Fairness ==
  /\ \A p \in Procs : WF_vars(Worker(p))
  /\ WF_vars(Poll \/ PollsEnd)
  /\ \A c \in Importers : SF_vars(Enqueue(c))

FairSpec == Spec /\ Fairness

-------------------------------------------------------------------------------
(* Properties                                                              *)

Statuses == {"absent", "pending", "processing", "processed", "duplicate",
             "failed", "ready_for_export", "exported"}

\* Type correctness: statuses, queues, program counters and answers stay in
\* their sets, and only a process that runs holds anything.
TypeOK ==
  /\ status \in [Invoices -> Statuses]
  /\ file   \in [Invoices -> Files \cup {NoFile}]
  /\ up \subseteq Procs
  /\ queue \in [Procs -> Seq(Invoices)]
  /\ wpc   \in [Procs -> {"idle", "taken", "reading"}]
  /\ hand  \in [Procs -> Invoices \cup {NoInvoice}]
  /\ ipc   \in [Importers -> {"idle", "insert", "enqueue", "wait"}]
  /\ ifile \in [Importers -> Files \cup {NoFile}]
  /\ iinv  \in [Importers -> Invoices \cup {NoInvoice}]
  /\ polls \in 0 .. MaxPolls
  /\ boot \in {"reset", "select", "send", "none"}
  /\ todo \subseteq Invoices
  /\ answer \in [Invoices -> {"none", "ok", "failed", "duplicate"}]
  /\ raced \subseteq Files
  /\ twice \subseteq Invoices /\ dropped \subseteq Invoices
  /\ \A p \in Procs : wpc[p] # "idle" <=> hand[p] # NoInvoice
  /\ \A c \in Importers : ipc[c] \in {"enqueue", "wait"} => iinv[c] # NoInvoice

Reads(p, i) == wpc[p] = "reading" /\ hand[p] = i
Waits(p, i) == Holds(p, i) /\ ~Reads(p, i)

\* The unconditional claim of worker.go:74 is safe across processes as well,
\* but for invoices that a recovery reset or lined up from under their holder:
\* all others are held once at most, and only while they wait or are read.
HeldOnce ==
  \A i \in Invoices \ twice :
    /\ ~(Holds("serve", i) /\ Holds("mcp", i))
    /\ \A p \in Procs : /\ Waits(p, i) => status[i] = "pending"
                        /\ Reads(p, i) => status[i] = "processing"

\* What the agent was told stands until the invoice is reprocessed, with the
\* same exception (mcp.go:386-400).
AnswersStand ==
  \A i \in Invoices \ twice :
    /\ answer[i] = "failed" => status[i] = "failed"
    /\ answer[i] = "duplicate" => status[i] = "duplicate"
    /\ answer[i] = "ok" =>
         status[i] \in {"processed", "ready_for_export", "exported"}

\* Nothing is lost across restarts (QA.md:243), with two processes: an invoice
\* that waits or is being read is held by some process, or its holder ended or
\* gave up on an error and no recovery has queued it since.
UnheldWasDropped ==
  \A i \in Invoices :
    status[i] \in {"pending", "processing"} =>
      (\E p \in up : Holds(p, i)) \/ i \in dropped

\* Checksum deduplication (QA.md:234): a file has one invoice that is not a
\* duplicate of its checksum, also when the agent imports it again after a
\* timeout, unless two imports of it looked before either inserted or a lookup
\* that failed missed the first.
OnePerFile ==
  \A i, j \in Invoices :
    (file[i] = file[j] /\ file[i] # NoFile /\ file[i] \notin raced
       /\ {status[i], status[j]} \cap {"duplicate"} = {}) => i = j

\* A call of the import tool that waits is answered, or mcp ends: the timeout
\* bounds it whatever the workers and the users of serve do.
ToolReturns == ipc["mcp"] = "wait" ~> ipc["mcp"] # "wait"

\* An invoice that waits is settled if serve stays up in the end, its recovery
\* is over and the invoice is not among the dropped: it is not stuck between
\* the two processes, whatever happens to others.
Settled(i) == status[i] \notin {"absent", "pending", "processing"}
SettlesOnceRecovered ==
  \A i \in Invoices :
    <>[](up = {"serve"} /\ boot = "none" /\ i \notin dropped) =>
      (status[i] \in {"pending", "processing"} ~> Settled(i))

===============================================================================
