---------------------------- MODULE McpImportProofs ----------------------------
(***************************************************************************)
(* Theorems about McpImport, for any invoices, files and uploads: what two *)
(* processes hold, what the agent is told, what is lost at most, and that  *)
(* a file has one original.                                                *)
(***************************************************************************)
EXTENDS McpImport, SequenceTheorems, TLAPS

LEMMA NextSteps ==
  ASSUME [Next]_vars
  PROVE  \/ \E c \in Importers : \/ \E f \in Files : Lookup(c, f) \/ LookupFails(c, f)
                                 \/ Insert(c) \/ Enqueue(c) \/ ImportEnds(c)
         \/ Poll \/ PollsEnd
         \/ \E p \in Procs : \/ WorkerTake(p) \/ WorkerClaim(p) \/ WorkerClaimFails(p)
                             \/ WorkerFinish(p) \/ WorkerMarkFails(p)
                             \/ ProcessEnds(p)
         \/ McpStarts \/ ServeStarts
         \/ RecoverReset \/ RecoverSelect \/ RecoverSend \/ RecoverFails
         \/ \E i \in Invoices : ConfirmInvoice(i) \/ MarkExported(i)
         \/ \E x \in Uploads, i \in Invoices : ScheduleReprocess(x, i)
         \/ UNCHANGED vars
BY DEF Next, Import, Worker, Recovery

LEMMA Homes == /\ \A c \in Importers : Home(c) \in Procs
               /\ "mcp" \in Importers /\ Home("mcp") = "mcp"
               /\ "mcp" \in Procs /\ "serve" \in Procs
               /\ \A c \in Uploads : c \in Importers /\ c # "mcp" /\ Home(c) = "serve"
               /\ \A p \in Procs : CanQuery(p) => p \in up
BY McpAssumption DEF Importers, Home, Procs, CanQuery

-------------------------------------------------------------------------------
(* Queues                                                                  *)

\* Process p has i in its queue once at most.
OnceInQueue(p, i) ==
  \A m, n \in 1 .. Len(queue[p]) : queue[p][m] = i /\ queue[p][n] = i => m = n

Queues == queue \in [Procs -> Seq(Invoices)]

LEMMA QueueKept ==
  ASSUME UNCHANGED queue
  PROVE  \A p \in Procs, j \in Invoices :
           /\ InQueue(p, j)' <=> InQueue(p, j)
           /\ OnceInQueue(p, j)' <=> OnceInQueue(p, j)
BY DEF InQueue, OnceInQueue

LEMMA SendEffect ==
  ASSUME Queues, NEW p \in Procs, NEW i \in Invoices,
         queue' = [queue EXCEPT ![p] = Append(@, i)]
  PROVE  /\ Queues'
         /\ \A q \in Procs, j \in Invoices :
              /\ InQueue(q, j)' <=> InQueue(q, j) \/ (q = p /\ j = i)
              /\ OnceInQueue(q, j) /\ ~(q = p /\ j = i /\ InQueue(q, j))
                   => OnceInQueue(q, j)'
<1>. DEFINE s == queue[p]
<1>1. s \in Seq(Invoices) /\ queue'[p] = Append(s, i)
  BY DEF Queues
<1>2. \A q \in Procs : q # p => queue'[q] = queue[q]
  BY DEF Queues
<1>3. /\ Append(s, i) \in Seq(Invoices) /\ Len(Append(s, i)) = Len(s) + 1
      /\ \A n \in 1 .. Len(s) : Append(s, i)[n] = s[n]
      /\ Append(s, i)[Len(s) + 1] = i
      /\ Len(s) \in Nat
  BY <1>1
<1>4. Queues'
  BY <1>1, <1>3 DEF Queues
<1>5. ASSUME NEW q \in Procs, NEW j \in Invoices
      PROVE  /\ InQueue(q, j)' <=> InQueue(q, j) \/ (q = p /\ j = i)
             /\ OnceInQueue(q, j) /\ ~(q = p /\ j = i /\ InQueue(q, j))
                  => OnceInQueue(q, j)'
  <2>1. CASE q # p
    BY <1>2, <2>1 DEF InQueue, OnceInQueue
  <2>2. CASE q = p
    <3>. DEFINE t == Append(s, i)
    <3>1. \A n \in 1 .. Len(t) : n \in 1 .. Len(s) \/ n = Len(s) + 1
      BY <1>3
    <3>2. \A n \in 1 .. Len(s) : n \in 1 .. Len(t) /\ n # Len(s) + 1
      BY <1>3
    <3>3. Len(s) + 1 \in 1 .. Len(t)
      BY <1>3
    <3>4. InQueue(q, j) <=> \E n \in 1 .. Len(s) : s[n] = j
      BY <2>2 DEF InQueue
    <3>5. InQueue(q, j)' <=> \E n \in 1 .. Len(t) : t[n] = j
      BY <1>1, <2>2 DEF InQueue
    <3>6. OnceInQueue(q, j) <=> \A m, n \in 1 .. Len(s) : s[m] = j /\ s[n] = j => m = n
      BY <2>2 DEF OnceInQueue
    <3>7. OnceInQueue(q, j)' <=> \A m, n \in 1 .. Len(t) : t[m] = j /\ t[n] = j => m = n
      BY <1>1, <2>2 DEF OnceInQueue
    <3>8. \A n \in 1 .. Len(s) : t[n] = s[n]
      BY <1>3
    <3>9. t[Len(s) + 1] = i
      BY <1>3
    <3>. HIDE DEF s, t
    <3>10. InQueue(q, j)' <=> InQueue(q, j) \/ j = i
      BY <3>1, <3>2, <3>3, <3>4, <3>5, <3>8, <3>9
    <3>11. ASSUME OnceInQueue(q, j), ~(j = i /\ InQueue(q, j))
           PROVE  OnceInQueue(q, j)'
      BY <3>1, <3>4, <3>6, <3>7, <3>8, <3>9, <3>11
    <3>. QED
      BY <2>2, <3>10, <3>11
  <2>. QED
    BY <2>1, <2>2
<1>. QED
  BY <1>4, <1>5

LEMMA TakeEffect ==
  ASSUME Queues, NEW p \in Procs, queue[p] # <<>>,
         queue' = [queue EXCEPT ![p] = Tail(@)]
  PROVE  /\ Queues' /\ Head(queue[p]) \in Invoices
         /\ \A q \in Procs, j \in Invoices :
              /\ InQueue(q, j) <=> InQueue(q, j)' \/ (q = p /\ j = Head(queue[p]))
              /\ OnceInQueue(q, j) => OnceInQueue(q, j)'
              /\ OnceInQueue(q, j) /\ q = p /\ j = Head(queue[p]) => ~InQueue(q, j)'
<1>. DEFINE s == queue[p]
            t == Tail(s)
<1>1. s \in Seq(Invoices) /\ s # <<>> /\ queue'[p] = t
  BY DEF Queues
<1>2. \A q \in Procs : q # p => queue'[q] = queue[q]
  BY DEF Queues
<1>3. /\ t \in Seq(Invoices) /\ Len(t) = Len(s) - 1 /\ Len(s) \in Nat /\ Len(s) >= 1
      /\ \A n \in 1 .. Len(t) : t[n] = s[n + 1]
      /\ Head(s) = s[1] /\ Head(s) \in Invoices
  BY <1>1, HeadTailProperties
<1>4. Queues'
  BY <1>1, <1>3 DEF Queues
<1>5. ASSUME NEW q \in Procs, NEW j \in Invoices
      PROVE  /\ InQueue(q, j) <=> InQueue(q, j)' \/ (q = p /\ j = Head(s))
             /\ OnceInQueue(q, j) => OnceInQueue(q, j)'
             /\ OnceInQueue(q, j) /\ q = p /\ j = Head(s) => ~InQueue(q, j)'
  <2>1. CASE q # p
    BY <1>2, <2>1 DEF InQueue, OnceInQueue
  <2>2. CASE q = p
    <3>1. \A n \in 1 .. Len(t) : n \in Nat /\ n + 1 \in 1 .. Len(s) /\ n + 1 # 1
      BY <1>3
    <3>2. \A n \in 1 .. Len(s) : n = 1 \/ (n - 1 \in 1 .. Len(t) /\ (n - 1) + 1 = n)
      BY <1>3
    <3>3. 1 \in 1 .. Len(s)
      BY <1>3
    <3>4. InQueue(q, j) <=> \E n \in 1 .. Len(s) : s[n] = j
      BY <2>2 DEF InQueue
    <3>5. InQueue(q, j)' <=> \E n \in 1 .. Len(t) : t[n] = j
      BY <1>1, <2>2 DEF InQueue
    <3>6. OnceInQueue(q, j) <=> \A m, n \in 1 .. Len(s) : s[m] = j /\ s[n] = j => m = n
      BY <2>2 DEF OnceInQueue
    <3>7. OnceInQueue(q, j)' <=> \A m, n \in 1 .. Len(t) : t[m] = j /\ t[n] = j => m = n
      BY <1>1, <2>2 DEF OnceInQueue
    <3>8. /\ \A n \in 1 .. Len(t) : t[n] = s[n + 1]
          /\ Head(s) = s[1]
      BY <1>3
    <3>9. \A m, n \in 1 .. Len(t) : m + 1 = n + 1 => m = n
      BY <1>3
    <3>. HIDE DEF s, t
    <3>10. InQueue(q, j) <=> InQueue(q, j)' \/ j = Head(s)
      <4>1. ASSUME InQueue(q, j) PROVE InQueue(q, j)' \/ j = Head(s)
        <5>1. PICK n \in 1 .. Len(s) : s[n] = j
          BY <3>4, <4>1
        <5>2. CASE n = 1
          BY <3>8, <5>1, <5>2
        <5>3. CASE n # 1
          <6>1. n - 1 \in 1 .. Len(t) /\ t[n - 1] = s[n]
            BY <3>2, <3>8, <5>3
          <6>. QED
            BY <3>5, <5>1, <6>1
        <5>. QED
          BY <5>2, <5>3
      <4>2. ASSUME InQueue(q, j)' \/ j = Head(s) PROVE InQueue(q, j)
        BY <3>1, <3>3, <3>4, <3>5, <3>8, <4>2
      <4>. QED
        BY <4>1, <4>2
    <3>11. ASSUME OnceInQueue(q, j) PROVE OnceInQueue(q, j)'
      BY <3>1, <3>6, <3>7, <3>8, <3>9, <3>11
    <3>12. ASSUME OnceInQueue(q, j), j = Head(s), InQueue(q, j)' PROVE FALSE
      <4>1. PICK n \in 1 .. Len(t) : t[n] = j
        BY <3>5, <3>12
      <4>. QED
        BY <3>1, <3>3, <3>6, <3>8, <3>12, <4>1
    <3>. QED
      BY <2>2, <3>10, <3>11, <3>12
  <2>. QED
    BY <2>1, <2>2
<1>. QED
  BY <1>3, <1>4, <1>5

-------------------------------------------------------------------------------
(* What the composite steps do                                             *)

Imports ==
  /\ ipc   \in [Importers -> {"idle", "insert", "enqueue", "wait"}]
  /\ ifile \in [Importers -> Files \cup {NoFile}]
  /\ iinv  \in [Importers -> Invoices \cup {NoInvoice}]

\* One import moves.
LEMMA ImportMoves ==
  ASSUME Imports, NEW c \in Importers,
         NEW s \in {"idle", "insert", "enqueue", "wait"},
         NEW f \in Files \cup {NoFile}, NEW x \in Invoices \cup {NoInvoice},
         ipc' = [ipc EXCEPT ![c] = s], ifile' = [ifile EXCEPT ![c] = f],
         iinv' = [iinv EXCEPT ![c] = x]
  PROVE  /\ Imports' /\ ipc'[c] = s /\ ifile'[c] = f /\ iinv'[c] = x
         /\ \A d \in Importers : d # c =>
              ipc'[d] = ipc[d] /\ ifile'[d] = ifile[d] /\ iinv'[d] = iinv[d]
BY DEF Imports

\* An INSERT, of an original or of a duplicate.
Inserted(c, i) ==
  /\ ipc[c] = "insert" /\ status[i] = "absent"
  /\ file' = [file EXCEPT ![i] = ifile[c]]
  /\ ifile' = [ifile EXCEPT ![c] = NoFile]
  /\ polls' \in {polls, 0}
  /\ iinv[c] = NoInvoice =>
       /\ status' = [status EXCEPT ![i] = "pending"]
       /\ ipc' = [ipc EXCEPT ![c] = "enqueue"]
       /\ iinv' = [iinv EXCEPT ![c] = i]
  /\ iinv[c] # NoInvoice =>
       /\ status' = [status EXCEPT ![i] = "duplicate"]
       /\ \/ /\ ipc' = [ipc EXCEPT ![c] = "wait"]
             /\ iinv' = [iinv EXCEPT ![c] = i]
          \/ /\ ipc' = [ipc EXCEPT ![c] = "idle"]
             /\ iinv' = [iinv EXCEPT ![c] = NoInvoice]

LEMMA InsertEffect ==
  ASSUME NEW c \in Importers, Insert(c)
  PROVE  \E i \in Invoices : Inserted(c, i)
<1>1. PICK i \in Invoices :
        /\ status[i] = "absent"
        /\ file' = [file EXCEPT ![i] = ifile[c]]
        /\ IF iinv[c] = NoInvoice
             THEN /\ SetStatus(i, "pending")
                  /\ Go(c, "enqueue", NoFile, i) /\ UNCHANGED polls
             ELSE SetStatus(i, "duplicate") /\ AfterImport(c, i)
  BY DEF Insert
<1>2. ipc[c] = "insert"
  BY DEF Insert
<1>3. CASE iinv[c] = NoInvoice
  BY <1>1, <1>2, <1>3 DEF Inserted, SetStatus, Go
<1>4. CASE iinv[c] # NoInvoice
  <2>1. SetStatus(i, "duplicate") /\ AfterImport(c, i)
    BY <1>1, <1>4
  <2>. QED
    BY <1>1, <1>2, <1>4, <2>1 DEF Inserted, SetStatus, AfterImport, Return, Go
<1>. QED
  BY <1>3, <1>4

\* A send to the worker of the process.
LEMMA EnqueueEffect ==
  ASSUME Imports, NEW c \in Importers, Enqueue(c)
  PROVE  /\ ipc[c] = "enqueue" /\ Home(c) \in up
         /\ queue' = [queue EXCEPT ![Home(c)] = Append(@, iinv[c])]
         /\ ifile' = [ifile EXCEPT ![c] = NoFile]
         /\ polls' \in {polls, 0}
         /\ \/ /\ ipc' = [ipc EXCEPT ![c] = "wait"]
               /\ iinv' = iinv
            \/ /\ ipc' = [ipc EXCEPT ![c] = "idle"]
               /\ iinv' = [iinv EXCEPT ![c] = NoInvoice]
<1>1. AfterImport(c, iinv[c])
  BY DEF Enqueue
<1>. QED
  BY <1>1 DEF Enqueue, AfterImport, Return, Go, Imports

\* A poll answers at most, and the waiting call with it.
LEMMA PollEffect ==
  ASSUME Imports, Poll \/ PollsEnd
  PROVE  /\ ipc["mcp"] = "wait"
         /\ UNCHANGED <<bookVars, up, workerVars, bootVars, historyVars>>
         /\ \/ UNCHANGED <<ipc, ifile, iinv, answer>> /\ polls < MaxPolls
                 /\ polls' = polls + 1
            \/ /\ polls' = 0
               /\ ipc' = [ipc EXCEPT !["mcp"] = "idle"]
               /\ ifile' = [ifile EXCEPT !["mcp"] = NoFile]
               /\ iinv' = [iinv EXCEPT !["mcp"] = NoInvoice]
               /\ \/ UNCHANGED answer
                  \/ \E a \in {"ok", "failed", "duplicate"} :
                       /\ answer' = [answer EXCEPT ![iinv["mcp"]] = a]
                       /\ a = "ok" => status[iinv["mcp"]] \in {"processed", "ready_for_export"}
                       /\ a \in {"failed", "duplicate"} => status[iinv["mcp"]] = a
<1>1. CASE Poll
  <2>. DEFINE s == status[iinv["mcp"]]
  <2>1. CASE s \in {"processed", "ready_for_export"}
    <3>1. Tell("ok")
      BY <1>1, <2>1 DEF Poll
    <3>. QED
      BY <1>1, <2>1, <3>1 DEF Poll, Tell, Return, Go
  <2>2. CASE s = "failed"
    <3>1. Tell("failed")
      BY <1>1, <2>2 DEF Poll
    <3>. QED
      BY <1>1, <2>2, <3>1 DEF Poll, Tell, Return, Go
  <2>3. CASE s = "duplicate"
    <3>1. Tell("duplicate")
      BY <1>1, <2>3 DEF Poll
    <3>. QED
      BY <1>1, <2>3, <3>1 DEF Poll, Tell, Return, Go
  <2>4. CASE s \notin {"processed", "ready_for_export", "failed", "duplicate"}
    BY <1>1, <2>4 DEF Poll
  <2>. QED
    BY <2>1, <2>2, <2>3, <2>4
<1>2. CASE PollsEnd
  BY <1>2 DEF PollsEnd, Return, Go
<1>. QED
  BY <1>1, <1>2

\* What the imports become in a step of one of them.
Moved(c) ==
  /\ Imports' /\ ipc'[c] \in {"idle", "insert", "enqueue", "wait"}
  /\ ipc'[c] \in {"enqueue", "wait"} => iinv'[c] \in Invoices
  /\ \A d \in Importers : d # c =>
       ipc'[d] = ipc[d] /\ ifile'[d] = ifile[d] /\ iinv'[d] = iinv[d]

LEMMA Moves ==
  ASSUME Imports, [Next]_vars,
         \A d \in Importers : ipc[d] \in {"enqueue", "wait"} => iinv[d] # NoInvoice
  PROVE  /\ \A c \in Importers :
              \/ \E f \in Files : Lookup(c, f) \/ LookupFails(c, f)
              \/ Insert(c) \/ Enqueue(c) \/ ImportEnds(c)
              => Moved(c)
         /\ \A c \in Uploads, i \in Invoices : ScheduleReprocess(c, i) => Moved(c)
         /\ Poll \/ PollsEnd => Moved("mcp")
<1>1. ASSUME NEW c \in Importers, NEW f \in Files, Lookup(c, f) \/ LookupFails(c, f)
      PROVE  Moved(c)
  <2>1. PICK x \in Invoices \cup {NoInvoice} : Go(c, "insert", f, x)
    BY <1>1 DEF Lookup, LookupFails
  <2>. QED
    BY <2>1, ImportMoves DEF Go, Moved
<1>2. ASSUME NEW c \in Importers, Insert(c) PROVE Moved(c)
  <2>1. PICK i \in Invoices : Inserted(c, i)
    BY <1>2, InsertEffect
  <2>2. PICK s \in {"idle", "enqueue", "wait"}, x \in Invoices \cup {NoInvoice} :
          /\ ipc' = [ipc EXCEPT ![c] = s] /\ ifile' = [ifile EXCEPT ![c] = NoFile]
          /\ iinv' = [iinv EXCEPT ![c] = x] /\ (s # "idle" => x \in Invoices)
    BY <2>1 DEF Inserted
  <2>3. s \in {"idle", "insert", "enqueue", "wait"} /\ NoFile \in Files \cup {NoFile}
    OBVIOUS
  <2>4. /\ Imports' /\ ipc'[c] = s /\ iinv'[c] = x
        /\ \A d \in Importers : d # c =>
             ipc'[d] = ipc[d] /\ ifile'[d] = ifile[d] /\ iinv'[d] = iinv[d]
    BY <2>2, <2>3 DEF Imports
  <2>. QED
    BY <2>2, <2>3, <2>4 DEF Moved
<1>3. ASSUME NEW c \in Importers, Enqueue(c) PROVE Moved(c)
  <2>1. iinv[c] \in Invoices /\ iinv = [iinv EXCEPT ![c] = iinv[c]]
    BY <1>3, EnqueueEffect DEF Imports
  <2>2. PICK s \in {"idle", "wait"}, x \in Invoices \cup {NoInvoice} :
          /\ ipc' = [ipc EXCEPT ![c] = s] /\ ifile' = [ifile EXCEPT ![c] = NoFile]
          /\ iinv' = [iinv EXCEPT ![c] = x] /\ (s # "idle" => x \in Invoices)
    BY <1>3, <2>1, EnqueueEffect
  <2>3. s \in {"idle", "insert", "enqueue", "wait"} /\ NoFile \in Files \cup {NoFile}
    OBVIOUS
  <2>4. /\ Imports' /\ ipc'[c] = s /\ iinv'[c] = x
        /\ \A d \in Importers : d # c =>
             ipc'[d] = ipc[d] /\ ifile'[d] = ifile[d] /\ iinv'[d] = iinv[d]
    BY <2>2, <2>3 DEF Imports
  <2>. QED
    BY <2>2, <2>3, <2>4 DEF Moved
<1>4. ASSUME NEW c \in Importers, ImportEnds(c) PROVE Moved(c)
  BY <1>4, ImportMoves DEF ImportEnds, Return, Go, Moved
<1>5. ASSUME Poll \/ PollsEnd PROVE Moved("mcp")
  <2>1. CASE UNCHANGED <<ipc, ifile, iinv>>
    BY <1>5, <2>1, PollEffect, Homes DEF Imports, Moved
  <2>2. CASE /\ ipc' = [ipc EXCEPT !["mcp"] = "idle"]
             /\ ifile' = [ifile EXCEPT !["mcp"] = NoFile]
             /\ iinv' = [iinv EXCEPT !["mcp"] = NoInvoice]
    BY <2>2, ImportMoves, Homes DEF Moved
  <2>. QED
    BY <1>5, <2>1, <2>2, PollEffect
<1>6. ASSUME NEW c \in Uploads, NEW i \in Invoices, ScheduleReprocess(c, i) PROVE Moved(c)
  <2>1. /\ c \in Importers /\ i \in Invoices \cup {NoInvoice}
        /\ NoFile \in Files \cup {NoFile}
    BY Homes
  <2>2. /\ ipc' = [ipc EXCEPT ![c] = "enqueue"] /\ ifile' = [ifile EXCEPT ![c] = NoFile]
        /\ iinv' = [iinv EXCEPT ![c] = i]
    BY <1>6 DEF ScheduleReprocess, Go
  <2>3. "enqueue" \in {"idle", "insert", "enqueue", "wait"}
    OBVIOUS
  <2>4. /\ Imports' /\ ipc'[c] = "enqueue" /\ ifile'[c] = NoFile /\ iinv'[c] = i
        /\ \A d \in Importers : d # c =>
             ipc'[d] = ipc[d] /\ ifile'[d] = ifile[d] /\ iinv'[d] = iinv[d]
    BY <2>1, <2>2, <2>3, ImportMoves
  <2>. QED
    BY <2>4 DEF Moved
<1>. QED
  BY <1>1, <1>2, <1>3, <1>4, <1>5, <1>6

-------------------------------------------------------------------------------
(* Types                                                                   *)

\* An import that is about to insert looks for a file, and has found one with it.
LooksFor ==
  \A c \in Importers : ipc[c] = "insert" =>
    /\ ifile[c] \in Files
    /\ iinv[c] # NoInvoice => file[iinv[c]] = ifile[c]

\* The variables keep their types.
LEMMA TypesStep ==
  ASSUME TypeOK, LooksFor, [Next]_vars
  PROVE  TypeOK'
<1>1. ASSUME NEW c \in Importers, NEW f \in Files, Lookup(c, f)
      PROVE  TypeOK'
  <2>1. Moved(c)
    BY <1>1, Moves DEF TypeOK, Imports
  <2>2. UNCHANGED <<bookVars, up, workerVars, bootVars, polls, answer, historyVars>>
    BY <1>1 DEF Lookup
  <2>. QED
    BY <2>1, <2>2, McpAssumption
       DEF TypeOK, Moved, Imports, bookVars, workerVars, bootVars, historyVars
<1>2. ASSUME NEW c \in Importers, Insert(c)
      PROVE  TypeOK'
  <2>1. PICK i \in Invoices : Inserted(c, i)
    BY <1>2, InsertEffect
  <2>2. raced' \subseteq Files /\ UNCHANGED <<up, workerVars, bootVars, answer, twice, dropped>>
    BY <1>2, McpAssumption DEF Insert, TypeOK, LooksFor
  <2>3. polls' \in 0 .. MaxPolls
    BY <2>1, McpAssumption DEF Inserted, TypeOK
  <2>4. status' \in [Invoices -> Statuses] /\ file' \in [Invoices -> Files \cup {NoFile}]
    BY <2>1 DEF Inserted, TypeOK, Statuses, LooksFor
  <2>5. Moved(c)
    BY <1>2, Moves DEF TypeOK, Imports
  <2>. QED
    BY <2>2, <2>3, <2>4, <2>5, McpAssumption
       DEF TypeOK, Moved, Imports, workerVars, bootVars
<1>3. ASSUME NEW c \in Importers, Enqueue(c)
      PROVE  TypeOK'
  <2>1. Imports /\ Queues /\ iinv[c] \in Invoices
    BY <1>3, EnqueueEffect DEF TypeOK, Imports, Queues
  <2>2. Queues'
    BY <1>3, <2>1, EnqueueEffect, SendEffect, Homes
  <2>3. polls' \in 0 .. MaxPolls
    <3>1. polls' \in {polls, 0}
      BY <1>3, <2>1, EnqueueEffect
    <3>2. polls \in 0 .. MaxPolls
      BY DEF TypeOK
    <3>. QED
      BY <3>1, <3>2, McpAssumption
  <2>4. Moved(c)
    BY <1>3, Moves DEF TypeOK, Imports
  <2>. QED
    BY <1>3, <2>2, <2>3, <2>4, McpAssumption DEF Enqueue, TypeOK, Moved,
       Imports, Queues, bookVars, bootVars, historyVars
<1>4. ASSUME NEW c \in Importers, ImportEnds(c)
      PROVE  TypeOK'
  <2>1. Moved(c)
    BY <1>4, Moves DEF TypeOK, Imports
  <2>2. UNCHANGED <<bookVars, up, workerVars, bootVars, polls, answer, historyVars>>
    BY <1>4 DEF ImportEnds
  <2>. QED
    BY <2>1, <2>2, McpAssumption
       DEF TypeOK, Moved, Imports, bookVars, workerVars, bootVars, historyVars
<1>5. CASE Poll
  <2>1. Imports /\ iinv["mcp"] \in Invoices
    BY <1>5, PollEffect, Homes DEF TypeOK, Imports
  <2>2. polls' \in 0 .. MaxPolls
    BY <1>5, <2>1, PollEffect, McpAssumption DEF TypeOK
  <2>3. Moved("mcp")
    BY <1>5, Moves DEF TypeOK, Imports
  <2>4. answer' \in [Invoices -> {"none", "ok", "failed", "duplicate"}]
    BY <1>5, <2>1, PollEffect DEF TypeOK
  <2>5. UNCHANGED <<status, file, up, queue, wpc, hand, boot, todo, raced, twice, dropped>>
    BY <1>5, <2>1, PollEffect DEF bookVars, workerVars, bootVars, historyVars
  <2>6. \A d \in Importers : ipc'[d] \in {"enqueue", "wait"} => iinv'[d] # NoInvoice
    BY <2>3, McpAssumption DEF Moved, TypeOK
  <2>. QED
    BY <2>2, <2>3, <2>4, <2>5, <2>6 DEF TypeOK, Moved, Imports
<1>6. CASE PollsEnd
  <2>1. Imports /\ iinv["mcp"] \in Invoices
    BY <1>6, PollEffect, Homes DEF TypeOK, Imports
  <2>2. polls' \in 0 .. MaxPolls
    BY <1>6, <2>1, PollEffect, McpAssumption DEF TypeOK
  <2>3. Moved("mcp")
    BY <1>6, Moves DEF TypeOK, Imports
  <2>4. answer' \in [Invoices -> {"none", "ok", "failed", "duplicate"}]
    BY <1>6, <2>1, PollEffect DEF TypeOK
  <2>5. UNCHANGED <<status, file, up, queue, wpc, hand, boot, todo, raced, twice, dropped>>
    BY <1>6, <2>1, PollEffect DEF bookVars, workerVars, bootVars, historyVars
  <2>6. \A d \in Importers : ipc'[d] \in {"enqueue", "wait"} => iinv'[d] # NoInvoice
    BY <2>3, McpAssumption DEF Moved, TypeOK
  <2>. QED
    BY <2>2, <2>3, <2>4, <2>5, <2>6 DEF TypeOK, Moved, Imports
<1>7. ASSUME NEW p \in Procs, WorkerTake(p)
      PROVE  TypeOK'
  <2>1. Queues' /\ Head(queue[p]) \in Invoices
    BY <1>7, TakeEffect DEF WorkerTake, TypeOK, Queues
  <2>. QED
    BY <1>7, <2>1, McpAssumption
       DEF WorkerTake, TypeOK, Queues, bookVars, bootVars, importVars, historyVars
<1>8. ASSUME NEW p \in Procs, WorkerClaim(p)
      PROVE  TypeOK'
  BY <1>8, McpAssumption DEF WorkerClaim, SetStatus, bootVars, importVars, historyVars,
     TypeOK, Statuses
<1>9. ASSUME NEW p \in Procs, WorkerFinish(p)
      PROVE  TypeOK'
  BY <1>9, McpAssumption DEF WorkerFinish, LayDown, SetStatus, bootVars, importVars, historyVars,
     TypeOK, Statuses
<1>10. ASSUME NEW p \in Procs, ProcessEnds(p)
       PROVE  TypeOK'
  <2>1. queue' \in [Procs -> Seq(Invoices)]
    BY <1>10 DEF ProcessEnds, TypeOK
  <2>2. Imports' /\ polls' \in 0 .. MaxPolls
    BY <1>10, McpAssumption DEF ProcessEnds, TypeOK, Imports
  <2>3. /\ \A q \in Procs : wpc'[q] # "idle" <=> hand'[q] # NoInvoice
        /\ \A d \in Importers : ipc'[d] \in {"enqueue", "wait"} => iinv'[d] # NoInvoice
    BY <1>10 DEF ProcessEnds, TypeOK
  <2>. QED
    BY <1>10, <2>1, <2>2, <2>3 DEF ProcessEnds, TypeOK, Imports, bookVars
<1>11. CASE McpStarts
  BY <1>11, McpAssumption DEF McpStarts, bookVars, workerVars, bootVars, importVars,
     historyVars, TypeOK, Procs
<1>12. CASE ServeStarts
  BY <1>12, McpAssumption DEF ServeStarts, bookVars, workerVars, bootVars, importVars,
     historyVars, TypeOK, Procs
<1>13. ASSUME NEW i \in Invoices, ConfirmInvoice(i)
       PROVE  TypeOK'
  BY <1>13, McpAssumption DEF ConfirmInvoice, SetStatus, workerVars, bootVars, importVars,
     historyVars, TypeOK, Statuses
<1>14. ASSUME NEW i \in Invoices, MarkExported(i)
       PROVE  TypeOK'
  BY <1>14, McpAssumption DEF MarkExported, SetStatus, workerVars, bootVars, importVars,
     historyVars, TypeOK, Statuses
<1>15. ASSUME NEW x \in Uploads, NEW i \in Invoices, ScheduleReprocess(x, i)
       PROVE  TypeOK'
  <2>1. Moved(x)
    BY <1>15, Moves DEF TypeOK, Imports
  <2>2. UNCHANGED <<file, up, queue, wpc, hand, boot, todo, polls, raced, twice, dropped>>
    BY <1>15 DEF ScheduleReprocess, workerVars, bootVars, historyVars
  <2>3. /\ status' \in [Invoices -> Statuses]
        /\ answer' \in [Invoices -> {"none", "ok", "failed", "duplicate"}]
    BY <1>15 DEF ScheduleReprocess, SetStatus, TypeOK, Statuses
  <2>4. \A d \in Importers : ipc'[d] \in {"enqueue", "wait"} => iinv'[d] # NoInvoice
    BY <2>1, McpAssumption DEF Moved, TypeOK
  <2>. QED
    BY <2>1, <2>2, <2>3, <2>4 DEF TypeOK, Moved, Imports
<1>16. CASE UNCHANGED vars
  BY <1>16 DEF vars, bookVars, workerVars, bootVars, importVars, historyVars, TypeOK
<1>17. ASSUME NEW c \in Importers, NEW f \in Files, LookupFails(c, f)
       PROVE  TypeOK'
  <2>1. Moved(c)
    BY <1>17, Moves DEF TypeOK, Imports
  <2>2. UNCHANGED <<bookVars, up, workerVars, bootVars, polls, answer, twice, dropped>>
    BY <1>17 DEF LookupFails
  <2>3. raced' \subseteq Files
    BY <1>17 DEF LookupFails, TypeOK
  <2>. QED
    BY <2>1, <2>2, <2>3, McpAssumption
       DEF TypeOK, Moved, Imports, bookVars, workerVars, bootVars
<1>18. ASSUME NEW p \in Procs, WorkerClaimFails(p)
       PROVE  TypeOK'
  <2>1. hand[p] \in Invoices /\ LayDown(p) /\ UNCHANGED status
    BY <1>18, McpAssumption DEF WorkerClaimFails, TypeOK
  <2>. QED
    BY <1>18, <2>1, McpAssumption DEF WorkerClaimFails, LayDown, TypeOK, bootVars, importVars
<1>19. ASSUME NEW p \in Procs, WorkerMarkFails(p)
       PROVE  TypeOK'
  <2>1. hand[p] \in Invoices /\ LayDown(p) /\ UNCHANGED status
    BY <1>19, McpAssumption DEF WorkerMarkFails, TypeOK
  <2>. QED
    BY <1>19, <2>1, McpAssumption DEF WorkerMarkFails, LayDown, TypeOK, bootVars, importVars
<1>20. CASE RecoverReset
  <2>1. status' \in [Invoices -> Statuses] /\ twice' \subseteq Invoices
    BY <1>20 DEF RecoverReset, TypeOK, Statuses
  <2>. QED
    BY <1>20, <2>1 DEF RecoverReset, TypeOK, workerVars, importVars
<1>21. CASE RecoverSelect
  BY <1>21 DEF RecoverSelect, TypeOK, bookVars, workerVars, importVars
<1>22. CASE RecoverSend
  <2>1. PICK i \in todo :
          /\ queue' = [queue EXCEPT !["serve"] = Append(@, i)]
          /\ todo' = todo \ {i} /\ dropped' = dropped \ {i}
          /\ boot' \in {"none", "send"}
    BY <1>22 DEF RecoverSend
  <2>2. Queues'
    BY <2>1, SendEffect, Homes DEF TypeOK, Queues
  <2>. QED
    BY <1>22, <2>1, <2>2 DEF RecoverSend, TypeOK, Queues, bookVars, importVars
<1>23. CASE RecoverFails
  BY <1>23 DEF RecoverFails, TypeOK, bookVars, workerVars, importVars, historyVars
<1>. QED
  BY NextSteps, <1>1, <1>2, <1>3, <1>4, <1>5, <1>6, <1>7, <1>8, <1>9, <1>10,
     <1>11, <1>12, <1>13, <1>14, <1>15, <1>16, <1>17, <1>18, <1>19, <1>20,
     <1>21, <1>22, <1>23

-------------------------------------------------------------------------------
(* Lookups and rows                                                        *)

\* A row that is not there has no file, and nobody holds it.
AbsentIsBlank ==
  \A i \in Invoices : status[i] = "absent" =>
    file[i] = NoFile /\ \A p \in Procs : ~Holds(p, i)

\* A row keeps its file.
LEMMA LooksForStep ==
  ASSUME TypeOK, AbsentIsBlank, LooksFor, [Next]_vars
  PROVE  LooksFor'
<1>1. ASSUME NEW c \in Importers, NEW f \in Files, Lookup(c, f)
      PROVE  LooksFor'
  <2>1. UNCHANGED file
    BY <1>1 DEF Lookup, bookVars
  <2>2. PICK j \in Invoices \cup {NoInvoice} :
          Go(c, "insert", f, j) /\ (j # NoInvoice => file[j] = f)
    BY <1>1 DEF Lookup
  <2>3. /\ ifile'[c] = f /\ iinv'[c] = j
        /\ \A d \in Importers : d # c =>
             ipc'[d] = ipc[d] /\ ifile'[d] = ifile[d] /\ iinv'[d] = iinv[d]
    BY <2>2 DEF TypeOK, Go
  <2>. QED
    BY <2>1, <2>2, <2>3 DEF LooksFor
<1>2. ASSUME NEW c \in Importers, Insert(c)
      PROVE  LooksFor'
  <2>1. PICK i \in Invoices : Inserted(c, i)
    BY <1>2, InsertEffect
  <2>2. file' = [file EXCEPT ![i] = ifile[c]] /\ file[i] = NoFile
    BY <2>1 DEF Inserted, AbsentIsBlank
  <2>3. ASSUME NEW d \in Importers, ipc'[d] = "insert"
        PROVE  ipc[d] = "insert" /\ d # c /\ ifile'[d] = ifile[d] /\ iinv'[d] = iinv[d]
    <3>1. d # c
      BY <2>1, <2>3 DEF Inserted, TypeOK
    <3>. QED
      BY <2>1, <2>3, <3>1 DEF Inserted, TypeOK
  <2>4. \A d \in Importers : ipc'[d] = "insert" =>
          /\ ifile'[d] \in Files
          /\ iinv'[d] # NoInvoice => iinv[d] \in Invoices /\ file[iinv[d]] = ifile[d]
    BY <2>3 DEF LooksFor, TypeOK
  <2>. QED
    BY <2>2, <2>3, <2>4, McpAssumption DEF LooksFor, TypeOK
<1>3. ASSUME NEW c \in Importers, Enqueue(c)
      PROVE  LooksFor'
  <2>1. UNCHANGED file
    BY <1>3 DEF Enqueue, bookVars
  <2>2. /\ Imports /\ ipc[c] = "enqueue" /\ ipc'[c] # "insert"
        /\ \A d \in Importers : d # c =>
             ipc'[d] = ipc[d] /\ ifile'[d] = ifile[d] /\ iinv'[d] = iinv[d]
    <3>1. Imports
      BY DEF TypeOK, Imports
    <3>2. Moved(c)
      BY <1>3, <3>1, Moves DEF TypeOK
    <3>. QED
      BY <1>3, <3>1, <3>2, EnqueueEffect DEF Moved, Imports
  <2>. QED
    BY <2>1, <2>2 DEF LooksFor
<1>4. ASSUME NEW c \in Importers, ImportEnds(c)
      PROVE  LooksFor'
  BY <1>4, McpAssumption DEF ImportEnds, Return, Go, bookVars, workerVars,
     historyVars, LooksFor, TypeOK
<1>5. CASE Poll
  <2>. QED
    BY <1>5, PollEffect DEF LooksFor, TypeOK, Imports, bookVars
<1>6. CASE PollsEnd
  <2>. QED
    BY <1>6, PollEffect DEF LooksFor, TypeOK, Imports, bookVars
<1>7. ASSUME NEW p \in Procs, WorkerTake(p)
      PROVE  LooksFor'
  BY <1>7, McpAssumption DEF WorkerTake, bookVars, importVars, historyVars,
     LooksFor
<1>8. ASSUME NEW p \in Procs, WorkerClaim(p)
      PROVE  LooksFor'
  BY <1>8, McpAssumption DEF WorkerClaim, SetStatus, importVars, historyVars,
     LooksFor
<1>9. ASSUME NEW p \in Procs, WorkerFinish(p)
      PROVE  LooksFor'
  BY <1>9, McpAssumption DEF WorkerFinish, LayDown, SetStatus, importVars, historyVars,
     LooksFor
<1>10. ASSUME NEW p \in Procs, ProcessEnds(p)
       PROVE  LooksFor'
  BY <1>10, McpAssumption DEF ProcessEnds, bookVars, LooksFor, TypeOK
<1>11. CASE McpStarts
  BY <1>11, McpAssumption DEF McpStarts, bookVars, workerVars, importVars,
     historyVars, LooksFor
<1>12. CASE ServeStarts
  BY <1>12 DEF ServeStarts, bookVars, importVars, LooksFor
<1>13. ASSUME NEW i \in Invoices, ConfirmInvoice(i)
       PROVE  LooksFor'
  BY <1>13, McpAssumption DEF ConfirmInvoice, SetStatus, workerVars, importVars,
     historyVars, LooksFor
<1>14. ASSUME NEW i \in Invoices, MarkExported(i)
       PROVE  LooksFor'
  BY <1>14, McpAssumption DEF MarkExported, SetStatus, workerVars, importVars,
     historyVars, LooksFor
<1>15. ASSUME NEW x \in Uploads, NEW i \in Invoices, ScheduleReprocess(x, i)
       PROVE  LooksFor'
  <2>1. Moved(x) /\ UNCHANGED file /\ ipc'[x] = "enqueue"
    BY <1>15, Moves, Homes DEF ScheduleReprocess, Go, TypeOK, Imports
  <2>. QED
    BY <2>1 DEF LooksFor, Moved
<1>16. CASE UNCHANGED vars
  BY <1>16 DEF vars, bookVars, workerVars, importVars, historyVars, LooksFor
<1>17. ASSUME NEW c \in Importers, NEW f \in Files, LookupFails(c, f)
       PROVE  LooksFor'
  <2>1. UNCHANGED file
    BY <1>17 DEF LookupFails, bookVars
  <2>2. Go(c, "insert", f, NoInvoice)
    BY <1>17 DEF LookupFails
  <2>3. /\ ifile'[c] = f /\ iinv'[c] = NoInvoice
        /\ \A d \in Importers : d # c =>
             ipc'[d] = ipc[d] /\ ifile'[d] = ifile[d] /\ iinv'[d] = iinv[d]
    BY <2>2 DEF TypeOK, Go
  <2>. QED
    BY <2>1, <2>2, <2>3 DEF LooksFor
<1>18. ASSUME NEW p \in Procs, WorkerClaimFails(p)
       PROVE  LooksFor'
  BY <1>18 DEF WorkerClaimFails, LayDown, SetStatus, bookVars, workerVars, importVars, historyVars,
     LooksFor
<1>19. ASSUME NEW p \in Procs, WorkerMarkFails(p)
       PROVE  LooksFor'
  BY <1>19 DEF WorkerMarkFails, LayDown, SetStatus, bookVars, workerVars, importVars, historyVars,
     LooksFor
<1>20. CASE RecoverReset
  BY <1>20 DEF RecoverReset, LayDown, SetStatus, bookVars, workerVars, importVars, historyVars,
     LooksFor
<1>21. CASE RecoverSelect
  BY <1>21 DEF RecoverSelect, LayDown, SetStatus, bookVars, workerVars, importVars, historyVars,
     LooksFor
<1>22. CASE RecoverSend
  BY <1>22 DEF RecoverSend, LayDown, SetStatus, bookVars, workerVars, importVars, historyVars,
     LooksFor
<1>23. CASE RecoverFails
  BY <1>23 DEF RecoverFails, LayDown, SetStatus, bookVars, workerVars, importVars, historyVars,
     LooksFor
<1>. QED
  BY NextSteps, <1>1, <1>2, <1>3, <1>4, <1>5, <1>6, <1>7, <1>8, <1>9, <1>10,
     <1>11, <1>12, <1>13, <1>14, <1>15, <1>16, <1>17, <1>18, <1>19, <1>20,
     <1>21, <1>22, <1>23

-------------------------------------------------------------------------------
(* Who holds an invoice                                                    *)

\* Import c of process p is about to queue i.
Sends(c, p, i) == Home(c) = p /\ ipc[c] = "enqueue" /\ iinv[c] = i

LEMMA HoldsKept ==
  ASSUME UNCHANGED <<queue, hand>>,
         \A c \in Importers : /\ ipc'[c] = "enqueue" <=> ipc[c] = "enqueue"
                              /\ ipc[c] = "enqueue" => iinv'[c] = iinv[c]
  PROVE  \A p \in Procs, j \in Invoices : Holds(p, j)' <=> Holds(p, j)
BY QueueKept DEF Holds

\* Steps that leave it as it is.
LEMMA QuietHolds ==
  ASSUME TypeOK,
         \/ \E c \in Importers : \/ \E f \in Files : Lookup(c, f) \/ LookupFails(c, f)
                                 \/ ImportEnds(c)
         \/ Poll \/ PollsEnd \/ \E p \in Procs : WorkerClaim(p)
         \/ McpStarts \/ ServeStarts
         \/ RecoverReset \/ RecoverSelect \/ RecoverFails
         \/ \E i \in Invoices : ConfirmInvoice(i) \/ MarkExported(i)
         \/ UNCHANGED vars
  PROVE  \A p \in Procs, j \in Invoices : Holds(p, j)' <=> Holds(p, j)
<1>1. ASSUME NEW c \in Importers, NEW f \in Files, Lookup(c, f) \/ LookupFails(c, f)
      PROVE  \A p \in Procs, j \in Invoices : Holds(p, j)' <=> Holds(p, j)
  <2>1. /\ ipc[c] = "idle" /\ UNCHANGED <<queue, hand>>
        /\ ipc' = [ipc EXCEPT ![c] = "insert"]
        /\ \A d \in Importers : d # c => iinv'[d] = iinv[d]
    BY <1>1 DEF Lookup, LookupFails, Go, TypeOK, workerVars
  <2>. QED
    BY <2>1, HoldsKept DEF TypeOK
<1>2. ASSUME NEW c \in Importers, ImportEnds(c)
      PROVE  \A p \in Procs, j \in Invoices : Holds(p, j)' <=> Holds(p, j)
  BY <1>2, HoldsKept DEF ImportEnds, Return, Go, TypeOK, workerVars
<1>3. ASSUME Poll \/ PollsEnd
      PROVE  \A p \in Procs, j \in Invoices : Holds(p, j)' <=> Holds(p, j)
  BY <1>3, HoldsKept, PollEffect, Homes DEF Imports, TypeOK, workerVars
<1>4. ASSUME NEW q \in Procs, WorkerClaim(q)
      PROVE  \A p \in Procs, j \in Invoices : Holds(p, j)' <=> Holds(p, j)
  BY <1>4, HoldsKept DEF WorkerClaim, importVars
<1>5. ASSUME \/ McpStarts \/ ServeStarts \/ RecoverReset \/ RecoverSelect
             \/ RecoverFails \/ UNCHANGED vars
      PROVE  \A p \in Procs, j \in Invoices : Holds(p, j)' <=> Holds(p, j)
  BY <1>5, HoldsKept DEF McpStarts, ServeStarts, RecoverReset, RecoverSelect,
     RecoverFails, workerVars, importVars, vars
<1>6. ASSUME NEW i \in Invoices, ConfirmInvoice(i) \/ MarkExported(i)
      PROVE  \A p \in Procs, j \in Invoices : Holds(p, j)' <=> Holds(p, j)
  BY <1>6, HoldsKept DEF ConfirmInvoice, MarkExported, workerVars, importVars
<1>. QED
  BY <1>1, <1>2, <1>3, <1>4, <1>5, <1>6

\* An original that is inserted is held by the process of its import.
LEMMA InsertHolds ==
  ASSUME TypeOK, NEW c \in Importers, NEW i \in Invoices, Insert(c), Inserted(c, i)
  PROVE  \A p \in Procs, j \in Invoices :
           Holds(p, j)' <=> Holds(p, j) \/ (iinv[c] = NoInvoice /\ p = Home(c) /\ j = i)
<1>1. UNCHANGED <<queue, hand>>
  BY DEF Insert, workerVars
<1>2. CASE iinv[c] = NoInvoice
  <2>1. \A d \in Importers, p \in Procs, j \in Invoices :
          Sends(d, p, j)' <=> Sends(d, p, j) \/ (d = c /\ p = Home(c) /\ j = i)
    BY <1>2 DEF Inserted, Sends, TypeOK
  <2>. QED
    BY <1>1, <1>2, <2>1, QueueKept DEF Holds, Sends
<1>3. CASE iinv[c] # NoInvoice
  <2>1. \A d \in Importers, p \in Procs, j \in Invoices :
          Sends(d, p, j)' <=> Sends(d, p, j)
    BY <1>3 DEF Inserted, Sends, TypeOK
  <2>. QED
    BY <1>1, <1>3, <2>1, QueueKept DEF Holds, Sends
<1>. QED
  BY <1>2, <1>3

\* A send moves an invoice from the import to the queue of its process.
LEMMA EnqueueHolds ==
  ASSUME TypeOK, NEW c \in Importers, Enqueue(c)
  PROVE  /\ iinv[c] \in Invoices /\ Sends(c, Home(c), iinv[c])
         /\ \A p \in Procs, j \in Invoices :
              /\ Holds(p, j)' <=> Holds(p, j)
              /\ InQueue(p, j)' <=> InQueue(p, j) \/ (p = Home(c) /\ j = iinv[c])
              /\ OnceInQueue(p, j) /\ ~(p = Home(c) /\ j = iinv[c] /\ InQueue(p, j))
                   => OnceInQueue(p, j)'
              /\ \A d \in Importers : Sends(d, p, j)' <=> Sends(d, p, j) /\ d # c
         /\ UNCHANGED hand
<1>1. Imports /\ Queues
  BY DEF TypeOK, Imports, Queues
<1>2. iinv[c] \in Invoices /\ Sends(c, Home(c), iinv[c]) /\ UNCHANGED hand
  BY <1>1, EnqueueEffect DEF TypeOK, Sends, Enqueue
<1>3. \A p \in Procs, j \in Invoices :
        /\ InQueue(p, j)' <=> InQueue(p, j) \/ (p = Home(c) /\ j = iinv[c])
        /\ OnceInQueue(p, j) /\ ~(p = Home(c) /\ j = iinv[c] /\ InQueue(p, j))
             => OnceInQueue(p, j)'
  BY <1>1, <1>2, EnqueueEffect, SendEffect, Homes
<1>4. \A p \in Procs, j \in Invoices, d \in Importers :
        Sends(d, p, j)' <=> Sends(d, p, j) /\ d # c
  BY <1>1, EnqueueEffect DEF Imports, Sends
<1>5. \A p \in Procs, j \in Invoices : Holds(p, j)' <=> Holds(p, j)
  BY <1>2, <1>3, <1>4 DEF Holds, Sends
<1>. QED
  BY <1>2, <1>3, <1>4, <1>5

\* A receive moves it to the worker.
LEMMA TakeHolds ==
  ASSUME TypeOK, NEW p \in Procs, WorkerTake(p)
  PROVE  /\ hand'[p] \in Invoices /\ InQueue(p, hand'[p]) /\ hand[p] = NoInvoice
         /\ \A q \in Procs : q # p => hand'[q] = hand[q]
         /\ \A q \in Procs, j \in Invoices :
              /\ Holds(q, j)' <=> Holds(q, j)
              /\ InQueue(q, j) <=> InQueue(q, j)' \/ (q = p /\ j = hand'[p])
              /\ OnceInQueue(q, j) => OnceInQueue(q, j)'
              /\ OnceInQueue(q, j) /\ q = p /\ j = hand'[p] => ~InQueue(q, j)'
              /\ \A d \in Importers : Sends(d, q, j)' <=> Sends(d, q, j)
<1>1. Queues /\ queue[p] # <<>> /\ queue' = [queue EXCEPT ![p] = Tail(@)]
  BY DEF TypeOK, Queues, WorkerTake
<1>2. /\ hand'[p] = Head(queue[p]) /\ hand[p] = NoInvoice
      /\ \A q \in Procs : q # p => hand'[q] = hand[q]
  BY DEF WorkerTake, TypeOK
<1>3. /\ hand'[p] \in Invoices
      /\ \A q \in Procs, j \in Invoices :
           /\ InQueue(q, j) <=> InQueue(q, j)' \/ (q = p /\ j = hand'[p])
           /\ OnceInQueue(q, j) => OnceInQueue(q, j)'
           /\ OnceInQueue(q, j) /\ q = p /\ j = hand'[p] => ~InQueue(q, j)'
  BY <1>1, <1>2, TakeEffect
<1>4. \A d \in Importers, q \in Procs, j \in Invoices : Sends(d, q, j)' <=> Sends(d, q, j)
  BY DEF WorkerTake, importVars, Sends
<1>5. \A q \in Procs, j \in Invoices : Holds(q, j)' <=> Holds(q, j)
  BY <1>2, <1>3, <1>4, McpAssumption DEF Holds, Sends
<1>. QED
  BY <1>2, <1>3, <1>4, <1>5

\* A worker that is done lets go of what it had in its hand.
LEMMA LayDownHolds ==
  ASSUME TypeOK, NEW p \in Procs, LayDown(p), wpc[p] # "idle"
  PROVE  /\ hand[p] \in Invoices /\ Holds(p, hand[p])
         /\ hand'[p] = NoInvoice /\ wpc'[p] = "idle"
         /\ \A q \in Procs : q # p => hand'[q] = hand[q] /\ wpc'[q] = wpc[q]
         /\ \A q \in Procs, j \in Invoices :
              /\ Holds(q, j)' => Holds(q, j)
              /\ ~(q = p /\ j = hand[p]) /\ Holds(q, j) => Holds(q, j)'
<1>1. /\ hand[p] \in Invoices /\ hand'[p] = NoInvoice /\ wpc'[p] = "idle"
      /\ \A q \in Procs : q # p => hand'[q] = hand[q] /\ wpc'[q] = wpc[q]
      /\ UNCHANGED <<queue, importVars>>
  BY McpAssumption DEF LayDown, TypeOK
<1>. QED
  BY <1>1, QueueKept, McpAssumption DEF Holds, importVars

\* The handler that reprocesses an invoice holds it.
LEMMA ReprocessHolds ==
  ASSUME TypeOK, NEW c \in Uploads, NEW i \in Invoices, ScheduleReprocess(c, i)
  PROVE  /\ UNCHANGED <<queue, hand>>
         /\ \A q \in Procs, j \in Invoices :
              /\ Holds(q, j)' <=> Holds(q, j) \/ (q = "serve" /\ j = i)
              /\ \A d \in Importers :
                   Sends(d, q, j)' <=> Sends(d, q, j) \/ (d = c /\ q = "serve" /\ j = i)
<1>1. UNCHANGED <<queue, hand>> /\ Home(c) = "serve" /\ c \in Importers /\ ipc[c] = "idle"
  BY Homes DEF ScheduleReprocess, workerVars
<1>2. ipc' = [ipc EXCEPT ![c] = "enqueue"] /\ iinv' = [iinv EXCEPT ![c] = i]
  BY DEF ScheduleReprocess, Go
<1>3. \A q \in Procs, j \in Invoices, d \in Importers :
        Sends(d, q, j)' <=> Sends(d, q, j) \/ (d = c /\ q = "serve" /\ j = i)
  BY <1>1, <1>2 DEF Sends, TypeOK
<1>. QED
  BY <1>1, <1>3, QueueKept DEF Holds, Sends

\* A send of the recovery adds to the queue of serve.
LEMMA RecoverSendHolds ==
  ASSUME TypeOK, NEW i \in Invoices, UNCHANGED <<hand, importVars>>,
         queue' = [queue EXCEPT !["serve"] = Append(@, i)]
  PROVE  \A q \in Procs, j \in Invoices :
           /\ Holds(q, j)' <=> Holds(q, j) \/ (q = "serve" /\ j = i)
           /\ InQueue(q, j)' <=> InQueue(q, j) \/ (q = "serve" /\ j = i)
           /\ OnceInQueue(q, j) /\ ~(q = "serve" /\ j = i /\ InQueue(q, j))
                => OnceInQueue(q, j)'
<1>1. Queues
  BY DEF TypeOK, Queues
<1>2. \A q \in Procs, j \in Invoices :
        /\ InQueue(q, j)' <=> InQueue(q, j) \/ (q = "serve" /\ j = i)
        /\ OnceInQueue(q, j) /\ ~(q = "serve" /\ j = i /\ InQueue(q, j))
             => OnceInQueue(q, j)'
  BY <1>1, SendEffect, Homes
<1>. QED
  BY <1>2 DEF Holds, importVars

\* A process that ends holds nothing any more.
LEMMA EndHolds ==
  ASSUME TypeOK, NEW p \in Procs, ProcessEnds(p)
  PROVE  /\ \A j \in Invoices : ~Holds(p, j)'
         /\ \A q \in Procs, j \in Invoices : q # p => (Holds(q, j)' <=> Holds(q, j))
<1>1. queue'[p] = <<>> /\ hand'[p] = NoInvoice
  BY DEF ProcessEnds, TypeOK
<1>2. \A q \in Procs : q # p => queue'[q] = queue[q] /\ hand'[q] = hand[q]
  BY DEF ProcessEnds, TypeOK
<1>3. \A c \in Importers : /\ Home(c) = p => ipc'[c] = "idle"
                           /\ Home(c) # p => ipc'[c] = ipc[c] /\ iinv'[c] = iinv[c]
  BY DEF ProcessEnds
<1>4. \A j \in Invoices : ~InQueue(p, j)'
  BY <1>1 DEF InQueue
<1>5. \A q \in Procs, j \in Invoices : q # p => (InQueue(q, j)' <=> InQueue(q, j))
  BY <1>2 DEF InQueue
<1>. QED
  BY <1>1, <1>2, <1>3, <1>4, <1>5, McpAssumption DEF Holds

\* A process that is down has an empty queue, and no worker and import at work.
DownHoldsNothing ==
  \A p \in Procs \ up : /\ queue[p] = <<>> /\ hand[p] = NoInvoice
                        /\ \A c \in Importers : Home(c) = p => ipc[c] = "idle"

\* Only processes that run take something up.
LEMMA DownStep ==
  ASSUME TypeOK, DownHoldsNothing, [Next]_vars
  PROVE  DownHoldsNothing'
<1>1. ASSUME NEW c \in Importers, NEW f \in Files, Lookup(c, f)
      PROVE  DownHoldsNothing'
  <2>1. Moved(c) /\ Home(c) \in up /\ UNCHANGED <<up, queue, hand>>
    BY <1>1, Moves, Homes DEF Lookup, workerVars, TypeOK, Imports
  <2>. QED
    BY <2>1 DEF Moved, DownHoldsNothing
<1>2. ASSUME NEW c \in Importers, Insert(c)
      PROVE  DownHoldsNothing'
  <2>1. Moved(c) /\ Home(c) \in up /\ UNCHANGED <<up, queue, hand>>
    BY <1>2, Moves, Homes DEF Insert, workerVars, TypeOK, Imports
  <2>. QED
    BY <2>1 DEF Moved, DownHoldsNothing
<1>3. ASSUME NEW c \in Importers, Enqueue(c)
      PROVE  DownHoldsNothing'
  <2>1. Moved(c) /\ Home(c) \in up /\ UNCHANGED <<up, hand>>
    BY <1>3, Moves DEF Enqueue, TypeOK, Imports
  <2>2. \A p \in Procs \ up : queue'[p] = queue[p]
    BY <1>3, <2>1 DEF Enqueue, TypeOK
  <2>. QED
    BY <2>1, <2>2 DEF Moved, DownHoldsNothing
<1>4. ASSUME NEW c \in Importers, ImportEnds(c)
      PROVE  DownHoldsNothing'
  BY <1>4 DEF ImportEnds, Return, Go, bookVars, workerVars, historyVars,
     DownHoldsNothing, TypeOK
<1>5. CASE Poll
  <2>1. Moved("mcp") /\ "mcp" \in up /\ UNCHANGED <<up, queue, hand>>
    BY <1>5, Moves DEF Poll, workerVars, TypeOK, Imports
  <2>. QED
    BY <2>1, Homes DEF Moved, DownHoldsNothing
<1>6. CASE PollsEnd
  <2>1. Moved("mcp") /\ "mcp" \in up /\ UNCHANGED <<up, queue, hand>>
    BY <1>6, Moves DEF PollsEnd, workerVars, TypeOK, Imports
  <2>. QED
    BY <2>1, Homes DEF Moved, DownHoldsNothing
<1>7. ASSUME NEW p \in Procs, WorkerTake(p)
      PROVE  DownHoldsNothing'
  BY <1>7 DEF WorkerTake, bookVars, importVars, historyVars, DownHoldsNothing,
     TypeOK
<1>8. ASSUME NEW p \in Procs, WorkerClaim(p)
      PROVE  DownHoldsNothing'
  BY <1>8 DEF WorkerClaim, SetStatus, importVars, historyVars, DownHoldsNothing
<1>9. ASSUME NEW p \in Procs, WorkerFinish(p)
      PROVE  DownHoldsNothing'
  BY <1>9 DEF WorkerFinish, LayDown, SetStatus, importVars, historyVars,
     DownHoldsNothing, TypeOK
<1>10. ASSUME NEW p \in Procs, ProcessEnds(p)
       PROVE  DownHoldsNothing'
  BY <1>10 DEF ProcessEnds, bookVars, DownHoldsNothing, TypeOK
<1>11. CASE McpStarts
  BY <1>11 DEF McpStarts, bookVars, workerVars, importVars, historyVars,
     DownHoldsNothing, Procs
<1>12. CASE ServeStarts
  BY <1>12 DEF ServeStarts, workerVars, importVars, DownHoldsNothing, Procs
<1>13. ASSUME NEW i \in Invoices, ConfirmInvoice(i)
       PROVE  DownHoldsNothing'
  BY <1>13 DEF ConfirmInvoice, SetStatus, workerVars, importVars, historyVars,
     DownHoldsNothing
<1>14. ASSUME NEW i \in Invoices, MarkExported(i)
       PROVE  DownHoldsNothing'
  BY <1>14 DEF MarkExported, SetStatus, workerVars, importVars, historyVars,
     DownHoldsNothing
<1>15. ASSUME NEW x \in Uploads, NEW i \in Invoices, ScheduleReprocess(x, i)
       PROVE  DownHoldsNothing'
  <2>1. Moved(x) /\ Home(x) \in up /\ UNCHANGED <<up, queue, hand>>
    BY <1>15, Moves, Homes DEF ScheduleReprocess, workerVars, TypeOK, Imports
  <2>. QED
    BY <2>1, Homes DEF Moved, DownHoldsNothing
<1>16. CASE UNCHANGED vars
  BY <1>16 DEF vars, bookVars, workerVars, importVars, historyVars,
     DownHoldsNothing
<1>17. ASSUME NEW c \in Importers, NEW f \in Files, LookupFails(c, f)
       PROVE  DownHoldsNothing'
  <2>1. Moved(c) /\ Home(c) \in up /\ UNCHANGED <<up, queue, hand>>
    BY <1>17, Moves, Homes DEF LookupFails, workerVars, TypeOK, Imports
  <2>. QED
    BY <2>1 DEF Moved, DownHoldsNothing
<1>18. ASSUME NEW p \in Procs, WorkerClaimFails(p)
       PROVE  DownHoldsNothing'
  <2>1. LayDown(p) /\ wpc[p] # "idle"
    BY <1>18 DEF WorkerClaimFails
  <2>. QED
    BY <2>1 DEF LayDown, importVars, DownHoldsNothing, TypeOK
<1>19. ASSUME NEW p \in Procs, WorkerMarkFails(p)
       PROVE  DownHoldsNothing'
  <2>1. LayDown(p) /\ wpc[p] # "idle"
    BY <1>19 DEF WorkerMarkFails
  <2>. QED
    BY <2>1 DEF LayDown, importVars, DownHoldsNothing, TypeOK
<1>20. CASE RecoverReset
  BY <1>20 DEF RecoverReset, workerVars, importVars, DownHoldsNothing
<1>21. CASE RecoverSelect
  BY <1>21 DEF RecoverSelect, workerVars, importVars, DownHoldsNothing
<1>22. CASE RecoverSend
  <2>1. "serve" \in up /\ UNCHANGED <<up, hand, importVars>>
    BY <1>22 DEF RecoverSend
  <2>2. \A p \in Procs \ up : queue'[p] = queue[p]
    BY <1>22, <2>1 DEF RecoverSend, TypeOK
  <2>. QED
    BY <2>1, <2>2 DEF DownHoldsNothing, importVars
<1>23. CASE RecoverFails
  BY <1>23 DEF RecoverFails, workerVars, importVars, DownHoldsNothing
<1>. QED
  BY NextSteps, <1>1, <1>2, <1>3, <1>4, <1>5, <1>6, <1>7, <1>8, <1>9, <1>10,
     <1>11, <1>12, <1>13, <1>14, <1>15, <1>16, <1>17, <1>18, <1>19, <1>20,
     <1>21, <1>22, <1>23

\* What the recovery has still to queue waits and is held by nobody, unless
\* somebody held it when the cursor was opened.
TodoWaits ==
  /\ todo # {} => boot = "send" /\ "serve" \in up
  /\ \A i \in todo : status[i] # "absent"
  /\ \A i \in todo \ twice : status[i] = "pending" /\ \A p \in Procs : ~Holds(p, i)

\* Nobody can take up what the cursor has still to return: whoever reprocesses or
\* reads it in serve needs the connection.
LEMMA TodoStep ==
  ASSUME TypeOK, TodoWaits, [Next]_vars
  PROVE  TodoWaits'
<1>1. ASSUME NEW c \in Importers, NEW f \in Files, Lookup(c, f)
      PROVE  TodoWaits'
  <2>1. UNCHANGED <<status, up, boot, todo, twice>>
    BY <1>1 DEF Lookup, bookVars, workerVars, bootVars, importVars, historyVars
  <2>. QED
    BY <1>1, <2>1, QuietHolds DEF TodoWaits, TypeOK
<1>2. ASSUME NEW c \in Importers, Insert(c)
      PROVE  TodoWaits'
  <2>1. PICK i \in Invoices : Inserted(c, i)
    BY <1>2, InsertEffect
  <2>2. UNCHANGED <<up, boot, todo, twice>> /\ i \notin todo
    BY <1>2, <2>1 DEF Insert, Inserted, bootVars, TodoWaits
  <2>3. \A j \in Invoices : j # i => status'[j] = status[j]
    BY <2>1 DEF Inserted, TypeOK
  <2>4. \A p \in Procs, j \in Invoices : j # i /\ Holds(p, j)' => Holds(p, j)
    BY <1>2, <2>1, InsertHolds
  <2>. QED
    BY <2>2, <2>3, <2>4 DEF TodoWaits, TypeOK
<1>3. ASSUME NEW c \in Importers, Enqueue(c)
      PROVE  TodoWaits'
  <2>1. UNCHANGED <<status, up, boot, todo, twice>>
    BY <1>3 DEF Enqueue, bookVars, workerVars, bootVars, importVars, historyVars
  <2>. QED
    BY <1>3, <2>1, EnqueueHolds DEF TodoWaits, TypeOK
<1>4. ASSUME NEW c \in Importers, ImportEnds(c)
      PROVE  TodoWaits'
  <2>1. UNCHANGED <<status, up, boot, todo, twice>>
    BY <1>4 DEF ImportEnds, bookVars, workerVars, bootVars, importVars, historyVars
  <2>. QED
    BY <1>4, <2>1, QuietHolds DEF TodoWaits, TypeOK
<1>5. CASE Poll
  <2>1. UNCHANGED <<status, up, boot, todo, twice>>
    BY <1>5 DEF Poll, bookVars, workerVars, bootVars, importVars, historyVars
  <2>. QED
    BY <1>5, <2>1, QuietHolds DEF TodoWaits, TypeOK
<1>6. CASE PollsEnd
  <2>1. UNCHANGED <<status, up, boot, todo, twice>>
    BY <1>6 DEF PollsEnd, bookVars, workerVars, bootVars, importVars, historyVars
  <2>. QED
    BY <1>6, <2>1, QuietHolds DEF TodoWaits, TypeOK
<1>7. ASSUME NEW p \in Procs, WorkerTake(p)
      PROVE  TodoWaits'
  <2>1. UNCHANGED <<status, up, boot, todo, twice>>
    BY <1>7 DEF WorkerTake, bookVars, workerVars, bootVars, importVars, historyVars
  <2>. QED
    BY <1>7, <2>1, TakeHolds DEF TodoWaits, TypeOK
<1>8. ASSUME NEW p \in Procs, WorkerClaim(p)
      PROVE  TodoWaits'
  <2>1. /\ UNCHANGED <<up, boot, todo, twice>> /\ Holds(p, hand[p])
        /\ \A j \in Invoices : /\ j # hand[p] => status'[j] = status[j]
                               /\ status'[j] \in {status[j], "processing"}
    BY <1>8 DEF WorkerClaim, SetStatus, TypeOK, bootVars, historyVars, Holds
  <2>. QED
    BY <1>8, <2>1, QuietHolds DEF TodoWaits, TypeOK
<1>9. ASSUME NEW p \in Procs, WorkerFinish(p)
      PROVE  TodoWaits'
  <2>1. /\ UNCHANGED <<up, boot, todo, twice>> /\ LayDown(p) /\ wpc[p] # "idle"
        /\ \A j \in Invoices : /\ j # hand[p] => status'[j] = status[j]
                               /\ status'[j] \in {status[j], "processed", "duplicate", "failed"}
    BY <1>9 DEF WorkerFinish, LayDown, SetStatus, TypeOK, bootVars
  <2>. QED
    BY <2>1, LayDownHolds DEF TodoWaits, TypeOK
<1>10. ASSUME NEW p \in Procs, ProcessEnds(p)
       PROVE  TodoWaits'
  <2>1. /\ UNCHANGED <<status, twice>> /\ up' = up \ {p}
        /\ p = "serve" => todo' = {}
        /\ p # "serve" => todo' = todo /\ boot' = boot
    BY <1>10 DEF ProcessEnds, bookVars
  <2>. QED
    BY <1>10, <2>1, EndHolds DEF TodoWaits, TypeOK
<1>11. CASE McpStarts
  <2>1. up \subseteq up' /\ UNCHANGED <<status, boot, todo, twice>>
    BY <1>11 DEF McpStarts, bookVars, workerVars, bootVars, importVars, historyVars
  <2>. QED
    BY <1>11, <2>1, QuietHolds DEF TodoWaits, TypeOK
<1>12. CASE ServeStarts
  <2>1. todo' = {}
    BY <1>12 DEF ServeStarts, TodoWaits
  <2>. QED
    BY <2>1 DEF TodoWaits
<1>13. ASSUME NEW i \in Invoices, ConfirmInvoice(i)
       PROVE  TodoWaits'
  <2>1. todo' = {}
    BY <1>13 DEF ConfirmInvoice, CanQuery, bootVars, TodoWaits
  <2>. QED
    BY <2>1 DEF TodoWaits
<1>14. ASSUME NEW i \in Invoices, MarkExported(i)
       PROVE  TodoWaits'
  <2>1. todo' = {}
    BY <1>14 DEF MarkExported, CanQuery, bootVars, TodoWaits
  <2>. QED
    BY <2>1 DEF TodoWaits
<1>15. ASSUME NEW x \in Uploads, NEW i \in Invoices, ScheduleReprocess(x, i)
       PROVE  TodoWaits'
  <2>1. todo' = {}
    BY <1>15 DEF ScheduleReprocess, CanQuery, bootVars, TodoWaits
  <2>. QED
    BY <2>1 DEF TodoWaits
<1>16. CASE UNCHANGED vars
  <2>1. UNCHANGED <<status, up, boot, todo, twice>>
    BY <1>16 DEF vars, bookVars, workerVars, bootVars, importVars, historyVars
  <2>. QED
    BY <1>16, <2>1, QuietHolds DEF TodoWaits, TypeOK
<1>17. ASSUME NEW c \in Importers, NEW f \in Files, LookupFails(c, f)
       PROVE  TodoWaits'
  <2>1. UNCHANGED <<status, up, boot, todo, twice>>
    BY <1>17 DEF LookupFails, bookVars, workerVars, bootVars, importVars, historyVars
  <2>. QED
    BY <1>17, <2>1, QuietHolds DEF TodoWaits, TypeOK
<1>18. ASSUME NEW p \in Procs, WorkerClaimFails(p)
       PROVE  TodoWaits'
  <2>1. UNCHANGED <<status, up, boot, todo, twice>> /\ LayDown(p) /\ wpc[p] # "idle"
    BY <1>18 DEF WorkerClaimFails, LayDown, bootVars
  <2>. QED
    BY <2>1, LayDownHolds DEF TodoWaits, TypeOK
<1>19. ASSUME NEW p \in Procs, WorkerMarkFails(p)
       PROVE  TodoWaits'
  <2>1. UNCHANGED <<status, up, boot, todo, twice>> /\ LayDown(p) /\ wpc[p] # "idle"
    BY <1>19 DEF WorkerMarkFails, LayDown, bootVars
  <2>. QED
    BY <2>1, LayDownHolds DEF TodoWaits, TypeOK
<1>20. CASE RecoverReset
  <2>1. todo' = {}
    BY <1>20 DEF RecoverReset, TodoWaits
  <2>. QED
    BY <2>1 DEF TodoWaits
<1>21. CASE RecoverSelect
  <2>1. /\ UNCHANGED <<status, up>> /\ "serve" \in up
        /\ todo' = {i \in Invoices : status[i] = "pending"}
        /\ todo' # {} => boot' = "send"
        /\ twice' = twice \cup {i \in todo' : Held(i)}
    BY <1>21 DEF RecoverSelect, bookVars
  <2>. QED
    BY <1>21, <2>1, QuietHolds DEF TodoWaits, Held
<1>22. CASE RecoverSend
  <2>1. PICK i \in todo : /\ queue' = [queue EXCEPT !["serve"] = Append(@, i)]
                          /\ todo' = todo \ {i}
                          /\ todo' # {} => boot' = "send"
    BY <1>22 DEF RecoverSend
  <2>2. /\ i \in Invoices /\ "serve" \in up
        /\ UNCHANGED <<status, up, twice, hand, importVars>>
    BY <1>22 DEF RecoverSend, bookVars, TypeOK
  <2>3. \A q \in Procs, j \in Invoices : j # i /\ Holds(q, j)' => Holds(q, j)
    BY <2>1, <2>2, RecoverSendHolds
  <2>. QED
    BY <2>1, <2>2, <2>3 DEF TodoWaits, TypeOK
<1>23. CASE RecoverFails
  <2>1. todo' = {}
    BY <1>23 DEF RecoverFails
  <2>. QED
    BY <2>1 DEF TodoWaits
<1>. QED
  BY NextSteps, <1>1, <1>2, <1>3, <1>4, <1>5, <1>6, <1>7, <1>8, <1>9, <1>10,
     <1>11, <1>12, <1>13, <1>14, <1>15, <1>16, <1>17, <1>18, <1>19, <1>20,
     <1>21, <1>22, <1>23

\* Who takes an invoice up gives it a status.
LEMMA AbsentStep ==
  ASSUME TypeOK, DownHoldsNothing, TodoWaits, AbsentIsBlank, [Next]_vars
  PROVE  AbsentIsBlank'
<1>1. ASSUME NEW c \in Importers, NEW f \in Files, Lookup(c, f)
      PROVE  AbsentIsBlank'
  <2>1. UNCHANGED <<status, file>>
    BY <1>1 DEF Lookup, bookVars
  <2>. QED
    BY <1>1, <2>1, QuietHolds DEF AbsentIsBlank
<1>2. ASSUME NEW c \in Importers, Insert(c)
      PROVE  AbsentIsBlank'
  <2>1. PICK i \in Invoices : Inserted(c, i)
    BY <1>2, InsertEffect
  <2>2. \A j \in Invoices : /\ j # i => status'[j] = status[j] /\ file'[j] = file[j]
                            /\ status'[i] # "absent"
    BY <2>1 DEF Inserted, TypeOK
  <2>. QED
    BY <1>2, <2>1, <2>2, InsertHolds DEF AbsentIsBlank
<1>3. ASSUME NEW c \in Importers, Enqueue(c)
      PROVE  AbsentIsBlank'
  <2>1. UNCHANGED <<status, file>>
    BY <1>3 DEF Enqueue, bookVars
  <2>. QED
    BY <1>3, <2>1, EnqueueHolds DEF AbsentIsBlank
<1>4. ASSUME NEW c \in Importers, ImportEnds(c)
      PROVE  AbsentIsBlank'
  <2>1. UNCHANGED <<status, file>>
    BY <1>4 DEF ImportEnds, bookVars
  <2>. QED
    BY <1>4, <2>1, QuietHolds DEF AbsentIsBlank
<1>5. CASE Poll
  <2>1. UNCHANGED <<status, file>>
    BY <1>5, PollEffect DEF Poll, TypeOK, Imports, bookVars
  <2>. QED
    BY <1>5, <2>1, QuietHolds DEF AbsentIsBlank
<1>6. CASE PollsEnd
  <2>1. UNCHANGED <<status, file>>
    BY <1>6, PollEffect DEF PollsEnd, TypeOK, Imports, bookVars
  <2>. QED
    BY <1>6, <2>1, QuietHolds DEF AbsentIsBlank
<1>7. ASSUME NEW p \in Procs, WorkerTake(p)
      PROVE  AbsentIsBlank'
  <2>1. UNCHANGED <<status, file>>
    BY <1>7 DEF WorkerTake, bookVars
  <2>. QED
    BY <1>7, <2>1, TakeHolds DEF AbsentIsBlank
<1>8. ASSUME NEW p \in Procs, WorkerClaim(p)
      PROVE  AbsentIsBlank'
  <2>1. \A j \in Invoices : /\ status'[j] \in {status[j], "processing"}
                            /\ file'[j] = file[j]
    BY <1>8 DEF WorkerClaim, SetStatus, TypeOK
  <2>. QED
    BY <1>8, <2>1, QuietHolds DEF AbsentIsBlank
<1>9. ASSUME NEW p \in Procs, WorkerFinish(p)
      PROVE  AbsentIsBlank'
  <2>1. /\ LayDown(p) /\ wpc[p] # "idle"
        /\ \A j \in Invoices : /\ status'[j] \in {status[j], "processed", "duplicate", "failed"}
                               /\ file'[j] = file[j]
    BY <1>9 DEF WorkerFinish, LayDown, SetStatus, TypeOK
  <2>. QED
    BY <2>1, LayDownHolds DEF AbsentIsBlank
<1>10. ASSUME NEW p \in Procs, ProcessEnds(p)
       PROVE  AbsentIsBlank'
  <2>1. UNCHANGED <<status, file>>
    BY <1>10 DEF ProcessEnds, bookVars
  <2>. QED
    BY <1>10, <2>1, EndHolds DEF AbsentIsBlank
<1>11. CASE McpStarts
  <2>1. UNCHANGED <<status, file>>
    BY <1>11 DEF McpStarts, bookVars
  <2>. QED
    BY <1>11, <2>1, QuietHolds DEF AbsentIsBlank
<1>12. CASE ServeStarts
  <2>1. UNCHANGED <<status, file>>
    BY <1>12 DEF ServeStarts, bookVars
  <2>. QED
    BY <1>12, <2>1, QuietHolds DEF AbsentIsBlank
<1>13. ASSUME NEW i \in Invoices, ConfirmInvoice(i)
       PROVE  AbsentIsBlank'
  <2>1. \A j \in Invoices : /\ status'[j] \in {status[j], "ready_for_export"}
                            /\ file'[j] = file[j]
    BY <1>13 DEF ConfirmInvoice, SetStatus, TypeOK
  <2>. QED
    BY <1>13, <2>1, QuietHolds DEF AbsentIsBlank
<1>14. ASSUME NEW i \in Invoices, MarkExported(i)
       PROVE  AbsentIsBlank'
  <2>1. \A j \in Invoices : /\ status'[j] \in {status[j], "exported"}
                            /\ file'[j] = file[j]
    BY <1>14 DEF MarkExported, SetStatus, TypeOK
  <2>. QED
    BY <1>14, <2>1, QuietHolds DEF AbsentIsBlank
<1>15. ASSUME NEW x \in Uploads, NEW i \in Invoices, ScheduleReprocess(x, i)
       PROVE  AbsentIsBlank'
  <2>1. \A j \in Invoices : /\ j # i => status'[j] = status[j]
                            /\ status'[i] # "absent" /\ file'[j] = file[j]
    BY <1>15 DEF ScheduleReprocess, SetStatus, TypeOK
  <2>. QED
    BY <1>15, <2>1, ReprocessHolds DEF AbsentIsBlank
<1>16. CASE UNCHANGED vars
  BY <1>16, QuietHolds DEF vars, bookVars, workerVars, importVars, historyVars,
     AbsentIsBlank
<1>17. ASSUME NEW c \in Importers, NEW f \in Files, LookupFails(c, f)
       PROVE  AbsentIsBlank'
  <2>1. UNCHANGED <<status, file>>
    BY <1>17 DEF LookupFails, bookVars
  <2>. QED
    BY <1>17, <2>1, QuietHolds DEF AbsentIsBlank
<1>18. ASSUME NEW p \in Procs, WorkerClaimFails(p)
       PROVE  AbsentIsBlank'
  <2>1. UNCHANGED <<status, file>> /\ LayDown(p) /\ wpc[p] # "idle"
    BY <1>18 DEF WorkerClaimFails, LayDown
  <2>. QED
    BY <2>1, LayDownHolds DEF AbsentIsBlank
<1>19. ASSUME NEW p \in Procs, WorkerMarkFails(p)
       PROVE  AbsentIsBlank'
  <2>1. UNCHANGED <<status, file>> /\ LayDown(p) /\ wpc[p] # "idle"
    BY <1>19 DEF WorkerMarkFails, LayDown
  <2>. QED
    BY <2>1, LayDownHolds DEF AbsentIsBlank
<1>20. CASE RecoverReset
  <2>1. \A j \in Invoices : /\ status'[j] = "absent" => status[j] = "absent"
                            /\ file'[j] = file[j]
    BY <1>20 DEF RecoverReset
  <2>. QED
    BY <1>20, <2>1, QuietHolds DEF AbsentIsBlank
<1>21. CASE RecoverSelect
  <2>1. UNCHANGED <<status, file>>
    BY <1>21 DEF RecoverSelect, bookVars
  <2>. QED
    BY <1>21, <2>1, QuietHolds DEF AbsentIsBlank
<1>22. CASE RecoverSend
  <2>1. PICK i \in todo : queue' = [queue EXCEPT !["serve"] = Append(@, i)]
    BY <1>22 DEF RecoverSend
  <2>2. i \in Invoices /\ status[i] # "absent" /\ UNCHANGED <<status, file, hand, importVars>>
    BY <1>22 DEF RecoverSend, bookVars, TypeOK, TodoWaits
  <2>. QED
    BY <2>1, <2>2, RecoverSendHolds DEF AbsentIsBlank
<1>23. CASE RecoverFails
  <2>1. UNCHANGED <<status, file>>
    BY <1>23 DEF RecoverFails, bookVars
  <2>. QED
    BY <1>23, <2>1, QuietHolds DEF AbsentIsBlank
<1>. QED
  BY NextSteps, <1>1, <1>2, <1>3, <1>4, <1>5, <1>6, <1>7, <1>8, <1>9, <1>10,
     <1>11, <1>12, <1>13, <1>14, <1>15, <1>16, <1>17, <1>18, <1>19, <1>20,
     <1>21, <1>22, <1>23

-------------------------------------------------------------------------------
(* Held once                                                               *)

\* A process holds an invoice in one place, if recovery did not interfere.
Once(p, i) ==
  /\ OnceInQueue(p, i)
  /\ hand[p] = i => ~InQueue(p, i)
  /\ \A c \in Importers : Sends(c, p, i) =>
       /\ ~InQueue(p, i) /\ hand[p] # i
       /\ \A d \in Importers : Sends(d, p, i) => d = c

OnceHeld == \A i \in Invoices \ twice, p \in Procs : Once(p, i)

LEMMA Exclusive ==
  ASSUME HeldOnce, NEW i \in Invoices, i \notin twice
  PROVE  /\ \A p, q \in Procs : Holds(p, i) /\ Holds(q, i) => p = q
         /\ \A p \in Procs : Holds(p, i) => status[i] \in {"pending", "processing"}
         /\ \A p \in Procs : Holds(p, i) /\ status[i] = "processing" => Reads(p, i)
         /\ \A p \in Procs : Reads(p, i) => status[i] = "processing"
BY DEF HeldOnce, Waits, Procs

LEMMA OnceKept ==
  ASSUME UNCHANGED <<queue, hand, ipc, iinv>>
  PROVE  \A p \in Procs, i \in Invoices : Once(p, i)' <=> Once(p, i)
BY QueueKept DEF Once, Sends

\* An invoice that is held already is not taken up again.
LEMMA OnceStep ==
  ASSUME TypeOK, AbsentIsBlank, DownHoldsNothing, TodoWaits, HeldOnce, OnceHeld, [Next]_vars
  PROVE  OnceHeld'
<1>1. ASSUME NEW c \in Importers, NEW f \in Files, Lookup(c, f)
      PROVE  OnceHeld'
  <2>1. UNCHANGED <<queue, hand, twice>>
    BY <1>1, QueueKept DEF Lookup, workerVars, historyVars, TypeOK, Imports
  <2>2. \A d \in Importers, p \in Procs, i \in Invoices : Sends(d, p, i)' => Sends(d, p, i)
    BY <1>1, QueueKept DEF Lookup, Return, Go, Sends, TypeOK, Imports
  <2>. QED
    BY <2>1, <2>2, QueueKept DEF OnceHeld, Once
<1>2. ASSUME NEW c \in Importers, Insert(c)
      PROVE  OnceHeld'
  <2>1. PICK i \in Invoices : Inserted(c, i)
    BY <1>2, InsertEffect
  <2>2. UNCHANGED <<queue, hand, twice>>
    BY <1>2 DEF Insert, workerVars
  <2>3. \A p \in Procs : ~Holds(p, i)
    BY <2>1 DEF Inserted, AbsentIsBlank
  <2>4. \A d \in Importers, p \in Procs, j \in Invoices :
          Sends(d, p, j)' => Sends(d, p, j) \/ (d = c /\ j = i)
    BY <2>1 DEF Inserted, Sends, TypeOK
  <2>. QED
    BY <2>2, <2>3, <2>4, QueueKept DEF OnceHeld, Once, Holds, Sends
<1>3. ASSUME NEW c \in Importers, Enqueue(c)
      PROVE  OnceHeld'
  <2>1. UNCHANGED twice
    BY <1>3 DEF Enqueue, historyVars
  <2>2. ASSUME NEW i \in Invoices, i \notin twice, NEW p \in Procs PROVE Once(p, i)'
    <3>1. Once(p, i)
      BY <2>2 DEF OnceHeld
    <3>. QED
      BY <1>3, <3>1, EnqueueHolds DEF Once
  <2>. QED
    BY <2>1, <2>2 DEF OnceHeld
<1>4. ASSUME NEW c \in Importers, ImportEnds(c)
      PROVE  OnceHeld'
  <2>1. UNCHANGED <<queue, hand, twice>>
    BY <1>4, QueueKept DEF ImportEnds, workerVars, historyVars, TypeOK, Imports
  <2>2. \A d \in Importers, p \in Procs, i \in Invoices : Sends(d, p, i)' => Sends(d, p, i)
    BY <1>4, QueueKept DEF ImportEnds, Return, Go, Sends, TypeOK, Imports
  <2>. QED
    BY <2>1, <2>2, QueueKept DEF OnceHeld, Once
<1>5. CASE Poll
  <2>1. UNCHANGED <<queue, hand, twice>>
    BY <1>5, PollEffect DEF Poll, workerVars, historyVars, TypeOK, Imports
  <2>2. \A d \in Importers, p \in Procs, i \in Invoices : Sends(d, p, i)' => Sends(d, p, i)
    BY <1>5, PollEffect, Homes DEF Poll, Sends, TypeOK, Imports
  <2>. QED
    BY <2>1, <2>2, QueueKept DEF OnceHeld, Once
<1>6. CASE PollsEnd
  <2>1. UNCHANGED <<queue, hand, twice>>
    BY <1>6, PollEffect DEF PollsEnd, workerVars, historyVars, TypeOK, Imports
  <2>2. \A d \in Importers, p \in Procs, i \in Invoices : Sends(d, p, i)' => Sends(d, p, i)
    BY <1>6, PollEffect, Homes DEF PollsEnd, Sends, TypeOK, Imports
  <2>. QED
    BY <2>1, <2>2, QueueKept DEF OnceHeld, Once
<1>7. ASSUME NEW p \in Procs, WorkerTake(p)
      PROVE  OnceHeld'
  <2>1. UNCHANGED twice
    BY <1>7 DEF WorkerTake, historyVars
  <2>2. ASSUME NEW i \in Invoices, i \notin twice, NEW q \in Procs PROVE Once(q, i)'
    <3>1. Once(q, i)
      BY <2>2 DEF OnceHeld
    <3>. QED
      BY <1>7, <3>1, TakeHolds DEF Once
  <2>. QED
    BY <2>1, <2>2 DEF OnceHeld
<1>8. ASSUME NEW p \in Procs, WorkerClaim(p)
      PROVE  OnceHeld'
  <2>1. UNCHANGED <<queue, hand, ipc, iinv, twice>>
    BY <1>8 DEF WorkerClaim, workerVars, importVars, historyVars, bookVars
  <2>. QED
    BY <2>1, OnceKept DEF OnceHeld
<1>9. ASSUME NEW p \in Procs, WorkerFinish(p)
      PROVE  OnceHeld'
  <2>1. UNCHANGED <<twice, queue, importVars>> /\ LayDown(p) /\ wpc[p] # "idle"
    BY <1>9 DEF WorkerFinish, LayDown
  <2>2. \A q \in Procs, i \in Invoices : hand'[q] = i => hand[q] = i
    BY <2>1, LayDownHolds, McpAssumption
  <2>. QED
    BY <2>1, <2>2, QueueKept DEF OnceHeld, Once, Sends, importVars
<1>10. ASSUME NEW p \in Procs, ProcessEnds(p)
       PROVE  OnceHeld'
  <2>1. UNCHANGED twice
    BY <1>10 DEF ProcessEnds
  <2>2. /\ \A j \in Invoices : ~Holds(p, j)'
        /\ queue'[p] = <<>>
        /\ \A q \in Procs : q # p => queue'[q] = queue[q] /\ hand'[q] = hand[q]
        /\ \A q \in Procs, d \in Importers, j \in Invoices :
             q # p => (Sends(d, q, j)' <=> Sends(d, q, j))
    BY <1>10, EndHolds DEF ProcessEnds, TypeOK, Sends
  <2>3. ASSUME NEW i \in Invoices, i \notin twice, NEW q \in Procs PROVE Once(q, i)'
    <3>1. CASE q = p
      BY <2>2, <3>1 DEF Once, Holds, Sends, OnceInQueue
    <3>2. CASE q # p
      <4>1. Once(q, i)
        BY <2>3 DEF OnceHeld
      <4>2. queue'[q] = queue[q] /\ hand'[q] = hand[q]
        BY <2>2, <3>2
      <4>3. (InQueue(q, i)' <=> InQueue(q, i)) /\ (OnceInQueue(q, i)' <=> OnceInQueue(q, i))
        BY <4>2 DEF InQueue, OnceInQueue
      <4>. QED
        BY <2>2, <3>2, <4>1, <4>2, <4>3 DEF Once
    <3>. QED
      BY <3>1, <3>2
  <2>. QED
    BY <2>1, <2>3 DEF OnceHeld
<1>11. CASE McpStarts
  <2>1. UNCHANGED <<queue, hand, ipc, iinv, twice>>
    BY <1>11 DEF McpStarts, workerVars, importVars, historyVars, bookVars
  <2>. QED
    BY <2>1, OnceKept DEF OnceHeld
<1>12. CASE ServeStarts
  <2>1. UNCHANGED <<queue, hand, ipc, iinv>> /\ twice \subseteq twice'
    BY <1>12 DEF ServeStarts, workerVars, importVars, historyVars, bookVars
  <2>. QED
    BY <2>1, OnceKept DEF OnceHeld
<1>13. ASSUME NEW i \in Invoices, ConfirmInvoice(i)
       PROVE  OnceHeld'
  <2>1. UNCHANGED <<queue, hand, ipc, iinv, twice>>
    BY <1>13 DEF ConfirmInvoice, workerVars, importVars, historyVars, bookVars
  <2>. QED
    BY <2>1, OnceKept DEF OnceHeld
<1>14. ASSUME NEW i \in Invoices, MarkExported(i)
       PROVE  OnceHeld'
  <2>1. UNCHANGED <<queue, hand, ipc, iinv, twice>>
    BY <1>14 DEF MarkExported, workerVars, importVars, historyVars, bookVars
  <2>. QED
    BY <2>1, OnceKept DEF OnceHeld
<1>15. ASSUME NEW x \in Uploads, NEW i \in Invoices, ScheduleReprocess(x, i)
       PROVE  OnceHeld'
  <2>1. UNCHANGED twice /\ status[i] \notin {"pending", "processing"}
    BY <1>15 DEF ScheduleReprocess, historyVars
  <2>2. ASSUME NEW j \in Invoices, j \notin twice, NEW p \in Procs PROVE Once(p, j)'
    <3>1. Once(p, j)
      BY <2>2 DEF OnceHeld
    <3>2. j = i => ~Holds(p, i)
      BY <2>1, <2>2, Exclusive
    <3>. QED
      BY <1>15, <3>1, <3>2, ReprocessHolds, QueueKept DEF Once, Holds, Sends
  <2>. QED
    BY <2>1, <2>2 DEF OnceHeld
<1>16. CASE UNCHANGED vars
  BY <1>16, OnceKept DEF vars, bookVars, workerVars, importVars, historyVars,
     OnceHeld
<1>17. ASSUME NEW c \in Importers, NEW f \in Files, LookupFails(c, f)
       PROVE  OnceHeld'
  <2>1. UNCHANGED <<queue, hand, twice>>
    BY <1>17 DEF LookupFails, workerVars
  <2>2. \A d \in Importers, p \in Procs, i \in Invoices : Sends(d, p, i)' => Sends(d, p, i)
    BY <1>17 DEF LookupFails, Go, Sends, TypeOK
  <2>. QED
    BY <2>1, <2>2, QueueKept DEF OnceHeld, Once
<1>18. ASSUME NEW p \in Procs, WorkerClaimFails(p)
       PROVE  OnceHeld'
  <2>1. UNCHANGED <<twice, queue, importVars>> /\ LayDown(p) /\ wpc[p] # "idle"
    BY <1>18 DEF WorkerClaimFails, LayDown
  <2>2. \A q \in Procs, i \in Invoices : hand'[q] = i => hand[q] = i
    BY <2>1, LayDownHolds, McpAssumption
  <2>. QED
    BY <2>1, <2>2, QueueKept DEF OnceHeld, Once, Sends, importVars
<1>19. ASSUME NEW p \in Procs, WorkerMarkFails(p)
       PROVE  OnceHeld'
  <2>1. UNCHANGED <<twice, queue, importVars>> /\ LayDown(p) /\ wpc[p] # "idle"
    BY <1>19 DEF WorkerMarkFails, LayDown
  <2>2. \A q \in Procs, i \in Invoices : hand'[q] = i => hand[q] = i
    BY <2>1, LayDownHolds, McpAssumption
  <2>. QED
    BY <2>1, <2>2, QueueKept DEF OnceHeld, Once, Sends, importVars
<1>20. CASE RecoverReset
  <2>1. UNCHANGED <<queue, hand, ipc, iinv>> /\ twice \subseteq twice'
    BY <1>20 DEF RecoverReset, workerVars, importVars, historyVars, bookVars
  <2>. QED
    BY <2>1, OnceKept DEF OnceHeld
<1>21. CASE RecoverSelect
  <2>1. UNCHANGED <<queue, hand, ipc, iinv>> /\ twice \subseteq twice'
    BY <1>21 DEF RecoverSelect, workerVars, importVars, historyVars, bookVars
  <2>. QED
    BY <2>1, OnceKept DEF OnceHeld
<1>22. CASE RecoverSend
  <2>1. PICK i \in todo : queue' = [queue EXCEPT !["serve"] = Append(@, i)]
    BY <1>22 DEF RecoverSend
  <2>2. i \in Invoices /\ UNCHANGED <<hand, importVars, twice>>
    BY <1>22 DEF RecoverSend, TypeOK
  <2>3. ASSUME NEW j \in Invoices, j \notin twice, NEW p \in Procs PROVE Once(p, j)'
    <3>1. Once(p, j)
      BY <2>3 DEF OnceHeld
    <3>2. j = i => ~Holds(p, i)
      BY <2>3 DEF TodoWaits
    <3>3. /\ InQueue(p, j)' <=> InQueue(p, j) \/ (p = "serve" /\ j = i)
          /\ OnceInQueue(p, j) /\ ~(p = "serve" /\ j = i /\ InQueue(p, j))
               => OnceInQueue(p, j)'
      BY <2>1, <2>2, RecoverSendHolds
    <3>4. UNCHANGED <<hand, ipc, iinv>>
      BY <2>2 DEF importVars
    <3>5. /\ Holds(p, j) <=> \/ InQueue(p, j) \/ hand[p] = j
                             \/ \E c \in Importers : Sends(c, p, j)
          /\ \A c \in Importers : Sends(c, p, j)' <=> Sends(c, p, j)
      BY <3>4 DEF Holds, Sends
    <3>. QED
      BY <3>1, <3>2, <3>3, <3>4, <3>5 DEF Once
  <2>. QED
    BY <2>2, <2>3 DEF OnceHeld
<1>23. CASE RecoverFails
  <2>1. UNCHANGED <<queue, hand, ipc, iinv>> /\ twice \subseteq twice'
    BY <1>23 DEF RecoverFails, workerVars, importVars, historyVars, bookVars
  <2>. QED
    BY <2>1, OnceKept DEF OnceHeld
<1>. QED
  BY NextSteps, <1>1, <1>2, <1>3, <1>4, <1>5, <1>6, <1>7, <1>8, <1>9, <1>10,
     <1>11, <1>12, <1>13, <1>14, <1>15, <1>16, <1>17, <1>18, <1>19, <1>20,
     <1>21, <1>22, <1>23

-------------------------------------------------------------------------------

\* HeldOnce for one invoice.
HeldWell(i) ==
  /\ \A p, q \in Procs : Holds(p, i) /\ Holds(q, i) => p = q
  /\ \A p \in Procs : /\ Holds(p, i) /\ ~Reads(p, i) => status[i] = "pending"
                      /\ Reads(p, i) => status[i] = "processing"

LEMMA HeldOnceParts == /\ HeldOnce <=> \A i \in Invoices \ twice : HeldWell(i)
                       /\ HeldOnce' <=> \A i \in Invoices \ twice' : HeldWell(i)'
BY DEF HeldOnce, HeldWell, Waits, Procs

LEMMA HeldKept ==
  ASSUME NEW i \in Invoices, HeldWell(i), status'[i] = status[i],
         \A p \in Procs : (Holds(p, i)' => Holds(p, i)) /\ (Reads(p, i)' <=> Reads(p, i))
  PROVE  HeldWell(i)'
BY DEF HeldWell

\* A claim, a read and an outcome follow each other.
LEMMA HeldStep ==
  ASSUME TypeOK, AbsentIsBlank, DownHoldsNothing, TodoWaits, OnceHeld,
         \A j \in Invoices \ twice : HeldWell(j), [Next]_vars
  PROVE  \A j \in Invoices \ twice' : HeldWell(j)'
<1>1. ASSUME NEW c \in Importers, NEW f \in Files, Lookup(c, f)
      PROVE  \A j \in Invoices \ twice' : HeldWell(j)'
  <2>1. UNCHANGED <<status, wpc, hand, twice>>
    BY <1>1 DEF Lookup, bookVars, workerVars, historyVars
  <2>2. \A p \in Procs, j \in Invoices : Reads(p, j)' <=> Reads(p, j)
    BY <2>1 DEF Reads
  <2>3. \A p \in Procs, j \in Invoices : Holds(p, j)' <=> Holds(p, j)
    BY <1>1, QuietHolds
  <2>. QED
    BY <2>1, <2>2, <2>3, HeldKept
<1>2. ASSUME NEW c \in Importers, Insert(c)
      PROVE  \A j \in Invoices \ twice' : HeldWell(j)'
  <2>1. PICK i \in Invoices : Inserted(c, i)
    BY <1>2, InsertEffect
  <2>2. UNCHANGED <<wpc, hand, twice>>
    BY <1>2 DEF Insert, workerVars
  <2>3. \A p \in Procs, j \in Invoices : Reads(p, j)' <=> Reads(p, j)
    BY <2>2 DEF Reads
  <2>4. \A p \in Procs : ~Holds(p, i) /\ ~Reads(p, i)
    BY <2>1 DEF Inserted, AbsentIsBlank, Holds, Reads
  <2>5. \A j \in Invoices : j # i => status'[j] = status[j]
    BY <2>1 DEF Inserted, TypeOK
  <2>6. HeldWell(i)'
    <3>1. \A p \in Procs : Holds(p, i)' <=> iinv[c] = NoInvoice /\ p = Home(c)
      BY <1>2, <2>1, <2>4, InsertHolds
    <3>2. iinv[c] = NoInvoice => status'[i] = "pending"
      BY <2>1 DEF Inserted, TypeOK
    <3>. QED
      BY <2>3, <2>4, <3>1, <3>2 DEF HeldWell
  <2>7. \A p \in Procs, j \in Invoices : j # i => (Holds(p, j)' <=> Holds(p, j))
    BY <1>2, <2>1, InsertHolds
  <2>. QED
    BY <2>2, <2>3, <2>5, <2>6, <2>7, HeldKept
<1>3. ASSUME NEW c \in Importers, Enqueue(c)
      PROVE  \A j \in Invoices \ twice' : HeldWell(j)'
  <2>1. UNCHANGED <<status, wpc, hand, twice>>
    BY <1>3 DEF Enqueue, bookVars, workerVars, historyVars
  <2>2. \A p \in Procs, j \in Invoices : Reads(p, j)' <=> Reads(p, j)
    BY <2>1 DEF Reads
  <2>3. \A p \in Procs, j \in Invoices : Holds(p, j)' <=> Holds(p, j)
    BY <1>3, EnqueueHolds
  <2>. QED
    BY <2>1, <2>2, <2>3, HeldKept
<1>4. ASSUME NEW c \in Importers, ImportEnds(c)
      PROVE  \A j \in Invoices \ twice' : HeldWell(j)'
  <2>1. UNCHANGED <<status, wpc, hand, twice>>
    BY <1>4 DEF ImportEnds, bookVars, workerVars, historyVars
  <2>2. \A p \in Procs, j \in Invoices : Reads(p, j)' <=> Reads(p, j)
    BY <2>1 DEF Reads
  <2>3. \A p \in Procs, j \in Invoices : Holds(p, j)' <=> Holds(p, j)
    BY <1>4, QuietHolds
  <2>. QED
    BY <2>1, <2>2, <2>3, HeldKept
<1>5. CASE Poll
  <2>1. UNCHANGED <<status, wpc, hand, twice>>
    BY <1>5, PollEffect DEF Poll, bookVars, workerVars, historyVars, TypeOK,
       Imports
  <2>2. \A p \in Procs, j \in Invoices : Reads(p, j)' <=> Reads(p, j)
    BY <2>1 DEF Reads
  <2>3. \A p \in Procs, j \in Invoices : Holds(p, j)' <=> Holds(p, j)
    BY <1>5, QuietHolds
  <2>. QED
    BY <2>1, <2>2, <2>3, HeldKept
<1>6. CASE PollsEnd
  <2>1. UNCHANGED <<status, wpc, hand, twice>>
    BY <1>6, PollEffect DEF PollsEnd, bookVars, workerVars, historyVars, TypeOK,
       Imports
  <2>2. \A p \in Procs, j \in Invoices : Reads(p, j)' <=> Reads(p, j)
    BY <2>1 DEF Reads
  <2>3. \A p \in Procs, j \in Invoices : Holds(p, j)' <=> Holds(p, j)
    BY <1>6, QuietHolds
  <2>. QED
    BY <2>1, <2>2, <2>3, HeldKept
<1>7. ASSUME NEW p \in Procs, WorkerTake(p)
      PROVE  \A j \in Invoices \ twice' : HeldWell(j)'
  <2>1. UNCHANGED <<status, twice>> /\ wpc[p] = "idle" /\ wpc'[p] = "taken"
    BY <1>7 DEF WorkerTake, bookVars, historyVars, TypeOK
  <2>2. \A q \in Procs, j \in Invoices : Reads(q, j)' <=> Reads(q, j)
    BY <1>7, <2>1 DEF WorkerTake, Reads, TypeOK
  <2>3. \A q \in Procs, j \in Invoices : Holds(q, j)' <=> Holds(q, j)
    BY <1>7, TakeHolds
  <2>. QED
    BY <2>1, <2>2, <2>3, HeldKept
<1>8. ASSUME NEW p \in Procs, WorkerClaim(p)
      PROVE  \A j \in Invoices \ twice' : HeldWell(j)'
  <2>1. /\ hand[p] \in Invoices /\ UNCHANGED <<hand, twice>>
        /\ wpc[p] = "taken" /\ wpc' = [wpc EXCEPT ![p] = "reading"]
        /\ \A j \in Invoices : status'[j] = IF j = hand[p] THEN "processing" ELSE status[j]
    BY <1>8, McpAssumption DEF WorkerClaim, SetStatus, TypeOK, historyVars
  <2>2. \A q \in Procs, j \in Invoices :
          Reads(q, j)' <=> Reads(q, j) \/ (q = p /\ j = hand[p])
    BY <2>1 DEF Reads, TypeOK
  <2>3. \A q \in Procs, j \in Invoices : Holds(q, j)' <=> Holds(q, j)
    BY <1>8, QuietHolds
  <2>4. Holds(p, hand[p])
    BY DEF Holds
  <2>5. \A q \in Procs, j \in Invoices : Reads(q, j) => Holds(q, j)
    BY DEF Reads, Holds
  <2>6. \A j \in Invoices \ twice : j # hand[p] => HeldWell(j)'
    BY <2>1, <2>2, <2>3, HeldKept
  <2>7. ASSUME NEW j \in Invoices \ twice, j = hand[p] PROVE HeldWell(j)'
    BY <2>1, <2>2, <2>3, <2>4, <2>5, <2>7 DEF HeldWell
  <2>. QED
    BY <2>1, <2>6, <2>7
<1>9. ASSUME NEW p \in Procs, WorkerFinish(p)
      PROVE  \A j \in Invoices \ twice' : HeldWell(j)'
  <2>1. /\ LayDown(p) /\ wpc[p] # "idle" /\ UNCHANGED <<twice, queue, importVars>>
        /\ \A j \in Invoices : j # hand[p] => status'[j] = status[j]
    BY <1>9 DEF WorkerFinish, LayDown, SetStatus, TypeOK
  <2>2. \A q \in Procs, j \in Invoices : j # hand[p] => (Reads(q, j)' <=> Reads(q, j))
    BY <2>1, LayDownHolds, McpAssumption DEF Reads
  <2>3. \A q \in Procs, j \in Invoices :
          /\ Holds(q, j)' => Holds(q, j)
          /\ Reads(q, j)' => Holds(q, j)'
    BY <2>1, LayDownHolds DEF Reads, Holds
  <2>4. ASSUME NEW j \in Invoices \ twice, j # hand[p] PROVE HeldWell(j)'
    BY <2>1, <2>2, <2>3, <2>4, HeldKept
  <2>5. ASSUME NEW j \in Invoices \ twice, j = hand[p] PROVE HeldWell(j)'
    <3>1. \A q \in Procs : Holds(q, j)' => q = p
      BY <2>1, <2>3, <2>5, LayDownHolds DEF HeldWell
    <3>2. ~Holds(p, j)'
      <4>1. Once(p, j)
        BY <2>5 DEF OnceHeld
      <4>2. hand'[p] # j
        BY <2>1, LayDownHolds, McpAssumption
      <4>. QED
        BY <2>1, <2>5, <4>1, <4>2, QueueKept DEF Once, Holds, Sends, importVars
    <3>. QED
      BY <2>3, <3>1, <3>2 DEF HeldWell
  <2>. QED
    BY <2>1, <2>4, <2>5
<1>10. ASSUME NEW p \in Procs, ProcessEnds(p)
       PROVE  \A j \in Invoices \ twice' : HeldWell(j)'
  <2>1. /\ UNCHANGED <<status, twice>> /\ wpc'[p] = "idle"
        /\ \A q \in Procs : q # p => wpc'[q] = wpc[q] /\ hand'[q] = hand[q]
    BY <1>10 DEF ProcessEnds, bookVars, TypeOK
  <2>2. \A q \in Procs, j \in Invoices : /\ q # p => (Reads(q, j)' <=> Reads(q, j))
                                         /\ ~Reads(p, j)'
    BY <2>1 DEF Reads
  <2>. QED
    BY <1>10, <2>1, <2>2, EndHolds DEF HeldWell
<1>11. CASE McpStarts
  <2>1. UNCHANGED <<status, wpc, hand, twice>>
    BY <1>11 DEF McpStarts, bookVars, workerVars, historyVars
  <2>2. \A p \in Procs, j \in Invoices : Reads(p, j)' <=> Reads(p, j)
    BY <2>1 DEF Reads
  <2>3. \A p \in Procs, j \in Invoices : Holds(p, j)' <=> Holds(p, j)
    BY <1>11, QuietHolds
  <2>. QED
    BY <2>1, <2>2, <2>3, HeldKept
<1>12. CASE ServeStarts
  <2>1. UNCHANGED <<status, wpc, hand>> /\ twice \subseteq twice'
    BY <1>12 DEF ServeStarts, bookVars, workerVars, historyVars
  <2>2. \A p \in Procs, j \in Invoices : Reads(p, j)' <=> Reads(p, j)
    BY <2>1 DEF Reads
  <2>3. \A p \in Procs, j \in Invoices : Holds(p, j)' <=> Holds(p, j)
    BY <1>12, QuietHolds
  <2>. QED
    BY <2>1, <2>2, <2>3, HeldKept
<1>13. ASSUME NEW i \in Invoices, ConfirmInvoice(i)
       PROVE  \A j \in Invoices \ twice' : HeldWell(j)'
  <2>1. /\ UNCHANGED <<wpc, hand, twice>> /\ status[i] = "processed"
        /\ \A j \in Invoices : j # i => status'[j] = status[j]
    BY <1>13 DEF ConfirmInvoice, SetStatus, workerVars, historyVars, TypeOK
  <2>2. \A q \in Procs, j \in Invoices : /\ Reads(q, j)' <=> Reads(q, j)
                                         /\ Holds(q, j)' <=> Holds(q, j)
    BY <1>13, <2>1, QuietHolds DEF Reads
  <2>3. \A j \in Invoices \ twice : j # i => HeldWell(j)'
    BY <2>1, <2>2, HeldKept
  <2>4. HeldWell(i) => HeldWell(i)'
    BY <2>1, <2>2 DEF HeldWell
  <2>. QED
    BY <2>1, <2>3, <2>4
<1>14. ASSUME NEW i \in Invoices, MarkExported(i)
       PROVE  \A j \in Invoices \ twice' : HeldWell(j)'
  <2>1. /\ UNCHANGED <<wpc, hand, twice>> /\ status[i] = "ready_for_export"
        /\ \A j \in Invoices : j # i => status'[j] = status[j]
    BY <1>14 DEF MarkExported, SetStatus, workerVars, historyVars, TypeOK
  <2>2. \A q \in Procs, j \in Invoices : /\ Reads(q, j)' <=> Reads(q, j)
                                         /\ Holds(q, j)' <=> Holds(q, j)
    BY <1>14, <2>1, QuietHolds DEF Reads
  <2>3. \A j \in Invoices \ twice : j # i => HeldWell(j)'
    BY <2>1, <2>2, HeldKept
  <2>4. HeldWell(i) => HeldWell(i)'
    BY <2>1, <2>2 DEF HeldWell
  <2>. QED
    BY <2>1, <2>3, <2>4
<1>15. ASSUME NEW x \in Uploads, NEW i \in Invoices, ScheduleReprocess(x, i)
       PROVE  \A j \in Invoices \ twice' : HeldWell(j)'
  <2>1. /\ UNCHANGED <<wpc, hand, twice>>
        /\ status[i] \notin {"pending", "processing"} /\ status'[i] = "pending"
        /\ \A j \in Invoices : j # i => status'[j] = status[j]
    BY <1>15 DEF ScheduleReprocess, SetStatus, workerVars, historyVars, TypeOK
  <2>2. \A q \in Procs, j \in Invoices :
          /\ Reads(q, j)' <=> Reads(q, j)
          /\ Holds(q, j)' <=> Holds(q, j) \/ (q = "serve" /\ j = i)
    BY <1>15, <2>1, ReprocessHolds DEF Reads
  <2>3. \A j \in Invoices \ twice : j # i => HeldWell(j)'
    BY <2>1, <2>2, HeldKept
  <2>4. HeldWell(i) => HeldWell(i)'
    BY <2>1, <2>2 DEF HeldWell
  <2>. QED
    BY <2>1, <2>3, <2>4
<1>16. CASE UNCHANGED vars
  BY <1>16, QuietHolds, HeldKept DEF Reads, vars, bookVars, workerVars,
     importVars, historyVars
<1>17. ASSUME NEW c \in Importers, NEW f \in Files, LookupFails(c, f)
       PROVE  \A j \in Invoices \ twice' : HeldWell(j)'
  <2>1. UNCHANGED <<status, wpc, hand>> /\ twice \subseteq twice'
    BY <1>17 DEF LookupFails, bookVars, workerVars, historyVars
  <2>2. \A p \in Procs, j \in Invoices : Reads(p, j)' <=> Reads(p, j)
    BY <2>1 DEF Reads
  <2>3. \A p \in Procs, j \in Invoices : Holds(p, j)' <=> Holds(p, j)
    BY <1>17, QuietHolds
  <2>. QED
    BY <2>1, <2>2, <2>3, HeldKept
<1>18. ASSUME NEW p \in Procs, WorkerClaimFails(p)
       PROVE  \A j \in Invoices \ twice' : HeldWell(j)'
  <2>1. /\ LayDown(p) /\ wpc[p] # "idle" /\ UNCHANGED <<twice, queue, importVars>>
        /\ \A j \in Invoices : j # hand[p] => status'[j] = status[j]
    BY <1>18 DEF WorkerClaimFails, LayDown, SetStatus, TypeOK
  <2>2. \A q \in Procs, j \in Invoices : j # hand[p] => (Reads(q, j)' <=> Reads(q, j))
    BY <2>1, LayDownHolds, McpAssumption DEF Reads
  <2>3. \A q \in Procs, j \in Invoices :
          /\ Holds(q, j)' => Holds(q, j)
          /\ Reads(q, j)' => Holds(q, j)'
    BY <2>1, LayDownHolds DEF Reads, Holds
  <2>4. ASSUME NEW j \in Invoices \ twice, j # hand[p] PROVE HeldWell(j)'
    BY <2>1, <2>2, <2>3, <2>4, HeldKept
  <2>5. ASSUME NEW j \in Invoices \ twice, j = hand[p] PROVE HeldWell(j)'
    <3>1. \A q \in Procs : Holds(q, j)' => q = p
      BY <2>1, <2>3, <2>5, LayDownHolds DEF HeldWell
    <3>2. ~Holds(p, j)'
      <4>1. Once(p, j)
        BY <2>5 DEF OnceHeld
      <4>2. hand'[p] # j
        BY <2>1, LayDownHolds, McpAssumption
      <4>. QED
        BY <2>1, <2>5, <4>1, <4>2, QueueKept DEF Once, Holds, Sends, importVars
    <3>. QED
      BY <2>3, <3>1, <3>2 DEF HeldWell
  <2>. QED
    BY <2>1, <2>4, <2>5
<1>19. ASSUME NEW p \in Procs, WorkerMarkFails(p)
       PROVE  \A j \in Invoices \ twice' : HeldWell(j)'
  <2>1. /\ LayDown(p) /\ wpc[p] # "idle" /\ UNCHANGED <<twice, queue, importVars>>
        /\ \A j \in Invoices : j # hand[p] => status'[j] = status[j]
    BY <1>19 DEF WorkerMarkFails, LayDown, SetStatus, TypeOK
  <2>2. \A q \in Procs, j \in Invoices : j # hand[p] => (Reads(q, j)' <=> Reads(q, j))
    BY <2>1, LayDownHolds, McpAssumption DEF Reads
  <2>3. \A q \in Procs, j \in Invoices :
          /\ Holds(q, j)' => Holds(q, j)
          /\ Reads(q, j)' => Holds(q, j)'
    BY <2>1, LayDownHolds DEF Reads, Holds
  <2>4. ASSUME NEW j \in Invoices \ twice, j # hand[p] PROVE HeldWell(j)'
    BY <2>1, <2>2, <2>3, <2>4, HeldKept
  <2>5. ASSUME NEW j \in Invoices \ twice, j = hand[p] PROVE HeldWell(j)'
    <3>1. \A q \in Procs : Holds(q, j)' => q = p
      BY <2>1, <2>3, <2>5, LayDownHolds DEF HeldWell
    <3>2. ~Holds(p, j)'
      <4>1. Once(p, j)
        BY <2>5 DEF OnceHeld
      <4>2. hand'[p] # j
        BY <2>1, LayDownHolds, McpAssumption
      <4>. QED
        BY <2>1, <2>5, <4>1, <4>2, QueueKept DEF Once, Holds, Sends, importVars
    <3>. QED
      BY <2>3, <3>1, <3>2 DEF HeldWell
  <2>. QED
    BY <2>1, <2>4, <2>5
<1>20. CASE RecoverReset
  <2>1. PICK stale \in SUBSET {i \in Invoices : status[i] = "processing"} :
          /\ status' = [i \in Invoices |-> IF i \in stale THEN "pending" ELSE status[i]]
          /\ twice' = twice \cup {i \in stale : Held(i)}
    BY <1>20 DEF RecoverReset
  <2>2. UNCHANGED <<wpc, hand>>
    BY <1>20 DEF RecoverReset, workerVars
  <2>3. \A p \in Procs, j \in Invoices : /\ Reads(p, j)' <=> Reads(p, j)
                                         /\ Holds(p, j)' <=> Holds(p, j)
                                         /\ Reads(p, j) => Holds(p, j)
    BY <1>20, <2>2, QuietHolds DEF Reads, Holds
  <2>4. ASSUME NEW j \in Invoices \ twice' PROVE HeldWell(j)'
    <3>1. CASE j \in stale
      BY <2>1, <2>3, <3>1 DEF Held, HeldWell
    <3>2. CASE j \notin stale
      BY <2>1, <2>3, <3>2, HeldKept
    <3>. QED
      BY <3>1, <3>2
  <2>. QED
    BY <2>4
<1>21. CASE RecoverSelect
  <2>1. UNCHANGED <<status, wpc, hand>> /\ twice \subseteq twice'
    BY <1>21 DEF RecoverSelect, bookVars, workerVars, historyVars
  <2>2. \A p \in Procs, j \in Invoices : Reads(p, j)' <=> Reads(p, j)
    BY <2>1 DEF Reads
  <2>3. \A p \in Procs, j \in Invoices : Holds(p, j)' <=> Holds(p, j)
    BY <1>21, QuietHolds
  <2>. QED
    BY <2>1, <2>2, <2>3, HeldKept
<1>22. CASE RecoverSend
  <2>1. PICK i \in todo : queue' = [queue EXCEPT !["serve"] = Append(@, i)]
    BY <1>22 DEF RecoverSend
  <2>2. i \in Invoices /\ UNCHANGED <<status, wpc, hand, importVars, twice>>
    BY <1>22 DEF RecoverSend, bookVars, TypeOK
  <2>3. \A q \in Procs, j \in Invoices :
          /\ Reads(q, j)' <=> Reads(q, j)
          /\ Holds(q, j)' <=> Holds(q, j) \/ (q = "serve" /\ j = i)
    BY <2>1, <2>2, RecoverSendHolds DEF Reads
  <2>4. \A j \in Invoices \ twice : j # i => HeldWell(j)'
    BY <2>2, <2>3, HeldKept
  <2>5. ASSUME i \notin twice PROVE HeldWell(i)'
    <3>1. status[i] = "pending" /\ \A p \in Procs : ~Holds(p, i) /\ ~Reads(p, i)
      BY <2>5 DEF TodoWaits, Holds, Reads
    <3>. QED
      BY <2>2, <2>3, <3>1 DEF HeldWell
  <2>. QED
    BY <2>2, <2>4, <2>5
<1>23. CASE RecoverFails
  <2>1. UNCHANGED <<status, wpc, hand>> /\ twice \subseteq twice'
    BY <1>23 DEF RecoverFails, bookVars, workerVars, historyVars
  <2>2. \A p \in Procs, j \in Invoices : Reads(p, j)' <=> Reads(p, j)
    BY <2>1 DEF Reads
  <2>3. \A p \in Procs, j \in Invoices : Holds(p, j)' <=> Holds(p, j)
    BY <1>23, QuietHolds
  <2>. QED
    BY <2>1, <2>2, <2>3, HeldKept
<1>. QED
  BY NextSteps, <1>1, <1>2, <1>3, <1>4, <1>5, <1>6, <1>7, <1>8, <1>9, <1>10,
     <1>11, <1>12, <1>13, <1>14, <1>15, <1>16, <1>17, <1>18, <1>19, <1>20,
     <1>21, <1>22, <1>23

-------------------------------------------------------------------------------
(* Answers, lost work and originals                                        *)

\* AnswersStand for one invoice.
AnswerStands(i) ==
  /\ answer[i] = "failed" => status[i] = "failed"
  /\ answer[i] = "duplicate" => status[i] = "duplicate"
  /\ answer[i] = "ok" => status[i] \in {"processed", "ready_for_export", "exported"}

LEMMA AnswersParts == /\ AnswersStand <=> \A i \in Invoices \ twice : AnswerStands(i)
                      /\ AnswersStand' <=> \A i \in Invoices \ twice' : AnswerStands(i)'
BY DEF AnswersStand, AnswerStands

LEMMA AnswerKept ==
  ASSUME NEW i \in Invoices, AnswerStands(i), answer'[i] = answer[i],
         \/ status'[i] = status[i]
         \/ status[i] \in {"absent", "pending", "processing"}
  PROVE  AnswerStands(i)'
BY DEF AnswerStands

\* An answer is about an outcome, and only a reprocess goes behind it.
LEMMA AnswersStep ==
  ASSUME TypeOK, HeldOnce, 
         \A j \in Invoices \ twice : AnswerStands(j), [Next]_vars
  PROVE  \A j \in Invoices \ twice' : AnswerStands(j)'
<1>1. ASSUME NEW c \in Importers, NEW f \in Files, Lookup(c, f)
      PROVE  \A j \in Invoices \ twice' : AnswerStands(j)'
  <2>1. UNCHANGED <<status, answer, twice>>
    BY <1>1 DEF Lookup, bookVars, historyVars
  <2>. QED
    BY <2>1, AnswerKept
<1>2. ASSUME NEW c \in Importers, Insert(c)
      PROVE  \A j \in Invoices \ twice' : AnswerStands(j)'
  <2>1. PICK i \in Invoices : Inserted(c, i)
    BY <1>2, InsertEffect
  <2>2. UNCHANGED <<answer, twice>> /\ status[i] = "absent"
    BY <1>2, <2>1 DEF Insert, Inserted
  <2>3. \A j \in Invoices : j # i => status'[j] = status[j]
    BY <2>1 DEF Inserted, TypeOK
  <2>. QED
    BY <2>2, <2>3, AnswerKept
<1>3. ASSUME NEW c \in Importers, Enqueue(c)
      PROVE  \A j \in Invoices \ twice' : AnswerStands(j)'
  <2>1. UNCHANGED <<status, answer, twice>>
    BY <1>3 DEF Enqueue, bookVars, historyVars
  <2>. QED
    BY <2>1, AnswerKept
<1>4. ASSUME NEW c \in Importers, ImportEnds(c)
      PROVE  \A j \in Invoices \ twice' : AnswerStands(j)'
  <2>1. UNCHANGED <<status, answer, twice>>
    BY <1>4 DEF ImportEnds, bookVars, historyVars
  <2>. QED
    BY <2>1, AnswerKept
<1>5. CASE Poll
  <2>1. Imports /\ iinv["mcp"] \in Invoices
    BY <1>5, PollEffect, Homes DEF TypeOK, Imports
  <2>2. UNCHANGED <<status, twice>>
    BY <1>5, <2>1, PollEffect DEF bookVars, historyVars
  <2>3. CASE UNCHANGED answer
    BY <2>2, <2>3, AnswerKept
  <2>4. CASE \E a \in {"ok", "failed", "duplicate"} :
               /\ answer' = [answer EXCEPT ![iinv["mcp"]] = a]
               /\ a = "ok" => status[iinv["mcp"]] \in {"processed", "ready_for_export"}
               /\ a \in {"failed", "duplicate"} => status[iinv["mcp"]] = a
    BY <2>1, <2>2, <2>4 DEF AnswerStands, TypeOK
  <2>. QED
    BY <1>5, <2>1, <2>3, <2>4, PollEffect
<1>6. CASE PollsEnd
  <2>1. Imports /\ iinv["mcp"] \in Invoices
    BY <1>6, PollEffect, Homes DEF TypeOK, Imports
  <2>2. UNCHANGED <<status, twice>>
    BY <1>6, <2>1, PollEffect DEF bookVars, historyVars
  <2>3. CASE UNCHANGED answer
    BY <2>2, <2>3, AnswerKept
  <2>4. CASE \E a \in {"ok", "failed", "duplicate"} :
               /\ answer' = [answer EXCEPT ![iinv["mcp"]] = a]
               /\ a = "ok" => status[iinv["mcp"]] \in {"processed", "ready_for_export"}
               /\ a \in {"failed", "duplicate"} => status[iinv["mcp"]] = a
    BY <2>1, <2>2, <2>4 DEF AnswerStands, TypeOK
  <2>. QED
    BY <1>6, <2>1, <2>3, <2>4, PollEffect
<1>7. ASSUME NEW p \in Procs, WorkerTake(p)
      PROVE  \A j \in Invoices \ twice' : AnswerStands(j)'
  <2>1. UNCHANGED <<status, answer, twice>>
    BY <1>7 DEF WorkerTake, bookVars, historyVars
  <2>. QED
    BY <2>1, AnswerKept
<1>8. ASSUME NEW p \in Procs, WorkerClaim(p)
      PROVE  \A j \in Invoices \ twice' : AnswerStands(j)'
  <2>1. /\ UNCHANGED <<answer, twice>> /\ hand[p] \in Invoices
        /\ \A j \in Invoices : j # hand[p] => status'[j] = status[j]
    BY <1>8, McpAssumption DEF WorkerClaim, SetStatus, TypeOK, historyVars
  <2>2. \A j \in Invoices \ twice : j = hand[p] => status[j] \in {"pending", "processing"}
    BY Exclusive DEF Holds
  <2>. QED
    BY <2>1, <2>2, AnswerKept
<1>9. ASSUME NEW p \in Procs, WorkerFinish(p)
      PROVE  \A j \in Invoices \ twice' : AnswerStands(j)'
  <2>1. /\ UNCHANGED <<answer, twice>> /\ hand[p] \in Invoices
        /\ \A j \in Invoices : j # hand[p] => status'[j] = status[j]
    BY <1>9, McpAssumption DEF WorkerFinish, LayDown, SetStatus, TypeOK, historyVars
  <2>2. \A j \in Invoices \ twice : j = hand[p] => status[j] \in {"pending", "processing"}
    BY Exclusive DEF Holds
  <2>. QED
    BY <2>1, <2>2, AnswerKept
<1>10. ASSUME NEW p \in Procs, ProcessEnds(p)
       PROVE  \A j \in Invoices \ twice' : AnswerStands(j)'
  <2>1. UNCHANGED <<status, answer, twice>>
    BY <1>10 DEF ProcessEnds, bookVars, historyVars
  <2>. QED
    BY <2>1, AnswerKept
<1>11. CASE McpStarts
  <2>1. UNCHANGED <<status, answer, twice>>
    BY <1>11 DEF McpStarts, bookVars, historyVars
  <2>. QED
    BY <2>1, AnswerKept
<1>12. CASE ServeStarts
  <2>1. UNCHANGED <<status, answer>> /\ twice \subseteq twice'
    BY <1>12 DEF ServeStarts, bookVars, historyVars
  <2>. QED
    BY <2>1, AnswerKept
<1>13. ASSUME NEW i \in Invoices, ConfirmInvoice(i)
       PROVE  \A j \in Invoices \ twice' : AnswerStands(j)'
  <2>1. /\ UNCHANGED <<answer, twice>> /\ status[i] = "processed" /\ status'[i] = "ready_for_export"
        /\ \A j \in Invoices : j # i => status'[j] = status[j]
    BY <1>13 DEF ConfirmInvoice, SetStatus, historyVars, TypeOK
  <2>2. \A j \in Invoices \ twice : j # i => AnswerStands(j)'
    BY <2>1, AnswerKept
  <2>3. AnswerStands(i) => AnswerStands(i)'
    BY <2>1 DEF AnswerStands
  <2>. QED
    BY <2>1, <2>2, <2>3
<1>14. ASSUME NEW i \in Invoices, MarkExported(i)
       PROVE  \A j \in Invoices \ twice' : AnswerStands(j)'
  <2>1. /\ UNCHANGED <<answer, twice>> /\ status[i] = "ready_for_export" /\ status'[i] = "exported"
        /\ \A j \in Invoices : j # i => status'[j] = status[j]
    BY <1>14 DEF MarkExported, SetStatus, historyVars, TypeOK
  <2>2. \A j \in Invoices \ twice : j # i => AnswerStands(j)'
    BY <2>1, AnswerKept
  <2>3. AnswerStands(i) => AnswerStands(i)'
    BY <2>1 DEF AnswerStands
  <2>. QED
    BY <2>1, <2>2, <2>3
<1>15. ASSUME NEW x \in Uploads, NEW i \in Invoices, ScheduleReprocess(x, i)
       PROVE  \A j \in Invoices \ twice' : AnswerStands(j)'
  <2>1. /\ UNCHANGED twice /\ answer'[i] = "none"
        /\ \A j \in Invoices : j # i => status'[j] = status[j] /\ answer'[j] = answer[j]
    BY <1>15 DEF ScheduleReprocess, SetStatus, historyVars, TypeOK
  <2>2. \A j \in Invoices \ twice : j # i => AnswerStands(j)'
    BY <2>1, AnswerKept
  <2>3. AnswerStands(i)'
    BY <2>1 DEF AnswerStands
  <2>. QED
    BY <2>1, <2>2, <2>3
<1>16. CASE UNCHANGED vars
  BY <1>16, AnswerKept DEF vars, bookVars, workerVars, importVars, historyVars
<1>17. ASSUME NEW c \in Importers, NEW f \in Files, LookupFails(c, f)
       PROVE  \A j \in Invoices \ twice' : AnswerStands(j)'
  <2>1. UNCHANGED <<status, answer>> /\ twice \subseteq twice'
    BY <1>17 DEF LookupFails, bookVars, historyVars
  <2>. QED
    BY <2>1, AnswerKept
<1>18. ASSUME NEW p \in Procs, WorkerClaimFails(p)
       PROVE  \A j \in Invoices \ twice' : AnswerStands(j)'
  <2>1. UNCHANGED <<status, answer>> /\ twice \subseteq twice'
    BY <1>18 DEF WorkerClaimFails, LayDown, bookVars, historyVars
  <2>. QED
    BY <2>1, AnswerKept
<1>19. ASSUME NEW p \in Procs, WorkerMarkFails(p)
       PROVE  \A j \in Invoices \ twice' : AnswerStands(j)'
  <2>1. UNCHANGED <<status, answer>> /\ twice \subseteq twice'
    BY <1>19 DEF WorkerMarkFails, LayDown, bookVars, historyVars
  <2>. QED
    BY <2>1, AnswerKept
<1>20. CASE RecoverReset
  <2>1. /\ UNCHANGED answer /\ twice \subseteq twice'
        /\ \A j \in Invoices : status'[j] = status[j] \/ status[j] = "processing"
    BY <1>20 DEF RecoverReset
  <2>. QED
    BY <2>1, AnswerKept
<1>21. CASE RecoverSelect
  <2>1. UNCHANGED <<status, answer>> /\ twice \subseteq twice'
    BY <1>21 DEF RecoverSelect, bookVars, historyVars
  <2>. QED
    BY <2>1, AnswerKept
<1>22. CASE RecoverSend
  <2>1. UNCHANGED <<status, answer>> /\ twice \subseteq twice'
    BY <1>22 DEF RecoverSend, bookVars, historyVars
  <2>. QED
    BY <2>1, AnswerKept
<1>23. CASE RecoverFails
  <2>1. UNCHANGED <<status, answer>> /\ twice \subseteq twice'
    BY <1>23 DEF RecoverFails, bookVars, historyVars
  <2>. QED
    BY <2>1, AnswerKept
<1>. QED
  BY NextSteps, <1>1, <1>2, <1>3, <1>4, <1>5, <1>6, <1>7, <1>8, <1>9, <1>10,
     <1>11, <1>12, <1>13, <1>14, <1>15, <1>16, <1>17, <1>18, <1>19, <1>20,
     <1>21, <1>22, <1>23

\* What waits stays held, until its process ends.
LEMMA UnheldStep ==
  ASSUME TypeOK, DownHoldsNothing, UnheldWasDropped, [Next]_vars
  PROVE  UnheldWasDropped'
<1>1. ASSUME NEW c \in Importers, NEW f \in Files, Lookup(c, f)
      PROVE  UnheldWasDropped'
  <2>1. UNCHANGED <<status, up, dropped>>
    BY <1>1 DEF Lookup, bookVars, historyVars
  <2>2. \A p \in Procs, j \in Invoices : Holds(p, j) => Holds(p, j)'
    BY <1>1, QuietHolds
  <2>. QED
    BY <2>1, <2>2 DEF UnheldWasDropped, TypeOK
<1>2. ASSUME NEW c \in Importers, Insert(c)
      PROVE  UnheldWasDropped'
  <2>1. PICK i \in Invoices : Inserted(c, i)
    BY <1>2, InsertEffect
  <2>2. UNCHANGED <<up, dropped>> /\ Home(c) \in up
    BY <1>2, Homes DEF Insert
  <2>3. \A j \in Invoices : j # i => status'[j] = status[j]
    BY <2>1 DEF Inserted, TypeOK
  <2>4. status'[i] = "duplicate" \/ Holds(Home(c), i)'
    <3>1. iinv[c] = NoInvoice => Holds(Home(c), i)'
      BY <1>2, <2>1, InsertHolds, Homes
    <3>2. iinv[c] # NoInvoice => status'[i] = "duplicate"
      BY <2>1 DEF Inserted, TypeOK
    <3>. QED
      BY <3>1, <3>2
  <2>5. \A p \in Procs, j \in Invoices : Holds(p, j) => Holds(p, j)'
    BY <1>2, <2>1, InsertHolds
  <2>. QED
    BY <2>2, <2>3, <2>4, <2>5 DEF UnheldWasDropped, TypeOK
<1>3. ASSUME NEW c \in Importers, Enqueue(c)
      PROVE  UnheldWasDropped'
  <2>1. UNCHANGED <<status, up, dropped>>
    BY <1>3 DEF Enqueue, bookVars, historyVars
  <2>2. \A p \in Procs, j \in Invoices : Holds(p, j) => Holds(p, j)'
    BY <1>3, EnqueueHolds
  <2>. QED
    BY <2>1, <2>2 DEF UnheldWasDropped, TypeOK
<1>4. ASSUME NEW c \in Importers, ImportEnds(c)
      PROVE  UnheldWasDropped'
  <2>1. UNCHANGED <<status, up, dropped>>
    BY <1>4 DEF ImportEnds, bookVars, historyVars
  <2>2. \A p \in Procs, j \in Invoices : Holds(p, j) => Holds(p, j)'
    BY <1>4, QuietHolds
  <2>. QED
    BY <2>1, <2>2 DEF UnheldWasDropped, TypeOK
<1>5. CASE Poll
  <2>1. UNCHANGED <<status, up, dropped>>
    BY <1>5, PollEffect DEF Poll, bookVars, historyVars, TypeOK, Imports
  <2>2. \A p \in Procs, j \in Invoices : Holds(p, j) => Holds(p, j)'
    BY <1>5, QuietHolds
  <2>. QED
    BY <2>1, <2>2 DEF UnheldWasDropped, TypeOK
<1>6. CASE PollsEnd
  <2>1. UNCHANGED <<status, up, dropped>>
    BY <1>6, PollEffect DEF PollsEnd, bookVars, historyVars, TypeOK, Imports
  <2>2. \A p \in Procs, j \in Invoices : Holds(p, j) => Holds(p, j)'
    BY <1>6, QuietHolds
  <2>. QED
    BY <2>1, <2>2 DEF UnheldWasDropped, TypeOK
<1>7. ASSUME NEW p \in Procs, WorkerTake(p)
      PROVE  UnheldWasDropped'
  <2>1. UNCHANGED <<status, up, dropped>>
    BY <1>7 DEF WorkerTake, bookVars, historyVars
  <2>2. \A q \in Procs, j \in Invoices : Holds(q, j) => Holds(q, j)'
    BY <1>7, TakeHolds
  <2>. QED
    BY <2>1, <2>2 DEF UnheldWasDropped, TypeOK
<1>8. ASSUME NEW p \in Procs, WorkerClaim(p)
      PROVE  UnheldWasDropped'
  <2>1. /\ UNCHANGED <<up, dropped>> /\ p \in up
        /\ \A j \in Invoices : j # hand[p] => status'[j] = status[j]
    BY <1>8, Homes DEF WorkerClaim, SetStatus, historyVars, TypeOK
  <2>2. \A q \in Procs, j \in Invoices : /\ Holds(q, j) => Holds(q, j)'
                                         /\ j = hand[p] => Holds(p, j)
    BY <1>8, QuietHolds DEF Holds
  <2>. QED
    BY <2>1, <2>2 DEF UnheldWasDropped, TypeOK
<1>9. ASSUME NEW p \in Procs, WorkerFinish(p)
      PROVE  UnheldWasDropped'
  <2>1. /\ UNCHANGED <<up, dropped>> /\ hand[p] \in Invoices /\ LayDown(p) /\ wpc[p] # "idle"
        /\ \A j \in Invoices : j # hand[p] => status'[j] = status[j]
        /\ status'[hand[p]] \in {"processed", "duplicate", "failed"}
    BY <1>9, McpAssumption DEF WorkerFinish, LayDown, SetStatus, TypeOK
  <2>2. \A q \in Procs, j \in Invoices : j # hand[p] /\ Holds(q, j) => Holds(q, j)'
    BY <2>1, LayDownHolds
  <2>. QED
    BY <2>1, <2>2 DEF UnheldWasDropped, TypeOK
<1>10. ASSUME NEW p \in Procs, ProcessEnds(p)
       PROVE  UnheldWasDropped'
  <2>1. /\ UNCHANGED status /\ up' = up \ {p}
        /\ dropped' = dropped \cup {j \in Invoices : Holds(p, j)}
    BY <1>10 DEF ProcessEnds, bookVars
  <2>2. \A q \in Procs, j \in Invoices : q # p => (Holds(q, j)' <=> Holds(q, j))
    BY <1>10, EndHolds
  <2>. QED
    BY <2>1, <2>2 DEF UnheldWasDropped, TypeOK
<1>11. CASE McpStarts
  <2>1. UNCHANGED <<status, dropped>> /\ up \subseteq up'
    BY <1>11 DEF McpStarts, bookVars, historyVars
  <2>2. \A p \in Procs, j \in Invoices : Holds(p, j) => Holds(p, j)'
    BY <1>11, QuietHolds
  <2>. QED
    BY <2>1, <2>2 DEF UnheldWasDropped, TypeOK
<1>12. CASE ServeStarts
  <2>1. UNCHANGED <<status, dropped>> /\ up \subseteq up'
    BY <1>12 DEF ServeStarts, bookVars, historyVars
  <2>2. \A p \in Procs, j \in Invoices : Holds(p, j) => Holds(p, j)'
    BY <1>12, QuietHolds
  <2>. QED
    BY <2>1, <2>2 DEF UnheldWasDropped, TypeOK
<1>13. ASSUME NEW i \in Invoices, ConfirmInvoice(i)
       PROVE  UnheldWasDropped'
  <2>1. /\ UNCHANGED <<up, dropped>>
        /\ \A j \in Invoices : status'[j] \in {status[j], "ready_for_export"}
    BY <1>13 DEF ConfirmInvoice, SetStatus, historyVars, TypeOK
  <2>2. \A p \in Procs, j \in Invoices : Holds(p, j) => Holds(p, j)'
    BY <1>13, QuietHolds
  <2>. QED
    BY <2>1, <2>2 DEF UnheldWasDropped, TypeOK
<1>14. ASSUME NEW i \in Invoices, MarkExported(i)
       PROVE  UnheldWasDropped'
  <2>1. /\ UNCHANGED <<up, dropped>>
        /\ \A j \in Invoices : status'[j] \in {status[j], "exported"}
    BY <1>14 DEF MarkExported, SetStatus, historyVars, TypeOK
  <2>2. \A p \in Procs, j \in Invoices : Holds(p, j) => Holds(p, j)'
    BY <1>14, QuietHolds
  <2>. QED
    BY <2>1, <2>2 DEF UnheldWasDropped, TypeOK
<1>15. ASSUME NEW x \in Uploads, NEW i \in Invoices, ScheduleReprocess(x, i)
       PROVE  UnheldWasDropped'
  <2>1. /\ UNCHANGED <<up, dropped>> /\ "serve" \in up
        /\ \A j \in Invoices : j # i => status'[j] = status[j]
    BY <1>15, Homes DEF ScheduleReprocess, SetStatus, historyVars, TypeOK
  <2>2. \A p \in Procs, j \in Invoices : /\ Holds(p, j) => Holds(p, j)'
                                         /\ Holds("serve", i)'
    BY <1>15, ReprocessHolds, Homes
  <2>. QED
    BY <2>1, <2>2 DEF UnheldWasDropped, TypeOK
<1>16. CASE UNCHANGED vars
  BY <1>16, QuietHolds DEF vars, bookVars, workerVars, importVars, historyVars,
     UnheldWasDropped, TypeOK
<1>17. ASSUME NEW c \in Importers, NEW f \in Files, LookupFails(c, f)
       PROVE  UnheldWasDropped'
  <2>1. UNCHANGED <<status, dropped>> /\ up \subseteq up'
    BY <1>17 DEF LookupFails, bookVars, historyVars
  <2>2. \A p \in Procs, j \in Invoices : Holds(p, j) => Holds(p, j)'
    BY <1>17, QuietHolds
  <2>. QED
    BY <2>1, <2>2 DEF UnheldWasDropped, TypeOK
<1>18. ASSUME NEW p \in Procs, WorkerClaimFails(p)
       PROVE  UnheldWasDropped'
  <2>1. /\ UNCHANGED <<status, up>> /\ dropped' = dropped \cup {hand[p]}
        /\ LayDown(p) /\ wpc[p] # "idle"
    BY <1>18 DEF WorkerClaimFails, LayDown
  <2>2. \A q \in Procs, j \in Invoices : j # hand[p] /\ Holds(q, j) => Holds(q, j)'
    BY <2>1, LayDownHolds
  <2>. QED
    BY <2>1, <2>2 DEF UnheldWasDropped, TypeOK
<1>19. ASSUME NEW p \in Procs, WorkerMarkFails(p)
       PROVE  UnheldWasDropped'
  <2>1. /\ UNCHANGED <<status, up>> /\ dropped' = dropped \cup {hand[p]}
        /\ LayDown(p) /\ wpc[p] # "idle"
    BY <1>19 DEF WorkerMarkFails, LayDown
  <2>2. \A q \in Procs, j \in Invoices : j # hand[p] /\ Holds(q, j) => Holds(q, j)'
    BY <2>1, LayDownHolds
  <2>. QED
    BY <2>1, <2>2 DEF UnheldWasDropped, TypeOK
<1>20. CASE RecoverReset
  <2>1. /\ UNCHANGED <<up, dropped>>
        /\ \A j \in Invoices : status'[j] = status[j] \/ status[j] = "processing"
    BY <1>20 DEF RecoverReset
  <2>2. \A p \in Procs, j \in Invoices : Holds(p, j) => Holds(p, j)'
    BY <1>20, QuietHolds
  <2>. QED
    BY <2>1, <2>2 DEF UnheldWasDropped, TypeOK
<1>21. CASE RecoverSelect
  <2>1. UNCHANGED <<status, dropped>> /\ up \subseteq up'
    BY <1>21 DEF RecoverSelect, bookVars, historyVars
  <2>2. \A p \in Procs, j \in Invoices : Holds(p, j) => Holds(p, j)'
    BY <1>21, QuietHolds
  <2>. QED
    BY <2>1, <2>2 DEF UnheldWasDropped, TypeOK
<1>22. CASE RecoverSend
  <2>1. PICK i \in todo : /\ queue' = [queue EXCEPT !["serve"] = Append(@, i)]
                           /\ dropped' = dropped \ {i}
    BY <1>22 DEF RecoverSend
  <2>2. /\ i \in Invoices /\ "serve" \in up
        /\ UNCHANGED <<status, up, hand, importVars>>
    BY <1>22 DEF RecoverSend, bookVars, TypeOK
  <2>3. \A p \in Procs, j \in Invoices : /\ Holds(p, j) => Holds(p, j)'
                                         /\ Holds("serve", i)'
    BY <2>1, <2>2, RecoverSendHolds, Homes
  <2>. QED
    BY <2>1, <2>2, <2>3 DEF UnheldWasDropped, TypeOK
<1>23. CASE RecoverFails
  <2>1. UNCHANGED <<status, dropped>> /\ up \subseteq up'
    BY <1>23 DEF RecoverFails, bookVars, historyVars
  <2>2. \A p \in Procs, j \in Invoices : Holds(p, j) => Holds(p, j)'
    BY <1>23, QuietHolds
  <2>. QED
    BY <2>1, <2>2 DEF UnheldWasDropped, TypeOK
<1>. QED
  BY NextSteps, <1>1, <1>2, <1>3, <1>4, <1>5, <1>6, <1>7, <1>8, <1>9, <1>10,
     <1>11, <1>12, <1>13, <1>14, <1>15, <1>16, <1>17, <1>18, <1>19, <1>20,
     <1>21, <1>22, <1>23

\* A copy: a duplicate that nobody will look at again.
Laid(i) == status[i] = "duplicate" /\ \A p \in Procs : ~Holds(p, i)
Copy(i) == Laid(i) /\ i \notin todo

LEMMA TodoGrows ==
  ASSUME [Next]_vars
  PROVE  todo' \subseteq todo \cup {i \in Invoices : status[i] = "pending"}
BY NextSteps DEF Lookup, LookupFails, Insert, Enqueue, ImportEnds, Poll, PollsEnd,
   WorkerTake, WorkerClaim, WorkerClaimFails, WorkerFinish, WorkerMarkFails, LayDown,
   ProcessEnds, McpStarts, ServeStarts, RecoverReset, RecoverSelect, RecoverSend,
   RecoverFails, ConfirmInvoice, MarkExported, ScheduleReprocess, bootVars, vars

Originals ==
  \A i, j \in Invoices :
    (file[i] = file[j] /\ file[i] # NoFile /\ file[i] \notin raced /\ i # j)
      => Copy(i) \/ Copy(j)

\* An import that found nothing is right, but for races.
Unseen ==
  \A c \in Importers : (/\ ipc[c] = "insert" /\ iinv[c] = NoInvoice
                        /\ ifile[c] \notin raced) => \A j \in Invoices : file[j] # ifile[c]

\* A copy stays one.
LEMMA CopiesStay ==
  ASSUME TypeOK, DownHoldsNothing, [Next]_vars
  PROVE  \A x \in Invoices : Copy(x) => Copy(x)'
<1>1. ASSUME NEW c \in Importers, NEW f \in Files, Lookup(c, f)
      PROVE  \A x \in Invoices : Copy(x) => Laid(x)'
  <2>1. UNCHANGED status
    BY <1>1 DEF Lookup, bookVars
  <2>. QED
    BY <1>1, <2>1, QuietHolds DEF Copy, Laid
<1>2. ASSUME NEW c \in Importers, Insert(c)
      PROVE  \A x \in Invoices : Copy(x) => Laid(x)'
  <2>1. PICK i \in Invoices : Inserted(c, i)
    BY <1>2, InsertEffect
  <2>2. \A j \in Invoices : status[j] = "duplicate" => status'[j] = status[j] /\ j # i
    BY <2>1 DEF Inserted, TypeOK
  <2>. QED
    BY <1>2, <2>1, <2>2, InsertHolds DEF Copy, Laid
<1>3. ASSUME NEW c \in Importers, Enqueue(c)
      PROVE  \A x \in Invoices : Copy(x) => Laid(x)'
  <2>1. UNCHANGED status
    BY <1>3 DEF Enqueue, bookVars
  <2>. QED
    BY <1>3, <2>1, EnqueueHolds DEF Copy, Laid
<1>4. ASSUME NEW c \in Importers, ImportEnds(c)
      PROVE  \A x \in Invoices : Copy(x) => Laid(x)'
  <2>1. UNCHANGED status
    BY <1>4 DEF ImportEnds, bookVars
  <2>. QED
    BY <1>4, <2>1, QuietHolds DEF Copy, Laid
<1>5. ASSUME Poll PROVE \A x \in Invoices : Copy(x) => Laid(x)'
  <2>1. UNCHANGED status
    BY <1>5, PollEffect DEF Poll, bookVars, TypeOK, Imports
  <2>. QED
    BY <1>5, <2>1, QuietHolds DEF Copy, Laid
<1>6. ASSUME PollsEnd PROVE \A x \in Invoices : Copy(x) => Laid(x)'
  <2>1. UNCHANGED status
    BY <1>6, PollEffect DEF PollsEnd, bookVars, TypeOK, Imports
  <2>. QED
    BY <1>6, <2>1, QuietHolds DEF Copy, Laid
<1>7. ASSUME NEW p \in Procs, WorkerTake(p)
      PROVE  \A x \in Invoices : Copy(x) => Laid(x)'
  <2>1. UNCHANGED status
    BY <1>7 DEF WorkerTake, bookVars
  <2>. QED
    BY <1>7, <2>1, TakeHolds DEF Copy, Laid
<1>8. ASSUME NEW p \in Procs, WorkerClaim(p)
      PROVE  \A x \in Invoices : Copy(x) => Laid(x)'
  <2>1. \A j \in Invoices : j # hand[p] => status'[j] = status[j]
    BY <1>8 DEF WorkerClaim, SetStatus, TypeOK
  <2>2. \A j \in Invoices : Copy(j) => j # hand[p]
    BY DEF Copy, Laid, Holds
  <2>. QED
    BY <1>8, <2>1, <2>2, QuietHolds DEF Copy, Laid
<1>9. ASSUME NEW p \in Procs, WorkerFinish(p)
      PROVE  \A x \in Invoices : Copy(x) => Laid(x)'
  <2>1. /\ LayDown(p) /\ wpc[p] # "idle"
        /\ \A j \in Invoices : j # hand[p] => status'[j] = status[j]
    BY <1>9 DEF WorkerFinish, SetStatus, TypeOK
  <2>2. \A j \in Invoices : Copy(j) => j # hand[p]
    BY DEF Copy, Laid, Holds
  <2>. QED
    BY <2>1, <2>2, LayDownHolds DEF Copy, Laid
<1>10. ASSUME NEW p \in Procs, ProcessEnds(p)
       PROVE  \A x \in Invoices : Copy(x) => Laid(x)'
  <2>1. UNCHANGED status
    BY <1>10 DEF ProcessEnds, bookVars
  <2>. QED
    BY <1>10, <2>1, EndHolds DEF Copy, Laid
<1>11. ASSUME McpStarts PROVE \A x \in Invoices : Copy(x) => Laid(x)'
  <2>1. UNCHANGED status
    BY <1>11 DEF McpStarts, bookVars
  <2>. QED
    BY <1>11, <2>1, QuietHolds DEF Copy, Laid
<1>12. ASSUME ServeStarts PROVE \A x \in Invoices : Copy(x) => Laid(x)'
  <2>1. UNCHANGED status
    BY <1>12 DEF ServeStarts, bookVars
  <2>. QED
    BY <1>12, <2>1, QuietHolds DEF Copy, Laid
<1>13. ASSUME NEW i \in Invoices, ConfirmInvoice(i)
       PROVE  \A x \in Invoices : Copy(x) => Laid(x)'
  <2>1. \A j \in Invoices : status[j] = "duplicate" => status'[j] = status[j] /\ j # i
    BY <1>13 DEF ConfirmInvoice, SetStatus, TypeOK
  <2>. QED
    BY <1>13, <2>1, QuietHolds DEF Copy, Laid
<1>14. ASSUME NEW i \in Invoices, MarkExported(i)
       PROVE  \A x \in Invoices : Copy(x) => Laid(x)'
  <2>1. \A j \in Invoices : status[j] = "duplicate" => status'[j] = status[j] /\ j # i
    BY <1>14 DEF MarkExported, SetStatus, TypeOK
  <2>. QED
    BY <1>14, <2>1, QuietHolds DEF Copy, Laid
<1>15. ASSUME NEW r \in Uploads, NEW i \in Invoices, ScheduleReprocess(r, i)
       PROVE  \A x \in Invoices : Copy(x) => Laid(x)'
  <2>1. \A j \in Invoices : status[j] = "duplicate" => status'[j] = status[j] /\ j # i
    BY <1>15 DEF ScheduleReprocess, SetStatus, TypeOK
  <2>. QED
    BY <1>15, <2>1, ReprocessHolds DEF Copy, Laid
<1>16. ASSUME UNCHANGED vars PROVE \A x \in Invoices : Copy(x) => Laid(x)'
  BY <1>16, QuietHolds DEF vars, bookVars, workerVars, importVars, historyVars,
     Copy, Laid
<1>17. ASSUME NEW c \in Importers, NEW f \in Files, LookupFails(c, f)
       PROVE  \A x \in Invoices : Copy(x) => Laid(x)'
  <2>1. UNCHANGED status
    BY <1>17 DEF LookupFails, bookVars
  <2>. QED
    BY <1>17, <2>1, QuietHolds DEF Copy, Laid
<1>18. ASSUME NEW p \in Procs, WorkerClaimFails(p)
       PROVE  \A x \in Invoices : Copy(x) => Laid(x)'
  <2>1. UNCHANGED status /\ LayDown(p) /\ wpc[p] # "idle"
    BY <1>18 DEF WorkerClaimFails
  <2>. QED
    BY <2>1, LayDownHolds DEF Copy, Laid
<1>19. ASSUME NEW p \in Procs, WorkerMarkFails(p)
       PROVE  \A x \in Invoices : Copy(x) => Laid(x)'
  <2>1. UNCHANGED status /\ LayDown(p) /\ wpc[p] # "idle"
    BY <1>19 DEF WorkerMarkFails
  <2>. QED
    BY <2>1, LayDownHolds DEF Copy, Laid
<1>20. ASSUME RecoverReset PROVE \A x \in Invoices : Copy(x) => Laid(x)'
  <2>1. \A j \in Invoices : status[j] = "duplicate" => status'[j] = status[j]
    BY <1>20 DEF RecoverReset
  <2>. QED
    BY <1>20, <2>1, QuietHolds DEF Copy, Laid
<1>21. ASSUME RecoverSelect PROVE \A x \in Invoices : Copy(x) => Laid(x)'
  <2>1. UNCHANGED status
    BY <1>21 DEF RecoverSelect, bookVars
  <2>. QED
    BY <1>21, <2>1, QuietHolds DEF Copy, Laid
<1>22. ASSUME RecoverSend PROVE \A x \in Invoices : Copy(x) => Laid(x)'
  <2>1. PICK i \in todo : queue' = [queue EXCEPT !["serve"] = Append(@, i)]
    BY <1>22 DEF RecoverSend
  <2>2. i \in Invoices /\ UNCHANGED <<status, hand, importVars>>
    BY <1>22 DEF RecoverSend, bookVars, TypeOK
  <2>. QED
    BY <2>1, <2>2, RecoverSendHolds DEF Copy, Laid
<1>23. ASSUME RecoverFails PROVE \A x \in Invoices : Copy(x) => Laid(x)'
  <2>1. UNCHANGED status
    BY <1>23 DEF RecoverFails, bookVars
  <2>. QED
    BY <1>23, <2>1, QuietHolds DEF Copy, Laid
<1>24. \A x \in Invoices : Copy(x) => Laid(x)'
  BY NextSteps, <1>1, <1>2, <1>3, <1>4, <1>5, <1>6, <1>7, <1>8, <1>9, <1>10,
     <1>11, <1>12, <1>13, <1>14, <1>15, <1>16, <1>17, <1>18, <1>19, <1>20,
     <1>21, <1>22, <1>23
<1>. QED
  BY <1>24, TodoGrows DEF Copy, Laid

\* A second row of a file is a copy, but for races.
LEMMA OriginalsStep ==
  ASSUME TypeOK, DownHoldsNothing, TodoWaits, AbsentIsBlank, LooksFor, Unseen,
         Originals, [Next]_vars
  PROVE  Originals'
<1>1. ASSUME NEW c \in Importers, NEW f \in Files, Lookup(c, f)
      PROVE  Originals'
  <2>1. UNCHANGED <<file, raced>>
    BY <1>1 DEF Lookup, bookVars, historyVars
  <2>. QED
    BY <2>1, CopiesStay DEF Originals
<1>2. ASSUME NEW c \in Importers, Insert(c)
      PROVE  Originals'
  <2>1. PICK i \in Invoices : Inserted(c, i)
    BY <1>2, InsertEffect
  <2>2. /\ raced \subseteq raced'
        /\ file'[i] = ifile[c] /\ \A j \in Invoices : j # i => file'[j] = file[j]
    BY <1>2, <2>1 DEF Insert, Inserted, TypeOK
  <2>3. \A x \in Invoices : Copy(x) => Copy(x)'
    BY CopiesStay
  <2>4. CASE iinv[c] = NoInvoice
    <3>1. ifile[c] \notin raced => \A j \in Invoices : file[j] # ifile[c]
      BY <2>1, <2>4 DEF Unseen, Inserted
    <3>. QED
      BY <2>2, <2>3, <3>1 DEF Originals
  <2>5. CASE iinv[c] # NoInvoice
    <3>1. status'[i] = "duplicate"
      BY <2>1, <2>5 DEF Inserted, TypeOK
    <3>2. \A p \in Procs : ~Holds(p, i)'
      BY <1>2, <2>1, <2>5, InsertHolds DEF AbsentIsBlank, Inserted
    <3>3. Copy(i)'
      BY <1>2, <2>1, <3>1, <3>2 DEF Copy, Laid, Insert, Inserted, bootVars, TodoWaits
    <3>. QED
      BY <2>2, <2>3, <3>3 DEF Originals
  <2>. QED
    BY <2>4, <2>5
<1>3. ASSUME NEW c \in Importers, Enqueue(c)
      PROVE  Originals'
  <2>1. UNCHANGED <<file, raced>>
    BY <1>3 DEF Enqueue, bookVars, historyVars
  <2>. QED
    BY <2>1, CopiesStay DEF Originals
<1>4. ASSUME NEW c \in Importers, ImportEnds(c)
      PROVE  Originals'
  <2>1. UNCHANGED <<file, raced>>
    BY <1>4 DEF ImportEnds, bookVars, historyVars
  <2>. QED
    BY <2>1, CopiesStay DEF Originals
<1>5. CASE Poll
  <2>1. UNCHANGED <<file, raced>>
    BY <1>5, PollEffect DEF Poll, bookVars, historyVars, TypeOK, Imports
  <2>. QED
    BY <2>1, CopiesStay DEF Originals
<1>6. CASE PollsEnd
  <2>1. UNCHANGED <<file, raced>>
    BY <1>6, PollEffect DEF PollsEnd, bookVars, historyVars, TypeOK, Imports
  <2>. QED
    BY <2>1, CopiesStay DEF Originals
<1>7. ASSUME NEW p \in Procs, WorkerTake(p)
      PROVE  Originals'
  <2>1. UNCHANGED <<file, raced>>
    BY <1>7 DEF WorkerTake, bookVars, historyVars
  <2>. QED
    BY <2>1, CopiesStay DEF Originals
<1>8. ASSUME NEW p \in Procs, WorkerClaim(p)
      PROVE  Originals'
  <2>1. UNCHANGED <<file, raced>>
    BY <1>8 DEF WorkerClaim, bookVars, historyVars
  <2>. QED
    BY <2>1, CopiesStay DEF Originals
<1>9. ASSUME NEW p \in Procs, WorkerFinish(p)
      PROVE  Originals'
  <2>1. UNCHANGED <<file, raced>>
    BY <1>9 DEF WorkerFinish, LayDown, bookVars, historyVars
  <2>. QED
    BY <2>1, CopiesStay DEF Originals
<1>10. ASSUME NEW p \in Procs, ProcessEnds(p)
       PROVE  Originals'
  <2>1. UNCHANGED <<file, raced>>
    BY <1>10 DEF ProcessEnds, bookVars, historyVars
  <2>. QED
    BY <2>1, CopiesStay DEF Originals
<1>11. CASE McpStarts
  <2>1. UNCHANGED <<file, raced>>
    BY <1>11 DEF McpStarts, bookVars, historyVars
  <2>. QED
    BY <2>1, CopiesStay DEF Originals
<1>12. CASE ServeStarts
  <2>1. UNCHANGED file /\ raced \subseteq raced'
    BY <1>12 DEF ServeStarts, bookVars, historyVars
  <2>. QED
    BY <2>1, CopiesStay DEF Originals
<1>13. ASSUME NEW i \in Invoices, ConfirmInvoice(i)
       PROVE  Originals'
  <2>1. UNCHANGED <<file, raced>>
    BY <1>13 DEF ConfirmInvoice, bookVars, historyVars
  <2>. QED
    BY <2>1, CopiesStay DEF Originals
<1>14. ASSUME NEW i \in Invoices, MarkExported(i)
       PROVE  Originals'
  <2>1. UNCHANGED <<file, raced>>
    BY <1>14 DEF MarkExported, bookVars, historyVars
  <2>. QED
    BY <2>1, CopiesStay DEF Originals
<1>15. ASSUME NEW x \in Uploads, NEW i \in Invoices, ScheduleReprocess(x, i)
       PROVE  Originals'
  <2>1. UNCHANGED file /\ raced \subseteq raced'
    BY <1>15 DEF ScheduleReprocess, bookVars, historyVars
  <2>. QED
    BY <2>1, CopiesStay DEF Originals
<1>16. CASE UNCHANGED vars
  BY <1>16, CopiesStay DEF vars, bookVars, workerVars, importVars, historyVars,
     Originals
<1>17. ASSUME NEW c \in Importers, NEW f \in Files, LookupFails(c, f)
       PROVE  Originals'
  <2>1. UNCHANGED file /\ raced \subseteq raced'
    BY <1>17 DEF LookupFails, bookVars, historyVars
  <2>. QED
    BY <2>1, CopiesStay DEF Originals
<1>18. ASSUME NEW p \in Procs, WorkerClaimFails(p)
       PROVE  Originals'
  <2>1. UNCHANGED file /\ raced \subseteq raced'
    BY <1>18 DEF WorkerClaimFails, LayDown, bookVars, historyVars
  <2>. QED
    BY <2>1, CopiesStay DEF Originals
<1>19. ASSUME NEW p \in Procs, WorkerMarkFails(p)
       PROVE  Originals'
  <2>1. UNCHANGED file /\ raced \subseteq raced'
    BY <1>19 DEF WorkerMarkFails, LayDown, bookVars, historyVars
  <2>. QED
    BY <2>1, CopiesStay DEF Originals
<1>20. CASE RecoverReset
  <2>1. UNCHANGED file /\ raced \subseteq raced'
    BY <1>20 DEF RecoverReset, bookVars, historyVars
  <2>. QED
    BY <2>1, CopiesStay DEF Originals
<1>21. CASE RecoverSelect
  <2>1. UNCHANGED file /\ raced \subseteq raced'
    BY <1>21 DEF RecoverSelect, bookVars, historyVars
  <2>. QED
    BY <2>1, CopiesStay DEF Originals
<1>22. CASE RecoverSend
  <2>1. UNCHANGED file /\ raced \subseteq raced'
    BY <1>22 DEF RecoverSend, bookVars, historyVars
  <2>. QED
    BY <2>1, CopiesStay DEF Originals
<1>23. CASE RecoverFails
  <2>1. UNCHANGED file /\ raced \subseteq raced'
    BY <1>23 DEF RecoverFails, bookVars, historyVars
  <2>. QED
    BY <2>1, CopiesStay DEF Originals
<1>. QED
  BY NextSteps, <1>1, <1>2, <1>3, <1>4, <1>5, <1>6, <1>7, <1>8, <1>9, <1>10,
     <1>11, <1>12, <1>13, <1>14, <1>15, <1>16, <1>17, <1>18, <1>19, <1>20,
     <1>21, <1>22, <1>23

\* An INSERT behind the back of a lookup is a race.
LEMMA UnseenStep ==
  ASSUME TypeOK, LooksFor, Unseen, [Next]_vars
  PROVE  Unseen'
<1>1. ASSUME NEW c \in Importers, NEW f \in Files, Lookup(c, f)
      PROVE  Unseen'
  <2>1. UNCHANGED <<file, raced>>
    BY <1>1 DEF Lookup, bookVars, historyVars
  <2>2. PICK j \in Invoices \cup {NoInvoice} :
          Go(c, "insert", f, j) /\ (j = NoInvoice => \A i \in Invoices : file[i] # f)
    BY <1>1, McpAssumption DEF Lookup
  <2>3. /\ ifile'[c] = f /\ iinv'[c] = j
        /\ \A d \in Importers : d # c =>
             ipc'[d] = ipc[d] /\ ifile'[d] = ifile[d] /\ iinv'[d] = iinv[d]
    BY <2>2 DEF TypeOK, Go
  <2>. QED
    BY <2>1, <2>2, <2>3 DEF Unseen
<1>2. ASSUME NEW c \in Importers, Insert(c)
      PROVE  Unseen'
  <2>1. PICK i \in Invoices : Inserted(c, i)
    BY <1>2, InsertEffect
  <2>2. file'[i] = ifile[c] /\ \A j \in Invoices : j # i => file'[j] = file[j]
    BY <2>1 DEF Inserted, TypeOK
  <2>3. ASSUME NEW d \in Importers, ipc'[d] = "insert"
        PROVE  ipc[d] = "insert" /\ d # c /\ ifile'[d] = ifile[d] /\ iinv'[d] = iinv[d]
    <3>1. d # c
      BY <2>1, <2>3 DEF Inserted, TypeOK
    <3>. QED
      BY <2>1, <2>3, <3>1 DEF Inserted, TypeOK
  <2>4. ASSUME NEW d \in Importers, ipc'[d] = "insert", iinv'[d] = NoInvoice,
               ifile'[d] \notin raced'
        PROVE  ifile[d] \notin raced /\ ifile[d] # ifile[c]
    <3>1. ipc[d] = "insert" /\ d # c /\ ifile'[d] = ifile[d] /\ iinv[d] = NoInvoice
      BY <2>3, <2>4
    <3>2. raced \subseteq raced' /\ (iinv[c] = NoInvoice /\ ifile[d] = ifile[c]
                                       => ifile[c] \in raced')
      BY <1>2, <3>1 DEF Insert
    <3>3. iinv[c] # NoInvoice => iinv[c] \in Invoices /\ file[iinv[c]] = ifile[c]
      BY <2>1 DEF Inserted, LooksFor, TypeOK
    <3>4. ifile[d] \notin raced
      BY <2>4, <3>1, <3>2
    <3>5. \A j \in Invoices : file[j] # ifile[d]
      BY <3>1, <3>4 DEF Unseen
    <3>. QED
      BY <2>4, <3>1, <3>2, <3>3, <3>4, <3>5
  <2>. QED
    BY <2>2, <2>3, <2>4 DEF Unseen
<1>3. ASSUME NEW c \in Importers, Enqueue(c)
      PROVE  Unseen'
  <2>1. UNCHANGED <<file, raced>>
    BY <1>3 DEF Enqueue, bookVars, historyVars
  <2>. QED
    BY <1>3, <2>1, EnqueueEffect, Moves DEF Moved, Unseen, TypeOK, Imports
<1>4. ASSUME NEW c \in Importers, ImportEnds(c)
      PROVE  Unseen'
  BY <1>4 DEF ImportEnds, Return, Go, bookVars, workerVars, historyVars, Unseen,
     TypeOK
<1>5. CASE Poll
  <2>1. UNCHANGED <<file, raced>>
    BY <1>5, PollEffect DEF bookVars, historyVars, TypeOK, Imports
  <2>2. Imports /\ ipc'["mcp"] # "insert" /\ Moved("mcp")
    BY <1>5, PollEffect, Moves, Homes DEF TypeOK, Imports
  <2>. QED
    BY <2>1, <2>2 DEF Moved, Unseen
<1>6. CASE PollsEnd
  <2>1. UNCHANGED <<file, raced>>
    BY <1>6, PollEffect DEF bookVars, historyVars, TypeOK, Imports
  <2>2. Imports /\ ipc'["mcp"] # "insert" /\ Moved("mcp")
    BY <1>6, PollEffect, Moves, Homes DEF TypeOK, Imports
  <2>. QED
    BY <2>1, <2>2 DEF Moved, Unseen
<1>7. ASSUME NEW p \in Procs, WorkerTake(p)
      PROVE  Unseen'
  BY <1>7 DEF WorkerTake, bookVars, importVars, historyVars, Unseen
<1>8. ASSUME NEW p \in Procs, WorkerClaim(p)
      PROVE  Unseen'
  BY <1>8 DEF WorkerClaim, SetStatus, importVars, historyVars, Unseen
<1>9. ASSUME NEW p \in Procs, WorkerFinish(p)
      PROVE  Unseen'
  BY <1>9 DEF WorkerFinish, LayDown, SetStatus, importVars, historyVars, Unseen
<1>10. ASSUME NEW p \in Procs, ProcessEnds(p)
       PROVE  Unseen'
  BY <1>10 DEF ProcessEnds, bookVars, Unseen, TypeOK
<1>11. CASE McpStarts
  BY <1>11 DEF McpStarts, bookVars, workerVars, importVars, historyVars, Unseen
<1>12. CASE ServeStarts
  BY <1>12 DEF ServeStarts, bookVars, importVars, historyVars, Unseen
<1>13. ASSUME NEW i \in Invoices, ConfirmInvoice(i)
       PROVE  Unseen'
  BY <1>13 DEF ConfirmInvoice, SetStatus, workerVars, importVars, historyVars,
     Unseen
<1>14. ASSUME NEW i \in Invoices, MarkExported(i)
       PROVE  Unseen'
  BY <1>14 DEF MarkExported, SetStatus, workerVars, importVars, historyVars,
     Unseen
<1>15. ASSUME NEW x \in Uploads, NEW i \in Invoices, ScheduleReprocess(x, i)
       PROVE  Unseen'
  <2>1. Moved(x) /\ UNCHANGED <<file, raced>> /\ ipc'[x] = "enqueue"
    BY <1>15, Moves, Homes DEF ScheduleReprocess, Go, historyVars, TypeOK, Imports
  <2>. QED
    BY <2>1 DEF Unseen, Moved
<1>16. CASE UNCHANGED vars
  BY <1>16 DEF vars, bookVars, workerVars, importVars, historyVars, Unseen
<1>17. ASSUME NEW c \in Importers, NEW f \in Files, LookupFails(c, f)
       PROVE  Unseen'
  <2>1. UNCHANGED file /\ raced' = raced \cup {f} /\ Go(c, "insert", f, NoInvoice)
    BY <1>17 DEF LookupFails, bookVars
  <2>2. /\ ifile'[c] = f
        /\ \A d \in Importers : d # c =>
             ipc'[d] = ipc[d] /\ ifile'[d] = ifile[d] /\ iinv'[d] = iinv[d]
    BY <2>1 DEF TypeOK, Go
  <2>. QED
    BY <2>1, <2>2 DEF Unseen
<1>18. ASSUME NEW p \in Procs, WorkerClaimFails(p)
       PROVE  Unseen'
  BY <1>18 DEF WorkerClaimFails, LayDown, SetStatus, bookVars, workerVars, importVars, historyVars,
     Unseen
<1>19. ASSUME NEW p \in Procs, WorkerMarkFails(p)
       PROVE  Unseen'
  BY <1>19 DEF WorkerMarkFails, LayDown, SetStatus, bookVars, workerVars, importVars, historyVars,
     Unseen
<1>20. CASE RecoverReset
  BY <1>20 DEF RecoverReset, LayDown, SetStatus, bookVars, workerVars, importVars, historyVars,
     Unseen
<1>21. CASE RecoverSelect
  BY <1>21 DEF RecoverSelect, LayDown, SetStatus, bookVars, workerVars, importVars, historyVars,
     Unseen
<1>22. CASE RecoverSend
  BY <1>22 DEF RecoverSend, LayDown, SetStatus, bookVars, workerVars, importVars, historyVars,
     Unseen
<1>23. CASE RecoverFails
  BY <1>23 DEF RecoverFails, LayDown, SetStatus, bookVars, workerVars, importVars, historyVars,
     Unseen
<1>. QED
  BY NextSteps, <1>1, <1>2, <1>3, <1>4, <1>5, <1>6, <1>7, <1>8, <1>9, <1>10,
     <1>11, <1>12, <1>13, <1>14, <1>15, <1>16, <1>17, <1>18, <1>19, <1>20,
     <1>21, <1>22, <1>23

-------------------------------------------------------------------------------
(* Theorems                                                                *)

McpInv ==
  /\ TypeOK /\ LooksFor /\ DownHoldsNothing /\ TodoWaits /\ AbsentIsBlank
  /\ OnceHeld /\ HeldOnce /\ AnswersStand /\ UnheldWasDropped
  /\ Originals /\ Unseen

\* The inductive invariant: the types, who holds what and where, what was
\* answered, and what the imports have looked up.
THEOREM McpInvariant == Spec => []McpInv
<1>1. Init => McpInv
  <2>. SUFFICES ASSUME Init PROVE McpInv
    OBVIOUS
  <2>1. TypeOK
    BY McpAssumption DEF Init, TypeOK, Statuses, Procs
  <2>2. LooksFor /\ DownHoldsNothing /\ TodoWaits /\ Unseen
    BY DEF Init, LooksFor, DownHoldsNothing, TodoWaits, Unseen
  <2>3. \A p \in Procs, i \in Invoices : ~Holds(p, i) /\ ~Reads(p, i) /\ Once(p, i)
    <3>1. ASSUME NEW p \in Procs, NEW i \in Invoices
          PROVE  ~InQueue(p, i) /\ OnceInQueue(p, i)
      <4>1. queue[p] = <<>>
        BY DEF Init
      <4>2. 1 .. Len(queue[p]) = {}
        BY <4>1
      <4>. QED
        BY <4>2 DEF InQueue, OnceInQueue
    <3>2. /\ \A p \in Procs, i \in Invoices : hand[p] # i /\ wpc[p] = "idle"
          /\ \A c \in Importers : ipc[c] = "idle"
      BY McpAssumption DEF Init
    <3>. QED
      BY <3>1, <3>2 DEF Holds, Reads, Once, Sends
  <2>4. AbsentIsBlank /\ OnceHeld /\ HeldOnce
    BY <2>3 DEF Init, AbsentIsBlank, OnceHeld, HeldOnce, Waits, Procs
  <2>5. AnswersStand /\ UnheldWasDropped /\ Originals
    BY DEF Init, AnswersStand, UnheldWasDropped, Originals
  <2>. QED
    BY <2>1, <2>2, <2>4, <2>5 DEF McpInv
<1>2. McpInv /\ [Next]_vars => McpInv'
  <2>. SUFFICES ASSUME McpInv, [Next]_vars PROVE McpInv'
    OBVIOUS
  <2>. USE DEF McpInv
  <2>1. TypeOK' /\ LooksFor' /\ DownHoldsNothing' /\ TodoWaits' /\ AbsentIsBlank'
    BY TypesStep, LooksForStep, DownStep, TodoStep, AbsentStep
  <2>2. OnceHeld' /\ HeldOnce'
    BY OnceStep, HeldStep, HeldOnceParts
  <2>3. AnswersStand' /\ UnheldWasDropped'
    BY AnswersStep, AnswersParts, UnheldStep
  <2>4. Originals' /\ Unseen'
    BY OriginalsStep, UnseenStep
  <2>. QED
    BY <2>1, <2>2, <2>3, <2>4
<1>. QED
  BY <1>1, <1>2, PTL DEF Spec

\* Statuses, queues, program counters and answers keep their types, and a worker
\* that is at work has an invoice in hand (worker.go:42-76, mcp.go:341-408).
THEOREM TypeCorrect == Spec => []TypeOK
<1>1. McpInv => TypeOK
  BY DEF McpInv
<1>. QED
  BY <1>1, McpInvariant, PTL

\* The claim without a check is safe with two processes, but for what a recovery
\* reset or lined up from under its holder.
THEOREM InvoicesAreHeldOnce == Spec => []HeldOnce
<1>1. McpInv => HeldOnce
  BY DEF McpInv
<1>. QED
  BY <1>1, McpInvariant, PTL

\* What the agent was told stands until the invoice is reprocessed.
THEOREM AnswersKeepStanding == Spec => []AnswersStand
<1>1. McpInv => AnswersStand
  BY DEF McpInv
<1>. QED
  BY <1>1, McpInvariant, PTL

\* An invoice that waits and that nobody holds was dropped by a process that ended
\* or by a worker whose statement failed.
THEOREM DroppedWorkIsNamed == Spec => []UnheldWasDropped
<1>1. McpInv => UnheldWasDropped
  BY DEF McpInv
<1>. QED
  BY <1>1, McpInvariant, PTL

\* A file has one original, unless two imports looked it up at the same time or
\* a failing lookup missed it.
THEOREM FilesHaveOneOriginal == Spec => []OnePerFile
<1>1. McpInv => OnePerFile
  BY DEF McpInv, Originals, Copy, Laid, OnePerFile
<1>. QED
  BY <1>1, McpInvariant, PTL

===============================================================================
