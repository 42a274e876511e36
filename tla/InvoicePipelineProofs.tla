------------------------ MODULE InvoicePipelineProofs ------------------------
(***************************************************************************)
(* Theorems about InvoicePipeline and TicketHistory for every value of     *)
(* their constants.                                                        *)
(***************************************************************************)
EXTENDS TicketHistory, SequenceTheorems, FiniteSetTheorems, TLAPS

LEMMA InitTypeOK == Init => TypeOK
  BY PipelineAssumption
  DEF Init, TypeOK, Statuses, Book!Statuses, Book!BookInit

LEMMA NextTypeOK == TypeOK /\ [Next]_vars => TypeOK'
<1> SUFFICES ASSUME TypeOK, [Next]_vars PROVE TypeOK'
  OBVIOUS
<1> USE PipelineAssumption DEF TypeOK, Statuses, Book!Statuses, bookVars,
        workerVars, bootVars, requestVars
<1>1. ASSUME NEW r \in Requests, Handler(r) PROVE TypeOK'
  <2> USE DEF Go, Return, SetStatus, Reviewable
  <2>1. ASSUME NEW f \in Files, ImportCheck(r, f) PROVE TypeOK'
    BY <2>1 DEF ImportCheck
  <2>2. CASE ImportInsert(r)
    <3>1. PICK i \in Invoices :
            /\ file'  = [file EXCEPT ![i] = rfile[r]]
            /\ dupOf' = [dupOf EXCEPT ![i] = rinv[r]]
            /\ IF rinv[r] = NoInvoice
                 THEN SetStatus(i, "pending") /\ Go(r, "enqueue", i, NoFile)
                 ELSE SetStatus(i, "duplicate") /\ Return(r)
      BY <2>2 DEF ImportInsert
    <3>2. UNCHANGED <<key, queue, workerVars, bootVars>>
      BY <2>2 DEF ImportInsert
    <3>3. CASE rinv[r] = NoInvoice
      BY <3>1, <3>2, <3>3
    <3>4. CASE rinv[r] # NoInvoice
      BY <3>1, <3>2, <3>4
    <3> QED
      BY <3>3, <3>4
  <2>3. CASE Enqueue(r)
    BY <2>3 DEF Enqueue
  <2>4. ASSUME NEW i \in Invoices, EditRead(r, i) PROVE TypeOK'
    BY <2>4 DEF EditRead
  <2>5. ASSUME NEW k \in Keys, EditWrite(r, k) PROVE TypeOK'
    BY <2>5 DEF EditWrite
  <2>6. ASSUME NEW i \in Invoices, ScheduleReprocess(r, i) PROVE TypeOK'
    BY <2>6 DEF ScheduleReprocess
  <2>7. ASSUME NEW i \in Invoices, ExportLoad(r, i) PROVE TypeOK'
    BY <2>7 DEF ExportLoad
  <2>8. CASE MarkInvoicesExported(r)
    BY <2>8 DEF MarkInvoicesExported
  <2>9. CASE RequestDropped(r)
    BY <2>9 DEF RequestDropped
  <2> QED
    BY <1>1, <2>1, <2>2, <2>3, <2>4, <2>5, <2>6, <2>7, <2>8, <2>9 DEF Handler
<1>2. ASSUME NEW i \in Invoices, ConfirmInvoice(i) PROVE TypeOK'
  BY <1>2 DEF ConfirmInvoice, SetStatus
<1>3. CASE Worker
  <2> USE DEF WorkerGo, WorkerIdle, SetStatus
  <2>1. CASE WorkerTake
    BY <2>1, HeadTailProperties DEF WorkerTake
  <2>2. CASE WorkerClaim
    BY <2>2 DEF WorkerClaim
  <2>3. CASE WorkerClaimFails
    BY <2>3 DEF WorkerClaimFails
  <2>4. CASE WorkerExtract
    BY <2>4 DEF WorkerExtract
  <2>5. CASE WorkerDedup
    BY <2>5 DEF WorkerDedup
  <2>6. CASE WorkerSave
    BY <2>6 DEF WorkerSave
  <2>7. CASE WorkerSaveFails
    BY <2>7 DEF WorkerSaveFails
  <2>8. CASE WorkerFail
    BY <2>8 DEF WorkerFail
  <2> QED
    BY <1>3, <2>1, <2>2, <2>3, <2>4, <2>5, <2>6, <2>7, <2>8 DEF Worker
<1>4. CASE Recovery
  <2>1. CASE RecoverReset
    BY <2>1 DEF RecoverReset
  <2>2. CASE RecoverSelect
    BY <2>2 DEF RecoverSelect
  <2>3. CASE RecoverSend
    BY <2>3 DEF RecoverSend
  <2>4. CASE RecoverFails
    BY <2>4 DEF RecoverFails
  <2> QED
    BY <1>4, <2>1, <2>2, <2>3, <2>4 DEF Recovery
<1>5. CASE Crash
  BY <1>5 DEF Crash, WorkerIdle, WorkerGo
<1>6. CASE Restart
  BY <1>6 DEF Restart
<1>7. CASE UNCHANGED vars
  BY <1>7 DEF vars
<1> QED
  BY <1>1, <1>2, <1>3, <1>4, <1>5, <1>6, <1>7 DEF Next

\* Type correctness: no column, channel or program counter leaves its range,
\* the channel never exceeds its capacity, and every handler and the worker
\* hold an existing invoice id where they use one.
THEOREM TypeCorrect == Spec => []TypeOK
<1>1. Init => TypeOK
  BY InitTypeOK
<1>2. TypeOK /\ [Next]_vars => TypeOK'
  BY NextTypeOK
<1> QED
  BY <1>1, <1>2, PTL DEF Spec

-------------------------------------------------------------------------------
(* What a send and a receive do to the channel.                            *)

LEMMA SendEffect ==
  ASSUME TypeOK, NEW i \in Invoices, queue' = Append(queue, i)
  PROVE  /\ Len(queue') = Len(queue) + 1
         /\ \A n \in 1 .. Len(queue) : queue'[n] = queue[n]
         /\ queue'[Len(queue) + 1] = i
         /\ \A j \in Invoices : InQueue(j)' <=> InQueue(j) \/ j = i
<1>1. /\ Len(queue') = Len(queue) + 1
      /\ \A n \in 1 .. Len(queue) : queue'[n] = queue[n]
      /\ queue'[Len(queue) + 1] = i
  BY DEF TypeOK
<1>2. \A j \in Invoices : InQueue(j)' <=> InQueue(j) \/ j = i
  BY <1>1 DEF TypeOK, InQueue
<1> QED
  BY <1>1, <1>2

LEMMA ReceiveEffect ==
  ASSUME TypeOK, WorkerTake
  PROVE  /\ queue # <<>> /\ cur' = queue[1] /\ wpc' = "taken"
         /\ Len(queue') = Len(queue) - 1
         /\ \A n \in 1 .. Len(queue') : queue'[n] = queue[n + 1]
         /\ \A j \in Invoices : InQueue(j) <=> InQueue(j)' \/ j = cur'
<1>1. /\ queue # <<>> /\ cur' = queue[1] /\ wpc' = "taken"
      /\ Len(queue') = Len(queue) - 1
      /\ \A n \in 1 .. Len(queue') : queue'[n] = queue[n + 1]
  BY HeadTailProperties DEF TypeOK, WorkerTake, WorkerGo
<1>2. ASSUME NEW j \in Invoices, InQueue(j) PROVE InQueue(j)' \/ j = cur'
  <2>1. PICK n \in 1 .. Len(queue) : queue[n] = j
    BY <1>2 DEF InQueue
  <2>2. CASE n = 1
    BY <1>1, <2>1, <2>2
  <2>3. CASE n # 1
    <3>1. n - 1 \in 1 .. Len(queue') /\ queue'[n - 1] = j
      BY <1>1, <2>1, <2>3 DEF TypeOK
    <3> QED
      BY <3>1 DEF InQueue
  <2> QED
    BY <2>2, <2>3
<1>3. ASSUME NEW j \in Invoices, InQueue(j)' \/ j = cur' PROVE InQueue(j)
  BY <1>1, <1>3 DEF TypeOK, InQueue
<1> QED
  BY <1>1, <1>2, <1>3

-------------------------------------------------------------------------------
(* What every reachable state satisfies, whatever the environment does.    *)

\* A row that is not inserted yet is blank, and nothing refers to it.
RowsExist ==
  /\ \A i \in Invoices : status[i] = "absent" => key[i] = NoKey /\ file[i] = NoFile
  /\ \A n \in 1 .. Len(queue) : status[queue[n]] # "absent"
  /\ \A r \in Requests :
       rpc[r] # "idle" /\ rinv[r] # NoInvoice => status[rinv[r]] # "absent"
  /\ wpc # "idle" => status[cur] # "absent"
  /\ \A i \in todo : status[i] # "absent"
  /\ \A r \in Requests : rpc[r] = "insert" => rfile[r] \in Files

\* The rows a boot found interrupted and old, up to their reset, have no ticket
\* and are not in the worker's hands.
StaleIdle ==
  /\ stale # {} => boot = "reset"
  /\ \A i \in stale :
       /\ status[i] = "processing"
       /\ \A n \in 1 .. Len(queue) : queue[n] # i
       /\ \A r \in Requests : rpc[r] # "idle" /\ rinv[r] = i => rpc[r] = "insert"
       /\ wpc # "idle" => cur # i
  /\ todo # {} => boot = "send"
  /\ boot = "down" =>
       queue = <<>> /\ wpc = "idle" /\ \A r \in Requests : rpc[r] = "idle"

Working == wpc \in {"extract", "dedup", "save", "failing"}

\* While the worker is at it, nobody else changes the status.
WorkOwned == Working => status[cur] = "processing"

RowInv == TypeOK /\ RowsExist /\ StaleIdle /\ WorkOwned

LEMMA InitRowInv == Init => RowInv
<1> SUFFICES ASSUME Init PROVE RowInv
  OBVIOUS
<1>1. TypeOK
  BY InitTypeOK
<1>2. RowsExist /\ StaleIdle /\ WorkOwned
  BY PipelineAssumption
  DEF Init, Book!BookInit, RowsExist, StaleIdle, WorkOwned, Working
<1> QED
  BY <1>1, <1>2 DEF RowInv

LEMMA NextRowInv == RowInv /\ [Next]_vars => RowInv'
<1> SUFFICES ASSUME RowInv, [Next]_vars PROVE RowInv'
  OBVIOUS
<1>0. TypeOK /\ TypeOK'
  BY NextTypeOK DEF RowInv
<1> SUFFICES (RowsExist /\ StaleIdle /\ WorkOwned)'
  BY <1>0 DEF RowInv
<1> USE <1>0, PipelineAssumption DEF TypeOK, RowInv, RowsExist, StaleIdle,
        WorkOwned, Working, bookVars, workerVars, bootVars, requestVars
<1>1. ASSUME NEW r \in Requests, Handler(r)
      PROVE  (RowsExist /\ StaleIdle /\ WorkOwned)'
  <2> USE DEF Go, Return, SetStatus, Reviewable, Serving, ConnFree
  <2>1. ASSUME NEW f \in Files, ImportCheck(r, f)
        PROVE  (RowsExist /\ StaleIdle /\ WorkOwned)'
    BY <2>1 DEF ImportCheck
  <2>2. CASE ImportInsert(r)
    BY <2>2 DEF ImportInsert
  <2>3. CASE Enqueue(r)
    <3>1. /\ rpc[r] = "enqueue" /\ rinv[r] \in Invoices /\ boot # "down"
          /\ queue' = Append(queue, rinv[r]) /\ Return(r)
          /\ UNCHANGED <<bookVars, file, workerVars, bootVars>>
      BY <2>3 DEF Enqueue
    <3> QED
      BY <3>1, SendEffect
  <2>4. ASSUME NEW i \in Invoices, EditRead(r, i)
        PROVE  (RowsExist /\ StaleIdle /\ WorkOwned)'
    BY <2>4 DEF EditRead
  <2>5. ASSUME NEW k \in Keys, EditWrite(r, k)
        PROVE  (RowsExist /\ StaleIdle /\ WorkOwned)'
    BY <2>5 DEF EditWrite
  <2>6. ASSUME NEW i \in Invoices, ScheduleReprocess(r, i)
        PROVE  (RowsExist /\ StaleIdle /\ WorkOwned)'
    BY <2>6 DEF ScheduleReprocess
  <2>7. ASSUME NEW i \in Invoices, ExportLoad(r, i)
        PROVE  (RowsExist /\ StaleIdle /\ WorkOwned)'
    BY <2>7 DEF ExportLoad
  <2>8. CASE MarkInvoicesExported(r)
    BY <2>8 DEF MarkInvoicesExported
  <2>9. CASE RequestDropped(r)
    BY <2>9 DEF RequestDropped
  <2> QED
    BY <1>1, <2>1, <2>2, <2>3, <2>4, <2>5, <2>6, <2>7, <2>8, <2>9 DEF Handler
<1>2. ASSUME NEW i \in Invoices, ConfirmInvoice(i)
      PROVE  (RowsExist /\ StaleIdle /\ WorkOwned)'
  BY <1>2 DEF ConfirmInvoice, SetStatus
<1>3. CASE Worker
  <2> USE DEF WorkerGo, WorkerIdle, SetStatus
  <2>1. CASE WorkerTake
    BY <2>1, HeadTailProperties DEF WorkerTake
  <2>2. CASE WorkerClaim
    BY <2>2 DEF WorkerClaim
  <2>3. CASE WorkerClaimFails
    BY <2>3 DEF WorkerClaimFails
  <2>4. CASE WorkerExtract
    BY <2>4 DEF WorkerExtract
  <2>5. CASE WorkerDedup
    BY <2>5 DEF WorkerDedup
  <2>6. CASE WorkerSave
    BY <2>6 DEF WorkerSave
  <2>7. CASE WorkerSaveFails
    BY <2>7 DEF WorkerSaveFails
  <2>8. CASE WorkerFail
    BY <2>8 DEF WorkerFail
  <2> QED
    BY <1>3, <2>1, <2>2, <2>3, <2>4, <2>5, <2>6, <2>7, <2>8 DEF Worker
<1>4. CASE Recovery
  <2>1. CASE RecoverReset
    BY <2>1 DEF RecoverReset
  <2>2. CASE RecoverSelect
    BY <2>2 DEF RecoverSelect
  <2>3. CASE RecoverSend
    BY <2>3 DEF RecoverSend
  <2>4. CASE RecoverFails
    BY <2>4 DEF RecoverFails
  <2> QED
    BY <1>4, <2>1, <2>2, <2>3, <2>4 DEF Recovery
<1>5. CASE Crash
  BY <1>5 DEF Crash, WorkerIdle, WorkerGo
<1>6. CASE Restart
  BY <1>6 DEF Restart
<1>7. CASE UNCHANGED vars
  BY <1>7 DEF vars
<1> QED
  BY <1>1, <1>2, <1>3, <1>4, <1>5, <1>6, <1>7 DEF Next

-------------------------------------------------------------------------------
(* Business keys.  The unique index rejects a second live holder of a key   *)
(* wherever a key is written or a row comes alive; RowInv is needed for the *)
(* rows that come alive unchecked (their key is NULL) and for the worker's  *)
(* failures, which only touch rows that are live already.                   *)

LEMMA NextBusinessKeyUnique ==
  RowInv /\ BusinessKeyUnique /\ [Next]_vars => BusinessKeyUnique'
<1> SUFFICES ASSUME RowInv, BusinessKeyUnique, [Next]_vars
             PROVE  BusinessKeyUnique'
  OBVIOUS
<1> USE PipelineAssumption
    DEF TypeOK, RowInv, RowsExist, WorkOwned, Working, BusinessKeyUnique, Live,
        Book!Live, KeyTaken, Book!KeyTaken, bookVars, workerVars, bootVars,
        requestVars
<1>1. ASSUME NEW r \in Requests, Handler(r) PROVE BusinessKeyUnique'
  <2> USE DEF Go, Return, SetStatus, Reviewable, Serving, ConnFree
  <2>1. ASSUME NEW f \in Files, ImportCheck(r, f) PROVE BusinessKeyUnique'
    BY <2>1 DEF ImportCheck
  <2>2. CASE ImportInsert(r)
    BY <2>2 DEF ImportInsert
  <2>3. CASE Enqueue(r)
    BY <2>3 DEF Enqueue
  <2>4. ASSUME NEW i \in Invoices, EditRead(r, i) PROVE BusinessKeyUnique'
    BY <2>4 DEF EditRead
  <2>5. ASSUME NEW k \in Keys, EditWrite(r, k) PROVE BusinessKeyUnique'
    BY <2>5 DEF EditWrite
  <2>6. ASSUME NEW i \in Invoices, ScheduleReprocess(r, i) PROVE BusinessKeyUnique'
    BY <2>6 DEF ScheduleReprocess
  <2>7. ASSUME NEW i \in Invoices, ExportLoad(r, i) PROVE BusinessKeyUnique'
    BY <2>7 DEF ExportLoad
  <2>8. CASE MarkInvoicesExported(r)
    BY <2>8 DEF MarkInvoicesExported
  <2>9. CASE RequestDropped(r)
    BY <2>9 DEF RequestDropped
  <2> QED
    BY <1>1, <2>1, <2>2, <2>3, <2>4, <2>5, <2>6, <2>7, <2>8, <2>9 DEF Handler
<1>2. ASSUME NEW i \in Invoices, ConfirmInvoice(i) PROVE BusinessKeyUnique'
  BY <1>2 DEF ConfirmInvoice, SetStatus, Serving, ConnFree
<1>3. CASE Worker
  <2> USE DEF WorkerGo, WorkerIdle, SetStatus, ConnFree, IndexRejects
  <2>1. CASE WorkerTake
    BY <2>1, HeadTailProperties DEF WorkerTake
  <2>2. CASE WorkerClaim
    BY <2>2 DEF WorkerClaim
  <2>3. CASE WorkerClaimFails
    BY <2>3 DEF WorkerClaimFails
  <2>4. CASE WorkerExtract
    BY <2>4 DEF WorkerExtract
  <2>5. CASE WorkerDedup
    BY <2>5 DEF WorkerDedup
  <2>6. CASE WorkerSave
    BY <2>6 DEF WorkerSave
  <2>7. CASE WorkerSaveFails
    BY <2>7 DEF WorkerSaveFails
  <2>8. CASE WorkerFail
    BY <2>8 DEF WorkerFail
  <2> QED
    BY <1>3, <2>1, <2>2, <2>3, <2>4, <2>5, <2>6, <2>7, <2>8 DEF Worker
<1>4. CASE Recovery
  <2>1. CASE RecoverReset
    BY <2>1 DEF RecoverReset
  <2>2. CASE RecoverSelect
    BY <2>2 DEF RecoverSelect
  <2>3. CASE RecoverSend
    BY <2>3 DEF RecoverSend
  <2>4. CASE RecoverFails
    BY <2>4 DEF RecoverFails
  <2> QED
    BY <1>4, <2>1, <2>2, <2>3, <2>4 DEF Recovery
<1>5. CASE Crash
  BY <1>5 DEF Crash, WorkerIdle, WorkerGo
<1>6. CASE Restart
  BY <1>6 DEF Restart
<1>7. CASE UNCHANGED vars
  BY <1>7 DEF vars
<1> QED
  BY <1>1, <1>2, <1>3, <1>4, <1>5, <1>6, <1>7 DEF Next

\* At every moment, whatever edits, claims, saves, crashes and restarts
\* interleave, a business key belongs to at most one invoice that is not a
\* duplicate (the unique index of 001_initial.sql:203-205).
THEOREM BusinessKeysUnique == Spec => []BusinessKeyUnique
<1>1. Init => RowInv /\ BusinessKeyUnique
  BY InitRowInv DEF Init, Book!BookInit, BusinessKeyUnique, Live, Book!Live
<1>2. RowInv /\ BusinessKeyUnique /\ [Next]_vars => (RowInv /\ BusinessKeyUnique)'
  BY NextRowInv, NextBusinessKeyUnique
<1> QED
  BY <1>1, <1>2, PTL DEF Spec

-------------------------------------------------------------------------------
(* What a step does to the history variables.                               *)

LEMMA HistoryStep ==
  ASSUME [HistoryNext]_allVars
  PROVE  /\ [Next]_vars
         /\ boot' # "down" /\ todo' \subseteq todo => doubled' = doubled
         /\ boot' # "down" => doubled \subseteq doubled'
         /\ boot' # "down" =>
              \A i \in dropped : status'[i] = "pending" => i \in dropped'
         /\ wpc # "save" \/ wpc' # "idle" \/ boot' # boot
              => reopened \subseteq reopened'
<1>1. CASE UNCHANGED allVars
  BY <1>1 DEF allVars, historyVars, vars
<1>2. CASE HistoryNext
  <2> USE <1>2 DEF HistoryNext
  <2>1. [Next]_vars
    OBVIOUS
  <2>2. /\ boot' # "down" /\ todo' \subseteq todo => doubled' = doubled
        /\ boot' # "down" => doubled \subseteq doubled'
    BY DEF Record, Doubles
  <2>3. boot' # "down" =>
          \A i \in dropped : status'[i] = "pending" => i \in dropped'
    BY DEF Record, Settled
  <2>4. wpc # "save" \/ wpc' # "idle" \/ boot' # boot => reopened \subseteq reopened'
    BY DEF Record, WorkerSave, WorkerIdle, WorkerGo, bootVars
  <2> QED
    BY <2>1, <2>2, <2>3, <2>4
<1> QED
  BY <1>1, <1>2

-------------------------------------------------------------------------------
(* Lost work.  The invariant also covers the loop of the recovery, whose    *)
(* cursor rows are tickets; business-key uniqueness is needed because it    *)
(* rules out that the claim of a pending invoice is rejected by the index.  *)

EveryPendingHasTicket ==
  boot \in {"send", "done"} =>
    \A i \in Invoices : status[i] = "pending" => HasTicket(i) \/ i \in dropped

LEMMA NextEveryPendingHasTicket ==
  RowInv /\ BusinessKeyUnique /\ EveryPendingHasTicket /\ [HistoryNext]_allVars
    => EveryPendingHasTicket'
<1> SUFFICES ASSUME RowInv, BusinessKeyUnique, EveryPendingHasTicket,
                    [HistoryNext]_allVars
             PROVE  EveryPendingHasTicket'
  OBVIOUS
<1>0. boot' # "down" => \A i \in dropped : status'[i] = "pending" => i \in dropped'
  BY HistoryStep
<1> USE PipelineAssumption
    DEF TypeOK, RowInv, RowsExist, WorkOwned, Working, StaleIdle,
        EveryPendingHasTicket, HasTicket, InQueue, Sending, Taken, bookVars,
        workerVars, bootVars, requestVars
<1>1. ASSUME NEW r \in Requests, Handler(r) PROVE EveryPendingHasTicket'
  <2> USE DEF Go, Return, SetStatus, Reviewable, Serving, ConnFree
  <2>1. ASSUME NEW f \in Files, ImportCheck(r, f)
        PROVE  EveryPendingHasTicket'
    <3>1. \E j : Go(r, "insert", j, f)
      BY <2>1 DEF ImportCheck
    <3>2. /\ rpc[r] = "idle" /\ boot # "down"
          /\ UNCHANGED <<bookVars, file, queue, workerVars, bootVars>>
      BY <2>1 DEF ImportCheck
    <3>3. \A i \in Invoices : Sending(i) => Sending(i)'
      BY <3>1, <3>2
    <3> HIDE DEF Go, Sending
    <3> QED
      BY <1>0, <3>2, <3>3
  <2>2. CASE ImportInsert(r)
    <3>1. PICK i \in Invoices :
            IF rinv[r] = NoInvoice
              THEN SetStatus(i, "pending") /\ Go(r, "enqueue", i, NoFile)
              ELSE SetStatus(i, "duplicate") /\ Return(r)
      BY <2>2 DEF ImportInsert
    <3>2. /\ rpc[r] = "insert" /\ boot # "down"
          /\ UNCHANGED <<queue, workerVars, bootVars>>
      BY <2>2 DEF ImportInsert
    <3>3. \A j \in Invoices : Sending(j) => Sending(j)'
      BY <3>1, <3>2
    <3>4. status'[i] = "pending" => Sending(i)'
      BY <3>1, <3>2
    <3>5. \A j \in Invoices \ {i} : status'[j] = status[j]
      BY <3>1
    <3> HIDE DEF Go, Return, Sending
    <3> QED
      BY <1>0, <3>2, <3>3, <3>4, <3>5
  <2>3. CASE Enqueue(r)
    <3>1. /\ rpc[r] = "enqueue" /\ rinv[r] \in Invoices
          /\ queue' = Append(queue, rinv[r]) /\ Return(r)
          /\ UNCHANGED <<bookVars, file, workerVars, bootVars>>
      BY <2>3 DEF Enqueue
    <3> QED
      BY <1>0, <3>1, SendEffect
  <2>4. ASSUME NEW i \in Invoices, EditRead(r, i)
        PROVE  EveryPendingHasTicket'
    BY <2>4, <1>0 DEF EditRead
  <2>5. ASSUME NEW k \in Keys, EditWrite(r, k)
        PROVE  EveryPendingHasTicket'
    BY <2>5, <1>0 DEF EditWrite
  <2>6. ASSUME NEW i \in Invoices, ScheduleReprocess(r, i)
        PROVE  EveryPendingHasTicket'
    BY <2>6, <1>0 DEF ScheduleReprocess
  <2>7. ASSUME NEW i \in Invoices, ExportLoad(r, i)
        PROVE  EveryPendingHasTicket'
    BY <2>7, <1>0 DEF ExportLoad
  <2>8. CASE MarkInvoicesExported(r)
    BY SMTT(40), <2>8, <1>0 DEF MarkInvoicesExported
  <2>9. CASE RequestDropped(r)
    BY <2>9, <1>0 DEF RequestDropped
  <2> QED
    BY <1>1, <2>1, <2>2, <2>3, <2>4, <2>5, <2>6, <2>7, <2>8, <2>9 DEF Handler
<1>2. ASSUME NEW i \in Invoices, ConfirmInvoice(i) PROVE EveryPendingHasTicket'
  BY <1>2, <1>0 DEF ConfirmInvoice, SetStatus, Serving, ConnFree
<1>3. CASE Worker
  <2> USE DEF WorkerGo, WorkerIdle, SetStatus, ConnFree
  <2>1. CASE WorkerTake
    <3>1. wpc = "idle" /\ UNCHANGED <<bookVars, bootVars, requestVars>>
      BY <2>1 DEF WorkerTake
    <3> HIDE DEF InQueue
    <3> QED
      BY <1>0, <2>1, <3>1, ReceiveEffect
  <2>2. CASE WorkerClaim
    BY <2>2, <1>0 DEF WorkerClaim
  <2>3. CASE WorkerClaimFails
    <3>1. CASE IndexRejects(cur, key[cur])
      <4>1. status[cur] # "pending"
        BY <2>3, <3>1 DEF WorkerClaimFails, IndexRejects, BusinessKeyUnique, Live,
           Book!Live, KeyTaken, Book!KeyTaken
      <4> QED
        BY <1>0, <2>3, <4>1 DEF WorkerClaimFails
    <3>2. CASE ~IndexRejects(cur, key[cur])
      <4>1. boot' # "down" /\ status' = status
        BY <2>3 DEF WorkerClaimFails
      <4>2. Record \/ UNCHANGED allVars
        BY DEF HistoryNext
      <4>3. wpc' # wpc
        BY <2>3 DEF WorkerClaimFails
      <4>4. status[cur] = "pending" => cur \in dropped'
        BY <2>3, <3>2, <4>1, <4>2, <4>3 DEF Record, Lost, Settled, allVars, vars
      <4> QED
        BY <1>0, <2>3, <4>4 DEF WorkerClaimFails
    <3> QED
      BY <3>1, <3>2
  <2>4. CASE WorkerExtract
    BY <2>4, <1>0 DEF WorkerExtract
  <2>5. CASE WorkerDedup
    BY <2>5, <1>0 DEF WorkerDedup
  <2>6. CASE WorkerSave
    BY <2>6, <1>0 DEF WorkerSave
  <2>7. CASE WorkerSaveFails
    BY <2>7, <1>0 DEF WorkerSaveFails
  <2>8. CASE WorkerFail
    BY <2>8, <1>0 DEF WorkerFail
  <2> QED
    BY <1>3, <2>1, <2>2, <2>3, <2>4, <2>5, <2>6, <2>7, <2>8 DEF Worker
<1>4. CASE Recovery
  <2>1. CASE RecoverReset
    BY <2>1, <1>0 DEF RecoverReset
  <2>2. CASE RecoverSelect
    BY <2>2, <1>0 DEF RecoverSelect
  <2>3. CASE RecoverSend
    BY <2>3, <1>0 DEF RecoverSend
  <2>4. CASE RecoverFails
    <3>1. /\ boot # "done" /\ boot' = "done" /\ status' = status
      BY <2>4 DEF RecoverFails
    <3>2. Record
      BY <3>1 DEF HistoryNext, allVars, vars
    <3>3. ~WorkerClaimFails /\ ~WorkerFail
      BY <3>1 DEF WorkerClaimFails, WorkerFail
    <3>4. \A i \in Invoices : status[i] = "pending" =>
            InQueue(i) \/ Sending(i) \/ Taken(i) \/ i \in dropped'
      <4> HIDE DEF InQueue, Sending, Taken
      <4> QED
        BY <2>4, <3>1, <3>2, <3>3 DEF Record, Lost, Settled
    <3>5. UNCHANGED <<queue, workerVars, requestVars>>
      BY <2>4 DEF RecoverFails
    <3> QED
      BY <3>1, <3>4, <3>5
  <2> QED
    BY <1>4, <2>1, <2>2, <2>3, <2>4 DEF Recovery
<1>5. CASE Crash
  BY <1>5, <1>0 DEF Crash, WorkerIdle, WorkerGo
<1>6. CASE Restart
  BY <1>6, <1>0 DEF Restart
<1>7. CASE UNCHANGED allVars
  BY <1>7 DEF allVars, vars, historyVars
<1> QED
  BY <1>1, <1>2, <1>3, <1>4, <1>5, <1>6, <1>7 DEF HistoryNext, Next

\* No pending invoice is ever forgotten: after the boot recovery each one is in
\* the channel, with a handler about to send it, or in the worker's hand, unless
\* an SQL statement failed for reasons of its own and took its ticket along.
\* Requests served while the recovery still runs, crashes and quick restarts do
\* not change that.
THEOREM NothingLost == HistorySpec => []NoLostWork
<1>1. HistoryInit => RowInv /\ BusinessKeyUnique /\ EveryPendingHasTicket
  BY InitRowInv DEF HistoryInit, Init, Book!BookInit, BusinessKeyUnique, Live,
     Book!Live, EveryPendingHasTicket
<1>2. RowInv /\ BusinessKeyUnique /\ EveryPendingHasTicket /\ [HistoryNext]_allVars
        => (RowInv /\ BusinessKeyUnique /\ EveryPendingHasTicket)'
  BY HistoryStep, NextRowInv, NextBusinessKeyUnique, NextEveryPendingHasTicket
<1>3. EveryPendingHasTicket => NoLostWork
  BY DEF EveryPendingHasTicket, NoLostWork
<1> QED
  BY <1>1, <1>2, <1>3, PTL DEF HistorySpec

-------------------------------------------------------------------------------
(* One ticket.  Only the recovery enqueues what it did not just put in line, *)
(* and what had a ticket when it opened its cursor is in doubled.            *)

LEMMA NextSingleTicket ==
  RowInv /\ SingleTicket /\ [HistoryNext]_allVars => SingleTicket'
<1> SUFFICES ASSUME RowInv, SingleTicket, [HistoryNext]_allVars
             PROVE  SingleTicket'
  OBVIOUS
<1>0. boot' # "down" /\ todo' \subseteq todo => doubled' = doubled
  BY HistoryStep
<1> USE PipelineAssumption
    DEF TypeOK, RowInv, StaleIdle, WorkOwned, Working, SingleTicket, HasTicket,
        InQueue, Sending, Taken, bookVars, workerVars, bootVars, requestVars
<1>1. ASSUME NEW r \in Requests, Handler(r) PROVE SingleTicket'
  <2> USE DEF Go, Return, SetStatus, Reviewable, Serving, ConnFree
  <2>1. ASSUME NEW f \in Files, ImportCheck(r, f)
        PROVE  SingleTicket'
    BY SMTT(40), <2>1, <1>0 DEF ImportCheck
  <2>2. CASE ImportInsert(r)
    <3>1. PICK i \in Invoices :
            /\ status[i] = "absent"
            /\ IF rinv[r] = NoInvoice
                 THEN SetStatus(i, "pending") /\ Go(r, "enqueue", i, NoFile)
                 ELSE SetStatus(i, "duplicate") /\ Return(r)
      BY <2>2 DEF ImportInsert
    <3>2. /\ rpc[r] = "insert" /\ boot # "down"
          /\ UNCHANGED <<queue, workerVars, bootVars>>
      BY <2>2 DEF ImportInsert
    <3>3. ~HasTicket(i)
      BY <3>1 DEF RowsExist
    <3>4. doubled' = doubled
      BY <1>0, <3>2
    <3>5. CASE rinv[r] = NoInvoice
      BY <3>1, <3>2, <3>3, <3>4, <3>5
    <3>6. CASE rinv[r] # NoInvoice
      BY <3>1, <3>2, <3>3, <3>4, <3>6
    <3> QED
      BY <3>5, <3>6
  <2>3. CASE Enqueue(r)
    <3>1. /\ rpc[r] = "enqueue" /\ rinv[r] \in Invoices /\ boot # "down"
          /\ queue' = Append(queue, rinv[r]) /\ Return(r)
          /\ UNCHANGED <<bookVars, file, workerVars, bootVars>>
      BY <2>3 DEF Enqueue
    <3>2. doubled' = doubled
      BY <1>0, <3>1
    <3>0. PICK x \in Invoices : x = rinv[r]
      BY <3>1
    <3>3. /\ Len(queue') = Len(queue) + 1
          /\ \A n \in 1 .. Len(queue) : queue'[n] = queue[n]
          /\ queue'[Len(queue) + 1] = x
          /\ \A j \in Invoices : InQueue(j)' <=> InQueue(j) \/ j = x
      BY <3>0, <3>1, SendEffect
    <3>4. /\ \A i \in Invoices : Sending(i)' => Sending(i)
          /\ x \notin doubled => ~Sending(x)'
          /\ Sending(x)
      BY <3>0, <3>1
    <3>5. \A s, u \in Requests :
            rpc'[s] = "enqueue" /\ rpc'[u] = "enqueue" /\ rinv'[s] = rinv'[u] =>
              s = u \/ rinv'[s] \in doubled
      BY <3>1
    <3>6. \A m, n \in 1 .. Len(queue') :
            queue'[m] = queue'[n] => m = n \/ queue'[m] \in doubled
      <4>1. \A m \in 1 .. Len(queue) : queue[m] = x => x \in doubled
        <5>1. x \notin doubled => ~InQueue(x)
          BY <3>0, <3>1, <3>4
        <5> QED
          BY <5>1
      <4>2. Len(queue) \in Nat
        OBVIOUS
      <4> QED
        BY <3>3, <4>1, <4>2
    <3>7. UNCHANGED <<status, wpc, cur, todo>>
      BY <3>1
    <3>8. \A i \in Invoices \ doubled :
            /\ HasTicket(i)' => status'[i] = "pending"
            /\ InQueue(i)' => ~Sending(i)' /\ ~Taken(i)' /\ i \notin todo'
            /\ Sending(i)' => ~Taken(i)' /\ i \notin todo'
            /\ Taken(i)' => i \notin todo'
      <4>1. \A i \in Invoices \ doubled :
              /\ InQueue(i) \/ Sending(i) \/ Taken(i) \/ i \in todo => status[i] = "pending"
              /\ InQueue(i) => ~Sending(i) /\ ~Taken(i) /\ i \notin todo
              /\ Sending(i) => ~Taken(i) /\ i \notin todo
              /\ Taken(i) => i \notin todo
        OBVIOUS
      <4> HIDE DEF InQueue, Sending, SingleTicket, TypeOK, RowInv, StaleIdle, WorkOwned
      <4> QED
        BY <3>3, <3>4, <3>7, <4>1
    <3> QED
      BY <3>2, <3>5, <3>6, <3>8
  <2>4. ASSUME NEW i \in Invoices, EditRead(r, i)
        PROVE  SingleTicket'
    BY <2>4, <1>0 DEF EditRead
  <2>5. ASSUME NEW k \in Keys, EditWrite(r, k)
        PROVE  SingleTicket'
    BY <2>5, <1>0 DEF EditWrite
  <2>6. ASSUME NEW i \in Invoices, ScheduleReprocess(r, i)
        PROVE  SingleTicket'
    BY <2>6, <1>0 DEF ScheduleReprocess
  <2>7. ASSUME NEW i \in Invoices, ExportLoad(r, i)
        PROVE  SingleTicket'
    BY <2>7, <1>0 DEF ExportLoad
  <2>8. CASE MarkInvoicesExported(r)
    BY <2>8, <1>0 DEF MarkInvoicesExported
  <2>9. CASE RequestDropped(r)
    BY <2>9, <1>0 DEF RequestDropped
  <2> QED
    BY <1>1, <2>1, <2>2, <2>3, <2>4, <2>5, <2>6, <2>7, <2>8, <2>9 DEF Handler
<1>2. ASSUME NEW i \in Invoices, ConfirmInvoice(i) PROVE SingleTicket'
  BY <1>2, <1>0 DEF ConfirmInvoice, SetStatus, Serving, ConnFree
<1>3. CASE Worker
  <2> USE DEF WorkerGo, WorkerIdle, SetStatus, ConnFree
  <2>1. CASE WorkerTake
    <3>1. /\ wpc = "idle" /\ UNCHANGED <<bookVars, bootVars, requestVars>>
          /\ boot # "down"
      BY <2>1 DEF WorkerTake
    <3>2. /\ Len(queue) > 0 /\ cur' = queue[1] /\ wpc' = "taken"
          /\ Len(queue') = Len(queue) - 1
          /\ \A n \in 1 .. Len(queue') : queue'[n] = queue[n + 1]
      BY <2>1, ReceiveEffect
    <3>3. doubled' = doubled
      BY <1>0, <3>1
    <3>4. \A i \in Invoices \ doubled : InQueue(i)' => InQueue(i) /\ i # cur'
      BY <3>2
    <3>5. InQueue(cur')
      BY <3>2
    <3>6. \A m, n \in 1 .. Len(queue') :
            queue'[m] = queue'[n] => m = n \/ queue'[m] \in doubled
      BY <3>2
    <3> HIDE DEF InQueue
    <3> QED
      BY <3>1, <3>2, <3>3, <3>4, <3>5, <3>6
  <2>2. CASE WorkerClaim
    BY <2>2, <1>0 DEF WorkerClaim
  <2>3. CASE WorkerClaimFails
    BY <2>3, <1>0 DEF WorkerClaimFails
  <2>4. CASE WorkerExtract
    BY <2>4, <1>0 DEF WorkerExtract
  <2>5. CASE WorkerDedup
    BY <2>5, <1>0 DEF WorkerDedup
  <2>6. CASE WorkerSave
    BY <2>6, <1>0 DEF WorkerSave
  <2>7. CASE WorkerSaveFails
    BY <2>7, <1>0 DEF WorkerSaveFails
  <2>8. CASE WorkerFail
    BY <2>8, <1>0 DEF WorkerFail
  <2> QED
    BY <1>3, <2>1, <2>2, <2>3, <2>4, <2>5, <2>6, <2>7, <2>8 DEF Worker
<1>4. CASE Recovery
  <2>1. CASE RecoverReset
    BY <2>1, <1>0 DEF RecoverReset
  <2>2. CASE RecoverSelect
    <3>1. /\ boot = "select" /\ boot' # "down"
          /\ todo' = {i \in Invoices : status[i] = "pending"}
          /\ UNCHANGED <<bookVars, file, queue, workerVars, stale, requestVars>>
      BY <2>2 DEF RecoverSelect
    <3>2. Record
      BY <3>1, <2>2 DEF HistoryNext, allVars, vars, RecoverSelect
    <3>3. todo = {} /\ doubled' = doubled \cup {i \in todo' : HasTicket(i)}
      BY <3>1, <3>2 DEF Record, Doubles
    <3> QED
      BY <3>1, <3>3
  <2>3. CASE RecoverSend
    BY <2>3, <1>0 DEF RecoverSend
  <2>4. CASE RecoverFails
    BY <2>4, <1>0 DEF RecoverFails
  <2> QED
    BY <1>4, <2>1, <2>2, <2>3, <2>4 DEF Recovery
<1>5. CASE Crash
  BY <1>5, <1>0 DEF Crash, WorkerIdle, WorkerGo
<1>6. CASE Restart
  BY <1>6, <1>0 DEF Restart
<1>7. CASE UNCHANGED allVars
  BY <1>7 DEF allVars, vars, historyVars
<1> QED
  BY <1>1, <1>2, <1>3, <1>4, <1>5, <1>6, <1>7 DEF HistoryNext, Next

\* The channel, the blocked handlers, the recovery's cursor and the worker never
\* hold an invoice twice, and hold pending invoices only, but for those that
\* were in line already when the recovery opened its cursor.  The worker's
\* claim, which checks no status, then never touches a confirmed or exported
\* invoice.
THEOREM OneTicket == HistorySpec => []SingleTicket
<1>1. HistoryInit => RowInv /\ SingleTicket
  <2>1. HistoryInit => SingleTicket
    BY DEF HistoryInit, Init, SingleTicket, HasTicket, InQueue, Sending, Taken
  <2> QED
    BY <2>1, InitRowInv DEF HistoryInit
<1>2. RowInv /\ SingleTicket /\ [HistoryNext]_allVars => (RowInv /\ SingleTicket)'
  BY HistoryStep, NextRowInv, NextSingleTicket
<1> QED
  BY <1>1, <1>2, PTL DEF HistorySpec

-------------------------------------------------------------------------------
(* Duplicates.  A link is made from a row nobody links to yet (an import),   *)
(* or to a row that is live (the worker's save: the original its lookup      *)
(* found cannot become a duplicate before the save).                         *)

LinksExist ==
  \A i \in Invoices :
    /\ dupOf[i] # NoInvoice => status[dupOf[i]] # "absent"
    /\ status[i] = "absent" => dupOf[i] = NoInvoice

OrigLive ==
  wpc = "save" /\ orig # NoInvoice => Live(orig) /\ orig # cur

LinkInv == LinksExist /\ OrigLive /\ DuplicatesGrounded

\* The effect of a step that makes no new link and leaves no duplicate behind.
LEMMA LinksKept ==
  ASSUME LinkInv, dupOf' = dupOf, reopened \subseteq reopened',
         \A i \in Invoices :
           /\ status'[i] = "absent" => status[i] = "absent"
           /\ status[i] = "absent" => status'[i] = "absent"
           /\ status'[i] = "duplicate" => status[i] = "duplicate"
           /\ status[i] = "duplicate" => status'[i] = "duplicate" \/ i \in reopened',
         TypeOK
  PROVE  (LinksExist /\ DuplicatesGrounded)'
<1> USE DEF LinkInv
<1>1. LinksExist'
  BY DEF LinksExist, TypeOK
<1>2. ASSUME NEW S \in SUBSET {i \in Invoices : status'[i] = "duplicate"}, S # {}
      PROVE  \E i \in S : dupOf'[i] \notin S
  <2>1. S \in SUBSET {i \in Invoices : status[i] = "duplicate"}
    BY <1>2
  <2> QED
    BY <1>2, <2>1 DEF DuplicatesGrounded
<1>3. ASSUME NEW i \in Invoices
      PROVE  /\ status'[i] = "duplicate" => dupOf'[i] # NoInvoice
             /\ dupOf'[i] # NoInvoice => status'[i] = "duplicate" \/ i \in reopened'
  BY DEF DuplicatesGrounded
<1> QED
  BY <1>1, <1>2, <1>3 DEF DuplicatesGrounded

LEMMA NextLinkInv ==
  RowInv /\ LinkInv /\ [HistoryNext]_allVars => LinkInv'
<1> SUFFICES ASSUME RowInv, LinkInv, [HistoryNext]_allVars PROVE LinkInv'
  OBVIOUS
<1>0. wpc # "save" \/ wpc' # "idle" \/ boot' # boot => reopened \subseteq reopened'
  BY HistoryStep
<1>kept. ASSUME dupOf' = dupOf, reopened \subseteq reopened', OrigLive',
             \A i \in Invoices :
               /\ status'[i] = "absent" => status[i] = "absent"
               /\ status[i] = "absent" => status'[i] = "absent"
               /\ status'[i] = "duplicate" => status[i] = "duplicate"
               /\ status[i] = "duplicate" => status'[i] = "duplicate" \/ i \in reopened'
      PROVE  LinkInv'
  BY <1>kept, LinksKept DEF RowInv, LinkInv
<1> USE PipelineAssumption
    DEF TypeOK, RowInv, RowsExist, StaleIdle, WorkOwned, Working, OrigLive, Live,
        Book!Live, bookVars, workerVars, bootVars, requestVars
<1>1. ASSUME NEW r \in Requests, Handler(r) PROVE LinkInv'
  <2> USE DEF Go, Return, SetStatus, Reviewable, Serving, ConnFree
  <2>1. ASSUME NEW f \in Files, ImportCheck(r, f)
        PROVE  LinkInv'
    BY <2>1, <1>0, <1>kept DEF ImportCheck, LinkInv
  <2>2. CASE ImportInsert(r)
    <3>1. PICK i \in Invoices :
            /\ status[i] = "absent"
            /\ dupOf' = [dupOf EXCEPT ![i] = rinv[r]]
            /\ IF rinv[r] = NoInvoice
                 THEN SetStatus(i, "pending") /\ Go(r, "enqueue", i, NoFile)
                 ELSE SetStatus(i, "duplicate") /\ Return(r)
      BY <2>2 DEF ImportInsert
    <3>2. rpc[r] = "insert" /\ UNCHANGED <<queue, workerVars, bootVars>>
      BY <2>2 DEF ImportInsert
    <3>3. /\ rinv[r] # i
          /\ \A j \in Invoices : dupOf[j] # i
          /\ OrigLive /\ LinksExist
          /\ wpc = "save" /\ orig # NoInvoice => orig # i
      BY <3>1, <3>2 DEF LinkInv, LinksExist
    <3>4. OrigLive'
      BY <3>1, <3>2, <3>3
    <3>5. LinksExist'
      BY <3>1, <3>2, <3>3 DEF LinksExist
    <3>6. reopened \subseteq reopened'
      <4>1. wpc = "save" => wpc' # "idle"
        BY <3>2
      <4> QED
        BY <1>0, <4>1
    <3>7. ASSUME NEW S \in SUBSET {j \in Invoices : status'[j] = "duplicate"}, S # {},
                 \A j \in S : dupOf'[j] \in S
          PROVE  FALSE
      <4>1. \A j \in S \ {i} : status[j] = "duplicate" /\ dupOf'[j] = dupOf[j]
        BY <3>1, <3>7
      <4>2. \A j \in S \ {i} : dupOf[j] \in S \ {i}
        BY <3>3, <3>7, <4>1
      <4>3. S \ {i} # {}
        <5>1. CASE i \notin S
          BY <3>7, <5>1
        <5>2. CASE i \in S
          <6>1. rinv[r] \in S
            BY <3>1, <3>7, <5>2
          <6> QED
            BY <3>3, <6>1
        <5> QED
          BY <5>1, <5>2
      <4>4. S \ {i} \in SUBSET {j \in Invoices : status[j] = "duplicate"}
        BY <4>1
      <4> QED
        BY <4>2, <4>3, <4>4 DEF LinkInv, DuplicatesGrounded
    <3>8. \A j \in Invoices :
            /\ status'[j] = "duplicate" => dupOf'[j] # NoInvoice
            /\ dupOf'[j] # NoInvoice => status'[j] = "duplicate" \/ j \in reopened'
      BY <3>1, <3>6 DEF LinkInv, DuplicatesGrounded
    <3> QED
      BY <3>4, <3>5, <3>7, <3>8 DEF LinkInv, DuplicatesGrounded
  <2>3. CASE Enqueue(r)
    BY <2>3, <1>0, <1>kept DEF Enqueue, LinkInv
  <2>4. ASSUME NEW i \in Invoices, EditRead(r, i)
        PROVE  LinkInv'
    BY <2>4, <1>0, <1>kept DEF EditRead, LinkInv
  <2>5. ASSUME NEW k \in Keys, EditWrite(r, k)
        PROVE  LinkInv'
    BY <2>5, <1>0, <1>kept DEF EditWrite, LinkInv
  <2>6. ASSUME NEW i \in Invoices, ScheduleReprocess(r, i)
        PROVE  LinkInv'
    BY <2>6, <1>0, <1>kept DEF ScheduleReprocess, LinkInv
  <2>7. ASSUME NEW i \in Invoices, ExportLoad(r, i)
        PROVE  LinkInv'
    BY <2>7, <1>0, <1>kept DEF ExportLoad, LinkInv
  <2>8. CASE MarkInvoicesExported(r)
    BY <2>8, <1>0, <1>kept DEF MarkInvoicesExported, LinkInv
  <2>9. CASE RequestDropped(r)
    BY <2>9, <1>0, <1>kept DEF RequestDropped, LinkInv
  <2> QED
    BY <1>1, <2>1, <2>2, <2>3, <2>4, <2>5, <2>6, <2>7, <2>8, <2>9 DEF Handler
<1>2. ASSUME NEW i \in Invoices, ConfirmInvoice(i) PROVE LinkInv'
  BY <1>2, <1>0, <1>kept DEF ConfirmInvoice, SetStatus, Serving, ConnFree, LinkInv
<1>3. CASE Worker
  <2> USE DEF WorkerGo, WorkerIdle, SetStatus, ConnFree
  <2>1. CASE WorkerTake
    BY <2>1, HeadTailProperties, <1>0, <1>kept DEF WorkerTake, LinkInv
  <2>2. CASE WorkerClaim
    <3>1. /\ wpc = "taken" /\ cur \in Invoices /\ wpc' = "extract"
          /\ status[cur] # "absent"
          /\ SetStatus(cur, "processing") /\ dupOf' = dupOf
      BY <2>2 DEF WorkerClaim
    <3>2. reopened \subseteq reopened'
      BY <1>0, <3>1
    <3>3. status[cur] = "duplicate" => cur \in reopened'
      <4>1. Record
        BY <3>1 DEF HistoryNext, allVars, vars
      <4> QED
        BY <2>2, <4>1 DEF Record
    <3> QED
      BY <1>kept, <3>1, <3>2, <3>3
  <2>3. CASE WorkerClaimFails
    BY <2>3, <1>0, <1>kept DEF WorkerClaimFails, LinkInv
  <2>4. CASE WorkerExtract
    BY <2>4, <1>0, <1>kept DEF WorkerExtract, LinkInv
  <2>5. CASE WorkerDedup
    BY <2>5, <1>0, <1>kept DEF WorkerDedup, LinkInv
  <2>6. CASE WorkerSave
    <3>1. /\ wpc = "save" /\ status[cur] = "processing" /\ cur \in Invoices
          /\ dupOf' = [dupOf EXCEPT ![cur] = orig]
          /\ SetStatus(cur, IF orig = NoInvoice THEN "processed" ELSE "duplicate")
          /\ WorkerIdle /\ boot' = boot
      BY <2>6 DEF WorkerSave
    <3>2. orig # NoInvoice => /\ orig \in Invoices /\ orig # cur
                              /\ status[orig] \notin {"absent", "duplicate"}
      BY <3>1 DEF LinkInv
    <3>3. OrigLive'
      BY <3>1
    <3>4. LinksExist'
      BY <3>1, <3>2 DEF LinkInv, LinksExist
    <3>5. reopened' = reopened \ {cur}
      <4>1. Record
        BY <3>1 DEF HistoryNext, allVars, vars
      <4>2. ~WorkerClaim
        BY <3>1 DEF WorkerClaim
      <4> QED
        BY <2>6, <4>1, <4>2 DEF Record
    <3>6. \A j \in Invoices :
            /\ status'[j] = "duplicate" => dupOf'[j] # NoInvoice
            /\ dupOf'[j] # NoInvoice => status'[j] = "duplicate" \/ j \in reopened'
      BY <3>1, <3>5 DEF LinkInv, DuplicatesGrounded
    <3>7. ASSUME NEW S \in SUBSET {j \in Invoices : status'[j] = "duplicate"}, S # {},
                 \A j \in S : dupOf'[j] \in S
          PROVE  FALSE
      <4>1. cur \notin S
        <5>1. cur \in S => orig \in S /\ orig # NoInvoice
          BY <3>1, <3>7
        <5>2. orig # NoInvoice => status'[orig] # "duplicate"
          BY <3>1, <3>2
        <5> QED
          BY <3>7, <5>1, <5>2
      <4>2. /\ S \in SUBSET {j \in Invoices : status[j] = "duplicate"}
            /\ \A j \in S : dupOf[j] \in S
        BY <3>1, <3>7, <4>1
      <4> QED
        BY <3>7, <4>2 DEF LinkInv, DuplicatesGrounded
    <3> QED
      BY <3>3, <3>4, <3>6, <3>7 DEF LinkInv, DuplicatesGrounded
  <2>7. CASE WorkerSaveFails
    BY <2>7, <1>0, <1>kept DEF WorkerSaveFails, LinkInv
  <2>8. CASE WorkerFail
    BY <2>8, <1>0, <1>kept DEF WorkerFail, LinkInv
  <2> QED
    BY <1>3, <2>1, <2>2, <2>3, <2>4, <2>5, <2>6, <2>7, <2>8 DEF Worker
<1>4. CASE Recovery
  <2>1. CASE RecoverReset
    BY <2>1, <1>0, <1>kept DEF RecoverReset, LinkInv
  <2>2. CASE RecoverSelect
    BY <2>2, <1>0, <1>kept DEF RecoverSelect, LinkInv
  <2>3. CASE RecoverSend
    BY <2>3, <1>0, <1>kept DEF RecoverSend, LinkInv
  <2>4. CASE RecoverFails
    BY <2>4, <1>0, <1>kept DEF RecoverFails, LinkInv
  <2> QED
    BY <1>4, <2>1, <2>2, <2>3, <2>4 DEF Recovery
<1>5. CASE Crash
  BY <1>5, <1>0, <1>kept DEF Crash, WorkerIdle, WorkerGo, LinkInv
<1>6. CASE Restart
  BY <1>6, <1>0, <1>kept DEF Restart, LinkInv
<1>7. CASE UNCHANGED allVars
  <2>1. UNCHANGED <<status, dupOf, reopened, wpc, orig, cur>>
    BY <1>7 DEF allVars, vars, historyVars
  <2> QED
    BY <1>kept, <2>1 DEF LinkInv
<1> QED
  BY <1>1, <1>2, <1>3, <1>4, <1>5, <1>6, <1>7 DEF HistoryNext, Next

\* Every chain of duplicate_of_id links ends at an invoice that is not a
\* duplicate; all duplicates have a link, and besides them only those that the
\* worker began a second time.
THEOREM DuplicatesAreGrounded == HistorySpec => []DuplicatesGrounded
<1>1. HistoryInit => RowInv /\ LinkInv
  BY InitRowInv, PipelineAssumption
  DEF HistoryInit, Init, Book!BookInit, LinkInv, LinksExist, OrigLive,
      DuplicatesGrounded
<1>2. RowInv /\ LinkInv /\ [HistoryNext]_allVars => (RowInv /\ LinkInv)'
  BY HistoryStep, NextRowInv, NextLinkInv
<1>3. LinkInv => DuplicatesGrounded
  BY DEF LinkInv
<1> QED
  BY <1>1, <1>2, <1>3, PTL DEF HistorySpec

-------------------------------------------------------------------------------
(* Refinement.                                                              *)

LEMMA StepImplements ==
  RowInv /\ SingleTicket /\ LinkInv /\ [HistoryNext]_allVars
    => [Workflow!BookNext]_(Workflow!bookVars)
<1> SUFFICES ASSUME RowInv, SingleTicket, LinkInv, [HistoryNext]_allVars
             PROVE  Workflow!BookNext \/ UNCHANGED Workflow!bookVars
  OBVIOUS
<1>0. boot' # "down" /\ todo' \subseteq todo => doubled' = doubled
  BY HistoryStep
<1> USE PipelineAssumption
    DEF TypeOK, RowInv, LinkInv, bookVars, bootVars, Workflow!bookVars, Workflow!rowVars
<1>1. ASSUME NEW r \in Requests, Handler(r) PROVE Workflow!BookNext \/ UNCHANGED Workflow!bookVars
  <2> USE DEF Go, Return, SetStatus, Reviewable, Serving, ConnFree
  <2>1. ASSUME NEW f \in Files, ImportCheck(r, f)
        PROVE  Workflow!BookNext \/ UNCHANGED Workflow!bookVars
    BY <2>1, <1>0 DEF ImportCheck
  <2>2. CASE ImportInsert(r)
    <3>1. PICK i \in Invoices :
            /\ status[i] = "absent"
            /\ dupOf' = [dupOf EXCEPT ![i] = rinv[r]]
            /\ IF rinv[r] = NoInvoice
                 THEN SetStatus(i, "pending") ELSE SetStatus(i, "duplicate")
      BY <2>2 DEF ImportInsert
    <3>2. rpc[r] = "insert" /\ UNCHANGED key /\ doubled' = doubled
      BY <2>2, <1>0 DEF ImportInsert
    <3>3. CASE rinv[r] = NoInvoice
      <4>1. dupOf' = dupOf
        BY <3>1, <3>3 DEF LinksExist
      <4>2. Workflow!Register(i)
        BY <3>1, <3>2, <3>3, <4>1 DEF Workflow!Register, Workflow!Move
      <4> QED
        BY <4>2 DEF Workflow!BookNext
    <3>4. CASE rinv[r] # NoInvoice
      <4>1. Workflow!RegisterDuplicate(i, rinv[r])
        BY <3>1, <3>2, <3>4 DEF RowsExist, Workflow!RegisterDuplicate, Workflow!Move
      <4>2. rinv[r] \in Invoices
        BY <3>4
      <4> QED
        BY <4>1, <4>2 DEF Workflow!BookNext
    <3> QED
      BY <3>3, <3>4
  <2>3. CASE Enqueue(r)
    BY <2>3, <1>0 DEF Enqueue
  <2>4. ASSUME NEW i \in Invoices, EditRead(r, i)
        PROVE  Workflow!BookNext \/ UNCHANGED Workflow!bookVars
    BY <2>4, <1>0 DEF EditRead
  <2>5. ASSUME NEW k \in Keys, EditWrite(r, k)
        PROVE  Workflow!BookNext \/ UNCHANGED Workflow!bookVars
    <3>1. /\ rinv[r] \in Invoices /\ status[rinv[r]] # "absent"
          /\ UNCHANGED <<status, dupOf>> /\ doubled' = doubled
      BY <2>5, <1>0 DEF EditWrite, RowsExist
    <3>2. CASE Live(rinv[r]) /\ KeyTaken(rinv[r], k)
      BY <2>5, <3>1, <3>2 DEF EditWrite
    <3>3. CASE ~(Live(rinv[r]) /\ KeyTaken(rinv[r], k))
      <4>1. Workflow!Amend(rinv[r], k)
        BY <2>5, <3>1, <3>3
        DEF EditWrite, Live, KeyTaken, Workflow!Amend, Workflow!Live,
            Workflow!KeyTaken, Book!Live, Book!KeyTaken
      <4> QED
        BY <3>1, <4>1 DEF Workflow!BookNext
    <3> QED
      BY <3>2, <3>3
  <2>6. ASSUME NEW i \in Invoices, ScheduleReprocess(r, i)
        PROVE  Workflow!BookNext \/ UNCHANGED Workflow!bookVars
    <3>1. Workflow!Redo(i)
      BY <2>6, <1>0 DEF ScheduleReprocess, Workflow!Redo, Workflow!Move
    <3> QED
      BY <3>1 DEF Workflow!BookNext
  <2>7. ASSUME NEW i \in Invoices, ExportLoad(r, i)
        PROVE  Workflow!BookNext \/ UNCHANGED Workflow!bookVars
    BY <2>7, <1>0 DEF ExportLoad
  <2>8. CASE MarkInvoicesExported(r)
    <3>1. rinv[r] \in Invoices /\ UNCHANGED <<key, dupOf>> /\ doubled' = doubled
      BY <2>8, <1>0 DEF MarkInvoicesExported
    <3>2. CASE status[rinv[r]] = "ready_for_export"
      <4>1. Workflow!Export(rinv[r])
        BY <2>8, <3>1, <3>2 DEF MarkInvoicesExported, Workflow!Export, Workflow!Move
      <4> QED
        BY <3>1, <4>1 DEF Workflow!BookNext
    <3>3. CASE status[rinv[r]] # "ready_for_export"
      BY <2>8, <3>1, <3>3 DEF MarkInvoicesExported
    <3> QED
      BY <3>2, <3>3
  <2>9. CASE RequestDropped(r)
    BY <2>9, <1>0 DEF RequestDropped
  <2> QED
    BY <1>1, <2>1, <2>2, <2>3, <2>4, <2>5, <2>6, <2>7, <2>8, <2>9 DEF Handler
<1>2. ASSUME NEW i \in Invoices, ConfirmInvoice(i) PROVE Workflow!BookNext \/ UNCHANGED Workflow!bookVars
  <2>1. Workflow!Confirm(i)
    BY <1>2, <1>0
    DEF ConfirmInvoice, Serving, ConnFree, SetStatus, Workflow!Confirm, Workflow!Move
  <2> QED
    BY <2>1 DEF Workflow!BookNext
<1>3. CASE Worker
  <2> USE DEF WorkerGo, WorkerIdle, SetStatus, ConnFree
  <2>1. CASE WorkerTake
    BY <2>1, HeadTailProperties, <1>0 DEF WorkerTake
  <2>2. CASE WorkerClaim
    <3>1. cur \in Invoices /\ status[cur] # "absent" /\ doubled' = doubled
      BY <2>2, <1>0 DEF WorkerClaim, RowsExist
    <3>2. cur \notin doubled => status[cur] = "pending"
      BY <2>2 DEF WorkerClaim, SingleTicket, HasTicket, Taken
    <3>3. status[cur] \in IF cur \in doubled THEN Workflow!Statuses \ {"absent"}
                          ELSE {"pending"}
      BY <3>1, <3>2 DEF Statuses, Book!Statuses, Workflow!Statuses
    <3>4. key[cur] = NoKey \/ ~Workflow!KeyTaken(cur, key[cur])
      BY <2>2 DEF WorkerClaim, IndexRejects, KeyTaken, Book!KeyTaken, Book!Live,
         Workflow!KeyTaken, Workflow!Live
    <3>5. Workflow!Begin(cur)
      BY <2>2, <3>1, <3>3, <3>4 DEF WorkerClaim, Workflow!Begin, Workflow!Move
    <3> QED
      BY <3>1, <3>5 DEF Workflow!BookNext
  <2>3. CASE WorkerClaimFails
    BY <2>3, <1>0 DEF WorkerClaimFails
  <2>4. CASE WorkerExtract
    BY <2>4, <1>0 DEF WorkerExtract
  <2>5. CASE WorkerDedup
    BY <2>5, <1>0 DEF WorkerDedup
  <2>6. CASE WorkerSave
    <3>1. cur \in Invoices /\ status[cur] = "processing" /\ found \in Keys
      BY <2>6 DEF WorkerSave, WorkOwned, Working
    <3>2. /\ key' = [key EXCEPT ![cur] = found]
          /\ dupOf' = [dupOf EXCEPT ![cur] = orig]
          /\ doubled' = doubled
      BY <2>6, <1>0 DEF WorkerSave
    <3>3. CASE orig = NoInvoice
      <4>1. ~Workflow!KeyTaken(cur, found)
        BY <2>6, <3>3 DEF WorkerSave, KeyTaken, Book!KeyTaken, Book!Live,
           Workflow!KeyTaken, Workflow!Live
      <4>2. Workflow!Publish(cur, found)
        BY <2>6, <3>1, <3>2, <3>3, <4>1
        DEF WorkerSave, Workflow!Publish, Workflow!Move
      <4> QED
        BY <3>1, <4>2 DEF Workflow!BookNext
    <3>4. CASE orig # NoInvoice
      <4>1. orig \in Invoices /\ orig # cur /\ Live(orig)
        BY <2>6, <3>4 DEF WorkerSave, OrigLive
      <4>2. Workflow!MarkDuplicate(cur, orig, found)
        BY <2>6, <3>1, <3>2, <3>4, <4>1
        DEF WorkerSave, Live, Book!Live, Workflow!Live, Workflow!MarkDuplicate,
            Workflow!Move
      <4> QED
        BY <3>1, <4>1, <4>2 DEF Workflow!BookNext
    <3> QED
      BY <3>3, <3>4
  <2>7. CASE WorkerSaveFails
    BY <2>7, <1>0 DEF WorkerSaveFails
  <2>8. CASE WorkerFail
    <3>1. /\ cur \in Invoices /\ status[cur] = "processing"
          /\ UNCHANGED <<key, dupOf>> /\ doubled' = doubled
      BY <2>8, <1>0 DEF WorkerFail, WorkOwned, Working
    <3>2. CASE SetStatus(cur, "failed")
      <4>1. Workflow!Fail(cur)
        BY <3>1, <3>2 DEF Workflow!Fail, Workflow!Move
      <4> QED
        BY <3>1, <4>1 DEF Workflow!BookNext
    <3>3. CASE UNCHANGED status
      BY <3>1, <3>3
    <3> QED
      BY <2>8, <3>2, <3>3 DEF WorkerFail
  <2> QED
    BY <1>3, <2>1, <2>2, <2>3, <2>4, <2>5, <2>6, <2>7, <2>8 DEF Worker
<1>4. CASE Recovery
  <2>1. CASE RecoverReset
    <3> DEFINE S == {i \in stale : status[i] = "processing"}
    <3>1. S \in SUBSET Invoices
      OBVIOUS
    <3>2. Workflow!Interrupt(S)
      BY <2>1, <1>0 DEF RecoverReset, Workflow!Interrupt
    <3> QED
      BY <3>1, <3>2 DEF Workflow!BookNext
  <2>2. CASE RecoverSelect
    <3>1. /\ boot = "select" /\ boot' # "down" /\ UNCHANGED bookVars
          /\ todo' = {i \in Invoices : status[i] = "pending"}
      BY <2>2 DEF RecoverSelect
    <3>2. Record
      BY <3>1, <2>2 DEF HistoryNext, allVars, vars, RecoverSelect
    <3>3. Doubles \in SUBSET Invoices /\ \A i \in Doubles : status[i] = "pending"
      BY <3>1 DEF Doubles
    <3>4. Workflow!LineUpAgain(Doubles)
      BY <3>1, <3>2, <3>3 DEF Record, Workflow!LineUpAgain
    <3> QED
      BY <3>3, <3>4 DEF Workflow!BookNext
  <2>3. CASE RecoverSend
    BY <2>3, <1>0 DEF RecoverSend
  <2>4. CASE RecoverFails
    BY <2>4, <1>0 DEF RecoverFails
  <2> QED
    BY <1>4, <2>1, <2>2, <2>3, <2>4 DEF Recovery
<1>5. CASE Crash
  <2>1. boot # "down" /\ boot' = "down" /\ UNCHANGED bookVars
    BY <1>5 DEF Crash
  <2>2. Record
    BY <2>1 DEF HistoryNext, allVars, vars
  <2>3. Workflow!Forget
    BY <2>1, <2>2 DEF Record, Workflow!Forget
  <2> QED
    BY <2>3 DEF Workflow!BookNext
<1>6. CASE Restart
  BY <1>6, <1>0 DEF Restart
<1>7. CASE UNCHANGED allVars
  BY <1>7 DEF allVars, vars, historyVars
<1> QED
  BY <1>1, <1>2, <1>3, <1>4, <1>5, <1>6, <1>7 DEF HistoryNext, Next

\* The pipeline implements the atomic book of InvoiceLifecycle: its status
\* changes are the permitted ones, an extraction is published only while no live
\* invoice holds its key, and a duplicate is made of a live original, although
\* lookup and save are separate transactions.  The invoices that the book lets
\* the worker begin again are exactly those that had two tickets at a boot.
THEOREM Refinement == HistorySpec => ImplementsLifecycle
<1>1. HistoryInit => Workflow!BookInit
  BY DEF HistoryInit, Init, Book!BookInit, Workflow!BookInit
<1>2. HistoryInit => RowInv /\ LinkInv
  BY InitRowInv, PipelineAssumption
  DEF HistoryInit, Init, Book!BookInit, LinkInv, LinksExist, OrigLive,
      DuplicatesGrounded
<1>3. RowInv /\ LinkInv /\ [HistoryNext]_allVars => (RowInv /\ LinkInv)'
  BY HistoryStep, NextRowInv, NextLinkInv
<1>4. RowInv /\ SingleTicket /\ LinkInv /\ [HistoryNext]_allVars
        => [Workflow!BookNext]_(Workflow!bookVars)
  BY StepImplements
<1>5. HistorySpec => []SingleTicket
  BY OneTicket
<1> QED
  BY <1>1, <1>2, <1>3, <1>4, <1>5, PTL
  DEF HistorySpec, ImplementsLifecycle, Workflow!BookSpec

-------------------------------------------------------------------------------
(* The recovery and the queue.  When the recovery is stuck, the queue, the    *)
(* worker's hand and the cursor hold QueueCap + 2 invoices; unless some had a  *)
(* ticket before, they are pending, or the worker is at them, and all differ.  *)

CursorHasRows == boot = "send" => todo # {}

LEMMA NextCursorHasRows ==
  CursorHasRows /\ [Next]_vars => CursorHasRows'
<1> SUFFICES ASSUME CursorHasRows, [Next]_vars PROVE CursorHasRows'
  OBVIOUS
<1> USE DEF CursorHasRows, bootVars
<1>1. ASSUME NEW r \in Requests, Handler(r) PROVE CursorHasRows'
  BY <1>1 DEF Handler, ImportCheck, ImportInsert, Enqueue, EditRead, EditWrite,
     ScheduleReprocess, ExportLoad, MarkInvoicesExported, RequestDropped
<1>2. ASSUME NEW i \in Invoices, ConfirmInvoice(i) PROVE CursorHasRows'
  BY <1>2 DEF ConfirmInvoice
<1>3. CASE Worker
  BY <1>3 DEF Worker, WorkerTake, WorkerClaim, WorkerClaimFails, WorkerExtract,
     WorkerDedup, WorkerSave, WorkerSaveFails, WorkerFail
<1>4. CASE RecoverReset
  BY <1>4 DEF RecoverReset
<1>5. CASE RecoverSelect
  BY <1>5 DEF RecoverSelect
<1>6. CASE RecoverSend
  BY <1>6 DEF RecoverSend
<1>7. CASE RecoverFails
  BY <1>7 DEF RecoverFails
<1>8. CASE Crash
  BY <1>8 DEF Crash
<1>9. CASE Restart
  BY <1>9 DEF Restart
<1>10. CASE UNCHANGED vars
  BY <1>10 DEF vars
<1> QED
  BY <1>1, <1>2, <1>3, <1>4, <1>5, <1>6, <1>7, <1>8, <1>9, <1>10 DEF Next, Recovery

LEMMA WedgeHoldsMany ==
  ASSUME IsFiniteSet(Invoices), RowInv, SingleTicket, CursorHasRows, doubled = {},
         boot = "send", Len(queue) = QueueCap, wpc # "idle"
  PROVE  Cardinality({i \in Invoices : status[i] = "pending" \/ i = cur}) >= QueueCap + 2
<1> DEFINE Held == {i \in Invoices : status[i] = "pending" \/ i = cur}
<1> QueueCap \in Nat /\ TypeOK
  BY PipelineAssumption DEF RowInv
<1>1. PICK x \in todo : x \in Invoices /\ HasTicket(x)
  BY DEF CursorHasRows, TypeOK, HasTicket
<1>2. cur \in Invoices /\ (Taken(cur) \/ status[cur] # "pending")
  BY DEF TypeOK, Taken, RowInv, WorkOwned, Working
<1>3. \A n \in 1 .. QueueCap : queue[n] \in Invoices /\ InQueue(queue[n])
  BY DEF TypeOK, InQueue
<1>waiting. /\ status[x] = "pending"
      /\ \A n \in 1 .. QueueCap : status[queue[n]] = "pending"
  BY <1>1, <1>3 DEF SingleTicket, HasTicket
<1> DEFINE hold == [n \in 1 .. (QueueCap + 2) |->
                      IF n <= QueueCap THEN queue[n]
                      ELSE IF n = QueueCap + 1 THEN cur ELSE x]
<1>4. hold \in [1 .. (QueueCap + 2) -> Held]
  <2>1. x \in Held /\ cur \in Held
    BY <1>1, <1>2, <1>waiting
  <2>2. \A n \in 1 .. QueueCap : queue[n] \in Held
    BY <1>3, <1>waiting
  <2> QED
    BY <2>1, <2>2
<1>5. ASSUME NEW m \in 1 .. (QueueCap + 2), NEW n \in 1 .. (QueueCap + 2),
             m < n, hold[m] = hold[n]
      PROVE  FALSE
  <2>1. CASE n <= QueueCap
    BY <1>5, <2>1 DEF SingleTicket
  <2>2. CASE n = QueueCap + 1
    <3>1. queue[m] = cur /\ m \in 1 .. QueueCap
      BY <1>5, <2>2
    <3> QED
      BY <3>1, <1>2, <1>3, <1>waiting DEF SingleTicket
  <2>3. CASE n = QueueCap + 2
    <3>1. m = QueueCap + 1 => cur = x
      BY <1>5, <2>3
    <3>2. m # QueueCap + 1 => queue[m] = x /\ m \in 1 .. QueueCap
      BY <1>5, <2>3
    <3> QED
      BY <3>1, <3>2, <1>1, <1>2, <1>3, <1>waiting DEF SingleTicket
  <2> QED
    BY <2>1, <2>2, <2>3
<1>6. \A m, n \in 1 .. (QueueCap + 2) : hold[m] = hold[n] => m = n
  <2> SUFFICES ASSUME NEW m \in 1 .. (QueueCap + 2),
                      NEW n \in 1 .. (QueueCap + 2), hold[m] = hold[n], m # n
               PROVE  FALSE
    OBVIOUS
  <2>1. m < n \/ n < m
    OBVIOUS
  <2> HIDE DEF hold
  <2> QED
    BY <1>5, <2>1
<1>7. hold \in Injection(1 .. (QueueCap + 2), Held)
  <2> HIDE DEF hold, Held
  <2> QED
    BY <1>4, <1>6 DEF Injection, IsInjective
<1>8. IsFiniteSet(Held) /\ Cardinality(Held) \in Nat
  BY FS_Subset, FS_CardinalityType
<1>9. Cardinality(1 .. (QueueCap + 2)) = QueueCap + 2
  BY FS_Interval
<1> HIDE DEF hold, Held
<1>10. Cardinality(1 .. (QueueCap + 2)) <= Cardinality(Held)
  BY <1>7, <1>8, FS_Injection
<1> QED
  BY <1>8, <1>9, <1>10 DEF Held

\* While at most QueueCap + 1 invoices are pending or in the worker's hand, and no
\* request that came before it put one of them in line, the boot recovery that
\* holds the only connection (recovery.go:48-65) never waits for a worker that
\* waits for the connection.
THEOREM RecoveryFits ==
  ASSUME IsFiniteSet(Invoices)
  PROVE  HistorySpec => []RecoveryFitsQueue
<1>1. HistoryInit => RowInv /\ CursorHasRows
  BY InitRowInv DEF HistoryInit, Init, CursorHasRows
<1>2. RowInv /\ CursorHasRows /\ [HistoryNext]_allVars => (RowInv /\ CursorHasRows)'
  BY HistoryStep, NextRowInv, NextCursorHasRows
<1>3. RowInv /\ CursorHasRows /\ SingleTicket => RecoveryFitsQueue
  <2> DEFINE held == Cardinality({i \in Invoices : status[i] = "pending" \/ i = cur})
  <2> SUFFICES ASSUME RowInv, CursorHasRows, SingleTicket, doubled = {},
                      boot = "send", Len(queue) = QueueCap, wpc # "idle",
                      held <= QueueCap + 1
               PROVE  FALSE
    BY DEF RecoveryFitsQueue
  <2>1. held >= QueueCap + 2
    BY WedgeHoldsMany
  <2>2. held \in Nat /\ QueueCap \in Nat
    BY FS_Subset, FS_CardinalityType, PipelineAssumption
  <2> QED
    BY <2>1, <2>2
<1>4. HistorySpec => []SingleTicket
  BY OneTicket
<1> QED
  BY <1>1, <1>2, <1>3, <1>4, PTL DEF HistorySpec

-------------------------------------------------------------------------------
(* Exported is final in the book but for what it may begin again, and so in a *)
(* pipeline that implements it.                                                *)

LEMMA BookExportedFinal ==
  ASSUME TypeOK, [Workflow!BookNext]_(Workflow!bookVars),
         NEW i \in Invoices \ doubled, status[i] = "exported"
  PROVE  status'[i] = "exported"
<1> USE DEF TypeOK, Workflow!Move
<1>1. CASE UNCHANGED Workflow!bookVars
  BY <1>1 DEF Workflow!bookVars, Workflow!rowVars
<1>2. ASSUME NEW j \in Invoices,
             \/ Workflow!Register(j) \/ Workflow!Begin(j) \/ Workflow!Fail(j)
             \/ Workflow!Confirm(j) \/ Workflow!Redo(j) \/ Workflow!Export(j)
             \/ \E o \in Invoices : Workflow!RegisterDuplicate(j, o)
             \/ \E k \in Keys : Workflow!Publish(j, k) \/ Workflow!Amend(j, k)
             \/ \E o \in Invoices, k \in Keys : Workflow!MarkDuplicate(j, o, k)
      PROVE  status'[i] = "exported"
  BY <1>2
  DEF Workflow!Register, Workflow!Begin, Workflow!Fail, Workflow!Confirm, Workflow!Redo, Workflow!Export,
      Workflow!RegisterDuplicate, Workflow!Publish, Workflow!Amend, Workflow!MarkDuplicate
<1>3. ASSUME NEW S \in SUBSET Invoices, Workflow!Interrupt(S)
      PROVE  status'[i] = "exported"
  BY <1>3 DEF Workflow!Interrupt
<1>4. ASSUME NEW S \in SUBSET Invoices, Workflow!LineUpAgain(S) \/ Workflow!Forget
      PROVE  status'[i] = "exported"
  BY <1>4 DEF Workflow!LineUpAgain, Workflow!Forget, Workflow!rowVars
<1> QED
  BY <1>1, <1>2, <1>3, <1>4 DEF Workflow!BookNext

\* An exported invoice is never reprocessed (invoice.go:272-274), unless it had
\* two tickets at the last boot.
THEOREM ExportedStaysExported == HistorySpec => ExportedNeverReprocessed
<1>1. HistoryInit => RowInv /\ LinkInv
  BY InitRowInv, PipelineAssumption
  DEF HistoryInit, Init, Book!BookInit, LinkInv, LinksExist, OrigLive,
      DuplicatesGrounded
<1>2. RowInv /\ LinkInv /\ [HistoryNext]_allVars => (RowInv /\ LinkInv)'
  BY HistoryStep, NextRowInv, NextLinkInv
<1>3. RowInv /\ SingleTicket /\ LinkInv /\ [HistoryNext]_allVars
        => [\A i \in Invoices \ doubled :
              status[i] = "exported" => status'[i] = "exported"]_allVars
  BY StepImplements, BookExportedFinal DEF RowInv
<1>4. HistorySpec => []SingleTicket
  BY OneTicket
<1> QED
  BY <1>1, <1>2, <1>3, <1>4, PTL DEF HistorySpec, ExportedNeverReprocessed

===============================================================================
