------------------------------ MODULE ReviewProofs ------------------------------
(***************************************************************************)
(* Theorems about the review and the export that follows it.              *)
(*                                                                         *)
(* ReviewQueue, for any number of invoices, seconds, uploads and changes:  *)
(* a walk shows all that waited all along, and the message that all is     *)
(* reviewed is true of what waited since the confirmation.                 *)
(*                                                                         *)
(* Decimal, ExportPayload and ReviewedExport, for any amounts, rows,       *)
(* selections and directories: an amount is read as it is written, a form  *)
(* is stored as it stands, and a payload keeps parties apart, loses no     *)
(* invoice and adds up.                                                    *)
(***************************************************************************)
EXTENDS ReviewQueue, ReviewedExport, FiniteSetTheorems, WellFoundedInduction, TLAPS

LEMMA NextSteps ==
  ASSUME [Next]_vars
  PROVE  \/ \E i \in Invoices : \/ ImportInvoice(i) \/ WorkerPublishes(i)
                                \/ OtherConfirms(i) \/ ScheduleReprocess(i)
         \/ ReviewStart \/ FollowNext \/ FollowPrevious
         \/ ReadInvoice \/ NextUnconfirmedInvoiceID \/ PreviousUnconfirmedInvoiceID
         \/ CountUnconfirmedBefore \/ CountUnconfirmedInvoices
         \/ ReviewQueueFails \/ ErrorPage
         \/ ConfirmInvoice \/ ConfirmFails
         \/ AfterConfirmNext \/ NextLookupFails
         \/ AfterConfirmPrevious \/ PreviousLookupFails
         \/ UNCHANGED vars
BY DEF Next, Page, Confirm

-------------------------------------------------------------------------------
(* The order of the queue                                                  *)

Dated == created \in [Invoices -> 0 .. MaxTime]

LEMMA Ids == Invoices \subseteq Nat /\ None \notin Invoices
BY QueueAssumption DEF Invoices, None

LEMMA Order ==
  ASSUME Dated
  PROVE  /\ \A i \in Invoices : ~Behind(i, i)
         /\ \A i, j \in Invoices : i # j => Behind(i, j) \/ Behind(j, i)
         /\ \A i, j \in Invoices : ~(Behind(i, j) /\ Behind(j, i))
         /\ \A i, j, k \in Invoices : Behind(i, j) /\ Behind(j, k) => Behind(i, k)
<1>1. \A i \in Invoices : created[i] \in Nat /\ i \in Nat
  BY Ids, QueueAssumption DEF Dated
<1>. QED
  BY <1>1 DEF Behind

LEMMA OrderKept ==
  ASSUME UNCHANGED created
  PROVE  \A i, j : Behind(i, j)' <=> Behind(i, j)
BY DEF Behind

LEMMA SmallestOf ==
  ASSUME NEW S \in SUBSET Nat, S # {}
  PROVE  \E x \in S : \A y \in S : x <= y
<1>1. PICK x \in S : \A y \in S : ~(<<y, x>> \in OpToRel(<, Nat))
  BY NatLessThanWellFounded, WFMin
<1>2. \A y \in S : ~(y < x)
  BY <1>1 DEF OpToRel
<1>. QED
  BY <1>2

\* Times and ids are bounded, so a set of invoices has a first and a last one.
LEMMA NewestExists ==
  ASSUME Dated, NEW S \in SUBSET Invoices, S # {}
  PROVE  \E i \in S : \A j \in S \ {i} : Behind(j, i)
<1>1. \A i \in Invoices : /\ created[i] \in Nat /\ MaxTime - created[i] \in Nat
                          /\ i \in Nat /\ MaxInvoice - i \in Nat
  BY QueueAssumption DEF Dated, Invoices
<1>. DEFINE Ages == {MaxTime - created[i] : i \in S}
<1>2. Ages \in SUBSET Nat /\ Ages # {}
  BY <1>1
<1>3. PICK a \in Ages : \A b \in Ages : a <= b
  BY <1>2, SmallestOf
<1>. DEFINE T == {i \in S : MaxTime - created[i] = a}
            Ranks == {MaxInvoice - i : i \in T}
<1>4. T # {} /\ T \subseteq S
  BY <1>3
<1>5. Ranks \in SUBSET Nat /\ Ranks # {}
  BY <1>1, <1>4
<1>6. PICK m \in Ranks : \A b \in Ranks : m <= b
  BY <1>5, SmallestOf
<1>7. PICK i \in T : m = MaxInvoice - i
  BY <1>6
<1>8. ASSUME NEW j \in S \ {i} PROVE Behind(j, i)
  <2>1. MaxTime - created[i] <= MaxTime - created[j]
    BY <1>3, <1>7
  <2>2. created[j] <= created[i]
    BY <1>1, <1>4, <1>7, <2>1, QueueAssumption
  <2>3. CASE created[j] = created[i]
    <3>1. MaxTime - created[i] = a /\ j \in S
      BY <1>7
    <3>2. j \in T
      BY <2>3, <3>1
    <3>3. MaxInvoice - i <= MaxInvoice - j
      BY <1>6, <1>7, <3>2
    <3>4. j < i
      BY <1>1, <1>4, <1>7, <1>8, <3>3, QueueAssumption
    <3>. QED
      BY <2>3, <3>4 DEF Behind
  <2>4. CASE created[j] # created[i]
    BY <1>1, <1>4, <1>7, <2>2, <2>4 DEF Behind
  <2>. QED
    BY <2>3, <2>4
<1>. QED
  BY <1>4, <1>7, <1>8

LEMMA OldestExists ==
  ASSUME Dated, NEW S \in SUBSET Invoices, S # {}
  PROVE  \E i \in S : \A j \in S \ {i} : Behind(i, j)
<1>1. \A i \in Invoices : created[i] \in Nat /\ i \in Nat
  BY Ids, QueueAssumption DEF Dated
<1>. DEFINE Times == {created[i] : i \in S}
<1>2. Times \in SUBSET Nat /\ Times # {}
  BY <1>1
<1>3. PICK a \in Times : \A b \in Times : a <= b
  BY <1>2, SmallestOf
<1>. DEFINE T == {i \in S : created[i] = a}
<1>4. T # {} /\ T \subseteq S /\ T \in SUBSET Nat
  BY <1>1, <1>3
<1>5. PICK i \in T : \A b \in T : i <= b
  BY <1>4, SmallestOf
<1>6. ASSUME NEW j \in S \ {i} PROVE Behind(i, j)
  <2>1. created[i] <= created[j]
    BY <1>3, <1>5
  <2>2. CASE created[j] = created[i]
    <3>1. j \in T
      BY <1>5, <2>2
    <3>2. i <= j
      BY <1>5, <3>1
    <3>. QED
      BY <1>1, <1>4, <1>5, <1>6, <2>2, <3>2 DEF Behind
  <2>3. CASE created[j] # created[i]
    BY <1>1, <1>4, <1>5, <2>1, <2>3 DEF Behind
  <2>. QED
    BY <2>2, <2>3
<1>. QED
  BY <1>4, <1>5, <1>6

LEMMA FirstOfEffect ==
  ASSUME Dated, NEW S \in SUBSET Invoices
  PROVE  /\ FirstOf(S) = None => S = {}
         /\ FirstOf(S) # None => /\ FirstOf(S) \in S
                                 /\ \A j \in S : j = FirstOf(S) \/ Behind(j, FirstOf(S))
<1>1. CASE S = {}
  BY <1>1 DEF FirstOf
<1>2. CASE S # {}
  <2>1. FirstOf(S) \in S /\ \A j \in S \ {FirstOf(S)} : Behind(j, FirstOf(S))
    BY <1>2, NewestExists DEF FirstOf
  <2>. QED
    BY <2>1, Ids
<1>. QED
  BY <1>1, <1>2

LEMMA LastOfEffect ==
  ASSUME Dated, NEW S \in SUBSET Invoices
  PROVE  /\ LastOf(S) = None => S = {}
         /\ LastOf(S) # None => LastOf(S) \in S
<1>1. CASE S = {}
  BY <1>1 DEF LastOf
<1>2. CASE S # {}
  <2>1. LastOf(S) \in S
    BY <1>2, OldestExists DEF LastOf
  <2>. QED
    BY <2>1, Ids
<1>. QED
  BY <1>1, <1>2

-------------------------------------------------------------------------------
(* The invariant                                                           *)

Types ==
  /\ Dated /\ status \in [Invoices -> {"absent", "waiting", "processed", "failed",
                                       "ready_for_export"}]
  /\ pc \in {"list", "page", "read", "next", "prev", "before", "total", "after",
             "afterNone"}
  /\ at \in Invoices \cup {None} /\ (pc # "list" => at # None)
  /\ next \in Invoices \cup {None} /\ prev \in Invoices \cup {None}
  /\ shown \subseteq Invoices

\* Nothing refers to a row that is not there, and the histories name the queue.
Present ==
  /\ walk \subseteq Queue /\ since \subseteq Queue
  /\ \A i \in {at, next, prev} : i # None => status[i] # "absent"

\* The walk has shown all that is in front of the invoice requested, and this one
\* once it is read.
FrontShown ==
  /\ pc # "list" => \A j \in walk : Behind(at, j) => j \in shown
  /\ pc \notin {"list", "read"} => at \in shown

\* The link to the next invoice skips none, and when there is none nothing is left,
\* unless the page is without its position; the link to the previous leads back.
LinksFit ==
  /\ pc \in {"read", "next"} => next = None
  /\ pc \in {"prev", "before", "total", "page"} =>
       /\ next # None => \A j \in walk : Behind(j, at) => j = next \/ Behind(j, next)
       /\ (next = None /\ at \in walk /\ (pc = "page" => total # 0)) =>
            \A j \in walk : ~Behind(j, at)
  /\ pc # "list" /\ prev # None => Behind(at, prev)

\* Behind a confirmed invoice nothing is left when the look goes back.
RestInFront ==
  pc = "afterNone" /\ ~failed => \A j \in since : Behind(at, j)

WalkInv == Types /\ Present /\ FrontShown /\ LinksFit /\ RestInFront

LEMMA QueueTyped == Queue \subseteq Invoices
BY DEF Queue

\* What the queries for the head, the next and the previous invoice return.
LEMMA Results ==
  ASSUME Types
  PROVE  /\ FirstOf(Queue) = None => Queue = {}
         /\ FirstOf(Queue) # None =>
              /\ FirstOf(Queue) \in Queue
              /\ \A j \in Queue : j = FirstOf(Queue) \/ Behind(j, FirstOf(Queue))
         /\ LET x == FirstOf({j \in Queue : Behind(j, at)})
            IN  /\ x = None => \A j \in Queue : ~Behind(j, at)
                /\ x # None => /\ x \in Queue /\ Behind(x, at)
                               /\ \A j \in Queue : Behind(j, at) => j = x \/ Behind(j, x)
         /\ LET x == LastOf({j \in Queue : Behind(at, j)})
            IN  /\ x = None => \A j \in Queue : ~Behind(at, j)
                /\ x # None => x \in Queue /\ Behind(at, x)
<1>1. Dated /\ Queue \in SUBSET Invoices
  BY DEF Types, Queue
<1>2. /\ {j \in Queue : Behind(j, at)} \in SUBSET Invoices
      /\ {j \in Queue : Behind(at, j)} \in SUBSET Invoices
  BY <1>1
<1>3. /\ FirstOf(Queue) = None => Queue = {}
      /\ FirstOf(Queue) # None =>
           /\ FirstOf(Queue) \in Queue
           /\ \A j \in Queue : j = FirstOf(Queue) \/ Behind(j, FirstOf(Queue))
  BY <1>1, FirstOfEffect
<1>4. LET S == {j \in Queue : Behind(j, at)}
          x == FirstOf(S)
      IN  /\ x = None => S = {}
          /\ x # None => x \in S /\ \A j \in S : j = x \/ Behind(j, x)
  BY <1>1, <1>2, FirstOfEffect
<1>5. LET S == {j \in Queue : Behind(at, j)}
          x == LastOf(S)
      IN  /\ x = None => S = {}
          /\ x # None => x \in S
  BY <1>1, <1>2, LastOfEffect
<1>. QED
  BY <1>3, <1>4, <1>5

\* After a confirmation the reviewer is led on, or looks back, or is done.
LEMMA AfterConfirmEffect ==
  ASSUME Types, AfterConfirmNext \/ AfterConfirmPrevious
  PROVE  /\ UNCHANGED <<status, created, walk, shown>>
         /\ \/ \E x \in Queue : /\ pc' = "read" /\ at' = x /\ next' = None /\ prev' = None
                                /\ Behind(x, at) \/ Behind(at, x)
                                /\ Behind(x, at) =>
                                     \A j \in Queue : Behind(j, at) => j = x \/ Behind(j, x)
            \/ /\ pc = "after" /\ pc' = "afterNone" /\ UNCHANGED <<at, next, prev, failed>>
               /\ \A j \in Queue : ~Behind(j, at)
            \/ /\ pc = "afterNone" /\ pc' = "list" /\ at' = None
               /\ UNCHANGED <<next, prev, since, failed>>
               /\ \A j \in Queue : ~Behind(at, j)
<1>1. CASE AfterConfirmNext
  <2>. DEFINE x == FirstOf({k \in Queue : Behind(k, at)})
  <2>1. CASE x # None
    <3>1. Fetch(x) /\ UNCHANGED <<status, created, walk, shown>>
      BY <1>1, <2>1 DEF AfterConfirmNext, rows
    <3>2. x \in Queue /\ Behind(x, at) /\ \A j \in Queue : Behind(j, at) => j = x \/ Behind(j, x)
      BY <2>1, Results
    <3>. QED
      BY <3>1, <3>2 DEF Fetch
  <2>2. CASE x = None
    <3>1. /\ pc = "after" /\ pc' = "afterNone" /\ UNCHANGED <<at, next, prev, failed>>
          /\ UNCHANGED <<status, created, walk, shown>>
      BY <1>1, <2>2 DEF AfterConfirmNext, rows
    <3>2. \A j \in Queue : ~Behind(j, at)
      BY <2>2, Results
    <3>. QED
      BY <3>1, <3>2
  <2>. QED
    BY <2>1, <2>2
<1>2. CASE AfterConfirmPrevious
  <2>. DEFINE x == LastOf({k \in Queue : Behind(at, k)})
  <2>1. CASE x # None
    <3>1. Fetch(x) /\ UNCHANGED <<status, created, walk, shown>>
      BY <1>2, <2>1 DEF AfterConfirmPrevious, rows
    <3>2. x \in Queue /\ Behind(at, x)
      BY <2>1, Results
    <3>3. at \in Invoices /\ x \in Invoices
      BY <1>2, <3>2, QueueTyped DEF AfterConfirmPrevious, Types
    <3>4. ~Behind(x, at)
      BY <3>2, <3>3, Order DEF Types
    <3>. QED
      BY <3>1, <3>2, <3>4 DEF Fetch
  <2>2. CASE x = None
    <3>1. /\ pc = "afterNone" /\ pc' = "list" /\ at' = None
          /\ UNCHANGED <<next, prev, since, failed>>
          /\ UNCHANGED <<status, created, walk, shown>>
      BY <1>2, <2>2 DEF AfterConfirmPrevious, rows
    <3>2. \A j \in Queue : ~Behind(at, j)
      BY <2>2, Results
    <3>. QED
      BY <3>1, <3>2
  <2>. QED
    BY <2>1, <2>2
<1>. QED
  BY <1>1, <1>2

\* The types.
LEMMA TypesStep ==
  ASSUME Types, Present, [Next]_vars
  PROVE  Types'
<1>1. ASSUME NEW i \in Invoices, ImportInvoice(i)
      PROVE  Types'
  BY <1>1, Ids, QueueAssumption DEF ImportInvoice, SetStatus, request, Types,
     Dated
<1>2. ASSUME NEW i \in Invoices, WorkerPublishes(i)
      PROVE  Types'
  BY <1>2, Ids DEF WorkerPublishes, SetStatus, request, Types, Dated, Queue
<1>3. ASSUME NEW i \in Invoices, OtherConfirms(i)
      PROVE  Types'
  BY <1>3, Ids DEF OtherConfirms, SetStatus, request, Types, Dated, Queue
<1>4. ASSUME NEW i \in Invoices, ScheduleReprocess(i)
      PROVE  Types'
  BY <1>4, Ids DEF ScheduleReprocess, SetStatus, request, Types, Dated, Queue
<1>5. CASE ReviewStart
  <2>1. FirstOf(Queue) \in Invoices
    BY <1>5, Results, QueueTyped DEF ReviewStart
  <2>. QED
    BY <1>5, <2>1, Ids DEF ReviewStart, Fetch, rows, Types, Dated
<1>6. CASE FollowNext
  BY <1>6, Ids DEF FollowNext, Fetch, rows, Types, Dated, Queue
<1>7. CASE FollowPrevious
  BY <1>7, Ids DEF FollowPrevious, Fetch, rows, Types, Dated, Queue
<1>8. CASE ReadInvoice
  BY <1>8, Ids DEF ReadInvoice, rows, Types, Dated, Queue
<1>9. CASE NextUnconfirmedInvoiceID
  <2>1. next' \in Invoices \cup {None}
    BY <1>9, Results, QueueTyped DEF NextUnconfirmedInvoiceID
  <2>. QED
    BY <1>9, <2>1 DEF NextUnconfirmedInvoiceID, rows, history, Types, Dated
<1>10. CASE PreviousUnconfirmedInvoiceID
  <2>1. prev' \in Invoices \cup {None}
    BY <1>10, Results, QueueTyped DEF PreviousUnconfirmedInvoiceID
  <2>. QED
    BY <1>10, <2>1 DEF PreviousUnconfirmedInvoiceID, rows, history, Types, Dated
<1>11. CASE CountUnconfirmedBefore
  BY <1>11, Ids DEF CountUnconfirmedBefore, rows, history, Types, Dated, Queue
<1>12. CASE CountUnconfirmedInvoices
  BY <1>12, Ids DEF CountUnconfirmedInvoices, rows, history, Types, Dated, Queue
<1>13. CASE ConfirmInvoice
  BY <1>13, Ids DEF ConfirmInvoice, SetStatus, Fetch, Types, Dated, Queue
<1>14. CASE AfterConfirmNext
  BY <1>14, AfterConfirmEffect, QueueTyped, Ids DEF Types, Dated
<1>15. CASE AfterConfirmPrevious
  BY <1>15, AfterConfirmEffect, QueueTyped, Ids DEF Types, Dated
<1>16. CASE UNCHANGED vars
  BY <1>16 DEF vars, rows, request, history, env, Types, Dated, Queue
<1>17. CASE ReviewQueueFails
  BY <1>17, Ids DEF ReviewQueueFails, Fetch, rows, history, Types, Dated, Queue
<1>18. CASE ErrorPage
  BY <1>18, Ids DEF ErrorPage, Fetch, rows, history, Types, Dated, Queue
<1>19. CASE ConfirmFails
  BY <1>19, Ids DEF ConfirmFails, Fetch, rows, history, Types, Dated, Queue
<1>20. CASE NextLookupFails
  BY <1>20, Ids DEF NextLookupFails, Fetch, rows, history, Types, Dated, Queue
<1>21. CASE PreviousLookupFails
  BY <1>21, Ids DEF PreviousLookupFails, Fetch, rows, history, Types, Dated, Queue
<1>. QED
  BY NextSteps, <1>1, <1>2, <1>3, <1>4, <1>5, <1>6, <1>7, <1>8, <1>9, <1>10,
     <1>11, <1>12, <1>13, <1>14, <1>15, <1>16, <1>17, <1>18, <1>19, <1>20,
     <1>21

\* Rows stay, and what changes leaves the histories.
LEMMA PresentStep ==
  ASSUME Types, Present, [Next]_vars
  PROVE  Present'
<1>1. ASSUME NEW i \in Invoices, ImportInvoice(i)
      PROVE  Present'
  BY <1>1, Ids DEF ImportInvoice, SetStatus, request, Present, Types, Queue
<1>2. ASSUME NEW i \in Invoices, WorkerPublishes(i)
      PROVE  Present'
  BY <1>2, Ids DEF WorkerPublishes, SetStatus, request, Present, Types, Queue
<1>3. ASSUME NEW i \in Invoices, OtherConfirms(i)
      PROVE  Present'
  BY <1>3, Ids DEF OtherConfirms, SetStatus, request, Present, Types, Queue
<1>4. ASSUME NEW i \in Invoices, ScheduleReprocess(i)
      PROVE  Present'
  BY <1>4, Ids DEF ScheduleReprocess, SetStatus, request, Present, Types, Queue
<1>5. CASE ReviewStart
  <2>1. FirstOf(Queue) \in Queue
    BY <1>5, Results DEF ReviewStart
  <2>. QED
    BY <1>5, <2>1, Ids DEF ReviewStart, Fetch, rows, Present, Queue
<1>6. CASE FollowNext
  BY <1>6, Ids DEF FollowNext, Fetch, rows, Present, Types, Queue
<1>7. CASE FollowPrevious
  BY <1>7, Ids DEF FollowPrevious, Fetch, rows, Present, Types, Queue
<1>8. CASE ReadInvoice
  BY <1>8, Ids DEF ReadInvoice, rows, Present, Types, Queue
<1>9. CASE NextUnconfirmedInvoiceID
  <2>1. UNCHANGED <<status, walk, since, at, prev>>
    BY <1>9 DEF NextUnconfirmedInvoiceID, rows, history
  <2>2. next' # None => next' \in Queue
    BY <1>9, Results DEF NextUnconfirmedInvoiceID
  <2>. QED
    BY <2>1, <2>2 DEF Present, Queue
<1>10. CASE PreviousUnconfirmedInvoiceID
  <2>1. UNCHANGED <<status, walk, since, at, next>>
    BY <1>10 DEF PreviousUnconfirmedInvoiceID, rows, history
  <2>2. prev' # None => prev' \in Queue
    BY <1>10, Results DEF PreviousUnconfirmedInvoiceID
  <2>. QED
    BY <2>1, <2>2 DEF Present, Queue
<1>11. CASE CountUnconfirmedBefore
  BY <1>11, Ids DEF CountUnconfirmedBefore, rows, history, Present, Types, Queue
<1>12. CASE CountUnconfirmedInvoices
  BY <1>12, Ids DEF CountUnconfirmedInvoices, rows, history, Present, Types, Queue
<1>13. CASE ConfirmInvoice
  BY <1>13, Ids DEF ConfirmInvoice, SetStatus, Fetch, Present, Types, Queue
<1>14. CASE AfterConfirmNext
  <2>1. since' \subseteq Queue
    BY <1>14 DEF AfterConfirmNext
  <2>. QED
    BY <1>14, <2>1, AfterConfirmEffect, Ids DEF Present, Queue, Types
<1>15. CASE AfterConfirmPrevious
  <2>1. since' = since
    BY <1>15 DEF AfterConfirmPrevious
  <2>. QED
    BY <1>15, <2>1, AfterConfirmEffect, Ids DEF Present, Queue, Types
<1>16. CASE UNCHANGED vars
  BY <1>16 DEF vars, rows, request, history, env, Present, Types, Queue
<1>17. CASE ReviewQueueFails
  BY <1>17, Ids DEF ReviewQueueFails, Fetch, rows, history, Present, Types, Queue
<1>18. CASE ErrorPage
  BY <1>18, Ids DEF ErrorPage, Fetch, rows, history, Present, Types, Queue
<1>19. CASE ConfirmFails
  BY <1>19, Ids DEF ConfirmFails, Fetch, rows, history, Present, Types, Queue
<1>20. CASE NextLookupFails
  BY <1>20, Ids DEF NextLookupFails, Fetch, rows, history, Present, Types, Queue
<1>21. CASE PreviousLookupFails
  BY <1>21, Ids DEF PreviousLookupFails, Fetch, rows, history, Present, Types, Queue
<1>. QED
  BY NextSteps, <1>1, <1>2, <1>3, <1>4, <1>5, <1>6, <1>7, <1>8, <1>9, <1>10,
     <1>11, <1>12, <1>13, <1>14, <1>15, <1>16, <1>17, <1>18, <1>19, <1>20,
     <1>21

\* Going on, all that was in front stays shown.
LEMMA FrontStep ==
  ASSUME Types, Present, FrontShown, LinksFit, [Next]_vars
  PROVE  FrontShown'
<1>1. ASSUME NEW i \in Invoices, ImportInvoice(i)
      PROVE  FrontShown'
  <2>1. /\ status[i] = "absent" /\ UNCHANGED request
        /\ walk' = walk \ {i} /\ since' = since \ {i} /\ UNCHANGED shown
        /\ \A j \in Invoices : j # i => created'[j] = created[j]
    BY <1>1 DEF ImportInvoice, SetStatus, Types, Dated
  <2>2. i \notin {at, next, prev}
    BY <2>1, Ids DEF Present
  <2>3. \A j, k \in Invoices : j # i /\ k # i => (Behind(j, k)' <=> Behind(j, k))
    BY <2>1 DEF Behind
  <2>4. walk \subseteq Invoices /\ since \subseteq Invoices
    BY QueueTyped DEF Present
  <2>5. at \in Invoices \cup {None} /\ next \in Invoices \cup {None} /\ prev \in Invoices \cup {None}
        /\ (pc # "list" => at \in Invoices)
    BY DEF Types
  <2>. QED
    BY <2>1, <2>2, <2>3, <2>4, <2>5 DEF FrontShown, request
<1>2. ASSUME NEW i \in Invoices, WorkerPublishes(i)
      PROVE  FrontShown'
  <2>1. /\ UNCHANGED <<request, created, shown>>
        /\ walk' \subseteq walk /\ since' \subseteq since
    BY <1>2 DEF WorkerPublishes, SetStatus
  <2>. QED
    BY <2>1, OrderKept DEF FrontShown, request
<1>3. ASSUME NEW i \in Invoices, OtherConfirms(i)
      PROVE  FrontShown'
  <2>1. /\ UNCHANGED <<request, created, shown>>
        /\ walk' \subseteq walk /\ since' \subseteq since
    BY <1>3 DEF OtherConfirms, SetStatus
  <2>. QED
    BY <2>1, OrderKept DEF FrontShown, request
<1>4. ASSUME NEW i \in Invoices, ScheduleReprocess(i)
      PROVE  FrontShown'
  <2>1. /\ UNCHANGED <<request, created, shown>>
        /\ walk' \subseteq walk /\ since' \subseteq since
    BY <1>4 DEF ScheduleReprocess, SetStatus
  <2>. QED
    BY <2>1, OrderKept DEF FrontShown, request
<1>5. CASE ReviewStart
  <2>1. /\ FirstOf(Queue) \in Queue
        /\ \A j \in Queue : j = FirstOf(Queue) \/ Behind(j, FirstOf(Queue))
    BY <1>5, Results DEF ReviewStart
  <2>2. /\ pc' = "read" /\ at' = FirstOf(Queue) /\ walk' = Queue /\ UNCHANGED created
    BY <1>5 DEF ReviewStart, Fetch, rows
  <2>3. \A j \in Queue : ~Behind(FirstOf(Queue), j)
    BY <2>1, Order, QueueTyped DEF Types
  <2>. QED
    BY <2>2, <2>3, OrderKept DEF FrontShown
<1>6. CASE FollowNext
  <2>1. /\ pc = "page" /\ next # None /\ pc' = "read" /\ at' = next
        /\ UNCHANGED <<created, walk, shown>>
    BY <1>6 DEF FollowNext, Fetch, rows
  <2>2. at \in Invoices /\ next \in Invoices /\ walk \subseteq Invoices
    BY <2>1, QueueTyped DEF Types, Present
  <2>3. ASSUME NEW j \in walk, Behind(next, j) PROVE j \in shown
    <3>1. j # next /\ ~Behind(j, next)
      BY <2>2, <2>3, Order DEF Types
    <3>2. ~Behind(j, at)
      BY <2>1, <3>1 DEF LinksFit
    <3>3. j = at \/ Behind(at, j)
      BY <2>2, <3>2, Order DEF Types
    <3>. QED
      BY <2>1, <3>3 DEF FrontShown
  <2>. QED
    BY <2>1, <2>3, OrderKept DEF FrontShown
<1>7. CASE FollowPrevious
  <2>1. /\ pc = "page" /\ prev # None /\ pc' = "read" /\ at' = prev
        /\ UNCHANGED <<created, walk, shown>>
    BY <1>7 DEF FollowPrevious, Fetch, rows
  <2>2. at \in Invoices /\ prev \in Invoices /\ walk \subseteq Invoices
    BY <2>1, QueueTyped DEF Types, Present
  <2>3. \A j \in walk : Behind(prev, j) => Behind(at, j)
    BY <2>1, <2>2, Order DEF Types, LinksFit
  <2>. QED
    BY <2>1, <2>3, OrderKept DEF FrontShown
<1>8. CASE ReadInvoice
  <2>1. /\ pc = "read" /\ shown' = shown \cup {at} /\ UNCHANGED <<created, at, walk>>
    BY <1>8 DEF ReadInvoice, rows
  <2>. QED
    BY <2>1, OrderKept DEF FrontShown
<1>9. CASE NextUnconfirmedInvoiceID
  <2>1. /\ pc \in {"next", "prev", "before", "total"} /\ pc' \notin {"list", "read"}
        /\ UNCHANGED <<created, at, walk, shown>>
    BY <1>9 DEF NextUnconfirmedInvoiceID, rows, history
  <2>. QED
    BY <2>1, OrderKept DEF FrontShown
<1>10. CASE PreviousUnconfirmedInvoiceID
  <2>1. /\ pc \in {"next", "prev", "before", "total"} /\ pc' \notin {"list", "read"}
        /\ UNCHANGED <<created, at, walk, shown>>
    BY <1>10 DEF PreviousUnconfirmedInvoiceID, rows, history
  <2>. QED
    BY <2>1, OrderKept DEF FrontShown
<1>11. CASE CountUnconfirmedBefore
  <2>1. /\ pc \in {"next", "prev", "before", "total"} /\ pc' \notin {"list", "read"}
        /\ UNCHANGED <<created, at, walk, shown>>
    BY <1>11 DEF CountUnconfirmedBefore, rows, history
  <2>. QED
    BY <2>1, OrderKept DEF FrontShown
<1>12. CASE CountUnconfirmedInvoices
  <2>1. /\ pc \in {"next", "prev", "before", "total"} /\ pc' \notin {"list", "read"}
        /\ UNCHANGED <<created, at, walk, shown>>
    BY <1>12 DEF CountUnconfirmedInvoices, rows, history
  <2>. QED
    BY <2>1, OrderKept DEF FrontShown
<1>13. CASE ConfirmInvoice
  <2>1. /\ pc = "page" /\ pc' \in {"read", "after"}
        /\ UNCHANGED <<created, at, shown>> /\ walk' \subseteq walk
    BY <1>13 DEF ConfirmInvoice, SetStatus, Fetch
  <2>. QED
    BY <2>1, OrderKept DEF FrontShown
<1>14. CASE AfterConfirmNext
  <2>1. UNCHANGED <<status, created, walk, shown>> /\ at \in Invoices /\ walk \subseteq Queue
        /\ pc \in {"after", "afterNone"}
    BY <1>14, AfterConfirmEffect DEF AfterConfirmNext, Types, Present
  <2>2. ASSUME NEW x \in Queue, pc' = "read", at' = x,
               Behind(x, at) \/ Behind(at, x),
               Behind(x, at) => \A j \in Queue : Behind(j, at) => j = x \/ Behind(j, x)
        PROVE  FrontShown'
    <3>1. ASSUME NEW j \in walk, Behind(x, j) PROVE j \in shown
      <4>1. j \in Invoices /\ x \in Invoices
        BY <2>1, QueueTyped
      <4>2. ~Behind(j, at)
        BY <2>1, <2>2, <3>1, <4>1, Order DEF Types
      <4>3. j = at \/ Behind(at, j)
        BY <2>1, <4>1, <4>2, Order DEF Types
      <4>. QED
        BY <2>1, <4>3 DEF FrontShown
    <3>. QED
      BY <2>1, <2>2, <3>1, OrderKept DEF FrontShown
  <2>3. CASE pc' \in {"list", "afterNone"}
    BY <1>14, <2>1, <2>3, AfterConfirmEffect, OrderKept DEF FrontShown
  <2>. QED
    BY <1>14, <2>2, <2>3, AfterConfirmEffect
<1>15. CASE AfterConfirmPrevious
  <2>1. UNCHANGED <<status, created, walk, shown>> /\ at \in Invoices /\ walk \subseteq Queue
        /\ pc \in {"after", "afterNone"}
    BY <1>15, AfterConfirmEffect DEF AfterConfirmPrevious, Types, Present
  <2>2. ASSUME NEW x \in Queue, pc' = "read", at' = x,
               Behind(x, at) \/ Behind(at, x),
               Behind(x, at) => \A j \in Queue : Behind(j, at) => j = x \/ Behind(j, x)
        PROVE  FrontShown'
    <3>1. ASSUME NEW j \in walk, Behind(x, j) PROVE j \in shown
      <4>1. j \in Invoices /\ x \in Invoices
        BY <2>1, QueueTyped
      <4>2. ~Behind(j, at)
        BY <2>1, <2>2, <3>1, <4>1, Order DEF Types
      <4>3. j = at \/ Behind(at, j)
        BY <2>1, <4>1, <4>2, Order DEF Types
      <4>. QED
        BY <2>1, <4>3 DEF FrontShown
    <3>. QED
      BY <2>1, <2>2, <3>1, OrderKept DEF FrontShown
  <2>3. CASE pc' \in {"list", "afterNone"}
    BY <1>15, <2>1, <2>3, AfterConfirmEffect, OrderKept DEF FrontShown
  <2>. QED
    BY <1>15, <2>2, <2>3, AfterConfirmEffect
<1>16. CASE UNCHANGED vars
  BY <1>16, OrderKept DEF vars, rows, request, history, env, FrontShown
<1>17. CASE ReviewQueueFails
  <2>1. /\ pc \notin {"list", "read"} /\ pc' = "page"
        /\ at' = at /\ UNCHANGED <<created, walk, shown>>
    BY <1>17 DEF ReviewQueueFails, Fetch, rows, history
  <2>. QED
    BY <2>1, OrderKept DEF FrontShown
<1>18. CASE ErrorPage
  <2>1. pc' = "list"
    BY <1>18 DEF ErrorPage, Fetch, rows, history
  <2>. QED
    BY <2>1, OrderKept DEF FrontShown
<1>19. CASE ConfirmFails
  <2>1. /\ pc = "page" /\ pc' = "read" /\ at' = at /\ UNCHANGED <<created, walk, shown>>
    BY <1>19 DEF ConfirmFails, Fetch, rows, history
  <2>. QED
    BY <2>1, OrderKept DEF FrontShown
<1>20. CASE NextLookupFails
  <2>1. /\ pc = "after" /\ pc' = "afterNone" /\ at' = at /\ UNCHANGED <<created, walk, shown>>
    BY <1>20 DEF NextLookupFails, Fetch, rows, history
  <2>. QED
    BY <2>1, OrderKept DEF FrontShown
<1>21. CASE PreviousLookupFails
  <2>1. pc' = "list"
    BY <1>21 DEF PreviousLookupFails, Fetch, rows, history
  <2>. QED
    BY <2>1, OrderKept DEF FrontShown
<1>. QED
  BY NextSteps, <1>1, <1>2, <1>3, <1>4, <1>5, <1>6, <1>7, <1>8, <1>9, <1>10,
     <1>11, <1>12, <1>13, <1>14, <1>15, <1>16, <1>17, <1>18, <1>19, <1>20,
     <1>21

\* The walk only shrinks, so a link that skipped nothing still does.
LEMMA LinksStep ==
  ASSUME Types, Present, LinksFit, [Next]_vars
  PROVE  LinksFit'
<1>1. ASSUME NEW i \in Invoices, ImportInvoice(i)
      PROVE  LinksFit'
  <2>1. /\ status[i] = "absent" /\ UNCHANGED request
        /\ walk' = walk \ {i} /\ since' = since \ {i} /\ UNCHANGED shown
        /\ \A j \in Invoices : j # i => created'[j] = created[j]
    BY <1>1 DEF ImportInvoice, SetStatus, Types, Dated
  <2>2. i \notin {at, next, prev}
    BY <2>1, Ids DEF Present
  <2>3. \A j, k \in Invoices : j # i /\ k # i => (Behind(j, k)' <=> Behind(j, k))
    BY <2>1 DEF Behind
  <2>4. walk \subseteq Invoices /\ since \subseteq Invoices
    BY QueueTyped DEF Present
  <2>5. at \in Invoices \cup {None} /\ next \in Invoices \cup {None} /\ prev \in Invoices \cup {None}
        /\ (pc # "list" => at \in Invoices)
    BY DEF Types
  <2>. QED
    BY <2>1, <2>2, <2>3, <2>4, <2>5 DEF LinksFit, request
<1>2. ASSUME NEW i \in Invoices, WorkerPublishes(i)
      PROVE  LinksFit'
  <2>1. /\ UNCHANGED <<request, created, shown>>
        /\ walk' \subseteq walk /\ since' \subseteq since
    BY <1>2 DEF WorkerPublishes, SetStatus
  <2>. QED
    BY <2>1, OrderKept DEF LinksFit, request
<1>3. ASSUME NEW i \in Invoices, OtherConfirms(i)
      PROVE  LinksFit'
  <2>1. /\ UNCHANGED <<request, created, shown>>
        /\ walk' \subseteq walk /\ since' \subseteq since
    BY <1>3 DEF OtherConfirms, SetStatus
  <2>. QED
    BY <2>1, OrderKept DEF LinksFit, request
<1>4. ASSUME NEW i \in Invoices, ScheduleReprocess(i)
      PROVE  LinksFit'
  <2>1. /\ UNCHANGED <<request, created, shown>>
        /\ walk' \subseteq walk /\ since' \subseteq since
    BY <1>4 DEF ScheduleReprocess, SetStatus
  <2>. QED
    BY <2>1, OrderKept DEF LinksFit, request
<1>5. CASE ReviewStart
  BY <1>5 DEF ReviewStart, Fetch, LinksFit
<1>6. CASE FollowNext
  BY <1>6 DEF FollowNext, Fetch, LinksFit
<1>7. CASE FollowPrevious
  BY <1>7 DEF FollowPrevious, Fetch, LinksFit
<1>8. CASE ReadInvoice
  <2>1. /\ pc = "read" /\ UNCHANGED <<created, at, walk, next, prev>>
        /\ pc' = IF at \in Queue THEN "next" ELSE "page"
    BY <1>8 DEF ReadInvoice, rows
  <2>. QED
    BY <2>1, OrderKept DEF LinksFit, Present
<1>9. CASE NextUnconfirmedInvoiceID
  <2>1. /\ pc = "next" /\ pc' = "prev" /\ UNCHANGED <<created, at, walk, prev>>
    BY <1>9 DEF NextUnconfirmedInvoiceID, rows, history
  <2>2. /\ next' = None => \A j \in Queue : ~Behind(j, at)
        /\ next' # None => \A j \in Queue : Behind(j, at) => j = next' \/ Behind(j, next')
    BY <1>9, Results DEF NextUnconfirmedInvoiceID
  <2>3. \A i, j : created'[i] = created[i]
    BY <2>1
  <2>4. next' # None => \A j \in walk' : Behind(j, at)' => j = next' \/ Behind(j, next)'
    BY <2>1, <2>2 DEF Present, Behind
  <2>5. next' = None => \A j \in walk' : ~Behind(j, at)'
    BY <2>1, <2>2 DEF Present, Behind
  <2>6. prev' # None => Behind(at, prev)'
    BY <2>1 DEF LinksFit, Behind
  <2>. QED
    BY <2>1, <2>4, <2>5, <2>6 DEF LinksFit
<1>10. CASE PreviousUnconfirmedInvoiceID
  <2>1. /\ pc = "prev" /\ pc' = "before" /\ UNCHANGED <<created, at, walk, next>>
    BY <1>10 DEF PreviousUnconfirmedInvoiceID, rows, history
  <2>2. prev' # None => Behind(at, prev')
    BY <1>10, Results DEF PreviousUnconfirmedInvoiceID
  <2>3. prev' # None => Behind(at, prev)'
    BY <2>1, <2>2 DEF Behind
  <2>. QED
    BY <2>1, <2>3, OrderKept DEF LinksFit
<1>11. CASE CountUnconfirmedBefore
  <2>1. /\ pc' \in {"prev", "before", "total", "page"} /\ pc \in {"prev", "before", "total"}
        /\ UNCHANGED <<created, at, walk, next, prev>>
    BY <1>11 DEF CountUnconfirmedBefore, rows, history
  <2>. QED
    BY <2>1, OrderKept DEF LinksFit
<1>12. CASE CountUnconfirmedInvoices
  <2>1. /\ pc' \in {"prev", "before", "total", "page"} /\ pc \in {"prev", "before", "total"}
        /\ UNCHANGED <<created, at, walk, next, prev>>
    BY <1>12 DEF CountUnconfirmedInvoices, rows, history
  <2>. QED
    BY <2>1, OrderKept DEF LinksFit
<1>13. CASE ConfirmInvoice
  BY <1>13 DEF ConfirmInvoice, Fetch, LinksFit
<1>14. CASE AfterConfirmNext
  <2>1. UNCHANGED created
    BY <1>14, AfterConfirmEffect
  <2>. QED
    BY <1>14, <2>1, AfterConfirmEffect, OrderKept DEF LinksFit, AfterConfirmNext
<1>15. CASE AfterConfirmPrevious
  <2>1. UNCHANGED created
    BY <1>15, AfterConfirmEffect
  <2>. QED
    BY <1>15, <2>1, AfterConfirmEffect, OrderKept DEF LinksFit,
       AfterConfirmPrevious
<1>16. CASE UNCHANGED vars
  BY <1>16, OrderKept DEF vars, rows, request, history, env, LinksFit
<1>17. CASE ReviewQueueFails
  <2>1. pc' = "page" /\ next' = None /\ prev' = None /\ total' = 0
    BY <1>17 DEF ReviewQueueFails, Fetch, rows, history
  <2>. QED
    BY <2>1, OrderKept DEF LinksFit
<1>18. CASE ErrorPage
  <2>1. pc' = "list"
    BY <1>18 DEF ErrorPage, Fetch, rows, history
  <2>. QED
    BY <2>1, OrderKept DEF LinksFit
<1>19. CASE ConfirmFails
  <2>1. pc' = "read" /\ next' = None /\ prev' = None
    BY <1>19 DEF ConfirmFails, Fetch, rows, history
  <2>. QED
    BY <2>1, OrderKept DEF LinksFit
<1>20. CASE NextLookupFails
  <2>1. pc # "list" /\ pc' = "afterNone" /\ UNCHANGED <<created, at, prev>>
    BY <1>20 DEF NextLookupFails, Fetch, rows, history
  <2>. QED
    BY <2>1, OrderKept DEF LinksFit
<1>21. CASE PreviousLookupFails
  <2>1. pc' = "list"
    BY <1>21 DEF PreviousLookupFails, Fetch, rows, history
  <2>. QED
    BY <2>1, OrderKept DEF LinksFit
<1>. QED
  BY NextSteps, <1>1, <1>2, <1>3, <1>4, <1>5, <1>6, <1>7, <1>8, <1>9, <1>10,
     <1>11, <1>12, <1>13, <1>14, <1>15, <1>16, <1>17, <1>18, <1>19, <1>20,
     <1>21

\* What is in front of a confirmed invoice stays there.
LEMMA RestStep ==
  ASSUME Types, Present, RestInFront, [Next]_vars
  PROVE  RestInFront'
<1>1. ASSUME NEW i \in Invoices, ImportInvoice(i)
      PROVE  RestInFront'
  <2>1. /\ status[i] = "absent" /\ UNCHANGED request
        /\ walk' = walk \ {i} /\ since' = since \ {i} /\ UNCHANGED shown
        /\ \A j \in Invoices : j # i => created'[j] = created[j]
    BY <1>1 DEF ImportInvoice, SetStatus, Types, Dated
  <2>2. i \notin {at, next, prev}
    BY <2>1, Ids DEF Present
  <2>3. \A j, k \in Invoices : j # i /\ k # i => (Behind(j, k)' <=> Behind(j, k))
    BY <2>1 DEF Behind
  <2>4. walk \subseteq Invoices /\ since \subseteq Invoices
    BY QueueTyped DEF Present
  <2>5. at \in Invoices \cup {None} /\ next \in Invoices \cup {None} /\ prev \in Invoices \cup {None}
        /\ (pc # "list" => at \in Invoices)
    BY DEF Types
  <2>. QED
    BY <2>1, <2>2, <2>3, <2>4, <2>5 DEF RestInFront, request
<1>2. ASSUME NEW i \in Invoices, WorkerPublishes(i)
      PROVE  RestInFront'
  <2>1. /\ UNCHANGED <<request, created, shown>>
        /\ walk' \subseteq walk /\ since' \subseteq since
    BY <1>2 DEF WorkerPublishes, SetStatus
  <2>. QED
    BY <2>1, OrderKept DEF RestInFront, request
<1>3. ASSUME NEW i \in Invoices, OtherConfirms(i)
      PROVE  RestInFront'
  <2>1. /\ UNCHANGED <<request, created, shown>>
        /\ walk' \subseteq walk /\ since' \subseteq since
    BY <1>3 DEF OtherConfirms, SetStatus
  <2>. QED
    BY <2>1, OrderKept DEF RestInFront, request
<1>4. ASSUME NEW i \in Invoices, ScheduleReprocess(i)
      PROVE  RestInFront'
  <2>1. /\ UNCHANGED <<request, created, shown>>
        /\ walk' \subseteq walk /\ since' \subseteq since
    BY <1>4 DEF ScheduleReprocess, SetStatus
  <2>. QED
    BY <2>1, OrderKept DEF RestInFront, request
<1>5. CASE ReviewStart
  BY <1>5 DEF ReviewStart, Fetch, rows, RestInFront
<1>6. CASE FollowNext
  BY <1>6 DEF FollowNext, Fetch, rows, RestInFront
<1>7. CASE FollowPrevious
  BY <1>7 DEF FollowPrevious, Fetch, rows, RestInFront
<1>8. CASE ReadInvoice
  BY <1>8 DEF ReadInvoice, rows, RestInFront
<1>9. CASE NextUnconfirmedInvoiceID
  BY <1>9 DEF NextUnconfirmedInvoiceID, rows, history, RestInFront
<1>10. CASE PreviousUnconfirmedInvoiceID
  BY <1>10 DEF PreviousUnconfirmedInvoiceID, rows, history, RestInFront
<1>11. CASE CountUnconfirmedBefore
  BY <1>11 DEF CountUnconfirmedBefore, rows, history, RestInFront
<1>12. CASE CountUnconfirmedInvoices
  BY <1>12 DEF CountUnconfirmedInvoices, rows, history, RestInFront
<1>13. CASE ConfirmInvoice
  BY <1>13 DEF ConfirmInvoice, SetStatus, Fetch, RestInFront
<1>14. CASE AfterConfirmNext
  <2>1. since' = Queue \ {at} /\ pc = "after" /\ UNCHANGED created
    BY <1>14 DEF AfterConfirmNext, rows
  <2>2. CASE pc' = "afterNone"
    <3>1. at' = at /\ \A j \in Queue : ~Behind(j, at)
      BY <1>14, <2>1, <2>2, AfterConfirmEffect
    <3>2. \A j \in Queue \ {at} : Behind(at, j)
      BY <2>1, <3>1, Order, QueueTyped DEF Types
    <3>. QED
      BY <2>1, <3>1, <3>2, OrderKept DEF RestInFront
  <2>3. CASE pc' # "afterNone"
    BY <2>3 DEF RestInFront
  <2>. QED
    BY <2>2, <2>3
<1>15. CASE AfterConfirmPrevious
  BY <1>15 DEF AfterConfirmPrevious, Fetch, RestInFront
<1>16. CASE UNCHANGED vars
  BY <1>16, OrderKept DEF vars, rows, request, history, env, RestInFront
<1>17. CASE ReviewQueueFails
  BY <1>17 DEF ReviewQueueFails, Fetch, RestInFront
<1>18. CASE ErrorPage
  BY <1>18 DEF ErrorPage, Fetch, RestInFront
<1>19. CASE ConfirmFails
  BY <1>19 DEF ConfirmFails, Fetch, RestInFront
<1>20. CASE NextLookupFails
  BY <1>20 DEF NextLookupFails, Fetch, RestInFront
<1>21. CASE PreviousLookupFails
  BY <1>21 DEF PreviousLookupFails, Fetch, RestInFront
<1>. QED
  BY NextSteps, <1>1, <1>2, <1>3, <1>4, <1>5, <1>6, <1>7, <1>8, <1>9, <1>10,
     <1>11, <1>12, <1>13, <1>14, <1>15, <1>16, <1>17, <1>18, <1>19, <1>20,
     <1>21

-------------------------------------------------------------------------------
(* Theorems                                                                *)

\* The inductive invariant: what the page refers to, what is shown, and what its
\* links lead to, against the walk.
THEOREM WalkInvariant == Spec => []WalkInv
<1>1. Init => WalkInv
  BY Ids DEF Init, WalkInv, Types, Dated, Present, FrontShown, LinksFit,
     RestInFront, Queue
<1>2. WalkInv /\ [Next]_vars => WalkInv'
  BY TypesStep, PresentStep, FrontStep, LinksStep, RestStep DEF WalkInv
<1>. QED
  BY <1>1, <1>2, PTL DEF Spec

\* A walk to a page that has its position and no next link has shown all that
\* waited all along, whatever came between the statements of its pages and
\* whichever of them failed (invoice.go:387-465, review.go:44-48).
THEOREM WalksShowAll == Spec => []WalkShowsAll
<1>1. WalkInv => WalkShowsAll
  <2>. SUFFICES ASSUME WalkInv, pc = "page", at \in walk, total # 0, next = None,
                       NEW j \in walk
                PROVE  j \in shown
    BY DEF WalkShowsAll
  <2>1. j \in Invoices /\ at \in Invoices
    BY QueueTyped DEF WalkInv, Present
  <2>2. ~Behind(j, at)
    BY DEF WalkInv, LinksFit
  <2>3. j = at \/ Behind(at, j)
    BY <2>1, <2>2, Order DEF WalkInv, Types
  <2>. QED
    BY <2>3 DEF WalkInv, FrontShown
<1>. QED
  BY <1>1, WalkInvariant, PTL

\* "All invoices have been reviewed!" is true of what waited since the confirmation,
\* unless one of the two lookups behind it failed (review.go:264-279).
THEOREM TheMessageIsTrue == Spec => AllReviewedIsTrue
<1>1. WalkInv /\ [Next]_vars =>
        ((pc \in {"after", "afterNone"} /\ pc' = "list") => since' = {} \/ failed')
  <2>. SUFFICES ASSUME WalkInv, [Next]_vars, pc \in {"after", "afterNone"}, pc' = "list",
                       ~failed'
                PROVE  since' = {}
    OBVIOUS
  <2>1. AfterConfirmNext \/ AfterConfirmPrevious
    BY NextSteps DEF ImportInvoice, WorkerPublishes, OtherConfirms,
       ScheduleReprocess,
       ReviewStart, FollowNext, FollowPrevious, ReadInvoice, NextUnconfirmedInvoiceID,
       PreviousUnconfirmedInvoiceID, CountUnconfirmedBefore, CountUnconfirmedInvoices,
       ReviewQueueFails, ErrorPage, ConfirmInvoice, ConfirmFails, NextLookupFails,
       PreviousLookupFails, request, vars
  <2>2. /\ pc = "afterNone" /\ ~failed /\ since' = since
        /\ \A j \in Queue : ~Behind(at, j)
    BY <2>1, AfterConfirmEffect DEF WalkInv
  <2>. QED
    BY <2>2 DEF WalkInv, RestInFront, Present
<1>. QED
  BY <1>1, WalkInvariant, PTL DEF Spec, AllReviewedIsTrue

-------------------------------------------------------------------------------
(* Numbers and sequences                                                   *)

\* What holds of 0 and passes from each number to the next holds up to N: a
\* least counterexample would have a predecessor.
LEMMA Induction ==
  ASSUME NEW N \in Nat, NEW S, 0 \in S,
         \A n \in 0 .. N - 1 : n \in S => n + 1 \in S
  PROVE  0 .. N \subseteq S
<1>. SUFFICES ASSUME (0 .. N) \ S # {} PROVE FALSE
  OBVIOUS
<1>1. PICK x \in (0 .. N) \ S : \A y \in (0 .. N) \ S : x <= y
  <2>. (0 .. N) \ S \in SUBSET Nat
    OBVIOUS
  <2>. QED
    BY SmallestOf
<1>2. x # 0 /\ x - 1 \in 0 .. N - 1 /\ x - 1 \notin (0 .. N) \ S
  BY <1>1
<1>. QED
  BY <1>2

\* What holds of a number whenever it holds of all the smaller ones holds of all.
LEMMA StrongInduction ==
  ASSUME NEW S, \A n \in Nat : (\A m \in 0 .. n - 1 : m \in S) => n \in S
  PROVE  Nat \subseteq S
<1>. SUFFICES ASSUME Nat \ S # {} PROVE FALSE
  OBVIOUS
<1>1. PICK x \in Nat \ S : \A y \in Nat \ S : x <= y
  <2>. Nat \ S \in SUBSET Nat
    OBVIOUS
  <2>. QED
    BY SmallestOf
<1>2. \A m \in 0 .. x - 1 : m \in S
  BY <1>1
<1>. QED
  BY <1>1, <1>2

\* The largest number of a bounded set.
LEMMA LargestOf ==
  ASSUME NEW N \in Nat, NEW S \in SUBSET (1 .. N), S # {}
  PROVE  Max(S) \in S /\ \A y \in S : y <= Max(S)
<1>. DEFINE T == {N - x : x \in S}
<1>0. \A x \in S : x \in 1 .. N /\ N - x \in Nat
  OBVIOUS
<1>1. T \in SUBSET Nat /\ T # {}
  BY <1>0
<1>2. PICK z \in T : \A y \in T : z <= y
  <2>. HIDE DEF T
  <2>. QED
    BY <1>1, SmallestOf
<1>3. PICK x \in S : z = N - x
  BY <1>2
<1>4. ASSUME NEW y \in S PROVE x >= y
  <2>1. N - x <= N - y
    BY <1>2, <1>3
  <2>. QED
    BY <1>0, <2>1
<1>. QED
  BY <1>4 DEF Max

\* Sequences with the same items are the same.
LEMMA SameSeq ==
  ASSUME NEW T, NEW a \in Seq(T), NEW b \in Seq(T), Len(a) = Len(b),
         \A i \in 1 .. Len(a) : a[i] = b[i]
  PROVE  a = b
OBVIOUS

\* NULL counts as zero, so an amount always has a number of cents.
LEMMA CentsTyped ==
  ASSUME NEW v \in Amount
  PROVE  Cents(v) \in Int
BY DEF Cents, Amount

-------------------------------------------------------------------------------
(* Reading an amount: the operators of Decimal                             *)

\* Left as a recursion on the length.
LEMMA LeftDef ==
  ASSUME NEW t, Len(t) \in Nat, NEW c
  PROVE  /\ Left(t, c)[0] = <<>>
         /\ \A n \in 1 .. Len(t) :
              Left(t, c)[n] = IF t[n] = c THEN Left(t, c)[n - 1] ELSE Append(Left(t, c)[n - 1], t[n])
<1>. DEFINE N == Len(t)
            Step(f, m) == IF m = 0 THEN <<>> ELSE IF t[m] = c THEN f[m - 1] ELSE Append(f[m - 1], t[m])
            S == {n \in 0 .. N : \E f : f = [m \in 0 .. n |-> Step(f, m)]}
<1>1. 0 \in S
  <2>. DEFINE f == [m \in 0 .. 0 |-> <<>>]
  <2>1. f = [m \in 0 .. 0 |-> Step(f, m)]
    OBVIOUS
  <2>. HIDE DEF Step, f
  <2>. QED
    BY <2>1
<1>2. ASSUME NEW n \in 0 .. N - 1, n \in S PROVE n + 1 \in S
  <2>1. PICK f : f = [m \in 0 .. n |-> Step(f, m)]
    BY <1>2
  <2>. DEFINE g == [m \in 0 .. n + 1 |-> IF m <= n THEN f[m] ELSE Step(f, m)]
  <2>2. ASSUME NEW m \in 0 .. n + 1 PROVE g[m] = Step(g, m)
    <3>1. m # 0 => m - 1 \in 0 .. n /\ g[m - 1] = f[m - 1]
      OBVIOUS
    <3>2. Step(g, m) = Step(f, m)
      BY <3>1
    <3>3. m <= n => f[m] = Step(f, m)
      <4>. HIDE DEF Step
      <4>. QED
        BY <2>1
    <3>. QED
      BY <3>2, <3>3
  <2>3. g = [m \in 0 .. n + 1 |-> Step(g, m)]
    <3>. HIDE DEF Step
    <3>. QED
      BY <2>2
  <2>. HIDE DEF Step, g
  <2>. QED
    BY <2>3
<1>3. N \in S
  <2>. HIDE DEF S
  <2>1. 0 .. N \subseteq S
    BY <1>1, <1>2, Induction
  <2>. QED
    BY <2>1
<1>4. \E f : f = [m \in 0 .. N |-> Step(f, m)]
  BY <1>3
<1>. DEFINE L == Left(t, c)
<1>5. L = [m \in 0 .. N |-> Step(L, m)]
  <2>. HIDE DEF L
  <2>1. L = CHOOSE f : f = [m \in 0 .. N |-> Step(f, m)]
    BY DEF Left, L
  <2>. HIDE DEF Step
  <2>. QED
    BY <1>4, <2>1
<1>. HIDE DEF L
<1>6. \A m \in 0 .. N : L[m] = Step(L, m)
  <2>. HIDE DEF Step
  <2>. QED
    BY <1>5
<1>. QED
  BY <1>6 DEF L

\* Value as a recursion on the length.
LEMMA ValueDef ==
  ASSUME NEW t, Len(t) \in Nat
  PROVE  /\ Value(t)[0] = 0
         /\ \A n \in 1 .. Len(t) :
              Value(t)[n] = IF t[n] \in Digit THEN 10 * Value(t)[n - 1] + t[n] ELSE Value(t)[n - 1]
<1>. DEFINE N == Len(t)
            Step(f, m) == IF m = 0 THEN 0 ELSE IF t[m] \in Digit THEN 10 * f[m - 1] + t[m] ELSE f[m - 1]
            S == {n \in 0 .. N : \E f : f = [m \in 0 .. n |-> Step(f, m)]}
<1>1. 0 \in S
  <2>. DEFINE f == [m \in 0 .. 0 |-> 0]
  <2>1. f = [m \in 0 .. 0 |-> Step(f, m)]
    OBVIOUS
  <2>. HIDE DEF Step, f
  <2>. QED
    BY <2>1
<1>2. ASSUME NEW n \in 0 .. N - 1, n \in S PROVE n + 1 \in S
  <2>1. PICK f : f = [m \in 0 .. n |-> Step(f, m)]
    BY <1>2
  <2>. DEFINE g == [m \in 0 .. n + 1 |-> IF m <= n THEN f[m] ELSE Step(f, m)]
  <2>2. ASSUME NEW m \in 0 .. n + 1 PROVE g[m] = Step(g, m)
    <3>1. m # 0 => m - 1 \in 0 .. n /\ g[m - 1] = f[m - 1]
      OBVIOUS
    <3>2. Step(g, m) = Step(f, m)
      BY <3>1
    <3>3. m <= n => f[m] = Step(f, m)
      <4>. HIDE DEF Step
      <4>. QED
        BY <2>1
    <3>. QED
      BY <3>2, <3>3
  <2>3. g = [m \in 0 .. n + 1 |-> Step(g, m)]
    <3>. HIDE DEF Step
    <3>. QED
      BY <2>2
  <2>. HIDE DEF Step, g
  <2>. QED
    BY <2>3
<1>3. N \in S
  <2>. HIDE DEF S
  <2>1. 0 .. N \subseteq S
    BY <1>1, <1>2, Induction
  <2>. QED
    BY <2>1
<1>4. \E f : f = [m \in 0 .. N |-> Step(f, m)]
  BY <1>3
<1>. DEFINE L == Value(t)
<1>5. L = [m \in 0 .. N |-> Step(L, m)]
  <2>. HIDE DEF L
  <2>1. L = CHOOSE f : f = [m \in 0 .. N |-> Step(f, m)]
    BY DEF Value, L
  <2>. HIDE DEF Step
  <2>. QED
    BY <1>4, <2>1
<1>. HIDE DEF L
<1>6. \A m \in 0 .. N : L[m] = Step(L, m)
  <2>. HIDE DEF Step
  <2>. QED
    BY <1>5
<1>. QED
  BY <1>6 DEF L

\* What is left of a text is a text.
LEMMA LeftTyped ==
  ASSUME NEW t \in Seq(Char), NEW c
  PROVE  Without(t, c) \in Seq(Char)
<1>. DEFINE N == Len(t)
            l == Left(t, c)
            S == {n \in 0 .. N : l[n] \in Seq(Char)}
<1>1. /\ N \in Nat /\ l[0] = <<>>
      /\ \A n \in 1 .. N : /\ t[n] \in Char
                           /\ l[n] = IF t[n] = c THEN l[n - 1] ELSE Append(l[n - 1], t[n])
  BY LeftDef
<1>. HIDE DEF l, N
<1>2. 0 \in S
  <2>1. <<>> \in Seq(Char)
    OBVIOUS
  <2>2. l[0] \in Seq(Char) /\ 0 \in 0 .. N
    BY <1>1, <2>1
  <2>. QED
    BY <2>2
<1>3. ASSUME NEW n \in 0 .. N - 1, n \in S PROVE n + 1 \in S
  <2>1. n + 1 \in 1 .. N /\ (n + 1) - 1 = n
    BY <1>1
  <2>2. l[n] \in Seq(Char) /\ t[n + 1] \in Char
    BY <1>1, <1>3, <2>1
  <2>3. l[n + 1] = l[n] \/ l[n + 1] = Append(l[n], t[n + 1])
    BY <1>1, <2>1
  <2>. DEFINE s == l[n]
              x == t[n + 1]
  <2>4. Append(s, x) \in Seq(Char)
    <3>. s \in Seq(Char) /\ x \in Char
      BY <2>2
    <3>. HIDE DEF s, x
    <3>. QED
      OBVIOUS
  <2>5. l[n + 1] \in Seq(Char)
    BY <2>2, <2>3, <2>4
  <2>. QED
    BY <1>1, <2>1, <2>5
<1>4. 0 .. N \subseteq S
  <2>. HIDE DEF S
  <2>. QED
    BY <1>1, <1>2, <1>3, Induction
<1>. QED
  BY <1>1, <1>4 DEF l, N, Without

\* Division by ten, as DigitsOf uses it.
LEMMA Halved ==
  ASSUME NEW n \in Nat, n >= 10
  PROVE  n \div 10 \in 0 .. n - 1 /\ n % 10 \in 0 .. 9 /\ 10 * (n \div 10) + (n % 10) = n
OBVIOUS

\* DigitsOf is defined for every number.
LEMMA DigitsOfDef ==
  \A n \in Nat : DigitsOf[n] = IF n < 10 THEN <<n>> ELSE DigitsOf[n \div 10] \o <<n % 10>>
<1>. DEFINE Step(f, m) == IF m < 10 THEN <<m>> ELSE f[m \div 10] \o <<m % 10>>
            Part(f, n) == f = [m \in 0 .. n |-> Step(f, m)]
<1>1. ASSUME NEW n \in Nat, NEW f, NEW g, NEW m \in 0 .. n, m >= 10 => f[m \div 10] = g[m \div 10]
      PROVE  Step(f, m) = Step(g, m)
  BY <1>1
<1>2. ASSUME NEW n \in Nat, NEW f, Part(f, n), NEW m \in 0 .. n PROVE f[m] = Step(f, m)
  <2>. HIDE DEF Step
  <2>. QED
    BY <1>2
<1>3. ASSUME NEW N \in Nat PROVE \E f : Part(f, N)
  <2>. DEFINE S == {n \in 0 .. N : \E f : Part(f, n)}
  <2>1. 0 \in S
    <3>. DEFINE f == [m \in 0 .. 0 |-> <<m>>]
    <3>1. Part(f, 0)
      OBVIOUS
    <3>. HIDE DEF Part, f
    <3>. QED
      BY <3>1
  <2>2. ASSUME NEW n \in 0 .. N - 1, n \in S PROVE n + 1 \in S
    <3>1. PICK f : Part(f, n)
      BY <2>2
    <3>. DEFINE g == [m \in 0 .. n + 1 |-> IF m <= n THEN f[m] ELSE Step(f, m)]
    <3>2. ASSUME NEW m \in 0 .. n + 1 PROVE g[m] = Step(g, m)
      <4>1. m >= 10 => m \div 10 \in 0 .. n /\ g[m \div 10] = f[m \div 10]
        <5>1. m >= 10 => m \div 10 \in 0 .. n
          BY Halved
        <5>. QED
          BY <5>1
      <4>2. Step(g, m) = Step(f, m)
        BY <4>1
      <4>3. m <= n => f[m] = Step(f, m)
        <5>. HIDE DEF Step, Part
        <5>. QED
          BY <1>2, <3>1
      <4>. QED
        BY <4>2, <4>3
    <3>3. g = [m \in 0 .. n + 1 |-> Step(g, m)]
      <4>. HIDE DEF Step
      <4>. QED
        BY <3>2
    <3>4. Part(g, n + 1)
      BY <3>3
    <3>. HIDE DEF Part, g
    <3>. QED
      BY <3>4
  <2>3. 0 .. N \subseteq S
    <3>. HIDE DEF S
    <3>. QED
      BY <2>1, <2>2, Induction
  <2>4. N \in S
    <3>. HIDE DEF S
    <3>. QED
      BY <2>3
  <2>. QED
    BY <2>4
<1>4. ASSUME NEW n \in Nat, NEW k \in Nat, n <= k, NEW f, NEW g, Part(f, n), Part(g, k)
      PROVE  f[n] = g[n]
  <2>. DEFINE S == {m \in Nat : m <= n => f[m] = g[m]}
  <2>1. ASSUME NEW m \in Nat, \A i \in 0 .. m - 1 : i \in S PROVE m \in S
    <3>. SUFFICES ASSUME m <= n PROVE f[m] = g[m]
      OBVIOUS
    <3>1. m >= 10 => f[m \div 10] = g[m \div 10]
      BY <2>1, Halved
    <3>2. Step(f, m) = Step(g, m)
      BY <3>1
    <3>. HIDE DEF Step, Part
    <3>3. f[m] = Step(f, m) /\ g[m] = Step(g, m)
      BY <1>2, <1>4
    <3>. QED
      BY <3>2, <3>3
  <2>2. Nat \subseteq S
    <3>. HIDE DEF S
    <3>. QED
      BY <2>1, StrongInduction
  <2>. QED
    BY <2>2
<1>. DEFINE P(n) == CHOOSE f : Part(f, n)
            F == [n \in Nat |-> P(n)[n]]
<1>5. \A n \in Nat : Part(P(n), n)
  <2>. HIDE DEF Part
  <2>. QED
    BY <1>3
<1>6. ASSUME NEW n \in Nat PROVE F[n] = Step(F, n)
  <2>. HIDE DEF P
  <2>1. F[n] = P(n)[n]
    OBVIOUS
  <2>2. P(n)[n] = Step(P(n), n)
    <3>. HIDE DEF Step, Part
    <3>. QED
      BY <1>2, <1>5
  <2>3. n >= 10 => P(n)[n \div 10] = F[n \div 10]
    <3>1. n >= 10 => n \div 10 \in Nat /\ n \div 10 <= n
      BY Halved
    <3>. HIDE DEF Part
    <3>. QED
      BY <1>4, <1>5, <3>1
  <2>4. Step(P(n), n) = Step(F, n)
    <3>. HIDE DEF F
    <3>. QED
      BY <2>3
  <2>. QED
    BY <2>1, <2>2, <2>4
<1>7. F = [n \in Nat |-> Step(F, n)]
  <2>. HIDE DEF Step, P
  <2>. QED
    BY <1>6
<1>. DEFINE D == DigitsOf
<1>8. D = [n \in Nat |-> Step(D, n)]
  <2>. HIDE DEF D
  <2>1. D = CHOOSE f : f = [n \in Nat |-> Step(f, n)]
    BY DEF DigitsOf, D
  <2>. HIDE DEF Step, F
  <2>. QED
    BY <1>7, <2>1
<1>9. \A n \in Nat : D[n] = Step(D, n)
  <2>. HIDE DEF Step, D
  <2>. QED
    BY <1>8
<1>. QED
  BY <1>9 DEF D

\* It gives digits, at least one.
LEMMA DigitsOfTyped ==
  \A n \in Nat : DigitsOf[n] \in Seq(Digit) /\ Len(DigitsOf[n]) > 0
<1>. DEFINE S == {n \in Nat : DigitsOf[n] \in Seq(Digit) /\ Len(DigitsOf[n]) > 0}
<1>1. ASSUME NEW n \in Nat, \A m \in 0 .. n - 1 : m \in S PROVE n \in S
  <2>1. CASE n < 10
    <3>1. DigitsOf[n] = <<n>>
      BY <2>1, DigitsOfDef
    <3>2. n \in Digit
      BY <2>1 DEF Digit
    <3>3. <<n>> \in Seq(Digit) /\ Len(<<n>>) > 0
      BY <3>2
    <3>. QED
      BY <3>1, <3>3
  <2>2. CASE n >= 10
    <3>. DEFINE s == DigitsOf[n \div 10]
                d == n % 10
    <3>1. DigitsOf[n] = s \o <<d>> /\ d \in Digit /\ n \div 10 \in 0 .. n - 1
      <4>1. ~(n < 10)
        BY <2>2
      <4>2. DigitsOf[n] = s \o <<d>>
        BY <4>1, DigitsOfDef
      <4>3. d \in Digit /\ n \div 10 \in 0 .. n - 1
        BY <2>2, Halved DEF Digit
      <4>. QED
        BY <4>2, <4>3
    <3>2. s \in Seq(Digit)
      BY <1>1, <3>1
    <3>. HIDE DEF s, d
    <3>3. s \o <<d>> \in Seq(Digit) /\ Len(s \o <<d>>) > 0
      BY <3>1, <3>2
    <3>. QED
      BY <3>1, <3>3
  <2>. QED
    BY <2>1, <2>2
<1>2. Nat \subseteq S
  <2>. HIDE DEF S
  <2>. QED
    BY <1>1, StrongInduction
<1>. QED
  BY <1>2

\* What is left of a text: its characters other than c, in the order and none
\* before its old place.
LEMMA LeftEffect ==
  ASSUME NEW t \in Seq(Char), NEW c
  PROVE  \A n \in 0 .. Len(t) :
           LET l == Left(t, c)[n]
           IN  /\ l \in Seq(Char) /\ Len(l) <= n
               /\ \A j \in 1 .. Len(l) : l[j] # c /\ \E i \in j .. n : l[j] = t[i]
               /\ \A i \in 1 .. n : t[i] # c => \E j \in 1 .. Len(l) : l[j] = t[i]
<1>. DEFINE N == Len(t)
            L == Left(t, c)
            P(l, n) == /\ l \in Seq(Char) /\ Len(l) <= n
                       /\ \A j \in 1 .. Len(l) : l[j] # c /\ \E i \in j .. n : l[j] = t[i]
                       /\ \A i \in 1 .. n : t[i] # c => \E j \in 1 .. Len(l) : l[j] = t[i]
            S == {n \in 0 .. N : P(L[n], n)}
<1>1. N \in Nat /\ L[0] = <<>> /\ \A n \in 1 .. N : t[n] \in Char
  BY LeftDef
<1>2. \A n \in 1 .. N : L[n] = IF t[n] = c THEN L[n - 1] ELSE Append(L[n - 1], t[n])
  BY LeftDef
<1>. HIDE DEF L, N
<1>3. 0 \in S
  <2>1. P(<<>>, 0)
    OBVIOUS
  <2>2. P(L[0], 0) /\ 0 \in 0 .. N
    <3>. HIDE DEF P
    <3>. QED
      BY <1>1, <2>1
  <2>. HIDE DEF P
  <2>. QED
    BY <2>2
<1>4. ASSUME NEW n \in 0 .. N - 1, n \in S PROVE n + 1 \in S
  <2>. DEFINE l == L[n]
              x == t[n + 1]
  <2>1. n + 1 \in 1 .. N /\ (n + 1) - 1 = n /\ n \in Nat
    BY <1>1
  <2>2. x \in Char /\ P(l, n) /\ L[n + 1] = IF x = c THEN l ELSE Append(l, x)
    BY <1>1, <1>2, <1>4, <2>1
  <2>. HIDE DEF l
  <2>3. ASSUME x = c PROVE P(l, n + 1)
    <3>1. \A i \in 1 .. n + 1 : t[i] # c => i \in 1 .. n
      BY <2>1, <2>3
    <3>2. \A j \in 1 .. Len(l) : j .. n \subseteq j .. n + 1
      BY <2>1
    <3>3. Len(l) <= n + 1
      BY <2>1, <2>2
    <3>. QED
      BY <2>2, <3>1, <3>2, <3>3
  <2>4. ASSUME x # c PROVE P(Append(l, x), n + 1)
    <3>. DEFINE a == Append(l, x)
    <3>1. /\ a \in Seq(Char) /\ Len(a) = Len(l) + 1 /\ a[Len(l) + 1] = x
          /\ \A j \in 1 .. Len(l) : a[j] = l[j]
      BY <2>2
    <3>2. Len(a) <= n + 1
      BY <2>1, <2>2, <3>1
    <3>. HIDE DEF a
    <3>3. ASSUME NEW j \in 1 .. Len(a) PROVE a[j] # c /\ \E i \in j .. n + 1 : a[j] = t[i]
      <4>. HIDE DEF S, P
      <4>1. /\ l \in Seq(Char) /\ Len(l) <= n
            /\ \A m \in 1 .. Len(l) : l[m] # c /\ \E i \in m .. n : l[m] = t[i]
        BY <2>2 DEF P
      <4>2. CASE j \in 1 .. Len(l)
        <5>1. l[j] # c /\ a[j] = l[j]
          BY <3>1, <4>1, <4>2
        <5>2. PICK i \in j .. n : l[j] = t[i]
          BY <4>1, <4>2
        <5>3. i \in j .. n + 1
          BY <2>1, <5>2
        <5>. QED
          BY <5>1, <5>2, <5>3
      <4>3. CASE j = Len(l) + 1
        <5>1. a[j] = t[n + 1] /\ t[n + 1] # c
          BY <2>4, <3>1, <4>3
        <5>2. n + 1 \in j .. n + 1
          BY <2>1, <4>1, <4>3
        <5>. QED
          BY <5>1, <5>2
      <4>. QED
        BY <3>1, <4>1, <4>2, <4>3
    <3>4. ASSUME NEW i \in 1 .. n + 1, t[i] # c PROVE \E j \in 1 .. Len(a) : a[j] = t[i]
      <4>1. CASE i \in 1 .. n
        <5>1. PICK j \in 1 .. Len(l) : l[j] = t[i]
          BY <2>2, <3>4, <4>1
        <5>2. j \in 1 .. Len(a) /\ a[j] = t[i]
          BY <2>2, <3>1, <5>1
        <5>. QED
          BY <5>2
      <4>2. CASE i = n + 1
        <5>1. Len(a) \in 1 .. Len(a) /\ a[Len(a)] = t[i]
          BY <2>2, <3>1, <4>2
        <5>. QED
          BY <5>1
      <4>. QED
        BY <2>1, <4>1, <4>2
    <3>. QED
      BY <3>1, <3>2, <3>3, <3>4 DEF a
  <2>5. P(L[n + 1], n + 1)
    <3>. HIDE DEF P, x
    <3>. QED
      BY <2>2, <2>3, <2>4
  <2>. HIDE DEF P
  <2>. QED
    BY <1>1, <2>1, <2>5
<1>5. 0 .. N \subseteq S
  <2>. HIDE DEF S
  <2>. QED
    BY <1>1, <1>3, <1>4, Induction
<1>6. \A n \in 0 .. N : P(L[n], n)
  <2>. HIDE DEF P
  <2>. QED
    BY <1>5
<1>. QED
  BY <1>6 DEF L, N

\* Without takes nothing from a text that c does not occur in.
LEMMA WithoutAbsent ==
  ASSUME NEW t \in Seq(Char), NEW c, \A n \in DOMAIN t : t[n] # c
  PROVE  Without(t, c) = t
<1>. DEFINE N == Len(t)
            L == Left(t, c)
            S == {n \in 0 .. N : Len(L[n]) = n /\ \A i \in 1 .. n : L[n][i] = t[i]}
<1>1. N \in Nat /\ L[0] = <<>> /\ DOMAIN t = 1 .. N
  BY LeftDef
<1>2. \A n \in 1 .. N : L[n] = Append(L[n - 1], t[n])
  <2>1. \A n \in 1 .. N : L[n] = IF t[n] = c THEN L[n - 1] ELSE Append(L[n - 1], t[n])
    BY LeftDef
  <2>2. \A n \in 1 .. N : t[n] # c
    BY <1>1
  <2>. HIDE DEF L
  <2>. QED
    BY <2>1, <2>2
<1>3. \A n \in 0 .. N : L[n] \in Seq(Char)
  BY LeftEffect
<1>4. \A n \in 1 .. N : t[n] \in Char
  OBVIOUS
<1>. HIDE DEF L, N
<1>5. 0 \in S
  BY <1>1
<1>6. ASSUME NEW n \in 0 .. N - 1, n \in S PROVE n + 1 \in S
  <2>. DEFINE l == L[n]
              x == t[n + 1]
              a == Append(l, x)
  <2>1. n + 1 \in 1 .. N /\ (n + 1) - 1 = n /\ n \in Nat
    BY <1>1
  <2>2. l \in Seq(Char) /\ Len(l) = n /\ L[n + 1] = a /\ \A i \in 1 .. n : l[i] = t[i]
    BY <1>1, <1>2, <1>3, <1>6, <2>1
  <2>. HIDE DEF l
  <2>3. Len(a) = n + 1 /\ a[n + 1] = x /\ \A i \in 1 .. n : a[i] = l[i]
    BY <2>1, <2>2
  <2>. HIDE DEF a
  <2>4. \A i \in 1 .. n + 1 : a[i] = t[i]
    BY <2>1, <2>2, <2>3
  <2>. QED
    BY <2>1, <2>2, <2>3, <2>4
<1>7. 0 .. N \subseteq S
  <2>. HIDE DEF S
  <2>. QED
    BY <1>1, <1>5, <1>6, Induction
<1>8. L[N] \in Seq(Char) /\ Len(L[N]) = N /\ \A i \in 1 .. N : L[N][i] = t[i]
  BY <1>1, <1>3, <1>7
<1>9. L[N] = t
  BY <1>1, <1>8, SameSeq DEF N
<1>. QED
  BY <1>9 DEF L, N, Without

\* The characters of two texts in one.
LEMMA ConcatEffect ==
  ASSUME NEW w \in Seq(Char), NEW f \in Seq(Char)
  PROVE  /\ w \o f \in Seq(Char) /\ Len(w \o f) = Len(w) + Len(f)
         /\ \A i \in 1 .. Len(w) : (w \o f)[i] = w[i]
         /\ \A i \in 1 .. Len(f) : (w \o f)[Len(w) + i] = f[i]
OBVIOUS

\* A character behind two texts is one behind the second.
LEMMA AppendConcat ==
  ASSUME NEW w \in Seq(Char), NEW f \in Seq(Char), NEW x \in Char
  PROVE  Append(w \o f, x) = w \o Append(f, x)
OBVIOUS

\* Without works on each part of a text by itself.
LEMMA WithoutConcat ==
  ASSUME NEW w \in Seq(Char), NEW f \in Seq(Char), NEW c
  PROVE  Without(w \o f, c) = Without(w, c) \o Without(f, c)
<1>. DEFINE t == w \o f
            W == Len(w)
            F == Len(f)
            L == Left(t, c)
            A == Left(w, c)
            B == Left(f, c)
<1>1. /\ t \in Seq(Char) /\ Len(t) = W + F /\ W \in Nat /\ F \in Nat
      /\ \A i \in 1 .. W : t[i] = w[i]
      /\ \A i \in 1 .. F : t[W + i] = f[i]
  BY ConcatEffect
<1>2. /\ L[0] = <<>>
      /\ \A n \in 1 .. W + F : L[n] = IF t[n] = c THEN L[n - 1] ELSE Append(L[n - 1], t[n])
  <2>. HIDE DEF t
  <2>. QED
    BY <1>1, LeftDef
<1>3. /\ A[0] = <<>>
      /\ \A n \in 1 .. W : A[n] = IF w[n] = c THEN A[n - 1] ELSE Append(A[n - 1], w[n])
  BY LeftDef
<1>4. /\ B[0] = <<>>
      /\ \A n \in 1 .. F : B[n] = IF f[n] = c THEN B[n - 1] ELSE Append(B[n - 1], f[n])
  BY LeftDef
<1>5. (\A n \in 0 .. W : A[n] \in Seq(Char)) /\ (\A n \in 0 .. F : B[n] \in Seq(Char))
  BY LeftEffect
<1>6. \A n \in 1 .. F : f[n] \in Char
  OBVIOUS
<1>. HIDE DEF t, L, A, B, W, F
<1>7. L[W] = A[W]
  <2>. DEFINE S == {n \in 0 .. W : L[n] = A[n]}
  <2>1. 0 \in S
    BY <1>1, <1>2, <1>3
  <2>2. ASSUME NEW n \in 0 .. W - 1, n \in S PROVE n + 1 \in S
    <3>1. n + 1 \in 1 .. W /\ n + 1 \in 1 .. W + F /\ (n + 1) - 1 = n /\ L[n] = A[n]
      BY <1>1, <2>2
    <3>2. L[n + 1] = IF t[n + 1] = c THEN L[n] ELSE Append(L[n], t[n + 1])
      BY <1>2, <3>1
    <3>3. A[n + 1] = IF w[n + 1] = c THEN A[n] ELSE Append(A[n], w[n + 1])
      BY <1>3, <3>1
    <3>4. L[n + 1] = A[n + 1]
      BY <1>1, <3>1, <3>2, <3>3
    <3>. QED
      BY <3>1, <3>4
  <2>3. 0 .. W \subseteq S
    <3>. HIDE DEF S
    <3>. QED
      BY <1>1, <2>1, <2>2, Induction
  <2>. QED
    BY <1>1, <2>3
<1>8. L[W + F] = A[W] \o B[F]
  <2>. DEFINE S == {n \in 0 .. F : L[W + n] = A[W] \o B[n]}
  <2>1. 0 \in S
    <3>1. A[W] \in Seq(Char)
      BY <1>1, <1>5
    <3>2. A[W] \o <<>> = A[W]
      BY <3>1
    <3>3. W + 0 = W /\ 0 \in 0 .. F
      BY <1>1
    <3>. QED
      BY <1>4, <1>7, <3>2, <3>3
  <2>2. ASSUME NEW n \in 0 .. F - 1, n \in S PROVE n + 1 \in S
    <3>1. /\ n + 1 \in 1 .. F /\ (n + 1) - 1 = n /\ W + (n + 1) \in 1 .. W + F
          /\ (W + (n + 1)) - 1 = W + n /\ n \in 0 .. F /\ W \in 0 .. W
      BY <1>1
    <3>2. L[W + (n + 1)] = IF f[n + 1] = c THEN L[W + n] ELSE Append(L[W + n], f[n + 1])
      BY <1>1, <1>2, <3>1
    <3>3. B[n + 1] = IF f[n + 1] = c THEN B[n] ELSE Append(B[n], f[n + 1])
      BY <1>4, <3>1
    <3>4. L[W + n] = A[W] \o B[n] /\ A[W] \in Seq(Char) /\ B[n] \in Seq(Char) /\ f[n + 1] \in Char
      BY <1>5, <1>6, <2>2, <3>1
    <3>5. Append(A[W] \o B[n], f[n + 1]) = A[W] \o Append(B[n], f[n + 1])
      BY <3>4, AppendConcat
    <3>6. L[W + (n + 1)] = A[W] \o B[n + 1]
      BY <3>2, <3>3, <3>4, <3>5
    <3>7. n + 1 \in 0 .. F
      BY <3>1
    <3>. DEFINE k == n + 1
    <3>8. k \in 0 .. F /\ L[W + k] = A[W] \o B[k]
      BY <3>6, <3>7
    <3>9. k \in S
      <4>. HIDE DEF k
      <4>. QED
        BY <3>8
    <3>. QED
      BY <3>9
  <2>3. 0 .. F \subseteq S
    <3>. HIDE DEF S
    <3>. QED
      BY <1>1, <2>1, <2>2, Induction
  <2>4. F \in S
    <3>. HIDE DEF S
    <3>. QED
      BY <1>1, <2>3
  <2>. QED
    BY <2>4
<1>. QED
  BY <1>1, <1>8 DEF t, L, A, B, W, F, Without

\* The value of the first characters does not depend on the others.
LEMMA ValueConcat ==
  ASSUME NEW w \in Seq(Char), NEW f \in Seq(Char)
  PROVE  \A n \in 0 .. Len(w) : Value(w \o f)[n] = Value(w)[n]
<1>. DEFINE t == w \o f
            W == Len(w)
            U == Value(t)
            V == Value(w)
            S == {n \in 0 .. W : U[n] = V[n]}
<1>1. /\ t \in Seq(Char) /\ Len(t) \in Nat /\ Len(t) >= W /\ W \in Nat
      /\ \A i \in 1 .. W : t[i] = w[i]
  BY ConcatEffect
<1>2. /\ U[0] = 0
      /\ \A n \in 1 .. Len(t) : U[n] = IF t[n] \in Digit THEN 10 * U[n - 1] + t[n] ELSE U[n - 1]
  <2>. HIDE DEF t
  <2>. QED
    BY <1>1, ValueDef
<1>3. /\ V[0] = 0
      /\ \A n \in 1 .. W : V[n] = IF w[n] \in Digit THEN 10 * V[n - 1] + w[n] ELSE V[n - 1]
  BY ValueDef
<1>. HIDE DEF t, U, V, W
<1>4. 0 \in S
  BY <1>1, <1>2, <1>3
<1>5. ASSUME NEW n \in 0 .. W - 1, n \in S PROVE n + 1 \in S
  <2>1. n + 1 \in 1 .. W /\ n + 1 \in 1 .. Len(t) /\ (n + 1) - 1 = n /\ U[n] = V[n]
    BY <1>1, <1>5
  <2>2. U[n + 1] = IF t[n + 1] \in Digit THEN 10 * U[n] + t[n + 1] ELSE U[n]
    BY <1>2, <2>1
  <2>3. V[n + 1] = IF w[n + 1] \in Digit THEN 10 * V[n] + w[n + 1] ELSE V[n]
    BY <1>3, <2>1
  <2>4. U[n + 1] = V[n + 1]
    BY <1>1, <2>1, <2>2, <2>3
  <2>. QED
    BY <2>1, <2>4
<1>6. 0 .. W \subseteq S
  <2>. HIDE DEF S
  <2>. QED
    BY <1>1, <1>4, <1>5, Induction
<1>. QED
  BY <1>6 DEF t, U, V, W

\* Only the digits count.
LEMMA ValueWithout ==
  ASSUME NEW t \in Seq(Char), NEW c, c \notin Digit
  PROVE  Value(Without(t, c))[Len(Without(t, c))] = Value(t)[Len(t)]
<1>. DEFINE N == Len(t)
            L == Left(t, c)
            V == Value(t)
            Whole(l) == Value(l)[Len(l)]
            S == {n \in 0 .. N : Whole(L[n]) = V[n]}
<1>1. N \in Nat /\ L[0] = <<>> /\ \A n \in 1 .. N : t[n] \in Char
  BY LeftDef
<1>2. \A n \in 1 .. N : L[n] = IF t[n] = c THEN L[n - 1] ELSE Append(L[n - 1], t[n])
  BY LeftDef
<1>3. \A n \in 0 .. N : L[n] \in Seq(Char)
  BY LeftEffect
<1>4. /\ V[0] = 0
      /\ \A n \in 1 .. N : V[n] = IF t[n] \in Digit THEN 10 * V[n - 1] + t[n] ELSE V[n - 1]
  BY ValueDef
<1>5. ASSUME NEW l \in Seq(Char), NEW x \in Char
      PROVE  Whole(Append(l, x)) = IF x \in Digit THEN 10 * Whole(l) + x ELSE Whole(l)
  <2>. DEFINE a == Append(l, x)
              k == Len(l)
  <2>1. /\ a \in Seq(Char) /\ Len(a) = k + 1 /\ a[k + 1] = x /\ k \in Nat
        /\ Len(a) \in Nat /\ k + 1 \in 1 .. Len(a) /\ (k + 1) - 1 = k /\ k \in 0 .. Len(l)
    OBVIOUS
  <2>2. <<x>> \in Seq(Char) /\ a = l \o <<x>>
    OBVIOUS
  <2>3. Value(a)[k] = Value(l)[k]
    <3>1. \A n \in 0 .. Len(l) : Value(l \o <<x>>)[n] = Value(l)[n]
      BY <2>2, ValueConcat
    <3>. HIDE DEF a
    <3>. QED
      BY <2>1, <2>2, <3>1
  <2>. HIDE DEF a
  <2>4. Value(a)[k + 1] = IF a[k + 1] \in Digit THEN 10 * Value(a)[(k + 1) - 1] + a[k + 1]
                          ELSE Value(a)[(k + 1) - 1]
    <3>. HIDE DEF k
    <3>. QED
      BY <2>1, ValueDef
  <2>. QED
    BY <2>1, <2>3, <2>4 DEF a
<1>6. Whole(<<>>) = 0
  <2>1. Len(<<>>) = 0 /\ Len(<<>>) \in Nat
    OBVIOUS
  <2>2. Value(<<>>)[0] = 0
    BY <2>1, ValueDef
  <2>. QED
    BY <2>1, <2>2
<1>. HIDE DEF N, L, V, Whole
<1>7. 0 \in S
  BY <1>1, <1>4, <1>6
<1>8. ASSUME NEW n \in 0 .. N - 1, n \in S PROVE n + 1 \in S
  <2>1. n + 1 \in 1 .. N /\ (n + 1) - 1 = n /\ n \in 0 .. N /\ Whole(L[n]) = V[n]
    BY <1>1, <1>8
  <2>2. L[n + 1] = IF t[n + 1] = c THEN L[n] ELSE Append(L[n], t[n + 1])
    BY <1>2, <2>1
  <2>3. V[n + 1] = IF t[n + 1] \in Digit THEN 10 * V[n] + t[n + 1] ELSE V[n]
    BY <1>4, <2>1
  <2>4. Whole(Append(L[n], t[n + 1]))
          = IF t[n + 1] \in Digit THEN 10 * Whole(L[n]) + t[n + 1] ELSE Whole(L[n])
    BY <1>1, <1>3, <1>5, <2>1
  <2>5. Whole(L[n + 1]) = V[n + 1]
    BY <2>1, <2>2, <2>3, <2>4
  <2>. QED
    BY <2>1, <2>5
<1>9. 0 .. N \subseteq S
  <2>. HIDE DEF S
  <2>. QED
    BY <1>1, <1>7, <1>8, Induction
<1>10. Whole(L[N]) = V[N]
  BY <1>1, <1>9
<1>. QED
  BY <1>10 DEF N, L, V, Whole, Without

\* The number that the digits of a text write.
Whole(t) == Value(t)[Len(t)]

FirstPlace(t, c) == SelectInSeq(t, LAMBDA d : d = c)
LastPlace(t, c)  == SelectLastInSeq(t, LAMBDA d : d = c)

\* The first place of a character, 0 if it does not occur.
LEMMA FirstPlaceEffect ==
  ASSUME NEW t \in Seq(Char), NEW c
  PROVE  \/ FirstPlace(t, c) = 0 /\ \A n \in DOMAIN t : t[n] # c
         \/ /\ FirstPlace(t, c) \in DOMAIN t /\ t[FirstPlace(t, c)] = c
            /\ \A n \in DOMAIN t : t[n] = c => FirstPlace(t, c) <= n
<1>. DEFINE p == FirstPlace(t, c)
            J == {n \in 1 .. Len(t) : t[n] = c}
<1>1. p = IF J # {} THEN Min(J) ELSE 0
  BY DEF SelectInSeq, FirstPlace
<1>2. Min(J) = CHOOSE x \in J : \A y \in J : x <= y
  BY DEF Min
<1>3. J # {} => Min(J) \in J /\ \A y \in J : Min(J) <= y
  <2>1. J \in SUBSET Nat
    OBVIOUS
  <2>. HIDE DEF J
  <2>. QED
    BY <1>2, <2>1, SmallestOf
<1>. HIDE DEF p
<1>4. CASE J = {}
  <2>1. \A n \in DOMAIN t : t[n] # c
    BY <1>4
  <2>2. p = 0
    BY <1>1, <1>4
  <2>. QED
    BY <2>1, <2>2 DEF p
<1>5. CASE J # {}
  <2>1. p \in J /\ \A y \in J : p <= y
    BY <1>1, <1>3, <1>5
  <2>2. p \in DOMAIN t /\ t[p] = c /\ \A n \in DOMAIN t : t[n] = c => p <= n
    BY <2>1
  <2>. QED
    BY <2>2 DEF p
<1>. QED
  BY <1>4, <1>5

\* The last place of a character, 0 if it does not occur.
LEMMA LastPlaceEffect ==
  ASSUME NEW t \in Seq(Char), NEW c
  PROVE  \/ LastPlace(t, c) = 0 /\ \A n \in DOMAIN t : t[n] # c
         \/ /\ LastPlace(t, c) \in DOMAIN t /\ t[LastPlace(t, c)] = c
            /\ \A n \in DOMAIN t : t[n] = c => n <= LastPlace(t, c)
<1>. DEFINE p == LastPlace(t, c)
            J == {n \in 1 .. Len(t) : t[n] = c}
<1>1. p = IF J # {} THEN Max(J) ELSE 0
  BY DEF SelectLastInSeq, LastPlace
<1>3. J # {} => Max(J) \in J /\ \A y \in J : y <= Max(J)
  <2>1. J \in SUBSET (1 .. Len(t)) /\ Len(t) \in Nat
    OBVIOUS
  <2>. HIDE DEF J
  <2>. QED
    BY <2>1, LargestOf
<1>. HIDE DEF p
<1>4. CASE J = {}
  <2>1. \A n \in DOMAIN t : t[n] # c
    BY <1>4
  <2>2. p = 0
    BY <1>1, <1>4
  <2>. QED
    BY <2>1, <2>2 DEF p
<1>5. CASE J # {}
  <2>1. p \in J /\ \A y \in J : y <= p
    BY <1>1, <1>3, <1>5
  <2>2. p \in DOMAIN t /\ t[p] = c /\ \A n \in DOMAIN t : t[n] = c => n <= p
    BY <2>1
  <2>. QED
    BY <2>2 DEF p
<1>. QED
  BY <1>4, <1>5

\* A character occurs once when it has one place, and never when it has none.
LEMMA OccurrencesOnce ==
  ASSUME NEW t \in Seq(Char), NEW c
  PROVE  /\ \A p \in DOMAIN t : (t[p] = c /\ \A n \in DOMAIN t : t[n] = c => n = p)
                                  => Occurrences(t, c) = 1
         /\ Occurrences(t, c) = 1 =>
              \A n, p \in DOMAIN t : t[n] = c /\ t[p] = c => n = p
         /\ (\A n \in DOMAIN t : t[n] # c) => Occurrences(t, c) = 0
<1>. DEFINE J == {n \in DOMAIN t : t[n] = c}
<1>1. Occurrences(t, c) = Cardinality(J)
  BY DEF Occurrences
<1>2. ASSUME NEW p \in DOMAIN t, t[p] = c, \A n \in DOMAIN t : t[n] = c => n = p
      PROVE  Occurrences(t, c) = 1
  <2>1. J = {p}
    BY <1>2
  <2>2. Cardinality({p}) = 1
    BY FS_Singleton
  <2>. QED
    BY <1>1, <2>1, <2>2
<1>3. ASSUME Occurrences(t, c) = 1, NEW n \in DOMAIN t, NEW p \in DOMAIN t, t[n] = c, t[p] = c
      PROVE  n = p
  <2>1. IsFiniteSet(J)
    <3>1. IsFiniteSet(1 .. Len(t))
      BY FS_Interval
    <3>2. J \subseteq 1 .. Len(t)
      OBVIOUS
    <3>. HIDE DEF J
    <3>. QED
      BY <3>1, <3>2, FS_Subset
  <2>2. n \in J /\ p \in J
    BY <1>3
  <2>3. PICK x : J = {x}
    <3>. HIDE DEF J
    <3>. QED
      BY <1>1, <1>3, <2>1, FS_Singleton
  <2>. HIDE DEF J
  <2>. QED
    BY <2>2, <2>3
<1>4. ASSUME \A n \in DOMAIN t : t[n] # c PROVE Occurrences(t, c) = 0
  <2>1. J = {}
    BY <1>4
  <2>. QED
    BY <1>1, <2>1, FS_EmptySet
<1>. QED
  BY <1>2, <1>3, <1>4

\* ReplaceAll leaves a text as long as it was.
LEMMA ReplaceAllEffect ==
  ASSUME NEW t \in Seq(Char), NEW c, NEW d \in Char
  PROVE  /\ ReplaceAll(t, c, d) \in Seq(Char) /\ Len(ReplaceAll(t, c, d)) = Len(t)
         /\ \A n \in 1 .. Len(t) : ReplaceAll(t, c, d)[n] = IF t[n] = c THEN d ELSE t[n]
BY DEF ReplaceAll

\* A separator that only the second part has is only replaced there.
LEMMA ReplaceConcat ==
  ASSUME NEW w \in Seq(Char), NEW f \in Seq(Char), NEW c, NEW d \in Char,
         \A n \in DOMAIN w : w[n] # c
  PROVE  ReplaceAll(w \o f, c, d) = w \o ReplaceAll(f, c, d)
<1>. DEFINE t == w \o f
            r == ReplaceAll(t, c, d)
            g == ReplaceAll(f, c, d)
            s == w \o g
<1>1. /\ t \in Seq(Char) /\ Len(t) = Len(w) + Len(f)
      /\ \A i \in 1 .. Len(w) : t[i] = w[i]
      /\ \A i \in 1 .. Len(f) : t[Len(w) + i] = f[i]
  BY ConcatEffect
<1>2. g \in Seq(Char) /\ Len(g) = Len(f) /\ \A n \in 1 .. Len(f) : g[n] = IF f[n] = c THEN d ELSE f[n]
  BY ReplaceAllEffect
<1>. HIDE DEF t, g
<1>3. r \in Seq(Char) /\ Len(r) = Len(t) /\ \A n \in 1 .. Len(t) : r[n] = IF t[n] = c THEN d ELSE t[n]
  <2>1. t \in Seq(Char)
    BY <1>1
  <2>2. /\ ReplaceAll(t, c, d) \in Seq(Char) /\ Len(ReplaceAll(t, c, d)) = Len(t)
        /\ \A n \in 1 .. Len(t) : ReplaceAll(t, c, d)[n] = IF t[n] = c THEN d ELSE t[n]
    BY <2>1, ReplaceAllEffect
  <2>. HIDE DEF r
  <2>3. r = ReplaceAll(t, c, d)
    BY DEF r
  <2>. QED
    BY <2>2, <2>3
<1>4. /\ s \in Seq(Char) /\ Len(s) = Len(w) + Len(g)
      /\ \A i \in 1 .. Len(w) : s[i] = w[i]
      /\ \A i \in 1 .. Len(g) : s[Len(w) + i] = g[i]
  BY <1>2, ConcatEffect
<1>. HIDE DEF r, s
<1>5. Len(w) \in Nat /\ Len(f) \in Nat
  OBVIOUS
<1>6. ASSUME NEW i \in 1 .. Len(r) PROVE r[i] = s[i]
  <2>1. CASE i \in 1 .. Len(w)
    <3>1. w[i] # c
      BY <2>1
    <3>. QED
      BY <1>1, <1>3, <1>4, <2>1, <3>1
  <2>2. CASE i - Len(w) \in 1 .. Len(f)
    <3>. DEFINE j == i - Len(w)
    <3>1. j \in 1 .. Len(f) /\ i = Len(w) + j
      BY <1>1, <1>3, <2>2
    <3>2. t[i] = f[j] /\ s[i] = g[j]
      BY <1>1, <1>2, <1>4, <3>1
    <3>. QED
      BY <1>2, <1>3, <3>1, <3>2
  <2>. QED
    BY <1>1, <1>3, <2>1, <2>2
<1>7. r = s
  BY <1>1, <1>2, <1>3, <1>4, <1>5, <1>6, SameSeq
<1>. QED
  BY <1>7 DEF r, s, t, g

-------------------------------------------------------------------------------
(* The parts of an amount                                                  *)

\* The characters that set the parts of an amount apart.
Separator == {Comma, Dot, Space, Apostrophe}

\* A text that writes n in digits, grouped by g or not grouped, behind s signs.
Integer(w, g, n, s) ==
  /\ w \in Seq(Char) /\ s \in {0, 1} /\ Len(w) > s
  /\ s = 1 => w[1] = Minus
  /\ w[s + 1] \in Digit
  /\ \A i \in s + 1 .. Len(w) : w[i] \in Digit \cup {g}
  /\ \A i \in s + 1 .. Len(w) : w[i] = g => i <= Len(w) - 3 /\ w[Len(w) - 3] = g
  /\ Whole(w) = n

\* A decimal separator and the decimal places behind it, or nothing.
Decimals(f, q) ==
  /\ f \in Seq(Char) /\ Len(f) \in {0, 2, 3}
  /\ Len(f) > 0 => f[1] = q
  /\ \A i \in 2 .. Len(f) : f[i] \in Digit

\* The named characters are no digits and differ from each other.
LEMMA CharFacts ==
  /\ Separator \subseteq Char /\ Digit \subseteq Char /\ Minus \in Char /\ Digit \subseteq Int
  /\ Minus \notin Digit /\ Minus \notin Separator
  /\ \A c \in Separator : c \notin Digit
  /\ Comma # Dot /\ Comma # Space /\ Comma # Apostrophe /\ Dot # Space
  /\ Dot # Apostrophe /\ Space # Apostrophe
BY DEF Separator, Char, Digit, Comma, Dot, Space, Apostrophe, Minus

\* Only its own separator groups an integer.
LEMMA IntegerAbsent ==
  ASSUME NEW w, NEW g \in Separator, NEW n, NEW s, Integer(w, g, n, s),
         NEW c \in Separator, c # g
  PROVE  \A i \in DOMAIN w : w[i] # c
<1>. SUFFICES ASSUME NEW i \in DOMAIN w PROVE w[i] # c
  OBVIOUS
<1>1. (i = 1 /\ s = 1) \/ i \in s + 1 .. Len(w)
  BY DEF Integer
<1>. QED
  BY <1>1, CharFacts DEF Integer

\* With the grouping taken out it still writes the same number.
LEMMA IntegerStripped ==
  ASSUME NEW w, NEW g \in Separator, NEW n, NEW s, Integer(w, g, n, s)
  PROVE  /\ Integer(Without(w, g), g, n, s)
         /\ \A i \in DOMAIN Without(w, g) : Without(w, g)[i] # g
<1>. DEFINE u == Without(w, g)
            N == Len(w)
<1>1. /\ w \in Seq(Char) /\ s \in {0, 1} /\ N > s /\ N \in Nat
      /\ s = 1 => w[1] = Minus
      /\ w[s + 1] \in Digit
      /\ \A i \in s + 1 .. N : w[i] \in Digit \cup {g}
      /\ Whole(w) = n
  BY DEF Integer
<1>2. /\ u \in Seq(Char) /\ Len(u) <= N
      /\ \A j \in 1 .. Len(u) : u[j] # g /\ \E i \in j .. N : u[j] = w[i]
      /\ \A i \in 1 .. N : w[i] # g => \E j \in 1 .. Len(u) : u[j] = w[i]
  BY <1>1, LeftEffect DEF Without
<1>3. Whole(u) = n
  BY <1>1, CharFacts, ValueWithout DEF Whole
<1>. HIDE DEF u, N
<1>4. ASSUME NEW j \in 1 .. Len(u), j > s PROVE u[j] \in Digit
  <2>1. PICK i \in j .. N : u[j] = w[i] /\ u[j] # g
    BY <1>2
  <2>2. i \in s + 1 .. N
    BY <1>1, <1>2, <1>4
  <2>. QED
    BY <1>1, <2>1, <2>2
<1>5. w[s + 1] # g /\ s + 1 \in 1 .. N
  BY <1>1, CharFacts
<1>6. PICK k \in 1 .. Len(u) : u[k] = w[s + 1]
  BY <1>2, <1>5
<1>7. s = 1 => u[1] = Minus /\ Len(u) > 1
  <2>. SUFFICES ASSUME s = 1 PROVE u[1] = Minus /\ Len(u) > 1
    OBVIOUS
  <2>1. w[1] = Minus /\ w[1] # g /\ 1 \in 1 .. N
    BY <1>1, CharFacts
  <2>2. PICK j \in 1 .. Len(u) : u[j] = Minus
    BY <1>2, <2>1
  <2>3. j = 1
    BY <1>2, <1>4, <2>2, CharFacts
  <2>4. u[k] # Minus
    BY <1>1, <1>6, CharFacts
  <2>. QED
    BY <1>2, <1>6, <2>2, <2>3, <2>4
<1>8. Len(u) > s
  BY <1>1, <1>2, <1>6, <1>7
<1>9. u[s + 1] \in Digit
  <2>1. s + 1 \in 1 .. Len(u) /\ s + 1 > s
    BY <1>1, <1>2, <1>8
  <2>. QED
    BY <1>4, <2>1
<1>10. \A i \in s + 1 .. Len(u) : u[i] \in Digit
  BY <1>1, <1>2, <1>4
<1>11. \A i \in s + 1 .. Len(u) : u[i] # g
  BY <1>1, <1>2
<1>12. Integer(u, g, n, s)
  BY <1>1, <1>2, <1>3, <1>7, <1>8, <1>9, <1>10, <1>11 DEF Integer
<1>. QED
  BY <1>2, <1>12 DEF u

\* A text without separators in front of its decimal places.
LEMMA CanonicalPlain ==
  ASSUME NEW u \in Seq(Char), \A i \in DOMAIN u : u[i] # Comma /\ u[i] # Dot,
         NEW q \in {Comma, Dot}, NEW f, Decimals(f, q)
  PROVE  Canonical(u \o f) = u \o ReplaceAll(f, q, Dot)
<1>. DEFINE t == u \o f
            other == IF q = Comma THEN Dot ELSE Comma
<1>1. /\ f \in Seq(Char) /\ Len(f) \in {0, 2, 3} /\ (Len(f) > 0 => f[1] = q)
      /\ \A i \in 2 .. Len(f) : f[i] \in Digit
  BY DEF Decimals
<1>2. /\ t \in Seq(Char) /\ Len(t) = Len(u) + Len(f) /\ Len(u) \in Nat
      /\ \A i \in 1 .. Len(u) : t[i] = u[i]
      /\ \A i \in 1 .. Len(f) : t[Len(u) + i] = f[i]
  BY <1>1, ConcatEffect
<1>3. Canonical(t) = CASE LastPlace(t, Comma) > 0 /\ LastPlace(t, Dot) > 0 ->
             IF LastPlace(t, Comma) > LastPlace(t, Dot)
               THEN ReplaceAll(Without(t, Dot), Comma, Dot)
               ELSE Without(t, Comma)
        [] LastPlace(t, Comma) > 0 /\ LastPlace(t, Dot) = 0 -> NormalizeSingleSeparator(t, Comma)
        [] LastPlace(t, Comma) = 0 /\ LastPlace(t, Dot) > 0 -> NormalizeSingleSeparator(t, Dot)
        [] OTHER -> t
  BY DEF Canonical, LastPlace
<1>4. ReplaceAll(t, q, Dot) = u \o ReplaceAll(f, q, Dot)
  <2>1. Dot \in Char /\ \A i \in DOMAIN u : u[i] # q
    BY CharFacts DEF Separator
  <2>. QED
    BY <1>1, <2>1, ReplaceConcat
<1>5. CASE Len(f) = 0
  <2>1. f = <<>> /\ t = u
    BY <1>1, <1>5
  <2>2. ReplaceAll(f, q, Dot) = <<>>
    BY <2>1 DEF ReplaceAll
  <2>3. LastPlace(t, Comma) = 0 /\ LastPlace(t, Dot) = 0
    BY <1>2, <2>1, LastPlaceEffect
  <2>4. Canonical(t) = t
    BY <1>3, <2>3
  <2>. QED
    BY <2>1, <2>2, <2>4
<1>6. CASE Len(f) > 0
  <2>. DEFINE p == Len(u) + 1
  <2>. HIDE DEF t
  <2>1. p \in DOMAIN t /\ t[p] = q
    BY <1>1, <1>2, <1>6
  <2>2. ASSUME NEW i \in DOMAIN t, i # p PROVE t[i] # Comma /\ t[i] # Dot
    <3>1. CASE i \in 1 .. Len(u)
      BY <1>2, <3>1
    <3>2. CASE i - Len(u) \in 2 .. Len(f)
      <4>. DEFINE j == i - Len(u)
      <4>1. j \in 1 .. Len(f) /\ i = Len(u) + j /\ f[j] \in Digit
        BY <1>1, <1>2, <3>2
      <4>2. t[i] \in Digit
        BY <1>2, <4>1
      <4>. QED
        BY <4>2, CharFacts DEF Separator
    <3>. QED
      BY <1>1, <1>2, <2>2, <3>1, <3>2
  <2>3. LastPlace(t, q) = p /\ FirstPlace(t, q) = p
    <3>1. \A i \in DOMAIN t : t[i] = q => i = p
      BY <2>2
    <3>. HIDE DEF p
    <3>2. LastPlace(t, q) = p
      BY <1>2, <2>1, <3>1, LastPlaceEffect
    <3>3. FirstPlace(t, q) = p
      BY <1>2, <2>1, <3>1, FirstPlaceEffect
    <3>. QED
      BY <3>2, <3>3
  <2>4. LastPlace(t, other) = 0
    <3>1. \A i \in DOMAIN t : t[i] # other
      BY <2>1, <2>2, CharFacts
    <3>. QED
      BY <1>2, <3>1, LastPlaceEffect
  <2>5. Canonical(t) = NormalizeSingleSeparator(t, q)
    <3>1. p > 0
      BY <1>2
    <3>2. CASE q = Comma
      <4>1. LastPlace(t, Comma) > 0 /\ LastPlace(t, Dot) = 0
        BY <2>3, <2>4, <3>1, <3>2
      <4>2. ~(LastPlace(t, Dot) > 0)
        BY <4>1
      <4>. QED
        BY <1>3, <3>2, <4>1, <4>2
    <3>3. CASE q = Dot
      <4>1. LastPlace(t, Comma) = 0 /\ LastPlace(t, Dot) > 0
        BY <2>3, <2>4, <3>1, <3>3, CharFacts
      <4>2. ~(LastPlace(t, Comma) > 0) /\ LastPlace(t, Dot) # 0
        BY <2>3, <3>1, <3>3, <4>1
      <4>. QED
        BY <1>3, <3>3, <4>1, <4>2
    <3>. QED
      BY <3>2, <3>3
  <2>6. Occurrences(t, q) = 1
    <3>1. \A i \in DOMAIN t : t[i] = q => i = p
      BY <2>2
    <3>. HIDE DEF p
    <3>. QED
      BY <1>2, <2>1, <3>1, OccurrencesOnce
  <2>7. Len(t) - FirstPlace(t, q) # 3
    <3>1. FirstPlace(t, q) = Len(u) + 1 /\ Len(t) = Len(u) + Len(f) /\ Len(f) \in {2, 3} /\ Len(u) \in Nat
      BY <1>1, <1>2, <1>6, <2>3
    <3>2. \A x \in Nat, y \in {2, 3} : (x + y) - (x + 1) # 3
      OBVIOUS
    <3>3. (Len(u) + Len(f)) - (Len(u) + 1) # 3
      BY <3>1, <3>2
    <3>. QED
      BY <3>1, <3>3
  <2>8. NormalizeSingleSeparator(t, q) = ReplaceAll(t, q, Dot)
    <3>. HIDE DEF p
    <3>. QED
      BY <2>6, <2>7 DEF NormalizeSingleSeparator, FirstPlace
  <2>. QED
    BY <1>4, <2>5, <2>8 DEF t
<1>. QED
  BY <1>1, <1>5, <1>6

\* A text grouped by a comma or a dot, with or without decimal places.
LEMMA CanonicalGrouped ==
  ASSUME NEW g \in {Comma, Dot}, NEW w, NEW n, NEW s, Integer(w, g, n, s),
         NEW k \in DOMAIN w, w[k] = g,
         NEW q \in {Comma, Dot}, q # g, NEW f, Decimals(f, q)
  PROVE  Canonical(w \o f) = Without(w, g) \o ReplaceAll(f, q, Dot)
<1>. DEFINE t == w \o f
            N == Len(w)
<1>1. /\ f \in Seq(Char) /\ Len(f) \in {0, 2, 3} /\ (Len(f) > 0 => f[1] = q)
      /\ \A i \in 2 .. Len(f) : f[i] \in Digit
  BY DEF Decimals
<1>2. /\ w \in Seq(Char) /\ g \in Separator /\ q \in Separator /\ N \in Nat
      /\ s \in {0, 1} /\ (s = 1 => w[1] = Minus)
      /\ \A i \in s + 1 .. N : w[i] = g => i <= N - 3 /\ w[N - 3] = g
  BY DEF Integer, Separator
<1>3. /\ t \in Seq(Char) /\ Len(t) = N + Len(f)
      /\ \A i \in 1 .. N : t[i] = w[i]
      /\ \A i \in 1 .. Len(f) : t[N + i] = f[i]
  BY <1>1, <1>2, ConcatEffect
<1>4. Canonical(t) = CASE LastPlace(t, Comma) > 0 /\ LastPlace(t, Dot) > 0 ->
             IF LastPlace(t, Comma) > LastPlace(t, Dot)
               THEN ReplaceAll(Without(t, Dot), Comma, Dot)
               ELSE Without(t, Comma)
        [] LastPlace(t, Comma) > 0 /\ LastPlace(t, Dot) = 0 -> NormalizeSingleSeparator(t, Comma)
        [] LastPlace(t, Comma) = 0 /\ LastPlace(t, Dot) > 0 -> NormalizeSingleSeparator(t, Dot)
        [] OTHER -> t
  BY DEF Canonical, LastPlace
<1>5. \A i \in DOMAIN w : w[i] # q
  BY <1>2, IntegerAbsent
<1>6. \A i \in DOMAIN f : f[i] # g
  <2>1. \A i \in 1 .. Len(f) : f[i] = q \/ f[i] \in Digit
    BY <1>1
  <2>. QED
    BY <1>1, <1>2, <2>1, CharFacts
<1>7. k \in s + 1 .. N /\ N - 3 \in s + 1 .. N /\ w[N - 3] = g
  <2>1. w[1] = Minus => k # 1
    BY <1>2, CharFacts
  <2>2. k \in s + 1 .. N
    BY <1>2, <2>1
  <2>. QED
    BY <1>2, <2>2
<1>8. CASE Len(f) = 0
  <2>1. f = <<>> /\ t = w
    BY <1>1, <1>2, <1>8
  <2>2. Without(w, g) \o ReplaceAll(f, q, Dot) = Without(w, g)
    <3>1. ReplaceAll(f, q, Dot) = <<>>
      BY <2>1 DEF ReplaceAll
    <3>2. Without(w, g) \in Seq(Char)
      BY <1>2, LeftTyped
    <3>. QED
      BY <3>1, <3>2
  <2>3. LastPlace(w, q) = 0
    BY <1>2, <1>5, LastPlaceEffect
  <2>4. LastPlace(w, g) \in Nat /\ LastPlace(w, g) > 0 /\ LastPlace(w, g) # 0
    BY <1>2, LastPlaceEffect
  <2>5. Canonical(w) = NormalizeSingleSeparator(w, g)
    <3>1. CASE g = Comma
      <4>1. LastPlace(t, Comma) > 0 /\ LastPlace(t, Dot) = 0 /\ ~(LastPlace(t, Dot) > 0)
        BY <2>1, <2>3, <2>4, <3>1
      <4>. QED
        BY <1>4, <2>1, <3>1, <4>1
    <3>2. CASE g = Dot
      <4>1. LastPlace(t, Dot) > 0 /\ LastPlace(t, Dot) # 0 /\ LastPlace(t, Comma) = 0 /\ ~(LastPlace(t, Comma) > 0)
        BY <2>1, <2>3, <2>4, <3>2
      <4>. QED
        BY <1>4, <2>1, <3>2, <4>1
    <3>. QED
      BY <3>1, <3>2
  <2>6. ASSUME Occurrences(w, g) = 1 PROVE Len(w) - FirstPlace(w, g) = 3
    <3>1. FirstPlace(w, g) \in DOMAIN w /\ w[FirstPlace(w, g)] = g
      BY <1>2, FirstPlaceEffect
    <3>2. N - 3 \in DOMAIN w /\ w[N - 3] = g
      BY <1>2, <1>7
    <3>3. FirstPlace(w, g) = N - 3
      BY <1>2, <2>6, <3>1, <3>2, OccurrencesOnce
    <3>. QED
      BY <1>2, <3>3
  <2>7. NormalizeSingleSeparator(w, g) = Without(w, g)
    BY <2>6 DEF NormalizeSingleSeparator, FirstPlace
  <2>. QED
    BY <2>1, <2>2, <2>5, <2>7
<1>9. CASE Len(f) > 0
  <2>. DEFINE p == N + 1
  <2>. HIDE DEF t
  <2>1. p \in DOMAIN t /\ t[p] = q
    BY <1>1, <1>2, <1>3, <1>9
  <2>2. LastPlace(t, q) \in DOMAIN t /\ LastPlace(t, q) >= p
    BY <1>3, <2>1, LastPlaceEffect
  <2>3. \A i \in DOMAIN t : t[i] = g => i <= N
    <3>. SUFFICES ASSUME NEW i \in DOMAIN t, t[i] = g, ~(i <= N) PROVE FALSE
      BY <1>2, <1>3
    <3>. DEFINE j == i - N
    <3>1. j \in 1 .. Len(f) /\ i = N + j
      <4>1. i \in 1 .. N + Len(f) /\ N \in Nat /\ Len(f) \in Nat
        BY <1>1, <1>2, <1>3
      <4>. QED
        BY <4>1
    <3>2. f[j] = g
      BY <1>3, <3>1
    <3>. QED
      BY <1>1, <1>6, <3>1, <3>2
  <2>4. k \in DOMAIN t /\ t[k] = g
    BY <1>1, <1>2, <1>3
  <2>5. LastPlace(t, g) \in DOMAIN t /\ LastPlace(t, g) <= N
    BY <1>3, <2>3, <2>4, LastPlaceEffect
  <2>6. LastPlace(t, g) > 0 /\ LastPlace(t, q) > 0 /\ LastPlace(t, q) > LastPlace(t, g) /\ ~(LastPlace(t, g) > LastPlace(t, q))
    BY <1>2, <1>3, <2>2, <2>5
  <2>7. Without(t, g) = Without(w, g) \o f
    <3>1. Without(f, g) = f
      BY <1>1, <1>6, WithoutAbsent
    <3>2. w \in Seq(Char) /\ f \in Seq(Char)
      BY <1>1, <1>2
    <3>3. Without(w \o f, g) = Without(w, g) \o Without(f, g)
      BY <3>2, WithoutConcat
    <3>. QED
      BY <3>1, <3>3 DEF t
  <2>8. CASE q = Comma
    <3>1. g = Dot
      BY <2>8
    <3>2. Canonical(t) = ReplaceAll(Without(w, g) \o f, Comma, Dot)
      <4>1. LastPlace(t, Comma) > 0 /\ LastPlace(t, Dot) > 0 /\ LastPlace(t, Comma) > LastPlace(t, Dot)
        BY <2>6, <2>8, <3>1
      <4>2. Canonical(t) = ReplaceAll(Without(t, Dot), Comma, Dot)
        BY <1>4, <4>1
      <4>. QED
        BY <2>7, <3>1, <4>2
    <3>3. \A i \in DOMAIN Without(w, g) : Without(w, g)[i] # q
      <4>1. Integer(Without(w, g), g, n, s)
        BY <1>2, IntegerStripped
      <4>. QED
        BY <1>2, <4>1, IntegerAbsent
    <3>4. ReplaceAll(Without(w, g) \o f, q, Dot) = Without(w, g) \o ReplaceAll(f, q, Dot)
      <4>. DEFINE u == Without(w, g)
      <4>1. u \in Seq(Char) /\ Dot \in Char
        BY <1>2, LeftTyped, CharFacts DEF Separator
      <4>. HIDE DEF u
      <4>2. \A i \in DOMAIN u : u[i] # q
        BY <3>3 DEF u
      <4>3. ReplaceAll(u \o f, q, Dot) = u \o ReplaceAll(f, q, Dot)
        BY <1>1, <4>1, <4>2, ReplaceConcat
      <4>. QED
        BY <4>3 DEF u
    <3>. QED
      BY <2>8, <3>2, <3>4 DEF t
  <2>9. CASE q = Dot
    <3>1. g = Comma
      BY <2>9
    <3>2. Canonical(t) = Without(w, g) \o f
      BY <1>4, <2>6, <2>7, <2>9, <3>1
    <3>3. ReplaceAll(f, q, Dot) = f
      <4>1. Dot \in Char
        BY CharFacts DEF Separator
      <4>2. /\ ReplaceAll(f, q, Dot) \in Seq(Char) /\ Len(ReplaceAll(f, q, Dot)) = Len(f)
            /\ \A i \in 1 .. Len(f) : ReplaceAll(f, q, Dot)[i] = f[i]
        BY <1>1, <2>9, <4>1, ReplaceAllEffect
      <4>. QED
        BY <1>1, <4>2, SameSeq
    <3>. QED
      BY <3>2, <3>3 DEF t
  <2>. QED
    BY <2>8, <2>9
<1>. QED
  BY <1>1, <1>8, <1>9

\* What Parse makes of a text before it reads the number.
LEMMA CanonicalText ==
  ASSUME NEW g \in Separator, NEW w, NEW n, NEW s, Integer(w, g, n, s),
         NEW q \in {Comma, Dot}, q # g, NEW f, Decimals(f, q)
  PROVE  Canonical(Without(Without(w \o f, Space), Apostrophe))
           = Without(w, g) \o ReplaceAll(f, q, Dot)
<1>. DEFINE u == Without(w, g)
            t == Without(Without(w \o f, Space), Apostrophe)
<1>1. w \in Seq(Char) /\ f \in Seq(Char) /\ u \in Seq(Char)
  BY LeftTyped DEF Integer, Decimals
<1>2. q \in Separator /\ \A c \in Separator : c # q => \A i \in DOMAIN f : f[i] # c
  <2>1. q \in Separator
    BY DEF Separator
  <2>2. \A i \in 1 .. Len(f) : f[i] = q \/ f[i] \in Digit
    BY DEF Decimals
  <2>. QED
    BY <1>1, <2>1, <2>2, CharFacts
<1>3. \A c \in Separator : c # q => Without(f, c) = f
  BY <1>1, <1>2, WithoutAbsent
<1>4. \A c \in Separator : \A i \in DOMAIN u : u[i] # c
  <2>1. Integer(u, g, n, s) /\ \A i \in DOMAIN u : u[i] # g
    BY IntegerStripped
  <2>2. \A c \in Separator : c # g => \A i \in DOMAIN u : u[i] # c
    <3>. HIDE DEF u
    <3>. QED
      BY <2>1, IntegerAbsent
  <2>. QED
    BY <2>1, <2>2
<1>5. \A c \in Separator : Without(u, c) = u
  <2>. HIDE DEF u
  <2>. QED
    BY <1>1, <1>4, WithoutAbsent
<1>6. \A c \in Separator : c # g => Without(w, c) = w
  <2>1. \A c \in Separator : c # g => \A i \in DOMAIN w : w[i] # c
    BY IntegerAbsent
  <2>. QED
    BY <1>1, <2>1, WithoutAbsent
<1>12. /\ \A c : Without(w \o f, c) = Without(w, c) \o Without(f, c)
       /\ \A c : Without(u \o f, c) = Without(u, c) \o Without(f, c)
  <2>1. \A c : Without(w \o f, c) = Without(w, c) \o Without(f, c)
    BY <1>1, WithoutConcat
  <2>. HIDE DEF u
  <2>2. \A c : Without(u \o f, c) = Without(u, c) \o Without(f, c)
    BY <1>1, WithoutConcat
  <2>. QED
    BY <2>1, <2>2
<1>7. Space \in Separator /\ Apostrophe \in Separator /\ Comma \in Separator /\ Dot \in Separator
      /\ Space # q /\ Apostrophe # q
  BY CharFacts DEF Separator
<1>8. Canonical(u \o f) = u \o ReplaceAll(f, q, Dot)
  <2>. HIDE DEF u
  <2>. QED
    BY <1>1, <1>4, <1>7, CanonicalPlain
<1>9. CASE g = Space
  <2>1. Without(w \o f, Space) = u \o f
    BY <1>1, <1>3, <1>7, <1>9, <1>12
  <2>2. Without(u \o f, Apostrophe) = u \o f
    <3>. HIDE DEF u
    <3>. QED
      BY <1>1, <1>3, <1>5, <1>7, <1>12
  <2>. QED
    BY <1>8, <2>1, <2>2
<1>10. CASE g = Apostrophe
  <2>1. Without(w \o f, Space) = w \o f
    BY <1>1, <1>3, <1>6, <1>7, <1>10, <1>12, CharFacts
  <2>2. Without(w \o f, Apostrophe) = u \o f
    BY <1>1, <1>3, <1>7, <1>10, <1>12
  <2>. QED
    BY <1>8, <2>1, <2>2
<1>11. CASE g \in {Comma, Dot}
  <2>0. Space # g /\ Apostrophe # g
    BY <1>11, CharFacts
  <2>1. Without(w \o f, Space) = w \o f
    BY <1>1, <1>3, <1>6, <1>7, <2>0, <1>12
  <2>2. Without(w \o f, Apostrophe) = w \o f
    BY <1>1, <1>3, <1>6, <1>7, <2>0, <1>12
  <2>3. Canonical(w \o f) = u \o ReplaceAll(f, q, Dot)
    <3>1. CASE \E k \in DOMAIN w : w[k] = g
      BY SMTT(40), <1>11, <3>1, CanonicalGrouped
    <3>2. CASE \A k \in DOMAIN w : w[k] # g
      <4>1. u = w
        BY <1>1, <3>2, WithoutAbsent
      <4>. QED
        BY <1>8, <4>1
    <3>. QED
      BY <3>1, <3>2
  <2>. QED
    BY <2>1, <2>2, <2>3
<1>. QED
  BY <1>9, <1>10, <1>11 DEF Separator

\* What an integer and the decimal places behind it amount to.
InCents(n, f) == 100 * n + (IF Len(f) > 0 THEN 10 * f[2] ELSE 0)
                         + (IF Len(f) = 3 THEN f[3] ELSE 0)

\* A canonical text is read as the number it writes.
LEMMA RoundedText ==
  ASSUME NEW g \in Separator, NEW u, NEW n \in Nat, NEW s, Integer(u, g, n, s),
         \A i \in DOMAIN u : u[i] # g,
         NEW f, Decimals(f, Dot)
  PROVE  /\ IsNumber(u \o f)
         /\ RoundedCents(u \o f)
              = IF s = 1 THEN -InCents(n, f) ELSE InCents(n, f)
<1>. DEFINE t == u \o f
            N == Len(u)
            F == Len(f)
            Place(k) == IF F > 0 /\ N + 1 + k <= Len(t) THEN t[N + 1 + k] ELSE 0
<1>1. /\ f \in Seq(Char) /\ F \in {0, 2, 3} /\ (F > 0 => f[1] = Dot)
      /\ \A i \in 2 .. F : f[i] \in Digit
  BY DEF Decimals
<1>2. /\ u \in Seq(Char) /\ s \in {0, 1} /\ N > s /\ (s = 1 => u[1] = Minus)
      /\ u[s + 1] \in Digit /\ N \in Nat /\ Whole(u) = n
      /\ \A i \in s + 1 .. N : u[i] \in Digit
  BY DEF Integer
<1>3. /\ t \in Seq(Char) /\ Len(t) = N + F
      /\ \A i \in 1 .. N : t[i] = u[i]
      /\ \A i \in 1 .. F : t[N + i] = f[i]
  BY <1>1, <1>2, ConcatEffect
<1>4. Value(t)[N] = n
  BY <1>1, <1>2, ValueConcat DEF Whole
<1>5. /\ t[1] = Minus <=> s = 1
      /\ Head(t) = t[1]
  <2>1. s = 0 => t[1] \in Digit
    BY <1>2, <1>3
  <2>2. s = 1 => t[1] = Minus
    BY <1>2, <1>3
  <2>3. Head(t) = t[1]
    <3>. HIDE DEF t
    <3>. QED
      BY <1>2, <1>3
  <2>. QED
    BY <1>2, <2>1, <2>2, <2>3, CharFacts
<1>. HIDE DEF t, N, F
<1>6. \A i \in 1 .. N : t[i] \in Digit \/ (i = 1 /\ t[i] = Minus)
  <2>. SUFFICES ASSUME NEW i \in 1 .. N PROVE t[i] \in Digit \/ (i = 1 /\ t[i] = Minus)
    OBVIOUS
  <2>1. i \in s + 1 .. N \/ (i = 1 /\ s = 1)
    BY <1>2
  <2>. QED
    BY <1>2, <1>3, <2>1
<1>7. \A i \in 1 .. Len(t) : i > N => (i = N + 1 /\ t[i] = Dot /\ F > 0) \/ (i # N + 1 /\ t[i] \in Digit)
  <2>. SUFFICES ASSUME NEW i \in 1 .. Len(t), i > N
                PROVE  (i = N + 1 /\ t[i] = Dot /\ F > 0) \/ (i # N + 1 /\ t[i] \in Digit)
    OBVIOUS
  <2>. DEFINE j == i - N
  <2>1. j \in 1 .. F /\ i = N + j
    BY <1>1, <1>2, <1>3
  <2>2. t[i] = f[j]
    BY <1>3, <2>1
  <2>3. CASE j = 1
    BY <1>1, <2>1, <2>2, <2>3, <1>2
  <2>4. CASE j \in 2 .. F
    BY <1>1, <2>1, <2>2, <2>4, <1>2
  <2>. QED
    BY <1>1, <2>1, <2>3, <2>4
<1>8. \A i \in 1 .. Len(t) : t[i] = Dot => i = N + 1
  <2>1. \A i \in 1 .. N : t[i] # Dot
    BY <1>6, CharFacts DEF Separator
  <2>2. \A i \in 1 .. Len(t) : i > N /\ t[i] = Dot => i = N + 1
    BY <1>7, CharFacts DEF Separator
  <2>. QED
    BY <1>1, <1>2, <1>3, <2>1, <2>2
<1>9. F > 0 => N + 1 \in 1 .. Len(t) /\ t[N + 1] = Dot
  BY <1>1, <1>2, <1>3
<1>10. FirstPlace(t, Dot) = IF F > 0 THEN N + 1 ELSE 0
  <2>1. CASE F > 0
    BY <1>3, <1>8, <1>9, <2>1, FirstPlaceEffect
  <2>2. CASE ~(F > 0)
    <3>1. \A i \in 1 .. Len(t) : t[i] # Dot
      BY <1>1, <1>2, <1>3, <1>8, <2>2
    <3>. QED
      BY <1>3, <2>2, <3>1, FirstPlaceEffect
  <2>. QED
    BY <2>1, <2>2
<1>11. IsNumber(t)
  <2>1. \E i \in DOMAIN t : t[i] \in Digit
    <3>1. s + 1 \in 1 .. N /\ t[s + 1] \in Digit
      BY <1>2, <1>3
    <3>2. s + 1 \in DOMAIN t
      BY <1>1, <1>2, <1>3, <3>1
    <3>. QED
      BY <3>1, <3>2
  <2>2. Occurrences(t, Dot) <= 1
    <3>1. CASE F > 0
      <4>1. Occurrences(t, Dot) = 1
        BY <1>3, <1>8, <1>9, <3>1, OccurrencesOnce
      <4>. QED
        BY <4>1
    <3>2. CASE ~(F > 0)
      <4>1. \A i \in DOMAIN t : t[i] # Dot
        BY <1>1, <1>2, <1>3, <1>8, <3>2
      <4>2. Occurrences(t, Dot) = 0
        BY <1>3, <4>1, OccurrencesOnce
      <4>. QED
        BY <4>2
    <3>. QED
      BY <3>1, <3>2
  <2>3. \A i \in DOMAIN t : t[i] \in Digit \cup {Dot} \/ (i = 1 /\ t[i] = Minus)
    <3>. SUFFICES ASSUME NEW i \in DOMAIN t
                  PROVE  t[i] \in Digit \cup {Dot} \/ (i = 1 /\ t[i] = Minus)
      OBVIOUS
    <3>1. i \in 1 .. Len(t) /\ (i \in 1 .. N \/ i > N)
      BY <1>1, <1>2, <1>3
    <3>. QED
      BY <1>6, <1>7, <3>1
  <2>. QED
    BY <2>1, <2>2, <2>3 DEF IsNumber
<1>12. /\ Place(1) = IF F > 0 THEN f[2] ELSE 0
       /\ Place(2) = IF F = 3 THEN f[3] ELSE 0
       /\ Place(3) = 0
  <2>1. F > 0 => N + 1 + 1 = N + 2 /\ N + 2 <= Len(t) /\ t[N + 2] = f[2]
    BY <1>1, <1>2, <1>3
  <2>2. (F > 0 /\ N + 1 + 2 <= Len(t) <=> F = 3) /\ (F = 3 => N + 1 + 2 = N + 3 /\ t[N + 3] = f[3])
    BY <1>1, <1>2, <1>3
  <2>3. ~(N + 1 + 3 <= Len(t))
    BY <1>1, <1>2, <1>3
  <2>4. Place(1) = IF F > 0 THEN f[2] ELSE 0
    BY <1>2, <2>1
  <2>5. Place(2) = IF F = 3 THEN f[3] ELSE 0
    BY <2>2
  <2>6. Place(3) = 0
    BY <2>3
  <2>. QED
    BY <2>4, <2>5, <2>6
<1>13. (F > 0 => f[2] \in Int) /\ (F = 3 => f[3] \in Int)
  <2>1. \A i \in 2 .. F : f[i] \in Int
    BY <1>1, CharFacts
  <2>2. (F > 0 => 2 \in 2 .. F) /\ (F = 3 => 3 \in 2 .. F)
    BY <1>1
  <2>. QED
    BY <2>1, <2>2
<1>. DEFINE point    == FirstPlace(t, Dot)
            whole    == Value(t)[IF point = 0 THEN Len(t) ELSE point - 1]
            place(k) == IF point # 0 /\ point + k <= Len(t) THEN t[point + k] ELSE 0
            cents    == 100 * whole + 10 * place(1) + place(2) + (IF place(3) >= 5 THEN 1 ELSE 0)
<1>14. RoundedCents(t) = IF Head(t) = Minus THEN -cents ELSE cents
  BY DEF RoundedCents, FirstPlace
<1>15. whole = n
  <2>1. CASE F > 0
    <3>1. point = N + 1 /\ point # 0 /\ point - 1 = N
      BY <1>2, <1>10, <2>1
    <3>. QED
      BY <1>4, <3>1
  <2>2. CASE ~(F > 0)
    <3>1. point = 0 /\ Len(t) = N
      BY <1>1, <1>2, <1>3, <1>10, <2>2
    <3>. QED
      BY <1>4, <3>1
  <2>. QED
    BY <2>1, <2>2
<1>16. place(1) = Place(1) /\ place(2) = Place(2) /\ place(3) = Place(3)
  <2>1. CASE F > 0
    <3>1. point = N + 1 /\ point # 0
      BY <1>2, <1>10, <2>1
    <3>. HIDE DEF point
    <3>. QED
      BY <2>1, <3>1
  <2>2. CASE ~(F > 0)
    <3>1. point = 0
      BY <1>10, <2>2
    <3>. HIDE DEF point
    <3>. QED
      BY <2>2, <3>1
  <2>. QED
    BY <2>1, <2>2
<1>. HIDE DEF Place, place, whole
<1>17. cents = 100 * n + (IF F > 0 THEN 10 * f[2] ELSE 0) + (IF F = 3 THEN f[3] ELSE 0)
  <2>1. place(3) = 0 /\ ~(place(3) >= 5)
    BY <1>12, <1>16
  <2>2. place(1) = (IF F > 0 THEN f[2] ELSE 0) /\ place(2) = (IF F = 3 THEN f[3] ELSE 0)
    BY <1>12, <1>16
  <2>. QED
    BY <1>13, <1>15, <2>1, <2>2
<1>. HIDE DEF cents
<1>18. RoundedCents(t) = IF s = 1 THEN -cents ELSE cents
  BY <1>5, <1>14
<1>. QED
  BY <1>11, <1>17, <1>18 DEF t, F, InCents

-------------------------------------------------------------------------------
(* What printf and a writer of amounts produce                             *)

\* A digit more multiplies by ten.
LEMMA WholeAppend ==
  ASSUME NEW l \in Seq(Char), NEW x \in Char
  PROVE  Whole(Append(l, x)) = IF x \in Digit THEN 10 * Whole(l) + x ELSE Whole(l)
<1>. DEFINE a == Append(l, x)
            k == Len(l)
<1>1. /\ a \in Seq(Char) /\ Len(a) = k + 1 /\ a[k + 1] = x /\ k \in Nat
      /\ Len(a) \in Nat /\ k + 1 \in 1 .. Len(a) /\ (k + 1) - 1 = k /\ k \in 0 .. Len(l)
  OBVIOUS
<1>2. <<x>> \in Seq(Char) /\ a = l \o <<x>>
  OBVIOUS
<1>3. Value(a)[k] = Value(l)[k]
  <2>1. \A n \in 0 .. Len(l) : Value(l \o <<x>>)[n] = Value(l)[n]
    BY <1>2, ValueConcat
  <2>. HIDE DEF a
  <2>. QED
    BY <1>1, <1>2, <2>1
<1>. HIDE DEF a
<1>4. Value(a)[k + 1] = IF a[k + 1] \in Digit THEN 10 * Value(a)[(k + 1) - 1] + a[k + 1]
                        ELSE Value(a)[(k + 1) - 1]
  <2>. HIDE DEF k
  <2>. QED
    BY <1>1, ValueDef
<1>. QED
  BY <1>1, <1>3, <1>4 DEF a, Whole

\* No digits write zero.
LEMMA WholeEmpty == Whole(<<>>) = 0
<1>1. Len(<<>>) = 0 /\ Len(<<>>) \in Nat
  OBVIOUS
<1>2. Value(<<>>)[0] = 0
  BY <1>1, ValueDef
<1>. QED
  BY <1>1, <1>2 DEF Whole

\* Digits only: the text is an ungrouped number.
Plain(w, n) == w \in Seq(Digit) /\ Len(w) > 0 /\ Whole(w) = n

\* Digits with no grouping are an integer for any separator.
LEMMA PlainInteger ==
  ASSUME NEW w, NEW n, Plain(w, n), NEW g \in Separator
  PROVE  Integer(w, g, n, 0)
<1>1. w \in Seq(Digit) /\ Len(w) > 0 /\ Whole(w) = n
  BY DEF Plain
<1>2. w \in Seq(Char) /\ \A i \in 1 .. Len(w) : w[i] \in Digit
  <2>1. \A i \in 1 .. Len(w) : w[i] \in Digit
    BY <1>1
  <2>2. \A i \in 1 .. Len(w) : w[i] \in Char
    BY <2>1, CharFacts
  <2>. QED
    BY <1>1, <2>1, <2>2
<1>3. \A i \in 1 .. Len(w) : w[i] # g
  BY <1>2, CharFacts
<1>. QED
  BY <1>1, <1>2, <1>3 DEF Integer

\* DigitsOf writes the number it is given.
LEMMA DigitsPlain == \A n \in Nat : Plain(DigitsOf[n], n)
<1>. DEFINE S == {n \in Nat : Whole(DigitsOf[n]) = n}
<1>1. ASSUME NEW n \in Nat, \A m \in 0 .. n - 1 : m \in S PROVE n \in S
  <2>1. CASE n < 10
    <3>1. DigitsOf[n] = <<n>>
      BY <2>1, DigitsOfDef
    <3>2. n \in Digit /\ n \in Char /\ <<>> \in Seq(Char) /\ <<n>> = Append(<<>>, n)
      BY <2>1 DEF Digit, Char
    <3>3. Whole(<<n>>) = 10 * Whole(<<>>) + n
      BY <3>2, WholeAppend
    <3>. QED
      BY <3>1, <3>3, WholeEmpty
  <2>2. CASE n >= 10
    <3>. DEFINE l == DigitsOf[n \div 10]
                d == n % 10
    <3>1. ~(n < 10)
      BY <2>2
    <3>2. DigitsOf[n] = l \o <<d>>
      BY <3>1, DigitsOfDef
    <3>3. d \in Digit /\ n \div 10 \in 0 .. n - 1 /\ 10 * (n \div 10) + d = n
      BY <2>2, Halved DEF Digit
    <3>4. l \in Seq(Digit) /\ Whole(l) = n \div 10
      BY <1>1, <3>3, DigitsOfTyped
    <3>5. l \in Seq(Char) /\ d \in Char
      <4>. HIDE DEF l, d
      <4>1. \A i \in 1 .. Len(l) : l[i] \in Char
        <5>1. \A i \in 1 .. Len(l) : l[i] \in Digit
          BY <3>4
        <5>. QED
          BY <5>1, CharFacts
      <4>. QED
        BY <3>3, <3>4, <4>1, CharFacts
    <3>. HIDE DEF l, d
    <3>6. l \o <<d>> = Append(l, d)
      BY <3>5
    <3>7. Whole(DigitsOf[n]) = 10 * Whole(l) + d
      BY ZenonT(60), <3>2, <3>3, <3>5, <3>6, WholeAppend
    <3>8. Whole(DigitsOf[n]) = n
      BY <3>3, <3>4, <3>7
    <3>. QED
      BY <3>8
  <2>. QED
    BY <2>1, <2>2
<1>2. Nat \subseteq S
  <2>. HIDE DEF S
  <2>. QED
    BY <1>1, StrongInduction
<1>. QED
  BY <1>2, DigitsOfTyped DEF Plain

\* A minus sign in front.
LEMMA Signed ==
  ASSUME NEW w, NEW g \in Separator, NEW n, Integer(w, g, n, 0)
  PROVE  Integer(<<Minus>> \o w, g, n, 1)
<1>. DEFINE m == <<Minus>>
            t == m \o w
            N == Len(w)
<1>1. /\ w \in Seq(Char) /\ N > 0 /\ N \in Nat /\ w[1] \in Digit /\ Whole(w) = n
      /\ \A i \in 1 .. N : w[i] \in Digit \cup {g}
      /\ \A i \in 1 .. N : w[i] = g => i <= N - 3 /\ w[N - 3] = g
  BY DEF Integer
<1>2. m \in Seq(Char) /\ Len(m) = 1 /\ m[1] = Minus
  BY CharFacts
<1>3. /\ t \in Seq(Char) /\ Len(t) = 1 + N /\ t[1] = Minus
      /\ \A i \in 1 .. N : t[1 + i] = w[i]
  <2>. HIDE DEF m
  <2>1. /\ m \o w \in Seq(Char) /\ Len(m \o w) = Len(m) + Len(w)
        /\ \A i \in 1 .. Len(m) : (m \o w)[i] = m[i]
        /\ \A i \in 1 .. Len(w) : (m \o w)[Len(m) + i] = w[i]
    BY <1>1, <1>2, ConcatEffect
  <2>2. 1 \in 1 .. Len(m)
    BY <1>2
  <2>. QED
    BY <1>2, <2>1, <2>2
<1>4. Whole(t) = Whole(w)
  <2>1. Without(m, Minus) = <<>>
    <3>1. Left(m, Minus)[0] = <<>> /\ Left(m, Minus)[1] = Left(m, Minus)[1 - 1]
      <4>1. Len(m) \in Nat /\ 1 \in 1 .. Len(m)
        BY <1>2
      <4>. HIDE DEF m
      <4>. QED
        BY <1>2, <4>1, LeftDef
    <3>. QED
      BY <1>2, <3>1 DEF Without
  <2>2. Without(w, Minus) = w
    <3>1. \A i \in DOMAIN w : w[i] # Minus
      BY <1>1, CharFacts
    <3>. QED
      BY <1>1, <3>1, WithoutAbsent
  <2>3. Without(t, Minus) = w
    <3>1. Without(t, Minus) = <<>> \o w
      <4>. HIDE DEF m
      <4>. QED
        BY ZenonT(60), <1>1, <1>2, <2>1, <2>2, WithoutConcat
    <3>. QED
      BY <1>1, <3>1
  <2>. HIDE DEF t
  <2>. QED
    BY <1>3, <2>3, CharFacts, ValueWithout DEF Whole
<1>. HIDE DEF t, N
<1>5. ASSUME NEW i \in 2 .. 1 + N
      PROVE  /\ t[i] \in Digit \cup {g}
             /\ t[i] = g => i <= (1 + N) - 3 /\ t[(1 + N) - 3] = g
  <2>. DEFINE j == i - 1
  <2>1. j \in 1 .. N /\ i = 1 + j /\ t[i] = w[j]
    <3>1. j \in 1 .. N /\ i = 1 + j
      BY <1>1
    <3>. QED
      BY <1>3, <3>1
  <2>2. ASSUME w[j] = g PROVE i <= (1 + N) - 3 /\ t[(1 + N) - 3] = g
    <3>1. j <= N - 3 /\ w[N - 3] = g
      BY <1>1, <2>1, <2>2
    <3>2. N - 3 \in 1 .. N /\ 1 + (N - 3) = (1 + N) - 3
      BY <1>1, <2>1, <3>1
    <3>3. t[(1 + N) - 3] = w[N - 3]
      BY <1>3, <3>2
    <3>. QED
      BY <1>1, <2>1, <3>1, <3>3
  <2>. QED
    BY <1>1, <2>1, <2>2
<1>6. 1 + 1 \in 2 .. 1 + N /\ t[1 + 1] \in Digit
  BY <1>1, <1>3
<1>7. Integer(t, g, n, 1)
  <2>1. 1 + 1 = 2 /\ Len(t) > 1
    BY <1>1, <1>3
  <2>. QED
    BY <1>1, <1>3, <1>4, <1>5, <1>6, <2>1 DEF Integer
<1>. QED
  BY <1>7 DEF t

\* The last three digits of n, and what is before them.
LastThree(n) == <<(n \div 100) % 10, (n \div 10) % 10, n % 10>>

\* Division by a thousand and the three digits it leaves.
LEMMA Thousands ==
  ASSUME NEW n \in Nat
  PROVE  /\ n >= 1000 => n \div 1000 \in 0 .. n - 1
         /\ (n \div 100) % 10 \in 0 .. 9 /\ (n \div 10) % 10 \in 0 .. 9 /\ n % 10 \in 0 .. 9
         /\ 1000 * (n \div 1000) + 100 * ((n \div 100) % 10) + 10 * ((n \div 10) % 10) + (n % 10) = n
OBVIOUS

\* Grouped is defined for every number.
LEMMA GroupedDef ==
  ASSUME NEW mark
  PROVE  \A n \in Nat :
           Grouped(mark)[n] = IF n < 1000 THEN DigitsOf[n]
                              ELSE Grouped(mark)[n \div 1000] \o mark \o LastThree(n)
<1>. DEFINE Step(f, m) == IF m < 1000 THEN DigitsOf[m] ELSE f[m \div 1000] \o mark \o LastThree(m)
            Part(f, n) == f = [m \in 0 .. n |-> Step(f, m)]
<1>1. ASSUME NEW n \in Nat, NEW f, NEW g, NEW m \in 0 .. n, m >= 1000 => f[m \div 1000] = g[m \div 1000]
      PROVE  Step(f, m) = Step(g, m)
  BY <1>1
<1>2. ASSUME NEW n \in Nat, NEW f, Part(f, n), NEW m \in 0 .. n PROVE f[m] = Step(f, m)
  <2>. HIDE DEF Step
  <2>. QED
    BY <1>2
<1>3. ASSUME NEW N \in Nat PROVE \E f : Part(f, N)
  <2>. DEFINE S == {n \in 0 .. N : \E f : Part(f, n)}
  <2>1. 0 \in S
    <3>. DEFINE f == [m \in 0 .. 0 |-> DigitsOf[m]]
    <3>1. Part(f, 0)
      OBVIOUS
    <3>. HIDE DEF Part, f
    <3>. QED
      BY <3>1
  <2>2. ASSUME NEW n \in 0 .. N - 1, n \in S PROVE n + 1 \in S
    <3>1. PICK f : Part(f, n)
      BY <2>2
    <3>. DEFINE g == [m \in 0 .. n + 1 |-> IF m <= n THEN f[m] ELSE Step(f, m)]
    <3>2. ASSUME NEW m \in 0 .. n + 1 PROVE g[m] = Step(g, m)
      <4>1. m >= 1000 => m \div 1000 \in 0 .. n /\ g[m \div 1000] = f[m \div 1000]
        <5>1. m >= 1000 => m \div 1000 \in 0 .. n
          BY Thousands
        <5>. QED
          BY <5>1
      <4>2. Step(g, m) = Step(f, m)
        BY <4>1
      <4>3. m <= n => f[m] = Step(f, m)
        <5>. HIDE DEF Step, Part
        <5>. QED
          BY <1>2, <3>1
      <4>. QED
        BY <4>2, <4>3
    <3>3. g = [m \in 0 .. n + 1 |-> Step(g, m)]
      <4>. HIDE DEF Step
      <4>. QED
        BY <3>2
    <3>4. Part(g, n + 1)
      BY <3>3
    <3>. HIDE DEF Part, g
    <3>. QED
      BY <3>4
  <2>3. 0 .. N \subseteq S
    <3>. HIDE DEF S
    <3>. QED
      BY <2>1, <2>2, Induction
  <2>4. N \in S
    <3>. HIDE DEF S
    <3>. QED
      BY <2>3
  <2>. QED
    BY <2>4
<1>4. ASSUME NEW n \in Nat, NEW k \in Nat, n <= k, NEW f, NEW g, Part(f, n), Part(g, k)
      PROVE  f[n] = g[n]
  <2>. DEFINE S == {m \in Nat : m <= n => f[m] = g[m]}
  <2>1. ASSUME NEW m \in Nat, \A i \in 0 .. m - 1 : i \in S PROVE m \in S
    <3>. SUFFICES ASSUME m <= n PROVE f[m] = g[m]
      OBVIOUS
    <3>1. m >= 1000 => f[m \div 1000] = g[m \div 1000]
      BY <2>1, Thousands
    <3>2. Step(f, m) = Step(g, m)
      BY <3>1
    <3>. HIDE DEF Step, Part
    <3>3. f[m] = Step(f, m) /\ g[m] = Step(g, m)
      BY <1>2, <1>4
    <3>. QED
      BY <3>2, <3>3
  <2>2. Nat \subseteq S
    <3>. HIDE DEF S
    <3>. QED
      BY <2>1, StrongInduction
  <2>. QED
    BY <2>2
<1>. DEFINE P(n) == CHOOSE f : Part(f, n)
            F == [n \in Nat |-> P(n)[n]]
<1>5. \A n \in Nat : Part(P(n), n)
  <2>. HIDE DEF Part
  <2>. QED
    BY <1>3
<1>6. ASSUME NEW n \in Nat PROVE F[n] = Step(F, n)
  <2>. HIDE DEF P
  <2>1. F[n] = P(n)[n]
    OBVIOUS
  <2>2. P(n)[n] = Step(P(n), n)
    <3>. HIDE DEF Step, Part
    <3>. QED
      BY <1>2, <1>5
  <2>3. n >= 1000 => P(n)[n \div 1000] = F[n \div 1000]
    <3>1. n >= 1000 => n \div 1000 \in Nat /\ n \div 1000 <= n
      BY Thousands
    <3>. HIDE DEF Part
    <3>. QED
      BY <1>4, <1>5, <3>1
  <2>4. Step(P(n), n) = Step(F, n)
    <3>. HIDE DEF F
    <3>. QED
      BY <2>3
  <2>. QED
    BY <2>1, <2>2, <2>4
<1>7. F = [n \in Nat |-> Step(F, n)]
  <2>. HIDE DEF Step, P
  <2>. QED
    BY <1>6
<1>. DEFINE D == Grouped(mark)
<1>8. D = [n \in Nat |-> Step(D, n)]
  <2>. HIDE DEF D
  <2>1. D = CHOOSE f : f = [n \in Nat |-> Step(f, n)]
    BY DEF Grouped, LastThree, D
  <2>. HIDE DEF Step, F
  <2>. QED
    BY <1>7, <2>1
<1>9. \A n \in Nat : D[n] = Step(D, n)
  <2>. HIDE DEF Step, D
  <2>. QED
    BY <1>8
<1>. QED
  BY <1>9 DEF D

\* Division by a hundred and the two decimal places it leaves.
LEMMA Hundreds ==
  ASSUME NEW m \in Nat
  PROVE  /\ 100 * (m \div 100) + 10 * ((m \div 10) % 10) + (m % 10) = m
         /\ m % 10 = 0 => 100 * (m \div 100) + 10 * ((m \div 10) % 10) = m
         /\ m % 100 = 0 => 100 * (m \div 100) = m
OBVIOUS

\* One more digit.
LEMMA PlainAppend ==
  ASSUME NEW w, NEW n \in Nat, Plain(w, n), NEW d \in Digit
  PROVE  Plain(Append(w, d), 10 * n + d)
<1>1. w \in Seq(Digit) /\ Len(w) > 0 /\ Whole(w) = n
  BY DEF Plain
<1>2. w \in Seq(Char) /\ d \in Char
  <2>1. \A i \in 1 .. Len(w) : w[i] \in Char
    <3>1. \A i \in 1 .. Len(w) : w[i] \in Digit
      BY <1>1
    <3>. QED
      BY <3>1, CharFacts
  <2>. QED
    BY <1>1, <2>1, CharFacts
<1>3. Whole(Append(w, d)) = 10 * n + d
  BY <1>1, <1>2, WholeAppend
<1>4. Append(w, d) \in Seq(Digit) /\ Len(Append(w, d)) > 0
  BY <1>1
<1>. QED
  BY <1>3, <1>4 DEF Plain

\* What is written for a number of more than three digits.
Longer(mark, n) == Grouped(mark)[n \div 1000] \o mark \o LastThree(n)

\* The two cases of Grouped: up to three digits, and a group more.
LEMMA GroupedCases ==
  ASSUME NEW mark
  PROVE  /\ \A n \in Nat : n < 1000 => Grouped(mark)[n] = DigitsOf[n]
         /\ \A n \in Nat : n >= 1000 => Grouped(mark)[n] = Longer(mark, n)
<1>1. \A n \in Nat : Grouped(mark)[n] = IF n < 1000 THEN DigitsOf[n] ELSE Longer(mark, n)
  <2>. DEFINE short(n) == DigitsOf[n]
              whole(n) == Grouped(mark)[n]
  <2>1. \A n \in Nat : whole(n) = IF n < 1000 THEN short(n) ELSE Longer(mark, n)
    BY GroupedDef DEF Longer
  <2>. QED
    BY <2>1
<1>. QED
  BY <1>1

\* With an empty mark nothing is grouped.
LEMMA GroupedPlain ==
  ASSUME NEW mark
  PROVE  mark \in Seq(Char) /\ Len(mark) = 0 => \A n \in Nat : Plain(Grouped(mark)[n], n)
<1>. SUFFICES ASSUME mark \in Seq(Char), Len(mark) = 0
              PROVE  \A n \in Nat : Plain(Grouped(mark)[n], n)
  OBVIOUS
<1>. DEFINE S == {n \in Nat : Plain(Grouped(mark)[n], n)}
<1>1. ASSUME NEW n \in Nat, \A m \in 0 .. n - 1 : m \in S PROVE n \in S
  <2>1. CASE n < 1000
    <3>1. Grouped(mark)[n] = DigitsOf[n]
      BY <2>1, GroupedCases
    <3>. QED
      BY <3>1, DigitsPlain
  <2>2. CASE n >= 1000
    <3>. DEFINE w == Grouped(mark)[n \div 1000]
                k == n \div 1000
                a == (n \div 100) % 10
                b == (n \div 10) % 10
                c == n % 10
                t == Append(Append(Append(w, a), b), c)
    <3>1. /\ a \in Digit /\ b \in Digit /\ c \in Digit /\ k \in 0 .. n - 1 /\ k \in Nat
          /\ 10 * (10 * (10 * k + a) + b) + c = n
      BY <2>2, Thousands DEF Digit
    <3>3. Grouped(mark)[n] = w \o mark \o <<a, b, c>>
      <4>1. Grouped(mark)[n] = Longer(mark, n)
        BY <2>2, GroupedCases
      <4>2. Longer(mark, n) = w \o mark \o <<a, b, c>>
        BY DEF Longer, LastThree
      <4>. QED
        BY <4>1, <4>2
    <3>4. Plain(w, k)
      BY <1>1, <3>1
    <3>. HIDE DEF w, a, b, c, k
    <3>5. w \in Seq(Digit)
      BY <3>4 DEF Plain
    <3>6. w \o mark \o <<a, b, c>> = t
      BY <3>1, <3>5
    <3>11. 10 * k + a \in Nat /\ 10 * (10 * k + a) + b \in Nat
      BY <3>1 DEF Digit
    <3>7. Plain(Append(w, a), 10 * k + a)
      BY <3>1, <3>4, PlainAppend
    <3>8. Plain(Append(Append(w, a), b), 10 * (10 * k + a) + b)
      BY <3>1, <3>7, <3>11, PlainAppend
    <3>9. Plain(t, 10 * (10 * (10 * k + a) + b) + c)
      BY <3>1, <3>8, <3>11, PlainAppend
    <3>10. Plain(t, n)
      BY <3>1, <3>9
    <3>. QED
      BY <3>3, <3>6, <3>10
  <2>. QED
    BY <2>1, <2>2
<1>2. Nat \subseteq S
  <2>. HIDE DEF S
  <2>. QED
    BY <1>1, StrongInduction
<1>. QED
  BY <1>2

\* One more group of three digits.
LEMMA IntegerGroup ==
  ASSUME NEW g \in Separator, NEW w, NEW k \in Nat, Integer(w, g, k, 0),
         NEW a \in Digit, NEW b \in Digit, NEW c \in Digit
  PROVE  Integer(w \o <<g>> \o <<a, b, c>>, g, 10 * (10 * (10 * k + a) + b) + c, 0)
<1>. DEFINE N  == Len(w)
            t0 == Append(w, g)
            t1 == Append(t0, a)
            t2 == Append(t1, b)
            t  == Append(t2, c)
<1>1. /\ w \in Seq(Char) /\ N > 0 /\ N \in Nat /\ w[1] \in Digit /\ Whole(w) = k
      /\ \A i \in 1 .. N : w[i] \in Digit \cup {g}
      /\ \A i \in 1 .. N : w[i] = g => i <= N - 3 /\ w[N - 3] = g
  BY DEF Integer
<1>2. a \in Char /\ b \in Char /\ c \in Char /\ g \in Char /\ g \notin Digit
  BY CharFacts
<1>3. t0 \in Seq(Char) /\ t1 \in Seq(Char) /\ t2 \in Seq(Char) /\ t \in Seq(Char)
  BY <1>1, <1>2
<1>4. w \o <<g>> \o <<a, b, c>> = t
  BY <1>1, <1>2
<1>5. Whole(t) = 10 * (10 * (10 * k + a) + b) + c
  <2>1. Whole(t0) = k
    BY <1>1, <1>2, WholeAppend
  <2>. HIDE DEF t0
  <2>2. Whole(t1) = 10 * k + a
    BY <1>2, <1>3, <2>1, WholeAppend
  <2>. HIDE DEF t1
  <2>3. Whole(t2) = 10 * (10 * k + a) + b
    BY <1>2, <1>3, <2>2, WholeAppend
  <2>. HIDE DEF t2
  <2>. QED
    BY <1>2, <1>3, <2>3, WholeAppend
<1>6. /\ Len(t) = N + 4 /\ t[N + 1] = g /\ t[N + 2] = a /\ t[N + 3] = b /\ t[N + 4] = c
      /\ \A i \in 1 .. N : t[i] = w[i]
  BY <1>1, <1>2
<1>. HIDE DEF t, N
<1>7. ASSUME NEW i \in 1 .. Len(t)
      PROVE  t[i] \in Digit \cup {g} /\ (t[i] = g => i <= N + 1)
  <2>1. CASE i \in 1 .. N
    BY <1>1, <1>6, <2>1
  <2>2. CASE i \in {N + 1, N + 2, N + 3, N + 4}
    BY <1>1, <1>2, <1>6, <2>2
  <2>. QED
    BY <1>1, <1>6, <2>1, <2>2
<1>8. t[1] \in Digit
  BY <1>1, <1>6
<1>9. Integer(t, g, 10 * (10 * (10 * k + a) + b) + c, 0)
  <2>1. Len(t) - 3 = N + 1 /\ Len(t) > 0 /\ 0 + 1 = 1
    BY <1>1, <1>6
  <2>. HIDE DEF Whole
  <2>. QED
    BY <1>3, <1>5, <1>6, <1>7, <1>8, <2>1 DEF Integer
<1>. QED
  BY <1>4, <1>9

\* Grouped writes the number it is given.
LEMMA GroupedInteger ==
  ASSUME NEW g \in Separator
  PROVE  \A n \in Nat : Integer(Grouped(<<g>>)[n], g, n, 0)
<1>. DEFINE S == {n \in Nat : Integer(Grouped(<<g>>)[n], g, n, 0)}
<1>1. ASSUME NEW n \in Nat, \A m \in 0 .. n - 1 : m \in S PROVE n \in S
  <2>1. CASE n < 1000
    <3>1. Grouped(<<g>>)[n] = DigitsOf[n]
      BY <2>1, GroupedCases
    <3>. QED
      BY <3>1, DigitsPlain, PlainInteger
  <2>2. CASE n >= 1000
    <3>. DEFINE w == Grouped(<<g>>)[n \div 1000]
                k == n \div 1000
                a == (n \div 100) % 10
                b == (n \div 10) % 10
                c == n % 10
    <3>1. /\ a \in Digit /\ b \in Digit /\ c \in Digit /\ k \in 0 .. n - 1 /\ k \in Nat
          /\ 10 * (10 * (10 * k + a) + b) + c = n
      BY <2>2, Thousands DEF Digit
    <3>3. Grouped(<<g>>)[n] = w \o <<g>> \o <<a, b, c>>
      <4>1. Grouped(<<g>>)[n] = Longer(<<g>>, n)
        BY <2>2, GroupedCases
      <4>2. Longer(<<g>>, n) = w \o <<g>> \o <<a, b, c>>
        BY DEF Longer, LastThree
      <4>. QED
        BY <4>1, <4>2
    <3>4. Integer(w, g, k, 0)
      BY <1>1, <3>1
    <3>. HIDE DEF w, a, b, c, k
    <3>5. Integer(w \o <<g>> \o <<a, b, c>>, g, 10 * (10 * (10 * k + a) + b) + c, 0)
      BY <3>1, <3>4, IntegerGroup
    <3>. QED
      BY <3>1, <3>3, <3>5
  <2>. QED
    BY <2>1, <2>2
<1>2. Nat \subseteq S
  <2>. HIDE DEF S
  <2>. QED
    BY <1>1, StrongInduction
<1>. QED
  BY <1>2

\* Fraction writes the decimal places of an amount.
LEMMA FractionDecimals ==
  ASSUME NEW m \in Nat, NEW q \in {Comma, Dot}, NEW places \in 0 .. 2
  PROVE  /\ Decimals(Fraction(m, q, places), q)
         /\ Len(Fraction(m, q, places)) > 0 <=> places > 0
         /\ Len(Fraction(m, q, places)) = 3 <=> places = 2
         /\ places > 0 => Fraction(m, q, places)[2] = (m \div 10) % 10
         /\ places = 2 => Fraction(m, q, places)[3] = m % 10
<1>. DEFINE a == (m \div 10) % 10
            b == m % 10
            f == Fraction(m, q, places)
<1>1. a \in Digit /\ b \in Digit
  BY DEF Digit
<1>2. q \in Char /\ a \in Char /\ b \in Char
  BY <1>1, CharFacts DEF Separator
<1>3. /\ places = 0 => f = <<>>
      /\ places = 1 => f = <<q, a>>
      /\ places = 2 => f = <<q, a, b>>
  BY DEF Fraction
<1>. SUFFICES /\ Decimals(f, q)
              /\ Len(f) > 0 <=> places > 0
              /\ Len(f) = 3 <=> places = 2
              /\ places > 0 => f[2] = (m \div 10) % 10
              /\ places = 2 => f[3] = m % 10
  OBVIOUS
<1>. HIDE DEF a, b, f
<1>4. CASE places = 0
  <2>1. f = <<>> /\ Len(f) = 0
    BY <1>3, <1>4
  <2>2. Decimals(f, q)
    BY <2>1 DEF Decimals
  <2>. QED
    BY <1>4, <2>1, <2>2
<1>5. CASE places = 1
  <2>1. f = <<q, a>> /\ Len(f) = 2 /\ f[1] = q /\ f[2] = a
    BY <1>3, <1>5
  <2>2. Decimals(f, q)
    BY <1>1, <1>2, <2>1 DEF Decimals
  <2>3. f[2] = (m \div 10) % 10
    BY <2>1 DEF a
  <2>. QED
    BY <1>5, <2>1, <2>2, <2>3
<1>6. CASE places = 2
  <2>1. f = <<q, a, b>> /\ Len(f) = 3 /\ f[1] = q /\ f[2] = a /\ f[3] = b
    BY <1>3, <1>6
  <2>2. Decimals(f, q)
    BY <1>1, <1>2, <2>1 DEF Decimals
  <2>3. f[2] = (m \div 10) % 10 /\ f[3] = m % 10
    BY <2>1 DEF a, b
  <2>. QED
    BY <1>6, <2>1, <2>2, <2>3
<1>. QED
  BY <1>4, <1>5, <1>6

\* The decimal separator becomes a dot, the decimal places stay.
LEMMA DecimalsReplaced ==
  ASSUME NEW q \in {Comma, Dot}, NEW f, Decimals(f, q)
  PROVE  /\ Decimals(ReplaceAll(f, q, Dot), Dot)
         /\ Len(ReplaceAll(f, q, Dot)) = Len(f)
         /\ \A i \in 2 .. Len(f) : ReplaceAll(f, q, Dot)[i] = f[i]
<1>. DEFINE r == ReplaceAll(f, q, Dot)
<1>1. /\ f \in Seq(Char) /\ Len(f) \in {0, 2, 3} /\ (Len(f) > 0 => f[1] = q)
      /\ \A i \in 2 .. Len(f) : f[i] \in Digit
  BY DEF Decimals
<1>2. Dot \in Char /\ q \in Separator
  BY CharFacts DEF Separator
<1>3. r \in Seq(Char) /\ Len(r) = Len(f) /\ \A i \in 1 .. Len(f) : r[i] = IF f[i] = q THEN Dot ELSE f[i]
  BY <1>1, <1>2, ReplaceAllEffect
<1>. HIDE DEF r
<1>4. \A i \in 2 .. Len(f) : r[i] = f[i]
  BY <1>1, <1>2, <1>3, CharFacts
<1>5. Decimals(r, Dot)
  BY <1>1, <1>3, <1>4 DEF Decimals
<1>. QED
  BY <1>3, <1>4, <1>5 DEF r

\* A sign, an integer and decimal places make up an amount.
LEMMA AmountRead ==
  ASSUME NEW g \in Separator, NEW q \in {Comma, Dot}, q # g,
         NEW cents \in Int, NEW places \in 0 .. 2, Exact(cents, places),
         NEW w, Integer(w, g, Magnitude(cents) \div 100, 0)
  PROVE  ParseCents(Sign(cents) \o w \o Fraction(Magnitude(cents), q, places)) = cents
<1>. DEFINE m == Magnitude(cents)
            n == m \div 100
            s == IF cents < 0 THEN 1 ELSE 0
            x == Sign(cents) \o w
            f == Fraction(m, q, places)
            r == ReplaceAll(f, q, Dot)
            u == Without(x, g)
<1>1. m \in Nat /\ n \in Nat /\ s \in {0, 1} /\ cents = (IF s = 1 THEN -m ELSE m)
  BY DEF Magnitude
<1>2. Integer(x, g, n, s)
  <2>1. CASE cents < 0
    BY <2>1, Signed DEF Sign
  <2>2. CASE ~(cents < 0)
    <3>1. w \in Seq(Char)
      BY DEF Integer
    <3>2. x = w
      BY <2>2, <3>1 DEF Sign
    <3>. QED
      BY <2>2, <3>2
  <2>. QED
    BY <2>1, <2>2
<1>. HIDE DEF x
<1>3. Decimals(f, q)
  BY <1>1, FractionDecimals
<1>4. Canonical(Without(Without(x \o f, Space), Apostrophe)) = u \o r
  <2>. HIDE DEF f, n, s
  <2>. QED
    BY <1>2, <1>3, CanonicalText
<1>5. Integer(u, g, n, s) /\ \A i \in DOMAIN u : u[i] # g
  <2>. HIDE DEF n, s
  <2>. QED
    BY <1>2, IntegerStripped
<1>6. Decimals(r, Dot) /\ Len(r) = Len(f) /\ \A i \in 2 .. Len(f) : r[i] = f[i]
  <2>. HIDE DEF f
  <2>. QED
    BY <1>3, DecimalsReplaced
<1>7. /\ IsNumber(u \o r)
      /\ RoundedCents(u \o r)
           = IF s = 1 THEN -InCents(n, r) ELSE InCents(n, r)
  <2>1. n \in Nat /\ Integer(u, g, n, s) /\ (\A i \in DOMAIN u : u[i] # g) /\ Decimals(r, Dot)
    BY <1>1, <1>5, <1>6
  <2>. HIDE DEF u, r, n, s
  <2>2. IsNumber(u \o r)
    BY <2>1, RoundedText
  <2>3. RoundedCents(u \o r)
           = IF s = 1 THEN -InCents(n, r) ELSE InCents(n, r)
    BY <2>1, RoundedText
  <2>. QED
    BY <2>2, <2>3
<1>8. /\ (Len(r) > 0 <=> places > 0) /\ (Len(r) = 3 <=> places = 2)
      /\ (places > 0 => r[2] = (m \div 10) % 10)
      /\ (places = 2 => r[3] = m % 10)
  <2>1. /\ (Len(f) > 0 <=> places > 0) /\ (Len(f) = 3 <=> places = 2)
        /\ (places > 0 => f[2] = (m \div 10) % 10)
        /\ (places = 2 => f[3] = m % 10)
    <3>1. m \in Nat
      BY <1>1
    <3>. HIDE DEF m
    <3>2. Len(f) > 0 <=> places > 0
      BY <3>1, FractionDecimals
    <3>3. Len(f) = 3 <=> places = 2
      BY <3>1, FractionDecimals
    <3>4. places > 0 => f[2] = (m \div 10) % 10
      BY <3>1, FractionDecimals
    <3>5. places = 2 => f[3] = m % 10
      BY <3>1, FractionDecimals
    <3>. QED
      BY <3>2, <3>3, <3>4, <3>5
  <2>2. Len(f) \in {0, 2, 3}
    BY <1>3 DEF Decimals
  <2>. HIDE DEF f, r
  <2>3. (places > 0 => 2 \in 2 .. Len(f)) /\ (places = 2 => 3 \in 2 .. Len(f))
    BY <2>1, <2>2
  <2>. QED
    BY <1>6, <2>1, <2>3
<1>. HIDE DEF r, u, f
<1>9. InCents(n, r) = m
  <2>1. CASE places = 0
    <3>1. m % 100 = 0
      BY <2>1 DEF Exact
    <3>2. 100 * (m \div 100) = m
      BY <1>1, <3>1
    <3>3. ~(Len(r) > 0) /\ Len(r) # 3
      BY <1>8, <2>1
    <3>. QED
      BY <1>1, <3>2, <3>3 DEF InCents
  <2>2. CASE places = 1
    <3>1. m % 10 = 0
      BY <2>2 DEF Exact
    <3>2. 100 * n + 10 * ((m \div 10) % 10) = m
      BY <1>1, <3>1, Hundreds
    <3>. HIDE DEF n, m
    <3>3. Len(r) > 0 /\ Len(r) # 3 /\ r[2] = (m \div 10) % 10
      BY <1>8, <2>2
    <3>. QED
      BY <1>1, <3>2, <3>3 DEF InCents
  <2>3. CASE places = 2
    <3>1. 100 * n + 10 * ((m \div 10) % 10) + (m % 10) = m
      BY <1>1, Hundreds
    <3>. HIDE DEF n, m
    <3>2. Len(r) > 0 /\ Len(r) = 3 /\ r[2] = (m \div 10) % 10 /\ r[3] = m % 10
      BY <1>8, <2>3
    <3>. QED
      BY <1>1, <3>1, <3>2 DEF InCents
  <2>. QED
    BY <2>1, <2>2, <2>3
<1>10. RoundedCents(u \o r) = cents
  BY <1>1, <1>7, <1>9
<1>. QED
  BY <1>4, <1>7, <1>10 DEF ParseCents, x, f

\* Every amount, written in any style that Parse documents, is read as itself.
THEOREM AmountsReadBack ==
  ASSUME NEW text, NEW cents \in Int, Says(text, cents)
  PROVE  ParseCents(text) = cents
<1>1. PICK mark \in Marks, q \in {Dot, Comma}, places \in 0 .. 2 :
        mark # <<q>> /\ Exact(cents, places) /\ text = Write(cents, mark, q, places)
  BY DEF Says
<1>. DEFINE n == Magnitude(cents) \div 100
<1>2. n \in Nat
  BY DEF Magnitude
<1>3. \E g \in Separator : g # q /\ Integer(Grouped(mark)[n], g, n, 0)
  <2>. HIDE DEF n
  <2>1. CASE mark = <<>>
    <3>1. Space \in Separator /\ Space # q
      BY CharFacts DEF Separator
    <3>2. mark \in Seq(Char) /\ Len(mark) = 0
      BY <2>1
    <3>3. Plain(Grouped(mark)[n], n)
      BY <1>2, <3>2, GroupedPlain
    <3>. QED
      BY <3>1, <3>3, PlainInteger
  <2>2. ASSUME NEW g \in Separator, mark = <<g>>
        PROVE  g # q /\ Integer(Grouped(mark)[n], g, n, 0)
    BY <1>1, <1>2, <2>2, GroupedInteger
  <2>. QED
    BY <2>1, <2>2 DEF Marks, Separator
<1>. QED
  BY <1>1, <1>3, AmountRead DEF Write

\* What the review page shows of an amount reads back as that amount.
THEOREM RenderedReadsBack ==
  ASSUME NEW v \in Amount
  PROVE  ParseCents(Rendered(v)) = Cents(v)
<1>. DEFINE n == Magnitude(Cents(v)) \div 100
<1>1. Cents(v) \in Int /\ n \in Nat
  BY CentsTyped DEF Magnitude
<1>2. Space \in Separator /\ Space # Dot /\ Dot \in {Comma, Dot}
  BY CharFacts DEF Separator
<1>3. Integer(DigitsOf[n], Space, n, 0)
  <2>. HIDE DEF n
  <2>. QED
    BY <1>1, <1>2, DigitsPlain, PlainInteger
<1>4. Exact(Cents(v), 2)
  BY DEF Exact
<1>5. Rendered(v) = Sign(Cents(v)) \o DigitsOf[n] \o Fraction(Magnitude(Cents(v)), Dot, 2)
  BY DEF Rendered, TwoPlaces, Cents
<1>. QED
  BY <1>1, <1>2, <1>3, <1>4, <1>5, AmountRead

-------------------------------------------------------------------------------
(* The payload: its companies                                              *)

Start == [cache |-> <<>>, invoices |-> <<>>, purchases |-> <<>>, sales |-> <<>>]

\* The loop as a recursion on the number of invoices.
LEMMA LoopDef ==
  ASSUME NEW invoices, Len(invoices) \in Nat, NEW directory, NEW type
  PROVE  /\ Loop(invoices, directory, type)[0] = Start
         /\ \A n \in 1 .. Len(invoices) :
              Loop(invoices, directory, type)[n]
                = AddInvoice(Loop(invoices, directory, type)[n - 1], invoices[n], directory, type)
<1>. DEFINE N == Len(invoices)
            Step(f, m) == IF m = 0 THEN Start ELSE AddInvoice(f[m - 1], invoices[m], directory, type)
            S == {n \in 0 .. N : \E f : f = [m \in 0 .. n |-> Step(f, m)]}
<1>1. 0 \in S
  <2>. DEFINE f == [m \in 0 .. 0 |-> Start]
  <2>1. f = [m \in 0 .. 0 |-> Step(f, m)]
    OBVIOUS
  <2>. HIDE DEF Step, f
  <2>. QED
    BY <2>1
<1>2. ASSUME NEW n \in 0 .. N - 1, n \in S PROVE n + 1 \in S
  <2>1. PICK f : f = [m \in 0 .. n |-> Step(f, m)]
    BY <1>2
  <2>. DEFINE g == [m \in 0 .. n + 1 |-> IF m <= n THEN f[m] ELSE Step(f, m)]
  <2>2. ASSUME NEW m \in 0 .. n + 1 PROVE g[m] = Step(g, m)
    <3>1. m # 0 => m - 1 \in 0 .. n /\ g[m - 1] = f[m - 1]
      OBVIOUS
    <3>2. Step(g, m) = Step(f, m)
      BY <3>1
    <3>3. m <= n => f[m] = Step(f, m)
      <4>. HIDE DEF Step
      <4>. QED
        BY <2>1
    <3>. QED
      BY <3>2, <3>3
  <2>3. g = [m \in 0 .. n + 1 |-> Step(g, m)]
    <3>. HIDE DEF Step
    <3>. QED
      BY <2>2
  <2>. HIDE DEF Step, g
  <2>. QED
    BY <2>3
<1>3. N \in S
  <2>. HIDE DEF S
  <2>1. 0 .. N \subseteq S
    BY <1>1, <1>2, Induction
  <2>. QED
    BY <2>1
<1>4. \E f : f = [m \in 0 .. N |-> Step(f, m)]
  BY <1>3
<1>. DEFINE L == Loop(invoices, directory, type)
<1>5. L = [m \in 0 .. N |-> Step(L, m)]
  <2>. HIDE DEF L
  <2>1. L = CHOOSE f : f = [m \in 0 .. N |-> Step(f, m)]
    BY DEF Loop, L, Start
  <2>. HIDE DEF Step
  <2>. QED
    BY <1>4, <2>1
<1>. HIDE DEF L
<1>6. \A m \in 0 .. N : L[m] = Step(L, m)
  <2>. HIDE DEF Step
  <2>. QED
    BY <1>5
<1>7. QED
  BY <1>6 DEF L

\* A sum as a recursion on the number of amounts.
LEMMA SumsDef ==
  ASSUME NEW a, Len(a) \in Nat
  PROVE  /\ Sums(a)[0] = 0
         /\ \A n \in 1 .. Len(a) : Sums(a)[n] = Sums(a)[n - 1] + a[n]
<1>. DEFINE N == Len(a)
            Step(f, m) == IF m = 0 THEN 0 ELSE f[m - 1] + a[m]
            S == {n \in 0 .. N : \E f : f = [m \in 0 .. n |-> Step(f, m)]}
<1>1. 0 \in S
  <2>. DEFINE f == [m \in 0 .. 0 |-> 0]
  <2>1. f = [m \in 0 .. 0 |-> Step(f, m)]
    OBVIOUS
  <2>. HIDE DEF Step, f
  <2>. QED
    BY <2>1
<1>2. ASSUME NEW n \in 0 .. N - 1, n \in S PROVE n + 1 \in S
  <2>1. PICK f : f = [m \in 0 .. n |-> Step(f, m)]
    BY <1>2
  <2>. DEFINE g == [m \in 0 .. n + 1 |-> IF m <= n THEN f[m] ELSE Step(f, m)]
  <2>2. ASSUME NEW m \in 0 .. n + 1 PROVE g[m] = Step(g, m)
    <3>1. m # 0 => m - 1 \in 0 .. n /\ g[m - 1] = f[m - 1]
      OBVIOUS
    <3>2. Step(g, m) = Step(f, m)
      BY <3>1
    <3>3. m <= n => f[m] = Step(f, m)
      <4>. HIDE DEF Step
      <4>. QED
        BY <2>1
    <3>. QED
      BY <3>2, <3>3
  <2>3. g = [m \in 0 .. n + 1 |-> Step(g, m)]
    <3>. HIDE DEF Step
    <3>. QED
      BY <2>2
  <2>. HIDE DEF Step, g
  <2>. QED
    BY <2>3
<1>3. N \in S
  <2>. HIDE DEF S
  <2>1. 0 .. N \subseteq S
    BY <1>1, <1>2, Induction
  <2>. QED
    BY <2>1
<1>4. \E f : f = [m \in 0 .. N |-> Step(f, m)]
  BY <1>3
<1>. DEFINE L == Sums(a)
<1>5. L = [m \in 0 .. N |-> Step(L, m)]
  <2>. HIDE DEF L
  <2>1. L = CHOOSE f : f = [m \in 0 .. N |-> Step(f, m)]
    BY DEF Sums, L
  <2>. HIDE DEF Step
  <2>. QED
    BY <1>4, <2>1
<1>. HIDE DEF L
<1>6. \A m \in 0 .. N : L[m] = Step(L, m)
  <2>. HIDE DEF Step
  <2>. QED
    BY <1>5
<1>7. QED
  BY <1>6 DEF L

\* A party's key is a kind and a text.
LEMMA KeyTyped ==
  ASSUME NEW p, p.title \in STRING, p.code \in STRING, p.vat \in STRING
  PROVE  CompanyKey(p) \in Keys
BY DEF CompanyKey, Keys

\* A company that has a key at all lists the one it is known by.
LEMMA OwnKey ==
  ASSUME NEW c, NEW k \in KeysOf(c)
  PROVE  CompanyKey(c) \in KeysOf(c)
BY DEF CompanyKey, KeysOf

\* A key is found in the directory exactly where some entry has it.
LEMMA KnownEffect ==
  ASSUME NEW directory \in Seq(DirectoryRow), NEW k
  PROVE  \/ /\ Known(directory, k) = 0
            /\ \A n \in DOMAIN directory : k \notin KeysOf(directory[n])
         \/ /\ Known(directory, k) \in DOMAIN directory
            /\ k \in KeysOf(directory[Known(directory, k)])
<1>. DEFINE S == {n \in 1 .. Len(directory) : k \in KeysOf(directory[n])}
<1>1. Known(directory, k) = IF S # {} THEN Max(S) ELSE 0
  BY DEF Known, SelectLastInSeq
<1>2. S # {} => Max(S) \in S
  <2>. S \in SUBSET (1 .. Len(directory)) /\ Len(directory) \in Nat
    OBVIOUS
  <2>. HIDE DEF S
  <2>. QED
    BY LargestOf
<1>. QED
  BY <1>1, <1>2

\* The filled-in record of an unknown party keeps its key and has it as its id;
\* that of a known one has the id and the key of the company it was found as.
LEMMA NewCompanyEffect ==
  ASSUME NEW directory \in Seq(DirectoryRow), NEW p \in Party, NEW internal \in BOOLEAN
  PROVE  LET k == CompanyKey(p)
             n == Known(directory, k)
             c == NewCompany(p, internal, directory)
         IN  /\ c.internal = internal
             /\ \/ /\ n = 0 /\ c.id = k /\ CompanyKey(c) = k
                   /\ \A m \in DOMAIN directory : k \notin KeysOf(directory[m])
                \/ /\ n \in DOMAIN directory /\ k \in KeysOf(directory[n])
                   /\ c.id = directory[n].id /\ CompanyKey(c) = CompanyKey(directory[n])
<1>. DEFINE k == CompanyKey(p)
            n == Known(directory, k)
            c == NewCompany(p, internal, directory)
<1>1. CASE n = 0
  <2>1. c = [id |-> k, title |-> p.title, code |-> p.code, vat |-> p.vat,
             internal |-> internal]
    BY <1>1 DEF NewCompany
  <2>2. \A m \in DOMAIN directory : k \notin KeysOf(directory[m])
    BY <1>1, KnownEffect
  <2>3. CompanyKey(c) = k
    <3>1. c.title = p.title /\ c.code = p.code /\ c.vat = p.vat
      BY <2>1
    <3>. HIDE DEF c
    <3>. QED
      BY <3>1 DEF CompanyKey
  <2>. QED
    BY <1>1, <2>1, <2>2, <2>3
<1>2. CASE n # 0
  <2>1. n \in DOMAIN directory /\ k \in KeysOf(directory[n])
    BY <1>2, KnownEffect
  <2>. DEFINE d == directory[n]
  <2>2. c = [id |-> d.id, title |-> Filled(p.title, d.title),
             code |-> Filled(p.code, d.code), vat |-> Filled(p.vat, d.vat),
             internal |-> internal]
    BY <1>2 DEF NewCompany
  <2>3. CompanyKey(c) = CompanyKey(d)
    <3>. HIDE DEF c, d, n
    <3>1. k \in KeysOf(d)
      BY <2>1 DEF d
    <3>. QED
      BY <2>2, <3>1 DEF CompanyKey, KeysOf, Filled
  <2>. QED
    BY <2>1, <2>2, <2>3
<1>. QED
  BY <1>1, <1>2

\* Two parties with the same id have the same key when their records are filled
\* in, and two with the same key have the same id unless the key is a code.
LEMMA KeyIsId ==
  ASSUME NEW directory \in Seq(DirectoryRow), IdsDiffer(directory), VatsDiffer(directory),
         NEW p \in Party, NEW q \in Party, NEW b \in BOOLEAN, NEW d \in BOOLEAN
  PROVE  LET cp == NewCompany(p, b, directory)
             cq == NewCompany(q, d, directory)
         IN  /\ cp.id = cq.id => CompanyKey(cp) = CompanyKey(cq)
             /\ CompanyKey(cp) = CompanyKey(cq) /\ cp.code = "" => cp.id = cq.id
<1>. DEFINE cp == NewCompany(p, b, directory)
            cq == NewCompany(q, d, directory)
            kp == CompanyKey(p)
            kq == CompanyKey(q)
            np == Known(directory, kp)
            nq == Known(directory, kq)
<1>1. kp \in Keys /\ kq \in Keys
  BY KeyTyped DEF Party
<1>2. \A n \in DOMAIN directory : directory[n].id \notin Keys
  <2>1. \A n \in DOMAIN directory : directory[n].id \in CompanyIds
    <3>1. \A n \in DOMAIN directory : directory[n] \in DirectoryRow
      OBVIOUS
    <3>. QED
      BY <3>1 DEF DirectoryRow
  <2>2. \A id \in CompanyIds : id \notin Keys
    BY DirectoryAssumption
  <2>. QED
    BY <2>1, <2>2
<1>. DEFINE Unknown(c, k, n) == /\ n = 0 /\ c.id = k /\ CompanyKey(c) = k
                                /\ \A m \in DOMAIN directory : k \notin KeysOf(directory[m])
            Found(c, k, n) == /\ n \in DOMAIN directory /\ k \in KeysOf(directory[n])
                              /\ c.id = directory[n].id
                              /\ CompanyKey(c) = CompanyKey(directory[n])
<1>3. Unknown(cp, kp, np) \/ Found(cp, kp, np)
  BY NewCompanyEffect
<1>4. Unknown(cq, kq, nq) \/ Found(cq, kq, nq)
  BY NewCompanyEffect
<1>. HIDE DEF cp, cq, np, nq
<1>5. /\ cp.id = cq.id => CompanyKey(cp) = CompanyKey(cq)
      /\ CompanyKey(cp) = CompanyKey(cq) /\ cp.code = "" => cp.id = cq.id
  <2>1. CASE Unknown(cp, kp, np) /\ Unknown(cq, kq, nq)
    BY <2>1
  <2>2. CASE Unknown(cp, kp, np) /\ Found(cq, kq, nq)
    <3>1. cp.id # cq.id
      BY <1>1, <1>2, <2>2
    <3>2. CompanyKey(cq) \in KeysOf(directory[nq])
      BY <2>2, OwnKey
    <3>. QED
      BY <2>2, <3>1, <3>2
  <2>3. CASE Found(cp, kp, np) /\ Unknown(cq, kq, nq)
    <3>1. cp.id # cq.id
      BY <1>1, <1>2, <2>3
    <3>2. CompanyKey(cp) \in KeysOf(directory[np])
      BY <2>3, OwnKey
    <3>. QED
      BY <2>3, <3>1, <3>2
  <2>4. CASE Found(cp, kp, np) /\ Found(cq, kq, nq)
    <3>1. cp.id = cq.id => np = nq
      BY <2>4 DEF IdsDiffer
    <3>2. ASSUME CompanyKey(cp) = CompanyKey(cq), cp.code = "", np # nq PROVE FALSE
      <4>. DEFINE x == directory[np]
                  y == directory[nq]
      <4>1. CompanyKey(x) = CompanyKey(y)
        BY <2>4, <3>2
      <4>2. x.vat = y.vat => x.vat = ""
        BY <2>4, <3>2 DEF VatsDiffer
      <4>3. kp \in KeysOf(x) /\ kq \in KeysOf(y)
        BY <2>4
      <4>7. CompanyKey(cp) = CompanyKey(x)
        BY <2>4
      <4>. HIDE DEF x, y
      <4>8. x.code = ""
        BY <3>2, <4>7 DEF CompanyKey
      <4>4. x.code = "" /\ x.vat = "" /\ y.code = "" /\ y.vat = ""
        BY <4>1, <4>2, <4>8 DEF CompanyKey
      <4>5. x.title = y.title
        BY <4>1, <4>4 DEF CompanyKey
      <4>6. kp = kq
        BY <4>3, <4>4, <4>5 DEF KeysOf
      <4>. QED
        BY <3>2, <4>6 DEF np, nq
    <3>. QED
      BY <2>4, <3>1, <3>2
  <2>. QED
    BY <1>3, <1>4, <2>1, <2>2, <2>3, <2>4
<1>. QED
  BY <1>5 DEF cp, cq

PayloadCompany ==
  [id : CompanyIds \cup Keys, title : STRING, code : STRING, vat : STRING, internal : BOOLEAN]

PayloadLine == [net : Int, vat : Int, gross : Int]

PayloadInvoice ==
  [id : InvoiceIds, from : PayloadCompany, to : PayloadCompany,
   net : Int, vat : Int, gross : Int, lines : Seq(PayloadLine)]

\* A new company is a record of the payload.
LEMMA NewCompanyTyped ==
  ASSUME NEW directory \in Seq(DirectoryRow), NEW p \in Party, NEW internal \in BOOLEAN
  PROVE  NewCompany(p, internal, directory) \in PayloadCompany
<1>. DEFINE k == CompanyKey(p)
            n == Known(directory, k)
<1>1. n # 0 => directory[n] \in DirectoryRow
  BY KnownEffect
<1>2. k \in Keys
  BY KeyTyped DEF Party
<1>3. p.title \in STRING /\ p.code \in STRING /\ p.vat \in STRING
  BY DEF Party
<1>. HIDE DEF k, n
<1>4. CASE n = 0
  <2>1. NewCompany(p, internal, directory)
          = [id |-> k, title |-> p.title, code |-> p.code, vat |-> p.vat, internal |-> internal]
    BY <1>4 DEF NewCompany, k, n
  <2>. QED
    BY <1>2, <1>3, <2>1 DEF PayloadCompany
<1>5. CASE n # 0
  <2>1. NewCompany(p, internal, directory)
          = [id |-> directory[n].id, title |-> Filled(p.title, directory[n].title),
             code |-> Filled(p.code, directory[n].code),
             vat |-> Filled(p.vat, directory[n].vat), internal |-> internal]
    BY <1>5 DEF NewCompany, k, n
  <2>2. /\ directory[n].id \in CompanyIds /\ directory[n].title \in STRING
        /\ directory[n].code \in STRING /\ directory[n].vat \in STRING
    BY <1>1, <1>5 DEF DirectoryRow
  <2>3. /\ Filled(p.title, directory[n].title) \in STRING
        /\ Filled(p.code, directory[n].code) \in STRING
        /\ Filled(p.vat, directory[n].vat) \in STRING
    BY <1>3, <2>2 DEF Filled
  <2>. QED
    BY <2>1, <2>2, <2>3 DEF PayloadCompany
<1>. QED
  BY <1>4, <1>5

\* A line of the payload has three numbers.
LEMMA MapLineTyped ==
  ASSUME NEW line, line.total \in Amount, line.vat \in Amount, NEW sign \in {1, -1}
  PROVE  MapLine(line, sign) \in PayloadLine
<1>1. Cents(line.total) \in Int /\ Cents(line.vat) \in Int
  BY CentsTyped
<1>2. CASE sign = 1
  BY <1>1, <1>2 DEF MapLine, PayloadLine
<1>3. CASE sign = -1
  BY <1>1, <1>3 DEF MapLine, PayloadLine
<1>. QED
  BY <1>2, <1>3

\* An invoice of the payload has numbers, two companies and lines.
LEMMA MapInvoiceTyped ==
  ASSUME NEW inv \in Selected, NEW from \in PayloadCompany, NEW to \in PayloadCompany
  PROVE  MapInvoice(inv, from, to) \in PayloadInvoice
<1>. DEFINE sign == IF inv.credit THEN -1 ELSE 1
            ls == [n \in DOMAIN inv.lines |-> MapLine(inv.lines[n], sign)]
<1>1. /\ inv.id \in InvoiceIds /\ inv.lines \in Lines
      /\ inv.net \in Amount /\ inv.vat \in Amount /\ inv.gross \in Amount
  BY DEF Selected
<1>2. sign \in {1, -1}
  OBVIOUS
<1>. HIDE DEF sign
<1>3. Cents(inv.net) \in Int /\ Cents(inv.vat) \in Int /\ Cents(inv.gross) \in Int
  BY <1>1, CentsTyped
<1>4. /\ Cents(inv.net) * sign \in Int /\ Cents(inv.vat) * sign \in Int
      /\ Cents(inv.gross) * sign \in Int
  <2>1. CASE sign = 1
    BY <1>3, <2>1
  <2>2. CASE sign = -1
    BY <1>3, <2>2
  <2>. QED
    BY <1>2, <2>1, <2>2
<1>5. ls \in Seq(PayloadLine)
  <2>1. \A n \in DOMAIN inv.lines :
          inv.lines[n] \in [id : LineIds, described : BOOLEAN, total : Amount, vat : Amount]
    <3>. DEFINE s == inv.lines
                R == [id : LineIds, described : BOOLEAN, total : Amount, vat : Amount]
    <3>1. s \in Seq(R)
      BY <1>1 DEF Lines
    <3>. HIDE DEF s, R
    <3>2. \A n \in DOMAIN s : s[n] \in R
      BY <3>1
    <3>. QED
      BY <3>2 DEF s, R
  <2>2. \A n \in DOMAIN inv.lines : MapLine(inv.lines[n], sign) \in PayloadLine
    BY <1>2, <2>1, MapLineTyped
  <2>. QED
    BY <1>1, <2>2 DEF Lines
<1>6. MapInvoice(inv, from, to)
        = [id |-> inv.id, from |-> from, to |-> to, net |-> Cents(inv.net) * sign,
           vat |-> Cents(inv.vat) * sign, gross |-> Cents(inv.gross) * sign, lines |-> ls]
  BY DEF MapInvoice, sign
<1>. HIDE DEF ls
<1>. QED
  BY <1>1, <1>4, <1>5, <1>6 DEF PayloadInvoice

-------------------------------------------------------------------------------
(* The loop                                                                *)

SellerKey(inv) == CompanyKey(inv.seller)
BuyerKey(inv)  == CompanyKey(inv.buyer)

\* Who a company in the cache is: the party of one of the first n invoices that
\* showed its key, on the side that the record says.
Origin(acc, invoices, directory, k, n) ==
  \E m \in 1 .. n :
    \/ /\ k = SellerKey(invoices[m])
       /\ acc.cache[k] = NewCompany(invoices[m].seller, TRUE, directory)
    \/ /\ k = BuyerKey(invoices[m])
       /\ acc.cache[k] = NewCompany(invoices[m].buyer, FALSE, directory)

CacheInv(acc, invoices, directory, n) ==
  /\ acc.cache \in [DOMAIN acc.cache -> PayloadCompany]
  /\ \A k \in DOMAIN acc.cache : Origin(acc, invoices, directory, k, n)

MappedInv(acc, invoices, n) ==
  /\ acc.invoices \in Seq(PayloadInvoice) /\ Len(acc.invoices) = n
  /\ \A m \in 1 .. n :
       /\ SellerKey(invoices[m]) \in DOMAIN acc.cache
       /\ BuyerKey(invoices[m]) \in DOMAIN acc.cache
       /\ acc.invoices[m] = MapInvoice(invoices[m], acc.cache[SellerKey(invoices[m])],
                                       acc.cache[BuyerKey(invoices[m])])

\* A look-up never changes what the cache holds, and leaves the party in it.
LEMMA LookUp ==
  ASSUME NEW cache, NEW p, NEW internal, NEW directory
  PROVE  LET c    == PartyCompany(cache, p, internal, directory)
             seen == Remember(cache, p, c)
         IN  /\ DOMAIN seen = DOMAIN cache \cup {CompanyKey(p)}
             /\ \A k \in DOMAIN cache : seen[k] = cache[k]
             /\ seen[CompanyKey(p)] = c
             /\ CompanyKey(p) \notin DOMAIN cache => c = NewCompany(p, internal, directory)
             /\ seen \in [DOMAIN seen -> {seen[k] : k \in DOMAIN seen}]
BY DEF PartyCompany, Remember

\* One turn of the loop keeps what is known of the cache and of the invoices.
LEMMA CacheStep ==
  ASSUME NEW directory \in Seq(DirectoryRow), NEW type,
         NEW invoices \in Seq(Selected), NEW n \in 1 .. Len(invoices), NEW acc,
         CacheInv(acc, invoices, directory, n - 1), MappedInv(acc, invoices, n - 1)
  PROVE  /\ CacheInv(AddInvoice(acc, invoices[n], directory, type), invoices, directory, n)
         /\ MappedInv(AddInvoice(acc, invoices[n], directory, type), invoices, n)
<1>. DEFINE inv  == invoices[n]
            from == PartyCompany(acc.cache, inv.seller, TRUE, directory)
            seen == Remember(acc.cache, inv.seller, from)
            to   == PartyCompany(seen, inv.buyer, FALSE, directory)
            last == Remember(seen, inv.buyer, to)
            end  == AddInvoice(acc, inv, directory, type)
<1>1. inv \in Selected /\ inv.seller \in Party /\ inv.buyer \in Party
  <2>1. inv \in Selected
    OBVIOUS
  <2>. HIDE DEF inv
  <2>. QED
    BY <2>1 DEF Selected
<1>2. /\ DOMAIN seen = DOMAIN acc.cache \cup {SellerKey(inv)}
      /\ \A k \in DOMAIN acc.cache : seen[k] = acc.cache[k]
      /\ seen[SellerKey(inv)] = from
      /\ SellerKey(inv) \notin DOMAIN acc.cache => from = NewCompany(inv.seller, TRUE, directory)
  BY DEF PartyCompany, Remember, SellerKey
<1>3. /\ DOMAIN last = DOMAIN seen \cup {BuyerKey(inv)}
      /\ \A k \in DOMAIN seen : last[k] = seen[k]
      /\ last[BuyerKey(inv)] = to
      /\ BuyerKey(inv) \notin DOMAIN seen => to = NewCompany(inv.buyer, FALSE, directory)
      /\ last \in [DOMAIN last -> {last[k] : k \in DOMAIN last}]
  BY LookUp DEF BuyerKey
<1>4. end.cache = last /\ end.invoices = Append(acc.invoices, MapInvoice(inv, from, to))
  BY DEF AddInvoice
<1>5. /\ NewCompany(inv.seller, TRUE, directory) \in PayloadCompany
      /\ NewCompany(inv.buyer, FALSE, directory) \in PayloadCompany
  BY <1>1, NewCompanyTyped
<1>. HIDE DEF inv, from, seen, to, last, end
<1>6. /\ DOMAIN last = DOMAIN acc.cache \cup {SellerKey(inv), BuyerKey(inv)}
      /\ \A k \in DOMAIN acc.cache : last[k] = acc.cache[k]
      /\ last[SellerKey(inv)] = from /\ last[BuyerKey(inv)] = to
  BY <1>2, <1>3
<1>7. ASSUME NEW k \in DOMAIN last
      PROVE  \/ k \in DOMAIN acc.cache
             \/ k = SellerKey(inv) /\ last[k] = NewCompany(inv.seller, TRUE, directory)
             \/ k = BuyerKey(inv) /\ last[k] = NewCompany(inv.buyer, FALSE, directory)
  BY <1>2, <1>3, <1>6
<1>8. \A k \in DOMAIN last : last[k] \in PayloadCompany
  BY <1>5, <1>6, <1>7 DEF CacheInv
<1>9. CacheInv(end, invoices, directory, n)
  <2>1. last \in [DOMAIN last -> PayloadCompany]
    BY <1>3, <1>8
  <2>2. ASSUME NEW k \in DOMAIN last PROVE Origin(end, invoices, directory, k, n)
    <3>1. CASE k \in DOMAIN acc.cache
      <4>1. Origin(acc, invoices, directory, k, n - 1)
        BY <3>1 DEF CacheInv
      <4>2. last[k] = acc.cache[k] /\ 1 .. n - 1 \subseteq 1 .. n
        BY <1>6, <3>1
      <4>. QED
        BY <1>4, <4>1, <4>2 DEF Origin
    <3>2. CASE k \notin DOMAIN acc.cache
      <4>1. \/ k = SellerKey(inv) /\ last[k] = NewCompany(inv.seller, TRUE, directory)
            \/ k = BuyerKey(inv) /\ last[k] = NewCompany(inv.buyer, FALSE, directory)
        BY <1>7, <3>2
      <4>2. n \in 1 .. n /\ inv = invoices[n] /\ end.cache = last
        BY <1>4 DEF inv
      <4>. QED
        BY <4>1, <4>2 DEF Origin
    <3>. QED
      BY <3>1, <3>2
  <2>. QED
    BY <1>4, <2>1, <2>2 DEF CacheInv
<1>10. MappedInv(end, invoices, n)
  <2>1. from \in PayloadCompany /\ to \in PayloadCompany
    BY <1>6, <1>8
  <2>2. MapInvoice(inv, from, to) \in PayloadInvoice
    BY <1>1, <2>1, MapInvoiceTyped
  <2>3. /\ end.invoices \in Seq(PayloadInvoice) /\ Len(end.invoices) = n
        /\ \A m \in 1 .. n - 1 : end.invoices[m] = acc.invoices[m]
        /\ end.invoices[n] = MapInvoice(inv, from, to)
    BY <1>4, <2>2 DEF MappedInv
  <2>4. ASSUME NEW m \in 1 .. n
        PROVE  /\ SellerKey(invoices[m]) \in DOMAIN last
               /\ BuyerKey(invoices[m]) \in DOMAIN last
               /\ end.invoices[m] = MapInvoice(invoices[m], last[SellerKey(invoices[m])],
                                               last[BuyerKey(invoices[m])])
    <3>1. CASE m = n
      BY <1>6, <2>3, <3>1 DEF inv
    <3>2. CASE m \in 1 .. n - 1
      <4>1. /\ SellerKey(invoices[m]) \in DOMAIN acc.cache
            /\ BuyerKey(invoices[m]) \in DOMAIN acc.cache
            /\ acc.invoices[m] = MapInvoice(invoices[m], acc.cache[SellerKey(invoices[m])],
                                            acc.cache[BuyerKey(invoices[m])])
        BY <3>2 DEF MappedInv
      <4>. QED
        BY <1>6, <2>3, <3>2, <4>1
    <3>. QED
      BY <3>1, <3>2
  <2>. QED
    BY <1>4, <2>3, <2>4 DEF MappedInv
<1>. QED
  BY <1>9, <1>10 DEF end, inv

-------------------------------------------------------------------------------
(* The payload: its buckets                                                *)

ExportTypes == {"purchases", "sales", "all"}

\* A bucket holds some of the first n invoices.
Bucket(seq, mapped, n) ==
  /\ seq \in Seq(PayloadInvoice)
  /\ \A i \in DOMAIN seq : \E m \in 1 .. n : seq[i] = mapped[m]

\* No id is in the two buckets twice.
Once(acc) ==
  /\ IdsDiffer(acc.purchases) /\ IdsDiffer(acc.sales)
  /\ \A i \in DOMAIN acc.purchases, j \in DOMAIN acc.sales :
       acc.purchases[i].id # acc.sales[j].id

BucketInv(acc, type, n) ==
  /\ Bucket(acc.purchases, acc.invoices, n) /\ Bucket(acc.sales, acc.invoices, n)
  /\ \A m \in 1 .. n : \/ \E i \in DOMAIN acc.purchases : acc.purchases[i] = acc.invoices[m]
                       \/ \E i \in DOMAIN acc.sales : acc.sales[i] = acc.invoices[m]
  /\ IdsDiffer(acc.invoices) => Once(acc)
  /\ type = "sales" => acc.purchases = <<>>
  /\ type = "purchases" => acc.sales = <<>>

\* The next invoice is put behind the others.
LEMMA BucketAppend ==
  ASSUME NEW seq, NEW old, NEW new, NEW n \in Nat \ {0},
         NEW x \in PayloadInvoice,
         Bucket(seq, old, n - 1), new[n] = x,
         \A m \in 1 .. n - 1 : new[m] = old[m]
  PROVE  /\ Bucket(seq, new, n)
         /\ Bucket(Append(seq, x), new, n)
<1>1. seq \in Seq(PayloadInvoice) /\ Len(seq) \in Nat /\ DOMAIN seq = 1 .. Len(seq)
  BY DEF Bucket
<1>3. Bucket(seq, new, n)
  BY DEF Bucket
<1>. DEFINE s == Append(seq, x)
<1>4. /\ s \in Seq(PayloadInvoice) /\ DOMAIN s = 1 .. Len(seq) + 1
      /\ \A i \in DOMAIN seq : s[i] = seq[i]
      /\ s[Len(seq) + 1] = x
  BY <1>1
<1>. HIDE DEF s
<1>5. \A i \in DOMAIN s : i \in DOMAIN seq \/ i = Len(seq) + 1
  BY <1>1, <1>4
<1>6. \A i \in DOMAIN s : \E m \in 1 .. n : s[i] = new[m]
  BY <1>3, <1>4, <1>5 DEF Bucket
<1>8. Bucket(s, new, n)
  BY <1>4, <1>6 DEF Bucket
<1>. QED
  BY <1>3, <1>8 DEF s

\* Ids still differ when a new one is put behind them.
LEMMA AppendOnce ==
  ASSUME NEW seq \in Seq(PayloadInvoice), IdsDiffer(seq), NEW x \in PayloadInvoice,
         \A i \in DOMAIN seq : seq[i].id # x.id
  PROVE  IdsDiffer(Append(seq, x))
<1>. DEFINE s == Append(seq, x)
<1>1. /\ DOMAIN s = 1 .. Len(seq) + 1 /\ Len(seq) \in Nat /\ DOMAIN seq = 1 .. Len(seq)
      /\ \A i \in DOMAIN seq : s[i] = seq[i]
      /\ s[Len(seq) + 1] = x
  OBVIOUS
<1>. HIDE DEF s
<1>2. \A i \in DOMAIN s : i \in DOMAIN seq \/ i = Len(seq) + 1
  BY <1>1
<1>3. IdsDiffer(s)
  BY <1>1, <1>2 DEF IdsDiffer
<1>. QED
  BY <1>3 DEF s

\* One turn of the loop keeps what is known of the buckets.
LEMMA BucketStep ==
  ASSUME NEW directory \in Seq(DirectoryRow), NEW type \in ExportTypes,
         NEW invoices \in Seq(Selected),
         NEW n \in 1 .. Len(invoices), NEW acc,
         CacheInv(acc, invoices, directory, n - 1), MappedInv(acc, invoices, n - 1),
         BucketInv(acc, type, n - 1)
  PROVE  BucketInv(AddInvoice(acc, invoices[n], directory, type), type, n)
<1>. DEFINE inv  == invoices[n]
            end  == AddInvoice(acc, inv, directory, type)
            sale == Classify(inv, directory, type) = "sales"
            x    == end.invoices[n]
<1>1. MappedInv(end, invoices, n)
  BY CacheStep
<1>2. PICK mapped : /\ end.invoices = Append(acc.invoices, mapped)
                    /\ end.purchases = IF sale THEN acc.purchases
                                       ELSE Append(acc.purchases, mapped)
                    /\ end.sales = IF sale THEN Append(acc.sales, mapped) ELSE acc.sales
  BY DEF AddInvoice
<1>3. /\ acc.invoices \in Seq(PayloadInvoice) /\ Len(acc.invoices) = n - 1
      /\ end.invoices \in Seq(PayloadInvoice) /\ Len(end.invoices) = n
  BY <1>1 DEF MappedInv
<1>4. /\ x = mapped /\ x \in PayloadInvoice
      /\ \A m \in 1 .. n - 1 : end.invoices[m] = acc.invoices[m]
  BY <1>2, <1>3
<1>5. ASSUME IdsDiffer(end.invoices)
      PROVE  IdsDiffer(acc.invoices) /\ \A m \in 1 .. n - 1 : acc.invoices[m].id # x.id
  <2>. DEFINE old == acc.invoices
              new == end.invoices
  <2>1. /\ DOMAIN old = 1 .. n - 1 /\ DOMAIN new = 1 .. n /\ n \in 1 .. n
        /\ \A m \in 1 .. n - 1 : m \in 1 .. n /\ m # n /\ new[m] = old[m]
    BY <1>3, <1>4
  <2>2. IdsDiffer(new) /\ x = new[n]
    BY <1>5
  <2>. HIDE DEF old, new, x
  <2>3. IdsDiffer(old) /\ \A m \in 1 .. n - 1 : old[m].id # x.id
    BY <2>1, <2>2 DEF IdsDiffer
  <2>. QED
    BY <2>3 DEF old
<1>6. type = "sales" => sale
  BY DEF Classify
<1>7. type = "purchases" => ~sale
  BY DEF Classify
<1>. HIDE DEF inv, end, sale, x
<1>8. n \in Nat \ {0} /\ end.invoices[n] = x
  BY DEF x
<1>9. ASSUME NEW seq, Bucket(seq, acc.invoices, n - 1)
      PROVE  /\ Bucket(seq, end.invoices, n) /\ Bucket(Append(seq, x), end.invoices, n)
             /\ DOMAIN Append(seq, x) = 1 .. Len(seq) + 1 /\ DOMAIN seq = 1 .. Len(seq)
             /\ Len(seq) \in Nat
             /\ \A i \in DOMAIN seq : Append(seq, x)[i] = seq[i]
             /\ Append(seq, x)[Len(seq) + 1] = x
  <2>1. seq \in Seq(PayloadInvoice)
    BY <1>9 DEF Bucket
  <2>2. /\ Bucket(seq, end.invoices, n) /\ Bucket(Append(seq, x), end.invoices, n)
    <3>1. \A m \in 1 .. n - 1 : end.invoices[m] = acc.invoices[m]
      BY <1>4
    <3>. QED
      <4>. DEFINE new == end.invoices
                  old == acc.invoices
      <4>1. /\ Bucket(seq, old, n - 1) /\ new[n] = x /\ n \in Nat \ {0} /\ x \in PayloadInvoice
            /\ \A m \in 1 .. n - 1 : new[m] = old[m]
        BY <1>4, <1>8, <1>9, <3>1
      <4>. HIDE DEF new, old
      <4>2. Bucket(seq, new, n)
        BY <4>1, BucketAppend
      <4>3. Bucket(Append(seq, x), new, n)
        BY <4>1, BucketAppend
      <4>. QED
        BY <4>2, <4>3 DEF new
  <2>. QED
    BY <1>4, <2>1, <2>2
<1>12. ASSUME NEW seq, Bucket(seq, acc.invoices, n - 1), IdsDiffer(seq),
              \A m \in 1 .. n - 1 : acc.invoices[m].id # x.id
       PROVE  /\ \A i \in DOMAIN seq : seq[i].id # x.id
              /\ IdsDiffer(Append(seq, x))
  <2>1. seq \in Seq(PayloadInvoice) /\ \A i \in DOMAIN seq : seq[i].id # x.id
    BY <1>12 DEF Bucket
  <2>2. x \in PayloadInvoice
    BY <1>4
  <2>. QED
    BY <1>12, <2>1, <2>2, AppendOnce
<1>10. CASE sale
  <2>1. end.purchases = acc.purchases /\ end.sales = Append(acc.sales, x)
    BY <1>2, <1>4, <1>10
  <2>2. Bucket(acc.purchases, acc.invoices, n - 1) /\ Bucket(acc.sales, acc.invoices, n - 1)
    BY DEF BucketInv
  <2>3. \A m \in 1 .. n : \/ \E i \in DOMAIN end.purchases : end.purchases[i] = end.invoices[m]
                          \/ \E i \in DOMAIN end.sales : end.sales[i] = end.invoices[m]
    <3>1. \A i \in DOMAIN acc.sales : i \in DOMAIN end.sales /\ end.sales[i] = acc.sales[i]
      BY <1>9, <2>1, <2>2
    <3>2. \E i \in DOMAIN end.sales : end.sales[i] = end.invoices[n]
      <4>1. /\ Len(acc.sales) + 1 \in DOMAIN end.sales
            /\ end.sales[Len(acc.sales) + 1] = end.invoices[n]
        BY <1>8, <1>9, <2>1, <2>2
      <4>. QED
        BY <4>1
    <3>3. ASSUME NEW m \in 1 .. n - 1
          PROVE  \/ \E i \in DOMAIN end.purchases : end.purchases[i] = end.invoices[m]
                 \/ \E i \in DOMAIN end.sales : end.sales[i] = end.invoices[m]
      BY <1>4, <2>1, <3>1 DEF BucketInv
    <3>. QED
      BY <1>8, <3>2, <3>3
  <2>4. ASSUME IdsDiffer(end.invoices) PROVE Once(end)
    <3>1. /\ IdsDiffer(acc.purchases) /\ IdsDiffer(acc.sales)
          /\ \A i \in DOMAIN acc.purchases, j \in DOMAIN acc.sales :
               acc.purchases[i].id # acc.sales[j].id
      BY <1>5, <2>4 DEF BucketInv, Once
    <3>2. \A m \in 1 .. n - 1 : acc.invoices[m].id # x.id
      BY <1>5, <2>4
    <3>3. /\ \A i \in DOMAIN acc.purchases : acc.purchases[i].id # x.id
          /\ \A i \in DOMAIN acc.sales : acc.sales[i].id # x.id
          /\ IdsDiffer(Append(acc.purchases, x)) /\ IdsDiffer(Append(acc.sales, x))
      BY <1>12, <2>2, <3>1, <3>2
    <3>4. \A i \in DOMAIN end.purchases, j \in DOMAIN end.sales :
            end.purchases[i].id # end.sales[j].id
      BY <1>9, <2>1, <2>2, <3>1, <3>3
    <3>. QED
      BY <2>1, <3>1, <3>3, <3>4 DEF Once
  <2>. QED
    BY <1>7, <1>9, <1>10, <2>1, <2>2, <2>3, <2>4 DEF BucketInv, end, inv
<1>11. CASE ~sale
  <2>1. end.purchases = Append(acc.purchases, x) /\ end.sales = acc.sales
    BY <1>2, <1>4, <1>11
  <2>2. Bucket(acc.purchases, acc.invoices, n - 1) /\ Bucket(acc.sales, acc.invoices, n - 1)
    BY DEF BucketInv
  <2>3. \A m \in 1 .. n : \/ \E i \in DOMAIN end.purchases : end.purchases[i] = end.invoices[m]
                          \/ \E i \in DOMAIN end.sales : end.sales[i] = end.invoices[m]
    <3>1. \A i \in DOMAIN acc.purchases : i \in DOMAIN end.purchases /\ end.purchases[i] = acc.purchases[i]
      BY <1>9, <2>1, <2>2
    <3>2. \E i \in DOMAIN end.purchases : end.purchases[i] = end.invoices[n]
      <4>1. /\ Len(acc.purchases) + 1 \in DOMAIN end.purchases
            /\ end.purchases[Len(acc.purchases) + 1] = end.invoices[n]
        BY <1>8, <1>9, <2>1, <2>2
      <4>. QED
        BY <4>1
    <3>3. ASSUME NEW m \in 1 .. n - 1
          PROVE  \/ \E i \in DOMAIN end.purchases : end.purchases[i] = end.invoices[m]
                 \/ \E i \in DOMAIN end.sales : end.sales[i] = end.invoices[m]
      BY <1>4, <2>1, <3>1 DEF BucketInv
    <3>. QED
      BY <1>8, <3>2, <3>3
  <2>4. ASSUME IdsDiffer(end.invoices) PROVE Once(end)
    <3>1. /\ IdsDiffer(acc.purchases) /\ IdsDiffer(acc.sales)
          /\ \A i \in DOMAIN acc.purchases, j \in DOMAIN acc.sales :
               acc.purchases[i].id # acc.sales[j].id
      BY <1>5, <2>4 DEF BucketInv, Once
    <3>2. \A m \in 1 .. n - 1 : acc.invoices[m].id # x.id
      BY <1>5, <2>4
    <3>3. /\ \A i \in DOMAIN acc.purchases : acc.purchases[i].id # x.id
          /\ \A i \in DOMAIN acc.sales : acc.sales[i].id # x.id
          /\ IdsDiffer(Append(acc.purchases, x)) /\ IdsDiffer(Append(acc.sales, x))
      BY <1>12, <2>2, <3>1, <3>2
    <3>4. \A i \in DOMAIN end.purchases, j \in DOMAIN end.sales :
            end.purchases[i].id # end.sales[j].id
      BY <1>9, <2>1, <2>2, <3>1, <3>3
    <3>. QED
      BY <2>1, <3>1, <3>3, <3>4 DEF Once
  <2>. QED
    BY <1>6, <1>9, <1>11, <2>1, <2>2, <2>3, <2>4 DEF BucketInv, end, inv
<1>. QED
  BY <1>10, <1>11

\* The three invariants, after each round of the loop.
LEMMA LoopInv ==
  ASSUME NEW directory \in Seq(DirectoryRow), NEW type \in ExportTypes,
         NEW invoices \in Seq(Selected)
  PROVE  LET end == Loop(invoices, directory, type)[Len(invoices)]
         IN  /\ CacheInv(end, invoices, directory, Len(invoices))
             /\ MappedInv(end, invoices, Len(invoices))
             /\ BucketInv(end, type, Len(invoices))
<1>. DEFINE L == Loop(invoices, directory, type)
            N == Len(invoices)
            Good(acc, n) == /\ CacheInv(acc, invoices, directory, n)
                            /\ MappedInv(acc, invoices, n) /\ BucketInv(acc, type, n)
            S == {n \in 0 .. N : Good(L[n], n)}
<1>1. N \in Nat /\ L[0] = Start
      /\ \A n \in 1 .. N : L[n] = AddInvoice(L[n - 1], invoices[n], directory, type)
  BY LoopDef
<1>. HIDE DEF L
<1>2. 0 \in S
  <2>1. /\ L[0].cache = <<>> /\ L[0].invoices = <<>>
        /\ L[0].purchases = <<>> /\ L[0].sales = <<>>
    BY <1>1 DEF Start
  <2>2. CacheInv(L[0], invoices, directory, 0)
    BY <2>1 DEF CacheInv
  <2>3. MappedInv(L[0], invoices, 0)
    BY <2>1 DEF MappedInv
  <2>4. BucketInv(L[0], type, 0)
    BY <2>1 DEF BucketInv, Bucket, Once, IdsDiffer
  <2>. QED
    BY <1>1, <2>2, <2>3, <2>4
<1>3. ASSUME NEW n \in 0 .. N - 1, n \in S PROVE n + 1 \in S
  <2>1. Good(L[n], n) /\ n + 1 \in 1 .. N /\ (n + 1) - 1 = n
    BY <1>1, <1>3
  <2>2. L[n + 1] = AddInvoice(L[n], invoices[n + 1], directory, type)
    BY <1>1, <2>1
  <2>3. CacheInv(L[n + 1], invoices, directory, n + 1) /\ MappedInv(L[n + 1], invoices, n + 1)
    BY <2>1, <2>2, CacheStep
  <2>4. BucketInv(L[n + 1], type, n + 1)
    BY <2>1, <2>2, BucketStep
  <2>. QED
    BY <2>1, <2>3, <2>4
<1>4. N \in S
  <2>. HIDE DEF S, N
  <2>1. 0 .. N \subseteq S
    BY <1>1, <1>2, <1>3, Induction
  <2>. QED
    BY <1>1, <2>1
<1>. QED
  BY <1>4 DEF L

\* The buckets of the payload.
LEMMA PayloadBuckets ==
  ASSUME NEW directory \in Seq(DirectoryRow), NEW type \in ExportTypes,
         NEW invoices \in Seq(Selected)
  PROVE  LET b == BuildPayload(invoices, directory, type)
         IN  /\ b.type = type
             /\ IdsDiffer(b.invoices) => IdsDiffer(b.purchases) /\ IdsDiffer(b.sales)
             /\ Range(b.invoices) = IF type = "sales" THEN Range(b.sales) ELSE Range(b.purchases)
             /\ type = "purchases" => b.sales = <<>>
             /\ type = "sales" => b.purchases = <<>>
<1>. DEFINE b   == BuildPayload(invoices, directory, type)
            end == Loop(invoices, directory, type)[Len(invoices)]
            N   == Len(invoices)
            P   == end.purchases
            S   == end.sales
            I   == end.invoices
<1>1. /\ b.type = type /\ b.invoices = I /\ b.sales = S
      /\ b.purchases = IF type = "all" THEN P \o S ELSE P
  BY DEF BuildPayload
<1>2. MappedInv(end, invoices, N) /\ BucketInv(end, type, N)
  BY LoopInv
<1>. HIDE DEF b, end
<1>3. /\ P \in Seq(PayloadInvoice) /\ S \in Seq(PayloadInvoice) /\ I \in Seq(PayloadInvoice)
      /\ DOMAIN I = 1 .. N
  BY <1>2 DEF MappedInv, BucketInv, Bucket
<1>. DEFINE PS == P \o S
<1>4. /\ DOMAIN P = 1 .. Len(P) /\ DOMAIN S = 1 .. Len(S) /\ Len(P) \in Nat /\ Len(S) \in Nat
      /\ DOMAIN PS = 1 .. Len(P) + Len(S)
      /\ \A i \in DOMAIN P : PS[i] = P[i]
      /\ \A i \in DOMAIN S : PS[Len(P) + i] = S[i]
      /\ \A i \in DOMAIN PS : i \notin DOMAIN P => i - Len(P) \in DOMAIN S /\ PS[i] = S[i - Len(P)]
  <2>1. /\ DOMAIN P = 1 .. Len(P) /\ DOMAIN S = 1 .. Len(S) /\ Len(P) \in Nat /\ Len(S) \in Nat
    BY <1>3
  <2>2. /\ DOMAIN PS = 1 .. Len(P) + Len(S)
        /\ \A i \in 1 .. Len(P) + Len(S) :
             PS[i] = IF i <= Len(P) THEN P[i] ELSE S[i - Len(P)]
    <3>. HIDE DEF P, S
    <3>. QED
      BY <1>3
  <2>. HIDE DEF PS, P, S
  <2>3. \A i \in DOMAIN P : PS[i] = P[i]
    BY <2>1, <2>2
  <2>4. \A i \in DOMAIN S : PS[Len(P) + i] = S[i]
    BY <2>1, <2>2
  <2>5. \A i \in DOMAIN PS :
          i \notin DOMAIN P => i - Len(P) \in DOMAIN S /\ PS[i] = S[i - Len(P)]
    BY <2>1, <2>2
  <2>. QED
    BY <2>1, <2>2, <2>3, <2>4, <2>5
<1>5. ASSUME IdsDiffer(I)
      PROVE  /\ IdsDiffer(P) /\ IdsDiffer(S)
             /\ \A i \in DOMAIN P, j \in DOMAIN S : P[i].id # S[j].id
  BY <1>2, <1>5 DEF BucketInv, Once
<1>6. /\ \A i \in DOMAIN P : \E m \in 1 .. N : P[i] = I[m]
      /\ \A i \in DOMAIN S : \E m \in 1 .. N : S[i] = I[m]
      /\ \A m \in 1 .. N : (\E i \in DOMAIN P : P[i] = I[m]) \/ (\E i \in DOMAIN S : S[i] = I[m])
  BY <1>2 DEF BucketInv, Bucket
<1>7. type = "sales" => P = <<>>
  BY <1>2 DEF BucketInv
<1>8. type = "purchases" => S = <<>>
  BY <1>2 DEF BucketInv
<1>. HIDE DEF P, S, I
<1>9. DOMAIN PS = {i : i \in DOMAIN P} \cup {Len(P) + i : i \in DOMAIN S}
  BY <1>4
<1>. HIDE DEF PS
<1>10. ASSUME IdsDiffer(I) PROVE IdsDiffer(PS)
  <2>5. /\ IdsDiffer(P) /\ IdsDiffer(S)
        /\ \A i \in DOMAIN P, j \in DOMAIN S : P[i].id # S[j].id
    BY <1>5, <1>10
  <2>1. ASSUME NEW i \in DOMAIN PS, NEW j \in DOMAIN PS, PS[i].id = PS[j].id
        PROVE  i = j
    <3>1. CASE i \in DOMAIN P /\ j \in DOMAIN P
      BY <1>4, <2>1, <2>5, <3>1 DEF IdsDiffer
    <3>2. CASE i \notin DOMAIN P /\ j \notin DOMAIN P
      <4>1. i - Len(P) = j - Len(P)
        BY <1>4, <2>1, <2>5, <3>2 DEF IdsDiffer
      <4>. QED
        BY <1>4, <4>1
    <3>3. CASE i \in DOMAIN P /\ j \notin DOMAIN P
      BY <1>4, <2>1, <2>5, <3>3
    <3>4. CASE i \notin DOMAIN P /\ j \in DOMAIN P
      BY <1>4, <2>1, <2>5, <3>4
    <3>. QED
      BY <3>1, <3>2, <3>3, <3>4
  <2>. QED
    BY <2>1 DEF IdsDiffer
<1>11. Range(PS) = Range(P) \cup Range(S)
  BY <1>4, <1>9 DEF Range
<1>12. Range(I) = Range(P) \cup Range(S)
  <2>1. ASSUME NEW x \in Range(P) \cup Range(S) PROVE x \in Range(I)
    <3>1. \/ \E i \in DOMAIN P : x = P[i]
          \/ \E i \in DOMAIN S : x = S[i]
      BY DEF Range
    <3>2. PICK m \in 1 .. N : x = I[m]
      BY <1>6, <3>1
    <3>. QED
      BY <1>3, <3>2 DEF Range
  <2>2. Range(I) \subseteq Range(P) \cup Range(S)
    BY <1>3, <1>6 DEF Range
  <2>. QED
    BY <2>1, <2>2
<1>13. CASE type = "all"
  <2>1. IdsDiffer(I) => IdsDiffer(PS) /\ IdsDiffer(S)
    BY <1>5, <1>10
  <2>. QED
    BY <1>1, <1>11, <1>12, <1>13, <2>1 DEF PS, b
<1>14. CASE type = "purchases"
  <2>1. Range(S) = {}
    BY <1>8, <1>14 DEF Range
  <2>. QED
    BY <1>1, <1>5, <1>8, <1>12, <1>14, <2>1 DEF b
<1>15. CASE type = "sales"
  <2>1. Range(P) = {}
    BY <1>7, <1>15 DEF Range
  <2>. QED
    BY <1>1, <1>5, <1>7, <1>12, <1>15, <2>1 DEF b
<1>. QED
  BY <1>13, <1>14, <1>15 DEF ExportTypes

-------------------------------------------------------------------------------
(* The companies of the payload                                            *)

\* PartiesOf runs through the parties of the invoices.
LEMMA PartiesOfRange ==
  ASSUME NEW invoices \in Seq(PayloadInvoice)
  PROVE  /\ Range(PartiesOf(invoices)) = Parties(invoices)
         /\ DOMAIN PartiesOf(invoices) = 1 .. 2 * Len(invoices)
<1>. DEFINE p == PartiesOf(invoices)
            N == Len(invoices)
<1>1. N \in Nat /\ DOMAIN invoices = 1 .. N /\ DOMAIN p = 1 .. 2 * N
  BY DEF PartiesOf
<1>2. \A m \in 1 .. 2 * N :
        p[m] = IF m % 2 = 1 THEN invoices[(m + 1) \div 2].from ELSE invoices[m \div 2].to
  BY DEF PartiesOf
<1>3. \A n \in 1 .. N :
        /\ 2 * n - 1 \in 1 .. 2 * N /\ (2 * n - 1) % 2 = 1 /\ ((2 * n - 1) + 1) \div 2 = n
        /\ 2 * n \in 1 .. 2 * N /\ (2 * n) % 2 # 1 /\ (2 * n) \div 2 = n
  BY <1>1
<1>4. \A m \in 1 .. 2 * N :
        /\ m % 2 = 1 => (m + 1) \div 2 \in 1 .. N
        /\ m % 2 # 1 => m \div 2 \in 1 .. N
  BY <1>1
<1>. HIDE DEF p, N
<1>5. ASSUME NEW x \in Range(p) PROVE x \in Parties(invoices)
  <2>1. PICK m \in 1 .. 2 * N : x = p[m]
    BY <1>1 DEF Range
  <2>. QED
    BY <1>1, <1>2, <1>4, <2>1 DEF Parties
<1>6. ASSUME NEW x \in Parties(invoices) PROVE x \in Range(p)
  <2>1. PICK n \in 1 .. N : x = invoices[n].from \/ x = invoices[n].to
    BY <1>1 DEF Parties
  <2>2. p[2 * n - 1] = invoices[n].from /\ p[2 * n] = invoices[n].to
    BY <1>2, <1>3
  <2>. QED
    BY <1>1, <1>3, <2>1, <2>2 DEF Range
<1>. QED
  BY <1>1, <1>5, <1>6 DEF p, N

\* The set has one company for every key that a party has.
LEMMA CompanySetEffect ==
  ASSUME NEW invoices \in Seq(PayloadInvoice)
  PROVE  /\ CompanySet(invoices) \subseteq Parties(invoices)
         /\ \A p \in Parties(invoices) :
              \E c \in CompanySet(invoices) : CompanyKey(c) = CompanyKey(p)
         /\ \A c, d \in CompanySet(invoices) : CompanyKey(c) = CompanyKey(d) => c = d
<1>. DEFINE p == PartiesOf(invoices)
            M == 2 * Len(invoices)
            latest(n) == \A m \in DOMAIN p : CompanyKey(p[m]) = CompanyKey(p[n]) => m <= n
            C == CompanySet(invoices)
<1>1. M \in Nat /\ DOMAIN p = 1 .. M /\ Range(p) = Parties(invoices)
  BY PartiesOfRange
<1>2. C = {p[n] : n \in {m \in DOMAIN p : latest(m)}}
  BY DEF CompanySet
<1>. HIDE DEF p, M, C
<1>3. C \subseteq Parties(invoices)
  BY <1>1, <1>2 DEF Range
<1>4. ASSUME NEW x \in Parties(invoices)
      PROVE  \E c \in C : CompanyKey(c) = CompanyKey(x)
  <2>1. PICK m \in 1 .. M : x = p[m]
    BY <1>1 DEF Range
  <2>. DEFINE S == {n \in 1 .. M : CompanyKey(p[n]) = CompanyKey(x)}
  <2>2. S \in SUBSET (1 .. M) /\ S # {}
    BY <2>1
  <2>3. Max(S) \in S /\ \A n \in S : n <= Max(S)
    <3>. HIDE DEF S
    <3>. QED
      BY <1>1, <2>2, LargestOf
  <2>4. Max(S) \in DOMAIN p /\ latest(Max(S)) /\ CompanyKey(p[Max(S)]) = CompanyKey(x)
    BY <1>1, <2>3
  <2>. QED
    BY <1>2, <2>4
<1>5. ASSUME NEW c \in C, NEW d \in C, CompanyKey(c) = CompanyKey(d) PROVE c = d
  <2>1. PICK m \in DOMAIN p : c = p[m] /\ latest(m)
    BY <1>2
  <2>2. PICK n \in DOMAIN p : d = p[n] /\ latest(n)
    BY <1>2
  <2>3. m <= n /\ n <= m
    BY <1>5, <2>1, <2>2
  <2>. QED
    BY <1>1, <2>1, <2>2, <2>3
<1>. QED
  BY <1>3, <1>4, <1>5 DEF C

\* A party of the payload is on the side of an invoice that its record says.
LEMMA PartyRecords ==
  ASSUME NEW directory \in Seq(DirectoryRow), NEW type \in ExportTypes,
         NEW invoices \in Seq(Selected)
  PROVE  LET I == BuildPayload(invoices, directory, type).invoices
         IN  /\ I \in Seq(PayloadInvoice)
             /\ \A r \in Parties(I) :
                  /\ \E p \in Party, b \in BOOLEAN : r = NewCompany(p, b, directory)
                  /\ r.internal \in BOOLEAN
                  /\ r.internal => r.id \in {I[n].from.id : n \in DOMAIN I}
                  /\ ~r.internal => r.id \in {I[n].to.id : n \in DOMAIN I}
<1>. DEFINE end == Loop(invoices, directory, type)[Len(invoices)]
            I   == BuildPayload(invoices, directory, type).invoices
            N   == Len(invoices)
<1>1. I = end.invoices
  BY DEF BuildPayload
<1>2. CacheInv(end, invoices, directory, N) /\ MappedInv(end, invoices, N)
  BY LoopInv
<1>. HIDE DEF end, I
<1>3. /\ I \in Seq(PayloadInvoice) /\ DOMAIN I = 1 .. N
  BY <1>1, <1>2 DEF MappedInv
<1>4. ASSUME NEW m \in 1 .. N
      PROVE  /\ SellerKey(invoices[m]) \in DOMAIN end.cache
             /\ BuyerKey(invoices[m]) \in DOMAIN end.cache
             /\ I[m].from = end.cache[SellerKey(invoices[m])]
             /\ I[m].to = end.cache[BuyerKey(invoices[m])]
  <2>1. \A inv, from, to : MapInvoice(inv, from, to).from = from /\ MapInvoice(inv, from, to).to = to
    BY DEF MapInvoice
  <2>. QED
    BY <1>1, <1>2, <2>1 DEF MappedInv
<1>5. ASSUME NEW r \in Parties(I)
      PROVE  /\ \E p \in Party, b \in BOOLEAN : r = NewCompany(p, b, directory)
             /\ r.internal \in BOOLEAN
             /\ r.internal => r.id \in {I[n].from.id : n \in DOMAIN I}
             /\ ~r.internal => r.id \in {I[n].to.id : n \in DOMAIN I}
  <2>1. PICK k \in DOMAIN end.cache : r = end.cache[k]
    BY <1>3, <1>4 DEF Parties
  <2>2. PICK m \in 1 .. N :
          \/ k = SellerKey(invoices[m]) /\ r = NewCompany(invoices[m].seller, TRUE, directory)
          \/ k = BuyerKey(invoices[m]) /\ r = NewCompany(invoices[m].buyer, FALSE, directory)
    BY <1>2, <2>1 DEF CacheInv, Origin
  <2>3. invoices[m].seller \in Party /\ invoices[m].buyer \in Party
    <3>1. invoices[m] \in Selected
      OBVIOUS
    <3>. QED
      BY <3>1 DEF Selected
  <2>4. CASE k = SellerKey(invoices[m]) /\ r = NewCompany(invoices[m].seller, TRUE, directory)
    <3>1. r.internal = TRUE
      BY <2>3, <2>4, NewCompanyEffect
    <3>2. r = I[m].from
      BY <1>4, <2>1, <2>4
    <3>. QED
      BY <1>3, <2>3, <2>4, <3>1, <3>2
  <2>5. CASE k = BuyerKey(invoices[m]) /\ r = NewCompany(invoices[m].buyer, FALSE, directory)
    <3>1. r.internal = FALSE
      BY <2>3, <2>5, NewCompanyEffect
    <3>2. r = I[m].to
      BY <1>4, <2>1, <2>5
    <3>. QED
      BY <1>3, <2>3, <2>5, <3>1, <3>2
  <2>. QED
    BY <2>2, <2>4, <2>5
<1>. QED
  BY <1>3, <1>5 DEF I

\* The parties of a payload are kept apart, as PartiesKeptApart states it.
LEMMA PayloadParties ==
  ASSUME NEW directory \in Seq(DirectoryRow), IdsDiffer(directory), VatsDiffer(directory),
         NEW type \in ExportTypes, NEW invoices \in Seq(Selected)
  PROVE  LET b == BuildPayload(invoices, directory, type)
             sellers == {b.invoices[n].from.id : n \in DOMAIN b.invoices}
             buyers  == {b.invoices[n].to.id : n \in DOMAIN b.invoices}
             codes   == \A p, q \in Parties(b.invoices) :
                          p.code # "" /\ p.code = q.code => p.id = q.id
         IN  /\ \A c, d \in b.companies : c.id = d.id => c = d
             /\ codes =>
                  /\ {c.id : c \in b.companies} = sellers \cup buyers
                  /\ sellers \cap buyers = {} =>
                       /\ {c.id : c \in b.suppliers} = sellers
                       /\ {c.id : c \in b.customers} = buyers
<1>. DEFINE b == BuildPayload(invoices, directory, type)
            I == b.invoices
            C == b.companies
            sellers == {I[n].from.id : n \in DOMAIN I}
            buyers  == {I[n].to.id : n \in DOMAIN I}
            codes   == \A p, q \in Parties(I) : p.code # "" /\ p.code = q.code => p.id = q.id
<1>1. /\ C = CompanySet(I)
      /\ b.suppliers = {c \in C : c.internal} /\ b.customers = {c \in C : ~c.internal}
  BY DEF BuildPayload
<1>2. /\ I \in Seq(PayloadInvoice)
      /\ \A r \in Parties(I) :
           /\ \E p \in Party, x \in BOOLEAN : r = NewCompany(p, x, directory)
           /\ r.internal \in BOOLEAN
           /\ r.internal => r.id \in sellers
           /\ ~r.internal => r.id \in buyers
  BY PartyRecords
<1>. HIDE DEF b
<1>3. /\ C \subseteq Parties(I)
      /\ \A p \in Parties(I) : \E c \in C : CompanyKey(c) = CompanyKey(p)
      /\ \A c, d \in C : CompanyKey(c) = CompanyKey(d) => c = d
  BY <1>1, <1>2, CompanySetEffect
<1>4. ASSUME NEW r \in Parties(I), NEW s \in Parties(I)
      PROVE  /\ r.id = s.id => CompanyKey(r) = CompanyKey(s)
             /\ CompanyKey(r) = CompanyKey(s) /\ (codes \/ r.code = "") => r.id = s.id
  <2>1. PICK p \in Party, x \in BOOLEAN : r = NewCompany(p, x, directory)
    BY <1>2
  <2>2. PICK q \in Party, y \in BOOLEAN : s = NewCompany(q, y, directory)
    BY <1>2
  <2>3. /\ r.id = s.id => CompanyKey(r) = CompanyKey(s)
        /\ CompanyKey(r) = CompanyKey(s) /\ r.code = "" => r.id = s.id
    BY <2>1, <2>2, KeyIsId
  <2>4. CompanyKey(r) = CompanyKey(s) /\ r.code # "" => r.code = s.code
    BY DEF CompanyKey
  <2>. QED
    BY <2>3, <2>4
<1>5. codes => \A p \in Parties(I) : \E c \in C : c.id = p.id
  BY <1>3, <1>4
<1>. HIDE DEF codes
<1>6. \A c, d \in C : c.id = d.id => c = d
  BY <1>3, <1>4
<1>7. /\ \A n \in DOMAIN I : I[n].from \in Parties(I) /\ I[n].to \in Parties(I)
      /\ \A r \in Parties(I) : r.id \in sellers \cup buyers
  BY DEF Parties
<1>9. codes => {c.id : c \in C} = sellers \cup buyers
  <2>. SUFFICES ASSUME codes PROVE {c.id : c \in C} = sellers \cup buyers
    OBVIOUS
  <2>1. \A c \in C : c.id \in sellers \cup buyers
    BY <1>3, <1>7
  <2>2. ASSUME NEW x \in sellers \cup buyers PROVE \E c \in C : c.id = x
    BY <1>5, <1>7
  <2>. HIDE DEF sellers, buyers
  <2>. QED
    BY <2>1, <2>2
<1>8. ASSUME codes, sellers \cap buyers = {}
      PROVE  /\ {c.id : c \in b.suppliers} = sellers
             /\ {c.id : c \in b.customers} = buyers
  <2>1. ASSUME NEW c \in b.suppliers PROVE c.id \in sellers
    BY <1>1, <1>2, <1>3
  <2>2. ASSUME NEW c \in b.customers PROVE c.id \in buyers
    BY <1>1, <1>2, <1>3
  <2>3. ASSUME NEW x \in sellers PROVE \E c \in b.suppliers : c.id = x
    <3>1. PICK c \in C : c.id = x
      BY <1>5, <1>7, <1>8
    <3>2. c.internal
      BY <1>2, <1>3, <1>8, <2>3, <3>1
    <3>. QED
      BY <1>1, <3>1, <3>2
  <2>4. ASSUME NEW x \in buyers PROVE \E c \in b.customers : c.id = x
    <3>1. PICK c \in C : c.id = x
      BY <1>5, <1>7, <1>8
    <3>2. ~c.internal
      BY <1>2, <1>3, <1>8, <2>4, <3>1
    <3>. QED
      BY <1>1, <3>1, <3>2
  <2>. HIDE DEF sellers, buyers
  <2>. QED
    BY <2>1, <2>2, <2>3, <2>4
<1>. QED
  BY <1>6, <1>8, <1>9 DEF b, codes

-------------------------------------------------------------------------------
(* The payload: its sums                                                   *)

\* Sums of numbers are numbers.
LEMMA SumsTyped ==
  ASSUME NEW a \in Seq(Int)
  PROVE  Sums(a) [Len(a)] \in Int /\ \A n \in 0 .. Len(a) : Sums(a)[n] \in Int
<1>. DEFINE N == Len(a)
            s == Sums(a)
            S == {n \in 0 .. N : s[n] \in Int}
<1>1. /\ N \in Nat /\ s[0] = 0
      /\ \A n \in 1 .. N : a[n] \in Int /\ s[n] = s[n - 1] + a[n]
  BY SumsDef
<1>. HIDE DEF s, N
<1>2. 0 \in S
  BY <1>1
<1>3. ASSUME NEW n \in 0 .. N - 1, n \in S PROVE n + 1 \in S
  <2>1. n + 1 \in 1 .. N /\ (n + 1) - 1 = n
    BY <1>1
  <2>. QED
    BY <1>1, <1>3, <2>1
<1>4. 0 .. N \subseteq S
  <2>. HIDE DEF S
  <2>. QED
    BY <1>1, <1>2, <1>3, Induction
<1>. QED
  BY <1>1, <1>4 DEF s, N

\* A total of numbers is a number.
LEMMA TotalTyped ==
  ASSUME NEW a \in Seq(Int)
  PROVE  Total(a) \in Int
BY SumsTyped DEF Total

\* With every sign changed the total changes its sign.
LEMMA TotalNegated ==
  ASSUME NEW a \in Seq(Int), NEW b \in Seq(Int), Len(b) = Len(a),
         \A n \in 1 .. Len(a) : b[n] = -a[n]
  PROVE  Total(b) = -Total(a)
<1>. DEFINE N == Len(a)
            s == Sums(a)
            t == Sums(b)
            S == {n \in 0 .. N : t[n] = -s[n]}
<1>1. /\ N \in Nat /\ s[0] = 0 /\ t[0] = 0
      /\ \A n \in 1 .. N : s[n] = s[n - 1] + a[n]
      /\ \A n \in 1 .. N : t[n] = t[n - 1] + b[n]
      /\ \A n \in 1 .. N : a[n] \in Int
  BY SumsDef
<1>2. \A n \in 0 .. N : s[n] \in Int
  BY SumsTyped
<1>. HIDE DEF s, t
<1>3. 0 \in S
  BY <1>1
<1>4. ASSUME NEW n \in 0 .. N - 1, n \in S PROVE n + 1 \in S
  <2>1. n + 1 \in 1 .. N /\ (n + 1) - 1 = n /\ t[n] = -s[n] /\ s[n] \in Int
    BY <1>1, <1>2, <1>4
  <2>2. t[n + 1] = t[n] + b[n + 1] /\ s[n + 1] = s[n] + a[n + 1] /\ a[n + 1] \in Int
        /\ b[n + 1] = -a[n + 1]
    BY <1>1, <2>1
  <2>. QED
    BY <2>1, <2>2
<1>5. 0 .. N \subseteq S
  <2>. HIDE DEF S, N
  <2>. QED
    BY <1>1, <1>3, <1>4, Induction
<1>. QED
  BY <1>1, <1>5 DEF Total, s, t

\* Lines and header with all signs changed are as far apart as before.
LEMMA GapsNegated ==
  ASSUME NEW ls \in Seq(PayloadLine), NEW h, h.net \in Int, h.vat \in Int, h.gross \in Int,
         NEW ms \in Seq(PayloadLine), NEW g,
         Len(ms) = Len(ls), g.net = -h.net, g.vat = -h.vat, g.gross = -h.gross,
         \A n \in 1 .. Len(ls) : /\ ms[n].net = -ls[n].net /\ ms[n].vat = -ls[n].vat
                                 /\ ms[n].gross = -ls[n].gross
  PROVE  \A c \in Int : Beyond(Gaps(ms, g), c) <=> Beyond(Gaps(ls, h), c)
<1>. DEFINE ln == [n \in DOMAIN ls |-> ls[n].net]
            lv == [n \in DOMAIN ls |-> ls[n].vat]
            lg == [n \in DOMAIN ls |-> ls[n].gross]
            mn == [n \in DOMAIN ms |-> ms[n].net]
            mv == [n \in DOMAIN ms |-> ms[n].vat]
            mg == [n \in DOMAIN ms |-> ms[n].gross]
<1>1. /\ \A n \in DOMAIN ls : ls[n].net \in Int /\ ls[n].vat \in Int /\ ls[n].gross \in Int
      /\ \A n \in DOMAIN ms : ms[n].net \in Int /\ ms[n].vat \in Int /\ ms[n].gross \in Int
  <2>1. /\ \A n \in DOMAIN ls : ls[n] \in PayloadLine
        /\ \A n \in DOMAIN ms : ms[n] \in PayloadLine
    OBVIOUS
  <2>. QED
    BY <2>1 DEF PayloadLine
<1>2. /\ ln \in Seq(Int) /\ lv \in Seq(Int) /\ lg \in Seq(Int)
      /\ Len(ln) = Len(ls) /\ Len(lv) = Len(ls) /\ Len(lg) = Len(ls)
  BY <1>1
<1>3. /\ mn \in Seq(Int) /\ mv \in Seq(Int) /\ mg \in Seq(Int)
      /\ Len(mn) = Len(ls) /\ Len(mv) = Len(ls) /\ Len(mg) = Len(ls)
  <2>1. DOMAIN ms = 1 .. Len(ls)
    OBVIOUS
  <2>2. mn \in Seq(Int) /\ Len(mn) = Len(ls)
    BY <1>1, <2>1
  <2>3. mv \in Seq(Int) /\ Len(mv) = Len(ls)
    BY <1>1, <2>1
  <2>4. mg \in Seq(Int) /\ Len(mg) = Len(ls)
    BY <1>1, <2>1
  <2>. QED
    BY <2>2, <2>3, <2>4
<1>4. \A n \in 1 .. Len(ls) : mn[n] = -ln[n] /\ mv[n] = -lv[n] /\ mg[n] = -lg[n]
  OBVIOUS
<1>5. Gaps(ls, h) = {Total(ln) - h.net, Total(lv) - h.vat, Total(lg) - h.gross}
  BY DEF Gaps
<1>6. Gaps(ms, g) = {Total(mn) - g.net, Total(mv) - g.vat, Total(mg) - g.gross}
  BY DEF Gaps
<1>. HIDE DEF ln, lv, lg, mn, mv, mg
<1>7. Total(ln) \in Int /\ Total(lv) \in Int /\ Total(lg) \in Int
  BY <1>2, TotalTyped
<1>8. Total(mn) = -Total(ln)
  BY <1>2, <1>3, <1>4, TotalNegated
<1>9. Total(mv) = -Total(lv)
  BY <1>2, <1>3, <1>4, TotalNegated
<1>10. Total(mg) = -Total(lg)
  BY <1>2, <1>3, <1>4, TotalNegated
<1>11. /\ Total(mn) - g.net = -(Total(ln) - h.net)
       /\ Total(mv) - g.vat = -(Total(lv) - h.vat)
       /\ Total(mg) - g.gross = -(Total(lg) - h.gross)
  BY SMTT(40), <1>7, <1>8, <1>9, <1>10
<1>. DEFINE a == Total(ln) - h.net
            b == Total(lv) - h.vat
            e == Total(lg) - h.gross
<1>12. a \in Int /\ b \in Int /\ e \in Int
  BY <1>7
<1>13. Gaps(ls, h) = {a, b, e} /\ Gaps(ms, g) = {-a, -b, -e}
  BY <1>5, <1>6, <1>11
<1>. HIDE DEF a, b, e
<1>14. ASSUME NEW c \in Int PROVE Beyond({-a, -b, -e}, c) <=> Beyond({a, b, e}, c)
  <2>1. \A v \in Int : v > c \/ -v > c <=> -v > c \/ -(-v) > c
    OBVIOUS
  <2>2. Beyond({a, b, e}, c) <=> (a > c \/ -a > c) \/ (b > c \/ -b > c) \/ (e > c \/ -e > c)
    BY DEF Beyond
  <2>3. Beyond({-a, -b, -e}, c) <=> (-a > c \/ -(-a) > c) \/ (-b > c \/ -(-b) > c) \/ (-e > c \/ -(-e) > c)
    BY DEF Beyond
  <2>. QED
    BY <1>12, <2>1, <2>2, <2>3
<1>. QED
  BY <1>13, <1>14

\* What mapInvoice makes of an invoice is as far apart as the invoice.
LEMMA MappedGaps ==
  ASSUME NEW inv \in Selected, NEW from, NEW to
  PROVE  LET x == MapInvoice(inv, from, to)
         IN  /\ x.id = inv.id
             /\ x.lines = <<>> <=> inv.lines = <<>>
             /\ Beyond(Gaps(x.lines, x), 1) <=> Beyond(StoredGaps(inv), 1)
<1>. DEFINE x  == MapInvoice(inv, from, to)
            ls == [n \in DOMAIN inv.lines |-> MapLine(inv.lines[n], 1)]
            ms == [n \in DOMAIN inv.lines |-> MapLine(inv.lines[n], -1)]
            h  == [net |-> Cents(inv.net), vat |-> Cents(inv.vat), gross |-> Cents(inv.gross)]
<1>1. /\ inv.lines \in Lines /\ inv.net \in Amount /\ inv.vat \in Amount /\ inv.gross \in Amount
      /\ inv.credit \in BOOLEAN
  BY DEF Selected
<1>2. Cents(inv.net) \in Int /\ Cents(inv.vat) \in Int /\ Cents(inv.gross) \in Int
  BY <1>1, CentsTyped
<1>3. /\ inv.lines \in Seq([id : LineIds, described : BOOLEAN, total : Amount, vat : Amount])
      /\ \A n \in DOMAIN inv.lines : inv.lines[n].total \in Amount /\ inv.lines[n].vat \in Amount
  <2>. DEFINE s == inv.lines
              R == [id : LineIds, described : BOOLEAN, total : Amount, vat : Amount]
  <2>1. s \in Seq(R)
    BY <1>1 DEF Lines
  <2>2. \A n \in DOMAIN s : s[n] \in R
    <3>. HIDE DEF s, R
    <3>. QED
      BY <2>1
  <2>. QED
    BY <2>1, <2>2
<1>4. \A n \in DOMAIN inv.lines :
        MapLine(inv.lines[n], 1) \in PayloadLine /\ MapLine(inv.lines[n], -1) \in PayloadLine
  BY <1>3, MapLineTyped
<1>5. /\ ls \in Seq(PayloadLine) /\ ms \in Seq(PayloadLine) /\ Len(ms) = Len(ls)
      /\ DOMAIN inv.lines = 1 .. Len(ls)
  BY <1>3, <1>4
<1>6. StoredGaps(inv) = Gaps(ls, h)
  BY DEF StoredGaps
<1>7. x.id = inv.id /\ DOMAIN x.lines = DOMAIN inv.lines
  BY DEF MapInvoice
<1>8. x.lines = <<>> <=> inv.lines = <<>>
  <2>1. x.lines = IF inv.credit THEN ms ELSE ls
    BY <1>1 DEF MapInvoice
  <2>. HIDE DEF x, ls, ms
  <2>2. x.lines \in Seq(PayloadLine)
    BY <1>5, <2>1
  <2>. QED
    BY <1>3, <1>7, <2>2
<1>9. CASE ~inv.credit
  <2>1. /\ x.lines = ls
        /\ x.net = Cents(inv.net) * 1 /\ x.vat = Cents(inv.vat) * 1
        /\ x.gross = Cents(inv.gross) * 1
    BY <1>9 DEF MapInvoice
  <2>2. x.net = h.net /\ x.vat = h.vat /\ x.gross = h.gross
    BY <1>2, <2>1
  <2>. HIDE DEF x, h, ls
  <2>3. Gaps(x.lines, x) = Gaps(ls, h)
    BY <2>1, <2>2 DEF Gaps
  <2>. QED
    BY <1>6, <1>7, <1>8, <2>3 DEF x
<1>10. CASE inv.credit
  <2>1. /\ x.lines = ms
        /\ x.net = Cents(inv.net) * (-1) /\ x.vat = Cents(inv.vat) * (-1)
        /\ x.gross = Cents(inv.gross) * (-1)
    BY <1>10 DEF MapInvoice
  <2>2. x.net = -h.net /\ x.vat = -h.vat /\ x.gross = -h.gross
    BY <1>2, <2>1
  <2>3. h.net \in Int /\ h.vat \in Int /\ h.gross \in Int
    BY <1>2
  <2>4. \A n \in 1 .. Len(ls) : /\ ms[n].net = -ls[n].net /\ ms[n].vat = -ls[n].vat
                                /\ ms[n].gross = -ls[n].gross
    <3>1. ASSUME NEW line, line.total \in Amount, line.vat \in Amount
          PROVE  /\ MapLine(line, -1).net = -MapLine(line, 1).net
                 /\ MapLine(line, -1).vat = -MapLine(line, 1).vat
                 /\ MapLine(line, -1).gross = -MapLine(line, 1).gross
      <4>1. Cents(line.total) \in Int /\ Cents(line.vat) \in Int
        BY <3>1, CentsTyped
      <4>. QED
        BY <4>1 DEF MapLine
    <3>2. \A n \in 1 .. Len(ls) : ms[n] = MapLine(inv.lines[n], -1) /\ ls[n] = MapLine(inv.lines[n], 1)
      BY <1>5
    <3>. QED
      BY <1>3, <1>5, <3>1, <3>2
  <2>. HIDE DEF x, h, ls, ms
  <2>5. Beyond(Gaps(ms, x), 1) <=> Beyond(Gaps(ls, h), 1)
    <3>1. /\ ls \in Seq(PayloadLine) /\ ms \in Seq(PayloadLine) /\ Len(ms) = Len(ls)
      BY <1>5
    <3>. QED
      BY SMTT(40), <2>2, <2>3, <2>4, <3>1, GapsNegated
  <2>. QED
    BY <1>6, <1>7, <1>8, <2>1, <2>5 DEF x
<1>. QED
  BY <1>1, <1>9, <1>10

\* The lines of a payload add up, as LinesAddUp states it.
LEMMA PayloadAddsUp ==
  ASSUME NEW directory \in Seq(DirectoryRow), NEW type \in ExportTypes,
         NEW invoices \in Seq(Selected),
         NEW W \in Reconciled(invoices)
  PROVE  \A x \in Range(BuildPayload(invoices, directory, type).invoices) :
           x.id \in W \/ x.lines = <<>> \/ ~Beyond(Gaps(x.lines, x), 1)
<1>. DEFINE end == Loop(invoices, directory, type)[Len(invoices)]
            I   == BuildPayload(invoices, directory, type).invoices
            N   == Len(invoices)
<1>1. I = end.invoices
  BY DEF BuildPayload
<1>2. MappedInv(end, invoices, N)
  BY LoopInv
<1>. HIDE DEF end, I
<1>3. ASSUME NEW x \in Range(I)
      PROVE  x.id \in W \/ x.lines = <<>> \/ ~Beyond(Gaps(x.lines, x), 1)
  <2>1. PICK m \in 1 .. N : x = I[m]
    BY <1>1, <1>2 DEF MappedInv, Range
  <2>. DEFINE inv == invoices[m]
  <2>2. inv \in Selected /\ inv \in Range(invoices)
    BY DEF Range
  <2>3. PICK from, to : x = MapInvoice(inv, from, to)
    BY <1>1, <1>2, <2>1 DEF MappedInv
  <2>4. /\ x.id = inv.id /\ (x.lines = <<>> <=> inv.lines = <<>>)
        /\ Beyond(Gaps(x.lines, x), 1) <=> Beyond(StoredGaps(inv), 1)
    BY <2>2, <2>3, MappedGaps
  <2>5. inv.lines # <<>> /\ Beyond(StoredGaps(inv), 1) => inv.id \in W
    BY <2>2 DEF Reconciled
  <2>. HIDE DEF inv
  <2>. QED
    BY <2>4, <2>5
<1>. QED
  BY <1>3 DEF I

-------------------------------------------------------------------------------
(* The form                                                                *)

FormLine == [id : LineIds, described : BOOLEAN, total : Amount, vat : Amount]

TableRow == [index : Nat, id : LineIds, described : BOOLEAN, total : Typed, vat : Typed]

\* What a field of the page holds reads as the amount it says, if it says one.
Read(t) ==
  /\ t \in Typed /\ ParseCents(t.text) \in Amount
  /\ t.cents # Nil => ParseCents(t.text) = t.cents

FormTypeInv ==
  /\ lines \in Seq(FormLine) /\ Len(lines) <= MaxRows /\ gross \in Amount
  /\ table \in Seq(TableRow) /\ Len(table) <= MaxRows
  /\ open \in BOOLEAN /\ removed \in BOOLEAN
  /\ open => field \in Typed

IndexInv ==
  /\ \A n \in DOMAIN table : table[n].index < MaxRows
  /\ removed \/ \A n \in DOMAIN table : table[n].index = n - 1

ReadInv ==
  /\ open => Read(field)
  /\ \A n \in DOMAIN table : Read(table[n].total) /\ Read(table[n].vat)

FormInv == FormTypeInv /\ IndexInv /\ ReadInv

\* The page shows an amount in the characters that Parse knows.
LEMMA RenderedTyped ==
  ASSUME NEW v \in Amount
  PROVE  Rendered(v) \in Seq(Char)
<1>. DEFINE n == Magnitude(Cents(v)) \div 100
            f == Fraction(Magnitude(Cents(v)), Dot, 2)
            d == DigitsOf[n]
            s == Sign(Cents(v))
<1>1. Magnitude(Cents(v)) \in Nat /\ n \in Nat /\ Dot \in {Comma, Dot}
  BY CentsTyped DEF Magnitude
<1>2. f \in Seq(Char)
  BY SMTT(40), <1>1, FractionDecimals DEF Decimals
<1>3. d \in Seq(Char)
  <2>1. d \in Seq(Digit)
    BY <1>1, DigitsOfTyped
  <2>. HIDE DEF d
  <2>2. \A i \in 1 .. Len(d) : d[i] \in Char
    <3>1. \A i \in 1 .. Len(d) : d[i] \in Digit
      BY <2>1
    <3>. QED
      BY <3>1, CharFacts
  <2>. QED
    BY <2>1, <2>2
<1>4. s \in Seq(Char)
  BY CharFacts DEF Sign
<1>5. Rendered(v) = s \o d \o f
  BY DEF Rendered, TwoPlaces, Cents
<1>. HIDE DEF s, d, f
<1>. QED
  BY <1>2, <1>3, <1>4, <1>5

\* What the page shows reads as the amount it shows.
LEMMA ShownRead ==
  ASSUME NEW v \in Amount
  PROVE  Shown(v) \in Typed /\ Read(Shown(v))
<1>1. Cents(v) \in Amount
  BY CentsTyped DEF Amount
<1>2. Shown(v) \in Typed
  BY RenderedTyped DEF Shown, Typed
<1>3. v # Nil => Cents(v) = v
  BY DEF Cents
<1>4. ParseCents(Rendered(v)) = Cents(v)
  BY RenderedReadsBack
<1>. QED
  BY <1>1, <1>2, <1>3, <1>4 DEF Shown, Read

\* What a reviewer types is read as it is meant.
LEMMA MeantRead ==
  ASSUME NEW t \in Totals \cup Grosses
  PROVE  t \in Typed /\ Read(t)
<1>1. t \in Typed /\ Meant(t)
  BY InvoiceAssumption
<1>2. CASE t.text = <<>> /\ t.cents = Nil
  <2>1. Without(<<>>, Space) = <<>> /\ Without(<<>>, Apostrophe) = <<>>
    <3>1. <<>> \in Seq(Char) /\ DOMAIN <<>> = {}
      OBVIOUS
    <3>. QED
      BY <3>1, WithoutAbsent
  <2>2. \A c : LastPlace(<<>>, c) = 0
    <3>1. <<>> \in Seq(Char) /\ DOMAIN <<>> = {}
      OBVIOUS
    <3>. QED
      BY <3>1, LastPlaceEffect
  <2>3. Canonical(<<>>) = <<>>
    <3>1. ~(LastPlace(<<>>, Comma) > 0) /\ ~(LastPlace(<<>>, Dot) > 0)
      BY <2>2
    <3>. QED
      BY <3>1 DEF Canonical, LastPlace
  <2>4. ~IsNumber(<<>>)
    BY DEF IsNumber
  <2>5. ParseCents(<<>>) = Nil
    BY <2>1, <2>3, <2>4 DEF ParseCents
  <2>. QED
    BY <1>1, <1>2, <2>5 DEF Read, Amount
<1>3. CASE t.cents \in Int /\ Says(t.text, t.cents)
  BY <1>1, <1>3, AmountsReadBack DEF Read, Amount
<1>. QED
  BY <1>1, <1>2, <1>3 DEF Meant

\* There are N numbers from 1 to N.
LEMMA RowCount ==
  ASSUME NEW N \in Nat
  PROVE  IsFiniteSet(1 .. N) /\ Cardinality(1 .. N) = N
<1>1. IsFiniteSet(1 .. N) /\ Cardinality(1 .. N) = IF 1 > N THEN 0 ELSE N - 1 + 1
  BY FS_Interval
<1>. QED
  BY <1>1

\* There is an id that no row has.
LEMMA FreshIdExists ==
  ASSUME FormTypeInv
  PROVE  FreshId \in LineIds
<1>. DEFINE A == {table[n].id : n \in DOMAIN table}
            B == {lines[n].id : n \in DOMAIN lines}
<1>1. /\ Len(table) \in Nat /\ Len(table) <= MaxRows /\ DOMAIN table = 1 .. Len(table)
      /\ Len(lines) \in Nat /\ Len(lines) <= MaxRows /\ DOMAIN lines = 1 .. Len(lines)
  BY DEF FormTypeInv
<1>2. IsFiniteSet(A) /\ Cardinality(A) \in Nat /\ Cardinality(A) <= MaxRows
  <2>. DEFINE I == 1 .. Len(table)
              F == [n \in I |-> table[n].id]
  <2>1. IsFiniteSet(I) /\ Cardinality(I) = Len(table)
    BY <1>1, RowCount
  <2>2. A = {F[n] : n \in I}
    BY <1>1
  <2>3. F \in Surjection(I, A)
    BY <2>2 DEF Surjection
  <2>. HIDE DEF A, I, F
  <2>4. IsFiniteSet(A) /\ Cardinality(A) <= Cardinality(I)
    BY <2>1, <2>3, FS_Surjection
  <2>5. Cardinality(A) \in Nat
    BY <2>4, FS_CardinalityType
  <2>. QED
    BY <1>1, <2>1, <2>4, <2>5, BoundAssumption
<1>3. IsFiniteSet(B) /\ Cardinality(B) \in Nat /\ Cardinality(B) <= MaxRows
  <2>. DEFINE I == 1 .. Len(lines)
              F == [n \in I |-> lines[n].id]
  <2>1. IsFiniteSet(I) /\ Cardinality(I) = Len(lines)
    BY <1>1, RowCount
  <2>2. B = {F[n] : n \in I}
    BY <1>1
  <2>3. F \in Surjection(I, B)
    BY <2>2 DEF Surjection
  <2>. HIDE DEF B, I, F
  <2>4. IsFiniteSet(B) /\ Cardinality(B) <= Cardinality(I)
    BY <2>1, <2>3, FS_Surjection
  <2>5. Cardinality(B) \in Nat
    BY <2>4, FS_CardinalityType
  <2>. QED
    BY <1>1, <2>1, <2>4, <2>5, BoundAssumption
<1>. HIDE DEF A, B
<1>4. /\ IsFiniteSet(A \cup B) /\ Cardinality(A \cup B) \in Nat
      /\ Cardinality(A \cup B) <= 2 * MaxRows
  <2>1. IsFiniteSet(A \cup B) /\ IsFiniteSet(A \cap B)
    BY <1>2, <1>3, FS_Union, FS_Intersection
  <2>2. Cardinality(A \cup B) = Cardinality(A) + Cardinality(B) - Cardinality(A \cap B)
    BY <1>2, <1>3, FS_Union
  <2>3. Cardinality(A \cup B) \in Nat /\ Cardinality(A \cap B) \in Nat
    BY <2>1, FS_CardinalityType
  <2>. QED
    BY <1>2, <1>3, <2>1, <2>2, <2>3, BoundAssumption
<1>5. ~(LineIds \subseteq A \cup B)
  <2>. SUFFICES ASSUME LineIds \subseteq A \cup B PROVE FALSE
    OBVIOUS
  <2>1. IsFiniteSet(LineIds) /\ Cardinality(LineIds) <= Cardinality(A \cup B)
    BY <1>4, FS_Subset
  <2>2. Cardinality(LineIds) \in Nat
    BY <2>1, FS_CardinalityType
  <2>3. Cardinality(LineIds) > 2 * MaxRows
    BY <2>1, IdAssumption
  <2>. QED
    BY <1>4, <2>1, <2>2, <2>3, BoundAssumption
<1>6. \E id \in LineIds : /\ \A n \in DOMAIN table : table[n].id # id
                          /\ \A n \in DOMAIN lines : lines[n].id # id
  BY <1>5 DEF A, B
<1>. QED
  BY <1>6 DEF FreshId

\* The invariant holds before the page is opened.
LEMMA FormInitInv == FormInit => FormInv
<1>. SUFFICES ASSUME FormInit PROVE FormInv
  OBVIOUS
<1>1. PICK r \in Readings : lines = r.lines /\ gross = r.gross
  BY DEF FormInit
<1>2. lines \in Lines /\ Len(lines) <= MaxRows /\ gross \in Amount
  BY <1>1, InvoiceAssumption
<1>3. open = FALSE /\ removed = FALSE /\ table = <<>>
  BY DEF FormInit
<1>4. FormTypeInv
  <2>1. <<>> \in Seq(TableRow) /\ Len(<<>>) = 0
    OBVIOUS
  <2>2. lines \in Seq(FormLine)
    BY <1>2 DEF Lines, FormLine
  <2>3. table \in Seq(TableRow) /\ Len(table) = 0 /\ Len(table) <= MaxRows
    BY <1>3, <2>1, BoundAssumption
  <2>4. open \in BOOLEAN /\ removed \in BOOLEAN /\ ~open
    BY <1>3
  <2>. QED
    BY <1>2, <2>2, <2>3, <2>4 DEF FormTypeInv
<1>5. DOMAIN table = {}
  BY <1>3
<1>. QED
  BY <1>3, <1>4, <1>5 DEF FormInv, IndexInv, ReadInv

\* RemoveAt drops one item and keeps the others.
LEMMA RemoveEffect ==
  ASSUME NEW T, NEW s \in Seq(T), NEW n \in DOMAIN s
  PROVE  /\ RemoveAt(s, n) \in Seq(T) /\ Len(RemoveAt(s, n)) = Len(s) - 1
         /\ \A i \in DOMAIN RemoveAt(s, n) : \E j \in DOMAIN s : RemoveAt(s, n)[i] = s[j]
<1>. DEFINE a == SubSeq(s, 1, n - 1)
            b == SubSeq(s, n + 1, Len(s))
            r == a \o b
<1>1. RemoveAt(s, n) = r
  BY DEF RemoveAt
<1>2. n \in 1 .. Len(s) /\ Len(s) \in Nat
  OBVIOUS
<1>3. a \in Seq(T) /\ Len(a) = n - 1 /\ \A i \in 1 .. n - 1 : a[i] = s[i]
  BY <1>2
<1>4. b \in Seq(T) /\ Len(b) = Len(s) - n /\ \A i \in 1 .. Len(s) - n : b[i] = s[n + i]
  BY <1>2
<1>. HIDE DEF a, b
<1>5. /\ r \in Seq(T) /\ Len(r) = Len(s) - 1 /\ DOMAIN r = 1 .. Len(s) - 1
      /\ \A i \in 1 .. n - 1 : r[i] = a[i]
      /\ \A i \in n .. Len(s) - 1 : r[i] = b[i - (n - 1)]
  BY <1>2, <1>3, <1>4
<1>. HIDE DEF r
<1>6. ASSUME NEW i \in DOMAIN r PROVE \E j \in DOMAIN s : r[i] = s[j]
  <2>1. CASE i \in 1 .. n - 1
    <3>1. i \in DOMAIN s /\ r[i] = s[i]
      BY <1>2, <1>3, <1>5, <2>1
    <3>. QED
      BY <3>1
  <2>2. CASE i \in n .. Len(s) - 1
    <3>1. i - (n - 1) \in 1 .. Len(s) - n /\ n + (i - (n - 1)) = i + 1 /\ i + 1 \in DOMAIN s
      BY <1>2, <2>2
    <3>2. r[i] = s[i + 1]
      BY <1>4, <1>5, <2>2, <3>1
    <3>. QED
      BY <3>1, <3>2
  <2>. QED
    BY <1>2, <1>5, <2>1, <2>2
<1>. QED
  BY <1>1, <1>5, <1>6

\* What the two loops over the form's rows need to know of a row.
Good(r, n) == /\ r \in TableRow /\ r.index < MaxRows
              /\ Read(r.total) /\ Read(r.vat)

\* The invariant makes every row of the table a good one.
LEMMA GoodRows ==
  ASSUME FormInv
  PROVE  \A n \in DOMAIN table : Good(table[n], n)
BY DEF FormInv, FormTypeInv, IndexInv, ReadInv, Good

\* A new table of good rows keeps the invariant.
LEMMA TableStep ==
  ASSUME FormInv, lines' = lines, gross' = gross, open' = open,
         table' \in Seq(TableRow), Len(table') <= MaxRows,
         \A n \in DOMAIN table' : Good(table'[n], n),
         removed' \in BOOLEAN, open => field' \in Typed /\ Read(field'),
         removed' \/ \A n \in DOMAIN table' : table'[n].index = n - 1
  PROVE  FormInv'
<1>1. FormTypeInv'
  BY DEF FormInv, FormTypeInv
<1>2. IndexInv'
  BY DEF IndexInv, Good
<1>3. ReadInv'
  BY DEF FormInv, FormTypeInv, ReadInv, Good
<1>. QED
  BY <1>1, <1>2, <1>3 DEF FormInv

\* A page opens with the rows numbered from zero and the stored amounts shown.
LEMMA OpenPageInv ==
  ASSUME FormInv, OpenPage
  PROVE  FormInv'
<1>. DEFINE Row(n) == [index |-> n - 1, id |-> lines[n].id, described |-> lines[n].described,
                       total |-> Shown(lines[n].total), vat |-> Shown(lines[n].vat)]
<1>1. /\ lines \in Seq(FormLine) /\ Len(lines) \in Nat /\ Len(lines) <= MaxRows /\ gross \in Amount
      /\ DOMAIN lines = 1 .. Len(lines)
  BY DEF FormInv, FormTypeInv
<1>2. /\ lines' = lines /\ gross' = gross /\ open' = TRUE /\ removed' = FALSE
      /\ table' = [n \in DOMAIN lines |-> Row(n)] /\ field' = Shown(gross)
  BY DEF OpenPage, stored
<1>3. ASSUME NEW n \in 1 .. Len(lines) PROVE Good(Row(n), n) /\ Row(n).index = n - 1
  <2>. DEFINE l == lines[n]
  <2>1. l \in FormLine
    BY <1>1
  <2>2. l.id \in LineIds /\ l.described \in BOOLEAN /\ l.total \in Amount /\ l.vat \in Amount
    BY <2>1 DEF FormLine
  <2>3. /\ Shown(l.total) \in Typed /\ Read(Shown(l.total))
        /\ Shown(l.vat) \in Typed /\ Read(Shown(l.vat))
    BY <2>2, ShownRead
  <2>4. n - 1 \in Nat /\ n - 1 < MaxRows
    BY <1>1, BoundAssumption
  <2>. QED
    BY <2>2, <2>3, <2>4 DEF Good, TableRow
<1>. HIDE DEF Row
<1>4. /\ DOMAIN table' = 1 .. Len(lines)
      /\ \A n \in DOMAIN table' : Good(table'[n], n) /\ table'[n].index = n - 1
  BY <1>1, <1>2, <1>3
<1>5. table' \in Seq(TableRow) /\ Len(table') = Len(lines)
  <2>1. \A n \in 1 .. Len(lines) : Row(n) \in TableRow
    BY <1>3 DEF Good
  <2>. QED
    BY <1>1, <1>2, <2>1
<1>6. field' \in Typed /\ Read(field')
  BY <1>1, <1>2, ShownRead
<1>7. FormTypeInv'
  BY <1>1, <1>2, <1>5, <1>6 DEF FormTypeInv
<1>8. IndexInv'
  BY <1>4 DEF IndexInv, Good
<1>9. ReadInv'
  BY <1>4, <1>6 DEF ReadInv, Good
<1>. QED
  BY <1>7, <1>8, <1>9 DEF FormInv

\* A new row gets the next index and a fresh id.
LEMMA AddRowInv ==
  ASSUME FormInv, AddRow
  PROVE  FormInv'
<1>. DEFINE new == NewRow(Len(table), FreshId)
<1>1. /\ table \in Seq(TableRow) /\ Len(table) \in Nat /\ Len(table) < MaxRows
      /\ DOMAIN table = 1 .. Len(table)
      /\ removed \in BOOLEAN /\ (open => field \in Typed)
  BY BoundAssumption DEF FormInv, FormTypeInv, AddRow
<1>2. /\ lines' = lines /\ gross' = gross /\ open' = open /\ removed' = removed /\ field' = field
      /\ table' = Append(table, new)
  BY DEF AddRow, stored
<1>3. Good(new, 0) /\ new.index = Len(table)
  <2>1. 0 \in Amount /\ FreshId \in LineIds
    BY FreshIdExists DEF Amount, FormInv
  <2>2. Shown(0) \in Typed /\ Read(Shown(0))
    BY <2>1, ShownRead
  <2>. QED
    BY <1>1, <2>1, <2>2 DEF Good, NewRow, TableRow
<1>. HIDE DEF new
<1>4. new \in TableRow
  BY <1>3 DEF Good
<1>5. /\ table' \in Seq(TableRow) /\ Len(table') = Len(table) + 1
      /\ DOMAIN table' = 1 .. Len(table) + 1 /\ table'[Len(table) + 1] = new
      /\ \A n \in 1 .. Len(table) : table'[n] = table[n]
  BY <1>1, <1>2, <1>4
<1>6. \A n \in DOMAIN table' : Good(table'[n], n)
  <2>1. \A n \in DOMAIN table' : n \in DOMAIN table \/ n = Len(table) + 1
    BY <1>1, <1>5
  <2>2. \A n \in DOMAIN table : Good(table[n], n)
    BY GoodRows
  <2>. QED
    BY <1>1, <1>3, <1>5, <2>1, <2>2 DEF Good
<1>7. removed' \/ \A n \in DOMAIN table' : table'[n].index = n - 1
  <2>1. removed \/ \A n \in DOMAIN table : table[n].index = n - 1
    BY DEF FormInv, IndexInv
  <2>2. \A n \in DOMAIN table' : n \in DOMAIN table \/ n = Len(table) + 1
    BY <1>1, <1>5
  <2>3. Len(table) = (Len(table) + 1) - 1
    BY <1>1
  <2>. QED
    BY <1>1, <1>2, <1>3, <1>5, <2>1, <2>2, <2>3
<1>8. Len(table') <= MaxRows
  BY <1>1, <1>5, BoundAssumption
<1>9. open => field' \in Typed /\ Read(field')
  BY <1>1, <1>2 DEF FormInv, ReadInv
<1>. QED
  BY <1>1, <1>2, <1>5, <1>6, <1>7, <1>8, <1>9, TableStep

\* The other rows stay as they are.
LEMMA RemoveRowInv ==
  ASSUME FormInv, NEW n, RemoveRow(n)
  PROVE  FormInv'
<1>1. /\ table \in Seq(TableRow) /\ Len(table) \in Nat /\ Len(table) <= MaxRows
      /\ n \in DOMAIN table /\ (open => field \in Typed)
  BY DEF FormInv, FormTypeInv, RemoveRow
<1>2. /\ lines' = lines /\ gross' = gross /\ open' = open /\ removed' = TRUE /\ field' = field
      /\ table' = RemoveAt(table, n)
  BY DEF RemoveRow, stored
<1>3. /\ table' \in Seq(TableRow) /\ Len(table') = Len(table) - 1
      /\ \A i \in DOMAIN table' : \E j \in DOMAIN table : table'[i] = table[j]
  BY <1>1, <1>2, RemoveEffect
<1>4. \A i \in DOMAIN table' : Good(table'[i], i)
  BY <1>3, GoodRows DEF Good
<1>5. Len(table') <= MaxRows
  BY <1>1, <1>3, BoundAssumption
<1>6. open => field' \in Typed /\ Read(field')
  BY <1>1, <1>2 DEF FormInv, ReadInv
<1>. QED
  BY <1>2, <1>3, <1>4, <1>5, <1>6, TableStep

\* A change of one row that leaves its index alone.
LEMMA ChangeRow ==
  ASSUME FormInv, NEW n \in DOMAIN table, NEW row, row \in TableRow, Good(row, n),
         row.index = table[n].index, table' = [table EXCEPT ![n] = row],
         UNCHANGED <<lines, gross, open, field, removed>>
  PROVE  FormInv'
<1>1. /\ table \in Seq(TableRow) /\ Len(table) \in Nat /\ Len(table) <= MaxRows
      /\ removed \in BOOLEAN /\ (open => field \in Typed)
  BY DEF FormInv, FormTypeInv
<1>2. /\ table' \in Seq(TableRow) /\ Len(table') = Len(table) /\ DOMAIN table' = DOMAIN table
      /\ table'[n] = row /\ \A i \in DOMAIN table : i # n => table'[i] = table[i]
  BY <1>1
<1>3. \A i \in DOMAIN table' : Good(table'[i], i)
  BY <1>2, GoodRows DEF Good
<1>4. removed' \/ \A i \in DOMAIN table' : table'[i].index = i - 1
  <2>1. removed \/ \A i \in DOMAIN table : table[i].index = i - 1
    BY DEF FormInv, IndexInv
  <2>. QED
    BY <1>2, <2>1
<1>5. open => field' \in Typed /\ Read(field')
  BY <1>1 DEF FormInv, ReadInv
<1>. QED
  BY <1>1, <1>2, <1>3, <1>4, <1>5, TableStep

\* A description has nothing to do with the amounts.
LEMMA TypeDescriptionInv ==
  ASSUME FormInv, NEW n, TypeDescription(n)
  PROVE  FormInv'
<1>1. PICK b \in BOOLEAN : table' = [table EXCEPT ![n].described = b]
  BY DEF TypeDescription
<1>. DEFINE old == table[n]
            row == [old EXCEPT !.described = b]
<1>2. n \in DOMAIN table /\ UNCHANGED <<lines, gross, open, field, removed>>
  BY DEF TypeDescription, stored
<1>3. Good(old, n) /\ table \in Seq(TableRow)
  BY <1>2, GoodRows DEF FormInv, FormTypeInv
<1>4. table' = [table EXCEPT ![n] = row]
  BY <1>1
<1>. HIDE DEF old
<1>5. row \in TableRow /\ row.index = old.index /\ row.total = old.total /\ row.vat = old.vat
  BY <1>3 DEF Good, TableRow
<1>. HIDE DEF row
<1>6. Good(row, n)
  BY <1>3, <1>5 DEF Good
<1>7. row.index = table[n].index
  BY <1>5 DEF old
<1>. QED
  BY <1>2, <1>4, <1>5, <1>6, <1>7, ChangeRow

\* A total is typed as it is meant.
LEMMA TypeTotalInv ==
  ASSUME FormInv, NEW n, TypeTotal(n)
  PROVE  FormInv'
<1>1. PICK t \in Totals : table' = [table EXCEPT ![n].total = t]
  BY DEF TypeTotal
<1>. DEFINE old == table[n]
            row == [old EXCEPT !.total = t]
<1>2. n \in DOMAIN table /\ UNCHANGED <<lines, gross, open, field, removed>>
  BY DEF TypeTotal, stored
<1>3. Good(old, n) /\ table \in Seq(TableRow) /\ t \in Typed /\ Read(t)
  BY <1>2, GoodRows, MeantRead DEF FormInv, FormTypeInv
<1>4. table' = [table EXCEPT ![n] = row]
  BY <1>1
<1>. HIDE DEF old
<1>5. row \in TableRow /\ row.index = old.index /\ row.total = t /\ row.vat = old.vat
  BY <1>3 DEF Good, TableRow
<1>. HIDE DEF row
<1>6. Good(row, n)
  BY <1>3, <1>5 DEF Good
<1>7. row.index = table[n].index
  BY <1>5 DEF old
<1>. QED
  BY <1>2, <1>4, <1>5, <1>6, <1>7, ChangeRow

\* So is the invoice's total.
LEMMA TypeGrossInv ==
  ASSUME FormInv, TypeGross
  PROVE  FormInv'
<1>1. PICK t \in Grosses : field' = t
  BY DEF TypeGross
<1>2. UNCHANGED <<lines, gross, open, table, removed>>
  BY DEF TypeGross, stored
<1>3. field' \in Typed /\ Read(field')
  BY <1>1, MeantRead
<1>. QED
  BY <1>2, <1>3 DEF FormInv, FormTypeInv, IndexInv, ReadInv

-------------------------------------------------------------------------------
(* Saving                                                                  *)

\* FormValue finds the first row with an index, if there is one.
LEMMA RowOfEffect ==
  ASSUME table \in Seq(TableRow), NEW i
  PROVE  \/ RowOf(i) = 0 /\ \A n \in DOMAIN table : table[n].index # i
         \/ /\ RowOf(i) \in DOMAIN table /\ table[RowOf(i)].index = i
            /\ \A n \in DOMAIN table : table[n].index = i => RowOf(i) <= n
<1>. DEFINE p == RowOf(i)
            J == {n \in 1 .. Len(table) : table[n].index = i}
<1>1. p = IF J # {} THEN Min(J) ELSE 0
  BY DEF SelectInSeq, RowOf
<1>2. Min(J) = CHOOSE x \in J : \A y \in J : x <= y
  BY DEF Min
<1>3. J # {} => Min(J) \in J /\ \A y \in J : Min(J) <= y
  <2>1. J \in SUBSET Nat
    OBVIOUS
  <2>. HIDE DEF J
  <2>. QED
    BY <1>2, <2>1, SmallestOf
<1>. HIDE DEF p
<1>4. CASE J = {}
  <2>1. \A n \in DOMAIN table : table[n].index # i
    BY <1>4
  <2>2. p = 0
    BY <1>1, <1>4
  <2>. QED
    BY <2>1, <2>2 DEF p
<1>5. CASE J # {}
  <2>1. p \in J /\ \A y \in J : p <= y
    BY <1>1, <1>3, <1>5
  <2>2. p \in DOMAIN table /\ table[p].index = i /\ \A n \in DOMAIN table : table[n].index = i => p <= n
    BY <2>1
  <2>. QED
    BY <2>2 DEF p
<1>. QED
  BY <1>4, <1>5

\* The loop over the form ends: no row has the index MaxRows.
LEMMA LinesInFormEffect ==
  ASSUME FormInv
  PROVE  /\ LinesInForm \in 0 .. MaxRows /\ BlankAt(LinesInForm)
         /\ \A i \in 0 .. LinesInForm - 1 : ~BlankAt(i)
<1>1. table \in Seq(TableRow) /\ \A n \in DOMAIN table : table[n].index < MaxRows
  BY DEF FormInv, FormTypeInv, IndexInv
<1>2. \A n \in DOMAIN table : table[n].index # MaxRows
  <2>1. \A n \in DOMAIN table : table[n] \in TableRow
    BY <1>1
  <2>. QED
    BY <1>1, <2>1, BoundAssumption DEF TableRow
<1>3. RowOf(MaxRows) = 0
  BY <1>1, <1>2, RowOfEffect
<1>4. BlankAt(MaxRows)
  BY <1>3 DEF BlankAt
<1>. DEFINE S == {n \in 0 .. MaxRows : BlankAt(n)}
<1>5. \E n \in S : \A y \in S : n <= y
  <2>1. S \in SUBSET Nat /\ MaxRows \in S
    BY <1>4, BoundAssumption
  <2>. HIDE DEF S
  <2>. QED
    BY <2>1, SmallestOf
<1>6. \E n \in 0 .. MaxRows : BlankAt(n) /\ \A i \in 0 .. n - 1 : ~BlankAt(i)
  <2>1. PICK n \in S : \A y \in S : n <= y
    BY <1>5
  <2>2. n \in 0 .. MaxRows /\ BlankAt(n)
    BY <2>1
  <2>3. ASSUME NEW i \in 0 .. n - 1 PROVE ~BlankAt(i)
    <3>1. i \in 0 .. MaxRows /\ ~(n <= i)
      BY <2>2, BoundAssumption
    <3>. QED
      BY <2>1, <3>1
  <2>. QED
    BY <2>2, <2>3
<1>. QED
  BY <1>6 DEF LinesInForm

\* What Save stores: for every line a row of the page, with the amounts it shows.
LEMMA SaveEffect ==
  ASSUME FormInv, Save
  PROVE  /\ lines' \in Seq(FormLine) /\ Len(lines') = LinesInForm
         /\ \A n \in DOMAIN lines' :
              /\ RowOf(n - 1) \in DOMAIN table
              /\ lines'[n].id = table[RowOf(n - 1)].id
              /\ table[RowOf(n - 1)].total.cents \in {Nil, lines'[n].total}
              /\ table[RowOf(n - 1)].vat.cents \in {Nil, lines'[n].vat}
         /\ field.cents \in {Nil, gross'} /\ gross' \in Amount
<1>1. /\ LinesInForm \in Nat /\ LinesInForm <= MaxRows
      /\ \A i \in 0 .. LinesInForm - 1 : ~BlankAt(i)
  BY LinesInFormEffect, BoundAssumption
<1>2. lines' = [n \in 1 .. LinesInForm |-> LineOf(n - 1)] /\ gross' = ParseCents(field.text) /\ open
  BY DEF Save
<1>3. ASSUME NEW n \in 1 .. LinesInForm
      PROVE  /\ RowOf(n - 1) \in DOMAIN table /\ LineOf(n - 1) \in FormLine
             /\ LineOf(n - 1).id = table[RowOf(n - 1)].id
             /\ table[RowOf(n - 1)].total.cents \in {Nil, LineOf(n - 1).total}
             /\ table[RowOf(n - 1)].vat.cents \in {Nil, LineOf(n - 1).vat}
  <2>1. ~BlankAt(n - 1)
    BY <1>1
  <2>2. RowOf(n - 1) \in DOMAIN table
    BY <2>1, RowOfEffect DEF BlankAt, FormInv, FormTypeInv
  <2>. DEFINE row == table[RowOf(n - 1)]
  <2>3. Good(row, 0)
    BY <2>2, GoodRows DEF Good
  <2>4. LineOf(n - 1) = [id |-> row.id, described |-> row.described,
                         total |-> ParseCents(row.total.text), vat |-> ParseCents(row.vat.text)]
    BY DEF LineOf
  <2>. HIDE DEF row
  <2>5. /\ row.id \in LineIds /\ row.described \in BOOLEAN
        /\ Read(row.total) /\ Read(row.vat)
    BY <2>3 DEF Good, TableRow
  <2>6. ParseCents(row.total.text) \in Amount /\ ParseCents(row.vat.text) \in Amount
    BY <2>5 DEF Read
  <2>8. LineOf(n - 1) \in FormLine
    BY <2>4, <2>5, <2>6 DEF FormLine
  <2>9. /\ LineOf(n - 1).id = row.id
        /\ row.total.cents \in {Nil, LineOf(n - 1).total}
        /\ row.vat.cents \in {Nil, LineOf(n - 1).vat}
    BY <2>4, <2>5 DEF Read
  <2>. QED
    BY <2>2, <2>8, <2>9 DEF row
<1>7. \A n \in 1 .. LinesInForm : LineOf(n - 1) \in FormLine
  BY <1>3
<1>4. lines' \in Seq(FormLine) /\ Len(lines') = LinesInForm /\ DOMAIN lines' = 1 .. LinesInForm
  BY <1>1, <1>2, <1>7
<1>5. \A n \in DOMAIN lines' : /\ RowOf(n - 1) \in DOMAIN table
              /\ lines'[n].id = table[RowOf(n - 1)].id
              /\ table[RowOf(n - 1)].total.cents \in {Nil, lines'[n].total}
              /\ table[RowOf(n - 1)].vat.cents \in {Nil, lines'[n].vat}
  BY <1>2, <1>3, <1>4
<1>6. field.cents \in {Nil, gross'} /\ gross' \in Amount
  BY <1>2 DEF FormInv, ReadInv, Read
<1>. QED
  BY <1>4, <1>5, <1>6

\* Save stores lines with ids and amounts, and closes the page.
LEMMA SaveInv ==
  ASSUME FormInv, Save
  PROVE  FormInv'
<1>1. lines' \in Seq(FormLine) /\ Len(lines') = LinesInForm /\ gross' \in Amount
  BY SaveEffect
<1>2. LinesInForm <= MaxRows
  BY LinesInFormEffect, BoundAssumption
<1>3. open' = FALSE /\ table' = <<>> /\ removed' = FALSE
  BY DEF Save
<1>4. <<>> \in Seq(TableRow) /\ Len(<<>>) = 0 /\ 0 <= MaxRows /\ DOMAIN <<>> = {}
  BY BoundAssumption
<1>5. table' \in Seq(TableRow) /\ Len(table') <= MaxRows /\ DOMAIN table' = {}
  BY <1>3, <1>4
<1>6. FormTypeInv'
  BY <1>1, <1>2, <1>3, <1>5 DEF FormTypeInv
<1>. QED
  BY <1>3, <1>5, <1>6 DEF FormInv, IndexInv, ReadInv

\* Every step keeps the invariant.
LEMMA FormStepInv == FormInv /\ [FormNext]_formVars => FormInv'
<1>. SUFFICES ASSUME FormInv, [FormNext]_formVars PROVE FormInv'
  OBVIOUS
<1>1. CASE UNCHANGED formVars
  BY <1>1 DEF formVars, stored, page, FormInv, FormTypeInv, IndexInv, ReadInv
<1>2. ASSUME NEW rest \in Rests, NEW others \in Others, NEW directory \in Directories,
             NEW type \in ExportTypes, Export(rest, others, directory, type)
      PROVE  FormInv'
  BY <1>2 DEF Export, stored, page, FormInv, FormTypeInv, IndexInv, ReadInv
<1>. QED
  BY <1>1, <1>2, OpenPageInv, AddRowInv, TypeGrossInv, SaveInv, RemoveRowInv,
     TypeDescriptionInv, TypeTotalInv DEF FormNext, ExportTypes

\* The form's inductive invariant: rows and amounts are what the database can
\* hold, no index reaches the bound, an untouched table is numbered without a gap,
\* and every field that says an amount reads as that amount.
THEOREM FormInvariant == FormSpec => []FormInv
<1>. QED
  BY FormInitInv, FormStepInv, PTL DEF FormSpec

-------------------------------------------------------------------------------
(* The export                                                              *)

\* Where the payload comes from: invoices as the database holds them.
PayloadInv ==
  \/ out = NoPayload
  \/ \E invoices \in Seq(Selected), directory \in Directories, type \in ExportTypes :
       /\ out = BuildPayload(invoices, directory, type)
       /\ warned \in Reconciled(invoices)

\* Export builds the payload from such a selection.
LEMMA ExportInv ==
  ASSUME FormInv, NEW rest \in Rests, NEW others \in Others, NEW directory \in Directories,
         NEW type \in ExportTypes, Export(rest, others, directory, type)
  PROVE  PayloadInv'
<1>. DEFINE this == [id |-> This, credit |-> rest.credit, net |-> rest.net,
                     vat |-> rest.vat, gross |-> gross, seller |-> rest.seller,
                     buyer |-> rest.buyer, lines |-> lines]
<1>1. this \in Selected
  <2>1. rest \in [credit : BOOLEAN, net : Amount, vat : Amount, seller : Party, buyer : Party]
    BY InvoiceAssumption
  <2>2. lines \in Lines /\ gross \in Amount
    BY DEF FormInv, FormTypeInv, FormLine, Lines
  <2>3. This \in InvoiceIds
    BY SelectionAssumption
  <2>. QED
    BY <2>1, <2>2, <2>3 DEF Selected
<1>2. PICK invoices \in {<<this>> \o others, others \o <<this>>,
                       <<this>> \o others \o <<this>>} :
        out' = BuildPayload(invoices, directory, type) /\ warned' \in Reconciled(invoices)
  BY DEF Export
<1>. HIDE DEF this
<1>3. invoices \in Seq(Selected)
  <2>. DEFINE one == <<this>>
  <2>1. others \in Seq(Selected) /\ one \in Seq(Selected)
    BY <1>1, SelectionAssumption
  <2>. HIDE DEF one
  <2>2. one \o others \in Seq(Selected) /\ others \o one \in Seq(Selected)
    BY <2>1
  <2>. DEFINE front == one \o others
  <2>3. front \in Seq(Selected)
    BY <2>2
  <2>. HIDE DEF front
  <2>4. front \o one \in Seq(Selected)
    BY <2>1, <2>3
  <2>. QED
    BY <1>2, <2>2, <2>4 DEF front, one
<1>. QED
  BY <1>2, <1>3 DEF PayloadInv

\* Every step keeps where the payload comes from.
LEMMA PayloadStepInv == FormInv /\ PayloadInv /\ [FormNext]_formVars => PayloadInv'
<1>. SUFFICES ASSUME FormInv, PayloadInv, [FormNext]_formVars PROVE PayloadInv'
  OBVIOUS
<1>1. ASSUME UNCHANGED <<out, warned>> PROVE PayloadInv'
  BY <1>1 DEF PayloadInv
<1>2. CASE UNCHANGED formVars
  BY <1>1, <1>2 DEF formVars
<1>3. CASE OpenPage \/ AddRow \/ TypeGross \/ Save
  BY <1>1, <1>3 DEF OpenPage, AddRow, TypeGross, Save
<1>4. ASSUME NEW n, RemoveRow(n) \/ TypeDescription(n) \/ TypeTotal(n) PROVE PayloadInv'
  BY <1>1, <1>4 DEF RemoveRow, TypeDescription, TypeTotal
<1>. QED
  BY <1>2, <1>3, <1>4, ExportInv DEF FormNext, ExportTypes

\* Whatever was exported was built from a selection of stored invoices.
LEMMA PayloadInvariant == FormSpec => []PayloadInv
<1>1. FormInit => PayloadInv
  BY DEF FormInit, PayloadInv
<1>. QED
  BY <1>1, FormInvariant, PayloadStepInv, PTL DEF FormSpec

\* No invoice gets lost between the buckets of an export, and none is in one twice
\* that was not selected twice, whatever the directory holds.
THEOREM BucketsAreComplete == FormSpec => []BucketsComplete
<1>1. PayloadInv => BucketsComplete
  <2>. SUFFICES ASSUME PayloadInv, Exported PROVE BucketsComplete
    BY DEF BucketsComplete
  <2>1. PICK invoices \in Seq(Selected), directory \in Directories, type \in ExportTypes :
          out = BuildPayload(invoices, directory, type)
    BY DEF PayloadInv, Exported
  <2>2. directory \in Seq(DirectoryRow)
    BY DirectoryAssumption
  <2>3. /\ out.type = type
        /\ IdsDiffer(out.invoices) => IdsDiffer(out.purchases) /\ IdsDiffer(out.sales)
        /\ Range(out.invoices) = IF type = "sales" THEN Range(out.sales) ELSE Range(out.purchases)
        /\ type = "purchases" => out.sales = <<>>
        /\ type = "sales" => out.purchases = <<>>
    BY <2>1, <2>2, PayloadBuckets
  <2>. QED
    BY <2>3 DEF BucketsComplete
<1>. QED
  BY <1>1, PayloadInvariant, PTL

\* The lines of every exported invoice add up to its header, or the export warned
\* of it, credit notes included.
THEOREM ExportedLinesAddUp == FormSpec => []LinesAddUp
<1>1. PayloadInv => LinesAddUp
  <2>. SUFFICES ASSUME PayloadInv, Exported PROVE LinesAddUp
    BY DEF LinesAddUp
  <2>1. PICK invoices \in Seq(Selected), directory \in Directories, type \in ExportTypes :
          /\ out = BuildPayload(invoices, directory, type)
          /\ warned \in Reconciled(invoices)
    BY DEF PayloadInv, Exported
  <2>2. directory \in Seq(DirectoryRow)
    BY DirectoryAssumption
  <2>3. \A x \in Range(out.invoices) :
          x.id \in warned \/ x.lines = <<>> \/ ~Beyond(Gaps(x.lines, x), 1)
    BY <2>1, <2>2, PayloadAddsUp
  <2>. QED
    BY <2>3 DEF LinesAddUp
<1>. QED
  BY <1>1, PayloadInvariant, PTL

\* The payload has one company under an id; and as long as a code stands for one
\* id, it has every party of the exported invoices, each on its own side.
THEOREM PartiesAreKeptApart == FormSpec => []PartiesKeptApart
<1>1. PayloadInv => PartiesKeptApart
  <2>. SUFFICES ASSUME PayloadInv, Exported PROVE PartiesKeptApart
    BY DEF PartiesKeptApart
  <2>1. PICK invoices \in Seq(Selected), directory \in Directories, type \in ExportTypes :
          out = BuildPayload(invoices, directory, type)
    BY DEF PayloadInv, Exported
  <2>2. directory \in Seq(DirectoryRow) /\ IdsDiffer(directory) /\ VatsDiffer(directory)
    BY DirectoryAssumption
  <2>. DEFINE b == BuildPayload(invoices, directory, type)
              sellers == {b.invoices[n].from.id : n \in DOMAIN b.invoices}
              buyers  == {b.invoices[n].to.id : n \in DOMAIN b.invoices}
  <2>3. /\ \A c, d \in b.companies : c.id = d.id => c = d
        /\ (\A p, q \in Parties(b.invoices) : p.code # "" /\ p.code = q.code => p.id = q.id) =>
             /\ {c.id : c \in b.companies} = sellers \cup buyers
             /\ sellers \cap buyers = {} =>
                  /\ {c.id : c \in b.suppliers} = sellers
                  /\ {c.id : c \in b.customers} = buyers
    BY <2>2, PayloadParties
  <2>. HIDE DEF b
  <2>4. b = out
    BY <2>1 DEF b
  <2>5. /\ \A c, d \in out.companies : c.id = d.id => c = d
        /\ CodesIdentify =>
             /\ {c.id : c \in out.companies} = sellers \cup buyers
             /\ sellers \cap buyers = {} =>
                  /\ {c.id : c \in out.suppliers} = sellers
                  /\ {c.id : c \in out.customers} = buyers
    <3>. HIDE DEF sellers, buyers
    <3>1. out = b
      BY <2>4
    <3>. QED
      BY ONLY <2>3, <3>1 DEF CodesIdentify
  <2>6. sellers = {out.invoices[n].from.id : n \in DOMAIN out.invoices}
    BY <2>4
  <2>7. buyers = {out.invoices[n].to.id : n \in DOMAIN out.invoices}
    BY <2>4
  <2>. HIDE DEF sellers, buyers
  <2>. QED
    BY <2>5, <2>6, <2>7 DEF PartiesKeptApart
<1>. QED
  BY <1>1, PayloadInvariant, PTL

-------------------------------------------------------------------------------
(* What is saved                                                           *)

\* As long as no row was removed, the row with index i is the (i + 1)-st.
LEMMA RowInPlace ==
  ASSUME FormInv, ~removed, NEW n \in DOMAIN table
  PROVE  RowOf(n - 1) = n
<1>1. /\ table \in Seq(TableRow) /\ \A m \in DOMAIN table : table[m].index = m - 1
      /\ DOMAIN table = 1 .. Len(table)
  BY DEF FormInv, FormTypeInv, IndexInv
<1>2. table[n].index = n - 1
  BY <1>1
<1>3. RowOf(n - 1) \in DOMAIN table /\ table[RowOf(n - 1)].index = n - 1
  BY <1>1, <1>2, RowOfEffect
<1>4. RowOf(n - 1) - 1 = n - 1
  BY <1>1, <1>3
<1>. QED
  BY <1>1, <1>3, <1>4

\* Nothing was removed and no row is blank, so the loop reads every row.
LEMMA SaveWhole ==
  ASSUME FormInv, Save, ~removed,
         \A n \in DOMAIN table : table[n].described \/ table[n].total.text # <<>>
  PROVE  /\ Len(lines') = Len(table)
         /\ \A n \in DOMAIN table : lines'[n].id = table[n].id
<1>1. /\ table \in Seq(TableRow) /\ Len(table) \in Nat /\ Len(table) <= MaxRows
      /\ DOMAIN table = 1 .. Len(table)
      /\ \A n \in DOMAIN table : table[n].index = n - 1
  BY DEF FormInv, FormTypeInv, IndexInv
<1>2. /\ LinesInForm \in 0 .. MaxRows /\ BlankAt(LinesInForm)
      /\ \A i \in 0 .. LinesInForm - 1 : ~BlankAt(i)
  BY LinesInFormEffect
<1>3. \A n \in DOMAIN table : ~BlankAt(n - 1)
  <2>. SUFFICES ASSUME NEW n \in DOMAIN table PROVE ~BlankAt(n - 1)
    OBVIOUS
  <2>1. RowOf(n - 1) = n /\ n # 0
    BY <1>1, RowInPlace
  <2>. QED
    BY <2>1 DEF BlankAt
<1>4. ~(LinesInForm < Len(table))
  <2>. SUFFICES ASSUME LinesInForm < Len(table) PROVE FALSE
    OBVIOUS
  <2>1. LinesInForm + 1 \in DOMAIN table /\ (LinesInForm + 1) - 1 = LinesInForm
    BY <1>1, <1>2, BoundAssumption
  <2>2. ~BlankAt((LinesInForm + 1) - 1)
    BY <1>3, <2>1
  <2>. QED
    BY <1>2, <2>1, <2>2
<1>5. BlankAt(Len(table))
  <2>1. \A n \in DOMAIN table : table[n].index # Len(table)
    BY <1>1
  <2>2. RowOf(Len(table)) = 0
    BY <1>1, <2>1, RowOfEffect
  <2>. QED
    BY <2>2 DEF BlankAt
<1>6. LinesInForm = Len(table)
  <2>1. ~(Len(table) \in 0 .. LinesInForm - 1)
    BY <1>2, <1>5
  <2>2. LinesInForm \in Nat /\ ~(LinesInForm < Len(table))
    BY <1>2, <1>4, BoundAssumption
  <2>3. ~(Len(table) < LinesInForm)
    BY <1>1, <2>1, <2>2
  <2>. DEFINE a == Len(table)
              b == LinesInForm
  <2>4. a \in Nat /\ b \in Nat /\ ~(a < b) /\ ~(b < a)
    BY <1>1, <2>2, <2>3
  <2>. HIDE DEF a, b
  <2>5. a = b
    BY <2>4
  <2>. QED
    BY <2>5 DEF a, b
<1>7. /\ Len(lines') = LinesInForm /\ lines' \in Seq(FormLine)
      /\ \A n \in DOMAIN lines' : lines'[n].id = table[RowOf(n - 1)].id
  BY SaveEffect
<1>8. DOMAIN lines' = DOMAIN table
  BY <1>1, <1>6, <1>7
<1>. QED
  BY <1>6, <1>7, <1>8, RowInPlace

\* Only Save closes the page.
LEMMA OnlySaveCloses ==
  ASSUME FormNext, open, ~open'
  PROVE  Save
<1>1. ~OpenPage /\ ~AddRow /\ ~TypeGross
  BY DEF OpenPage, AddRow, TypeGross
<1>2. ASSUME NEW n, RemoveRow(n) \/ TypeDescription(n) \/ TypeTotal(n) PROVE FALSE
  BY <1>2 DEF RemoveRow, TypeDescription, TypeTotal
<1>3. ASSUME NEW rest, NEW others, NEW directory, NEW type, Export(rest, others, directory, type)
      PROVE  FALSE
  BY <1>3 DEF Export
<1>. QED
  BY <1>1, <1>2, <1>3 DEF FormNext

\* Save stores the amounts that the fields say, for every amount and every
\* documented style, and each line's own; fields that say none are left out.
THEOREM AmountsAreStoredAsWritten == FormSpec => StoredAsWritten
<1>1. ASSUME FormInv, [FormNext]_formVars, open, ~open'
      PROVE  /\ field.cents \in {Nil, gross'}
             /\ \A n \in DOMAIN lines' : \E m \in DOMAIN table :
                  /\ lines'[n].id = table[m].id
                  /\ table[m].total.cents \in {Nil, lines'[n].total}
                  /\ table[m].vat.cents \in {Nil, lines'[n].vat}
  <2>1. Save
    BY <1>1, OnlySaveCloses DEF formVars, page
  <2>. QED
    BY <1>1, <2>1, SaveEffect
<1>. QED
  BY <1>1, FormInvariant, PTL DEF FormSpec, StoredAsWritten

\* Save stores every row, in order, unless a row was removed or is blank.
THEOREM FormsAreSavedWhole == FormSpec => WholeFormIsSaved
<1>1. ASSUME FormInv, [FormNext]_formVars, open, ~open'
      PROVE  \/ removed
             \/ \E n \in DOMAIN table : ~table[n].described /\ table[n].total.text = <<>>
             \/ /\ Len(lines') = Len(table)
                /\ \A n \in DOMAIN table : lines'[n].id = table[n].id
  <2>1. Save
    BY <1>1, OnlySaveCloses DEF formVars, page
  <2>. QED
    BY <1>1, <2>1, SaveWhole
<1>. QED
  BY <1>1, FormInvariant, PTL DEF FormSpec, WholeFormIsSaved

===============================================================================
