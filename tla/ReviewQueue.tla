------------------------------ MODULE ReviewQueue ------------------------------
(***************************************************************************)
(* The review queue: the invoices with status processed, newest first, as  *)
(* a reviewer walks through them by the links of the review page and by    *)
(* confirming (httpapi/review.go, service/invoice.go:387-465).  A page is  *)
(* put together from one SQL statement after another, while the worker     *)
(* publishes, users upload and other reviewers confirm and reprocess.      *)
(*                                                                         *)
(* An action is one statement, and any of them can fail: handleReviewPage  *)
(* and handleConfirm take the failure of a lookup for "there is none".     *)
(* created_at has a resolution of a second, so rows with equal times are   *)
(* common; the order of the ids, random UUIDs, decides between them.       *)
(***************************************************************************)
EXTENDS Integers, FiniteSets

CONSTANTS
  MaxInvoice,   \* the ids are 1 .. MaxInvoice, in their SQL order
  MaxTime,      \* the second it is now; no row is newer
  MaxUploads,   \* bound on the uploads while the model runs
  MaxChanges    \* bound on what the others do to the invoices

Invoices == 1 .. MaxInvoice
None     == 0

ASSUME QueueAssumption ==
  MaxInvoice \in Nat /\ MaxTime \in Nat /\ MaxUploads \in Nat /\ MaxChanges \in Nat

VARIABLES
  status, created,       \* table invoices
  pc,                    \* where the reviewer's request stands; "page" and
                         \* "list": a page is shown
  at,                    \* the invoice requested, or shown
  next, prev,            \* the links found for it
  before, total,         \* "n of m" above it, n being before + 1; not shown
                         \* when total is 0
  failed,                \* history: a lookup after the last confirmation failed
  walk,                  \* history: in the queue since the walk began at its head
  since,                 \* history: others in the queue since the last confirmation
  shown,                 \* history: invoices shown in this walk
  uploads, changes       \* history: how many there were

rows    == <<status, created>>
request == <<pc, at, next, prev, before, total, failed>>
history == <<walk, since, shown>>
env     == <<uploads, changes>>
vars    == <<rows, request, history, env>>

Queue == {i \in Invoices : status[i] = "processed"}

\* j comes after i in the order of the queue: created_at DESC, id DESC.
Behind(j, i) == created[j] < created[i] \/ (created[j] = created[i] /\ j < i)

\* The invoice of S that has nothing of S in front of it, or behind it.
FirstOf(S) == IF S = {} THEN None ELSE CHOOSE i \in S : \A j \in S \ {i} : Behind(j, i)
LastOf(S)  == IF S = {} THEN None ELSE CHOOSE i \in S : \A j \in S \ {i} : Behind(i, j)

\* Invoices were uploaded before, the last of them perhaps in this very second.
Init ==
  /\ status \in [Invoices -> {"absent", "waiting", "processed"}]
  /\ created \in [Invoices -> 0 .. MaxTime]
  /\ pc = "list" /\ at = None /\ next = None /\ prev = None /\ before = 0 /\ total = 0
  /\ failed = FALSE
  /\ walk = {} /\ since = {} /\ shown = {}
  /\ uploads = 0 /\ changes = 0

-------------------------------------------------------------------------------
(* The others                                                              *)

\* Invoice i gets status s: what was in the queue all along no longer is.
SetStatus(i, s) ==
  /\ status' = [status EXCEPT ![i] = s]
  /\ walk' = walk \ {i} /\ since' = since \ {i}
  /\ UNCHANGED shown

Change == changes < MaxChanges /\ changes' = changes + 1

ImportInvoice(i) ==
  /\ uploads < MaxUploads /\ uploads' = uploads + 1
  /\ status[i] = "absent"
  /\ SetStatus(i, "waiting")
  /\ created' = [created EXCEPT ![i] = MaxTime]
  /\ UNCHANGED <<request, changes>>

\* The worker is done with i, whenever it was uploaded: readable, or not.
WorkerPublishes(i) ==
  /\ status[i] = "waiting"
  /\ \E s \in {"processed", "failed"} : SetStatus(i, s)
  /\ UNCHANGED <<created, request, env>>

OtherConfirms(i) ==
  /\ Change /\ status[i] = "processed"
  /\ SetStatus(i, "ready_for_export")
  /\ UNCHANGED <<created, request, uploads>>

\* The row keeps its created_at.
ScheduleReprocess(i) ==
  /\ Change /\ status[i] \in {"processed", "failed", "ready_for_export"}
  /\ SetStatus(i, "waiting")
  /\ UNCHANGED <<created, request, uploads>>

-------------------------------------------------------------------------------
(* The reviewer                                                            *)

Fetch(i) ==
  /\ pc' = "read" /\ at' = i
  /\ next' = None /\ prev' = None /\ before' = 0 /\ total' = 0
  /\ failed' = FALSE

\* handleReviewStart leads to the head of the queue.
ReviewStart ==
  /\ pc \in {"list", "page"}
  /\ Queue # {} /\ Fetch(FirstOf(Queue))
  /\ walk' = Queue /\ shown' = {}
  /\ UNCHANGED <<rows, env, since>>

FollowNext ==
  /\ pc = "page" /\ next # None /\ Fetch(next)
  /\ UNCHANGED <<rows, env, walk, since, shown>>

FollowPrevious ==
  /\ pc = "page" /\ prev # None /\ Fetch(prev)
  /\ UNCHANGED <<rows, env, walk, since, shown>>

\* handleReviewPage: links and position are looked for if the invoice is still
\* in the queue, and are left out if it is not.
ReadInvoice ==
  /\ pc = "read"
  /\ shown' = shown \cup {at}
  /\ pc' = IF at \in Queue THEN "next" ELSE "page"
  /\ UNCHANGED <<rows, env, at, next, prev, before, total, failed, walk, since>>

\* The invoice cannot be read, to be shown or to be confirmed: an error page.
ErrorPage ==
  /\ pc \in {"read", "page"} /\ pc' = "list" /\ at' = None
  /\ UNCHANGED <<rows, env, history, next, prev, before, total, failed>>

\* Mutant: the next invoice is one created in an earlier second.
NextSecond ==
  /\ pc = "next" /\ pc' = "prev"
  /\ next' = FirstOf({j \in Queue : created[j] < created[at]})
  /\ UNCHANGED <<rows, env, history, at, prev, before, total, failed>>

NextUnconfirmedInvoiceID ==
  /\ pc = "next" /\ pc' = "prev"
  /\ next' = FirstOf({j \in Queue : Behind(j, at)})
  /\ UNCHANGED <<rows, env, history, at, prev, before, total, failed>>

PreviousUnconfirmedInvoiceID ==
  /\ pc = "prev" /\ pc' = "before"
  /\ prev' = LastOf({j \in Queue : Behind(at, j)})
  /\ UNCHANGED <<rows, env, history, at, next, before, total, failed>>

CountUnconfirmedBefore ==
  /\ pc = "before" /\ pc' = "total"
  /\ before' = Cardinality({j \in Queue : Behind(at, j)})
  /\ UNCHANGED <<rows, env, history, at, next, prev, total, failed>>

CountUnconfirmedInvoices ==
  /\ pc = "total" /\ pc' = "page"
  /\ total' = Cardinality(Queue)
  /\ UNCHANGED <<rows, env, history, at, next, prev, before, failed>>

\* When one of these four fails, the page is shown without what they return.
ReviewQueueFails ==
  /\ pc \in {"next", "prev", "before", "total"} /\ pc' = "page"
  /\ next' = None /\ prev' = None /\ before' = 0 /\ total' = 0
  /\ UNCHANGED <<rows, env, history, at, failed>>

\* handleConfirm: an invoice that is no longer in the queue is refused, and its
\* page is shown again, as it is when the UPDATE fails.
ConfirmInvoice ==
  /\ pc = "page"
  /\ IF at \in Queue
       THEN /\ SetStatus(at, "ready_for_export") /\ pc' = "after"
            /\ next' = None /\ prev' = None /\ before' = 0 /\ total' = 0
            /\ UNCHANGED <<at, failed>>
       ELSE /\ Fetch(at) /\ UNCHANGED <<status, walk, since, shown>>
  /\ UNCHANGED <<created, env>>

ConfirmFails ==
  /\ pc = "page" /\ Fetch(at)
  /\ UNCHANGED <<rows, env, walk, since, shown>>

\* Mutant: the end of the queue counts as the end of the review.
AfterConfirmOnlyNext ==
  /\ pc = "after" /\ since' = Queue \ {at}
  /\ LET j == FirstOf({k \in Queue : Behind(k, at)})
     IN  IF j # None
           THEN Fetch(j)
           ELSE /\ pc' = "list" /\ at' = None
                /\ UNCHANGED <<next, prev, before, total, failed>>
  /\ UNCHANGED <<rows, env, walk, shown>>

\* Then the next invoice is looked for ...
AfterConfirmNext ==
  /\ pc = "after" /\ since' = Queue \ {at}
  /\ LET j == FirstOf({k \in Queue : Behind(k, at)})
     IN  IF j # None
           THEN Fetch(j)
           ELSE pc' = "afterNone" /\ UNCHANGED <<at, next, prev, before, total, failed>>
  /\ UNCHANGED <<rows, env, walk, shown>>

NextLookupFails ==
  /\ pc = "after" /\ since' = Queue \ {at}
  /\ pc' = "afterNone" /\ failed' = TRUE
  /\ UNCHANGED <<rows, env, at, next, prev, before, total, walk, shown>>

\* ... and if there is none the previous one; if there is none either, "All
\* invoices have been reviewed!".
AfterConfirmPrevious ==
  /\ pc = "afterNone"
  /\ LET j == LastOf({k \in Queue : Behind(at, k)})
     IN  IF j # None
           THEN Fetch(j)
           ELSE /\ pc' = "list" /\ at' = None
                /\ UNCHANGED <<next, prev, before, total, failed>>
  /\ UNCHANGED <<rows, env, walk, since, shown>>

PreviousLookupFails ==
  /\ pc = "afterNone" /\ pc' = "list" /\ at' = None /\ failed' = TRUE
  /\ UNCHANGED <<rows, env, history, next, prev, before, total>>

Page == ReadInvoice \/ NextUnconfirmedInvoiceID \/ PreviousUnconfirmedInvoiceID
          \/ CountUnconfirmedBefore \/ CountUnconfirmedInvoices
          \/ ReviewQueueFails \/ ErrorPage

Confirm == \/ ConfirmInvoice \/ ConfirmFails
           \/ AfterConfirmNext \/ NextLookupFails
           \/ AfterConfirmPrevious \/ PreviousLookupFails

Next ==
  \/ \E i \in Invoices : \/ ImportInvoice(i) \/ WorkerPublishes(i)
                         \/ OtherConfirms(i) \/ ScheduleReprocess(i)
  \/ ReviewStart \/ FollowNext \/ FollowPrevious \/ Page \/ Confirm

Spec == Init /\ [][Next]_vars

-------------------------------------------------------------------------------
(* Properties                                                              *)

\* A walk that began at the head of the queue has shown, when it comes to a page
\* without a next link, every invoice that was in the queue all the time
\* (review.go:44-48), whatever was uploaded, published and confirmed meanwhile.
\* A page whose lookups failed has no next link either; it is told by its missing
\* "n of m" (review.html:7), and excepted.
WalkShowsAll ==
  pc = "page" /\ at \in walk /\ total # 0 /\ next = None => walk \subseteq shown

\* "All invoices have been reviewed!" (review.go:264-279): no other one was in the
\* queue from the lookup of the next invoice to the message, unless one of the two
\* lookups failed.
AllReviewedIsTrue ==
  [][(pc \in {"after", "afterNone"} /\ pc' = "list") => since' = {} \/ failed']_vars

===============================================================================
