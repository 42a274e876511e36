----------------------------- MODULE VatClassifiers -----------------------------
(***************************************************************************)
(* The VAT classifiers of an organization and the invoice lines that name  *)
(* them by code.  The worker resolves the codes a model chose against the  *)
(* active classifiers it read before the extraction; a review resolves     *)
(* them against all classifiers; settings create, update, delete and       *)
(* import classifiers meanwhile.  No foreign key ties a line to a          *)
(* classifier, and a code is unique within a country only.                 *)
(*                                                                         *)
(* One action is one SQL statement or one transaction.                     *)
(***************************************************************************)
EXTENDS Naturals, FiniteSets, Functions

CONSTANTS
  Ids,         \* ids that uuid.New() may hand out
  Invoices,
  Workers,     \* worker goroutines, one per process
  Requests,    \* reviews and deletions in flight at the same time
  Forms,       \* what the settings form may submit: a classifier
  Catalogue,   \* the shipped catalogue of a country, as classifiers
  Extractions, \* the sets of codes that the lines of an extraction may have
  Blank,       \* a line without a code
  Unset,       \* a line without a tariff
  NoRow, NoId, NoInvoice, NoCode

Shipped == UNION {Catalogue[n] : n \in DOMAIN Catalogue}

Entered == Forms \cup Shipped

Classifiers == [country : {v.country : v \in Entered},
                code    : {v.code : v \in Entered},
                tariff  : {v.tariff : v \in Entered},
                active  : BOOLEAN]

Codes == ({v.code : v \in Entered} \cup UNION Extractions) \ {Blank}

Tariffs == {v.tariff : v \in Entered}

Actors == Workers \cup Requests

ASSUME VatAssumption ==
  /\ \A v \in Entered :
       /\ v = [country |-> v.country, code |-> v.code,
               tariff |-> v.tariff, active |-> v.active]
       /\ v.active \in BOOLEAN /\ v.code # Blank
  /\ Unset \notin Tariffs
  /\ NoRow \notin Classifiers /\ NoInvoice \notin Invoices /\ NoId \notin Ids
  /\ Workers \cap Requests = {} /\ Actors \cap Invoices = {}

VARIABLES
  row,     \* table vat_classifiers
  used,    \* ids handed out so far
  lines,   \* table invoice_items: the tariff by code, for each invoice
  warned,  \* column vat_warning: the codes it names
  pc,      \* where a worker, a review or a deletion stands
  inv,     \* the invoice it is about to write
  tariffOf,\* the tariff by code that it built from the classifiers
  target,  \* the classifier to delete
  code,    \* the code the deletion has read for it
  since,   \* history: invoices written since the deletion's count
  lost     \* history: codes that left the table since an actor's read, and
           \* since the read behind the lines of an invoice

tableVars == <<row, used, lines, warned>>
actorVars == <<pc, inv, tariffOf, target, code>>
vars == <<tableVars, actorVars, since, lost>>

-------------------------------------------------------------------------------

Stored(k) == k \in Ids /\ row[k] # NoRow

Rows(r) == {r[k] : k \in Ids} \ {NoRow}

CodesOf(R) == {v.code : v \in R}

\* A map by code: of several rows with one code, the last one read wins, and the
\* queries have no order.
TariffMaps(R) ==
  {f \in [CodesOf(R) -> Tariffs] :
     \A c \in CodesOf(R) : \E v \in R : v.code = c /\ v.tariff = f[c]}

\* What a reader of R makes of it: errors of the query, of a row and of the
\* iteration are ignored, so any part of the rows may be all it sees.
MapsRead(R) == UNION {TariffMaps(P) : P \in SUBSET R}

\* The unique index on (org_id, country, code).
Taken(k, v) == \E d \in Ids \ {k} :
                 Stored(d) /\ row[d].country = v.country /\ row[d].code = v.code

Lines(C, f) == [c \in C |-> IF c \in DOMAIN f THEN f[c] ELSE Unset]

Unknown(C, f) == C \ (DOMAIN f \cup {Blank})

Empty == [c \in {} |-> Unset]

Init ==
  /\ row = [k \in Ids |-> NoRow] /\ used = {}
  /\ lines  = [i \in Invoices |-> Empty]
  /\ warned = [i \in Invoices |-> {}]
  /\ pc = [a \in Actors |-> "idle"] /\ inv = [a \in Actors |-> NoInvoice]
  /\ tariffOf = [a \in Actors |-> Empty]
  /\ target = [a \in Actors |-> NoId] /\ code = [a \in Actors |-> NoCode]
  /\ since = [a \in Actors |-> {}]
  /\ lost = [x \in Actors \cup Invoices |-> {}]

Go(a, p, i, f, k, c) ==
  /\ pc'  = [pc  EXCEPT ![a] = p]
  /\ inv' = [inv EXCEPT ![a] = i]
  /\ tariffOf' = [tariffOf EXCEPT ![a] = f]
  /\ target' = [target EXCEPT ![a] = k]
  /\ code' = [code EXCEPT ![a] = c]

Return(a) == Go(a, "idle", NoInvoice, Empty, NoId, NoCode)

\* The history of a read, of a write and of a change of the classifiers.
NotingRead(a) == lost' = [lost EXCEPT ![a] = {}] /\ UNCHANGED since

NotingWrite(a, i, C) ==
  /\ since' = [r \in Actors |-> IF pc[r] = "delete" THEN since[r] \cup {i} ELSE {}]
  /\ lost'  = [lost EXCEPT ![i] = lost[a] \cap C, ![a] = {}]

\* The codes whose last row goes in this step.
NotingGone ==
  LET gone == CodesOf(Rows(row)) \ CodesOf(Rows(row'))
  IN  lost' = [x \in Actors \cup Invoices |->
                 IF x \in Invoices THEN lost[x] \cup (gone \cap DOMAIN lines[x])
                 ELSE IF pc[x] \in {"extract", "edit"} THEN lost[x] \cup gone
                 ELSE {}]

-------------------------------------------------------------------------------
(* Invoice lines                                                           *)

\* Mutant: the worker resolves codes against the shipped catalogues.
ReadShipped(w, i) ==
  /\ pc[w] = "idle"
  /\ \E f \in TariffMaps(Shipped) : Go(w, "extract", i, f, NoId, NoCode)
  /\ NotingRead(w)
  /\ UNCHANGED tableVars

\* The worker reads the active classifiers before it asks the model.
WorkerRead(w, i) ==
  /\ pc[w] = "idle"
  /\ \E f \in MapsRead({v \in Rows(row) : v.active}) :
       Go(w, "extract", i, f, NoId, NoCode)
  /\ NotingRead(w)
  /\ UNCHANGED tableVars

\* The worker replaces the lines and the warning in one transaction.
WorkerSave(w) ==
  /\ pc[w] = "extract"
  /\ \E C \in Extractions :
       /\ lines'  = [lines  EXCEPT ![inv[w]] = Lines(C, tariffOf[w])]
       /\ warned' = [warned EXCEPT ![inv[w]] = Unknown(C, tariffOf[w])]
       /\ NotingWrite(w, inv[w], C)
  /\ Return(w)
  /\ UNCHANGED <<row, used>>

\* A duplicate holds no lines, but a warning about those of the extraction.
WorkerSaveDuplicate(w) ==
  /\ pc[w] = "extract"
  /\ \E C \in Extractions :
       warned' = [warned EXCEPT ![inv[w]] = Unknown(C, tariffOf[w])]
  /\ lines' = [lines EXCEPT ![inv[w]] = Empty]
  /\ NotingWrite(w, inv[w], {})
  /\ Return(w)
  /\ UNCHANGED <<row, used>>

\* UpdateInvoice reads all classifiers, the inactive ones, too ...
EditRead(r, i) ==
  /\ pc[r] = "idle"
  /\ \E f \in MapsRead(Rows(row)) :
       Go(r, "edit", i, f, NoId, NoCode)
  /\ NotingRead(r)
  /\ UNCHANGED tableVars

\* Mutant: the review does not touch the warning.
EditKeepsWarning(r) ==
  /\ pc[r] = "edit"
  /\ \E C \in Extractions :
       /\ lines' = [lines EXCEPT ![inv[r]] = Lines(C, tariffOf[r])]
       /\ NotingWrite(r, inv[r], C)
  /\ Return(r)
  /\ UNCHANGED <<row, used, warned>>

\* ... and replaces the lines and the warning in a transaction, whatever became
\* of the invoice meanwhile: its handler checked the status before.
EditWrite(r) ==
  /\ pc[r] = "edit"
  /\ \E C \in Extractions :
       /\ lines'  = [lines  EXCEPT ![inv[r]] = Lines(C, tariffOf[r])]
       /\ warned' = [warned EXCEPT ![inv[r]] = Unknown(C, tariffOf[r])]
       /\ NotingWrite(r, inv[r], C)
  /\ Return(r)
  /\ UNCHANGED <<row, used>>

\* The extraction or a statement fails, the code is in use, the classifier is
\* gone, or the client or the process is.
ActorEnds(a) ==
  /\ pc[a] # "idle"
  /\ Return(a)
  /\ since' = [since EXCEPT ![a] = {}] /\ lost' = [lost EXCEPT ![a] = {}]
  /\ UNCHANGED tableVars

-------------------------------------------------------------------------------
(* Settings                                                                *)

Users(c) == {i \in Invoices : c \in DOMAIN lines[i]}

\* DeleteVatClassifier reads the code of the classifier ...
DeleteRead(r, k) ==
  /\ pc[r] = "idle" /\ Stored(k)
  /\ Go(r, "count", NoInvoice, Empty, k, row[k].code)
  /\ UNCHANGED <<tableVars, since, lost>>

\* Mutant: only flagged invoices are looked at.
CountWarned(r) ==
  /\ pc[r] = "count" /\ \A i \in Users(code[r]) : code[r] \notin warned[i]
  /\ Go(r, "delete", NoInvoice, Empty, target[r], code[r])
  /\ UNCHANGED <<tableVars, since, lost>>

\* ... counts the lines with that code, in any country and status, refuses if
\* there are some ...
DeleteCount(r) ==
  /\ pc[r] = "count" /\ Users(code[r]) = {}
  /\ Go(r, "delete", NoInvoice, Empty, target[r], code[r])
  /\ UNCHANGED <<tableVars, since, lost>>

\* ... and deletes the classifier in a third statement.
DeleteVatClassifier(r) ==
  /\ pc[r] = "delete"
  /\ row' = [row EXCEPT ![target[r]] = NoRow]
  /\ Return(r)
  /\ NotingGone
  /\ since' = [since EXCEPT ![r] = {}]
  /\ UNCHANGED <<used, lines, warned>>

CreateVatClassifier(k, v) ==
  /\ k \notin used /\ ~Taken(k, v)
  /\ row' = [row EXCEPT ![k] = v] /\ used' = used \cup {k}
  /\ UNCHANGED <<lines, warned, actorVars, since, lost>>

\* An update may give the classifier another code or country.
UpdateVatClassifier(k, v) ==
  /\ Stored(k) /\ ~Taken(k, v)
  /\ row' = [row EXCEPT ![k] = v]
  /\ NotingGone
  /\ UNCHANGED <<used, lines, warned, actorVars, since>>

\* The rows that hold an entry of the catalogue already.
Holding(e) == {k \in Ids : Stored(k) /\ row[k].country = e.country
                                     /\ row[k].code = e.code}

\* ImportCatalogCountry runs in one transaction.  It inserts the entries that
\* are missing, switched on, and in mode "all" overwrites the others, but for
\* the switch.
ImportCatalogCountry(n, missingOnly) ==
  LET entries == Catalogue[n]
      new == {e \in entries : Holding(e) = {}}
  IN  \E at \in Injection(new, Ids \ used) :
        /\ row' = [k \in Ids |->
             IF \E e \in new : at[e] = k THEN CHOOSE e \in new : at[e] = k
             ELSE IF ~missingOnly /\ \E e \in entries : k \in Holding(e)
               THEN [row[k] EXCEPT !.tariff =
                       (CHOOSE e \in entries : k \in Holding(e)).tariff]
               ELSE row[k]]
        /\ used' = used \cup {at[e] : e \in new}
        /\ UNCHANGED <<lines, warned, actorVars, since, lost>>

-------------------------------------------------------------------------------

Extract(w) ==
  \/ \E i \in Invoices : WorkerRead(w, i)
  \/ WorkerSave(w) \/ WorkerSaveDuplicate(w) \/ ActorEnds(w)

Request(r) ==
  \/ \E i \in Invoices : EditRead(r, i)
  \/ EditWrite(r)
  \/ \E k \in Ids : DeleteRead(r, k)
  \/ DeleteCount(r) \/ DeleteVatClassifier(r) \/ ActorEnds(r)

Settings ==
  \/ \E k \in Ids, v \in Forms : CreateVatClassifier(k, v) \/ UpdateVatClassifier(k, v)
  \/ \E n \in DOMAIN Catalogue, m \in BOOLEAN : ImportCatalogCountry(n, m)

Next ==
  \/ \E w \in Workers : Extract(w)
  \/ \E r \in Requests : Request(r)
  \/ Settings

Spec == Init /\ [][Next]_vars

-------------------------------------------------------------------------------
(* Properties                                                              *)

\* Type correctness: the tables and the locals of the actors stay in their sets.
TypeOK ==
  /\ row \in [Ids -> Classifiers \cup {NoRow}]
  /\ used \subseteq Ids /\ \A k \in Ids : Stored(k) => k \in used
  /\ DOMAIN lines = Invoices /\ DOMAIN tariffOf = Actors
  /\ \A i \in Invoices : /\ DOMAIN lines[i] \subseteq Codes \cup {Blank}
                         /\ \A c \in DOMAIN lines[i] :
                              lines[i][c] \in Tariffs \cup {Unset}
  /\ warned \in [Invoices -> SUBSET Codes]
  /\ pc \in [Actors -> {"idle", "extract", "edit", "count", "delete"}]
  /\ inv \in [Actors -> Invoices \cup {NoInvoice}]
  /\ target \in [Actors -> Ids \cup {NoId}]
  /\ code \in [Actors -> Codes \cup {NoCode}]
  /\ since \in [Actors -> SUBSET Invoices]
  /\ lost \in [Actors \cup Invoices -> SUBSET Codes]
  /\ \A a \in Actors : /\ pc[a] \in {"extract", "edit"} => inv[a] \in Invoices
                       /\ pc[a] \in {"count", "delete"} => target[a] \in Ids
                       /\ \A c \in DOMAIN tariffOf[a] : tariffOf[a][c] \in Tariffs

\* The warning on an invoice names just the lines whose code stands for no
\* tariff, whether a worker or a review wrote them last (invoice.go:473-475).  A
\* duplicate, which holds no lines, may keep a warning about those it had.
WarningMatchesLines ==
  \A i \in Invoices :
    DOMAIN lines[i] # {} =>
      warned[i] = {c \in DOMAIN lines[i] \ {Blank} : lines[i][c] = Unset}

\* QA.md:394: a line with a code that is not in the catalogue is flagged; unless
\* the last classifier with the code was renamed or deleted after the worker or
\* the review behind the line had read the classifiers.
UnknownIsFlagged ==
  \A i \in Invoices : \A c \in DOMAIN lines[i] \ {Blank} :
    c \in CodesOf(Rows(row)) \cup warned[i] \cup lost[i]

\* QA.md:397: a deletion orphans no line; but for those of invoices written after
\* it has counted, and for a classifier renamed after it has read the code.
DeletedIsUnused ==
  [][\A r \in Requests :
       (/\ pc[r] = "delete" /\ Stored(target[r]) /\ row'[target[r]] = NoRow
        /\ row[target[r]].code = code[r] /\ pc'[r] = "idle")
         => Users(code[r]) \subseteq since[r]]_vars

===============================================================================
