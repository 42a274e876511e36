-------------------------- MODULE VatClassifiersProofs --------------------------
(***************************************************************************)
(* Theorems about VatClassifiers, for any classifiers, catalogues, invoices*)
(* workers and requests: the warnings match the lines, a code without a    *)
(* classifier is flagged, and a deletion orphans no line it has counted.   *)
(***************************************************************************)
EXTENDS VatClassifiers, TLAPS

LEMMA NextSteps ==
  ASSUME [Next]_vars
  PROVE  \/ \E a \in Actors :
              \/ a \in Workers /\ \E i \in Invoices : WorkerRead(a, i)
              \/ a \in Workers /\ WorkerSave(a)
              \/ a \in Workers /\ WorkerSaveDuplicate(a)
              \/ a \in Requests /\ \E i \in Invoices : EditRead(a, i)
              \/ a \in Requests /\ EditWrite(a)
              \/ a \in Requests /\ \E k \in Ids : DeleteRead(a, k)
              \/ a \in Requests /\ DeleteCount(a)
              \/ a \in Requests /\ DeleteVatClassifier(a)
              \/ ActorEnds(a)
         \/ \E k \in Ids, v \in Forms : CreateVatClassifier(k, v)
         \/ \E k \in Ids, v \in Forms : UpdateVatClassifier(k, v)
         \/ \E n \in DOMAIN Catalogue, m \in BOOLEAN : ImportCatalogCountry(n, m)
         \/ UNCHANGED vars
BY DEF Next, Extract, Request, Settings, Actors

-------------------------------------------------------------------------------
(* Classifiers and codes                                                   *)

LEMMA EnteredTyped ==
  /\ \A v \in Entered : v \in Classifiers
  /\ \A r \in Classifiers : /\ r # NoRow /\ r.code \in Codes /\ r.tariff \in Tariffs
                            /\ \A t \in Tariffs : [r EXCEPT !.tariff = t] \in Classifiers
                            /\ \A t \in Tariffs : [r EXCEPT !.tariff = t].code = r.code
<1>1. \A v \in Entered : v \in Classifiers
  BY VatAssumption DEF Classifiers
<1>2. ASSUME NEW r \in Classifiers
      PROVE  /\ r # NoRow /\ r.code \in Codes /\ r.tariff \in Tariffs
             /\ \A t \in Tariffs : [r EXCEPT !.tariff = t] \in Classifiers
             /\ \A t \in Tariffs : [r EXCEPT !.tariff = t].code = r.code
  <2>1. r # NoRow
    BY VatAssumption
  <2>2. r.code \in Codes /\ r.tariff \in Tariffs
    BY VatAssumption DEF Classifiers, Codes, Tariffs
  <2>3. ASSUME NEW t \in Tariffs
        PROVE  /\ [r EXCEPT !.tariff = t] \in Classifiers
               /\ [r EXCEPT !.tariff = t].code = r.code
    BY DEF Classifiers, Tariffs
  <2>. QED
    BY <2>1, <2>2, <2>3
<1>. QED
  BY <1>1, <1>2

\* A map by code has tariffs for codes of the rows it was read from.
LEMMA MapTyped ==
  ASSUME NEW R, NEW f \in MapsRead(R)
  PROVE  \A c \in DOMAIN f : c \in CodesOf(R) /\ f[c] \in Tariffs
<1>1. PICK P \in SUBSET R : f \in TariffMaps(P)
  BY DEF MapsRead
<1>2. \A c \in DOMAIN f : c \in CodesOf(P) /\ f[c] \in Tariffs
  BY <1>1 DEF TariffMaps
<1>3. CodesOf(P) \subseteq CodesOf(R)
  BY <1>1 DEF CodesOf
<1>. QED
  BY <1>2, <1>3

\* What a save makes of the codes of an extraction.
LEMMA SavedLines ==
  ASSUME NEW C \in Extractions, NEW f, \A c \in DOMAIN f : f[c] \in Tariffs
  PROVE  /\ DOMAIN Lines(C, f) = C
         /\ C \subseteq Codes \cup {Blank} /\ Unknown(C, f) \subseteq Codes
         /\ \A c \in C : Lines(C, f)[c] \in Tariffs \cup {Unset}
         /\ Unknown(C, f) = {c \in C \ {Blank} : Lines(C, f)[c] = Unset}
<1>1. C \subseteq Codes \cup {Blank}
  BY DEF Codes
<1>2. \A c \in C : Lines(C, f)[c] = Unset <=> c \notin DOMAIN f
  BY VatAssumption DEF Lines
<1>. QED
  BY <1>1, <1>2 DEF Lines, Unknown

LEMMA EmptyLines == DOMAIN Empty = {}
BY DEF Empty

-------------------------------------------------------------------------------
(* Types                                                                   *)

RowsTyped ==
  /\ row \in [Ids -> Classifiers \cup {NoRow}]
  /\ used \subseteq Ids /\ \A k \in Ids : Stored(k) => k \in used

LinesTyped ==
  /\ DOMAIN lines = Invoices
  /\ \A i \in Invoices : /\ DOMAIN lines[i] \subseteq Codes \cup {Blank}
                         /\ \A c \in DOMAIN lines[i] :
                              lines[i][c] \in Tariffs \cup {Unset}
  /\ warned \in [Invoices -> SUBSET Codes]

LocalsTyped ==
  /\ DOMAIN tariffOf = Actors
  /\ pc \in [Actors -> {"idle", "extract", "edit", "count", "delete"}]
  /\ inv \in [Actors -> Invoices \cup {NoInvoice}]
  /\ target \in [Actors -> Ids \cup {NoId}]
  /\ code \in [Actors -> Codes \cup {NoCode}]
  /\ \A a \in Actors : /\ pc[a] \in {"extract", "edit"} => inv[a] \in Invoices
                       /\ pc[a] \in {"count", "delete"} => target[a] \in Ids
                       /\ \A c \in DOMAIN tariffOf[a] : tariffOf[a][c] \in Tariffs

HistoryTyped ==
  /\ since \in [Actors -> SUBSET Invoices]
  /\ lost \in [Actors \cup Invoices -> SUBSET Codes]

LEMMA TypeParts ==
  /\ TypeOK <=> RowsTyped /\ LinesTyped /\ LocalsTyped /\ HistoryTyped
  /\ TypeOK' <=> RowsTyped' /\ LinesTyped' /\ LocalsTyped' /\ HistoryTyped'
BY DEF TypeOK, RowsTyped, LinesTyped, LocalsTyped, HistoryTyped

LEMMA RowCodes ==
  ASSUME RowsTyped
  PROVE  /\ CodesOf(Rows(row)) \subseteq Codes
         /\ \A k \in Ids : Stored(k) => row[k].code \in Codes
BY EnteredTyped DEF RowsTyped, CodesOf, Rows, Stored

\* The import of a catalogue, entry by entry: a row keeps its code.
LEMMA ImportEffect ==
  ASSUME RowsTyped, NEW n \in DOMAIN Catalogue, NEW m \in BOOLEAN,
         ImportCatalogCountry(n, m)
  PROVE  /\ RowsTyped'
         /\ \A k \in Ids : Stored(k) => row'[k] # NoRow /\ row'[k].code = row[k].code
<1>. DEFINE entries == Catalogue[n]
            new == {e \in entries : Holding(e) = {}}
<1>1. PICK at \in Injection(new, Ids \ used) :
        /\ row' = [k \in Ids |->
             IF \E e \in new : at[e] = k THEN CHOOSE e \in new : at[e] = k
             ELSE IF ~m /\ \E e \in entries : k \in Holding(e)
               THEN [row[k] EXCEPT !.tariff =
                       (CHOOSE e \in entries : k \in Holding(e)).tariff]
               ELSE row[k]]
        /\ used' = used \cup {at[e] : e \in new}
  BY DEF ImportCatalogCountry
<1>2. entries \subseteq Entered /\ new \subseteq entries
  BY DEF Entered, Shipped
<1>3. \A e \in new : at[e] \in Ids \ used
  BY DEF Injection, IsInjective
<1>. HIDE DEF entries, new
<1>4. ASSUME NEW k \in Ids
      PROVE  /\ row'[k] \in Classifiers \cup {NoRow}
             /\ row'[k] # NoRow => k \in used'
             /\ Stored(k) => row'[k] # NoRow /\ row'[k].code = row[k].code
  <2>1. CASE \E e \in new : at[e] = k
    <3>1. row'[k] = CHOOSE e \in new : at[e] = k
      BY <1>1, <2>1
    <3>2. row'[k] \in new
      BY <2>1, <3>1
    <3>3. k \notin used /\ k \in used'
      BY <1>1, <1>3, <2>1
    <3>. QED
      BY <1>2, <3>2, <3>3, EnteredTyped DEF RowsTyped
  <2>2. CASE ~(\E e \in new : at[e] = k) /\ ~m /\ \E e \in entries : k \in Holding(e)
    <3>. DEFINE e == CHOOSE x \in entries : k \in Holding(x)
    <3>1. e \in entries /\ k \in Holding(e)
      BY <2>2
    <3>2. row'[k] = [row[k] EXCEPT !.tariff = e.tariff]
      BY <1>1, <2>2
    <3>. HIDE DEF e
    <3>3. row[k] \in Classifiers /\ k \in used
      BY <3>1 DEF Holding, RowsTyped, Stored
    <3>4. e.tariff \in Tariffs
      BY <1>2, <3>1, EnteredTyped
    <3>5. row'[k] \in Classifiers /\ row'[k].code = row[k].code
      BY <3>2, <3>3, <3>4, EnteredTyped
    <3>6. k \in used'
      BY <1>1, <3>3
    <3>. QED
      BY <3>5, <3>6, EnteredTyped
  <2>3. CASE ~(\E e \in new : at[e] = k) /\ ~(~m /\ \E e \in entries : k \in Holding(e))
    <3>1. row'[k] = row[k]
      BY <1>1, <2>3
    <3>. QED
      BY <1>1, <3>1 DEF RowsTyped, Stored
  <2>. QED
    BY <2>1, <2>2, <2>3
<1>5. row' \in [Ids -> Classifiers \cup {NoRow}]
  BY <1>1, <1>4
<1>6. used' \subseteq Ids
  BY <1>1, <1>3 DEF RowsTyped
<1>. QED
  BY <1>4, <1>5, <1>6 DEF RowsTyped, Stored

\* The classifiers keep their types.
LEMMA RowsStep ==
  ASSUME RowsTyped, LocalsTyped, [Next]_vars
  PROVE  RowsTyped'
<1>1. ASSUME NEW a \in Actors, a \in Workers, NEW i \in Invoices, WorkerRead(a, i)
      PROVE  RowsTyped'
  BY <1>1 DEF WorkerRead, Go, NotingRead, tableVars, RowsTyped, Stored
<1>2. ASSUME NEW a \in Actors, a \in Workers, WorkerSave(a)
      PROVE  RowsTyped'
  BY <1>2 DEF WorkerSave, Return, Go, NotingWrite, RowsTyped, Stored
<1>3. ASSUME NEW a \in Actors, a \in Workers, WorkerSaveDuplicate(a)
      PROVE  RowsTyped'
  BY <1>3 DEF WorkerSaveDuplicate, Return, Go, NotingWrite, RowsTyped, Stored
<1>4. ASSUME NEW a \in Actors, a \in Requests, NEW i \in Invoices, EditRead(a, i)
      PROVE  RowsTyped'
  BY <1>4 DEF EditRead, Go, NotingRead, tableVars, RowsTyped, Stored
<1>5. ASSUME NEW a \in Actors, a \in Requests, EditWrite(a)
      PROVE  RowsTyped'
  BY <1>5 DEF EditWrite, Return, Go, NotingWrite, RowsTyped, Stored
<1>6. ASSUME NEW a \in Actors, a \in Requests, NEW k \in Ids, DeleteRead(a, k)
      PROVE  RowsTyped'
  BY <1>6 DEF DeleteRead, Go, tableVars, RowsTyped, Stored
<1>7. ASSUME NEW a \in Actors, a \in Requests, DeleteCount(a)
      PROVE  RowsTyped'
  BY <1>7 DEF DeleteCount, Go, tableVars, RowsTyped, Stored
<1>8. ASSUME NEW a \in Actors, a \in Requests, DeleteVatClassifier(a)
      PROVE  RowsTyped'
  BY <1>8 DEF DeleteVatClassifier, Return, Go, RowsTyped, Stored, LocalsTyped
<1>9. ASSUME NEW a \in Actors, ActorEnds(a)
      PROVE  RowsTyped'
  BY <1>9 DEF ActorEnds, Return, Go, tableVars, RowsTyped, Stored
<1>10. ASSUME NEW k \in Ids, NEW v \in Forms, CreateVatClassifier(k, v)
       PROVE  RowsTyped'
  BY <1>10, EnteredTyped DEF CreateVatClassifier, actorVars, RowsTyped, Stored,
     Entered
<1>11. ASSUME NEW k \in Ids, NEW v \in Forms, UpdateVatClassifier(k, v)
       PROVE  RowsTyped'
  BY <1>11, EnteredTyped DEF UpdateVatClassifier, actorVars, RowsTyped, Stored,
     Entered
<1>12. ASSUME NEW n \in DOMAIN Catalogue, NEW m \in BOOLEAN,
              ImportCatalogCountry(n, m)
       PROVE  RowsTyped'
  BY <1>12, ImportEffect
<1>13. CASE UNCHANGED vars
  BY <1>13 DEF vars, tableVars, actorVars, RowsTyped, Stored
<1>. QED
  BY NextSteps, <1>1, <1>2, <1>3, <1>4, <1>5, <1>6, <1>7, <1>8, <1>9, <1>10,
     <1>11, <1>12, <1>13

\* The lines and the warnings keep theirs.
LEMMA LinesStep ==
  ASSUME LinesTyped, LocalsTyped, [Next]_vars
  PROVE  LinesTyped'
<1>1. ASSUME NEW a \in Actors, a \in Workers, NEW i \in Invoices, WorkerRead(a, i)
      PROVE  LinesTyped'
  BY <1>1 DEF WorkerRead, Go, NotingRead, tableVars, LinesTyped
<1>2. ASSUME NEW a \in Actors, a \in Workers, WorkerSave(a)
      PROVE  LinesTyped'
  <2>1. PICK C \in Extractions :
          /\ lines'  = [lines  EXCEPT ![inv[a]] = Lines(C, tariffOf[a])]
          /\ warned' = [warned EXCEPT ![inv[a]] = Unknown(C, tariffOf[a])]
    BY <1>2 DEF WorkerSave
  <2>2. inv[a] \in Invoices /\ \A c \in DOMAIN tariffOf[a] : tariffOf[a][c] \in Tariffs
    BY <1>2 DEF WorkerSave, LocalsTyped
  <2>. QED
    BY <2>1, <2>2, SavedLines DEF LinesTyped
<1>3. ASSUME NEW a \in Actors, a \in Workers, WorkerSaveDuplicate(a)
      PROVE  LinesTyped'
  <2>1. PICK C \in Extractions :
          /\ lines' = [lines EXCEPT ![inv[a]] = Empty]
          /\ warned' = [warned EXCEPT ![inv[a]] = Unknown(C, tariffOf[a])]
    BY <1>3 DEF WorkerSaveDuplicate
  <2>2. inv[a] \in Invoices /\ \A c \in DOMAIN tariffOf[a] : tariffOf[a][c] \in Tariffs
    BY <1>3 DEF WorkerSaveDuplicate, LocalsTyped
  <2>. QED
    BY <2>1, <2>2, SavedLines, EmptyLines DEF LinesTyped
<1>4. ASSUME NEW a \in Actors, a \in Requests, NEW i \in Invoices, EditRead(a, i)
      PROVE  LinesTyped'
  BY <1>4 DEF EditRead, Go, NotingRead, tableVars, LinesTyped
<1>5. ASSUME NEW a \in Actors, a \in Requests, EditWrite(a)
      PROVE  LinesTyped'
  <2>1. PICK C \in Extractions :
          /\ lines'  = [lines  EXCEPT ![inv[a]] = Lines(C, tariffOf[a])]
          /\ warned' = [warned EXCEPT ![inv[a]] = Unknown(C, tariffOf[a])]
    BY <1>5 DEF EditWrite
  <2>2. inv[a] \in Invoices /\ \A c \in DOMAIN tariffOf[a] : tariffOf[a][c] \in Tariffs
    BY <1>5 DEF EditWrite, LocalsTyped
  <2>. QED
    BY <2>1, <2>2, SavedLines DEF LinesTyped
<1>6. ASSUME NEW a \in Actors, a \in Requests, NEW k \in Ids, DeleteRead(a, k)
      PROVE  LinesTyped'
  BY <1>6 DEF DeleteRead, Go, tableVars, LinesTyped
<1>7. ASSUME NEW a \in Actors, a \in Requests, DeleteCount(a)
      PROVE  LinesTyped'
  BY <1>7 DEF DeleteCount, Go, tableVars, LinesTyped
<1>8. ASSUME NEW a \in Actors, a \in Requests, DeleteVatClassifier(a)
      PROVE  LinesTyped'
  BY <1>8 DEF DeleteVatClassifier, Return, Go, LinesTyped
<1>9. ASSUME NEW a \in Actors, ActorEnds(a)
      PROVE  LinesTyped'
  BY <1>9 DEF ActorEnds, Return, Go, tableVars, LinesTyped
<1>10. ASSUME NEW k \in Ids, NEW v \in Forms, CreateVatClassifier(k, v)
       PROVE  LinesTyped'
  BY <1>10 DEF CreateVatClassifier, actorVars, LinesTyped
<1>11. ASSUME NEW k \in Ids, NEW v \in Forms, UpdateVatClassifier(k, v)
       PROVE  LinesTyped'
  BY <1>11 DEF UpdateVatClassifier, actorVars, LinesTyped
<1>12. ASSUME NEW n \in DOMAIN Catalogue, NEW m \in BOOLEAN,
              ImportCatalogCountry(n, m)
       PROVE  LinesTyped'
  BY <1>12 DEF ImportCatalogCountry, actorVars, LinesTyped
<1>13. CASE UNCHANGED vars
  BY <1>13 DEF vars, tableVars, actorVars, LinesTyped
<1>. QED
  BY NextSteps, <1>1, <1>2, <1>3, <1>4, <1>5, <1>6, <1>7, <1>8, <1>9, <1>10,
     <1>11, <1>12, <1>13

\* So do the locals.
LEMMA LocalsStep ==
  ASSUME RowsTyped, LocalsTyped, [Next]_vars
  PROVE  LocalsTyped'
<1>1. ASSUME NEW a \in Actors, a \in Workers, NEW i \in Invoices, WorkerRead(a, i)
      PROVE  LocalsTyped'
  <2>1. PICK f \in MapsRead({v \in Rows(row) : v.active}) :
          Go(a, "extract", i, f, NoId, NoCode)
    BY <1>1 DEF WorkerRead
  <2>2. \A c \in DOMAIN f : f[c] \in Tariffs
    BY MapTyped
  <2>. QED
    BY <2>1, <2>2 DEF LocalsTyped, Go
<1>2. ASSUME NEW a \in Actors, a \in Workers, WorkerSave(a)
      PROVE  LocalsTyped'
  BY <1>2 DEF WorkerSave, Return, Go, NotingWrite, LocalsTyped, Empty
<1>3. ASSUME NEW a \in Actors, a \in Workers, WorkerSaveDuplicate(a)
      PROVE  LocalsTyped'
  BY <1>3 DEF WorkerSaveDuplicate, Return, Go, NotingWrite, LocalsTyped, Empty
<1>4. ASSUME NEW a \in Actors, a \in Requests, NEW i \in Invoices, EditRead(a, i)
      PROVE  LocalsTyped'
  <2>1. PICK f \in MapsRead(Rows(row)) :
          Go(a, "edit", i, f, NoId, NoCode)
    BY <1>4 DEF EditRead
  <2>2. \A c \in DOMAIN f : f[c] \in Tariffs
    BY MapTyped
  <2>. QED
    BY <2>1, <2>2 DEF LocalsTyped, Go
<1>5. ASSUME NEW a \in Actors, a \in Requests, EditWrite(a)
      PROVE  LocalsTyped'
  BY <1>5 DEF EditWrite, Return, Go, NotingWrite, LocalsTyped, Empty
<1>6. ASSUME NEW a \in Actors, a \in Requests, NEW k \in Ids, DeleteRead(a, k)
      PROVE  LocalsTyped'
  BY <1>6, RowCodes DEF DeleteRead, Go, tableVars, LocalsTyped, Empty
<1>7. ASSUME NEW a \in Actors, a \in Requests, DeleteCount(a)
      PROVE  LocalsTyped'
  BY <1>7 DEF DeleteCount, Go, tableVars, LocalsTyped, Empty
<1>8. ASSUME NEW a \in Actors, a \in Requests, DeleteVatClassifier(a)
      PROVE  LocalsTyped'
  BY <1>8 DEF DeleteVatClassifier, Return, Go, LocalsTyped, Empty
<1>9. ASSUME NEW a \in Actors, ActorEnds(a)
      PROVE  LocalsTyped'
  BY <1>9 DEF ActorEnds, Return, Go, tableVars, LocalsTyped, Empty
<1>10. ASSUME NEW k \in Ids, NEW v \in Forms, CreateVatClassifier(k, v)
       PROVE  LocalsTyped'
  BY <1>10 DEF CreateVatClassifier, actorVars, LocalsTyped
<1>11. ASSUME NEW k \in Ids, NEW v \in Forms, UpdateVatClassifier(k, v)
       PROVE  LocalsTyped'
  BY <1>11 DEF UpdateVatClassifier, actorVars, LocalsTyped
<1>12. ASSUME NEW n \in DOMAIN Catalogue, NEW m \in BOOLEAN,
              ImportCatalogCountry(n, m)
       PROVE  LocalsTyped'
  BY <1>12 DEF ImportCatalogCountry, actorVars, LocalsTyped
<1>13. CASE UNCHANGED vars
  BY <1>13 DEF vars, tableVars, actorVars, LocalsTyped
<1>. QED
  BY NextSteps, <1>1, <1>2, <1>3, <1>4, <1>5, <1>6, <1>7, <1>8, <1>9, <1>10,
     <1>11, <1>12, <1>13

\* And the histories.
LEMMA HistoryStep ==
  ASSUME RowsTyped, LinesTyped, LocalsTyped, HistoryTyped, RowsTyped', [Next]_vars
  PROVE  HistoryTyped'
<1>1. ASSUME NEW a \in Actors, a \in Workers, NEW i \in Invoices, WorkerRead(a, i)
      PROVE  HistoryTyped'
  BY <1>1 DEF WorkerRead, Go, NotingRead, tableVars, HistoryTyped
<1>2. ASSUME NEW a \in Actors, a \in Workers, WorkerSave(a)
      PROVE  HistoryTyped'
  BY <1>2 DEF WorkerSave, Return, Go, NotingWrite, HistoryTyped, LocalsTyped
<1>3. ASSUME NEW a \in Actors, a \in Workers, WorkerSaveDuplicate(a)
      PROVE  HistoryTyped'
  BY <1>3 DEF WorkerSaveDuplicate, Return, Go, NotingWrite, HistoryTyped,
     LocalsTyped
<1>4. ASSUME NEW a \in Actors, a \in Requests, NEW i \in Invoices, EditRead(a, i)
      PROVE  HistoryTyped'
  BY <1>4 DEF EditRead, Go, NotingRead, tableVars, HistoryTyped
<1>5. ASSUME NEW a \in Actors, a \in Requests, EditWrite(a)
      PROVE  HistoryTyped'
  BY <1>5 DEF EditWrite, Return, Go, NotingWrite, HistoryTyped, LocalsTyped
<1>6. ASSUME NEW a \in Actors, a \in Requests, NEW k \in Ids, DeleteRead(a, k)
      PROVE  HistoryTyped'
  BY <1>6 DEF DeleteRead, Go, tableVars, HistoryTyped
<1>7. ASSUME NEW a \in Actors, a \in Requests, DeleteCount(a)
      PROVE  HistoryTyped'
  BY <1>7 DEF DeleteCount, Go, tableVars, HistoryTyped
<1>8. ASSUME NEW a \in Actors, a \in Requests, DeleteVatClassifier(a)
      PROVE  HistoryTyped'
  BY <1>8, RowCodes DEF DeleteVatClassifier, Return, Go, HistoryTyped, NotingGone
<1>9. ASSUME NEW a \in Actors, ActorEnds(a)
      PROVE  HistoryTyped'
  BY <1>9 DEF ActorEnds, Return, Go, tableVars, HistoryTyped
<1>10. ASSUME NEW k \in Ids, NEW v \in Forms, CreateVatClassifier(k, v)
       PROVE  HistoryTyped'
  BY <1>10 DEF CreateVatClassifier, actorVars, HistoryTyped
<1>11. ASSUME NEW k \in Ids, NEW v \in Forms, UpdateVatClassifier(k, v)
       PROVE  HistoryTyped'
  BY <1>11, RowCodes DEF UpdateVatClassifier, actorVars, HistoryTyped, NotingGone
<1>12. ASSUME NEW n \in DOMAIN Catalogue, NEW m \in BOOLEAN,
              ImportCatalogCountry(n, m)
       PROVE  HistoryTyped'
  BY <1>12 DEF ImportCatalogCountry, actorVars, HistoryTyped
<1>13. CASE UNCHANGED vars
  BY <1>13 DEF vars, tableVars, actorVars, HistoryTyped
<1>. QED
  BY NextSteps, <1>1, <1>2, <1>3, <1>4, <1>5, <1>6, <1>7, <1>8, <1>9, <1>10,
     <1>11, <1>12, <1>13

-------------------------------------------------------------------------------
(* Warnings                                                                *)

\* A save sets the lines and the warning from one map.
LEMMA WarningStep ==
  ASSUME LinesTyped, LocalsTyped, WarningMatchesLines, [Next]_vars
  PROVE  WarningMatchesLines'
<1>1. ASSUME NEW a \in Actors, a \in Workers, NEW i \in Invoices, WorkerRead(a, i)
      PROVE  WarningMatchesLines'
  BY <1>1 DEF WorkerRead, Go, NotingRead, tableVars, WarningMatchesLines
<1>2. ASSUME NEW a \in Actors, a \in Workers, WorkerSave(a)
      PROVE  WarningMatchesLines'
  <2>1. PICK C \in Extractions :
          /\ lines'  = [lines  EXCEPT ![inv[a]] = Lines(C, tariffOf[a])]
          /\ warned' = [warned EXCEPT ![inv[a]] = Unknown(C, tariffOf[a])]
    BY <1>2 DEF WorkerSave
  <2>2. inv[a] \in Invoices /\ \A c \in DOMAIN tariffOf[a] : tariffOf[a][c] \in Tariffs
    BY <1>2 DEF WorkerSave, LocalsTyped
  <2>3. DOMAIN lines = Invoices /\ DOMAIN warned = Invoices
    BY DEF LinesTyped
  <2>4. ASSUME NEW i \in Invoices, DOMAIN lines'[i] # {}
        PROVE  warned'[i] = {c \in DOMAIN lines'[i] \ {Blank} : lines'[i][c] = Unset}
    <3>1. CASE i = inv[a]
      <4>1. lines'[i] = Lines(C, tariffOf[a]) /\ warned'[i] = Unknown(C, tariffOf[a])
        BY <2>1, <2>3, <3>1
      <4>. QED
        BY <2>2, <4>1, SavedLines
    <3>2. CASE i # inv[a]
      <4>1. lines'[i] = lines[i] /\ warned'[i] = warned[i]
        BY <2>1, <2>3, <3>2
      <4>. QED
        BY <2>4, <4>1 DEF WarningMatchesLines
    <3>. QED
      BY <3>1, <3>2
  <2>. QED
    BY <2>4 DEF WarningMatchesLines
<1>3. ASSUME NEW a \in Actors, a \in Workers, WorkerSaveDuplicate(a)
      PROVE  WarningMatchesLines'
  <2>1. PICK C \in Extractions :
          /\ lines' = [lines EXCEPT ![inv[a]] = Empty]
          /\ warned' = [warned EXCEPT ![inv[a]] = Unknown(C, tariffOf[a])]
    BY <1>3 DEF WorkerSaveDuplicate
  <2>. QED
    BY <2>1, EmptyLines DEF LinesTyped, WarningMatchesLines
<1>4. ASSUME NEW a \in Actors, a \in Requests, NEW i \in Invoices, EditRead(a, i)
      PROVE  WarningMatchesLines'
  BY <1>4 DEF EditRead, Go, NotingRead, tableVars, WarningMatchesLines
<1>5. ASSUME NEW a \in Actors, a \in Requests, EditWrite(a)
      PROVE  WarningMatchesLines'
  <2>1. PICK C \in Extractions :
          /\ lines'  = [lines  EXCEPT ![inv[a]] = Lines(C, tariffOf[a])]
          /\ warned' = [warned EXCEPT ![inv[a]] = Unknown(C, tariffOf[a])]
    BY <1>5 DEF EditWrite
  <2>2. inv[a] \in Invoices /\ \A c \in DOMAIN tariffOf[a] : tariffOf[a][c] \in Tariffs
    BY <1>5 DEF EditWrite, LocalsTyped
  <2>3. DOMAIN lines = Invoices /\ DOMAIN warned = Invoices
    BY DEF LinesTyped
  <2>4. ASSUME NEW i \in Invoices, DOMAIN lines'[i] # {}
        PROVE  warned'[i] = {c \in DOMAIN lines'[i] \ {Blank} : lines'[i][c] = Unset}
    <3>1. CASE i = inv[a]
      <4>1. lines'[i] = Lines(C, tariffOf[a]) /\ warned'[i] = Unknown(C, tariffOf[a])
        BY <2>1, <2>3, <3>1
      <4>. QED
        BY <2>2, <4>1, SavedLines
    <3>2. CASE i # inv[a]
      <4>1. lines'[i] = lines[i] /\ warned'[i] = warned[i]
        BY <2>1, <2>3, <3>2
      <4>. QED
        BY <2>4, <4>1 DEF WarningMatchesLines
    <3>. QED
      BY <3>1, <3>2
  <2>. QED
    BY <2>4 DEF WarningMatchesLines
<1>6. ASSUME NEW a \in Actors, a \in Requests, NEW k \in Ids, DeleteRead(a, k)
      PROVE  WarningMatchesLines'
  BY <1>6 DEF DeleteRead, Go, tableVars, WarningMatchesLines
<1>7. ASSUME NEW a \in Actors, a \in Requests, DeleteCount(a)
      PROVE  WarningMatchesLines'
  BY <1>7 DEF DeleteCount, Go, tableVars, WarningMatchesLines
<1>8. ASSUME NEW a \in Actors, a \in Requests, DeleteVatClassifier(a)
      PROVE  WarningMatchesLines'
  BY <1>8 DEF DeleteVatClassifier, Return, Go, WarningMatchesLines
<1>9. ASSUME NEW a \in Actors, ActorEnds(a)
      PROVE  WarningMatchesLines'
  BY <1>9 DEF ActorEnds, Return, Go, tableVars, WarningMatchesLines
<1>10. ASSUME NEW k \in Ids, NEW v \in Forms, CreateVatClassifier(k, v)
       PROVE  WarningMatchesLines'
  BY <1>10 DEF CreateVatClassifier, actorVars, WarningMatchesLines
<1>11. ASSUME NEW k \in Ids, NEW v \in Forms, UpdateVatClassifier(k, v)
       PROVE  WarningMatchesLines'
  BY <1>11 DEF UpdateVatClassifier, actorVars, WarningMatchesLines
<1>12. ASSUME NEW n \in DOMAIN Catalogue, NEW m \in BOOLEAN,
              ImportCatalogCountry(n, m)
       PROVE  WarningMatchesLines'
  BY <1>12 DEF ImportCatalogCountry, actorVars, WarningMatchesLines
<1>13. CASE UNCHANGED vars
  BY <1>13 DEF vars, tableVars, actorVars, WarningMatchesLines
<1>. QED
  BY NextSteps, <1>1, <1>2, <1>3, <1>4, <1>5, <1>6, <1>7, <1>8, <1>9, <1>10,
     <1>11, <1>12, <1>13

-------------------------------------------------------------------------------
(* Codes that leave the classifiers                                        *)

\* The codes that an extraction or a review has read are still there, or are
\* known to have gone since.
ReadsKnown ==
  \A a \in Actors : pc[a] \in {"extract", "edit"} =>
    \A c \in DOMAIN tariffOf[a] : c \in CodesOf(Rows(row)) \cup lost[a]

\* Only a deletion and an update take codes away, and they are noted.
LEMMA CodesStep ==
  ASSUME RowsTyped, LocalsTyped, [Next]_vars
  PROVE  CodesOf(Rows(row)) \subseteq CodesOf(Rows(row')) \/ NotingGone
<1>1. ASSUME \A k \in Ids : Stored(k) =>
               row'[k] # NoRow /\ row'[k].code = row[k].code
      PROVE  CodesOf(Rows(row)) \subseteq CodesOf(Rows(row'))
  BY <1>1 DEF CodesOf, Rows, Stored
<1>2. ASSUME NEW k \in Ids, NEW v \in Forms, CreateVatClassifier(k, v)
      PROVE  CodesOf(Rows(row)) \subseteq CodesOf(Rows(row'))
  <2>1. k \notin used /\ row' = [row EXCEPT ![k] = v]
    BY <1>2 DEF CreateVatClassifier
  <2>. QED
    BY <1>1, <2>1 DEF RowsTyped, Stored
<1>3. ASSUME NEW n \in DOMAIN Catalogue, NEW m \in BOOLEAN,
             ImportCatalogCountry(n, m)
      PROVE  CodesOf(Rows(row)) \subseteq CodesOf(Rows(row'))
  BY <1>1, <1>3, ImportEffect
<1>4. ASSUME NEW k \in Ids, NEW v \in Forms, UpdateVatClassifier(k, v)
      PROVE  NotingGone
  BY <1>4 DEF UpdateVatClassifier
<1>5. ASSUME NEW a \in Actors, DeleteVatClassifier(a)
      PROVE  NotingGone
  BY <1>5 DEF DeleteVatClassifier
<1>6. ASSUME UNCHANGED row
      PROVE  CodesOf(Rows(row)) \subseteq CodesOf(Rows(row'))
  BY <1>6
<1>. QED
  BY NextSteps, <1>2, <1>3, <1>4, <1>5, <1>6
     DEF WorkerRead, WorkerSave, WorkerSaveDuplicate, EditRead, EditWrite, DeleteRead,
         DeleteCount, ActorEnds, tableVars, vars

\* What is noted for an actor at work and for an invoice.
LEMMA GoneNoted ==
  ASSUME NotingGone
  PROVE  /\ \A a \in Actors : pc[a] \in {"extract", "edit"} =>
              lost'[a] = lost[a] \cup (CodesOf(Rows(row)) \ CodesOf(Rows(row')))
         /\ \A i \in Invoices :
              lost'[i] = lost[i] \cup ((CodesOf(Rows(row)) \ CodesOf(Rows(row')))
                                         \cap DOMAIN lines[i])
BY VatAssumption DEF NotingGone

LEMMA WriteNoted ==
  ASSUME HistoryTyped, NEW a \in Actors, NEW i \in Invoices, NEW C,
         NotingWrite(a, i, C)
  PROVE  /\ lost'[i] = lost[a] \cap C
         /\ \A x \in Actors \cup Invoices : x # i /\ x # a => lost'[x] = lost[x]
         /\ \A r \in Actors : pc[r] = "delete" => since'[r] = since[r] \cup {i}
BY VatAssumption DEF NotingWrite, HistoryTyped

\* A read takes its codes from the rows, and what goes later is noted.
LEMMA ReadsStep ==
  ASSUME RowsTyped, LinesTyped, LocalsTyped, HistoryTyped, ReadsKnown, [Next]_vars
  PROVE  ReadsKnown'
<1>1. ASSUME NEW a \in Actors, a \in Workers, NEW i \in Invoices, WorkerRead(a, i)
      PROVE  ReadsKnown'
  <2>1. PICK f \in MapsRead({v \in Rows(row) : v.active}) :
          Go(a, "extract", i, f, NoId, NoCode)
    BY <1>1 DEF WorkerRead
  <2>2. \A c \in DOMAIN f : c \in CodesOf(Rows(row))
    BY MapTyped DEF CodesOf
  <2>3. row' = row
    BY <1>1 DEF WorkerRead, tableVars
  <2>4. \A b \in Actors : b # a => pc'[b] = pc[b] /\ tariffOf'[b] = tariffOf[b]
                                    /\ lost'[b] = lost[b]
    BY <1>1, <2>1 DEF WorkerRead, Go, NotingRead, LocalsTyped, HistoryTyped
  <2>5. tariffOf'[a] = f
    BY <2>1 DEF Go, LocalsTyped
  <2>. QED
    BY <2>2, <2>3, <2>4, <2>5 DEF ReadsKnown
<1>2. ASSUME NEW a \in Actors, a \in Workers, WorkerSave(a)
      PROVE  ReadsKnown'
  <2>1. row' = row /\ pc'[a] = "idle"
    BY <1>2 DEF WorkerSave, Return, Go, LocalsTyped
  <2>2. \E C : NotingWrite(a, inv[a], C) /\ inv[a] \in Invoices
    BY <1>2 DEF WorkerSave, LocalsTyped
  <2>3. \A b \in Actors : b # a => /\ pc'[b] = pc[b] /\ tariffOf'[b] = tariffOf[b]
                                   /\ lost'[b] = lost[b]
    BY <1>2, <2>2, WriteNoted, VatAssumption DEF WorkerSave, Return, Go,
       LocalsTyped
  <2>. QED
    BY <2>1, <2>3 DEF ReadsKnown
<1>3. ASSUME NEW a \in Actors, a \in Workers, WorkerSaveDuplicate(a)
      PROVE  ReadsKnown'
  <2>1. row' = row /\ pc'[a] = "idle"
    BY <1>3 DEF WorkerSaveDuplicate, Return, Go, LocalsTyped
  <2>2. \E C : NotingWrite(a, inv[a], C) /\ inv[a] \in Invoices
    BY <1>3 DEF WorkerSaveDuplicate, LocalsTyped
  <2>3. \A b \in Actors : b # a => /\ pc'[b] = pc[b] /\ tariffOf'[b] = tariffOf[b]
                                   /\ lost'[b] = lost[b]
    BY <1>3, <2>2, WriteNoted, VatAssumption DEF WorkerSaveDuplicate, Return,
       Go, LocalsTyped
  <2>. QED
    BY <2>1, <2>3 DEF ReadsKnown
<1>4. ASSUME NEW a \in Actors, a \in Requests, NEW i \in Invoices, EditRead(a, i)
      PROVE  ReadsKnown'
  <2>1. PICK f \in MapsRead(Rows(row)) :
          Go(a, "edit", i, f, NoId, NoCode)
    BY <1>4 DEF EditRead
  <2>2. \A c \in DOMAIN f : c \in CodesOf(Rows(row))
    BY MapTyped DEF CodesOf
  <2>3. row' = row
    BY <1>4 DEF EditRead, tableVars
  <2>4. \A b \in Actors : b # a => pc'[b] = pc[b] /\ tariffOf'[b] = tariffOf[b]
                                    /\ lost'[b] = lost[b]
    BY <1>4, <2>1 DEF EditRead, Go, NotingRead, LocalsTyped, HistoryTyped
  <2>5. tariffOf'[a] = f
    BY <2>1 DEF Go, LocalsTyped
  <2>. QED
    BY <2>2, <2>3, <2>4, <2>5 DEF ReadsKnown
<1>5. ASSUME NEW a \in Actors, a \in Requests, EditWrite(a)
      PROVE  ReadsKnown'
  <2>1. row' = row /\ pc'[a] = "idle"
    BY <1>5 DEF EditWrite, Return, Go, LocalsTyped
  <2>2. \E C : NotingWrite(a, inv[a], C) /\ inv[a] \in Invoices
    BY <1>5 DEF EditWrite, LocalsTyped
  <2>3. \A b \in Actors : b # a => /\ pc'[b] = pc[b] /\ tariffOf'[b] = tariffOf[b]
                                   /\ lost'[b] = lost[b]
    BY <1>5, <2>2, WriteNoted, VatAssumption DEF EditWrite, Return, Go,
       LocalsTyped
  <2>. QED
    BY <2>1, <2>3 DEF ReadsKnown
<1>6. ASSUME NEW a \in Actors, a \in Requests, NEW k \in Ids, DeleteRead(a, k)
      PROVE  ReadsKnown'
  BY <1>6 DEF DeleteRead, Go, tableVars, ReadsKnown, LocalsTyped
<1>7. ASSUME NEW a \in Actors, a \in Requests, DeleteCount(a)
      PROVE  ReadsKnown'
  BY <1>7 DEF DeleteCount, Go, tableVars, ReadsKnown, LocalsTyped
<1>8. ASSUME NEW a \in Actors, a \in Requests, DeleteVatClassifier(a)
      PROVE  ReadsKnown'
  <2>1. NotingGone
    BY <1>8 DEF DeleteVatClassifier
  <2>2. \A b \in Actors : pc'[b] \in {"extract", "edit"} =>
          pc'[b] = pc[b] /\ tariffOf'[b] = tariffOf[b]
    BY <1>8 DEF DeleteVatClassifier, Return, Go, LocalsTyped
  <2>. QED
    BY <2>1, <2>2, GoneNoted DEF ReadsKnown
<1>9. ASSUME NEW a \in Actors, ActorEnds(a)
      PROVE  ReadsKnown'
  BY <1>9 DEF ActorEnds, Return, Go, tableVars, ReadsKnown, LocalsTyped,
     HistoryTyped
<1>10. ASSUME NEW k \in Ids, NEW v \in Forms, CreateVatClassifier(k, v)
       PROVE  ReadsKnown'
  <2>1. CodesOf(Rows(row)) \subseteq CodesOf(Rows(row')) \/ NotingGone
    BY CodesStep
  <2>2. UNCHANGED <<pc, tariffOf, lost>>
    BY <1>10 DEF CreateVatClassifier, actorVars
  <2>. QED
    BY <2>1, <2>2, GoneNoted DEF ReadsKnown
<1>11. ASSUME NEW k \in Ids, NEW v \in Forms, UpdateVatClassifier(k, v)
       PROVE  ReadsKnown'
  <2>1. NotingGone
    BY <1>11 DEF UpdateVatClassifier
  <2>2. \A b \in Actors : pc'[b] \in {"extract", "edit"} =>
          pc'[b] = pc[b] /\ tariffOf'[b] = tariffOf[b]
    BY <1>11 DEF UpdateVatClassifier, actorVars
  <2>. QED
    BY <2>1, <2>2, GoneNoted DEF ReadsKnown
<1>12. ASSUME NEW n \in DOMAIN Catalogue, NEW m \in BOOLEAN,
              ImportCatalogCountry(n, m)
       PROVE  ReadsKnown'
  <2>1. CodesOf(Rows(row)) \subseteq CodesOf(Rows(row')) \/ NotingGone
    BY CodesStep
  <2>2. UNCHANGED <<pc, tariffOf, lost>>
    BY <1>12 DEF ImportCatalogCountry, actorVars
  <2>. QED
    BY <2>1, <2>2, GoneNoted DEF ReadsKnown
<1>13. CASE UNCHANGED vars
  BY <1>13 DEF vars, tableVars, actorVars, ReadsKnown
<1>. QED
  BY NextSteps, <1>1, <1>2, <1>3, <1>4, <1>5, <1>6, <1>7, <1>8, <1>9, <1>10,
     <1>11, <1>12, <1>13

\* A save flags the codes it did not read; later ones are noted.
LEMMA FlaggedStep ==
  ASSUME RowsTyped, LinesTyped, LocalsTyped, HistoryTyped, ReadsKnown, UnknownIsFlagged,
         [Next]_vars
  PROVE  UnknownIsFlagged'
<1>1. ASSUME NEW a \in Actors, a \in Workers, NEW i \in Invoices, WorkerRead(a, i)
      PROVE  UnknownIsFlagged'
  <2>1. UNCHANGED <<row, lines, warned>>
    BY <1>1 DEF WorkerRead, tableVars
  <2>2. \A j \in Invoices : lost'[j] = lost[j]
    BY <1>1, VatAssumption DEF WorkerRead, HistoryTyped, NotingRead
  <2>. QED
    BY <2>1, <2>2 DEF UnknownIsFlagged
<1>2. ASSUME NEW a \in Actors, a \in Workers, WorkerSave(a)
      PROVE  UnknownIsFlagged'
  <2>1. PICK C \in Extractions :
          /\ lines'  = [lines  EXCEPT ![inv[a]] = Lines(C, tariffOf[a])]
          /\ warned' = [warned EXCEPT ![inv[a]] = Unknown(C, tariffOf[a])]
          /\ NotingWrite(a, inv[a], C)
    BY <1>2 DEF WorkerSave
  <2>2. /\ inv[a] \in Invoices /\ row' = row /\ pc[a] \in {"extract", "edit"}
        /\ \A c \in DOMAIN tariffOf[a] : tariffOf[a][c] \in Tariffs
    BY <1>2 DEF WorkerSave, LocalsTyped
  <2>3. DOMAIN lines = Invoices /\ DOMAIN warned = Invoices
    BY DEF LinesTyped
  <2>4. ASSUME NEW i \in Invoices, NEW c \in DOMAIN lines'[i] \ {Blank}
        PROVE  c \in CodesOf(Rows(row')) \cup warned'[i] \cup lost'[i]
    <3>1. CASE i = inv[a]
      <4>1. /\ lines'[i] = Lines(C, tariffOf[a]) /\ warned'[i] = Unknown(C, tariffOf[a])
            /\ lost'[i] = lost[a] \cap C
        BY <2>1, <2>2, <2>3, <3>1, WriteNoted
      <4>2. c \in C
        BY <2>2, <4>1, SavedLines
      <4>3. c \in DOMAIN tariffOf[a] \/ c \in Unknown(C, tariffOf[a])
        BY <4>2 DEF Unknown
      <4>. QED
        BY <2>2, <4>1, <4>2, <4>3 DEF ReadsKnown
    <3>2. CASE i # inv[a]
      <4>1. /\ lines'[i] = lines[i] /\ warned'[i] = warned[i] /\ lost'[i] = lost[i]
        BY <2>1, <2>2, <2>3, <3>2, WriteNoted, VatAssumption
      <4>. QED
        BY <2>2, <4>1 DEF UnknownIsFlagged
    <3>. QED
      BY <3>1, <3>2
  <2>. QED
    BY <2>4 DEF UnknownIsFlagged
<1>3. ASSUME NEW a \in Actors, a \in Workers, WorkerSaveDuplicate(a)
      PROVE  UnknownIsFlagged'
  <2>1. /\ lines' = [lines EXCEPT ![inv[a]] = Empty] /\ row' = row
        /\ NotingWrite(a, inv[a], {})
    BY <1>3 DEF WorkerSaveDuplicate
  <2>2. inv[a] \in Invoices
    BY <1>3 DEF WorkerSaveDuplicate, LocalsTyped
  <2>3. \A i \in Invoices : i # inv[a] =>
          lines'[i] = lines[i] /\ warned'[i] = warned[i] /\ lost'[i] = lost[i]
    BY <1>3, <2>1, <2>2, WriteNoted, VatAssumption DEF WorkerSaveDuplicate,
       LinesTyped
  <2>4. DOMAIN lines'[inv[a]] = {}
    BY <2>1, <2>2, EmptyLines DEF LinesTyped
  <2>. QED
    BY <2>1, <2>3, <2>4 DEF UnknownIsFlagged
<1>4. ASSUME NEW a \in Actors, a \in Requests, NEW i \in Invoices, EditRead(a, i)
      PROVE  UnknownIsFlagged'
  <2>1. UNCHANGED <<row, lines, warned>>
    BY <1>4 DEF EditRead, tableVars
  <2>2. \A j \in Invoices : lost'[j] = lost[j]
    BY <1>4, VatAssumption DEF EditRead, HistoryTyped, NotingRead
  <2>. QED
    BY <2>1, <2>2 DEF UnknownIsFlagged
<1>5. ASSUME NEW a \in Actors, a \in Requests, EditWrite(a)
      PROVE  UnknownIsFlagged'
  <2>1. PICK C \in Extractions :
          /\ lines'  = [lines  EXCEPT ![inv[a]] = Lines(C, tariffOf[a])]
          /\ warned' = [warned EXCEPT ![inv[a]] = Unknown(C, tariffOf[a])]
          /\ NotingWrite(a, inv[a], C)
    BY <1>5 DEF EditWrite
  <2>2. /\ inv[a] \in Invoices /\ row' = row /\ pc[a] \in {"extract", "edit"}
        /\ \A c \in DOMAIN tariffOf[a] : tariffOf[a][c] \in Tariffs
    BY <1>5 DEF EditWrite, LocalsTyped
  <2>3. DOMAIN lines = Invoices /\ DOMAIN warned = Invoices
    BY DEF LinesTyped
  <2>4. ASSUME NEW i \in Invoices, NEW c \in DOMAIN lines'[i] \ {Blank}
        PROVE  c \in CodesOf(Rows(row')) \cup warned'[i] \cup lost'[i]
    <3>1. CASE i = inv[a]
      <4>1. /\ lines'[i] = Lines(C, tariffOf[a]) /\ warned'[i] = Unknown(C, tariffOf[a])
            /\ lost'[i] = lost[a] \cap C
        BY <2>1, <2>2, <2>3, <3>1, WriteNoted
      <4>2. c \in C
        BY <2>2, <4>1, SavedLines
      <4>3. c \in DOMAIN tariffOf[a] \/ c \in Unknown(C, tariffOf[a])
        BY <4>2 DEF Unknown
      <4>. QED
        BY <2>2, <4>1, <4>2, <4>3 DEF ReadsKnown
    <3>2. CASE i # inv[a]
      <4>1. /\ lines'[i] = lines[i] /\ warned'[i] = warned[i] /\ lost'[i] = lost[i]
        BY <2>1, <2>2, <2>3, <3>2, WriteNoted, VatAssumption
      <4>. QED
        BY <2>2, <4>1 DEF UnknownIsFlagged
    <3>. QED
      BY <3>1, <3>2
  <2>. QED
    BY <2>4 DEF UnknownIsFlagged
<1>6. ASSUME NEW a \in Actors, a \in Requests, NEW k \in Ids, DeleteRead(a, k)
      PROVE  UnknownIsFlagged'
  <2>1. UNCHANGED <<row, lines, warned>>
    BY <1>6 DEF DeleteRead, tableVars
  <2>2. \A i \in Invoices : lost'[i] = lost[i]
    BY <1>6, VatAssumption DEF DeleteRead, HistoryTyped
  <2>. QED
    BY <2>1, <2>2 DEF UnknownIsFlagged
<1>7. ASSUME NEW a \in Actors, a \in Requests, DeleteCount(a)
      PROVE  UnknownIsFlagged'
  <2>1. UNCHANGED <<row, lines, warned>>
    BY <1>7 DEF DeleteCount, tableVars
  <2>2. \A i \in Invoices : lost'[i] = lost[i]
    BY <1>7, VatAssumption DEF DeleteCount, HistoryTyped
  <2>. QED
    BY <2>1, <2>2 DEF UnknownIsFlagged
<1>8. ASSUME NEW a \in Actors, a \in Requests, DeleteVatClassifier(a)
      PROVE  UnknownIsFlagged'
  <2>1. NotingGone /\ UNCHANGED <<lines, warned>>
    BY <1>8 DEF DeleteVatClassifier
  <2>. QED
    BY <2>1, GoneNoted DEF UnknownIsFlagged
<1>9. ASSUME NEW a \in Actors, ActorEnds(a)
      PROVE  UnknownIsFlagged'
  <2>1. UNCHANGED <<row, lines, warned>>
    BY <1>9 DEF ActorEnds, tableVars
  <2>2. \A i \in Invoices : lost'[i] = lost[i]
    BY <1>9, VatAssumption DEF ActorEnds, HistoryTyped
  <2>. QED
    BY <2>1, <2>2 DEF UnknownIsFlagged
<1>10. ASSUME NEW k \in Ids, NEW v \in Forms, CreateVatClassifier(k, v)
       PROVE  UnknownIsFlagged'
  <2>1. CodesOf(Rows(row)) \subseteq CodesOf(Rows(row')) \/ NotingGone
    BY CodesStep
  <2>2. UNCHANGED <<lines, warned, lost>>
    BY <1>10 DEF CreateVatClassifier
  <2>. QED
    BY <2>1, <2>2, GoneNoted DEF UnknownIsFlagged
<1>11. ASSUME NEW k \in Ids, NEW v \in Forms, UpdateVatClassifier(k, v)
       PROVE  UnknownIsFlagged'
  <2>1. NotingGone /\ UNCHANGED <<lines, warned>>
    BY <1>11 DEF UpdateVatClassifier
  <2>. QED
    BY <2>1, GoneNoted DEF UnknownIsFlagged
<1>12. ASSUME NEW n \in DOMAIN Catalogue, NEW m \in BOOLEAN,
              ImportCatalogCountry(n, m)
       PROVE  UnknownIsFlagged'
  <2>1. CodesOf(Rows(row)) \subseteq CodesOf(Rows(row')) \/ NotingGone
    BY CodesStep
  <2>2. UNCHANGED <<lines, warned, lost>>
    BY <1>12 DEF ImportCatalogCountry
  <2>. QED
    BY <2>1, <2>2, GoneNoted DEF UnknownIsFlagged
<1>13. CASE UNCHANGED vars
  BY <1>13 DEF vars, tableVars, actorVars, UnknownIsFlagged
<1>. QED
  BY NextSteps, <1>1, <1>2, <1>3, <1>4, <1>5, <1>6, <1>7, <1>8, <1>9, <1>10,
     <1>11, <1>12, <1>13

-------------------------------------------------------------------------------
(* Deletions                                                               *)

\* No invoice uses the code of a counted classifier, but for those written since.
CountedUnused ==
  \A r \in Actors : pc[r] = "delete" => Users(code[r]) \subseteq since[r]

\* A write after the count is noted as such.
LEMMA CountedStep ==
  ASSUME RowsTyped, LinesTyped, LocalsTyped, HistoryTyped, CountedUnused,
         [Next]_vars
  PROVE  CountedUnused'
<1>1. ASSUME NEW a \in Actors, a \in Workers, NEW i \in Invoices, WorkerRead(a, i)
      PROVE  CountedUnused'
  BY <1>1 DEF WorkerRead, Go, NotingRead, tableVars, CountedUnused, Users,
     LocalsTyped, NotingRead
<1>2. ASSUME NEW a \in Actors, a \in Workers, WorkerSave(a)
      PROVE  CountedUnused'
  <2>1. PICK C : NotingWrite(a, inv[a], C)
    BY <1>2 DEF WorkerSave
  <2>2. inv[a] \in Invoices /\ pc'[a] = "idle"
    BY <1>2 DEF WorkerSave, Return, Go, LocalsTyped
  <2>3. \A i \in Invoices : i # inv[a] => lines'[i] = lines[i]
    BY <1>2 DEF WorkerSave, LinesTyped
  <2>4. \A r \in Actors : r # a => pc'[r] = pc[r] /\ code'[r] = code[r]
    BY <1>2 DEF WorkerSave, Return, Go, LocalsTyped
  <2>5. \A r \in Actors : pc[r] = "delete" => since'[r] = since[r] \cup {inv[a]}
    BY <2>1, <2>2, WriteNoted
  <2>. QED
    BY <2>2, <2>3, <2>4, <2>5 DEF CountedUnused, Users
<1>3. ASSUME NEW a \in Actors, a \in Workers, WorkerSaveDuplicate(a)
      PROVE  CountedUnused'
  <2>1. PICK C : NotingWrite(a, inv[a], C)
    BY <1>3 DEF WorkerSaveDuplicate
  <2>2. inv[a] \in Invoices /\ pc'[a] = "idle"
    BY <1>3 DEF WorkerSaveDuplicate, Return, Go, LocalsTyped
  <2>3. \A i \in Invoices : i # inv[a] => lines'[i] = lines[i]
    BY <1>3 DEF WorkerSaveDuplicate, LinesTyped
  <2>4. \A r \in Actors : r # a => pc'[r] = pc[r] /\ code'[r] = code[r]
    BY <1>3 DEF WorkerSaveDuplicate, Return, Go, LocalsTyped
  <2>5. \A r \in Actors : pc[r] = "delete" => since'[r] = since[r] \cup {inv[a]}
    BY <2>1, <2>2, WriteNoted
  <2>. QED
    BY <2>2, <2>3, <2>4, <2>5 DEF CountedUnused, Users
<1>4. ASSUME NEW a \in Actors, a \in Requests, NEW i \in Invoices, EditRead(a, i)
      PROVE  CountedUnused'
  BY <1>4 DEF EditRead, Go, NotingRead, tableVars, CountedUnused, Users,
     LocalsTyped, NotingRead
<1>5. ASSUME NEW a \in Actors, a \in Requests, EditWrite(a)
      PROVE  CountedUnused'
  <2>1. PICK C : NotingWrite(a, inv[a], C)
    BY <1>5 DEF EditWrite
  <2>2. inv[a] \in Invoices /\ pc'[a] = "idle"
    BY <1>5 DEF EditWrite, Return, Go, LocalsTyped
  <2>3. \A i \in Invoices : i # inv[a] => lines'[i] = lines[i]
    BY <1>5 DEF EditWrite, LinesTyped
  <2>4. \A r \in Actors : r # a => pc'[r] = pc[r] /\ code'[r] = code[r]
    BY <1>5 DEF EditWrite, Return, Go, LocalsTyped
  <2>5. \A r \in Actors : pc[r] = "delete" => since'[r] = since[r] \cup {inv[a]}
    BY <2>1, <2>2, WriteNoted
  <2>. QED
    BY <2>2, <2>3, <2>4, <2>5 DEF CountedUnused, Users
<1>6. ASSUME NEW a \in Actors, a \in Requests, NEW k \in Ids, DeleteRead(a, k)
      PROVE  CountedUnused'
  BY <1>6 DEF DeleteRead, Go, tableVars, CountedUnused, Users, LocalsTyped
<1>7. ASSUME NEW a \in Actors, a \in Requests, DeleteCount(a)
      PROVE  CountedUnused'
  BY <1>7 DEF DeleteCount, Go, tableVars, CountedUnused, Users, LocalsTyped
<1>8. ASSUME NEW a \in Actors, a \in Requests, DeleteVatClassifier(a)
      PROVE  CountedUnused'
  BY <1>8 DEF DeleteVatClassifier, Return, Go, CountedUnused, Users,
     LocalsTyped, HistoryTyped
<1>9. ASSUME NEW a \in Actors, ActorEnds(a)
      PROVE  CountedUnused'
  BY <1>9 DEF ActorEnds, Return, Go, tableVars, CountedUnused, Users,
     LocalsTyped, HistoryTyped
<1>10. ASSUME NEW k \in Ids, NEW v \in Forms, CreateVatClassifier(k, v)
       PROVE  CountedUnused'
  BY <1>10 DEF CreateVatClassifier, actorVars, CountedUnused, Users
<1>11. ASSUME NEW k \in Ids, NEW v \in Forms, UpdateVatClassifier(k, v)
       PROVE  CountedUnused'
  BY <1>11 DEF UpdateVatClassifier, actorVars, CountedUnused, Users
<1>12. ASSUME NEW n \in DOMAIN Catalogue, NEW m \in BOOLEAN,
              ImportCatalogCountry(n, m)
       PROVE  CountedUnused'
  BY <1>12 DEF ImportCatalogCountry, actorVars, CountedUnused, Users
<1>13. CASE UNCHANGED vars
  BY <1>13 DEF vars, tableVars, actorVars, CountedUnused, Users
<1>. QED
  BY NextSteps, <1>1, <1>2, <1>3, <1>4, <1>5, <1>6, <1>7, <1>8, <1>9, <1>10,
     <1>11, <1>12, <1>13

-------------------------------------------------------------------------------
(* Theorems                                                                *)

VatInv ==
  /\ RowsTyped /\ LinesTyped /\ LocalsTyped /\ HistoryTyped
  /\ WarningMatchesLines /\ ReadsKnown /\ UnknownIsFlagged /\ CountedUnused

\* The inductive invariant: the types, the warnings, and what the actors have read
\* and counted against what happened since.
THEOREM VatInvariant == Spec => []VatInv
<1>1. Init => VatInv
  <2>. SUFFICES ASSUME Init PROVE VatInv
    OBVIOUS
  <2>1. RowsTyped
    BY DEF Init, RowsTyped, Stored
  <2>2. LinesTyped
    BY EmptyLines DEF Init, LinesTyped
  <2>3. LocalsTyped /\ HistoryTyped
    BY EmptyLines DEF Init, LocalsTyped, HistoryTyped
  <2>4. WarningMatchesLines /\ UnknownIsFlagged
    BY EmptyLines DEF Init, WarningMatchesLines, UnknownIsFlagged
  <2>5. ReadsKnown /\ CountedUnused
    BY DEF Init, ReadsKnown, CountedUnused
  <2>. QED
    BY <2>1, <2>2, <2>3, <2>4, <2>5 DEF VatInv
<1>2. VatInv /\ [Next]_vars => VatInv'
  <2>. SUFFICES ASSUME VatInv, [Next]_vars PROVE VatInv'
    OBVIOUS
  <2>. USE DEF VatInv
  <2>1. RowsTyped' /\ LinesTyped' /\ LocalsTyped'
    BY RowsStep, LinesStep, LocalsStep
  <2>2. HistoryTyped'
    BY <2>1, HistoryStep
  <2>3. WarningMatchesLines' /\ ReadsKnown'
    BY WarningStep, ReadsStep
  <2>4. UnknownIsFlagged' /\ CountedUnused'
    BY FlaggedStep, CountedStep
  <2>. QED
    BY <2>1, <2>2, <2>3, <2>4
<1>. QED
  BY <1>1, <1>2, PTL DEF Spec

\* The tables, the locals and the histories keep their types
\* (vat_classifier.go:99-160, processor.go:85-103, invoice.go:420-480).
THEOREM TypeCorrect == Spec => []TypeOK
<1>1. VatInv => TypeOK
  BY TypeParts DEF VatInv
<1>. QED
  BY <1>1, VatInvariant, PTL

\* The warning of an invoice names the lines without a tariff, whoever wrote them.
THEOREM WarningsMatch == Spec => []WarningMatchesLines
<1>1. VatInv => WarningMatchesLines
  BY DEF VatInv
<1>. QED
  BY <1>1, VatInvariant, PTL

\* A code without a classifier is flagged, or its classifiers went after the read.
THEOREM UnknownCodesAreFlagged == Spec => []UnknownIsFlagged
<1>1. VatInv => UnknownIsFlagged
  BY DEF VatInv
<1>. QED
  BY <1>1, VatInvariant, PTL

\* A deletion orphans only lines written after it has counted.
THEOREM DeletionsOrphanNoLine == Spec => DeletedIsUnused
<1>. DEFINE Unused == \A r \in Requests :
       (/\ pc[r] = "delete" /\ Stored(target[r]) /\ row'[target[r]] = NoRow
        /\ row[target[r]].code = code[r] /\ pc'[r] = "idle")
         => Users(code[r]) \subseteq since[r]
<1>1. VatInv => Unused
  BY DEF VatInv, CountedUnused, Actors
<1>. QED
  BY <1>1, VatInvariant, PTL DEF DeletedIsUnused

===============================================================================
