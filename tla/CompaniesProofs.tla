---------------------------- MODULE CompaniesProofs ----------------------------
(***************************************************************************)
(* Theorems about Companies, for any companies, invoices, workers, requests*)
(* and extractions: no dangling links, one company per VAT number, what    *)
(* merges and deletions do to links, and that a worker links no company    *)
(* with another VAT number.                                                *)
(***************************************************************************)
EXTENDS Companies, TLAPS

-------------------------------------------------------------------------------
(* Parties and rows                                                        *)

LEMMA PartyIsRow ==
  ASSUME NEW p \in Parties
  PROVE  /\ Normalized(p) \in Row
         /\ Normalized(p).title = p.title /\ Normalized(p).code = p.code
         /\ Normalized(p).vat = Normalize(p.vat)
         /\ Normalized(p) # NoRow
<1>1. p \in [title : {q.title : q \in Parties}, code : {q.code : q \in Parties},
             vat : {q.vat : q \in Parties}, country : {q.country : q \in Parties}]
  <2>1. p = [title |-> p.title, code |-> p.code, vat |-> p.vat,
             country |-> p.country]
    BY PartiesAssumption
  <2>2. /\ p.title \in {q.title : q \in Parties} /\ p.code \in {q.code : q \in Parties}
        /\ p.vat \in {q.vat : q \in Parties}
        /\ p.country \in {q.country : q \in Parties}
    OBVIOUS
  <2>. QED
    BY <2>1, <2>2
<1>. QED
  BY <1>1, CompaniesAssumption DEF Normalized, Row

LEMMA RefreshedIsRow ==
  ASSUME NEW r \in Row, NEW n \in Row
  PROVE  /\ Refresh(r, n) \in Row
         /\ Refresh(r, n).title = IF n.title # Blank THEN n.title ELSE r.title
         /\ Refresh(r, n).code = IF n.code # Blank THEN n.code ELSE r.code
         /\ Refresh(r, n).vat = IF n.vat # Blank THEN n.vat ELSE r.vat
         /\ Refresh(r, n) # NoRow
<1>1. Refresh(r, n) \in Row
  BY DEF Refresh, Row
<1>. QED
  BY <1>1, CompaniesAssumption DEF Refresh, Row

\* What is left of a VAT number whose prefix was stripped.
LEMMA VatShape ==
  ASSUME NEW r \in Row, NEW s \in Row, r.vat # Blank, s.vat # Blank,
         r.vat.num = s.vat.num, r.vat.num \notin LetterFirst
  PROVE  r.vat = s.vat
<1>1. ASSUME NEW t \in Row, t.vat # Blank, t.vat.num \notin LetterFirst
      PROVE  t.vat = [cc |-> Blank, num |-> t.vat.num]
  <2>1. PICK p \in Parties : t.vat = Normalize(p.vat)
    BY <1>1 DEF Row
  <2>2. p.vat # Blank
    BY <1>1, <2>1 DEF Normalize
  <2>3. p.vat = [cc |-> p.vat.cc, num |-> p.vat.num]
    BY <2>2, PartiesAssumption
  <2>4. t.vat.num = p.vat.num
    BY <2>1, <2>3 DEF Normalize
  <2>. QED
    BY <1>1, <2>1, <2>2, <2>3, <2>4 DEF Normalize
<1>. QED
  BY <1>1

-------------------------------------------------------------------------------
(* Steps                                                                   *)

LEMMA NextSteps ==
  ASSUME [Next]_vars
  PROVE  \/ \E w \in Workers :
              \/ \E i \in Invoices, e \in Extractions : WorkerCommit(w, i, e)
              \/ SkipSide(w)
              \/ MatchCompany(w)
              \/ UpsertFind(w)
              \/ UpsertInsert(w)
              \/ UpsertUpdate(w)
              \/ UpsertFails(w)
              \/ LinkCompanies(w)
              \/ LinkNothing(w)
              \/ WorkerDies(w)
         \/ \E i \in Invoices : InvoiceFails(i) \/ InvoiceReprocessed(i)
         \/ \E r \in Requests :
              \/ \E c \in CompanyIds : DeleteCheck(r, c)
              \/ DeleteCompany(r)
              \/ \E c, d \in CompanyIds : MergeReadSource(r, c, d)
              \/ MergeReadTarget(r)
              \/ MergeCompanies(r)
              \/ RequestEnds(r)
         \/ UNCHANGED vars
BY DEF Next, Resolve, Request

\* The types, in two parts: the worker's locals, and all the rest.
LocalsTyped ==
  /\ wpc \in [Workers -> {"idle", "match", "find", "write", "link"}]
  /\ winv \in [Workers -> Invoices \cup {NoInvoice}]
  /\ wext \in [Workers -> [Sides -> Parties \cup {NoParty}]]
  /\ wside \in [Workers -> Sides]
  /\ hit \in [Workers -> MaybeCompany] /\ target \in [Workers -> MaybeCompany]
  /\ res \in [Workers -> [Sides -> MaybeCompany]]
  /\ \A w \in Workers :
       /\ wpc[w] # "idle" => winv[w] \in Invoices
       /\ wpc[w] \in {"find", "write"} => wext[w][wside[w]] # NoParty

TablesTyped ==
  /\ row \in [CompanyIds -> Row \cup {NoRow}]
  /\ used \subseteq CompanyIds /\ \A c \in CompanyIds : Stored(c) => c \in used
  /\ link \in [Invoices -> [Sides -> MaybeCompany]]
  /\ hidden \subseteq Invoices
  /\ rpc \in [Requests -> {"idle", "delete", "target", "merge"}]
  /\ rsrc \in [Requests -> MaybeCompany] /\ rtgt \in [Requests -> MaybeCompany]
  /\ since \in [Requests -> SUBSET Invoices]

LEMMA TypeParts ==
  /\ TypeOK <=> TablesTyped /\ LocalsTyped
  /\ TypeOK' <=> TablesTyped' /\ LocalsTyped'
BY DEF TypeOK, TablesTyped, LocalsTyped

\* A match is a company that is stored, or none.
LEMMA MatchIsCompany ==
  ASSUME NEW p, NEW c \in Matches(p)
  PROVE  /\ c \in MaybeCompany
         /\ c # NoCompany =>
              Stored(c) /\ (c \in ByVat(p) \/ c \in ByCode(p) \/ c \in ByTitle(p))
BY DEF Matches, ByVat, ByCode, ByTitle, MaybeCompany, Stored

\* The party at hand.
LEMMA PartyAtHand ==
  ASSUME LocalsTyped, NEW w \in Workers, wext[w][wside[w]] # NoParty
  PROVE  /\ wext[w][wside[w]] \in Parties
         /\ Party(w) \in Row /\ Party(w) # NoRow
BY PartyIsRow DEF LocalsTyped, Party

\* The locals of the workers keep their types.
LEMMA LocalsStep ==
  ASSUME TablesTyped, LocalsTyped, [Next]_vars
  PROVE  LocalsTyped'
<1>1. ASSUME NEW w \in Workers, NEW i \in Invoices, NEW e \in Extractions,
             WorkerCommit(w, i, e)
      PROVE  LocalsTyped'
  BY <1>1, CompaniesAssumption DEF WorkerCommit, Noting, requestVars,
     LocalsTyped, NoSides, MaybeCompany, Sides
<1>2. ASSUME NEW w \in Workers, SkipSide(w)
      PROVE  LocalsTyped'
  BY <1>2, CompaniesAssumption DEF SkipSide, Resolved, requestVars, tableVars,
     LocalsTyped, NoSides, MaybeCompany, Sides
<1>3. ASSUME NEW w \in Workers, MatchCompany(w)
      PROVE  LocalsTyped'
  <2>0. wpc[w] = "match" /\ wext[w][wside[w]] # NoParty
    BY <1>3 DEF MatchCompany
  <2>1. PICK c \in Matches(Party(w)) :
          \/ /\ wpc' = [wpc EXCEPT ![w] = "find"]
             /\ hit' = [hit EXCEPT ![w] = c]
             /\ UNCHANGED <<winv, wext, wside, target, res>>
          \/ Resolved(w, NoCompany)
    BY <1>3 DEF MatchCompany
  <2>2. c \in MaybeCompany
    BY MatchIsCompany
  <2>3. CASE Resolved(w, NoCompany)
    BY <2>0, <2>3 DEF Resolved, LocalsTyped, MaybeCompany, Sides
  <2>4. CASE ~Resolved(w, NoCompany)
    BY SMTT(40), <2>0, <2>1, <2>2, <2>4 DEF LocalsTyped
  <2>. QED
    BY <2>3, <2>4
<1>4. ASSUME NEW w \in Workers, UpsertFind(w)
      PROVE  LocalsTyped'
  <2>1. \A c \in Matches(Party(w)) : c \in MaybeCompany
    BY MatchIsCompany
  <2>. QED
    BY <1>4, <2>1 DEF UpsertFind, requestVars, tableVars, LocalsTyped,
       MaybeCompany, Sides
<1>5. ASSUME NEW w \in Workers, UpsertInsert(w)
      PROVE  LocalsTyped'
  BY <1>5, CompaniesAssumption DEF UpsertInsert, Resolved, requestVars,
     LocalsTyped, NoSides, MaybeCompany, Sides
<1>6. ASSUME NEW w \in Workers, UpsertUpdate(w)
      PROVE  LocalsTyped'
  BY <1>6, CompaniesAssumption DEF UpsertUpdate, Resolved, requestVars,
     LocalsTyped, NoSides, MaybeCompany, Sides
<1>7. ASSUME NEW w \in Workers, UpsertFails(w)
      PROVE  LocalsTyped'
  BY <1>7, CompaniesAssumption DEF UpsertFails, Resolved, requestVars,
     tableVars, LocalsTyped, NoSides, MaybeCompany, Sides
<1>8. ASSUME NEW w \in Workers, LinkCompanies(w)
      PROVE  LocalsTyped'
  BY <1>8, CompaniesAssumption DEF LinkCompanies, WorkerDone, Noting,
     requestVars, LocalsTyped, NoSides, MaybeCompany, Sides
<1>9. ASSUME NEW w \in Workers, LinkNothing(w)
      PROVE  LocalsTyped'
  BY <1>9, CompaniesAssumption DEF LinkNothing, WorkerDone, requestVars,
     tableVars, LocalsTyped, NoSides, MaybeCompany, Sides
<1>10. ASSUME NEW w \in Workers, WorkerDies(w)
       PROVE  LocalsTyped'
  BY <1>10, CompaniesAssumption DEF WorkerDies, WorkerDone, requestVars,
     tableVars, LocalsTyped, NoSides, MaybeCompany, Sides
<1>11. ASSUME NEW i \in Invoices, InvoiceFails(i)
       PROVE  LocalsTyped'
  BY <1>11, CompaniesAssumption DEF InvoiceFails, requestVars, workerVars,
     LocalsTyped, NoSides, MaybeCompany, Sides
<1>12. ASSUME NEW i \in Invoices, InvoiceReprocessed(i)
       PROVE  LocalsTyped'
  BY <1>12, CompaniesAssumption DEF InvoiceReprocessed, Noting, requestVars,
     workerVars, LocalsTyped, NoSides, MaybeCompany, Sides
<1>13. ASSUME NEW r \in Requests, NEW c \in CompanyIds, DeleteCheck(r, c)
       PROVE  LocalsTyped'
  BY <1>13, CompaniesAssumption DEF DeleteCheck, Go, workerVars, tableVars,
     LocalsTyped, NoSides, MaybeCompany, Sides
<1>14. ASSUME NEW r \in Requests, DeleteCompany(r)
       PROVE  LocalsTyped'
  BY <1>14, CompaniesAssumption DEF DeleteCompany, Return, Go, Unlinked,
     workerVars, LocalsTyped, NoSides, MaybeCompany, Sides
<1>15. ASSUME NEW r \in Requests, NEW c \in CompanyIds, NEW d \in CompanyIds,
              MergeReadSource(r, c, d)
       PROVE  LocalsTyped'
  BY <1>15, CompaniesAssumption DEF MergeReadSource, Go, workerVars, tableVars,
     LocalsTyped, NoSides, MaybeCompany, Sides
<1>16. ASSUME NEW r \in Requests, MergeReadTarget(r)
       PROVE  LocalsTyped'
  BY <1>16, CompaniesAssumption DEF MergeReadTarget, Go, workerVars, tableVars,
     LocalsTyped, NoSides, MaybeCompany, Sides
<1>17. ASSUME NEW r \in Requests, MergeCompanies(r)
       PROVE  LocalsTyped'
  BY <1>17, CompaniesAssumption DEF MergeCompanies, Return, Go, Moved, Noting,
     workerVars, LocalsTyped, NoSides, MaybeCompany, Sides
<1>18. ASSUME NEW r \in Requests, RequestEnds(r)
       PROVE  LocalsTyped'
  BY <1>18, CompaniesAssumption DEF RequestEnds, Return, Go, workerVars,
     tableVars, LocalsTyped, NoSides, MaybeCompany, Sides
<1>19. CASE UNCHANGED vars
  BY <1>19 DEF vars, tableVars, workerVars, requestVars, LocalsTyped, NoSides,
     MaybeCompany, Sides
<1>. QED
  BY NextSteps, <1>1, <1>2, <1>3, <1>4, <1>5, <1>6, <1>7, <1>8, <1>9, <1>10,
     <1>11, <1>12, <1>13, <1>14, <1>15, <1>16, <1>17, <1>18, <1>19


\* The tables and the requests keep theirs.
LEMMA TablesStep ==
  ASSUME TablesTyped, LocalsTyped, [Next]_vars
  PROVE  TablesTyped'
<1>1. ASSUME NEW w \in Workers, NEW i \in Invoices, NEW e \in Extractions,
             WorkerCommit(w, i, e)
      PROVE  TablesTyped'
  BY <1>1 DEF WorkerCommit, Noting, requestVars, TablesTyped, MaybeCompany, Stored
<1>2. ASSUME NEW w \in Workers, SkipSide(w)
      PROVE  TablesTyped'
  BY <1>2 DEF SkipSide, Resolved, requestVars, tableVars, TablesTyped,
     MaybeCompany, Stored
<1>3. ASSUME NEW w \in Workers, MatchCompany(w)
      PROVE  TablesTyped'
  BY <1>3 DEF MatchCompany, Resolved, requestVars, tableVars, TablesTyped,
     MaybeCompany, Stored
<1>4. ASSUME NEW w \in Workers, UpsertFind(w)
      PROVE  TablesTyped'
  BY <1>4 DEF UpsertFind, requestVars, tableVars, TablesTyped, MaybeCompany,
     Stored
<1>5. ASSUME NEW w \in Workers, UpsertInsert(w)
      PROVE  TablesTyped'
  <2>1. wext[w][wside[w]] # NoParty /\ Party(w) \in Row /\ Party(w) # NoRow
    BY <1>5, PartyAtHand DEF UpsertInsert, LocalsTyped
  <2>2. PICK c \in CompanyIds : /\ row' = [row EXCEPT ![c] = Party(w)]
                               /\ used' = used \cup {c}
    BY <1>5 DEF UpsertInsert
  <2>3. UNCHANGED <<link, hidden, rpc, rsrc, rtgt, since>>
    BY <1>5 DEF UpsertInsert, requestVars
  <2>. QED
    BY <2>1, <2>2, <2>3 DEF TablesTyped, Stored
<1>6. ASSUME NEW w \in Workers, UpsertUpdate(w)
      PROVE  TablesTyped'
  <2>1. wext[w][wside[w]] # NoParty /\ Party(w) \in Row /\ Party(w) # NoRow
    BY <1>6, PartyAtHand DEF UpsertUpdate, LocalsTyped
  <2>2. UNCHANGED <<used, link, hidden, rpc, rsrc, rtgt, since>>
    BY <1>6 DEF UpsertUpdate, requestVars
  <2>3. CASE Stored(target[w])
    <3>1. row[target[w]] \in Row /\ target[w] \in CompanyIds
      BY <2>3 DEF TablesTyped, Stored
    <3>2. Refresh(row[target[w]], Party(w)) \in Row
      BY <2>1, <3>1, RefreshedIsRow
    <3>3. row' = [row EXCEPT ![target[w]] = Refresh(row[target[w]], Party(w))]
      BY <1>6, <2>3 DEF UpsertUpdate
    <3>. QED
      BY <2>2, <2>3, <3>1, <3>2, <3>3 DEF TablesTyped, Stored
  <2>4. CASE ~Stored(target[w])
    BY <1>6, <2>2, <2>4 DEF UpsertUpdate, TablesTyped, Stored
  <2>. QED
    BY <2>3, <2>4
<1>7. ASSUME NEW w \in Workers, UpsertFails(w)
      PROVE  TablesTyped'
  BY <1>7 DEF UpsertFails, Resolved, requestVars, tableVars, TablesTyped,
     MaybeCompany, Stored
<1>8. ASSUME NEW w \in Workers, LinkCompanies(w)
      PROVE  TablesTyped'
  <2>1. winv[w] \in Invoices /\ res[w] \in [Sides -> MaybeCompany]
    BY <1>8 DEF LinkCompanies, LocalsTyped
  <2>. QED
    BY <1>8, <2>1 DEF LinkCompanies, Noting, requestVars, TablesTyped, Stored
<1>9. ASSUME NEW w \in Workers, LinkNothing(w)
      PROVE  TablesTyped'
  BY <1>9 DEF LinkNothing, WorkerDone, requestVars, tableVars, TablesTyped,
     MaybeCompany, Stored
<1>10. ASSUME NEW w \in Workers, WorkerDies(w)
       PROVE  TablesTyped'
  BY <1>10 DEF WorkerDies, WorkerDone, requestVars, tableVars, TablesTyped,
     MaybeCompany, Stored
<1>11. ASSUME NEW i \in Invoices, InvoiceFails(i)
       PROVE  TablesTyped'
  BY <1>11 DEF InvoiceFails, requestVars, workerVars, TablesTyped, MaybeCompany,
     Stored
<1>12. ASSUME NEW i \in Invoices, InvoiceReprocessed(i)
       PROVE  TablesTyped'
  BY <1>12 DEF InvoiceReprocessed, Noting, requestVars, workerVars, TablesTyped,
     MaybeCompany, Stored
<1>13. ASSUME NEW r \in Requests, NEW c \in CompanyIds, DeleteCheck(r, c)
       PROVE  TablesTyped'
  BY <1>13 DEF DeleteCheck, Go, workerVars, tableVars, TablesTyped,
     MaybeCompany, Stored
<1>14. ASSUME NEW r \in Requests, DeleteCompany(r)
       PROVE  TablesTyped'
  BY <1>14 DEF DeleteCompany, Return, Go, Unlinked, workerVars, TablesTyped,
     MaybeCompany, Stored
<1>15. ASSUME NEW r \in Requests, NEW c \in CompanyIds, NEW d \in CompanyIds,
              MergeReadSource(r, c, d)
       PROVE  TablesTyped'
  BY <1>15 DEF MergeReadSource, Go, workerVars, tableVars, TablesTyped,
     MaybeCompany, Stored
<1>16. ASSUME NEW r \in Requests, MergeReadTarget(r)
       PROVE  TablesTyped'
  BY <1>16 DEF MergeReadTarget, Go, workerVars, tableVars, TablesTyped,
     MaybeCompany, Stored
<1>17. ASSUME NEW r \in Requests, MergeCompanies(r)
       PROVE  TablesTyped'
  <2>1. link' \in [Invoices -> [Sides -> MaybeCompany]]
    BY <1>17 DEF MergeCompanies, Moved, TablesTyped
  <2>2. since' \in [Requests -> SUBSET Invoices]
    BY <1>17 DEF MergeCompanies, Noting, LinkedTo, TablesTyped
  <2>3. row' \in [CompanyIds -> Row \cup {NoRow}] /\ used' = used /\ hidden' = hidden
    BY <1>17 DEF MergeCompanies, TablesTyped
  <2>4. \A c \in CompanyIds : Stored(c)' => c \in used
    BY <1>17 DEF MergeCompanies, TablesTyped, Stored
  <2>5. /\ rpc' \in [Requests -> {"idle", "delete", "target", "merge"}]
        /\ rsrc' \in [Requests -> MaybeCompany] /\ rtgt' \in [Requests -> MaybeCompany]
    BY <1>17 DEF MergeCompanies, Return, Go, TablesTyped, MaybeCompany
  <2>. QED
    BY <2>1, <2>2, <2>3, <2>4, <2>5 DEF TablesTyped, Stored
<1>18. ASSUME NEW r \in Requests, RequestEnds(r)
       PROVE  TablesTyped'
  BY <1>18 DEF RequestEnds, Return, Go, workerVars, tableVars, TablesTyped,
     MaybeCompany, Stored
<1>19. CASE UNCHANGED vars
  BY <1>19 DEF vars, tableVars, workerVars, requestVars, TablesTyped,
     MaybeCompany, Stored
<1>. QED
  BY NextSteps, <1>1, <1>2, <1>3, <1>4, <1>5, <1>6, <1>7, <1>8, <1>9, <1>10,
     <1>11, <1>12, <1>13, <1>14, <1>15, <1>16, <1>17, <1>18, <1>19

-------------------------------------------------------------------------------
(* Links                                                                   *)

\* What the types say of a row, a link and a worker.
LEMMA TypeFacts ==
  ASSUME TablesTyped, LocalsTyped
  PROVE  /\ DOMAIN row = CompanyIds /\ DOMAIN link = Invoices
         /\ DOMAIN wpc = Workers /\ DOMAIN winv = Workers /\ DOMAIN wext = Workers
         /\ DOMAIN wside = Workers /\ DOMAIN hit = Workers
         /\ DOMAIN target = Workers /\ DOMAIN res = Workers
         /\ DOMAIN rpc = Requests /\ DOMAIN rsrc = Requests
         /\ DOMAIN rtgt = Requests /\ DOMAIN since = Requests
         /\ \A c : Stored(c) => c \in CompanyIds /\ c \in used /\ row[c] \in Row
         /\ \A i \in Invoices : /\ DOMAIN link[i] = Sides
                                /\ \A s \in Sides : link[i][s] \in MaybeCompany
         /\ \A w \in Workers : /\ DOMAIN res[w] = Sides /\ DOMAIN wext[w] = Sides
                               /\ wside[w] \in Sides
                               /\ wpc[w] # "idle" => winv[w] \in Invoices
                               /\ \A s \in Sides : res[w][s] \in MaybeCompany
<1>1. /\ DOMAIN row = CompanyIds /\ DOMAIN link = Invoices
      /\ DOMAIN rpc = Requests /\ DOMAIN rsrc = Requests
      /\ DOMAIN rtgt = Requests /\ DOMAIN since = Requests
  BY DEF TablesTyped
<1>2. /\ DOMAIN wpc = Workers /\ DOMAIN winv = Workers /\ DOMAIN wext = Workers
      /\ DOMAIN wside = Workers /\ DOMAIN hit = Workers
      /\ DOMAIN target = Workers /\ DOMAIN res = Workers
  BY DEF LocalsTyped
<1>3. \A c : Stored(c) => c \in CompanyIds /\ c \in used /\ row[c] \in Row
  BY DEF TablesTyped, Stored
<1>4. \A i \in Invoices : /\ DOMAIN link[i] = Sides
                          /\ \A s \in Sides : link[i][s] \in MaybeCompany
  BY DEF TablesTyped
<1>5. \A w \in Workers : /\ DOMAIN res[w] = Sides /\ DOMAIN wext[w] = Sides
                         /\ wside[w] \in Sides
                         /\ wpc[w] # "idle" => winv[w] \in Invoices
                         /\ \A s \in Sides : res[w][s] \in MaybeCompany
  BY DEF LocalsTyped
<1>. QED
  BY <1>1, <1>2, <1>3, <1>4, <1>5

\* The row an upsert leaves.
LEMMA RefreshedRow ==
  ASSUME TablesTyped, LocalsTyped, NEW w \in Workers, wpc[w] = "write",
         Stored(target[w])
  PROVE  LET f == Refresh(row[target[w]], Party(w))
         IN  /\ f \in Row /\ f # NoRow
             /\ f.title = IF Party(w).title # Blank THEN Party(w).title
                                                   ELSE row[target[w]].title
             /\ f.code = IF Party(w).code # Blank THEN Party(w).code
                                                 ELSE row[target[w]].code
             /\ f.vat = IF Party(w).vat # Blank THEN Party(w).vat
                                               ELSE row[target[w]].vat
<1>1. row[target[w]] \in Row
  BY DEF TablesTyped, Stored
<1>2. Party(w) \in Row
  BY PartyAtHand DEF LocalsTyped
<1>. QED
  BY <1>1, <1>2, RefreshedIsRow

\* A merge has a target other than its source, a deletion something to delete.
Aimed ==
  \A r \in Requests : /\ rpc[r] \in {"target", "merge"} => rsrc[r] # rtgt[r]
                      /\ rpc[r] = "delete" => rsrc[r] \in CompanyIds

\* A company that is to be deleted is linked to invoices that do not count, and
\* to those linked or shown again since.
Counted ==
  \A r \in Requests : rpc[r] = "delete" =>
    \A i \in Invoices, s \in Sides :
      link[i][s] = rsrc[r] => i \in hidden \cup since[r]

\* The ids a worker holds were handed out.
HandedOut ==
  \A w \in Workers :
    /\ hit[w] \in used \cup {NoCompany} /\ target[w] \in used \cup {NoCompany}
    /\ \A s \in Sides : res[w][s] \in used \cup {NoCompany}

IdleIsClean ==
  \A w \in Workers : wpc[w] = "idle" => \A s \in Sides : res[w][s] = NoCompany

\* Whom nobody could tell apart later is looked up but not stored.
MatchedOrKeyed ==
  \A w \in Workers : wpc[w] \in {"find", "write"} /\ hit[w] = NoCompany =>
    HasKey(Party(w))

VatUnique ==
  \A c, d \in CompanyIds :
    Stored(c) /\ Stored(d) /\ row[c].vat # Blank /\ row[c].vat = row[d].vat => c = d

\* A merge and a deletion keep their aim.
LEMMA AimedStep ==
  ASSUME TablesTyped, LocalsTyped, Aimed, NEW q \in Requests, [Next]_vars
  PROVE  /\ rpc'[q] \in {"target", "merge"} => rsrc'[q] # rtgt'[q]
         /\ rpc'[q] = "delete" => rsrc'[q] \in CompanyIds
<1>1. ASSUME NEW w \in Workers, NEW i \in Invoices, NEW e \in Extractions,
             WorkerCommit(w, i, e)
      PROVE  /\ rpc'[q] \in {"target", "merge"} => rsrc'[q] # rtgt'[q]
             /\ rpc'[q] = "delete" => rsrc'[q] \in CompanyIds
  BY <1>1, TypeFacts DEF WorkerCommit, Noting, requestVars, Aimed
<1>2. ASSUME NEW w \in Workers, SkipSide(w)
      PROVE  /\ rpc'[q] \in {"target", "merge"} => rsrc'[q] # rtgt'[q]
             /\ rpc'[q] = "delete" => rsrc'[q] \in CompanyIds
  BY <1>2, TypeFacts DEF SkipSide, Resolved, requestVars, tableVars, Aimed
<1>3. ASSUME NEW w \in Workers, MatchCompany(w)
      PROVE  /\ rpc'[q] \in {"target", "merge"} => rsrc'[q] # rtgt'[q]
             /\ rpc'[q] = "delete" => rsrc'[q] \in CompanyIds
  BY <1>3, TypeFacts DEF MatchCompany, Resolved, requestVars, tableVars, Aimed
<1>4. ASSUME NEW w \in Workers, UpsertFind(w)
      PROVE  /\ rpc'[q] \in {"target", "merge"} => rsrc'[q] # rtgt'[q]
             /\ rpc'[q] = "delete" => rsrc'[q] \in CompanyIds
  BY <1>4, TypeFacts DEF UpsertFind, requestVars, tableVars, Aimed
<1>5. ASSUME NEW w \in Workers, UpsertInsert(w)
      PROVE  /\ rpc'[q] \in {"target", "merge"} => rsrc'[q] # rtgt'[q]
             /\ rpc'[q] = "delete" => rsrc'[q] \in CompanyIds
  BY <1>5, TypeFacts DEF UpsertInsert, Resolved, requestVars, Aimed
<1>6. ASSUME NEW w \in Workers, UpsertUpdate(w)
      PROVE  /\ rpc'[q] \in {"target", "merge"} => rsrc'[q] # rtgt'[q]
             /\ rpc'[q] = "delete" => rsrc'[q] \in CompanyIds
  BY <1>6, TypeFacts DEF UpsertUpdate, Resolved, requestVars, Aimed
<1>7. ASSUME NEW w \in Workers, UpsertFails(w)
      PROVE  /\ rpc'[q] \in {"target", "merge"} => rsrc'[q] # rtgt'[q]
             /\ rpc'[q] = "delete" => rsrc'[q] \in CompanyIds
  BY <1>7, TypeFacts DEF UpsertFails, Resolved, requestVars, tableVars, Aimed
<1>8. ASSUME NEW w \in Workers, LinkCompanies(w)
      PROVE  /\ rpc'[q] \in {"target", "merge"} => rsrc'[q] # rtgt'[q]
             /\ rpc'[q] = "delete" => rsrc'[q] \in CompanyIds
  BY <1>8, TypeFacts DEF LinkCompanies, WorkerDone, Noting, requestVars, Aimed
<1>9. ASSUME NEW w \in Workers, LinkNothing(w)
      PROVE  /\ rpc'[q] \in {"target", "merge"} => rsrc'[q] # rtgt'[q]
             /\ rpc'[q] = "delete" => rsrc'[q] \in CompanyIds
  BY <1>9, TypeFacts DEF LinkNothing, WorkerDone, requestVars, tableVars, Aimed
<1>10. ASSUME NEW w \in Workers, WorkerDies(w)
       PROVE  /\ rpc'[q] \in {"target", "merge"} => rsrc'[q] # rtgt'[q]
              /\ rpc'[q] = "delete" => rsrc'[q] \in CompanyIds
  BY <1>10, TypeFacts DEF WorkerDies, WorkerDone, requestVars, tableVars, Aimed
<1>11. ASSUME NEW i \in Invoices, InvoiceFails(i)
       PROVE  /\ rpc'[q] \in {"target", "merge"} => rsrc'[q] # rtgt'[q]
              /\ rpc'[q] = "delete" => rsrc'[q] \in CompanyIds
  BY <1>11, TypeFacts DEF InvoiceFails, requestVars, workerVars, Aimed
<1>12. ASSUME NEW i \in Invoices, InvoiceReprocessed(i)
       PROVE  /\ rpc'[q] \in {"target", "merge"} => rsrc'[q] # rtgt'[q]
              /\ rpc'[q] = "delete" => rsrc'[q] \in CompanyIds
  BY <1>12, TypeFacts DEF InvoiceReprocessed, Noting, requestVars, workerVars,
     Aimed
<1>13. ASSUME NEW r \in Requests, NEW c \in CompanyIds, DeleteCheck(r, c)
       PROVE  /\ rpc'[q] \in {"target", "merge"} => rsrc'[q] # rtgt'[q]
              /\ rpc'[q] = "delete" => rsrc'[q] \in CompanyIds
  BY <1>13, TypeFacts DEF DeleteCheck, Go, workerVars, tableVars, Aimed
<1>14. ASSUME NEW r \in Requests, DeleteCompany(r)
       PROVE  /\ rpc'[q] \in {"target", "merge"} => rsrc'[q] # rtgt'[q]
              /\ rpc'[q] = "delete" => rsrc'[q] \in CompanyIds
  BY <1>14, TypeFacts DEF DeleteCompany, Return, Go, Unlinked, workerVars, Aimed
<1>15. ASSUME NEW r \in Requests, NEW c \in CompanyIds, NEW d \in CompanyIds,
              MergeReadSource(r, c, d)
       PROVE  /\ rpc'[q] \in {"target", "merge"} => rsrc'[q] # rtgt'[q]
              /\ rpc'[q] = "delete" => rsrc'[q] \in CompanyIds
  BY <1>15, TypeFacts DEF MergeReadSource, Go, workerVars, tableVars, Aimed
<1>16. ASSUME NEW r \in Requests, MergeReadTarget(r)
       PROVE  /\ rpc'[q] \in {"target", "merge"} => rsrc'[q] # rtgt'[q]
              /\ rpc'[q] = "delete" => rsrc'[q] \in CompanyIds
  BY <1>16, TypeFacts DEF MergeReadTarget, Go, workerVars, tableVars, Aimed
<1>17. ASSUME NEW r \in Requests, MergeCompanies(r)
       PROVE  /\ rpc'[q] \in {"target", "merge"} => rsrc'[q] # rtgt'[q]
              /\ rpc'[q] = "delete" => rsrc'[q] \in CompanyIds
  BY <1>17, TypeFacts DEF MergeCompanies, Return, Go, Moved, Noting, workerVars,
     Aimed
<1>18. ASSUME NEW r \in Requests, RequestEnds(r)
       PROVE  /\ rpc'[q] \in {"target", "merge"} => rsrc'[q] # rtgt'[q]
              /\ rpc'[q] = "delete" => rsrc'[q] \in CompanyIds
  BY <1>18, TypeFacts DEF RequestEnds, Return, Go, workerVars, tableVars, Aimed
<1>19. CASE UNCHANGED vars
  BY <1>19 DEF vars, tableVars, workerVars, requestVars, Aimed
<1>. QED
  BY NextSteps, <1>1, <1>2, <1>3, <1>4, <1>5, <1>6, <1>7, <1>8, <1>9, <1>10,
     <1>11, <1>12, <1>13, <1>14, <1>15, <1>16, <1>17, <1>18, <1>19


\* A company goes only in a deletion or a merge.
LEMMA RowStays ==
  ASSUME TablesTyped, LocalsTyped, NEW k, Stored(k), row'[k] = NoRow, [Next]_vars
  PROVE  \E q \in Requests : /\ rsrc[q] = k
                             /\ DeleteCompany(q) \/ MergeCompanies(q)
<1>1. ASSUME NEW w \in Workers, NEW i \in Invoices, NEW e \in Extractions,
             WorkerCommit(w, i, e)
      PROVE  \E q \in Requests : /\ rsrc[q] = k
                                 /\ DeleteCompany(q) \/ MergeCompanies(q)
  BY <1>1, TypeFacts DEF WorkerCommit, Noting, requestVars, Stored
<1>2. ASSUME NEW w \in Workers, SkipSide(w)
      PROVE  \E q \in Requests : /\ rsrc[q] = k
                                 /\ DeleteCompany(q) \/ MergeCompanies(q)
  BY <1>2, TypeFacts DEF SkipSide, Resolved, requestVars, tableVars, Stored
<1>3. ASSUME NEW w \in Workers, MatchCompany(w)
      PROVE  \E q \in Requests : /\ rsrc[q] = k
                                 /\ DeleteCompany(q) \/ MergeCompanies(q)
  BY <1>3, TypeFacts DEF MatchCompany, Resolved, requestVars, tableVars, Stored
<1>4. ASSUME NEW w \in Workers, UpsertFind(w)
      PROVE  \E q \in Requests : /\ rsrc[q] = k
                                 /\ DeleteCompany(q) \/ MergeCompanies(q)
  BY <1>4, TypeFacts DEF UpsertFind, requestVars, tableVars, Stored
<1>5. ASSUME NEW w \in Workers, UpsertInsert(w)
      PROVE  \E q \in Requests : /\ rsrc[q] = k
                                 /\ DeleteCompany(q) \/ MergeCompanies(q)
  BY <1>5, TypeFacts, PartyAtHand DEF UpsertInsert, Resolved, requestVars, Stored
<1>6. ASSUME NEW w \in Workers, UpsertUpdate(w)
      PROVE  \E q \in Requests : /\ rsrc[q] = k
                                 /\ DeleteCompany(q) \/ MergeCompanies(q)
  BY <1>6, TypeFacts, RefreshedRow DEF UpsertUpdate, Resolved, requestVars, Stored
<1>7. ASSUME NEW w \in Workers, UpsertFails(w)
      PROVE  \E q \in Requests : /\ rsrc[q] = k
                                 /\ DeleteCompany(q) \/ MergeCompanies(q)
  BY <1>7, TypeFacts DEF UpsertFails, Resolved, requestVars, tableVars, Stored
<1>8. ASSUME NEW w \in Workers, LinkCompanies(w)
      PROVE  \E q \in Requests : /\ rsrc[q] = k
                                 /\ DeleteCompany(q) \/ MergeCompanies(q)
  BY <1>8, TypeFacts DEF LinkCompanies, WorkerDone, Noting, requestVars, Stored
<1>9. ASSUME NEW w \in Workers, LinkNothing(w)
      PROVE  \E q \in Requests : /\ rsrc[q] = k
                                 /\ DeleteCompany(q) \/ MergeCompanies(q)
  BY <1>9, TypeFacts DEF LinkNothing, WorkerDone, requestVars, tableVars, Stored
<1>10. ASSUME NEW w \in Workers, WorkerDies(w)
       PROVE  \E q \in Requests : /\ rsrc[q] = k
                                  /\ DeleteCompany(q) \/ MergeCompanies(q)
  BY <1>10, TypeFacts DEF WorkerDies, WorkerDone, requestVars, tableVars, Stored
<1>11. ASSUME NEW i \in Invoices, InvoiceFails(i)
       PROVE  \E q \in Requests : /\ rsrc[q] = k
                                  /\ DeleteCompany(q) \/ MergeCompanies(q)
  BY <1>11, TypeFacts DEF InvoiceFails, requestVars, workerVars, Stored
<1>12. ASSUME NEW i \in Invoices, InvoiceReprocessed(i)
       PROVE  \E q \in Requests : /\ rsrc[q] = k
                                  /\ DeleteCompany(q) \/ MergeCompanies(q)
  BY <1>12, TypeFacts DEF InvoiceReprocessed, Noting, requestVars, workerVars,
     Stored
<1>13. ASSUME NEW r \in Requests, NEW c \in CompanyIds, DeleteCheck(r, c)
       PROVE  \E q \in Requests : /\ rsrc[q] = k
                                  /\ DeleteCompany(q) \/ MergeCompanies(q)
  BY <1>13, TypeFacts DEF DeleteCheck, Go, workerVars, tableVars, Stored
<1>14. ASSUME NEW r \in Requests, DeleteCompany(r)
       PROVE  \E q \in Requests : /\ rsrc[q] = k
                                  /\ DeleteCompany(q) \/ MergeCompanies(q)
  BY <1>14, TypeFacts DEF DeleteCompany, Return, Go, Unlinked, workerVars, Stored
<1>15. ASSUME NEW r \in Requests, NEW c \in CompanyIds, NEW d \in CompanyIds,
              MergeReadSource(r, c, d)
       PROVE  \E q \in Requests : /\ rsrc[q] = k
                                  /\ DeleteCompany(q) \/ MergeCompanies(q)
  BY <1>15, TypeFacts DEF MergeReadSource, Go, workerVars, tableVars, Stored
<1>16. ASSUME NEW r \in Requests, MergeReadTarget(r)
       PROVE  \E q \in Requests : /\ rsrc[q] = k
                                  /\ DeleteCompany(q) \/ MergeCompanies(q)
  BY <1>16, TypeFacts DEF MergeReadTarget, Go, workerVars, tableVars, Stored
<1>17. ASSUME NEW r \in Requests, MergeCompanies(r)
       PROVE  \E q \in Requests : /\ rsrc[q] = k
                                  /\ DeleteCompany(q) \/ MergeCompanies(q)
  BY <1>17, TypeFacts DEF MergeCompanies, Return, Go, Moved, Noting, workerVars,
     Stored
<1>18. ASSUME NEW r \in Requests, RequestEnds(r)
       PROVE  \E q \in Requests : /\ rsrc[q] = k
                                  /\ DeleteCompany(q) \/ MergeCompanies(q)
  BY <1>18, TypeFacts DEF RequestEnds, Return, Go, workerVars, tableVars, Stored
<1>19. CASE UNCHANGED vars
  BY <1>19 DEF vars, tableVars, workerVars, requestVars, Stored
<1>. QED
  BY NextSteps, <1>1, <1>2, <1>3, <1>4, <1>5, <1>6, <1>7, <1>8, <1>9, <1>10,
     <1>11, <1>12, <1>13, <1>14, <1>15, <1>16, <1>17, <1>18, <1>19


\* A link leads to a company that is stored.
LEMMA LinksStep ==
  ASSUME TablesTyped, LocalsTyped, LinksStored, Aimed, NEW j \in Invoices,
         NEW s \in Sides,
         link'[j][s] # NoCompany, [Next]_vars
  PROVE  link'[j][s] \in CompanyIds /\ row'[link'[j][s]] # NoRow
<1>1. ASSUME NEW w \in Workers, NEW i \in Invoices, NEW e \in Extractions,
             WorkerCommit(w, i, e)
      PROVE  link'[j][s] \in CompanyIds /\ row'[link'[j][s]] # NoRow
  BY <1>1, TypeFacts DEF WorkerCommit, Noting, requestVars, LinksStored, Stored,
     MaybeCompany
<1>2. ASSUME NEW w \in Workers, SkipSide(w)
      PROVE  link'[j][s] \in CompanyIds /\ row'[link'[j][s]] # NoRow
  BY <1>2, TypeFacts DEF SkipSide, Resolved, requestVars, tableVars,
     LinksStored, Stored, MaybeCompany
<1>3. ASSUME NEW w \in Workers, MatchCompany(w)
      PROVE  link'[j][s] \in CompanyIds /\ row'[link'[j][s]] # NoRow
  BY <1>3, TypeFacts DEF MatchCompany, Resolved, requestVars, tableVars,
     LinksStored, Stored, MaybeCompany
<1>4. ASSUME NEW w \in Workers, UpsertFind(w)
      PROVE  link'[j][s] \in CompanyIds /\ row'[link'[j][s]] # NoRow
  BY <1>4, TypeFacts DEF UpsertFind, requestVars, tableVars, LinksStored,
     Stored, MaybeCompany
<1>5. ASSUME NEW w \in Workers, UpsertInsert(w)
      PROVE  link'[j][s] \in CompanyIds /\ row'[link'[j][s]] # NoRow
  BY <1>5, TypeFacts DEF UpsertInsert, Resolved, requestVars, LinksStored,
     Stored, MaybeCompany
<1>6. ASSUME NEW w \in Workers, UpsertUpdate(w)
      PROVE  link'[j][s] \in CompanyIds /\ row'[link'[j][s]] # NoRow
  BY <1>6, TypeFacts, RefreshedRow DEF UpsertUpdate, Resolved, requestVars,
     LinksStored, Stored, MaybeCompany
<1>7. ASSUME NEW w \in Workers, UpsertFails(w)
      PROVE  link'[j][s] \in CompanyIds /\ row'[link'[j][s]] # NoRow
  BY <1>7, TypeFacts DEF UpsertFails, Resolved, requestVars, tableVars,
     LinksStored, Stored, MaybeCompany
<1>8. ASSUME NEW w \in Workers, LinkCompanies(w)
      PROVE  link'[j][s] \in CompanyIds /\ row'[link'[j][s]] # NoRow
  BY <1>8, TypeFacts DEF LinkCompanies, WorkerDone, Noting, requestVars,
     LinksStored, Stored, MaybeCompany, LinkSet
<1>9. ASSUME NEW w \in Workers, LinkNothing(w)
      PROVE  link'[j][s] \in CompanyIds /\ row'[link'[j][s]] # NoRow
  BY <1>9, TypeFacts DEF LinkNothing, WorkerDone, requestVars, tableVars,
     LinksStored, Stored, MaybeCompany
<1>10. ASSUME NEW w \in Workers, WorkerDies(w)
       PROVE  link'[j][s] \in CompanyIds /\ row'[link'[j][s]] # NoRow
  BY <1>10, TypeFacts DEF WorkerDies, WorkerDone, requestVars, tableVars,
     LinksStored, Stored, MaybeCompany
<1>11. ASSUME NEW i \in Invoices, InvoiceFails(i)
       PROVE  link'[j][s] \in CompanyIds /\ row'[link'[j][s]] # NoRow
  BY <1>11, TypeFacts DEF InvoiceFails, requestVars, workerVars, LinksStored,
     Stored, MaybeCompany
<1>12. ASSUME NEW i \in Invoices, InvoiceReprocessed(i)
       PROVE  link'[j][s] \in CompanyIds /\ row'[link'[j][s]] # NoRow
  BY <1>12, TypeFacts DEF InvoiceReprocessed, Noting, requestVars, workerVars,
     LinksStored, Stored, MaybeCompany
<1>13. ASSUME NEW r \in Requests, NEW c \in CompanyIds, DeleteCheck(r, c)
       PROVE  link'[j][s] \in CompanyIds /\ row'[link'[j][s]] # NoRow
  BY <1>13, TypeFacts DEF DeleteCheck, Go, workerVars, tableVars, LinksStored,
     Stored, MaybeCompany
<1>14. ASSUME NEW r \in Requests, DeleteCompany(r)
       PROVE  link'[j][s] \in CompanyIds /\ row'[link'[j][s]] # NoRow
  BY <1>14, TypeFacts DEF DeleteCompany, Return, Go, Unlinked, workerVars,
     LinksStored, Stored, MaybeCompany
<1>15. ASSUME NEW r \in Requests, NEW c \in CompanyIds, NEW d \in CompanyIds,
              MergeReadSource(r, c, d)
       PROVE  link'[j][s] \in CompanyIds /\ row'[link'[j][s]] # NoRow
  BY <1>15, TypeFacts DEF MergeReadSource, Go, workerVars, tableVars,
     LinksStored, Stored, MaybeCompany
<1>16. ASSUME NEW r \in Requests, MergeReadTarget(r)
       PROVE  link'[j][s] \in CompanyIds /\ row'[link'[j][s]] # NoRow
  BY <1>16, TypeFacts DEF MergeReadTarget, Go, workerVars, tableVars,
     LinksStored, Stored, MaybeCompany
<1>17. ASSUME NEW r \in Requests, MergeCompanies(r)
       PROVE  link'[j][s] \in CompanyIds /\ row'[link'[j][s]] # NoRow
  BY <1>17, TypeFacts DEF MergeCompanies, Return, Go, Moved, Noting, workerVars,
     LinksStored, Stored, MaybeCompany, LinkedTo, Aimed
<1>18. ASSUME NEW r \in Requests, RequestEnds(r)
       PROVE  link'[j][s] \in CompanyIds /\ row'[link'[j][s]] # NoRow
  BY <1>18, TypeFacts DEF RequestEnds, Return, Go, workerVars, tableVars,
     LinksStored, Stored, MaybeCompany
<1>19. CASE UNCHANGED vars
  BY <1>19 DEF vars, tableVars, workerVars, requestVars, LinksStored, Stored,
     MaybeCompany
<1>. QED
  BY NextSteps, <1>1, <1>2, <1>3, <1>4, <1>5, <1>6, <1>7, <1>8, <1>9, <1>10,
     <1>11, <1>12, <1>13, <1>14, <1>15, <1>16, <1>17, <1>18, <1>19


\* Who is linked or shown again after the count is noted.
LEMMA CountedStep ==
  ASSUME TablesTyped, LocalsTyped, Counted, Aimed,
         NEW q \in Requests, rpc'[q] = "delete",
         NEW j \in Invoices, NEW s \in Sides, link'[j][s] = rsrc'[q], [Next]_vars
  PROVE  j \in hidden' \cup since'[q]
<1>1. ASSUME NEW w \in Workers, NEW i \in Invoices, NEW e \in Extractions,
             WorkerCommit(w, i, e)
      PROVE  j \in hidden' \cup since'[q]
  BY <1>1, TypeFacts DEF WorkerCommit, Noting, requestVars, Counted
<1>2. ASSUME NEW w \in Workers, SkipSide(w)
      PROVE  j \in hidden' \cup since'[q]
  BY <1>2, TypeFacts DEF SkipSide, Resolved, requestVars, tableVars, Counted
<1>3. ASSUME NEW w \in Workers, MatchCompany(w)
      PROVE  j \in hidden' \cup since'[q]
  BY <1>3, TypeFacts DEF MatchCompany, Resolved, requestVars, tableVars, Counted
<1>4. ASSUME NEW w \in Workers, UpsertFind(w)
      PROVE  j \in hidden' \cup since'[q]
  BY <1>4, TypeFacts DEF UpsertFind, requestVars, tableVars, Counted
<1>5. ASSUME NEW w \in Workers, UpsertInsert(w)
      PROVE  j \in hidden' \cup since'[q]
  BY <1>5, TypeFacts DEF UpsertInsert, Resolved, requestVars, Counted
<1>6. ASSUME NEW w \in Workers, UpsertUpdate(w)
      PROVE  j \in hidden' \cup since'[q]
  BY <1>6, TypeFacts DEF UpsertUpdate, Resolved, requestVars, Counted
<1>7. ASSUME NEW w \in Workers, UpsertFails(w)
      PROVE  j \in hidden' \cup since'[q]
  BY <1>7, TypeFacts DEF UpsertFails, Resolved, requestVars, tableVars, Counted
<1>8. ASSUME NEW w \in Workers, LinkCompanies(w)
      PROVE  j \in hidden' \cup since'[q]
  BY <1>8, TypeFacts DEF LinkCompanies, WorkerDone, Noting, requestVars, Counted
<1>9. ASSUME NEW w \in Workers, LinkNothing(w)
      PROVE  j \in hidden' \cup since'[q]
  BY <1>9, TypeFacts DEF LinkNothing, WorkerDone, requestVars, tableVars, Counted
<1>10. ASSUME NEW w \in Workers, WorkerDies(w)
       PROVE  j \in hidden' \cup since'[q]
  BY <1>10, TypeFacts DEF WorkerDies, WorkerDone, requestVars, tableVars, Counted
<1>11. ASSUME NEW i \in Invoices, InvoiceFails(i)
       PROVE  j \in hidden' \cup since'[q]
  BY <1>11, TypeFacts DEF InvoiceFails, requestVars, workerVars, Counted
<1>12. ASSUME NEW i \in Invoices, InvoiceReprocessed(i)
       PROVE  j \in hidden' \cup since'[q]
  BY <1>12, TypeFacts DEF InvoiceReprocessed, Noting, requestVars, workerVars,
     Counted
<1>13. ASSUME NEW r \in Requests, NEW c \in CompanyIds, DeleteCheck(r, c)
       PROVE  j \in hidden' \cup since'[q]
  BY <1>13, TypeFacts DEF DeleteCheck, Go, workerVars, tableVars, Counted,
     LinkedTo
<1>14. ASSUME NEW r \in Requests, DeleteCompany(r)
       PROVE  j \in hidden' \cup since'[q]
  BY <1>14, TypeFacts, CompaniesAssumption DEF DeleteCompany, Return, Go,
     Unlinked, workerVars, Counted, Aimed
<1>15. ASSUME NEW r \in Requests, NEW c \in CompanyIds, NEW d \in CompanyIds,
              MergeReadSource(r, c, d)
       PROVE  j \in hidden' \cup since'[q]
  BY <1>15, TypeFacts DEF MergeReadSource, Go, workerVars, tableVars, Counted
<1>16. ASSUME NEW r \in Requests, MergeReadTarget(r)
       PROVE  j \in hidden' \cup since'[q]
  BY <1>16, TypeFacts DEF MergeReadTarget, Go, workerVars, tableVars, Counted
<1>17. ASSUME NEW r \in Requests, MergeCompanies(r)
       PROVE  j \in hidden' \cup since'[q]
  BY <1>17, TypeFacts DEF MergeCompanies, Return, Go, Moved, Noting, workerVars,
     Counted, LinkedTo, Aimed
<1>18. ASSUME NEW r \in Requests, RequestEnds(r)
       PROVE  j \in hidden' \cup since'[q]
  BY <1>18, TypeFacts DEF RequestEnds, Return, Go, workerVars, tableVars, Counted
<1>19. CASE UNCHANGED vars
  BY <1>19 DEF vars, tableVars, workerVars, requestVars, Counted
<1>. QED
  BY NextSteps, <1>1, <1>2, <1>3, <1>4, <1>5, <1>6, <1>7, <1>8, <1>9, <1>10,
     <1>11, <1>12, <1>13, <1>14, <1>15, <1>16, <1>17, <1>18, <1>19


\* A worker holds ids that were handed out.
LEMMA HandedOutStep ==
  ASSUME TablesTyped, LocalsTyped, HandedOut, NEW v \in Workers, NEW s \in Sides,
         [Next]_vars
  PROVE  /\ hit'[v] \in used' \cup {NoCompany} /\ target'[v] \in used' \cup {NoCompany}
         /\ res'[v][s] \in used' \cup {NoCompany}
<1>1. ASSUME NEW w \in Workers, NEW i \in Invoices, NEW e \in Extractions,
             WorkerCommit(w, i, e)
      PROVE  /\ hit'[v] \in used' \cup {NoCompany} /\ target'[v] \in used' \cup {NoCompany}
             /\ res'[v][s] \in used' \cup {NoCompany}
  BY <1>1, TypeFacts DEF WorkerCommit, Noting, requestVars, HandedOut
<1>2. ASSUME NEW w \in Workers, SkipSide(w)
      PROVE  /\ hit'[v] \in used' \cup {NoCompany} /\ target'[v] \in used' \cup {NoCompany}
             /\ res'[v][s] \in used' \cup {NoCompany}
  BY <1>2, TypeFacts DEF SkipSide, Resolved, requestVars, tableVars, HandedOut
<1>3. ASSUME NEW w \in Workers, MatchCompany(w)
      PROVE  /\ hit'[v] \in used' \cup {NoCompany} /\ target'[v] \in used' \cup {NoCompany}
             /\ res'[v][s] \in used' \cup {NoCompany}
  <2>0. wpc[w] = "match" /\ wext[w][wside[w]] # NoParty
    BY <1>3 DEF MatchCompany
  <2>1. PICK c \in Matches(Party(w)) :
          \/ /\ wpc' = [wpc EXCEPT ![w] = "find"]
             /\ hit' = [hit EXCEPT ![w] = c]
             /\ UNCHANGED <<winv, wext, wside, target, res>>
          \/ Resolved(w, NoCompany)
    BY <1>3 DEF MatchCompany
  <2>2. c \in used \cup {NoCompany}
    BY TypeFacts, MatchIsCompany
  <2>3. CASE Resolved(w, NoCompany)
    BY <1>3, <2>3, TypeFacts DEF MatchCompany, tableVars, Resolved, HandedOut
  <2>4. CASE ~Resolved(w, NoCompany)
    BY <1>3, <2>1, <2>2, <2>4, TypeFacts DEF MatchCompany, tableVars, HandedOut
  <2>. QED
    BY <2>3, <2>4
<1>4. ASSUME NEW w \in Workers, UpsertFind(w)
      PROVE  /\ hit'[v] \in used' \cup {NoCompany} /\ target'[v] \in used' \cup {NoCompany}
             /\ res'[v][s] \in used' \cup {NoCompany}
  <2>1. \A c \in Matches(Party(w)) : c \in used \cup {NoCompany}
    BY TypeFacts, MatchIsCompany
  <2>. QED
    BY <1>4, <2>1, TypeFacts DEF UpsertFind, tableVars, HandedOut
<1>5. ASSUME NEW w \in Workers, UpsertInsert(w)
      PROVE  /\ hit'[v] \in used' \cup {NoCompany} /\ target'[v] \in used' \cup {NoCompany}
             /\ res'[v][s] \in used' \cup {NoCompany}
  BY <1>5, TypeFacts DEF UpsertInsert, Resolved, requestVars, HandedOut
<1>6. ASSUME NEW w \in Workers, UpsertUpdate(w)
      PROVE  /\ hit'[v] \in used' \cup {NoCompany} /\ target'[v] \in used' \cup {NoCompany}
             /\ res'[v][s] \in used' \cup {NoCompany}
  BY <1>6, TypeFacts DEF UpsertUpdate, Resolved, requestVars, HandedOut
<1>7. ASSUME NEW w \in Workers, UpsertFails(w)
      PROVE  /\ hit'[v] \in used' \cup {NoCompany} /\ target'[v] \in used' \cup {NoCompany}
             /\ res'[v][s] \in used' \cup {NoCompany}
  BY <1>7, TypeFacts DEF UpsertFails, Resolved, requestVars, tableVars, HandedOut
<1>8. ASSUME NEW w \in Workers, LinkCompanies(w)
      PROVE  /\ hit'[v] \in used' \cup {NoCompany} /\ target'[v] \in used' \cup {NoCompany}
             /\ res'[v][s] \in used' \cup {NoCompany}
  BY <1>8, TypeFacts DEF LinkCompanies, WorkerDone, Noting, requestVars, HandedOut
<1>9. ASSUME NEW w \in Workers, LinkNothing(w)
      PROVE  /\ hit'[v] \in used' \cup {NoCompany} /\ target'[v] \in used' \cup {NoCompany}
             /\ res'[v][s] \in used' \cup {NoCompany}
  BY <1>9, TypeFacts DEF LinkNothing, WorkerDone, requestVars, tableVars,
     HandedOut
<1>10. ASSUME NEW w \in Workers, WorkerDies(w)
       PROVE  /\ hit'[v] \in used' \cup {NoCompany} /\ target'[v] \in used' \cup {NoCompany}
              /\ res'[v][s] \in used' \cup {NoCompany}
  BY <1>10, TypeFacts DEF WorkerDies, WorkerDone, requestVars, tableVars,
     HandedOut
<1>11. ASSUME NEW i \in Invoices, InvoiceFails(i)
       PROVE  /\ hit'[v] \in used' \cup {NoCompany} /\ target'[v] \in used' \cup {NoCompany}
              /\ res'[v][s] \in used' \cup {NoCompany}
  BY <1>11, TypeFacts DEF InvoiceFails, requestVars, workerVars, HandedOut
<1>12. ASSUME NEW i \in Invoices, InvoiceReprocessed(i)
       PROVE  /\ hit'[v] \in used' \cup {NoCompany} /\ target'[v] \in used' \cup {NoCompany}
              /\ res'[v][s] \in used' \cup {NoCompany}
  BY <1>12, TypeFacts DEF InvoiceReprocessed, Noting, requestVars, workerVars,
     HandedOut
<1>13. ASSUME NEW r \in Requests, NEW c \in CompanyIds, DeleteCheck(r, c)
       PROVE  /\ hit'[v] \in used' \cup {NoCompany} /\ target'[v] \in used' \cup {NoCompany}
              /\ res'[v][s] \in used' \cup {NoCompany}
  BY <1>13, TypeFacts DEF DeleteCheck, Go, workerVars, tableVars, HandedOut
<1>14. ASSUME NEW r \in Requests, DeleteCompany(r)
       PROVE  /\ hit'[v] \in used' \cup {NoCompany} /\ target'[v] \in used' \cup {NoCompany}
              /\ res'[v][s] \in used' \cup {NoCompany}
  BY <1>14, TypeFacts DEF DeleteCompany, Return, Go, Unlinked, workerVars,
     HandedOut
<1>15. ASSUME NEW r \in Requests, NEW c \in CompanyIds, NEW d \in CompanyIds,
              MergeReadSource(r, c, d)
       PROVE  /\ hit'[v] \in used' \cup {NoCompany} /\ target'[v] \in used' \cup {NoCompany}
              /\ res'[v][s] \in used' \cup {NoCompany}
  BY <1>15, TypeFacts DEF MergeReadSource, Go, workerVars, tableVars, HandedOut
<1>16. ASSUME NEW r \in Requests, MergeReadTarget(r)
       PROVE  /\ hit'[v] \in used' \cup {NoCompany} /\ target'[v] \in used' \cup {NoCompany}
              /\ res'[v][s] \in used' \cup {NoCompany}
  BY <1>16, TypeFacts DEF MergeReadTarget, Go, workerVars, tableVars, HandedOut
<1>17. ASSUME NEW r \in Requests, MergeCompanies(r)
       PROVE  /\ hit'[v] \in used' \cup {NoCompany} /\ target'[v] \in used' \cup {NoCompany}
              /\ res'[v][s] \in used' \cup {NoCompany}
  BY <1>17, TypeFacts DEF MergeCompanies, Return, Go, Moved, Noting, workerVars,
     HandedOut
<1>18. ASSUME NEW r \in Requests, RequestEnds(r)
       PROVE  /\ hit'[v] \in used' \cup {NoCompany} /\ target'[v] \in used' \cup {NoCompany}
              /\ res'[v][s] \in used' \cup {NoCompany}
  BY <1>18, TypeFacts DEF RequestEnds, Return, Go, workerVars, tableVars,
     HandedOut
<1>19. CASE UNCHANGED vars
  BY <1>19 DEF vars, tableVars, workerVars, requestVars, HandedOut
<1>. QED
  BY NextSteps, <1>1, <1>2, <1>3, <1>4, <1>5, <1>6, <1>7, <1>8, <1>9, <1>10,
     <1>11, <1>12, <1>13, <1>14, <1>15, <1>16, <1>17, <1>18, <1>19


\* A worker starts with nothing resolved.
LEMMA IdleStep ==
  ASSUME TablesTyped, LocalsTyped, IdleIsClean, NEW v \in Workers,
         wpc'[v] = "idle", NEW s \in Sides, [Next]_vars
  PROVE  res'[v][s] = NoCompany
<1>1. ASSUME NEW w \in Workers, NEW i \in Invoices, NEW e \in Extractions,
             WorkerCommit(w, i, e)
      PROVE  res'[v][s] = NoCompany
  BY <1>1, TypeFacts DEF WorkerCommit, Noting, requestVars, IdleIsClean
<1>2. ASSUME NEW w \in Workers, SkipSide(w)
      PROVE  res'[v][s] = NoCompany
  BY <1>2, TypeFacts DEF SkipSide, Resolved, requestVars, tableVars, IdleIsClean
<1>3. ASSUME NEW w \in Workers, MatchCompany(w)
      PROVE  res'[v][s] = NoCompany
  BY <1>3, TypeFacts DEF MatchCompany, Resolved, requestVars, tableVars,
     IdleIsClean
<1>4. ASSUME NEW w \in Workers, UpsertFind(w)
      PROVE  res'[v][s] = NoCompany
  BY <1>4, TypeFacts DEF UpsertFind, requestVars, tableVars, IdleIsClean
<1>5. ASSUME NEW w \in Workers, UpsertInsert(w)
      PROVE  res'[v][s] = NoCompany
  BY <1>5, TypeFacts DEF UpsertInsert, Resolved, requestVars, IdleIsClean
<1>6. ASSUME NEW w \in Workers, UpsertUpdate(w)
      PROVE  res'[v][s] = NoCompany
  BY <1>6, TypeFacts DEF UpsertUpdate, Resolved, requestVars, IdleIsClean
<1>7. ASSUME NEW w \in Workers, UpsertFails(w)
      PROVE  res'[v][s] = NoCompany
  BY <1>7, TypeFacts DEF UpsertFails, Resolved, requestVars, tableVars,
     IdleIsClean
<1>8. ASSUME NEW w \in Workers, LinkCompanies(w)
      PROVE  res'[v][s] = NoCompany
  BY <1>8, TypeFacts DEF LinkCompanies, WorkerDone, Noting, requestVars,
     IdleIsClean
<1>9. ASSUME NEW w \in Workers, LinkNothing(w)
      PROVE  res'[v][s] = NoCompany
  BY <1>9, TypeFacts DEF LinkNothing, WorkerDone, requestVars, tableVars,
     IdleIsClean
<1>10. ASSUME NEW w \in Workers, WorkerDies(w)
       PROVE  res'[v][s] = NoCompany
  BY <1>10, TypeFacts DEF WorkerDies, WorkerDone, requestVars, tableVars,
     IdleIsClean
<1>11. ASSUME NEW i \in Invoices, InvoiceFails(i)
       PROVE  res'[v][s] = NoCompany
  BY <1>11, TypeFacts DEF InvoiceFails, requestVars, workerVars, IdleIsClean
<1>12. ASSUME NEW i \in Invoices, InvoiceReprocessed(i)
       PROVE  res'[v][s] = NoCompany
  BY <1>12, TypeFacts DEF InvoiceReprocessed, Noting, requestVars, workerVars,
     IdleIsClean
<1>13. ASSUME NEW r \in Requests, NEW c \in CompanyIds, DeleteCheck(r, c)
       PROVE  res'[v][s] = NoCompany
  BY <1>13, TypeFacts DEF DeleteCheck, Go, workerVars, tableVars, IdleIsClean
<1>14. ASSUME NEW r \in Requests, DeleteCompany(r)
       PROVE  res'[v][s] = NoCompany
  BY <1>14, TypeFacts DEF DeleteCompany, Return, Go, Unlinked, workerVars,
     IdleIsClean
<1>15. ASSUME NEW r \in Requests, NEW c \in CompanyIds, NEW d \in CompanyIds,
              MergeReadSource(r, c, d)
       PROVE  res'[v][s] = NoCompany
  BY <1>15, TypeFacts DEF MergeReadSource, Go, workerVars, tableVars, IdleIsClean
<1>16. ASSUME NEW r \in Requests, MergeReadTarget(r)
       PROVE  res'[v][s] = NoCompany
  BY <1>16, TypeFacts DEF MergeReadTarget, Go, workerVars, tableVars, IdleIsClean
<1>17. ASSUME NEW r \in Requests, MergeCompanies(r)
       PROVE  res'[v][s] = NoCompany
  BY <1>17, TypeFacts DEF MergeCompanies, Return, Go, Moved, Noting, workerVars,
     IdleIsClean
<1>18. ASSUME NEW r \in Requests, RequestEnds(r)
       PROVE  res'[v][s] = NoCompany
  BY <1>18, TypeFacts DEF RequestEnds, Return, Go, workerVars, tableVars,
     IdleIsClean
<1>19. CASE UNCHANGED vars
  BY <1>19 DEF vars, tableVars, workerVars, requestVars, IdleIsClean
<1>. QED
  BY NextSteps, <1>1, <1>2, <1>3, <1>4, <1>5, <1>6, <1>7, <1>8, <1>9, <1>10,
     <1>11, <1>12, <1>13, <1>14, <1>15, <1>16, <1>17, <1>18, <1>19


\* An upsert without a match has a party with a key at hand.
LEMMA KeyedStep ==
  ASSUME TablesTyped, LocalsTyped, MatchedOrKeyed, NEW v \in Workers,
         wpc'[v] \in {"find", "write"},
         hit'[v] = NoCompany, [Next]_vars
  PROVE  HasKey(Normalized(wext'[v][wside'[v]]))
<1>1. ASSUME NEW w \in Workers, NEW i \in Invoices, NEW e \in Extractions,
             WorkerCommit(w, i, e)
      PROVE  HasKey(Normalized(wext'[v][wside'[v]]))
  BY <1>1, TypeFacts DEF WorkerCommit, Noting, requestVars, MatchedOrKeyed, Party
<1>2. ASSUME NEW w \in Workers, SkipSide(w)
      PROVE  HasKey(Normalized(wext'[v][wside'[v]]))
  BY <1>2, TypeFacts DEF SkipSide, Resolved, requestVars, tableVars,
     MatchedOrKeyed, Party
<1>3. ASSUME NEW w \in Workers, MatchCompany(w)
      PROVE  HasKey(Normalized(wext'[v][wside'[v]]))
  BY <1>3, TypeFacts DEF MatchCompany, Resolved, requestVars, tableVars,
     MatchedOrKeyed, Party
<1>4. ASSUME NEW w \in Workers, UpsertFind(w)
      PROVE  HasKey(Normalized(wext'[v][wside'[v]]))
  BY <1>4, TypeFacts DEF UpsertFind, requestVars, tableVars, MatchedOrKeyed, Party
<1>5. ASSUME NEW w \in Workers, UpsertInsert(w)
      PROVE  HasKey(Normalized(wext'[v][wside'[v]]))
  BY <1>5, TypeFacts DEF UpsertInsert, Resolved, requestVars, MatchedOrKeyed,
     Party
<1>6. ASSUME NEW w \in Workers, UpsertUpdate(w)
      PROVE  HasKey(Normalized(wext'[v][wside'[v]]))
  BY <1>6, TypeFacts DEF UpsertUpdate, Resolved, requestVars, MatchedOrKeyed,
     Party
<1>7. ASSUME NEW w \in Workers, UpsertFails(w)
      PROVE  HasKey(Normalized(wext'[v][wside'[v]]))
  BY <1>7, TypeFacts DEF UpsertFails, Resolved, requestVars, tableVars,
     MatchedOrKeyed, Party
<1>8. ASSUME NEW w \in Workers, LinkCompanies(w)
      PROVE  HasKey(Normalized(wext'[v][wside'[v]]))
  BY <1>8, TypeFacts DEF LinkCompanies, WorkerDone, Noting, requestVars,
     MatchedOrKeyed, Party
<1>9. ASSUME NEW w \in Workers, LinkNothing(w)
      PROVE  HasKey(Normalized(wext'[v][wside'[v]]))
  BY <1>9, TypeFacts DEF LinkNothing, WorkerDone, requestVars, tableVars,
     MatchedOrKeyed, Party
<1>10. ASSUME NEW w \in Workers, WorkerDies(w)
       PROVE  HasKey(Normalized(wext'[v][wside'[v]]))
  BY <1>10, TypeFacts DEF WorkerDies, WorkerDone, requestVars, tableVars,
     MatchedOrKeyed, Party
<1>11. ASSUME NEW i \in Invoices, InvoiceFails(i)
       PROVE  HasKey(Normalized(wext'[v][wside'[v]]))
  BY <1>11, TypeFacts DEF InvoiceFails, requestVars, workerVars, MatchedOrKeyed,
     Party
<1>12. ASSUME NEW i \in Invoices, InvoiceReprocessed(i)
       PROVE  HasKey(Normalized(wext'[v][wside'[v]]))
  BY <1>12, TypeFacts DEF InvoiceReprocessed, Noting, requestVars, workerVars,
     MatchedOrKeyed, Party
<1>13. ASSUME NEW r \in Requests, NEW c \in CompanyIds, DeleteCheck(r, c)
       PROVE  HasKey(Normalized(wext'[v][wside'[v]]))
  BY <1>13, TypeFacts DEF DeleteCheck, Go, workerVars, tableVars,
     MatchedOrKeyed, Party
<1>14. ASSUME NEW r \in Requests, DeleteCompany(r)
       PROVE  HasKey(Normalized(wext'[v][wside'[v]]))
  BY <1>14, TypeFacts DEF DeleteCompany, Return, Go, Unlinked, workerVars,
     MatchedOrKeyed, Party
<1>15. ASSUME NEW r \in Requests, NEW c \in CompanyIds, NEW d \in CompanyIds,
              MergeReadSource(r, c, d)
       PROVE  HasKey(Normalized(wext'[v][wside'[v]]))
  BY <1>15, TypeFacts DEF MergeReadSource, Go, workerVars, tableVars,
     MatchedOrKeyed, Party
<1>16. ASSUME NEW r \in Requests, MergeReadTarget(r)
       PROVE  HasKey(Normalized(wext'[v][wside'[v]]))
  BY <1>16, TypeFacts DEF MergeReadTarget, Go, workerVars, tableVars,
     MatchedOrKeyed, Party
<1>17. ASSUME NEW r \in Requests, MergeCompanies(r)
       PROVE  HasKey(Normalized(wext'[v][wside'[v]]))
  BY <1>17, TypeFacts DEF MergeCompanies, Return, Go, Moved, Noting, workerVars,
     MatchedOrKeyed, Party
<1>18. ASSUME NEW r \in Requests, RequestEnds(r)
       PROVE  HasKey(Normalized(wext'[v][wside'[v]]))
  BY <1>18, TypeFacts DEF RequestEnds, Return, Go, workerVars, tableVars,
     MatchedOrKeyed, Party
<1>19. CASE UNCHANGED vars
  BY <1>19 DEF vars, tableVars, workerVars, requestVars, MatchedOrKeyed, Party
<1>. QED
  BY NextSteps, <1>1, <1>2, <1>3, <1>4, <1>5, <1>6, <1>7, <1>8, <1>9, <1>10,
     <1>11, <1>12, <1>13, <1>14, <1>15, <1>16, <1>17, <1>18, <1>19


\* The unique index on the VAT code, over inserts and refreshes.
LEMMA VatUniqueStep ==
  ASSUME TablesTyped, LocalsTyped, VatUnique, NEW a \in CompanyIds,
         NEW b \in CompanyIds,
         row'[a] # NoRow, row'[b] # NoRow, row'[a].vat # Blank, row'[a].vat = row'[b].vat,
         [Next]_vars
  PROVE  a = b
<1>1. ASSUME NEW w \in Workers, NEW i \in Invoices, NEW e \in Extractions,
             WorkerCommit(w, i, e)
      PROVE  a = b
  BY <1>1, TypeFacts DEF WorkerCommit, Noting, requestVars, VatUnique, VatTaken,
     Stored
<1>2. ASSUME NEW w \in Workers, SkipSide(w)
      PROVE  a = b
  BY <1>2, TypeFacts DEF SkipSide, Resolved, requestVars, tableVars, VatUnique,
     VatTaken, Stored
<1>3. ASSUME NEW w \in Workers, MatchCompany(w)
      PROVE  a = b
  BY <1>3, TypeFacts DEF MatchCompany, Resolved, requestVars, tableVars,
     VatUnique, VatTaken, Stored
<1>4. ASSUME NEW w \in Workers, UpsertFind(w)
      PROVE  a = b
  BY <1>4, TypeFacts DEF UpsertFind, requestVars, tableVars, VatUnique,
     VatTaken, Stored
<1>5. ASSUME NEW w \in Workers, UpsertInsert(w)
      PROVE  a = b
  BY <1>5, TypeFacts DEF UpsertInsert, Resolved, requestVars, VatUnique,
     VatTaken, Stored
<1>6. ASSUME NEW w \in Workers, UpsertUpdate(w)
      PROVE  a = b
  BY <1>6, TypeFacts, RefreshedRow DEF UpsertUpdate, Resolved, requestVars,
     VatUnique, VatTaken, Stored
<1>7. ASSUME NEW w \in Workers, UpsertFails(w)
      PROVE  a = b
  BY <1>7, TypeFacts DEF UpsertFails, Resolved, requestVars, tableVars,
     VatUnique, VatTaken, Stored
<1>8. ASSUME NEW w \in Workers, LinkCompanies(w)
      PROVE  a = b
  BY <1>8, TypeFacts DEF LinkCompanies, WorkerDone, Noting, requestVars,
     VatUnique, VatTaken, Stored
<1>9. ASSUME NEW w \in Workers, LinkNothing(w)
      PROVE  a = b
  BY <1>9, TypeFacts DEF LinkNothing, WorkerDone, requestVars, tableVars,
     VatUnique, VatTaken, Stored
<1>10. ASSUME NEW w \in Workers, WorkerDies(w)
       PROVE  a = b
  BY <1>10, TypeFacts DEF WorkerDies, WorkerDone, requestVars, tableVars,
     VatUnique, VatTaken, Stored
<1>11. ASSUME NEW i \in Invoices, InvoiceFails(i)
       PROVE  a = b
  BY <1>11, TypeFacts DEF InvoiceFails, requestVars, workerVars, VatUnique,
     VatTaken, Stored
<1>12. ASSUME NEW i \in Invoices, InvoiceReprocessed(i)
       PROVE  a = b
  BY <1>12, TypeFacts DEF InvoiceReprocessed, Noting, requestVars, workerVars,
     VatUnique, VatTaken, Stored
<1>13. ASSUME NEW r \in Requests, NEW c \in CompanyIds, DeleteCheck(r, c)
       PROVE  a = b
  BY <1>13, TypeFacts DEF DeleteCheck, Go, workerVars, tableVars, VatUnique,
     VatTaken, Stored
<1>14. ASSUME NEW r \in Requests, DeleteCompany(r)
       PROVE  a = b
  BY <1>14, TypeFacts DEF DeleteCompany, Return, Go, Unlinked, workerVars,
     VatUnique, VatTaken, Stored
<1>15. ASSUME NEW r \in Requests, NEW c \in CompanyIds, NEW d \in CompanyIds,
              MergeReadSource(r, c, d)
       PROVE  a = b
  BY <1>15, TypeFacts DEF MergeReadSource, Go, workerVars, tableVars, VatUnique,
     VatTaken, Stored
<1>16. ASSUME NEW r \in Requests, MergeReadTarget(r)
       PROVE  a = b
  BY <1>16, TypeFacts DEF MergeReadTarget, Go, workerVars, tableVars, VatUnique,
     VatTaken, Stored
<1>17. ASSUME NEW r \in Requests, MergeCompanies(r)
       PROVE  a = b
  BY <1>17, TypeFacts DEF MergeCompanies, Return, Go, Moved, Noting, workerVars,
     VatUnique, VatTaken, Stored
<1>18. ASSUME NEW r \in Requests, RequestEnds(r)
       PROVE  a = b
  BY <1>18, TypeFacts DEF RequestEnds, Return, Go, workerVars, tableVars,
     VatUnique, VatTaken, Stored
<1>19. CASE UNCHANGED vars
  BY <1>19 DEF vars, tableVars, workerVars, requestVars, VatUnique, VatTaken,
     Stored
<1>. QED
  BY NextSteps, <1>1, <1>2, <1>3, <1>4, <1>5, <1>6, <1>7, <1>8, <1>9, <1>10,
     <1>11, <1>12, <1>13, <1>14, <1>15, <1>16, <1>17, <1>18, <1>19

-------------------------------------------------------------------------------
(* Owners                                                                  *)

\* What KeysIdentify says of an assignment of owners to parties.
Owns(owner) ==
  \A p, q \in Parties :
    /\ p.title = q.title => owner[p] = owner[q]
    /\ p.code # Blank /\ p.code = q.code => owner[p] = owner[q]
    /\ Normalize(p.vat) # Blank /\ Normalize(p.vat) = Normalize(q.vat)
         => owner[p] = owner[q]
    /\ Normalize(p.vat) # Blank /\ Normalize(q.vat) # Blank /\ owner[p] = owner[q]
         => Normalize(p.vat) = Normalize(q.vat)

\* Every key of a row is one of its owner.
OwnedBy(owner, r, o) ==
  /\ \E q \in Parties : q.title = r.title /\ owner[q] = o
  /\ r.code # Blank => \E q \in Parties : q.code = r.code /\ owner[q] = o
  /\ r.vat # Blank => \E q \in Parties : Normalize(q.vat) = r.vat /\ owner[q] = o

RowsOwned(owner) ==
  \A c \in CompanyIds : Stored(c) =>
    \E q \in Parties : OwnedBy(owner, row[c], owner[q])

Held(owner, k, p) == Stored(k) => OwnedBy(owner, row[k], owner[p])

HeldOwned(owner) ==
  \A w \in Workers :
    /\ wpc[w] # "idle" => \A s \in Sides :
         wext[w][s] # NoParty => Held(owner, res[w][s], wext[w][s])
    /\ wpc[w] \in {"find", "write"} => Held(owner, hit[w], wext[w][wside[w]])
    /\ wpc[w] = "write" => Held(owner, target[w], wext[w][wside[w]])

LEMMA OneOwner ==
  ASSUME NEW owner, Owns(owner), NEW r, NEW o, NEW u,
         OwnedBy(owner, r, o), OwnedBy(owner, r, u)
  PROVE  o = u
BY DEF Owns, OwnedBy

\* A row that shares a key with a party belongs to its owner.
LEMMA MatchOwned ==
  ASSUME NEW owner, Owns(owner), RowsOwned(owner), NEW p \in Parties,
         NEW c \in Matches(Normalized(p))
  PROVE  Held(owner, c, p)
<1>. SUFFICES ASSUME Stored(c) PROVE OwnedBy(owner, row[c], owner[p])
  BY DEF Held
<1>1. PICK q \in Parties : OwnedBy(owner, row[c], owner[q])
  BY DEF RowsOwned, Stored
<1>2. c # NoCompany
  BY CompaniesAssumption DEF Stored
<1>3. \/ c \in ByVat(Normalized(p)) \/ c \in ByCode(Normalized(p))
      \/ c \in ByTitle(Normalized(p))
  BY <1>2, MatchIsCompany
<1>4. \/ row[c].vat = Normalize(p.vat) /\ Normalize(p.vat) # Blank
      \/ row[c].code = p.code /\ p.code # Blank
      \/ row[c].title = p.title
  BY <1>3, PartyIsRow DEF ByVat, ByCode, ByTitle
<1>5. owner[p] = owner[q]
  BY <1>1, <1>4 DEF Owns, OwnedBy
<1>. QED
  BY <1>1, <1>5

\* A refreshed row keeps its owner.
LEMMA RefreshOwned ==
  ASSUME NEW owner, NEW p \in Parties, NEW r \in Row, OwnedBy(owner, r, owner[p])
  PROVE  OwnedBy(owner, Refresh(r, Normalized(p)), owner[p])
BY PartyIsRow, RefreshedIsRow DEF OwnedBy

LEMMA NewOwned ==
  ASSUME NEW owner, NEW p \in Parties
  PROVE  OwnedBy(owner, Normalized(p), owner[p])
BY PartyIsRow DEF OwnedBy

\* A company comes into being for the party an upsert has at hand.
LEMMA RowsNew ==
  ASSUME TablesTyped, LocalsTyped, NEW k \in CompanyIds, ~Stored(k),
         row'[k] # NoRow, [Next]_vars
  PROVE  \E v \in Workers : /\ wpc[v] = "write" /\ wext[v][wside[v]] # NoParty
                            /\ k \notin used /\ row'[k] = Party(v)
                            /\ target[v] = NoCompany
<1>1. ASSUME NEW w \in Workers, NEW i \in Invoices, NEW e \in Extractions,
             WorkerCommit(w, i, e)
      PROVE  \E v \in Workers : /\ wpc[v] = "write" /\ wext[v][wside[v]] # NoParty
                                /\ k \notin used /\ row'[k] = Party(v)
                                /\ target[v] = NoCompany
  BY <1>1, TypeFacts DEF WorkerCommit, Noting, requestVars, Stored
<1>2. ASSUME NEW w \in Workers, SkipSide(w)
      PROVE  \E v \in Workers : /\ wpc[v] = "write" /\ wext[v][wside[v]] # NoParty
                                /\ k \notin used /\ row'[k] = Party(v)
                                /\ target[v] = NoCompany
  BY <1>2, TypeFacts DEF SkipSide, Resolved, requestVars, tableVars, Stored
<1>3. ASSUME NEW w \in Workers, MatchCompany(w)
      PROVE  \E v \in Workers : /\ wpc[v] = "write" /\ wext[v][wside[v]] # NoParty
                                /\ k \notin used /\ row'[k] = Party(v)
                                /\ target[v] = NoCompany
  BY <1>3, TypeFacts DEF MatchCompany, Resolved, requestVars, tableVars, Stored
<1>4. ASSUME NEW w \in Workers, UpsertFind(w)
      PROVE  \E v \in Workers : /\ wpc[v] = "write" /\ wext[v][wside[v]] # NoParty
                                /\ k \notin used /\ row'[k] = Party(v)
                                /\ target[v] = NoCompany
  BY <1>4, TypeFacts DEF UpsertFind, requestVars, tableVars, Stored
<1>5. ASSUME NEW w \in Workers, UpsertInsert(w)
      PROVE  \E v \in Workers : /\ wpc[v] = "write" /\ wext[v][wside[v]] # NoParty
                                /\ k \notin used /\ row'[k] = Party(v)
                                /\ target[v] = NoCompany
  <2>1. /\ wpc[w] = "write" /\ wext[w][wside[w]] # NoParty
        /\ target[w] = NoCompany
    BY <1>5 DEF UpsertInsert, LocalsTyped
  <2>2. PICK c \in CompanyIds \ used : row' = [row EXCEPT ![c] = Party(w)]
    BY <1>5 DEF UpsertInsert
  <2>3. k = c
    BY <2>2, TypeFacts DEF Stored
  <2>. QED
    BY <2>1, <2>2, <2>3, TypeFacts
<1>6. ASSUME NEW w \in Workers, UpsertUpdate(w)
      PROVE  \E v \in Workers : /\ wpc[v] = "write" /\ wext[v][wside[v]] # NoParty
                                /\ k \notin used /\ row'[k] = Party(v)
                                /\ target[v] = NoCompany
  BY <1>6, TypeFacts DEF UpsertUpdate, Resolved, requestVars, Stored
<1>7. ASSUME NEW w \in Workers, UpsertFails(w)
      PROVE  \E v \in Workers : /\ wpc[v] = "write" /\ wext[v][wside[v]] # NoParty
                                /\ k \notin used /\ row'[k] = Party(v)
                                /\ target[v] = NoCompany
  BY <1>7, TypeFacts DEF UpsertFails, Resolved, requestVars, tableVars, Stored
<1>8. ASSUME NEW w \in Workers, LinkCompanies(w)
      PROVE  \E v \in Workers : /\ wpc[v] = "write" /\ wext[v][wside[v]] # NoParty
                                /\ k \notin used /\ row'[k] = Party(v)
                                /\ target[v] = NoCompany
  BY <1>8, TypeFacts DEF LinkCompanies, WorkerDone, Noting, requestVars, Stored
<1>9. ASSUME NEW w \in Workers, LinkNothing(w)
      PROVE  \E v \in Workers : /\ wpc[v] = "write" /\ wext[v][wside[v]] # NoParty
                                /\ k \notin used /\ row'[k] = Party(v)
                                /\ target[v] = NoCompany
  BY <1>9, TypeFacts DEF LinkNothing, WorkerDone, requestVars, tableVars, Stored
<1>10. ASSUME NEW w \in Workers, WorkerDies(w)
       PROVE  \E v \in Workers : /\ wpc[v] = "write" /\ wext[v][wside[v]] # NoParty
                                 /\ k \notin used /\ row'[k] = Party(v)
                                 /\ target[v] = NoCompany
  BY <1>10, TypeFacts DEF WorkerDies, WorkerDone, requestVars, tableVars, Stored
<1>11. ASSUME NEW i \in Invoices, InvoiceFails(i)
       PROVE  \E v \in Workers : /\ wpc[v] = "write" /\ wext[v][wside[v]] # NoParty
                                 /\ k \notin used /\ row'[k] = Party(v)
                                 /\ target[v] = NoCompany
  BY <1>11, TypeFacts DEF InvoiceFails, requestVars, workerVars, Stored
<1>12. ASSUME NEW i \in Invoices, InvoiceReprocessed(i)
       PROVE  \E v \in Workers : /\ wpc[v] = "write" /\ wext[v][wside[v]] # NoParty
                                 /\ k \notin used /\ row'[k] = Party(v)
                                 /\ target[v] = NoCompany
  BY <1>12, TypeFacts DEF InvoiceReprocessed, Noting, requestVars, workerVars,
     Stored
<1>13. ASSUME NEW r \in Requests, NEW c \in CompanyIds, DeleteCheck(r, c)
       PROVE  \E v \in Workers : /\ wpc[v] = "write" /\ wext[v][wside[v]] # NoParty
                                 /\ k \notin used /\ row'[k] = Party(v)
                                 /\ target[v] = NoCompany
  BY <1>13, TypeFacts DEF DeleteCheck, Go, workerVars, tableVars, Stored
<1>14. ASSUME NEW r \in Requests, DeleteCompany(r)
       PROVE  \E v \in Workers : /\ wpc[v] = "write" /\ wext[v][wside[v]] # NoParty
                                 /\ k \notin used /\ row'[k] = Party(v)
                                 /\ target[v] = NoCompany
  BY <1>14, TypeFacts DEF DeleteCompany, Return, Go, Unlinked, workerVars, Stored
<1>15. ASSUME NEW r \in Requests, NEW c \in CompanyIds, NEW d \in CompanyIds,
              MergeReadSource(r, c, d)
       PROVE  \E v \in Workers : /\ wpc[v] = "write" /\ wext[v][wside[v]] # NoParty
                                 /\ k \notin used /\ row'[k] = Party(v)
                                 /\ target[v] = NoCompany
  BY <1>15, TypeFacts DEF MergeReadSource, Go, workerVars, tableVars, Stored
<1>16. ASSUME NEW r \in Requests, MergeReadTarget(r)
       PROVE  \E v \in Workers : /\ wpc[v] = "write" /\ wext[v][wside[v]] # NoParty
                                 /\ k \notin used /\ row'[k] = Party(v)
                                 /\ target[v] = NoCompany
  BY <1>16, TypeFacts DEF MergeReadTarget, Go, workerVars, tableVars, Stored
<1>17. ASSUME NEW r \in Requests, MergeCompanies(r)
       PROVE  \E v \in Workers : /\ wpc[v] = "write" /\ wext[v][wside[v]] # NoParty
                                 /\ k \notin used /\ row'[k] = Party(v)
                                 /\ target[v] = NoCompany
  BY <1>17, TypeFacts DEF MergeCompanies, Return, Go, Moved, Noting, workerVars,
     Stored
<1>18. ASSUME NEW r \in Requests, RequestEnds(r)
       PROVE  \E v \in Workers : /\ wpc[v] = "write" /\ wext[v][wside[v]] # NoParty
                                 /\ k \notin used /\ row'[k] = Party(v)
                                 /\ target[v] = NoCompany
  BY <1>18, TypeFacts DEF RequestEnds, Return, Go, workerVars, tableVars, Stored
<1>19. CASE UNCHANGED vars
  BY <1>19 DEF vars, tableVars, workerVars, requestVars, Stored
<1>. QED
  BY NextSteps, <1>1, <1>2, <1>3, <1>4, <1>5, <1>6, <1>7, <1>8, <1>9, <1>10,
     <1>11, <1>12, <1>13, <1>14, <1>15, <1>16, <1>17, <1>18, <1>19


\* A company keeps its owner.
LEMMA RowKeepsOwner ==
  ASSUME TablesTyped, LocalsTyped, NEW owner, Owns(owner), HeldOwned(owner),
         NEW k, Stored(k), row'[k] # NoRow, NEW q \in Parties,
         OwnedBy(owner, row[k], owner[q]), [Next]_vars
  PROVE  OwnedBy(owner, row'[k], owner[q])
<1>1. ASSUME NEW w \in Workers, NEW i \in Invoices, NEW e \in Extractions,
             WorkerCommit(w, i, e)
      PROVE  OwnedBy(owner, row'[k], owner[q])
  BY <1>1, TypeFacts DEF WorkerCommit, Noting, requestVars, Stored
<1>2. ASSUME NEW w \in Workers, SkipSide(w)
      PROVE  OwnedBy(owner, row'[k], owner[q])
  BY <1>2, TypeFacts DEF SkipSide, Resolved, requestVars, tableVars, Stored
<1>3. ASSUME NEW w \in Workers, MatchCompany(w)
      PROVE  OwnedBy(owner, row'[k], owner[q])
  BY <1>3, TypeFacts DEF MatchCompany, Resolved, requestVars, tableVars, Stored
<1>4. ASSUME NEW w \in Workers, UpsertFind(w)
      PROVE  OwnedBy(owner, row'[k], owner[q])
  BY <1>4, TypeFacts DEF UpsertFind, requestVars, tableVars, Stored
<1>5. ASSUME NEW w \in Workers, UpsertInsert(w)
      PROVE  OwnedBy(owner, row'[k], owner[q])
  BY <1>5, TypeFacts DEF UpsertInsert, Resolved, requestVars, Stored
<1>6. ASSUME NEW w \in Workers, UpsertUpdate(w)
      PROVE  OwnedBy(owner, row'[k], owner[q])
  <2>1. CASE k # target[w] \/ ~Stored(target[w])
    BY <1>6, <2>1, TypeFacts DEF UpsertUpdate
  <2>2. CASE k = target[w] /\ Stored(target[w])
    <3>1. wext[w][wside[w]] \in Parties
      BY <1>6, PartyAtHand DEF UpsertUpdate, LocalsTyped
    <3>2. OwnedBy(owner, row[k], owner[wext[w][wside[w]]])
      BY <1>6, <2>2, TypeFacts, <3>1, CompaniesAssumption DEF UpsertUpdate,
         HeldOwned, Held
    <3>3. owner[wext[w][wside[w]]] = owner[q]
      BY <3>2, OneOwner
    <3>4. row'[k] = Refresh(row[k], Normalized(wext[w][wside[w]]))
      BY <1>6, <2>2, TypeFacts DEF UpsertUpdate, Party
    <3>5. OwnedBy(owner, row'[k], owner[wext[w][wside[w]]])
      BY <2>2, <3>1, <3>2, <3>4, RefreshOwned, TypeFacts
    <3>. QED
      BY <3>3, <3>5
  <2>. QED
    BY <2>1, <2>2
<1>7. ASSUME NEW w \in Workers, UpsertFails(w)
      PROVE  OwnedBy(owner, row'[k], owner[q])
  BY <1>7, TypeFacts DEF UpsertFails, Resolved, requestVars, tableVars, Stored
<1>8. ASSUME NEW w \in Workers, LinkCompanies(w)
      PROVE  OwnedBy(owner, row'[k], owner[q])
  BY <1>8, TypeFacts DEF LinkCompanies, WorkerDone, Noting, requestVars, Stored
<1>9. ASSUME NEW w \in Workers, LinkNothing(w)
      PROVE  OwnedBy(owner, row'[k], owner[q])
  BY <1>9, TypeFacts DEF LinkNothing, WorkerDone, requestVars, tableVars, Stored
<1>10. ASSUME NEW w \in Workers, WorkerDies(w)
       PROVE  OwnedBy(owner, row'[k], owner[q])
  BY <1>10, TypeFacts DEF WorkerDies, WorkerDone, requestVars, tableVars, Stored
<1>11. ASSUME NEW i \in Invoices, InvoiceFails(i)
       PROVE  OwnedBy(owner, row'[k], owner[q])
  BY <1>11, TypeFacts DEF InvoiceFails, requestVars, workerVars, Stored
<1>12. ASSUME NEW i \in Invoices, InvoiceReprocessed(i)
       PROVE  OwnedBy(owner, row'[k], owner[q])
  BY <1>12, TypeFacts DEF InvoiceReprocessed, Noting, requestVars, workerVars,
     Stored
<1>13. ASSUME NEW r \in Requests, NEW c \in CompanyIds, DeleteCheck(r, c)
       PROVE  OwnedBy(owner, row'[k], owner[q])
  BY <1>13, TypeFacts DEF DeleteCheck, Go, workerVars, tableVars, Stored
<1>14. ASSUME NEW r \in Requests, DeleteCompany(r)
       PROVE  OwnedBy(owner, row'[k], owner[q])
  BY <1>14, TypeFacts DEF DeleteCompany, Return, Go, Unlinked, workerVars, Stored
<1>15. ASSUME NEW r \in Requests, NEW c \in CompanyIds, NEW d \in CompanyIds,
              MergeReadSource(r, c, d)
       PROVE  OwnedBy(owner, row'[k], owner[q])
  BY <1>15, TypeFacts DEF MergeReadSource, Go, workerVars, tableVars, Stored
<1>16. ASSUME NEW r \in Requests, MergeReadTarget(r)
       PROVE  OwnedBy(owner, row'[k], owner[q])
  BY <1>16, TypeFacts DEF MergeReadTarget, Go, workerVars, tableVars, Stored
<1>17. ASSUME NEW r \in Requests, MergeCompanies(r)
       PROVE  OwnedBy(owner, row'[k], owner[q])
  BY <1>17, TypeFacts DEF MergeCompanies, Return, Go, Moved, Noting, workerVars,
     Stored
<1>18. ASSUME NEW r \in Requests, RequestEnds(r)
       PROVE  OwnedBy(owner, row'[k], owner[q])
  BY <1>18, TypeFacts DEF RequestEnds, Return, Go, workerVars, tableVars, Stored
<1>19. CASE UNCHANGED vars
  BY <1>19 DEF vars, tableVars, workerVars, requestVars, Stored
<1>. QED
  BY NextSteps, <1>1, <1>2, <1>3, <1>4, <1>5, <1>6, <1>7, <1>8, <1>9, <1>10,
     <1>11, <1>12, <1>13, <1>14, <1>15, <1>16, <1>17, <1>18, <1>19

\* Every company has an owner.
LEMMA RowsOwnedStep ==
  ASSUME TablesTyped, LocalsTyped, [Next]_vars, NEW owner, Owns(owner),
         RowsOwned(owner), HeldOwned(owner), NEW k \in CompanyIds, row'[k] # NoRow
  PROVE  \E q \in Parties : OwnedBy(owner, row'[k], owner[q])
<1>1. CASE Stored(k)
  <2>1. PICK q \in Parties : OwnedBy(owner, row[k], owner[q])
    BY <1>1 DEF RowsOwned
  <2>. QED
    BY <1>1, <2>1, RowKeepsOwner
<1>2. CASE ~Stored(k)
  <2>1. PICK v \in Workers : wext[v][wside[v]] # NoParty /\ row'[k] = Party(v)
    BY <1>2, RowsNew
  <2>2. wext[v][wside[v]] \in Parties
    BY <2>1, PartyAtHand
  <2>. QED
    BY <2>1, <2>2, NewOwned DEF Party
<1>. QED
  BY <1>1, <1>2

\* An id that was handed out never comes to mean another company.
LEMMA PointerStep ==
  ASSUME TablesTyped, LocalsTyped, [Next]_vars, NEW owner, Owns(owner),
         HeldOwned(owner), NEW k \in used \cup {NoCompany}, NEW p \in Parties,
         Held(owner, k, p), k \in CompanyIds, row'[k] # NoRow
  PROVE  OwnedBy(owner, row'[k], owner[p])
<1>1. Stored(k)
  BY RowsNew, CompaniesAssumption
<1>. QED
  BY <1>1, RowKeepsOwner DEF Held

\* Where a resolved id comes from.
LEMMA ResFrom ==
  ASSUME TablesTyped, LocalsTyped, IdleIsClean, NEW v \in Workers, NEW s \in Sides,
         wpc'[v] # "idle",
         res'[v][s] # NoCompany, [Next]_vars
  PROVE  /\ wpc[v] # "idle" /\ wext'[v] = wext[v]
         /\ \/ res'[v][s] = res[v][s]
            \/ /\ wpc[v] = "write" /\ s = wside[v]
               /\ \/ res'[v][s] \in {hit[v], target[v]}
                  \/ row'[res'[v][s]] = Party(v)
<1>1. ASSUME NEW w \in Workers, NEW i \in Invoices, NEW e \in Extractions,
             WorkerCommit(w, i, e)
      PROVE  /\ wpc[v] # "idle" /\ wext'[v] = wext[v]
             /\ \/ res'[v][s] = res[v][s]
                \/ /\ wpc[v] = "write" /\ s = wside[v]
                   /\ \/ res'[v][s] \in {hit[v], target[v]}
                      \/ row'[res'[v][s]] = Party(v)
  BY <1>1, TypeFacts DEF WorkerCommit, Noting, requestVars, IdleIsClean
<1>2. ASSUME NEW w \in Workers, SkipSide(w)
      PROVE  /\ wpc[v] # "idle" /\ wext'[v] = wext[v]
             /\ \/ res'[v][s] = res[v][s]
                \/ /\ wpc[v] = "write" /\ s = wside[v]
                   /\ \/ res'[v][s] \in {hit[v], target[v]}
                      \/ row'[res'[v][s]] = Party(v)
  BY <1>2, TypeFacts DEF SkipSide, Resolved, requestVars, tableVars, IdleIsClean
<1>3. ASSUME NEW w \in Workers, MatchCompany(w)
      PROVE  /\ wpc[v] # "idle" /\ wext'[v] = wext[v]
             /\ \/ res'[v][s] = res[v][s]
                \/ /\ wpc[v] = "write" /\ s = wside[v]
                   /\ \/ res'[v][s] \in {hit[v], target[v]}
                      \/ row'[res'[v][s]] = Party(v)
  BY <1>3, TypeFacts DEF MatchCompany, Resolved, requestVars, tableVars,
     IdleIsClean
<1>4. ASSUME NEW w \in Workers, UpsertFind(w)
      PROVE  /\ wpc[v] # "idle" /\ wext'[v] = wext[v]
             /\ \/ res'[v][s] = res[v][s]
                \/ /\ wpc[v] = "write" /\ s = wside[v]
                   /\ \/ res'[v][s] \in {hit[v], target[v]}
                      \/ row'[res'[v][s]] = Party(v)
  BY <1>4, TypeFacts DEF UpsertFind, requestVars, tableVars, IdleIsClean
<1>5. ASSUME NEW w \in Workers, UpsertInsert(w)
      PROVE  /\ wpc[v] # "idle" /\ wext'[v] = wext[v]
             /\ \/ res'[v][s] = res[v][s]
                \/ /\ wpc[v] = "write" /\ s = wside[v]
                   /\ \/ res'[v][s] \in {hit[v], target[v]}
                      \/ row'[res'[v][s]] = Party(v)
  BY <1>5, TypeFacts DEF UpsertInsert, Resolved, requestVars, IdleIsClean
<1>6. ASSUME NEW w \in Workers, UpsertUpdate(w)
      PROVE  /\ wpc[v] # "idle" /\ wext'[v] = wext[v]
             /\ \/ res'[v][s] = res[v][s]
                \/ /\ wpc[v] = "write" /\ s = wside[v]
                   /\ \/ res'[v][s] \in {hit[v], target[v]}
                      \/ row'[res'[v][s]] = Party(v)
  BY <1>6, TypeFacts DEF UpsertUpdate, Resolved, requestVars, IdleIsClean
<1>7. ASSUME NEW w \in Workers, UpsertFails(w)
      PROVE  /\ wpc[v] # "idle" /\ wext'[v] = wext[v]
             /\ \/ res'[v][s] = res[v][s]
                \/ /\ wpc[v] = "write" /\ s = wside[v]
                   /\ \/ res'[v][s] \in {hit[v], target[v]}
                      \/ row'[res'[v][s]] = Party(v)
  BY <1>7, TypeFacts DEF UpsertFails, Resolved, requestVars, tableVars,
     IdleIsClean
<1>8. ASSUME NEW w \in Workers, LinkCompanies(w)
      PROVE  /\ wpc[v] # "idle" /\ wext'[v] = wext[v]
             /\ \/ res'[v][s] = res[v][s]
                \/ /\ wpc[v] = "write" /\ s = wside[v]
                   /\ \/ res'[v][s] \in {hit[v], target[v]}
                      \/ row'[res'[v][s]] = Party(v)
  BY <1>8, TypeFacts DEF LinkCompanies, WorkerDone, Noting, requestVars,
     IdleIsClean
<1>9. ASSUME NEW w \in Workers, LinkNothing(w)
      PROVE  /\ wpc[v] # "idle" /\ wext'[v] = wext[v]
             /\ \/ res'[v][s] = res[v][s]
                \/ /\ wpc[v] = "write" /\ s = wside[v]
                   /\ \/ res'[v][s] \in {hit[v], target[v]}
                      \/ row'[res'[v][s]] = Party(v)
  BY <1>9, TypeFacts DEF LinkNothing, WorkerDone, requestVars, tableVars,
     IdleIsClean
<1>10. ASSUME NEW w \in Workers, WorkerDies(w)
       PROVE  /\ wpc[v] # "idle" /\ wext'[v] = wext[v]
              /\ \/ res'[v][s] = res[v][s]
                 \/ /\ wpc[v] = "write" /\ s = wside[v]
                    /\ \/ res'[v][s] \in {hit[v], target[v]}
                       \/ row'[res'[v][s]] = Party(v)
  BY <1>10, TypeFacts DEF WorkerDies, WorkerDone, requestVars, tableVars,
     IdleIsClean
<1>11. ASSUME NEW i \in Invoices, InvoiceFails(i)
       PROVE  /\ wpc[v] # "idle" /\ wext'[v] = wext[v]
              /\ \/ res'[v][s] = res[v][s]
                 \/ /\ wpc[v] = "write" /\ s = wside[v]
                    /\ \/ res'[v][s] \in {hit[v], target[v]}
                       \/ row'[res'[v][s]] = Party(v)
  BY <1>11, TypeFacts DEF InvoiceFails, requestVars, workerVars, IdleIsClean
<1>12. ASSUME NEW i \in Invoices, InvoiceReprocessed(i)
       PROVE  /\ wpc[v] # "idle" /\ wext'[v] = wext[v]
              /\ \/ res'[v][s] = res[v][s]
                 \/ /\ wpc[v] = "write" /\ s = wside[v]
                    /\ \/ res'[v][s] \in {hit[v], target[v]}
                       \/ row'[res'[v][s]] = Party(v)
  BY <1>12, TypeFacts DEF InvoiceReprocessed, Noting, requestVars, workerVars,
     IdleIsClean
<1>13. ASSUME NEW r \in Requests, NEW c \in CompanyIds, DeleteCheck(r, c)
       PROVE  /\ wpc[v] # "idle" /\ wext'[v] = wext[v]
              /\ \/ res'[v][s] = res[v][s]
                 \/ /\ wpc[v] = "write" /\ s = wside[v]
                    /\ \/ res'[v][s] \in {hit[v], target[v]}
                       \/ row'[res'[v][s]] = Party(v)
  BY <1>13, TypeFacts DEF DeleteCheck, Go, workerVars, tableVars, IdleIsClean
<1>14. ASSUME NEW r \in Requests, DeleteCompany(r)
       PROVE  /\ wpc[v] # "idle" /\ wext'[v] = wext[v]
              /\ \/ res'[v][s] = res[v][s]
                 \/ /\ wpc[v] = "write" /\ s = wside[v]
                    /\ \/ res'[v][s] \in {hit[v], target[v]}
                       \/ row'[res'[v][s]] = Party(v)
  BY <1>14, TypeFacts DEF DeleteCompany, Return, Go, Unlinked, workerVars,
     IdleIsClean
<1>15. ASSUME NEW r \in Requests, NEW c \in CompanyIds, NEW d \in CompanyIds,
              MergeReadSource(r, c, d)
       PROVE  /\ wpc[v] # "idle" /\ wext'[v] = wext[v]
              /\ \/ res'[v][s] = res[v][s]
                 \/ /\ wpc[v] = "write" /\ s = wside[v]
                    /\ \/ res'[v][s] \in {hit[v], target[v]}
                       \/ row'[res'[v][s]] = Party(v)
  BY <1>15, TypeFacts DEF MergeReadSource, Go, workerVars, tableVars, IdleIsClean
<1>16. ASSUME NEW r \in Requests, MergeReadTarget(r)
       PROVE  /\ wpc[v] # "idle" /\ wext'[v] = wext[v]
              /\ \/ res'[v][s] = res[v][s]
                 \/ /\ wpc[v] = "write" /\ s = wside[v]
                    /\ \/ res'[v][s] \in {hit[v], target[v]}
                       \/ row'[res'[v][s]] = Party(v)
  BY <1>16, TypeFacts DEF MergeReadTarget, Go, workerVars, tableVars, IdleIsClean
<1>17. ASSUME NEW r \in Requests, MergeCompanies(r)
       PROVE  /\ wpc[v] # "idle" /\ wext'[v] = wext[v]
              /\ \/ res'[v][s] = res[v][s]
                 \/ /\ wpc[v] = "write" /\ s = wside[v]
                    /\ \/ res'[v][s] \in {hit[v], target[v]}
                       \/ row'[res'[v][s]] = Party(v)
  BY <1>17, TypeFacts DEF MergeCompanies, Return, Go, Moved, Noting, workerVars,
     IdleIsClean
<1>18. ASSUME NEW r \in Requests, RequestEnds(r)
       PROVE  /\ wpc[v] # "idle" /\ wext'[v] = wext[v]
              /\ \/ res'[v][s] = res[v][s]
                 \/ /\ wpc[v] = "write" /\ s = wside[v]
                    /\ \/ res'[v][s] \in {hit[v], target[v]}
                       \/ row'[res'[v][s]] = Party(v)
  BY <1>18, TypeFacts DEF RequestEnds, Return, Go, workerVars, tableVars,
     IdleIsClean
<1>19. CASE UNCHANGED vars
  BY <1>19 DEF vars, tableVars, workerVars, requestVars, IdleIsClean
<1>. QED
  BY NextSteps, <1>1, <1>2, <1>3, <1>4, <1>5, <1>6, <1>7, <1>8, <1>9, <1>10,
     <1>11, <1>12, <1>13, <1>14, <1>15, <1>16, <1>17, <1>18, <1>19


\* Where a match comes from.
LEMMA HitFrom ==
  ASSUME TablesTyped, LocalsTyped, NEW v \in Workers,
         wpc'[v] \in {"find", "write"}, [Next]_vars
  PROVE  /\ wext'[v][wside'[v]] = wext[v][wside[v]]
         /\ \/ wpc[v] \in {"find", "write"} /\ hit'[v] = hit[v]
            \/ hit'[v] \in Matches(Party(v)) /\ wext[v][wside[v]] # NoParty /\ row' = row
         /\ wpc'[v] = "write" =>
              \/ wpc[v] = "write" /\ target'[v] = target[v]
              \/ target'[v] \in Matches(Party(v)) /\ row' = row
<1>1. ASSUME NEW w \in Workers, NEW i \in Invoices, NEW e \in Extractions,
             WorkerCommit(w, i, e)
      PROVE  /\ wext'[v][wside'[v]] = wext[v][wside[v]]
             /\ \/ wpc[v] \in {"find", "write"} /\ hit'[v] = hit[v]
                \/ hit'[v] \in Matches(Party(v)) /\ wext[v][wside[v]] # NoParty /\ row' = row
             /\ wpc'[v] = "write" =>
                  \/ wpc[v] = "write" /\ target'[v] = target[v]
                  \/ target'[v] \in Matches(Party(v)) /\ row' = row
  BY <1>1, TypeFacts DEF WorkerCommit, Noting, requestVars
<1>2. ASSUME NEW w \in Workers, SkipSide(w)
      PROVE  /\ wext'[v][wside'[v]] = wext[v][wside[v]]
             /\ \/ wpc[v] \in {"find", "write"} /\ hit'[v] = hit[v]
                \/ hit'[v] \in Matches(Party(v)) /\ wext[v][wside[v]] # NoParty /\ row' = row
             /\ wpc'[v] = "write" =>
                  \/ wpc[v] = "write" /\ target'[v] = target[v]
                  \/ target'[v] \in Matches(Party(v)) /\ row' = row
  BY <1>2, TypeFacts DEF SkipSide, Resolved, requestVars, tableVars
<1>3. ASSUME NEW w \in Workers, MatchCompany(w)
      PROVE  /\ wext'[v][wside'[v]] = wext[v][wside[v]]
             /\ \/ wpc[v] \in {"find", "write"} /\ hit'[v] = hit[v]
                \/ hit'[v] \in Matches(Party(v)) /\ wext[v][wside[v]] # NoParty /\ row' = row
             /\ wpc'[v] = "write" =>
                  \/ wpc[v] = "write" /\ target'[v] = target[v]
                  \/ target'[v] \in Matches(Party(v)) /\ row' = row
  BY <1>3, TypeFacts DEF MatchCompany, Resolved, requestVars, tableVars
<1>4. ASSUME NEW w \in Workers, UpsertFind(w)
      PROVE  /\ wext'[v][wside'[v]] = wext[v][wside[v]]
             /\ \/ wpc[v] \in {"find", "write"} /\ hit'[v] = hit[v]
                \/ hit'[v] \in Matches(Party(v)) /\ wext[v][wside[v]] # NoParty /\ row' = row
             /\ wpc'[v] = "write" =>
                  \/ wpc[v] = "write" /\ target'[v] = target[v]
                  \/ target'[v] \in Matches(Party(v)) /\ row' = row
  BY <1>4, TypeFacts DEF UpsertFind, requestVars, tableVars
<1>5. ASSUME NEW w \in Workers, UpsertInsert(w)
      PROVE  /\ wext'[v][wside'[v]] = wext[v][wside[v]]
             /\ \/ wpc[v] \in {"find", "write"} /\ hit'[v] = hit[v]
                \/ hit'[v] \in Matches(Party(v)) /\ wext[v][wside[v]] # NoParty /\ row' = row
             /\ wpc'[v] = "write" =>
                  \/ wpc[v] = "write" /\ target'[v] = target[v]
                  \/ target'[v] \in Matches(Party(v)) /\ row' = row
  BY <1>5, TypeFacts DEF UpsertInsert, Resolved, requestVars
<1>6. ASSUME NEW w \in Workers, UpsertUpdate(w)
      PROVE  /\ wext'[v][wside'[v]] = wext[v][wside[v]]
             /\ \/ wpc[v] \in {"find", "write"} /\ hit'[v] = hit[v]
                \/ hit'[v] \in Matches(Party(v)) /\ wext[v][wside[v]] # NoParty /\ row' = row
             /\ wpc'[v] = "write" =>
                  \/ wpc[v] = "write" /\ target'[v] = target[v]
                  \/ target'[v] \in Matches(Party(v)) /\ row' = row
  BY <1>6, TypeFacts DEF UpsertUpdate, Resolved, requestVars
<1>7. ASSUME NEW w \in Workers, UpsertFails(w)
      PROVE  /\ wext'[v][wside'[v]] = wext[v][wside[v]]
             /\ \/ wpc[v] \in {"find", "write"} /\ hit'[v] = hit[v]
                \/ hit'[v] \in Matches(Party(v)) /\ wext[v][wside[v]] # NoParty /\ row' = row
             /\ wpc'[v] = "write" =>
                  \/ wpc[v] = "write" /\ target'[v] = target[v]
                  \/ target'[v] \in Matches(Party(v)) /\ row' = row
  BY <1>7, TypeFacts DEF UpsertFails, Resolved, requestVars, tableVars
<1>8. ASSUME NEW w \in Workers, LinkCompanies(w)
      PROVE  /\ wext'[v][wside'[v]] = wext[v][wside[v]]
             /\ \/ wpc[v] \in {"find", "write"} /\ hit'[v] = hit[v]
                \/ hit'[v] \in Matches(Party(v)) /\ wext[v][wside[v]] # NoParty /\ row' = row
             /\ wpc'[v] = "write" =>
                  \/ wpc[v] = "write" /\ target'[v] = target[v]
                  \/ target'[v] \in Matches(Party(v)) /\ row' = row
  BY <1>8, TypeFacts DEF LinkCompanies, WorkerDone, Noting, requestVars
<1>9. ASSUME NEW w \in Workers, LinkNothing(w)
      PROVE  /\ wext'[v][wside'[v]] = wext[v][wside[v]]
             /\ \/ wpc[v] \in {"find", "write"} /\ hit'[v] = hit[v]
                \/ hit'[v] \in Matches(Party(v)) /\ wext[v][wside[v]] # NoParty /\ row' = row
             /\ wpc'[v] = "write" =>
                  \/ wpc[v] = "write" /\ target'[v] = target[v]
                  \/ target'[v] \in Matches(Party(v)) /\ row' = row
  BY <1>9, TypeFacts DEF LinkNothing, WorkerDone, requestVars, tableVars
<1>10. ASSUME NEW w \in Workers, WorkerDies(w)
       PROVE  /\ wext'[v][wside'[v]] = wext[v][wside[v]]
              /\ \/ wpc[v] \in {"find", "write"} /\ hit'[v] = hit[v]
                 \/ hit'[v] \in Matches(Party(v)) /\ wext[v][wside[v]] # NoParty /\ row' = row
              /\ wpc'[v] = "write" =>
                   \/ wpc[v] = "write" /\ target'[v] = target[v]
                   \/ target'[v] \in Matches(Party(v)) /\ row' = row
  BY <1>10, TypeFacts DEF WorkerDies, WorkerDone, requestVars, tableVars
<1>11. ASSUME NEW i \in Invoices, InvoiceFails(i)
       PROVE  /\ wext'[v][wside'[v]] = wext[v][wside[v]]
              /\ \/ wpc[v] \in {"find", "write"} /\ hit'[v] = hit[v]
                 \/ hit'[v] \in Matches(Party(v)) /\ wext[v][wside[v]] # NoParty /\ row' = row
              /\ wpc'[v] = "write" =>
                   \/ wpc[v] = "write" /\ target'[v] = target[v]
                   \/ target'[v] \in Matches(Party(v)) /\ row' = row
  BY <1>11, TypeFacts DEF InvoiceFails, requestVars, workerVars
<1>12. ASSUME NEW i \in Invoices, InvoiceReprocessed(i)
       PROVE  /\ wext'[v][wside'[v]] = wext[v][wside[v]]
              /\ \/ wpc[v] \in {"find", "write"} /\ hit'[v] = hit[v]
                 \/ hit'[v] \in Matches(Party(v)) /\ wext[v][wside[v]] # NoParty /\ row' = row
              /\ wpc'[v] = "write" =>
                   \/ wpc[v] = "write" /\ target'[v] = target[v]
                   \/ target'[v] \in Matches(Party(v)) /\ row' = row
  BY <1>12, TypeFacts DEF InvoiceReprocessed, Noting, requestVars, workerVars
<1>13. ASSUME NEW r \in Requests, NEW c \in CompanyIds, DeleteCheck(r, c)
       PROVE  /\ wext'[v][wside'[v]] = wext[v][wside[v]]
              /\ \/ wpc[v] \in {"find", "write"} /\ hit'[v] = hit[v]
                 \/ hit'[v] \in Matches(Party(v)) /\ wext[v][wside[v]] # NoParty /\ row' = row
              /\ wpc'[v] = "write" =>
                   \/ wpc[v] = "write" /\ target'[v] = target[v]
                   \/ target'[v] \in Matches(Party(v)) /\ row' = row
  BY <1>13, TypeFacts DEF DeleteCheck, Go, workerVars, tableVars
<1>14. ASSUME NEW r \in Requests, DeleteCompany(r)
       PROVE  /\ wext'[v][wside'[v]] = wext[v][wside[v]]
              /\ \/ wpc[v] \in {"find", "write"} /\ hit'[v] = hit[v]
                 \/ hit'[v] \in Matches(Party(v)) /\ wext[v][wside[v]] # NoParty /\ row' = row
              /\ wpc'[v] = "write" =>
                   \/ wpc[v] = "write" /\ target'[v] = target[v]
                   \/ target'[v] \in Matches(Party(v)) /\ row' = row
  BY <1>14, TypeFacts DEF DeleteCompany, Return, Go, Unlinked, workerVars
<1>15. ASSUME NEW r \in Requests, NEW c \in CompanyIds, NEW d \in CompanyIds,
              MergeReadSource(r, c, d)
       PROVE  /\ wext'[v][wside'[v]] = wext[v][wside[v]]
              /\ \/ wpc[v] \in {"find", "write"} /\ hit'[v] = hit[v]
                 \/ hit'[v] \in Matches(Party(v)) /\ wext[v][wside[v]] # NoParty /\ row' = row
              /\ wpc'[v] = "write" =>
                   \/ wpc[v] = "write" /\ target'[v] = target[v]
                   \/ target'[v] \in Matches(Party(v)) /\ row' = row
  BY <1>15, TypeFacts DEF MergeReadSource, Go, workerVars, tableVars
<1>16. ASSUME NEW r \in Requests, MergeReadTarget(r)
       PROVE  /\ wext'[v][wside'[v]] = wext[v][wside[v]]
              /\ \/ wpc[v] \in {"find", "write"} /\ hit'[v] = hit[v]
                 \/ hit'[v] \in Matches(Party(v)) /\ wext[v][wside[v]] # NoParty /\ row' = row
              /\ wpc'[v] = "write" =>
                   \/ wpc[v] = "write" /\ target'[v] = target[v]
                   \/ target'[v] \in Matches(Party(v)) /\ row' = row
  BY <1>16, TypeFacts DEF MergeReadTarget, Go, workerVars, tableVars
<1>17. ASSUME NEW r \in Requests, MergeCompanies(r)
       PROVE  /\ wext'[v][wside'[v]] = wext[v][wside[v]]
              /\ \/ wpc[v] \in {"find", "write"} /\ hit'[v] = hit[v]
                 \/ hit'[v] \in Matches(Party(v)) /\ wext[v][wside[v]] # NoParty /\ row' = row
              /\ wpc'[v] = "write" =>
                   \/ wpc[v] = "write" /\ target'[v] = target[v]
                   \/ target'[v] \in Matches(Party(v)) /\ row' = row
  BY <1>17, TypeFacts DEF MergeCompanies, Return, Go, Moved, Noting, workerVars
<1>18. ASSUME NEW r \in Requests, RequestEnds(r)
       PROVE  /\ wext'[v][wside'[v]] = wext[v][wside[v]]
              /\ \/ wpc[v] \in {"find", "write"} /\ hit'[v] = hit[v]
                 \/ hit'[v] \in Matches(Party(v)) /\ wext[v][wside[v]] # NoParty /\ row' = row
              /\ wpc'[v] = "write" =>
                   \/ wpc[v] = "write" /\ target'[v] = target[v]
                   \/ target'[v] \in Matches(Party(v)) /\ row' = row
  BY <1>18, TypeFacts DEF RequestEnds, Return, Go, workerVars, tableVars
<1>19. CASE UNCHANGED vars
  BY <1>19 DEF vars, tableVars, workerVars, requestVars
<1>. QED
  BY NextSteps, <1>1, <1>2, <1>3, <1>4, <1>5, <1>6, <1>7, <1>8, <1>9, <1>10,
     <1>11, <1>12, <1>13, <1>14, <1>15, <1>16, <1>17, <1>18, <1>19

\* A merge that goes through loses no link.
LEMMA MergeKeepsLinks ==
  ASSUME TablesTyped, LocalsTyped,
         NEW q \in Requests, rpc[q] = "merge", rpc'[q] = "idle", row' # row,
         NEW j \in Invoices, NEW s \in Sides, link'[j][s] = NoCompany, [Next]_vars
  PROVE  link[j][s] = NoCompany
<1>1. ASSUME NEW w \in Workers, NEW i \in Invoices, NEW e \in Extractions,
             WorkerCommit(w, i, e)
      PROVE  link[j][s] = NoCompany
  BY <1>1, TypeFacts DEF WorkerCommit, Noting, requestVars
<1>2. ASSUME NEW w \in Workers, SkipSide(w)
      PROVE  link[j][s] = NoCompany
  BY <1>2, TypeFacts DEF SkipSide, Resolved, requestVars, tableVars
<1>3. ASSUME NEW w \in Workers, MatchCompany(w)
      PROVE  link[j][s] = NoCompany
  BY <1>3, TypeFacts DEF MatchCompany, Resolved, requestVars, tableVars
<1>4. ASSUME NEW w \in Workers, UpsertFind(w)
      PROVE  link[j][s] = NoCompany
  BY <1>4, TypeFacts DEF UpsertFind, requestVars, tableVars
<1>5. ASSUME NEW w \in Workers, UpsertInsert(w)
      PROVE  link[j][s] = NoCompany
  BY <1>5, TypeFacts DEF UpsertInsert, Resolved, requestVars
<1>6. ASSUME NEW w \in Workers, UpsertUpdate(w)
      PROVE  link[j][s] = NoCompany
  BY <1>6, TypeFacts DEF UpsertUpdate, Resolved, requestVars
<1>7. ASSUME NEW w \in Workers, UpsertFails(w)
      PROVE  link[j][s] = NoCompany
  BY <1>7, TypeFacts DEF UpsertFails, Resolved, requestVars, tableVars
<1>8. ASSUME NEW w \in Workers, LinkCompanies(w)
      PROVE  link[j][s] = NoCompany
  BY <1>8, TypeFacts DEF LinkCompanies, WorkerDone, Noting, requestVars
<1>9. ASSUME NEW w \in Workers, LinkNothing(w)
      PROVE  link[j][s] = NoCompany
  BY <1>9, TypeFacts DEF LinkNothing, WorkerDone, requestVars, tableVars
<1>10. ASSUME NEW w \in Workers, WorkerDies(w)
       PROVE  link[j][s] = NoCompany
  BY <1>10, TypeFacts DEF WorkerDies, WorkerDone, requestVars, tableVars
<1>11. ASSUME NEW i \in Invoices, InvoiceFails(i)
       PROVE  link[j][s] = NoCompany
  BY <1>11, TypeFacts DEF InvoiceFails, requestVars, workerVars
<1>12. ASSUME NEW i \in Invoices, InvoiceReprocessed(i)
       PROVE  link[j][s] = NoCompany
  BY <1>12, TypeFacts DEF InvoiceReprocessed, Noting, requestVars, workerVars
<1>13. ASSUME NEW r \in Requests, NEW c \in CompanyIds, DeleteCheck(r, c)
       PROVE  link[j][s] = NoCompany
  BY <1>13, TypeFacts DEF DeleteCheck, Go, workerVars, tableVars
<1>14. ASSUME NEW r \in Requests, DeleteCompany(r)
       PROVE  link[j][s] = NoCompany
  BY <1>14, TypeFacts DEF DeleteCompany, Return, Go, Unlinked, workerVars
<1>15. ASSUME NEW r \in Requests, NEW c \in CompanyIds, NEW d \in CompanyIds,
              MergeReadSource(r, c, d)
       PROVE  link[j][s] = NoCompany
  BY <1>15, TypeFacts DEF MergeReadSource, Go, workerVars, tableVars
<1>16. ASSUME NEW r \in Requests, MergeReadTarget(r)
       PROVE  link[j][s] = NoCompany
  BY <1>16, TypeFacts DEF MergeReadTarget, Go, workerVars, tableVars
<1>17. ASSUME NEW r \in Requests, MergeCompanies(r)
       PROVE  link[j][s] = NoCompany
  BY <1>17, TypeFacts, CompaniesAssumption DEF MergeCompanies, Return, Go,
     Moved, Noting, workerVars, LinkedTo, Stored
<1>18. ASSUME NEW r \in Requests, RequestEnds(r)
       PROVE  link[j][s] = NoCompany
  BY <1>18, TypeFacts DEF RequestEnds, Return, Go, workerVars, tableVars
<1>19. CASE UNCHANGED vars
  BY <1>19 DEF vars, tableVars, workerVars, requestVars
<1>. QED
  BY NextSteps, <1>1, <1>2, <1>3, <1>4, <1>5, <1>6, <1>7, <1>8, <1>9, <1>10,
     <1>11, <1>12, <1>13, <1>14, <1>15, <1>16, <1>17, <1>18, <1>19


\* A deletion unlinks invoices that do not count, and new ones.
LEMMA DeletionCounts ==
  ASSUME TablesTyped, LocalsTyped, Counted,
         NEW q \in Requests, rpc[q] = "delete", rpc'[q] = "idle",
         NEW j \in Invoices \ hidden, link'[j] # link[j], [Next]_vars
  PROVE  j \in since[q]
<1>1. ASSUME NEW w \in Workers, NEW i \in Invoices, NEW e \in Extractions,
             WorkerCommit(w, i, e)
      PROVE  j \in since[q]
  BY <1>1, TypeFacts DEF WorkerCommit, Noting, requestVars
<1>2. ASSUME NEW w \in Workers, SkipSide(w)
      PROVE  j \in since[q]
  BY <1>2, TypeFacts DEF SkipSide, Resolved, requestVars, tableVars
<1>3. ASSUME NEW w \in Workers, MatchCompany(w)
      PROVE  j \in since[q]
  BY <1>3, TypeFacts DEF MatchCompany, Resolved, requestVars, tableVars
<1>4. ASSUME NEW w \in Workers, UpsertFind(w)
      PROVE  j \in since[q]
  BY <1>4, TypeFacts DEF UpsertFind, requestVars, tableVars
<1>5. ASSUME NEW w \in Workers, UpsertInsert(w)
      PROVE  j \in since[q]
  BY <1>5, TypeFacts DEF UpsertInsert, Resolved, requestVars
<1>6. ASSUME NEW w \in Workers, UpsertUpdate(w)
      PROVE  j \in since[q]
  BY <1>6, TypeFacts DEF UpsertUpdate, Resolved, requestVars
<1>7. ASSUME NEW w \in Workers, UpsertFails(w)
      PROVE  j \in since[q]
  BY <1>7, TypeFacts DEF UpsertFails, Resolved, requestVars, tableVars
<1>8. ASSUME NEW w \in Workers, LinkCompanies(w)
      PROVE  j \in since[q]
  BY <1>8, TypeFacts DEF LinkCompanies, WorkerDone, Noting, requestVars
<1>9. ASSUME NEW w \in Workers, LinkNothing(w)
      PROVE  j \in since[q]
  BY <1>9, TypeFacts DEF LinkNothing, WorkerDone, requestVars, tableVars
<1>10. ASSUME NEW w \in Workers, WorkerDies(w)
       PROVE  j \in since[q]
  BY <1>10, TypeFacts DEF WorkerDies, WorkerDone, requestVars, tableVars
<1>11. ASSUME NEW i \in Invoices, InvoiceFails(i)
       PROVE  j \in since[q]
  BY <1>11, TypeFacts DEF InvoiceFails, requestVars, workerVars
<1>12. ASSUME NEW i \in Invoices, InvoiceReprocessed(i)
       PROVE  j \in since[q]
  BY <1>12, TypeFacts DEF InvoiceReprocessed, Noting, requestVars, workerVars
<1>13. ASSUME NEW r \in Requests, NEW c \in CompanyIds, DeleteCheck(r, c)
       PROVE  j \in since[q]
  BY <1>13, TypeFacts DEF DeleteCheck, Go, workerVars, tableVars
<1>14. ASSUME NEW r \in Requests, DeleteCompany(r)
       PROVE  j \in since[q]
  <2>1. r = q
    BY <1>14, TypeFacts DEF DeleteCompany, Return, Go
  <2>2. link'[j] = [s \in Sides |-> IF link[j][s] = rsrc[r] THEN NoCompany ELSE link[j][s]]
    BY <1>14 DEF DeleteCompany, Unlinked
  <2>3. link[j] = [s \in Sides |-> link[j][s]]
    BY DEF TablesTyped
  <2>4. PICK s \in Sides : link[j][s] = rsrc[r]
    BY <2>2, <2>3
  <2>. QED
    BY <1>14, <2>1, <2>4 DEF DeleteCompany, Counted
<1>15. ASSUME NEW r \in Requests, NEW c \in CompanyIds, NEW d \in CompanyIds,
              MergeReadSource(r, c, d)
       PROVE  j \in since[q]
  BY <1>15, TypeFacts DEF MergeReadSource, Go, workerVars, tableVars
<1>16. ASSUME NEW r \in Requests, MergeReadTarget(r)
       PROVE  j \in since[q]
  BY <1>16, TypeFacts DEF MergeReadTarget, Go, workerVars, tableVars
<1>17. ASSUME NEW r \in Requests, MergeCompanies(r)
       PROVE  j \in since[q]
  BY <1>17, TypeFacts DEF MergeCompanies, Return, Go, Moved, Noting, workerVars
<1>18. ASSUME NEW r \in Requests, RequestEnds(r)
       PROVE  j \in since[q]
  BY <1>18, TypeFacts DEF RequestEnds, Return, Go, workerVars, tableVars
<1>19. CASE UNCHANGED vars
  BY <1>19 DEF vars, tableVars, workerVars, requestVars
<1>. QED
  BY NextSteps, <1>1, <1>2, <1>3, <1>4, <1>5, <1>6, <1>7, <1>8, <1>9, <1>10,
     <1>11, <1>12, <1>13, <1>14, <1>15, <1>16, <1>17, <1>18, <1>19

\* The ids a worker holds are those of its parties.
LEMMA HeldOwnedStep ==
  ASSUME TablesTyped, LocalsTyped, TablesTyped', LocalsTyped', [Next]_vars,
         NEW owner, Owns(owner), RowsOwned(owner), HeldOwned(owner), HandedOut,
         IdleIsClean
  PROVE  HeldOwned(owner)'
<1>1. ASSUME NEW v \in Workers, NEW s \in Sides, wpc'[v] # "idle",
             wext'[v][s] # NoParty, res'[v][s] \in CompanyIds, row'[res'[v][s]] # NoRow
      PROVE  OwnedBy(owner, row'[res'[v][s]], owner[wext'[v][s]])
  <2>1. /\ wpc[v] # "idle" /\ wext'[v] = wext[v]
        /\ \/ res'[v][s] = res[v][s]
           \/ /\ wpc[v] = "write" /\ s = wside[v]
              /\ \/ res'[v][s] \in {hit[v], target[v]}
                 \/ row'[res'[v][s]] = Party(v)
    BY <1>1, ResFrom, CompaniesAssumption DEF Stored
  <2>2. wext[v][s] \in Parties
    BY <1>1, <2>1 DEF LocalsTyped
  <2>3. CASE row'[res'[v][s]] = Party(v) /\ s = wside[v]
    BY <2>1, <2>2, <2>3, NewOwned DEF Party
  <2>4. CASE res'[v][s] = res[v][s]
    <3>1. Held(owner, res[v][s], wext[v][s]) /\ res[v][s] \in used \cup {NoCompany}
      BY <1>1, <2>1 DEF HeldOwned, HandedOut
    <3>. QED
      BY <1>1, <2>1, <2>2, <2>4, <3>1, PointerStep DEF Stored
  <2>5. CASE res'[v][s] = hit[v] /\ wpc[v] = "write" /\ s = wside[v]
    <3>1. Held(owner, hit[v], wext[v][s]) /\ hit[v] \in used \cup {NoCompany}
      BY <2>5 DEF HeldOwned, HandedOut
    <3>. QED
      BY <1>1, <2>1, <2>2, <2>5, <3>1, PointerStep DEF Stored
  <2>6. CASE res'[v][s] = target[v] /\ wpc[v] = "write" /\ s = wside[v]
    <3>1. Held(owner, target[v], wext[v][s]) /\ target[v] \in used \cup {NoCompany}
      BY <2>6 DEF HeldOwned, HandedOut
    <3>. QED
      BY <1>1, <2>1, <2>2, <2>6, <3>1, PointerStep DEF Stored
  <2>. QED
    BY <2>1, <2>3, <2>4, <2>5, <2>6
<1>2. ASSUME NEW v \in Workers, wpc'[v] \in {"find", "write"}
      PROVE  /\ hit'[v] \in CompanyIds /\ row'[hit'[v]] # NoRow =>
                  OwnedBy(owner, row'[hit'[v]], owner[wext'[v][wside'[v]]])
             /\ wpc'[v] = "write" /\ target'[v] \in CompanyIds /\ row'[target'[v]] # NoRow =>
                  OwnedBy(owner, row'[target'[v]], owner[wext'[v][wside'[v]]])
  <2>. DEFINE p == wext[v][wside[v]]
  <2>1. /\ wext'[v][wside'[v]] = p
        /\ \/ wpc[v] \in {"find", "write"} /\ hit'[v] = hit[v]
           \/ hit'[v] \in Matches(Party(v)) /\ p # NoParty /\ row' = row
        /\ wpc'[v] = "write" =>
             \/ wpc[v] = "write" /\ target'[v] = target[v]
             \/ target'[v] \in Matches(Party(v)) /\ row' = row
    BY <1>2, HitFrom
  <2>2. p \in Parties
    <3>1. p # NoParty
      BY <1>2, <2>1 DEF LocalsTyped
    <3>. QED
      BY <3>1, PartyAtHand
  <2>3. Party(v) = Normalized(p)
    BY DEF Party
  <2>. HIDE DEF p
  <2>4. /\ wpc[v] \in {"find", "write"} => Held(owner, hit[v], p)
        /\ wpc[v] = "write" => Held(owner, target[v], p)
        /\ hit[v] \in used \cup {NoCompany} /\ target[v] \in used \cup {NoCompany}
    BY DEF HeldOwned, HandedOut, p
  <2>5. ASSUME hit'[v] \in CompanyIds, row'[hit'[v]] # NoRow
        PROVE  OwnedBy(owner, row'[hit'[v]], owner[p])
    <3>1. CASE hit'[v] \in Matches(Party(v)) /\ row' = row
      BY <2>2, <2>3, <2>5, <3>1, MatchOwned DEF Held, Stored
    <3>2. CASE wpc[v] \in {"find", "write"} /\ hit'[v] = hit[v]
      BY <2>2, <2>4, <2>5, <3>2, PointerStep DEF Stored
    <3>. QED
      BY <2>1, <3>1, <3>2
  <2>6. ASSUME target'[v] \in CompanyIds, row'[target'[v]] # NoRow,
               wpc'[v] = "write"
        PROVE  OwnedBy(owner, row'[target'[v]], owner[p])
    <3>1. CASE target'[v] \in Matches(Party(v)) /\ row' = row
      BY <2>2, <2>3, <2>6, <3>1, MatchOwned DEF Held, Stored
    <3>2. CASE wpc[v] = "write" /\ target'[v] = target[v]
      BY <2>2, <2>4, <2>6, <3>2, PointerStep DEF Stored
    <3>. QED
      BY <2>1, <2>6, <3>1, <3>2
  <2>. QED
    BY <2>1, <2>5, <2>6
<1>. QED
  BY <1>1, <1>2 DEF HeldOwned, Held, Stored

-------------------------------------------------------------------------------
(* The invariant                                                           *)

CompaniesInv ==
  /\ TablesTyped /\ LocalsTyped
  /\ LinksStored /\ Aimed /\ Counted
  /\ HandedOut /\ IdleIsClean /\ MatchedOrKeyed
  /\ VatUnique

LEMMA CompaniesStart == Init => CompaniesInv
<1>. SUFFICES ASSUME Init PROVE CompaniesInv
  OBVIOUS
<1>1. \A c : ~Stored(c)
  BY DEF Init, Stored
<1>2. TablesTyped
  BY <1>1 DEF Init, TablesTyped, MaybeCompany
<1>3. LocalsTyped
  BY DEF Init, LocalsTyped, NoSides, MaybeCompany, Sides
<1>4. LinksStored /\ VatUnique
  BY <1>1 DEF Init, LinksStored, VatUnique
<1>. QED
  BY <1>2, <1>3, <1>4
     DEF Init, CompaniesInv, Aimed, Counted, HandedOut, IdleIsClean, MatchedOrKeyed

\* The conjunction is inductive.
LEMMA CompaniesStep ==
  ASSUME CompaniesInv, [Next]_vars
  PROVE  CompaniesInv'
<1>. USE DEF CompaniesInv
<1>1. LocalsTyped' /\ TablesTyped'
  BY LocalsStep, TablesStep
<1>2. LinksStored'
  BY LinksStep DEF LinksStored, Stored
<1>3. Aimed'
  BY AimedStep DEF Aimed
<1>4. Counted'
  BY CountedStep DEF Counted
<1>5. HandedOut'
  BY HandedOutStep DEF HandedOut, Sides
<1>6. IdleIsClean'
  BY IdleStep DEF IdleIsClean
<1>7. MatchedOrKeyed'
  BY KeyedStep DEF MatchedOrKeyed, Party
<1>8. VatUnique'
  BY VatUniqueStep DEF VatUnique, Stored
<1>. QED
  BY <1>1, <1>2, <1>3, <1>4, <1>5, <1>6, <1>7, <1>8

-------------------------------------------------------------------------------
(* Theorems                                                                *)

\* Whatever workers, deletions and merges do to the directory in between each
\* other's statements, CompaniesInv holds.
THEOREM CompaniesInvariant == Spec => []CompaniesInv
BY CompaniesStart, CompaniesStep, PTL DEF Spec

\* The columns, program counters and locals stay in their sets.
THEOREM TypeCorrect == Spec => []TypeOK
<1>1. CompaniesInv => TypeOK
  BY TypeParts DEF CompaniesInv
<1>. QED
  BY <1>1, CompaniesInvariant, PTL

\* No invoice is ever left with a company that is not there, whatever merges,
\* deletions and workers that link do at the same time (company.go:439).
THEOREM NoDanglingLink == Spec => []LinksStored
BY CompaniesInvariant, PTL DEF CompaniesInv

\* There is one company for a VAT number, with or without country prefix, as
\* long as the number starts with a digit (company.go:17-21).
THEOREM OneCompanyPerVat == Spec => []OncePerVat
<1>1. CompaniesInv => OncePerVat
  <2>. SUFFICES ASSUME CompaniesInv, NEW c \in CompanyIds, NEW d \in CompanyIds,
                       Stored(c), Stored(d), row[c].vat # Blank, row[d].vat # Blank,
                       row[c].vat.num = row[d].vat.num,
                       row[c].vat.num \notin LetterFirst
                PROVE  c = d
    BY DEF OncePerVat
  <2>1. row[c] \in Row /\ row[d] \in Row
    BY TypeFacts DEF CompaniesInv
  <2>2. row[c].vat = row[d].vat
    BY <2>1, VatShape
  <2>. QED
    BY <2>2 DEF CompaniesInv, VatUnique
<1>. QED
  BY <1>1, CompaniesInvariant, PTL

\* If titles and codes tell companies apart, a worker is never about to link an
\* invoice with a company of another VAT number than the invoice names.
THEOREM ResolvedCompanyFits == Spec => []ResolvedFits
<1>1. CASE KeysIdentify
  <2>1. PICK owner \in [Parties -> 1 .. Cardinality(Parties)] : Owns(owner)
    BY <1>1 DEF KeysIdentify, Owns
  <2>. DEFINE I == CompaniesInv /\ RowsOwned(owner) /\ HeldOwned(owner)
  <2>2. Init => I
    <3>. SUFFICES ASSUME Init PROVE RowsOwned(owner) /\ HeldOwned(owner)
      BY CompaniesStart
    <3>1. \A c : ~Stored(c)
      BY DEF Init, Stored
    <3>. QED
      BY <3>1 DEF RowsOwned, HeldOwned, Held
  <2>3. I /\ [Next]_vars => I'
    <3>. SUFFICES ASSUME CompaniesInv, RowsOwned(owner), HeldOwned(owner), [Next]_vars
                  PROVE  I'
      OBVIOUS
    <3>1. CompaniesInv'
      BY CompaniesStep
    <3>2. RowsOwned(owner)'
      BY <2>1, RowsOwnedStep DEF CompaniesInv, RowsOwned, Stored
    <3>3. HeldOwned(owner)'
      BY <2>1, <3>1, HeldOwnedStep DEF CompaniesInv
    <3>. QED
      BY <3>1, <3>2, <3>3
  <2>4. I => ResolvedFits
    <3>. SUFFICES ASSUME I, NEW w \in Workers, NEW s \in Sides, wpc[w] # "idle",
                         wext[w][s] # NoParty, Stored(res[w][s]),
                         wext[w][s].vat # Blank
                  PROVE  row[res[w][s]].vat \in {Blank, Normalize(wext[w][s].vat)}
      BY DEF ResolvedFits
    <3>1. wext[w][s] \in Parties
      BY DEF CompaniesInv, LocalsTyped
    <3>2. OwnedBy(owner, row[res[w][s]], owner[wext[w][s]])
      BY DEF HeldOwned, Held
    <3>3. Normalize(wext[w][s].vat) # Blank
      BY <3>1, PartiesAssumption
    <3>. QED
      BY <2>1, <3>1, <3>2, <3>3 DEF Owns, OwnedBy
  <2>. HIDE DEF I
  <2>. QED
    BY <2>2, <2>3, <2>4, PTL DEF Spec
<1>2. CASE ~KeysIdentify
  <2>1. ResolvedFits
    BY <1>2 DEF ResolvedFits
  <2>. QED
    BY <2>1, PTL
<1>. QED
  BY <1>1, <1>2

\* A company without VAT code and code comes into being only for a party that
\* MatchCompany had found (company.go:285-289).
THEOREM NoJunkCompanies == Spec => KeylessWasMatched
<1>1. ASSUME CompaniesInv, [Next]_vars, NEW c \in CompanyIds, row[c] = NoRow,
             row'[c] # NoRow, ~HasKey(row'[c])
      PROVE  \E w \in Workers : wpc[w] = "write" /\ hit[w] # NoCompany
                                 /\ target[w] = NoCompany
  <2>1. PICK w \in Workers : /\ wpc[w] = "write" /\ row'[c] = Party(w)
                             /\ target[w] = NoCompany
    BY <1>1, RowsNew DEF CompaniesInv, Stored
  <2>2. HasKey(row'[c]) <=> HasKey(Party(w))
    BY <2>1
  <2>. QED
    BY <1>1, <2>1, <2>2 DEF CompaniesInv, MatchedOrKeyed
<1>2. CompaniesInv /\ [Next]_vars =>
        \A c \in CompanyIds :
          (row[c] = NoRow /\ row'[c] # NoRow /\ ~HasKey(row'[c])) =>
            \E w \in Workers : wpc[w] = "write" /\ hit[w] # NoCompany
                                 /\ target[w] = NoCompany
  BY <1>1
<1>. QED
  BY <1>2, CompaniesInvariant, PTL DEF Spec, KeylessWasMatched

\* A merge never loses a link, also when its target goes after the check.
THEOREM MergesLoseNoLink == Spec => MergeLosesNoLink
<1>1. CompaniesInv /\ [Next]_vars =>
        \A r \in Requests : rpc[r] = "merge" =>
          \A i \in Invoices, s \in Sides :
            link'[i][s] = NoCompany /\ rpc'[r] = "idle" /\ row' # row
              => link[i][s] = NoCompany
  BY MergeKeepsLinks DEF CompaniesInv
<1>. QED
  BY <1>1, CompaniesInvariant, PTL DEF Spec, MergeLosesNoLink

\* A deletion takes the link only from invoices linked or shown again after it
\* has counted.
THEOREM DeletionsTakeNewLinks == Spec => DeletedLinksAreNew
<1>1. CompaniesInv /\ [Next]_vars =>
        \A r \in Requests : (rpc[r] = "delete" /\ rpc'[r] = "idle") =>
          \A i \in Invoices \ hidden :
            (link[i] # link'[i]) => i \in since[r]
  BY DeletionCounts DEF CompaniesInv
<1>. QED
  BY <1>1, CompaniesInvariant, PTL DEF Spec, DeletedLinksAreNew

===============================================================================
