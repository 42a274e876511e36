------------------------------- MODULE Companies -------------------------------
(***************************************************************************)
(* The company directory: the worker resolves the seller and the buyer of  *)
(* an extracted invoice to companies and links them, while users delete    *)
(* and merge companies.  Several workers are several processes on one      *)
(* database: `serve` and every `mcp` run a worker of their own.            *)
(*                                                                         *)
(* One action is one SQL statement or one transaction, except that the     *)
(* lookups of matchCompanyID (VAT code, code, title) are one action.       *)
(* The fields of a company are reduced to those the matching looks at.     *)
(***************************************************************************)
EXTENDS Naturals, FiniteSets

CONSTANTS
  CompanyIds,    \* ids that uuid.New() may hand out
  Invoices,
  Workers,       \* worker goroutines, one per process
  Requests,      \* deletions and merges in flight at the same time
  Extractions,   \* what a model may say: a seller and a buyer, or NoParty
  LetterFirst,   \* VAT numbers that start with a letter behind the country
  Blank,         \* an empty column
  NoCompany, NoRow, NoParty, NoInvoice,
  DbErrors       \* SQL statements may fail for reasons of their own

Sides == {"seller", "buyer"}

NoSides == [s \in Sides |-> NoParty]

\* The parties the extractions name: title, code, VAT code as printed, country.
Parties == UNION {{e[s] : s \in Sides} : e \in Extractions} \ {NoParty}

\* Mutant: the country prefix stays.
PrefixKept(v) == v

\* normalizeVATCode strips two letters in front of anything but a letter.
Normalize(v) ==
  IF v # Blank /\ v.cc # Blank /\ v.num \notin LetterFirst
    THEN [v EXCEPT !.cc = Blank] ELSE v

Row == [title : {p.title : p \in Parties},
        code : {p.code : p \in Parties} \cup {Blank},
        vat : {Normalize(p.vat) : p \in Parties} \cup {Blank},
        country : {p.country : p \in Parties} \cup {Blank}]

ASSUME CompaniesAssumption ==
  /\ Extractions \subseteq [Sides -> Parties \cup {NoParty}]
  /\ NoCompany \notin CompanyIds /\ NoInvoice \notin Invoices
  /\ NoRow \notin Row /\ NoParty \notin Parties
  /\ DbErrors \in BOOLEAN

\* Parties are records, and a VAT number is a record unless it is blank.
ASSUME PartiesAssumption ==
  \A p \in Parties :
    /\ p = [title |-> p.title, code |-> p.code, vat |-> p.vat,
            country |-> p.country]
    /\ p.vat # Blank => /\ p.vat = [cc |-> p.vat.cc, num |-> p.vat.num]
                        /\ Normalize(p.vat) # Blank

VARIABLES
  row,     \* table companies
  used,    \* ids handed out so far: an id is never handed out twice
  link,    \* columns seller_company_id and buyer_company_id of invoices
  hidden,  \* invoices whose status is duplicate or failed
  wpc,     \* where the code behind the commit of Worker.process stands
  winv,    \* the invoice it resolves
  wext,    \* the parties extracted from it
  wside,   \* the side at hand
  hit,     \* what MatchCompany returned for it
  target,  \* what the lookup inside UpsertCompany returned
  res,     \* the ids resolved so far
  rpc,     \* where a deletion or a merge stands
  rsrc,    \* the company to delete, the source of the merge
  rtgt,    \* the target of the merge
  since    \* history: invoices linked or shown again since the deletion's count

tableVars   == <<row, used, link, hidden>>
workerVars  == <<wpc, winv, wext, wside, hit, target, res>>
requestVars == <<rpc, rsrc, rtgt>>
vars == <<tableVars, workerVars, requestVars, since>>

-------------------------------------------------------------------------------
(* Matching                                                                *)

Normalized(p) == [p EXCEPT !.vat = Normalize(p.vat)]

Stored(c) == c \in CompanyIds /\ row[c] # NoRow

ByVat(p) == {c \in CompanyIds : /\ Stored(c) /\ p.vat # Blank
                                /\ row[c].vat = p.vat}

SameCountry(c, p) == p.country \in {Blank, row[c].country}

\* Mutant: a party without a code is looked up by it, too.
ByBlankCode(p) == {c \in CompanyIds : /\ Stored(c) /\ row[c].code = p.code
                                     /\ SameCountry(c, p)}

ByCode(p) == {c \in CompanyIds : /\ Stored(c) /\ p.code # Blank
                                 /\ row[c].code = p.code /\ SameCountry(c, p)}

ByTitle(p) == {c \in CompanyIds : /\ Stored(c) /\ row[c].title = p.title
                                  /\ SameCountry(c, p)}

\* The ids matchCompanyID may return for p: it tries one key after another, and
\* a lookup that fails counts as one that finds nothing.  A lookup by code or
\* title may have several answers.
Matches(p) ==
  ByVat(p)
  \cup (IF ByVat(p) = {} \/ DbErrors THEN ByCode(p) ELSE {})
  \cup (IF ByVat(p) \cup ByCode(p) = {} \/ DbErrors THEN ByTitle(p) ELSE {})
  \cup (IF ByVat(p) \cup ByCode(p) \cup ByTitle(p) = {} \/ DbErrors
          THEN {NoCompany} ELSE {})

HasKey(p) == p.vat # Blank \/ p.code # Blank

\* COALESCE(NULLIF(new, ''), old), column by column.
Refresh(old, new) ==
  [f \in DOMAIN old |-> IF new[f] # Blank THEN new[f] ELSE old[f]]

\* The partial unique index on (org_id, vat_code).
VatTaken(c, v) == v # Blank /\ \E d \in CompanyIds \ {c} :
                                 Stored(d) /\ row[d].vat = v

-------------------------------------------------------------------------------

Init ==
  /\ row = [c \in CompanyIds |-> NoRow] /\ used = {}
  /\ link = [i \in Invoices |-> [s \in Sides |-> NoCompany]]
  /\ hidden = {}
  /\ wpc   = [w \in Workers |-> "idle"]
  /\ winv  = [w \in Workers |-> NoInvoice]
  /\ wext  = [w \in Workers |-> NoSides]
  /\ wside = [w \in Workers |-> "seller"]
  /\ hit    = [w \in Workers |-> NoCompany]
  /\ target = [w \in Workers |-> NoCompany]
  /\ res   = [w \in Workers |-> [s \in Sides |-> NoCompany]]
  /\ rpc   = [r \in Requests |-> "idle"]
  /\ rsrc  = [r \in Requests |-> NoCompany]
  /\ rtgt  = [r \in Requests |-> NoCompany]
  /\ since = [r \in Requests |-> {}]

\* The history: in this step I are linked or shown again.
Noting(I) ==
  since' = [r \in Requests |-> IF rpc[r] = "delete" THEN since[r] \cup I ELSE {}]

Party(w) == Normalized(wext[w][wside[w]])

\* The worker has resolved the side at hand to c and turns to the next one.
Resolved(w, c) ==
  /\ res' = [res EXCEPT ![w][wside[w]] = c]
  /\ wpc' = [wpc EXCEPT ![w] = IF wside[w] = "seller" THEN "match" ELSE "link"]
  /\ wside'  = [wside  EXCEPT ![w] = "buyer"]
  /\ hit'    = [hit    EXCEPT ![w] = NoCompany]
  /\ target' = [target EXCEPT ![w] = NoCompany]
  /\ UNCHANGED <<winv, wext>>

WorkerDone(w) ==
  /\ wpc'   = [wpc   EXCEPT ![w] = "idle"]
  /\ winv'  = [winv  EXCEPT ![w] = NoInvoice]
  /\ wext'  = [wext  EXCEPT ![w] = NoSides]
  /\ wside' = [wside EXCEPT ![w] = "seller"]
  /\ hit'    = [hit    EXCEPT ![w] = NoCompany]
  /\ target' = [target EXCEPT ![w] = NoCompany]
  /\ res'   = [res   EXCEPT ![w] = [s \in Sides |-> NoCompany]]

\* The transaction with the extracted data is committed: the invoice is
\* processed or a duplicate.  Its old links stay.
WorkerCommit(w, i, e) ==
  /\ wpc[w] = "idle"
  /\ wpc'  = [wpc  EXCEPT ![w] = "match"]
  /\ winv' = [winv EXCEPT ![w] = i]
  /\ wext' = [wext EXCEPT ![w] = e]
  /\ \/ hidden' = hidden \ {i} /\ Noting({i} \cap hidden)
     \/ hidden' = hidden \cup {i} /\ UNCHANGED since
  /\ UNCHANGED <<row, used, link, wside, hit, target, res, requestVars>>

\* resolveCompanyID is not called for a party without a name.
SkipSide(w) ==
  /\ wpc[w] = "match" /\ wext[w][wside[w]] = NoParty
  /\ Resolved(w, NoCompany)
  /\ UNCHANGED <<tableVars, requestVars, since>>

\* Mutant: a party nobody could tell apart later gets a company, too.
MatchAlwaysUpserts(w) ==
  /\ wpc[w] = "match" /\ wext[w][wside[w]] # NoParty
  /\ \E c \in Matches(Party(w)) :
       /\ wpc' = [wpc EXCEPT ![w] = "find"]
       /\ hit' = [hit EXCEPT ![w] = c]
       /\ UNCHANGED <<winv, wext, wside, target, res>>
  /\ UNCHANGED <<tableVars, requestVars, since>>

\* MatchCompany: without a match a party with neither VAT code nor code is left
\* unassigned, all others go through UpsertCompany.
MatchCompany(w) ==
  /\ wpc[w] = "match" /\ wext[w][wside[w]] # NoParty
  /\ \E c \in Matches(Party(w)) :
       IF c # NoCompany \/ HasKey(Party(w))
         THEN /\ wpc' = [wpc EXCEPT ![w] = "find"]
              /\ hit' = [hit EXCEPT ![w] = c]
              /\ UNCHANGED <<winv, wext, wside, target, res>>
         ELSE Resolved(w, NoCompany)
  /\ UNCHANGED <<tableVars, requestVars, since>>

\* UpsertCompany looks the party up again ...
UpsertFind(w) ==
  /\ wpc[w] = "find"
  /\ \E c \in Matches(Party(w)) : target' = [target EXCEPT ![w] = c]
  /\ wpc' = [wpc EXCEPT ![w] = "write"]
  /\ UNCHANGED <<winv, wext, wside, hit, res, tableVars, requestVars, since>>

\* ... inserts a row when it found none ...
UpsertInsert(w) ==
  /\ wpc[w] = "write" /\ target[w] = NoCompany
  /\ \E c \in CompanyIds \ used :
       /\ ~VatTaken(c, Party(w).vat)
       /\ row' = [row EXCEPT ![c] = Party(w)] /\ used' = used \cup {c}
       /\ Resolved(w, IF hit[w] # NoCompany THEN hit[w] ELSE c)
  /\ UNCHANGED <<link, hidden, requestVars, since>>

\* ... or refreshes the row it found, which may be gone by now.  Either way the
\* worker keeps the id that MatchCompany gave it, if it gave one.
UpsertUpdate(w) ==
  /\ wpc[w] = "write" /\ target[w] # NoCompany
  /\ ~VatTaken(target[w], Party(w).vat) \/ ~Stored(target[w])
  /\ row' = IF Stored(target[w])
              THEN [row EXCEPT ![target[w]] = Refresh(@, Party(w))]
              ELSE row
  /\ Resolved(w, IF hit[w] # NoCompany THEN hit[w] ELSE target[w])
  /\ UNCHANGED <<used, link, hidden, requestVars, since>>

\* The unique index rejects the VAT code, or the statement fails.
UpsertFails(w) ==
  /\ wpc[w] = "write"
  /\ \/ DbErrors
     \/ /\ VatTaken(target[w], Party(w).vat)
        /\ target[w] = NoCompany \/ Stored(target[w])
  /\ Resolved(w, hit[w])
  /\ UNCHANGED <<tableVars, requestVars, since>>

LinkSet(w) == {res[w][s] : s \in Sides} \ {NoCompany}

\* Both links are written together once one side is resolved, whatever became
\* of the invoice meanwhile.
LinkCompanies(w) ==
  /\ wpc[w] = "link"
  /\ LinkSet(w) # {} /\ \A c \in LinkSet(w) : Stored(c)
  /\ link' = [link EXCEPT ![winv[w]] = res[w]]
  /\ Noting({winv[w]})
  /\ WorkerDone(w)
  /\ UNCHANGED <<row, used, hidden, requestVars>>

\* Neither side is resolved, or the foreign key or an error stops the UPDATE:
\* the links the invoice had before stay.
LinkNothing(w) ==
  /\ wpc[w] = "link"
  /\ DbErrors \/ LinkSet(w) = {} \/ \E c \in LinkSet(w) : ~Stored(c)
  /\ WorkerDone(w)
  /\ UNCHANGED <<tableVars, requestVars, since>>

\* The process of the worker dies.
WorkerDies(w) ==
  /\ wpc[w] # "idle"
  /\ WorkerDone(w)
  /\ UNCHANGED <<tableVars, requestVars, since>>

\* An extraction fails, or a failed invoice is sent to the worker again.
InvoiceFails(i) ==
  /\ i \notin hidden /\ hidden' = hidden \cup {i}
  /\ UNCHANGED <<row, used, link, workerVars, requestVars, since>>

InvoiceReprocessed(i) ==
  /\ i \in hidden /\ hidden' = hidden \ {i} /\ Noting({i})
  /\ UNCHANGED <<row, used, link, workerVars, requestVars>>

-------------------------------------------------------------------------------
(* Deletions and merges                                                    *)

Go(r, pc, c, d) ==
  /\ rpc'  = [rpc  EXCEPT ![r] = pc]
  /\ rsrc' = [rsrc EXCEPT ![r] = c]
  /\ rtgt' = [rtgt EXCEPT ![r] = d]

Return(r) == Go(r, "idle", NoCompany, NoCompany)

LinkedTo(c) == {i \in Invoices : \E s \in Sides : link[i][s] = c}

\* ON DELETE SET NULL.
Unlinked(lk, c) ==
  [i \in Invoices |->
     [s \in Sides |-> IF lk[i][s] = c THEN NoCompany ELSE lk[i][s]]]

\* Mutant: invoices sold by the company do not count.
DeleteCountsBuyers(r, c) ==
  /\ rpc[r] = "idle" /\ Stored(c)
  /\ \A i \in Invoices \ hidden : link[i]["buyer"] # c
  /\ Go(r, "delete", c, NoCompany)
  /\ UNCHANGED <<tableVars, workerVars, since>>

\* DeleteCompany counts the invoices of the company, but for duplicates and
\* failed ones, and refuses if there are any ...
DeleteCheck(r, c) ==
  /\ rpc[r] = "idle" /\ Stored(c)
  /\ LinkedTo(c) \subseteq hidden
  /\ Go(r, "delete", c, NoCompany)
  /\ UNCHANGED <<tableVars, workerVars, since>>

\* ... and deletes it in a statement of its own.
DeleteCompany(r) ==
  /\ rpc[r] = "delete"
  /\ row'  = [row EXCEPT ![rsrc[r]] = NoRow]
  /\ link' = Unlinked(link, rsrc[r])
  /\ Return(r)
  /\ since' = [since EXCEPT ![r] = {}]
  /\ UNCHANGED <<used, hidden, workerVars>>

\* MergeCompanies reads the source, then the target ...
MergeReadSource(r, c, d) ==
  /\ rpc[r] = "idle" /\ c # d /\ Stored(c)
  /\ Go(r, "target", c, d)
  /\ UNCHANGED <<tableVars, workerVars, since>>

MergeReadTarget(r) ==
  /\ rpc[r] = "target" /\ Stored(rtgt[r])
  /\ Go(r, "merge", rsrc[r], rtgt[r])
  /\ UNCHANGED <<tableVars, workerVars, since>>

Moved(c, d) ==
  [i \in Invoices |->
     [s \in Sides |-> IF link[i][s] = c THEN d ELSE link[i][s]]]

\* Mutant: only the seller links are moved before the source goes.
MergeSellersOnly(r) ==
  /\ rpc[r] = "merge"
  /\ LinkedTo(rsrc[r]) = {} \/ Stored(rtgt[r])
  /\ row'  = [row EXCEPT ![rsrc[r]] = NoRow]
  /\ link' = Unlinked([i \in Invoices |->
                         [link[i] EXCEPT !["seller"] =
                            IF @ = rsrc[r] THEN rtgt[r] ELSE @]], rsrc[r])
  /\ Noting(LinkedTo(rsrc[r]))
  /\ Return(r)
  /\ UNCHANGED <<used, hidden, workerVars>>

\* ... and moves the links and deletes the source in one transaction.  The
\* foreign key speaks up for a target that is gone only if a link moves.
MergeCompanies(r) ==
  /\ rpc[r] = "merge"
  /\ LinkedTo(rsrc[r]) = {} \/ Stored(rtgt[r])
  /\ row'  = [row EXCEPT ![rsrc[r]] = NoRow]
  /\ link' = Moved(rsrc[r], rtgt[r])
  /\ Noting(LinkedTo(rsrc[r]))
  /\ Return(r)
  /\ UNCHANGED <<used, hidden, workerVars>>

\* A company is not found, the foreign key rejects the merge, the client or the
\* process is gone.
RequestEnds(r) ==
  /\ rpc[r] # "idle"
  /\ Return(r)
  /\ since' = [since EXCEPT ![r] = {}]
  /\ UNCHANGED <<tableVars, workerVars>>

-------------------------------------------------------------------------------

Resolve(w) ==
  \/ \E i \in Invoices, e \in Extractions : WorkerCommit(w, i, e)
  \/ SkipSide(w) \/ MatchCompany(w) \/ UpsertFind(w)
  \/ UpsertInsert(w) \/ UpsertUpdate(w) \/ UpsertFails(w)
  \/ LinkCompanies(w) \/ LinkNothing(w) \/ WorkerDies(w)

Request(r) ==
  \/ \E c \in CompanyIds : DeleteCheck(r, c)
  \/ DeleteCompany(r)
  \/ \E c, d \in CompanyIds : MergeReadSource(r, c, d)
  \/ MergeReadTarget(r) \/ MergeCompanies(r) \/ RequestEnds(r)

Next ==
  \/ \E w \in Workers : Resolve(w)
  \/ \E r \in Requests : Request(r)
  \/ \E i \in Invoices : InvoiceFails(i) \/ InvoiceReprocessed(i)

Spec == Init /\ [][Next]_vars

-------------------------------------------------------------------------------
(* Properties                                                              *)

MaybeCompany == CompanyIds \cup {NoCompany}

\* Type correctness: the columns, program counters and locals of the directory
\* stay in their sets, and a stored company has an id that was handed out.
TypeOK ==
  /\ row \in [CompanyIds -> Row \cup {NoRow}]
  /\ used \subseteq CompanyIds /\ \A c \in CompanyIds : Stored(c) => c \in used
  /\ link \in [Invoices -> [Sides -> MaybeCompany]]
  /\ hidden \subseteq Invoices
  /\ wpc \in [Workers -> {"idle", "match", "find", "write", "link"}]
  /\ winv \in [Workers -> Invoices \cup {NoInvoice}]
  /\ wext \in [Workers -> [Sides -> Parties \cup {NoParty}]]
  /\ wside \in [Workers -> Sides]
  /\ hit \in [Workers -> MaybeCompany] /\ target \in [Workers -> MaybeCompany]
  /\ res \in [Workers -> [Sides -> MaybeCompany]]
  /\ rpc \in [Requests -> {"idle", "delete", "target", "merge"}]
  /\ rsrc \in [Requests -> MaybeCompany] /\ rtgt \in [Requests -> MaybeCompany]
  /\ since \in [Requests -> SUBSET Invoices]
  /\ \A w \in Workers :
       /\ wpc[w] # "idle" => winv[w] \in Invoices
       /\ wpc[w] \in {"find", "write"} => wext[w][wside[w]] # NoParty

\* No dangling link: a merge, a deletion and a worker that links at the same
\* time never leave an invoice with a company that is not there.
LinksStored ==
  \A i \in Invoices, s \in Sides : link[i][s] # NoCompany => Stored(link[i][s])

\* A company is stored once whether or not its VAT code is printed with the
\* country prefix (company.go:17-21, QA.md:364), as long as the number itself
\* starts with a digit: the prefix of "ATU12345678" is not stripped.
OncePerVat ==
  \A c, d \in CompanyIds :
    (Stored(c) /\ Stored(d) /\ row[c].vat # Blank /\ row[d].vat # Blank) =>
      (row[c].vat.num = row[d].vat.num /\ row[c].vat.num \notin LetterFirst
         => c = d)

\* Titles and codes tell the companies behind the parties apart: they can be
\* given owners such that a shared key means the same owner, and an owner has
\* one VAT code.
KeysIdentify ==
  \E owner \in [Parties -> 1 .. Cardinality(Parties)] :
    \A p, q \in Parties :
      LET vp == Normalize(p.vat)
          vq == Normalize(q.vat)
      IN  /\ p.title = q.title => owner[p] = owner[q]
          /\ p.code # Blank /\ p.code = q.code => owner[p] = owner[q]
          /\ vp # Blank /\ vp = vq => owner[p] = owner[q]
          /\ vp # Blank /\ vq # Blank /\ owner[p] = owner[q] => vp = vq

\* The id the worker is about to link is never that of a company with another
\* VAT code than the invoice names, although the id comes from one lookup, the
\* refresh from another, and merges, deletions and other workers come between.
ResolvedFits ==
  KeysIdentify =>
    \A w \in Workers, s \in Sides :
      (wpc[w] # "idle" /\ wext[w][s] # NoParty /\ Stored(res[w][s])) =>
        (wext[w][s].vat # Blank =>
           row[res[w][s]].vat \in {Blank, Normalize(wext[w][s].vat)})

\* No junk companies (company.go:285-289, QA.md:364): a company without VAT code
\* and code comes into being only for a party that MatchCompany had found; that
\* is, when the match is gone before UpsertCompany looks for it again.
KeylessWasMatched ==
  [][\A c \in CompanyIds :
       (row[c] = NoRow /\ row'[c] # NoRow /\ ~HasKey(row'[c])) =>
         \E w \in Workers : wpc[w] = "write" /\ hit[w] # NoCompany
                              /\ target[w] = NoCompany]_vars

\* A merge never loses a link (QA.md:367, "all invoices linked to the first
\* company are re-pointed"), also when its target is deleted or merged away
\* after the check that it exists.
MergeLosesNoLink ==
  [][\A r \in Requests : rpc[r] = "merge" =>
       \A i \in Invoices, s \in Sides :
         link'[i][s] = NoCompany /\ rpc'[r] = "idle" /\ row' # row
           => link[i][s] = NoCompany]_vars

\* A deletion takes the link from an invoice that counts (QA.md:378) only if the
\* invoice was linked or shown again after the deletion had counted.
DeletedLinksAreNew ==
  [][\A r \in Requests : (rpc[r] = "delete" /\ rpc'[r] = "idle") =>
       \A i \in Invoices \ hidden :
         (link[i] # link'[i]) => i \in since[r]]_vars

===============================================================================
