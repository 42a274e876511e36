------------------------------- MODULE FileStore -------------------------------
(***************************************************************************)
(* The files of one document on disk.  An upload is stored under the user  *)
(* and the checksum; its pages are rendered into a temporary directory     *)
(* under the checksum alone, by each import (for the preview) and by each  *)
(* worker (for the model), so that conversions of one document share their *)
(* files: of different users, of an import and a worker, of the processes  *)
(* `serve` and `mcp`.                                                      *)
(*                                                                         *)
(* A file is created by truncating it, and written in a second step.       *)
(***************************************************************************)
EXTENDS Naturals, FiniteSets

CONSTANTS
  Users,
  Importers,  \* calls of ImportInvoice in flight
  Workers,    \* worker goroutines, one per process
  PageCount,  \* pages of the document that are rendered: at most ten, and one
              \* for an image
  NoUser

Upload(u)  == <<u, "upload">>

Preview(u) == <<u, "preview">>

Page(n) == <<n, "page">>

Pages == {Page(n) : n \in 1 .. PageCount}

Kept == {Upload(u) : u \in Users} \cup {Preview(u) : u \in Users}

Paths == Kept \cup Pages

Actors == Importers \cup Workers

ASSUME FilesAssumption ==
  /\ Importers \cap Workers = {}
  /\ PageCount \in Nat \ {0}
  /\ NoUser \notin Users

VARIABLES
  disk,   \* what stands at a path: nothing, a part of the content, or all of it
  known,  \* users with an invoice of the document
  shown,  \* those whose invoice names a preview
  pc,     \* where an import or a worker stands
  own,    \* the user it works for
  page,   \* the page it renders
  made,   \* the pages it has to remove in the end
  hit,    \* history: paths an actor counts on that others have created or
          \* removed since it created them itself
  left,   \* history: pages that nobody is going to remove
  spoiled \* history: kept files that a broken-off save or a preview made from
          \* somebody else's page has left behind

actorVars == <<pc, own, page, made>>
vars == <<disk, known, shown, actorVars, hit, left, spoiled>>

Init ==
  /\ disk = [p \in Paths |-> "none"]
  /\ known = {} /\ shown = {}
  /\ pc   = [a \in Actors |-> "idle"]
  /\ own  = [a \in Actors |-> NoUser]
  /\ page = [a \in Actors |-> 1]
  /\ made = [a \in Actors |-> {}]
  /\ hit  = [a \in Actors |-> {}]
  /\ left = {} /\ spoiled = {}

-------------------------------------------------------------------------------
(* Files                                                                   *)

Go(a, p) == pc' = [pc EXCEPT ![a] = p]

\* What an actor has created and still counts on.
Mine(b) ==
  made[b] \cup (CASE pc[b] = "copy" -> {Upload(own[b])}
                 [] pc[b] = "copy preview" -> {Preview(own[b])}
                 [] OTHER -> {})

\* The history: a creates or removes the paths P.
Touch(a, P) ==
  hit' = [b \in Actors |-> IF b = a THEN hit[b] \ P
                           ELSE hit[b] \cup (P \cap Mine(b))]

\* The history: what a has created is of no interest any more.
Forget(a, P) == hit' = [hit EXCEPT ![a] = @ \ P]

\* os.Create
Create(a, p) == disk' = [disk EXCEPT ![p] = "part"] /\ Touch(a, {p})

\* The content is written.  If another actor has created or removed the file
\* meanwhile, only chance tells what stands there now.
Written(a, p) ==
  \E s \in IF p \notin hit[a] THEN {"full"}
           ELSE IF disk[p] = "part" THEN {"part", "full"} ELSE {disk[p]} :
    disk' = [disk EXCEPT ![p] = s]

Remove(a, P) ==
  /\ disk' = [p \in Paths |-> IF p \in P THEN "none" ELSE disk[p]]
  /\ Touch(a, P)
  /\ left' = left \ P

End(a) ==
  /\ Go(a, "idle")
  /\ own'  = [own  EXCEPT ![a] = NoUser]
  /\ page' = [page EXCEPT ![a] = 1]
  /\ made' = [made EXCEPT ![a] = {}]

-------------------------------------------------------------------------------
(* Storing an upload                                                       *)

\* Storage.Save truncates the file of the user and the checksum, also when an
\* invoice has it already: a duplicate is stored again.
ImportSave(a, u) ==
  /\ pc[a] = "idle"
  /\ Create(a, Upload(u))
  /\ Go(a, "copy")
  /\ own' = [own EXCEPT ![a] = u]
  /\ UNCHANGED <<known, shown, page, made, left, spoiled>>

ImportCopied(a) ==
  /\ pc[a] = "copy"
  /\ Written(a, Upload(own[a]))
  /\ spoiled' = IF disk'[Upload(own[a])] = "full"
                  THEN spoiled \ {Upload(own[a])} ELSE spoiled
  /\ Go(a, "open")
  /\ Forget(a, {Upload(own[a])})
  /\ UNCHANGED <<known, shown, own, page, made, left>>

\* Mutant: the import goes on with what it could write.
CopyErrorIgnored(a) ==
  /\ pc[a] = "copy"
  /\ Go(a, "insert")
  /\ UNCHANGED <<disk, known, shown, own, page, made, hit, left, spoiled>>

\* The disk is full, or the process dies, while the upload is copied.
SaveBreaksOff(a) ==
  /\ pc[a] = "copy"
  /\ spoiled' = spoiled \cup {Upload(own[a])}
  /\ End(a)
  /\ Forget(a, Paths)
  /\ UNCHANGED <<disk, known, shown, left>>

\* The row is inserted: a preview is named if one was saved.
ImportInsert(a) ==
  /\ pc[a] \in {"insert", "insert with preview"}
  /\ known' = known \cup {own[a]}
  /\ shown' = IF pc[a] = "insert" THEN shown ELSE shown \cup {own[a]}
  /\ End(a)
  /\ Forget(a, Paths)
  /\ UNCHANGED <<disk, left, spoiled>>

-------------------------------------------------------------------------------
(* Rendering the pages                                                     *)

\* A worker takes an invoice of the user.
WorkerBegin(w, u) ==
  /\ pc[w] = "idle" /\ u \in known
  /\ Go(w, "open")
  /\ own' = [own EXCEPT ![w] = u]
  /\ UNCHANGED <<disk, known, shown, page, made, hit, left, spoiled>>

\* Without pages a worker falls back to the upload itself, and an import goes
\* on without a preview.
WithoutPages(a) == Go(a, IF a \in Workers THEN "ask" ELSE "insert")

\* The document is opened; a part of it cannot be.
Open(a) ==
  /\ pc[a] = "open"
  /\ IF disk[Upload(own[a])] = "full" THEN Go(a, "create") ELSE WithoutPages(a)
  /\ UNCHANGED <<disk, known, shown, own, page, made, hit, left, spoiled>>

CreatePage(a) ==
  /\ pc[a] = "create"
  /\ Create(a, Page(page[a]))
  /\ made' = [made EXCEPT ![a] = @ \cup {Page(page[a])}]
  /\ left' = left \ {Page(page[a])}
  /\ Go(a, "render")
  /\ UNCHANGED <<known, shown, own, page, spoiled>>

\* Mutant: a page that cannot be rendered is handed on like the others.
PageFailureIgnored(a) ==
  /\ pc[a] = "render"
  /\ Written(a, Page(page[a])) \/ disk' = disk
  /\ IF page[a] = PageCount
       THEN /\ Go(a, IF a \in Workers THEN "ask" ELSE "preview")
            /\ page' = page
       ELSE /\ Go(a, "create")
            /\ page' = [page EXCEPT ![a] = @ + 1]
  /\ UNCHANGED <<known, shown, own, made, hit, left, spoiled>>

RenderPage(a) ==
  /\ pc[a] = "render"
  /\ Written(a, Page(page[a]))
  /\ IF page[a] = PageCount
       THEN /\ Go(a, IF a \in Workers THEN "ask" ELSE "preview")
            /\ page' = page
       ELSE /\ Go(a, "create")
            /\ page' = [page EXCEPT ![a] = @ + 1]
  /\ UNCHANGED <<known, shown, own, made, hit, left, spoiled>>

\* The pages no other conversion is going to remove.
Orphaned(a) == {p \in made[a] : \A b \in Actors \ {a} : p \notin made[b]}

\* The document is no PDF or no image after all, a page cannot be read or
\* rendered: the caller gets no paths, so the pages made so far stay behind.
ConversionFails(a) ==
  /\ pc[a] \in {"open", "create", "render"}
  /\ WithoutPages(a)
  /\ left' = left \cup {p \in Orphaned(a) : disk[p] # "none"}
  /\ made' = [made EXCEPT ![a] = {}]
  /\ page' = [page EXCEPT ![a] = 1]
  /\ Forget(a, Paths)
  /\ UNCHANGED <<disk, known, shown, own, spoiled>>

-------------------------------------------------------------------------------
(* The preview                                                             *)

\* The first page is opened and copied, unless it is gone.
PreviewSave(a) ==
  /\ pc[a] = "preview" /\ disk[Page(1)] # "none"
  /\ Create(a, Preview(own[a]))
  /\ Go(a, "copy preview")
  /\ UNCHANGED <<known, shown, own, page, made, left, spoiled>>

PreviewCopied(a) ==
  LET p == Preview(own[a])
  IN  /\ pc[a] = "copy preview"
      /\ IF Page(1) \in hit[a]
           THEN \E s \in {"part", "full"} : disk' = [disk EXCEPT ![p] = s]
           ELSE Written(a, p)
      /\ spoiled' = IF disk'[p] = "full" THEN spoiled \ {p}
                    ELSE IF Page(1) \in hit[a] THEN spoiled \cup {p} ELSE spoiled
      /\ Go(a, "clean with preview")
      /\ Forget(a, {p})
      /\ UNCHANGED <<known, shown, own, page, made, left>>

\* The page is gone, or the preview cannot be written: the import goes on.
NoPreview(a) ==
  /\ pc[a] \in {"preview", "copy preview"}
  /\ spoiled' = IF pc[a] = "copy preview"
                  THEN spoiled \cup {Preview(own[a])} ELSE spoiled
  /\ Go(a, "clean")
  /\ Forget(a, {Preview(own[a])})
  /\ UNCHANGED <<disk, known, shown, own, page, made, left>>

\* Mutant: the import removes the page it has made the preview from.
ImportCleansFirst(a) ==
  /\ pc[a] \in {"clean", "clean with preview"}
  /\ Remove(a, {Page(1)})
  /\ made' = [made EXCEPT ![a] = {}]
  /\ page' = [page EXCEPT ![a] = 1]
  /\ Go(a, IF pc[a] = "clean" THEN "insert" ELSE "insert with preview")
  /\ UNCHANGED <<known, shown, own, spoiled>>

ImportClean(a) ==
  /\ pc[a] \in {"clean", "clean with preview"}
  /\ Remove(a, made[a])
  /\ made' = [made EXCEPT ![a] = {}]
  /\ page' = [page EXCEPT ![a] = 1]
  /\ Go(a, IF pc[a] = "clean" THEN "insert" ELSE "insert with preview")
  /\ UNCHANGED <<known, shown, own, spoiled>>

\* Process has read the pages, which may be gone or half-written by now, and
\* the model has answered or not: the deferred call removes them.
WorkerClean(w) ==
  /\ pc[w] = "ask"
  /\ Remove(w, made[w])
  /\ End(w)
  /\ UNCHANGED <<known, shown, spoiled>>

\* The process of a worker or of an import dies.
Dies(a) ==
  /\ pc[a] \notin {"idle", "copy"}
  /\ left' = left \cup {p \in Orphaned(a) : disk[p] # "none"}
  /\ spoiled' = IF pc[a] = "copy preview"
                  THEN spoiled \cup {Preview(own[a])} ELSE spoiled
  /\ End(a)
  /\ Forget(a, Paths)
  /\ UNCHANGED <<disk, known, shown>>

-------------------------------------------------------------------------------

Convert(a) ==
  Open(a) \/ CreatePage(a) \/ RenderPage(a) \/ ConversionFails(a) \/ Dies(a)

Import(a) ==
  \/ \E u \in Users : ImportSave(a, u)
  \/ ImportCopied(a) \/ SaveBreaksOff(a) \/ Convert(a)
  \/ PreviewSave(a) \/ PreviewCopied(a) \/ NoPreview(a)
  \/ ImportClean(a) \/ ImportInsert(a)

Work(w) ==
  \/ \E u \in Users : WorkerBegin(w, u)
  \/ Convert(w) \/ WorkerClean(w)

Next ==
  \/ \E a \in Importers : Import(a)
  \/ \E w \in Workers : Work(w)

Spec == Init /\ [][Next]_vars

-------------------------------------------------------------------------------
(* Properties                                                              *)

\* Type correctness: the files, program counters and locals stay in their sets.
TypeOK ==
  /\ disk \in [Paths -> {"none", "part", "full"}]
  /\ known \subseteq Users /\ shown \subseteq known
  /\ pc \in [Actors -> {"idle", "copy", "open", "create", "render", "preview",
                        "copy preview", "clean", "clean with preview", "insert",
                        "insert with preview", "ask"}]
  /\ own \in [Actors -> Users \cup {NoUser}]
  /\ page \in [Actors -> 1 .. PageCount]
  /\ made \in [Actors -> SUBSET Pages]
  /\ hit \in [Actors -> SUBSET Paths]
  /\ left \subseteq Pages /\ spoiled \subseteq Kept
  /\ \A a \in Actors : pc[a] # "idle" => own[a] \in Users
  /\ \A a \in Actors : /\ pc[a] = "render" => Page(page[a]) \in made[a]
                       /\ pc[a] \in {"idle", "copy"} => made[a] = {}

Copying(p) ==
  \E a \in Importers :
    \/ pc[a] = "copy" /\ p = Upload(own[a])
    \/ pc[a] = "copy preview" /\ p = Preview(own[a])

\* The upload behind an invoice, and the preview it names, are there and whole
\* whenever nobody is saving them, however many imports of the document overlap;
\* but for those a broken-off save or a clash over the first page has spoiled.
KeptIsWhole ==
  /\ \A u \in known : disk[Upload(u)]  # "none"
  /\ \A u \in shown : disk[Preview(u)] # "none"
  /\ \A p \in Kept  : disk[p] = "part" => p \in spoiled \/ Copying(p)

\* The temporary directory holds only pages that someone is going to remove, or
\* that a failed conversion or a dead process has left (media.go:29).
TempIsClean ==
  \A p \in Pages :
    disk[p] # "none" => p \in left \/ \E a \in Actors : p \in made[a]

\* The pages a conversion has handed to its caller are all there and whole until
\* the caller removes them; unless another conversion of the document has
\* created or removed one of them in between.
PagesAreWhole ==
  \A a \in Actors :
    pc[a] \in {"ask", "preview", "copy preview", "clean", "clean with preview"} =>
      \A p \in made[a] \ hit[a] : disk[p] = "full"

===============================================================================
