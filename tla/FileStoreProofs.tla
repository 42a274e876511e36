---------------------------- MODULE FileStoreProofs ----------------------------
(***************************************************************************)
(* Theorems about FileStore, for any users, imports, workers and number of *)
(* pages: type correctness, and what the files of a document hold.         *)
(***************************************************************************)
EXTENDS FileStore, TLAPS

\* Where an actor has no page to remove.
NothingMade ==
  \A a \in Actors :
    pc[a] \in {"idle", "copy", "open", "insert", "insert with preview"} =>
      made[a] = {}

\* The upload is there from the moment an actor works on it, the preview from
\* the moment an import copies it.
UploadThere ==
  \A a \in Actors : pc[a] # "idle" => disk[Upload(own[a])] # "none"

PreviewThere ==
  \A a \in Actors :
    pc[a] \in {"copy preview", "clean with preview", "insert with preview"} =>
      disk[Preview(own[a])] # "none"

InvoiceFiles ==
  /\ \A u \in known : disk[Upload(u)]  # "none"
  /\ \A u \in shown : disk[Preview(u)] # "none"

\* Whose copy makes the file a whole: the last one that created it.
LastCopies(a, p) ==
  /\ p \notin hit[a]
  /\ \/ pc[a] = "copy" /\ p = Upload(own[a])
     \/ pc[a] = "copy preview" /\ p = Preview(own[a])

PartsAreCopied ==
  \A p \in Kept : disk[p] = "part" =>
    p \in spoiled \/ \E a \in Importers : LastCopies(a, p)

\* Also while the conversion is at work, but for the page at hand.
MadePagesAreWhole ==
  \A a \in Actors : \A p \in made[a] \ hit[a] :
    disk[p] = "full" \/ (pc[a] = "render" /\ p = Page(page[a]))

FilesInv ==
  /\ TypeOK
  /\ NothingMade
  /\ UploadThere
  /\ PreviewThere
  /\ InvoiceFiles
  /\ PartsAreCopied
  /\ TempIsClean
  /\ MadePagesAreWhole

-------------------------------------------------------------------------------
(* Paths                                                                   *)

LEMMA PathsApart ==
  /\ \A u, n : Upload(u) # Page(n) /\ Preview(u) # Page(n)
  /\ \A u, v : Upload(u) # Preview(v)
  /\ \A u, v : Upload(u) = Upload(v) => u = v
  /\ \A u, v : Preview(u) = Preview(v) => u = v
BY DEF Upload, Preview, Page

LEMMA KeptAndPages ==
  /\ \A u \in Users : Upload(u) \in Kept /\ Preview(u) \in Kept
  /\ \A n \in 1 .. PageCount : Page(n) \in Pages
  /\ Kept \cap Pages = {}
  /\ Kept \subseteq Paths /\ Pages \subseteq Paths
  /\ \A p \in Kept : \E u \in Users : p = Upload(u) \/ p = Preview(u)
BY PathsApart DEF Kept, Pages, Paths

-------------------------------------------------------------------------------
(* Types                                                                   *)

FilesTyped ==
  /\ disk \in [Paths -> {"none", "part", "full"}]
  /\ known \subseteq Users /\ shown \subseteq known
  /\ hit \in [Actors -> SUBSET Paths]
  /\ left \subseteq Pages /\ spoiled \subseteq Kept

LocalsTyped ==
  /\ pc \in [Actors -> {"idle", "copy", "open", "create", "render", "preview",
                        "copy preview", "clean", "clean with preview", "insert",
                        "insert with preview", "ask"}]
  /\ own \in [Actors -> Users \cup {NoUser}]
  /\ page \in [Actors -> 1 .. PageCount]
  /\ made \in [Actors -> SUBSET Pages]
  /\ \A a \in Actors : pc[a] # "idle" => own[a] \in Users
  /\ \A a \in Actors : /\ pc[a] = "render" => Page(page[a]) \in made[a]
                       /\ pc[a] \in {"idle", "copy"} => made[a] = {}

LEMMA TypeParts == (TypeOK <=> FilesTyped /\ LocalsTyped)
                     /\ (TypeOK' <=> FilesTyped' /\ LocalsTyped')
BY DEF TypeOK, FilesTyped, LocalsTyped

LEMMA PageNumbers ==
  /\ 1 \in 1 .. PageCount
  /\ \A n \in 1 .. PageCount : n # PageCount => n + 1 \in 1 .. PageCount
BY FilesAssumption

LEMMA PageStaysTyped ==
  ASSUME page \in [Actors -> 1 .. PageCount], NEW a \in Actors,
         \/ page' = page
         \/ page' = [page EXCEPT ![a] = 1]
         \/ page[a] # PageCount /\ page' = [page EXCEPT ![a] = page[a] + 1]
  PROVE  page' \in [Actors -> 1 .. PageCount]
<1>. DEFINE N == 1 .. PageCount
<1>1. 1 \in N /\ (page[a] # PageCount => page[a] + 1 \in N)
  BY PageNumbers
<1>2. page \in [Actors -> N]
  OBVIOUS
<1>. HIDE DEF N
<1>3. page' \in [Actors -> N]
  BY <1>1, <1>2
<1>. QED
  BY <1>3 DEF N

\* What the histories and the disk may become.
LEMMA FileTypes ==
  ASSUME FilesTyped
  PROVE  /\ \A a \in Actors, P \in SUBSET Paths :
              Touch(a, P) => hit' \in [Actors -> SUBSET Paths]
         /\ \A a \in Actors : \A P : Forget(a, P) => hit' \in [Actors -> SUBSET Paths]
         /\ \A a \in Actors, p \in Paths :
              /\ Create(a, p) => /\ disk' \in [Paths -> {"none", "part", "full"}]
                                 /\ hit' \in [Actors -> SUBSET Paths]
              /\ Written(a, p) => disk' \in [Paths -> {"none", "part", "full"}]
         /\ \A a \in Actors, P \in SUBSET Paths :
              Remove(a, P) => /\ disk' \in [Paths -> {"none", "part", "full"}]
                              /\ hit' \in [Actors -> SUBSET Paths]
                              /\ left' \subseteq left
<1>1. \A a \in Actors, P \in SUBSET Paths :
        Touch(a, P) => hit' \in [Actors -> SUBSET Paths]
  BY DEF FilesTyped, Touch
<1>2. \A a \in Actors : \A P : Forget(a, P) => hit' \in [Actors -> SUBSET Paths]
  BY DEF FilesTyped, Forget
<1>3. \A a \in Actors, p \in Paths :
        Written(a, p) => disk' \in [Paths -> {"none", "part", "full"}]
  BY DEF FilesTyped, Written
<1>4. \A a \in Actors, p \in Paths :
        Create(a, p) => disk' \in [Paths -> {"none", "part", "full"}]
  BY DEF FilesTyped, Create
<1>5. \A a \in Actors, P \in SUBSET Paths :
        Remove(a, P) => disk' \in [Paths -> {"none", "part", "full"}] /\ left' \subseteq left
  BY DEF FilesTyped, Remove
<1>. QED
  BY <1>1, <1>2, <1>3, <1>4, <1>5 DEF Create, Remove

-------------------------------------------------------------------------------
(* Steps                                                                   *)

\* The actions of imports and workers, one by one.
LEMMA NextCases ==
  ASSUME Next
  PROVE  \/ \E a \in Importers, u \in Users : ImportSave(a, u)
         \/ \E a \in Importers : ImportCopied(a)
         \/ \E a \in Importers : SaveBreaksOff(a)
         \/ \E a \in Importers : ImportInsert(a)
         \/ \E a \in Workers, u \in Users : WorkerBegin(a, u)
         \/ \E a \in Actors : Open(a)
         \/ \E a \in Actors : CreatePage(a)
         \/ \E a \in Actors : RenderPage(a)
         \/ \E a \in Actors : ConversionFails(a)
         \/ \E a \in Importers : PreviewSave(a)
         \/ \E a \in Importers : PreviewCopied(a)
         \/ \E a \in Importers : NoPreview(a)
         \/ \E a \in Importers : ImportClean(a)
         \/ \E a \in Workers : WorkerClean(a)
         \/ \E a \in Actors : Dies(a)
BY DEF Next, Import, Work, Convert, Actors

\* Type correctness is inductive.
LEMMA TypeStep ==
  ASSUME TypeOK, [Next]_vars
  PROVE  TypeOK'
<1>. FilesTyped /\ LocalsTyped
  BY TypeParts
<1>. SUFFICES FilesTyped' /\ LocalsTyped'
  BY TypeParts
<1>. USE FilesAssumption, KeptAndPages DEF Actors
<1>1. ASSUME NEW a \in Importers, NEW u \in Users, ImportSave(a, u)
       PROVE  FilesTyped' /\ LocalsTyped'
  <2>1. LocalsTyped'
    BY <1>1 DEF LocalsTyped, ImportSave, Go
  <2>2. FilesTyped'
    BY <1>1, FileTypes DEF FilesTyped, LocalsTyped, ImportSave
  <2>. QED
    BY <2>1, <2>2
<1>2. ASSUME NEW a \in Importers, ImportCopied(a)
       PROVE  FilesTyped' /\ LocalsTyped'
  <2>1. LocalsTyped'
    BY <1>2 DEF LocalsTyped, ImportCopied, Go
  <2>2. FilesTyped'
    BY <1>2, FileTypes DEF FilesTyped, LocalsTyped, ImportCopied
  <2>. QED
    BY <2>1, <2>2
<1>3. ASSUME NEW a \in Importers, SaveBreaksOff(a)
       PROVE  FilesTyped' /\ LocalsTyped'
  <2>1. LocalsTyped'
    <3>1. /\ pc' \in [Actors -> {"idle", "copy", "open", "create", "render", "preview",
                        "copy preview", "clean", "clean with preview", "insert",
                        "insert with preview", "ask"}]
          /\ own' \in [Actors -> Users \cup {NoUser}]
      BY <1>3 DEF LocalsTyped, SaveBreaksOff, End, Go
    <3>2. page' \in [Actors -> 1 .. PageCount]
      <4>1. page' = page \/ page' = [page EXCEPT ![a] = 1]
        BY <1>3 DEF SaveBreaksOff, End, Go
      <4>. QED
        BY <4>1, PageStaysTyped DEF LocalsTyped
    <3>3. made' \in [Actors -> SUBSET Pages]
      BY <1>3 DEF LocalsTyped, SaveBreaksOff, End, Go
    <3>4. \A b \in Actors : pc'[b] # "idle" => own'[b] \in Users
      BY <1>3 DEF LocalsTyped, SaveBreaksOff, End, Go
    <3>5. ASSUME NEW b \in Actors
          PROVE  /\ pc'[b] = "render" => Page(page'[b]) \in made'[b]
                 /\ pc'[b] \in {"idle", "copy"} => made'[b] = {}
      BY <1>3 DEF LocalsTyped, SaveBreaksOff, End, Go
    <3>. QED
      BY <3>1, <3>2, <3>3, <3>4, <3>5 DEF LocalsTyped
  <2>2. FilesTyped'
    BY ZenonT(60), <1>3, FileTypes DEF FilesTyped, LocalsTyped, SaveBreaksOff, End
  <2>. QED
    BY <2>1, <2>2
<1>4. ASSUME NEW a \in Importers, ImportInsert(a)
       PROVE  FilesTyped' /\ LocalsTyped'
  <2>1. LocalsTyped'
    <3>1. /\ pc' \in [Actors -> {"idle", "copy", "open", "create", "render", "preview",
                        "copy preview", "clean", "clean with preview", "insert",
                        "insert with preview", "ask"}]
          /\ own' \in [Actors -> Users \cup {NoUser}]
      BY <1>4 DEF LocalsTyped, ImportInsert, End, Go
    <3>2. page' \in [Actors -> 1 .. PageCount]
      <4>1. page' = page \/ page' = [page EXCEPT ![a] = 1]
        BY <1>4 DEF ImportInsert, End, Go
      <4>. QED
        BY <4>1, PageStaysTyped DEF LocalsTyped
    <3>3. made' \in [Actors -> SUBSET Pages]
      BY <1>4 DEF LocalsTyped, ImportInsert, End, Go
    <3>4. \A b \in Actors : pc'[b] # "idle" => own'[b] \in Users
      BY <1>4 DEF LocalsTyped, ImportInsert, End, Go
    <3>5. ASSUME NEW b \in Actors
          PROVE  /\ pc'[b] = "render" => Page(page'[b]) \in made'[b]
                 /\ pc'[b] \in {"idle", "copy"} => made'[b] = {}
      BY <1>4 DEF LocalsTyped, ImportInsert, End, Go
    <3>. QED
      BY <3>1, <3>2, <3>3, <3>4, <3>5 DEF LocalsTyped
  <2>2. FilesTyped'
    BY <1>4, FileTypes DEF FilesTyped, LocalsTyped, ImportInsert, End
  <2>. QED
    BY <2>1, <2>2
<1>5. ASSUME NEW a \in Workers, NEW u \in Users, WorkerBegin(a, u)
       PROVE  FilesTyped' /\ LocalsTyped'
  <2>1. LocalsTyped'
    BY <1>5 DEF LocalsTyped, WorkerBegin, Go
  <2>2. FilesTyped'
    BY <1>5, FileTypes DEF FilesTyped, LocalsTyped, WorkerBegin
  <2>. QED
    BY <2>1, <2>2
<1>6. ASSUME NEW a \in Actors, Open(a)
       PROVE  FilesTyped' /\ LocalsTyped'
  <2>1. LocalsTyped'
    BY <1>6 DEF LocalsTyped, Open, WithoutPages, Go
  <2>2. FilesTyped'
    BY <1>6, FileTypes DEF FilesTyped, LocalsTyped, Open
  <2>. QED
    BY <2>1, <2>2
<1>7. ASSUME NEW a \in Actors, CreatePage(a)
       PROVE  FilesTyped' /\ LocalsTyped'
  <2>1. LocalsTyped'
    BY <1>7 DEF LocalsTyped, CreatePage, Go
  <2>2. FilesTyped'
    BY <1>7, FileTypes DEF FilesTyped, LocalsTyped, CreatePage
  <2>. QED
    BY <2>1, <2>2
<1>8. ASSUME NEW a \in Actors, RenderPage(a)
       PROVE  FilesTyped' /\ LocalsTyped'
  <2>1. LocalsTyped'
    <3>1. /\ pc' \in [Actors -> {"idle", "copy", "open", "create", "render", "preview",
                        "copy preview", "clean", "clean with preview", "insert",
                        "insert with preview", "ask"}]
          /\ own' \in [Actors -> Users \cup {NoUser}]
      BY <1>8 DEF LocalsTyped, RenderPage, Go
    <3>2. page' \in [Actors -> 1 .. PageCount]
      <4>1. page' = page \/ page' = [page EXCEPT ![a] = 1]
             \/ (page[a] # PageCount /\ page' = [page EXCEPT ![a] = page[a] + 1])
        BY <1>8 DEF RenderPage, Go
      <4>. QED
        BY <4>1, PageStaysTyped DEF LocalsTyped
    <3>3. made' \in [Actors -> SUBSET Pages]
      BY <1>8 DEF LocalsTyped, RenderPage, Go
    <3>4. \A b \in Actors : pc'[b] # "idle" => own'[b] \in Users
      BY <1>8 DEF LocalsTyped, RenderPage, Go
    <3>5. ASSUME NEW b \in Actors
          PROVE  /\ pc'[b] = "render" => Page(page'[b]) \in made'[b]
                 /\ pc'[b] \in {"idle", "copy"} => made'[b] = {}
      BY <1>8 DEF LocalsTyped, RenderPage, Go
    <3>. QED
      BY <3>1, <3>2, <3>3, <3>4, <3>5 DEF LocalsTyped
  <2>2. FilesTyped'
    BY <1>8, FileTypes DEF FilesTyped, LocalsTyped, RenderPage
  <2>. QED
    BY <2>1, <2>2
<1>9. ASSUME NEW a \in Actors, ConversionFails(a)
       PROVE  FilesTyped' /\ LocalsTyped'
  <2>1. LocalsTyped'
    <3>1. /\ pc' \in [Actors -> {"idle", "copy", "open", "create", "render", "preview",
                        "copy preview", "clean", "clean with preview", "insert",
                        "insert with preview", "ask"}]
          /\ own' \in [Actors -> Users \cup {NoUser}]
      BY <1>9 DEF LocalsTyped, ConversionFails, WithoutPages, Go
    <3>2. page' \in [Actors -> 1 .. PageCount]
      <4>1. page' = page \/ page' = [page EXCEPT ![a] = 1]
        BY <1>9 DEF ConversionFails, WithoutPages, Go
      <4>. QED
        BY <4>1, PageStaysTyped DEF LocalsTyped
    <3>3. made' \in [Actors -> SUBSET Pages]
      BY <1>9 DEF LocalsTyped, ConversionFails, WithoutPages, Go
    <3>4. \A b \in Actors : pc'[b] # "idle" => own'[b] \in Users
      BY <1>9 DEF LocalsTyped, ConversionFails, WithoutPages, Go
    <3>5. ASSUME NEW b \in Actors
          PROVE  /\ pc'[b] = "render" => Page(page'[b]) \in made'[b]
                 /\ pc'[b] \in {"idle", "copy"} => made'[b] = {}
      BY <1>9 DEF LocalsTyped, ConversionFails, WithoutPages, Go
    <3>. QED
      BY <3>1, <3>2, <3>3, <3>4, <3>5 DEF LocalsTyped
  <2>2. FilesTyped'
    BY <1>9, FileTypes DEF FilesTyped, LocalsTyped, ConversionFails, Orphaned
  <2>. QED
    BY <2>1, <2>2
<1>10. ASSUME NEW a \in Importers, PreviewSave(a)
       PROVE  FilesTyped' /\ LocalsTyped'
  <2>1. LocalsTyped'
    BY <1>10 DEF LocalsTyped, PreviewSave, Go
  <2>2. FilesTyped'
    BY <1>10, FileTypes DEF FilesTyped, LocalsTyped, PreviewSave
  <2>. QED
    BY <2>1, <2>2
<1>11. ASSUME NEW a \in Importers, PreviewCopied(a)
       PROVE  FilesTyped' /\ LocalsTyped'
  <2>1. LocalsTyped'
    BY <1>11 DEF LocalsTyped, PreviewCopied, Go
  <2>2. own[a] \in Users /\ Preview(own[a]) \in Kept
    BY <1>11 DEF LocalsTyped, PreviewCopied
  <2>3. disk' \in [Paths -> {"none", "part", "full"}]
    BY <1>11, <2>2, FileTypes DEF FilesTyped, PreviewCopied
  <2>4. hit' \in [Actors -> SUBSET Paths]
    BY <1>11, FileTypes DEF PreviewCopied
  <2>5. spoiled' \subseteq Kept
    BY <1>11, <2>2 DEF FilesTyped, PreviewCopied
  <2>6. known' \subseteq Users /\ shown' \subseteq known' /\ left' \subseteq Pages
    BY <1>11 DEF FilesTyped, LocalsTyped, PreviewCopied
  <2>. QED
    BY <2>1, <2>3, <2>4, <2>5, <2>6 DEF FilesTyped
<1>12. ASSUME NEW a \in Importers, NoPreview(a)
       PROVE  FilesTyped' /\ LocalsTyped'
  <2>1. LocalsTyped'
    BY <1>12 DEF LocalsTyped, NoPreview, Go
  <2>2. own[a] \in Users /\ Preview(own[a]) \in Kept
    BY <1>12 DEF LocalsTyped, NoPreview
  <2>3. disk' \in [Paths -> {"none", "part", "full"}]
    BY <1>12, <2>2, FileTypes DEF FilesTyped, NoPreview
  <2>4. hit' \in [Actors -> SUBSET Paths]
    BY <1>12, FileTypes DEF NoPreview
  <2>5. spoiled' \subseteq Kept
    BY <1>12, <2>2 DEF FilesTyped, NoPreview
  <2>6. known' \subseteq Users /\ shown' \subseteq known' /\ left' \subseteq Pages
    BY <1>12 DEF FilesTyped, LocalsTyped, NoPreview
  <2>. QED
    BY <2>1, <2>3, <2>4, <2>5, <2>6 DEF FilesTyped
<1>13. ASSUME NEW a \in Importers, ImportClean(a)
       PROVE  FilesTyped' /\ LocalsTyped'
  <2>1. LocalsTyped'
    <3>1. /\ pc' \in [Actors -> {"idle", "copy", "open", "create", "render", "preview",
                        "copy preview", "clean", "clean with preview", "insert",
                        "insert with preview", "ask"}]
          /\ own' \in [Actors -> Users \cup {NoUser}]
      BY <1>13 DEF LocalsTyped, ImportClean, Go
    <3>2. page' \in [Actors -> 1 .. PageCount]
      <4>1. page' = page \/ page' = [page EXCEPT ![a] = 1]
        BY <1>13 DEF ImportClean, Go
      <4>. QED
        BY <4>1, PageStaysTyped DEF LocalsTyped
    <3>3. made' \in [Actors -> SUBSET Pages]
      BY <1>13 DEF LocalsTyped, ImportClean, Go
    <3>4. \A b \in Actors : pc'[b] # "idle" => own'[b] \in Users
      BY <1>13 DEF LocalsTyped, ImportClean, Go
    <3>5. ASSUME NEW b \in Actors
          PROVE  /\ pc'[b] = "render" => Page(page'[b]) \in made'[b]
                 /\ pc'[b] \in {"idle", "copy"} => made'[b] = {}
      BY <1>13 DEF LocalsTyped, ImportClean, Go
    <3>. QED
      BY <3>1, <3>2, <3>3, <3>4, <3>5 DEF LocalsTyped
  <2>2. FilesTyped'
    BY <1>13, FileTypes DEF FilesTyped, LocalsTyped, ImportClean
  <2>. QED
    BY <2>1, <2>2
<1>14. ASSUME NEW a \in Workers, WorkerClean(a)
       PROVE  FilesTyped' /\ LocalsTyped'
  <2>1. LocalsTyped'
    <3>1. /\ pc' \in [Actors -> {"idle", "copy", "open", "create", "render", "preview",
                        "copy preview", "clean", "clean with preview", "insert",
                        "insert with preview", "ask"}]
          /\ own' \in [Actors -> Users \cup {NoUser}]
      BY <1>14 DEF LocalsTyped, WorkerClean, End, Go
    <3>2. page' \in [Actors -> 1 .. PageCount]
      <4>1. page' = page \/ page' = [page EXCEPT ![a] = 1]
        BY <1>14 DEF WorkerClean, End, Go
      <4>. QED
        BY <4>1, PageStaysTyped DEF LocalsTyped
    <3>3. made' \in [Actors -> SUBSET Pages]
      BY <1>14 DEF LocalsTyped, WorkerClean, End, Go
    <3>4. \A b \in Actors : pc'[b] # "idle" => own'[b] \in Users
      BY <1>14 DEF LocalsTyped, WorkerClean, End, Go
    <3>5. ASSUME NEW b \in Actors
          PROVE  /\ pc'[b] = "render" => Page(page'[b]) \in made'[b]
                 /\ pc'[b] \in {"idle", "copy"} => made'[b] = {}
      BY <1>14 DEF LocalsTyped, WorkerClean, End, Go
    <3>. QED
      BY <3>1, <3>2, <3>3, <3>4, <3>5 DEF LocalsTyped
  <2>2. FilesTyped'
    BY <1>14, FileTypes DEF FilesTyped, LocalsTyped, WorkerClean, End
  <2>. QED
    BY <2>1, <2>2
<1>15. ASSUME NEW a \in Actors, Dies(a)
       PROVE  FilesTyped' /\ LocalsTyped'
  <2>1. LocalsTyped'
    <3>1. /\ pc' \in [Actors -> {"idle", "copy", "open", "create", "render", "preview",
                        "copy preview", "clean", "clean with preview", "insert",
                        "insert with preview", "ask"}]
          /\ own' \in [Actors -> Users \cup {NoUser}]
      BY <1>15 DEF LocalsTyped, Dies, End, Go
    <3>2. page' \in [Actors -> 1 .. PageCount]
      <4>1. page' = page \/ page' = [page EXCEPT ![a] = 1]
        BY <1>15 DEF Dies, End, Go
      <4>. QED
        BY <4>1, PageStaysTyped DEF LocalsTyped
    <3>3. made' \in [Actors -> SUBSET Pages]
      BY <1>15 DEF LocalsTyped, Dies, End, Go
    <3>4. \A b \in Actors : pc'[b] # "idle" => own'[b] \in Users
      BY <1>15 DEF LocalsTyped, Dies, End, Go
    <3>5. ASSUME NEW b \in Actors
          PROVE  /\ pc'[b] = "render" => Page(page'[b]) \in made'[b]
                 /\ pc'[b] \in {"idle", "copy"} => made'[b] = {}
      BY <1>15 DEF LocalsTyped, Dies, End, Go
    <3>. QED
      BY <3>1, <3>2, <3>3, <3>4, <3>5 DEF LocalsTyped
  <2>2. own[a] \in Users /\ Preview(own[a]) \in Kept
    BY <1>15 DEF LocalsTyped, Dies
  <2>3. disk' \in [Paths -> {"none", "part", "full"}]
    BY <1>15, <2>2, FileTypes DEF FilesTyped, Dies, Orphaned, End
  <2>4. hit' \in [Actors -> SUBSET Paths]
    BY <1>15, FileTypes DEF Dies, Orphaned, End
  <2>5. spoiled' \subseteq Kept
    BY <1>15, <2>2 DEF FilesTyped, Dies, Orphaned, End
  <2>6. known' \subseteq Users /\ shown' \subseteq known' /\ left' \subseteq Pages
    BY <1>15 DEF FilesTyped, LocalsTyped, Dies, Orphaned, End
  <2>. QED
    BY <2>1, <2>3, <2>4, <2>5, <2>6 DEF FilesTyped
<1>16. CASE UNCHANGED vars
  BY <1>16 DEF vars, actorVars, FilesTyped, LocalsTyped
<1>. QED
  BY NextCases, <1>1, <1>2, <1>3, <1>4, <1>5, <1>6, <1>7, <1>8, <1>9, <1>10,
     <1>11, <1>12, <1>13, <1>14, <1>15, <1>16

-------------------------------------------------------------------------------
(* What the operations on files do                                          *)

\* What they do become.
LEMMA CreateEffect ==
  ASSUME TypeOK, NEW a \in Actors, NEW p \in Paths, Create(a, p)
  PROVE  /\ disk'[p] = "part"
         /\ \A q \in Paths \ {p} : disk'[q] = disk[q]
         /\ hit'[a] = hit[a] \ {p}
         /\ \A b \in Actors \ {a} : hit'[b] = hit[b] \cup ({p} \cap Mine(b))
BY DEF TypeOK, Create, Touch

LEMMA WrittenEffect ==
  ASSUME TypeOK, NEW a \in Actors, NEW p \in Paths, Written(a, p)
  PROVE  /\ \A q \in Paths \ {p} : disk'[q] = disk[q]
         /\ p \notin hit[a] => disk'[p] = "full"
         /\ disk[p] # "part" /\ p \in hit[a] => disk'[p] = disk[p]
         /\ disk[p] = "part" => disk'[p] \in {"part", "full"}
BY DEF TypeOK, Written

LEMMA RemoveEffect ==
  ASSUME TypeOK, NEW a \in Actors, NEW P \in SUBSET Paths, Remove(a, P)
  PROVE  /\ \A q \in P : disk'[q] = "none"
         /\ \A q \in Paths \ P : disk'[q] = disk[q]
         /\ hit'[a] = hit[a] \ P
         /\ \A b \in Actors \ {a} : hit'[b] = hit[b] \cup (P \cap Mine(b))
         /\ left' = left \ P
BY DEF TypeOK, Remove, Touch

LEMMA ForgetEffect ==
  ASSUME TypeOK, NEW a \in Actors, NEW P, Forget(a, P)
  PROVE  /\ hit'[a] = hit[a] \ P
         /\ \A b \in Actors \ {a} : hit'[b] = hit[b]
BY DEF TypeOK, Forget

\* What the types say of an actor and of a path.
LEMMA TypeFacts ==
  ASSUME TypeOK
  PROVE  /\ DOMAIN pc = Actors /\ DOMAIN own = Actors /\ DOMAIN page = Actors
         /\ DOMAIN made = Actors /\ DOMAIN hit = Actors /\ DOMAIN disk = Paths
         /\ \A p \in Paths : disk[p] \in {"none", "part", "full"}
         /\ \A a \in Actors :
              /\ Page(page[a]) \in Pages
              /\ made[a] \in SUBSET Pages /\ made[a] \in SUBSET Paths
              /\ pc[a] # "idle" => /\ own[a] \in Users
                                   /\ Upload(own[a]) \in Kept /\ Preview(own[a]) \in Kept
              /\ pc[a] = "render" => Page(page[a]) \in made[a]
              /\ pc[a] \in {"idle", "copy"} => made[a] = {}
<1>1. /\ DOMAIN pc = Actors /\ DOMAIN own = Actors /\ DOMAIN page = Actors
      /\ DOMAIN made = Actors /\ DOMAIN hit = Actors /\ DOMAIN disk = Paths
  BY DEF TypeOK
<1>2. \A p \in Paths : disk[p] \in {"none", "part", "full"}
  BY DEF TypeOK
<1>3. ASSUME NEW a \in Actors
      PROVE  Page(page[a]) \in Pages
  <2>1. page[a] \in 1 .. PageCount
    BY DEF TypeOK
  <2>. QED
    BY <2>1, KeptAndPages
<1>4. ASSUME NEW a \in Actors
      PROVE  /\ made[a] \in SUBSET Pages /\ made[a] \in SUBSET Paths
             /\ pc[a] # "idle" => /\ own[a] \in Users
                                  /\ Upload(own[a]) \in Kept /\ Preview(own[a]) \in Kept
             /\ pc[a] = "render" => Page(page[a]) \in made[a]
             /\ pc[a] \in {"idle", "copy"} => made[a] = {}
  BY KeptAndPages DEF TypeOK
<1>. QED
  BY <1>1, <1>2, <1>3, <1>4

\* The same cases, each with an actor.
LEMMA NextSteps ==
  ASSUME [Next]_vars
  PROVE  \/ \E a \in Actors :
              \/ a \in Importers /\ \E u \in Users : ImportSave(a, u)
              \/ a \in Importers /\ ImportCopied(a)
              \/ a \in Importers /\ SaveBreaksOff(a)
              \/ a \in Importers /\ ImportInsert(a)
              \/ a \in Workers /\ \E u \in Users : WorkerBegin(a, u)
              \/ Open(a)
              \/ CreatePage(a)
              \/ RenderPage(a)
              \/ ConversionFails(a)
              \/ a \in Importers /\ PreviewSave(a)
              \/ a \in Importers /\ PreviewCopied(a)
              \/ a \in Importers /\ NoPreview(a)
              \/ a \in Importers /\ ImportClean(a)
              \/ a \in Workers /\ WorkerClean(a)
              \/ Dies(a)
         \/ UNCHANGED vars
BY NextCases DEF Actors

-------------------------------------------------------------------------------
(* What a step does to a file, a page or an actor                            *)

\* A file that is kept never disappears.
LEMMA KeptStays ==
  ASSUME TypeOK, NEW p \in Kept, disk[p] # "none", [Next]_vars
  PROVE  disk'[p] # "none"
<1>1. ASSUME NEW a \in Actors, a \in Importers, NEW u \in Users, ImportSave(a, u)
      PROVE  disk'[p] # "none"
  BY <1>1, TypeFacts, KeptAndPages, CreateEffect DEF ImportSave, Go
<1>2. ASSUME NEW a \in Actors, a \in Importers, ImportCopied(a)
      PROVE  disk'[p] # "none"
  BY <1>2, TypeFacts, KeptAndPages, WrittenEffect, ForgetEffect DEF
     ImportCopied, Go
<1>3. ASSUME NEW a \in Actors, a \in Importers, SaveBreaksOff(a)
      PROVE  disk'[p] # "none"
  BY <1>3, TypeFacts, KeptAndPages, ForgetEffect DEF SaveBreaksOff, End, Go
<1>4. ASSUME NEW a \in Actors, a \in Importers, ImportInsert(a)
      PROVE  disk'[p] # "none"
  BY <1>4, TypeFacts, KeptAndPages, ForgetEffect DEF ImportInsert, End, Go
<1>5. ASSUME NEW a \in Actors, NEW u \in Users, WorkerBegin(a, u)
      PROVE  disk'[p] # "none"
  BY <1>5, TypeFacts, KeptAndPages DEF WorkerBegin, Go
<1>6. ASSUME NEW a \in Actors, Open(a)
      PROVE  disk'[p] # "none"
  BY <1>6, TypeFacts, KeptAndPages DEF Open, WithoutPages, Go
<1>7. ASSUME NEW a \in Actors, CreatePage(a)
      PROVE  disk'[p] # "none"
  BY <1>7, TypeFacts, KeptAndPages, CreateEffect DEF CreatePage, Go
<1>8. ASSUME NEW a \in Actors, RenderPage(a)
      PROVE  disk'[p] # "none"
  BY <1>8, TypeFacts, KeptAndPages, WrittenEffect DEF RenderPage, Go
<1>9. ASSUME NEW a \in Actors, ConversionFails(a)
      PROVE  disk'[p] # "none"
  BY <1>9, TypeFacts, KeptAndPages, ForgetEffect DEF ConversionFails,
     WithoutPages, Orphaned, Go
<1>10. ASSUME NEW a \in Actors, a \in Importers, PreviewSave(a)
       PROVE  disk'[p] # "none"
  BY <1>10, TypeFacts, KeptAndPages, CreateEffect DEF PreviewSave, Go
<1>11. ASSUME NEW a \in Actors, a \in Importers, PreviewCopied(a)
       PROVE  disk'[p] # "none"
  BY <1>11, TypeFacts, KeptAndPages, WrittenEffect, ForgetEffect DEF
     PreviewCopied, Go
<1>12. ASSUME NEW a \in Actors, a \in Importers, NoPreview(a)
       PROVE  disk'[p] # "none"
  BY <1>12, TypeFacts, KeptAndPages, ForgetEffect DEF NoPreview, Go
<1>13. ASSUME NEW a \in Actors, a \in Importers, ImportClean(a)
       PROVE  disk'[p] # "none"
  <2>1. p \in Paths \ made[a] /\ Remove(a, made[a])
    BY <1>13, TypeFacts, KeptAndPages DEF ImportClean
  <2>. QED
    BY <2>1, TypeFacts, RemoveEffect
<1>14. ASSUME NEW a \in Actors, WorkerClean(a)
       PROVE  disk'[p] # "none"
  <2>1. p \in Paths \ made[a] /\ Remove(a, made[a])
    BY <1>14, TypeFacts, KeptAndPages DEF WorkerClean
  <2>. QED
    BY <2>1, TypeFacts, RemoveEffect
<1>15. ASSUME NEW a \in Actors, Dies(a)
       PROVE  disk'[p] # "none"
  BY <1>15, TypeFacts, KeptAndPages, ForgetEffect DEF Dies, Orphaned, End, Go
<1>16. CASE UNCHANGED vars
  BY <1>16 DEF vars, actorVars
<1>. QED
  BY NextSteps, <1>1, <1>2, <1>3, <1>4, <1>5, <1>6, <1>7, <1>8, <1>9, <1>10,
     <1>11, <1>12, <1>13, <1>14, <1>15, <1>16


\* Pages are handed over and removed before the row is inserted.
LEMMA MadeStep ==
  ASSUME TypeOK, NothingMade, NEW b \in Actors,
         pc'[b] \in {"idle", "copy", "open", "insert", "insert with preview"}, [Next]_vars
  PROVE  made'[b] = {}
<1>1. ASSUME NEW a \in Actors, a \in Importers, NEW u \in Users, ImportSave(a, u)
      PROVE  made'[b] = {}
  BY <1>1, TypeFacts DEF ImportSave, Go, NothingMade
<1>2. ASSUME NEW a \in Actors, a \in Importers, ImportCopied(a)
      PROVE  made'[b] = {}
  BY <1>2, TypeFacts DEF ImportCopied, Go, NothingMade
<1>3. ASSUME NEW a \in Actors, a \in Importers, SaveBreaksOff(a)
      PROVE  made'[b] = {}
  BY <1>3, TypeFacts DEF SaveBreaksOff, End, Go, NothingMade
<1>4. ASSUME NEW a \in Actors, a \in Importers, ImportInsert(a)
      PROVE  made'[b] = {}
  BY <1>4, TypeFacts DEF ImportInsert, End, Go, NothingMade
<1>5. ASSUME NEW a \in Actors, NEW u \in Users, WorkerBegin(a, u)
      PROVE  made'[b] = {}
  BY <1>5, TypeFacts DEF WorkerBegin, Go, NothingMade
<1>6. ASSUME NEW a \in Actors, Open(a)
      PROVE  made'[b] = {}
  BY <1>6, TypeFacts DEF Open, WithoutPages, Go, NothingMade
<1>7. ASSUME NEW a \in Actors, CreatePage(a)
      PROVE  made'[b] = {}
  BY <1>7, TypeFacts DEF CreatePage, Go, NothingMade
<1>8. ASSUME NEW a \in Actors, RenderPage(a)
      PROVE  made'[b] = {}
  BY <1>8, TypeFacts DEF RenderPage, Go, NothingMade
<1>9. ASSUME NEW a \in Actors, ConversionFails(a)
      PROVE  made'[b] = {}
  BY <1>9, TypeFacts DEF ConversionFails, WithoutPages, Orphaned, Go, NothingMade
<1>10. ASSUME NEW a \in Actors, a \in Importers, PreviewSave(a)
       PROVE  made'[b] = {}
  BY <1>10, TypeFacts DEF PreviewSave, Go, NothingMade
<1>11. ASSUME NEW a \in Actors, a \in Importers, PreviewCopied(a)
       PROVE  made'[b] = {}
  BY <1>11, TypeFacts DEF PreviewCopied, Go, NothingMade
<1>12. ASSUME NEW a \in Actors, a \in Importers, NoPreview(a)
       PROVE  made'[b] = {}
  BY <1>12, TypeFacts DEF NoPreview, Go, NothingMade
<1>13. ASSUME NEW a \in Actors, a \in Importers, ImportClean(a)
       PROVE  made'[b] = {}
  BY <1>13, TypeFacts DEF ImportClean, Go, NothingMade
<1>14. ASSUME NEW a \in Actors, WorkerClean(a)
       PROVE  made'[b] = {}
  BY <1>14, TypeFacts DEF WorkerClean, End, Go, NothingMade
<1>15. ASSUME NEW a \in Actors, Dies(a)
       PROVE  made'[b] = {}
  BY <1>15, TypeFacts DEF Dies, Orphaned, End, Go, NothingMade
<1>16. CASE UNCHANGED vars
  BY <1>16 DEF vars, actorVars, NothingMade
<1>. QED
  BY NextSteps, <1>1, <1>2, <1>3, <1>4, <1>5, <1>6, <1>7, <1>8, <1>9, <1>10,
     <1>11, <1>12, <1>13, <1>14, <1>15, <1>16


\* An actor works on an upload that is there.
LEMMA UploadStep ==
  ASSUME TypeOK, UploadThere, InvoiceFiles, NEW b \in Actors, pc'[b] # "idle", [Next]_vars
  PROVE  disk'[Upload(own'[b])] # "none"
<1>1. ASSUME NEW a \in Actors, a \in Importers, NEW u \in Users, ImportSave(a, u)
      PROVE  disk'[Upload(own'[b])] # "none"
  BY <1>1, TypeFacts, KeptAndPages, KeptStays, CreateEffect DEF ImportSave, Go,
     UploadThere, InvoiceFiles
<1>2. ASSUME NEW a \in Actors, a \in Importers, ImportCopied(a)
      PROVE  disk'[Upload(own'[b])] # "none"
  BY <1>2, TypeFacts, KeptAndPages, KeptStays, WrittenEffect, ForgetEffect DEF
     ImportCopied, Go, UploadThere, InvoiceFiles
<1>3. ASSUME NEW a \in Actors, a \in Importers, SaveBreaksOff(a)
      PROVE  disk'[Upload(own'[b])] # "none"
  BY <1>3, TypeFacts, KeptAndPages, KeptStays, ForgetEffect DEF SaveBreaksOff,
     End, Go, UploadThere, InvoiceFiles
<1>4. ASSUME NEW a \in Actors, a \in Importers, ImportInsert(a)
      PROVE  disk'[Upload(own'[b])] # "none"
  BY <1>4, TypeFacts, KeptAndPages, KeptStays, ForgetEffect DEF ImportInsert,
     End, Go, UploadThere, InvoiceFiles
<1>5. ASSUME NEW a \in Actors, NEW u \in Users, WorkerBegin(a, u)
      PROVE  disk'[Upload(own'[b])] # "none"
  BY <1>5, TypeFacts, KeptAndPages, KeptStays DEF WorkerBegin, Go, UploadThere,
     InvoiceFiles
<1>6. ASSUME NEW a \in Actors, Open(a)
      PROVE  disk'[Upload(own'[b])] # "none"
  BY <1>6, TypeFacts, KeptAndPages, KeptStays DEF Open, WithoutPages, Go,
     UploadThere, InvoiceFiles
<1>7. ASSUME NEW a \in Actors, CreatePage(a)
      PROVE  disk'[Upload(own'[b])] # "none"
  BY <1>7, TypeFacts, KeptAndPages, KeptStays, CreateEffect DEF CreatePage, Go,
     UploadThere, InvoiceFiles
<1>8. ASSUME NEW a \in Actors, RenderPage(a)
      PROVE  disk'[Upload(own'[b])] # "none"
  BY <1>8, TypeFacts, KeptAndPages, KeptStays, WrittenEffect DEF RenderPage, Go,
     UploadThere, InvoiceFiles
<1>9. ASSUME NEW a \in Actors, ConversionFails(a)
      PROVE  disk'[Upload(own'[b])] # "none"
  BY <1>9, TypeFacts, KeptAndPages, KeptStays, ForgetEffect DEF ConversionFails,
     WithoutPages, Orphaned, Go, UploadThere, InvoiceFiles
<1>10. ASSUME NEW a \in Actors, a \in Importers, PreviewSave(a)
       PROVE  disk'[Upload(own'[b])] # "none"
  BY <1>10, TypeFacts, KeptAndPages, KeptStays, CreateEffect DEF PreviewSave,
     Go, UploadThere, InvoiceFiles
<1>11. ASSUME NEW a \in Actors, a \in Importers, PreviewCopied(a)
       PROVE  disk'[Upload(own'[b])] # "none"
  BY <1>11, TypeFacts, KeptAndPages, KeptStays, WrittenEffect, ForgetEffect DEF
     PreviewCopied, Go, UploadThere, InvoiceFiles
<1>12. ASSUME NEW a \in Actors, a \in Importers, NoPreview(a)
       PROVE  disk'[Upload(own'[b])] # "none"
  BY <1>12, TypeFacts, KeptAndPages, KeptStays, ForgetEffect DEF NoPreview, Go,
     UploadThere, InvoiceFiles
<1>13. ASSUME NEW a \in Actors, a \in Importers, ImportClean(a)
       PROVE  disk'[Upload(own'[b])] # "none"
  BY <1>13, TypeFacts, KeptAndPages, KeptStays, RemoveEffect DEF ImportClean,
     Go, UploadThere, InvoiceFiles
<1>14. ASSUME NEW a \in Actors, WorkerClean(a)
       PROVE  disk'[Upload(own'[b])] # "none"
  BY <1>14, TypeFacts, KeptAndPages, KeptStays, RemoveEffect DEF WorkerClean,
     End, Go, UploadThere, InvoiceFiles
<1>15. ASSUME NEW a \in Actors, Dies(a)
       PROVE  disk'[Upload(own'[b])] # "none"
  BY <1>15, TypeFacts, KeptAndPages, KeptStays, ForgetEffect DEF Dies, Orphaned,
     End, Go, UploadThere, InvoiceFiles
<1>16. CASE UNCHANGED vars
  BY <1>16 DEF vars, actorVars, UploadThere, InvoiceFiles
<1>. QED
  BY NextSteps, <1>1, <1>2, <1>3, <1>4, <1>5, <1>6, <1>7, <1>8, <1>9, <1>10,
     <1>11, <1>12, <1>13, <1>14, <1>15, <1>16


\* An import that has saved a preview finds it.
LEMMA PreviewStep ==
  ASSUME TypeOK, PreviewThere, NEW b \in Actors,
         pc'[b] \in {"copy preview", "clean with preview", "insert with preview"}, [Next]_vars
  PROVE  disk'[Preview(own'[b])] # "none"
<1>1. ASSUME NEW a \in Actors, a \in Importers, NEW u \in Users, ImportSave(a, u)
      PROVE  disk'[Preview(own'[b])] # "none"
  BY <1>1, TypeFacts, KeptAndPages, KeptStays, CreateEffect DEF ImportSave, Go,
     PreviewThere
<1>2. ASSUME NEW a \in Actors, a \in Importers, ImportCopied(a)
      PROVE  disk'[Preview(own'[b])] # "none"
  BY <1>2, TypeFacts, KeptAndPages, KeptStays, WrittenEffect, ForgetEffect DEF
     ImportCopied, Go, PreviewThere
<1>3. ASSUME NEW a \in Actors, a \in Importers, SaveBreaksOff(a)
      PROVE  disk'[Preview(own'[b])] # "none"
  BY <1>3, TypeFacts, KeptAndPages, KeptStays, ForgetEffect DEF SaveBreaksOff,
     End, Go, PreviewThere
<1>4. ASSUME NEW a \in Actors, a \in Importers, ImportInsert(a)
      PROVE  disk'[Preview(own'[b])] # "none"
  BY <1>4, TypeFacts, KeptAndPages, KeptStays, ForgetEffect DEF ImportInsert,
     End, Go, PreviewThere
<1>5. ASSUME NEW a \in Actors, NEW u \in Users, WorkerBegin(a, u)
      PROVE  disk'[Preview(own'[b])] # "none"
  BY <1>5, TypeFacts, KeptAndPages, KeptStays DEF WorkerBegin, Go, PreviewThere
<1>6. ASSUME NEW a \in Actors, Open(a)
      PROVE  disk'[Preview(own'[b])] # "none"
  BY <1>6, TypeFacts, KeptAndPages, KeptStays DEF Open, WithoutPages, Go,
     PreviewThere
<1>7. ASSUME NEW a \in Actors, CreatePage(a)
      PROVE  disk'[Preview(own'[b])] # "none"
  BY <1>7, TypeFacts, KeptAndPages, KeptStays, CreateEffect DEF CreatePage, Go,
     PreviewThere
<1>8. ASSUME NEW a \in Actors, RenderPage(a)
      PROVE  disk'[Preview(own'[b])] # "none"
  BY ZenonT(60), <1>8, TypeFacts, KeptAndPages, KeptStays, WrittenEffect DEF RenderPage, Go,
     PreviewThere
<1>9. ASSUME NEW a \in Actors, ConversionFails(a)
      PROVE  disk'[Preview(own'[b])] # "none"
  BY <1>9, TypeFacts, KeptAndPages, KeptStays, ForgetEffect DEF ConversionFails,
     WithoutPages, Orphaned, Go, PreviewThere
<1>10. ASSUME NEW a \in Actors, a \in Importers, PreviewSave(a)
       PROVE  disk'[Preview(own'[b])] # "none"
  BY <1>10, TypeFacts, KeptAndPages, KeptStays, CreateEffect DEF PreviewSave,
     Go, PreviewThere
<1>11. ASSUME NEW a \in Actors, a \in Importers, PreviewCopied(a)
       PROVE  disk'[Preview(own'[b])] # "none"
  BY ZenonT(60), <1>11, TypeFacts, KeptAndPages, KeptStays, WrittenEffect, ForgetEffect DEF
     PreviewCopied, Go, PreviewThere
<1>12. ASSUME NEW a \in Actors, a \in Importers, NoPreview(a)
       PROVE  disk'[Preview(own'[b])] # "none"
  BY <1>12, TypeFacts, KeptAndPages, KeptStays, ForgetEffect DEF NoPreview, Go,
     PreviewThere
<1>13. ASSUME NEW a \in Actors, a \in Importers, ImportClean(a)
       PROVE  disk'[Preview(own'[b])] # "none"
  BY <1>13, TypeFacts, KeptAndPages, KeptStays, RemoveEffect DEF ImportClean,
     Go, PreviewThere
<1>14. ASSUME NEW a \in Actors, WorkerClean(a)
       PROVE  disk'[Preview(own'[b])] # "none"
  BY <1>14, TypeFacts, KeptAndPages, KeptStays, RemoveEffect DEF WorkerClean,
     End, Go, PreviewThere
<1>15. ASSUME NEW a \in Actors, Dies(a)
       PROVE  disk'[Preview(own'[b])] # "none"
  BY <1>15, TypeFacts, KeptAndPages, KeptStays, ForgetEffect DEF Dies, Orphaned,
     End, Go, PreviewThere
<1>16. CASE UNCHANGED vars
  BY <1>16 DEF vars, actorVars, PreviewThere
<1>. QED
  BY NextSteps, <1>1, <1>2, <1>3, <1>4, <1>5, <1>6, <1>7, <1>8, <1>9, <1>10,
     <1>11, <1>12, <1>13, <1>14, <1>15, <1>16


\* A row names files that are there.
LEMMA RowsStep ==
  ASSUME TypeOK, UploadThere, PreviewThere, [Next]_vars
  PROVE  /\ \A v \in known' \ known : v \in Users /\ disk[Upload(v)] # "none"
         /\ \A v \in shown' \ shown : v \in Users /\ disk[Preview(v)] # "none"
<1>1. ASSUME NEW a \in Actors, a \in Importers, NEW u \in Users, ImportSave(a, u)
      PROVE  /\ \A v \in known' \ known : v \in Users /\ disk[Upload(v)] # "none"
             /\ \A v \in shown' \ shown : v \in Users /\ disk[Preview(v)] # "none"
  BY <1>1, TypeFacts DEF ImportSave, Go, UploadThere, PreviewThere
<1>2. ASSUME NEW a \in Actors, a \in Importers, ImportCopied(a)
      PROVE  /\ \A v \in known' \ known : v \in Users /\ disk[Upload(v)] # "none"
             /\ \A v \in shown' \ shown : v \in Users /\ disk[Preview(v)] # "none"
  BY <1>2, TypeFacts DEF ImportCopied, Go, UploadThere, PreviewThere
<1>3. ASSUME NEW a \in Actors, a \in Importers, SaveBreaksOff(a)
      PROVE  /\ \A v \in known' \ known : v \in Users /\ disk[Upload(v)] # "none"
             /\ \A v \in shown' \ shown : v \in Users /\ disk[Preview(v)] # "none"
  BY <1>3, TypeFacts DEF SaveBreaksOff, End, Go, UploadThere, PreviewThere
<1>4. ASSUME NEW a \in Actors, a \in Importers, ImportInsert(a)
      PROVE  /\ \A v \in known' \ known : v \in Users /\ disk[Upload(v)] # "none"
             /\ \A v \in shown' \ shown : v \in Users /\ disk[Preview(v)] # "none"
  BY <1>4, TypeFacts DEF ImportInsert, End, Go, UploadThere, PreviewThere
<1>5. ASSUME NEW a \in Actors, NEW u \in Users, WorkerBegin(a, u)
      PROVE  /\ \A v \in known' \ known : v \in Users /\ disk[Upload(v)] # "none"
             /\ \A v \in shown' \ shown : v \in Users /\ disk[Preview(v)] # "none"
  BY <1>5, TypeFacts DEF WorkerBegin, Go, UploadThere, PreviewThere
<1>6. ASSUME NEW a \in Actors, Open(a)
      PROVE  /\ \A v \in known' \ known : v \in Users /\ disk[Upload(v)] # "none"
             /\ \A v \in shown' \ shown : v \in Users /\ disk[Preview(v)] # "none"
  BY <1>6, TypeFacts DEF Open, WithoutPages, Go, UploadThere, PreviewThere
<1>7. ASSUME NEW a \in Actors, CreatePage(a)
      PROVE  /\ \A v \in known' \ known : v \in Users /\ disk[Upload(v)] # "none"
             /\ \A v \in shown' \ shown : v \in Users /\ disk[Preview(v)] # "none"
  BY <1>7, TypeFacts DEF CreatePage, Go, UploadThere, PreviewThere
<1>8. ASSUME NEW a \in Actors, RenderPage(a)
      PROVE  /\ \A v \in known' \ known : v \in Users /\ disk[Upload(v)] # "none"
             /\ \A v \in shown' \ shown : v \in Users /\ disk[Preview(v)] # "none"
  BY <1>8, TypeFacts DEF RenderPage, Go, UploadThere, PreviewThere
<1>9. ASSUME NEW a \in Actors, ConversionFails(a)
      PROVE  /\ \A v \in known' \ known : v \in Users /\ disk[Upload(v)] # "none"
             /\ \A v \in shown' \ shown : v \in Users /\ disk[Preview(v)] # "none"
  BY <1>9, TypeFacts DEF ConversionFails, WithoutPages, Orphaned, Go,
     UploadThere, PreviewThere
<1>10. ASSUME NEW a \in Actors, a \in Importers, PreviewSave(a)
       PROVE  /\ \A v \in known' \ known : v \in Users /\ disk[Upload(v)] # "none"
              /\ \A v \in shown' \ shown : v \in Users /\ disk[Preview(v)] # "none"
  BY <1>10, TypeFacts DEF PreviewSave, Go, UploadThere, PreviewThere
<1>11. ASSUME NEW a \in Actors, a \in Importers, PreviewCopied(a)
       PROVE  /\ \A v \in known' \ known : v \in Users /\ disk[Upload(v)] # "none"
              /\ \A v \in shown' \ shown : v \in Users /\ disk[Preview(v)] # "none"
  BY <1>11, TypeFacts DEF PreviewCopied, Go, UploadThere, PreviewThere
<1>12. ASSUME NEW a \in Actors, a \in Importers, NoPreview(a)
       PROVE  /\ \A v \in known' \ known : v \in Users /\ disk[Upload(v)] # "none"
              /\ \A v \in shown' \ shown : v \in Users /\ disk[Preview(v)] # "none"
  BY <1>12, TypeFacts DEF NoPreview, Go, UploadThere, PreviewThere
<1>13. ASSUME NEW a \in Actors, a \in Importers, ImportClean(a)
       PROVE  /\ \A v \in known' \ known : v \in Users /\ disk[Upload(v)] # "none"
              /\ \A v \in shown' \ shown : v \in Users /\ disk[Preview(v)] # "none"
  BY <1>13, TypeFacts DEF ImportClean, Go, UploadThere, PreviewThere
<1>14. ASSUME NEW a \in Actors, WorkerClean(a)
       PROVE  /\ \A v \in known' \ known : v \in Users /\ disk[Upload(v)] # "none"
              /\ \A v \in shown' \ shown : v \in Users /\ disk[Preview(v)] # "none"
  BY <1>14, TypeFacts DEF WorkerClean, End, Go, UploadThere, PreviewThere
<1>15. ASSUME NEW a \in Actors, Dies(a)
       PROVE  /\ \A v \in known' \ known : v \in Users /\ disk[Upload(v)] # "none"
              /\ \A v \in shown' \ shown : v \in Users /\ disk[Preview(v)] # "none"
  BY <1>15, TypeFacts DEF Dies, Orphaned, End, Go, UploadThere, PreviewThere
<1>16. CASE UNCHANGED vars
  BY <1>16 DEF vars, actorVars, UploadThere, PreviewThere
<1>. QED
  BY NextSteps, <1>1, <1>2, <1>3, <1>4, <1>5, <1>6, <1>7, <1>8, <1>9, <1>10,
     <1>11, <1>12, <1>13, <1>14, <1>15, <1>16


\* A part is there before, is noted, or somebody has just begun to copy it.
LEMMA PartIsNew ==
  ASSUME TypeOK, NEW p \in Kept, disk'[p] = "part", [Next]_vars
  PROVE  disk[p] = "part" \/ p \in spoiled' \/ \E c \in Importers : LastCopies(c, p)'
<1>1. ASSUME NEW a \in Actors, a \in Importers, NEW u \in Users, ImportSave(a, u)
      PROVE  disk[p] = "part" \/ p \in spoiled' \/ \E c \in Importers : LastCopies(c, p)'
  <2>1. Upload(u) \in Paths /\ Create(a, Upload(u))
    BY <1>1, TypeFacts, KeptAndPages DEF ImportSave
  <2>2. /\ disk'[Upload(u)] = "part"
        /\ \A q \in Paths \ {Upload(u)} : disk'[q] = disk[q]
        /\ hit'[a] = hit[a] \ {Upload(u)}
        /\ \A b \in Actors \ {a} : hit'[b] = hit[b] \cup ({Upload(u)} \cap Mine(b))
    BY <2>1, CreateEffect
  <2>3. CASE p = Upload(u)
    <3>1. LastCopies(a, p)'
      BY <1>1, <2>2, <2>3, TypeFacts DEF ImportSave, Go, LastCopies
    <3>. QED
      BY <1>1, <3>1
  <2>4. CASE p # Upload(u)
    BY <2>2, <2>4, KeptAndPages
  <2>. QED
    BY <2>3, <2>4
<1>2. ASSUME NEW a \in Actors, a \in Importers, ImportCopied(a)
      PROVE  disk[p] = "part" \/ p \in spoiled' \/ \E c \in Importers : LastCopies(c, p)'
  BY <1>2, TypeFacts, KeptAndPages, PathsApart, WrittenEffect, ForgetEffect DEF
     ImportCopied, Go, LastCopies
<1>3. ASSUME NEW a \in Actors, a \in Importers, SaveBreaksOff(a)
      PROVE  disk[p] = "part" \/ p \in spoiled' \/ \E c \in Importers : LastCopies(c, p)'
  BY <1>3, TypeFacts, KeptAndPages, PathsApart, ForgetEffect DEF SaveBreaksOff,
     End, Go, LastCopies
<1>4. ASSUME NEW a \in Actors, a \in Importers, ImportInsert(a)
      PROVE  disk[p] = "part" \/ p \in spoiled' \/ \E c \in Importers : LastCopies(c, p)'
  BY <1>4, TypeFacts, KeptAndPages, PathsApart, ForgetEffect DEF ImportInsert,
     End, Go, LastCopies
<1>5. ASSUME NEW a \in Actors, NEW u \in Users, WorkerBegin(a, u)
      PROVE  disk[p] = "part" \/ p \in spoiled' \/ \E c \in Importers : LastCopies(c, p)'
  BY <1>5, TypeFacts, KeptAndPages, PathsApart DEF WorkerBegin, Go, LastCopies
<1>6. ASSUME NEW a \in Actors, Open(a)
      PROVE  disk[p] = "part" \/ p \in spoiled' \/ \E c \in Importers : LastCopies(c, p)'
  BY <1>6, TypeFacts, KeptAndPages, PathsApart DEF Open, WithoutPages, Go,
     LastCopies
<1>7. ASSUME NEW a \in Actors, CreatePage(a)
      PROVE  disk[p] = "part" \/ p \in spoiled' \/ \E c \in Importers : LastCopies(c, p)'
  <2>1. Page(page[a]) \in Paths /\ Create(a, Page(page[a]))
    BY <1>7, TypeFacts, KeptAndPages DEF CreatePage
  <2>2. /\ disk'[Page(page[a])] = "part"
        /\ \A q \in Paths \ {Page(page[a])} : disk'[q] = disk[q]
        /\ hit'[a] = hit[a] \ {Page(page[a])}
        /\ \A b \in Actors \ {a} : hit'[b] = hit[b] \cup ({Page(page[a])} \cap Mine(b))
    BY <2>1, CreateEffect
  <2>. QED
    BY <2>2, TypeFacts, KeptAndPages
<1>8. ASSUME NEW a \in Actors, RenderPage(a)
      PROVE  disk[p] = "part" \/ p \in spoiled' \/ \E c \in Importers : LastCopies(c, p)'
  BY <1>8, TypeFacts, KeptAndPages, PathsApart, WrittenEffect DEF RenderPage,
     Go, LastCopies
<1>9. ASSUME NEW a \in Actors, ConversionFails(a)
      PROVE  disk[p] = "part" \/ p \in spoiled' \/ \E c \in Importers : LastCopies(c, p)'
  BY <1>9, TypeFacts, KeptAndPages, PathsApart, ForgetEffect DEF
     ConversionFails, WithoutPages, Orphaned, Go, LastCopies
<1>10. ASSUME NEW a \in Actors, a \in Importers, PreviewSave(a)
       PROVE  disk[p] = "part" \/ p \in spoiled' \/ \E c \in Importers : LastCopies(c, p)'
  <2>1. Preview(own[a]) \in Paths /\ Create(a, Preview(own[a]))
    BY <1>10, TypeFacts, KeptAndPages DEF PreviewSave
  <2>2. /\ disk'[Preview(own[a])] = "part"
        /\ \A q \in Paths \ {Preview(own[a])} : disk'[q] = disk[q]
        /\ hit'[a] = hit[a] \ {Preview(own[a])}
        /\ \A b \in Actors \ {a} : hit'[b] = hit[b] \cup ({Preview(own[a])} \cap Mine(b))
    BY <2>1, CreateEffect
  <2>3. CASE p = Preview(own[a])
    <3>1. LastCopies(a, p)'
      BY <1>10, <2>2, <2>3, TypeFacts DEF PreviewSave, Go, LastCopies
    <3>. QED
      BY <1>10, <3>1
  <2>4. CASE p # Preview(own[a])
    BY <2>2, <2>4, KeptAndPages
  <2>. QED
    BY <2>3, <2>4
<1>11. ASSUME NEW a \in Actors, a \in Importers, PreviewCopied(a)
       PROVE  disk[p] = "part" \/ p \in spoiled' \/ \E c \in Importers : LastCopies(c, p)'
  <2>1. pc[a] # "idle" /\ Preview(own[a]) \in Kept
    BY <1>11, TypeFacts DEF PreviewCopied
  <2>2. CASE p # Preview(own[a])
    BY <1>11, <2>1, <2>2, TypeFacts, KeptAndPages, WrittenEffect DEF PreviewCopied
  <2>3. CASE p = Preview(own[a])
    <3>. QED
      BY <1>11, <2>1, <2>3, TypeFacts, KeptAndPages, WrittenEffect DEF
         PreviewCopied
  <2>. QED
    BY <2>2, <2>3
<1>12. ASSUME NEW a \in Actors, a \in Importers, NoPreview(a)
       PROVE  disk[p] = "part" \/ p \in spoiled' \/ \E c \in Importers : LastCopies(c, p)'
  BY <1>12, TypeFacts, KeptAndPages, PathsApart, ForgetEffect DEF NoPreview, Go,
     LastCopies
<1>13. ASSUME NEW a \in Actors, a \in Importers, ImportClean(a)
       PROVE  disk[p] = "part" \/ p \in spoiled' \/ \E c \in Importers : LastCopies(c, p)'
  BY <1>13, TypeFacts, KeptAndPages, PathsApart, RemoveEffect DEF ImportClean,
     Go, LastCopies
<1>14. ASSUME NEW a \in Actors, WorkerClean(a)
       PROVE  disk[p] = "part" \/ p \in spoiled' \/ \E c \in Importers : LastCopies(c, p)'
  BY <1>14, TypeFacts, KeptAndPages, PathsApart, RemoveEffect DEF WorkerClean,
     End, Go, LastCopies
<1>15. ASSUME NEW a \in Actors, Dies(a)
       PROVE  disk[p] = "part" \/ p \in spoiled' \/ \E c \in Importers : LastCopies(c, p)'
  BY <1>15, TypeFacts, KeptAndPages, PathsApart, ForgetEffect DEF Dies,
     Orphaned, End, Go, LastCopies
<1>16. CASE UNCHANGED vars
  BY <1>16 DEF vars, actorVars, LastCopies
<1>. QED
  BY NextSteps, <1>1, <1>2, <1>3, <1>4, <1>5, <1>6, <1>7, <1>8, <1>9, <1>10,
     <1>11, <1>12, <1>13, <1>14, <1>15, <1>16


\* What is spoiled stays so until it is whole.
LEMMA SpoiledStays ==
  ASSUME TypeOK, NEW p \in Kept, disk'[p] = "part", p \in spoiled, [Next]_vars
  PROVE  p \in spoiled'
<1>1. ASSUME NEW a \in Actors, a \in Importers, NEW u \in Users, ImportSave(a, u)
      PROVE  p \in spoiled'
  BY <1>1, TypeFacts, KeptAndPages DEF ImportSave, Go
<1>2. ASSUME NEW a \in Actors, a \in Importers, ImportCopied(a)
      PROVE  p \in spoiled'
  BY <1>2, TypeFacts, KeptAndPages DEF ImportCopied, Go
<1>3. ASSUME NEW a \in Actors, a \in Importers, SaveBreaksOff(a)
      PROVE  p \in spoiled'
  BY <1>3, TypeFacts, KeptAndPages DEF SaveBreaksOff, End, Go
<1>4. ASSUME NEW a \in Actors, a \in Importers, ImportInsert(a)
      PROVE  p \in spoiled'
  BY <1>4, TypeFacts, KeptAndPages DEF ImportInsert, End, Go
<1>5. ASSUME NEW a \in Actors, NEW u \in Users, WorkerBegin(a, u)
      PROVE  p \in spoiled'
  BY <1>5, TypeFacts, KeptAndPages DEF WorkerBegin, Go
<1>6. ASSUME NEW a \in Actors, Open(a)
      PROVE  p \in spoiled'
  BY <1>6, TypeFacts, KeptAndPages DEF Open, WithoutPages, Go
<1>7. ASSUME NEW a \in Actors, CreatePage(a)
      PROVE  p \in spoiled'
  BY <1>7, TypeFacts, KeptAndPages DEF CreatePage, Go
<1>8. ASSUME NEW a \in Actors, RenderPage(a)
      PROVE  p \in spoiled'
  BY <1>8, TypeFacts, KeptAndPages DEF RenderPage, Go
<1>9. ASSUME NEW a \in Actors, ConversionFails(a)
      PROVE  p \in spoiled'
  BY <1>9, TypeFacts, KeptAndPages DEF ConversionFails, WithoutPages, Orphaned, Go
<1>10. ASSUME NEW a \in Actors, a \in Importers, PreviewSave(a)
       PROVE  p \in spoiled'
  BY <1>10, TypeFacts, KeptAndPages DEF PreviewSave, Go
<1>11. ASSUME NEW a \in Actors, a \in Importers, PreviewCopied(a)
       PROVE  p \in spoiled'
  BY <1>11, TypeFacts, KeptAndPages DEF PreviewCopied, Go
<1>12. ASSUME NEW a \in Actors, a \in Importers, NoPreview(a)
       PROVE  p \in spoiled'
  BY <1>12, TypeFacts, KeptAndPages DEF NoPreview, Go
<1>13. ASSUME NEW a \in Actors, a \in Importers, ImportClean(a)
       PROVE  p \in spoiled'
  BY <1>13, TypeFacts, KeptAndPages DEF ImportClean, Go
<1>14. ASSUME NEW a \in Actors, WorkerClean(a)
       PROVE  p \in spoiled'
  BY <1>14, TypeFacts, KeptAndPages DEF WorkerClean, End, Go
<1>15. ASSUME NEW a \in Actors, Dies(a)
       PROVE  p \in spoiled'
  BY <1>15, TypeFacts, KeptAndPages DEF Dies, Orphaned, End, Go
<1>16. CASE UNCHANGED vars
  BY <1>16 DEF vars, actorVars
<1>. QED
  BY NextSteps, <1>1, <1>2, <1>3, <1>4, <1>5, <1>6, <1>7, <1>8, <1>9, <1>10,
     <1>11, <1>12, <1>13, <1>14, <1>15, <1>16


\* The last one to create a file completes it, or spoils it.
LEMMA CopyStep ==
  ASSUME TypeOK, NEW p \in Kept, disk'[p] = "part", disk[p] = "part",
         NEW c \in Importers, LastCopies(c, p), [Next]_vars
  PROVE  p \in spoiled' \/ \E d \in Importers : LastCopies(d, p)'
<1>1. ASSUME NEW a \in Actors, a \in Importers, NEW u \in Users, ImportSave(a, u)
      PROVE  p \in spoiled' \/ \E d \in Importers : LastCopies(d, p)'
  <2>1. Upload(u) \in Paths /\ Create(a, Upload(u))
    BY <1>1, TypeFacts, KeptAndPages DEF ImportSave
  <2>2. /\ disk'[Upload(u)] = "part"
        /\ \A q \in Paths \ {Upload(u)} : disk'[q] = disk[q]
        /\ hit'[a] = hit[a] \ {Upload(u)}
        /\ \A b \in Actors \ {a} : hit'[b] = hit[b] \cup ({Upload(u)} \cap Mine(b))
    BY <2>1, CreateEffect
  <2>3. CASE p = Upload(u)
    <3>1. LastCopies(a, p)'
      BY <1>1, <2>2, <2>3, TypeFacts DEF ImportSave, Go, LastCopies
    <3>. QED
      BY <1>1, <3>1
  <2>4. CASE p # Upload(u)
    <3>1. c \in Actors /\ c # a
      BY <1>1, TypeFacts DEF ImportSave, LastCopies, Actors
    <3>2. p \notin hit'[c]
      BY <2>2, <2>4, <3>1 DEF LastCopies
    <3>3. LastCopies(c, p)'
      BY <1>1, <3>1, <3>2, TypeFacts DEF ImportSave, Go, LastCopies
    <3>. QED
      BY <3>3
  <2>. QED
    BY <2>3, <2>4
<1>2. ASSUME NEW a \in Actors, a \in Importers, ImportCopied(a)
      PROVE  p \in spoiled' \/ \E d \in Importers : LastCopies(d, p)'
  <2>1. c \in Actors
    BY DEF Actors
  <2>2. CASE c = a
    <3>1. p = Upload(own[a]) /\ p \notin hit[a]
      BY <1>2, <2>2 DEF ImportCopied, LastCopies
    <3>2. p \in Paths /\ Written(a, p)
      BY <1>2, <3>1, KeptAndPages DEF ImportCopied
    <3>. QED
      BY <3>1, <3>2, WrittenEffect
  <2>3. CASE c # a
    <3>1. hit'[c] = hit[c]
      BY <1>2, <2>1, <2>3, ForgetEffect DEF ImportCopied
    <3>2. pc'[c] = pc[c] /\ own'[c] = own[c]
      BY <1>2, <2>1, <2>3, TypeFacts DEF ImportCopied, Go
    <3>. QED
      BY <3>1, <3>2 DEF LastCopies
  <2>. QED
    BY <2>2, <2>3
<1>3. ASSUME NEW a \in Actors, a \in Importers, SaveBreaksOff(a)
      PROVE  p \in spoiled' \/ \E d \in Importers : LastCopies(d, p)'
  <2>1. c \in Actors
    BY DEF Actors
  <2>2. CASE c = a
    BY <1>3, <2>1, <2>2, TypeFacts, KeptAndPages, PathsApart, ForgetEffect DEF
       SaveBreaksOff, End, Go, LastCopies
  <2>3. CASE c # a
    <3>1. LastCopies(c, p)'
      BY <1>3, <2>1, <2>3, TypeFacts, KeptAndPages, PathsApart, ForgetEffect DEF
         SaveBreaksOff, End, Go, LastCopies
    <3>. QED
      BY <3>1
  <2>. QED
    BY <2>2, <2>3
<1>4. ASSUME NEW a \in Actors, a \in Importers, ImportInsert(a)
      PROVE  p \in spoiled' \/ \E d \in Importers : LastCopies(d, p)'
  <2>1. c \in Actors
    BY DEF Actors
  <2>2. CASE c = a
    BY <1>4, <2>1, <2>2, TypeFacts, KeptAndPages, PathsApart, ForgetEffect DEF
       ImportInsert, End, Go, LastCopies
  <2>3. CASE c # a
    <3>1. LastCopies(c, p)'
      BY <1>4, <2>1, <2>3, TypeFacts, KeptAndPages, PathsApart, ForgetEffect DEF
         ImportInsert, End, Go, LastCopies
    <3>. QED
      BY <3>1
  <2>. QED
    BY <2>2, <2>3
<1>5. ASSUME NEW a \in Actors, NEW u \in Users, WorkerBegin(a, u)
      PROVE  p \in spoiled' \/ \E d \in Importers : LastCopies(d, p)'
  <2>1. c \in Actors
    BY DEF Actors
  <2>2. CASE c = a
    BY <1>5, <2>1, <2>2, TypeFacts, KeptAndPages, PathsApart DEF WorkerBegin,
       Go, LastCopies
  <2>3. CASE c # a
    <3>1. LastCopies(c, p)'
      BY <1>5, <2>1, <2>3, TypeFacts, KeptAndPages, PathsApart DEF WorkerBegin,
         Go, LastCopies
    <3>. QED
      BY <3>1
  <2>. QED
    BY <2>2, <2>3
<1>6. ASSUME NEW a \in Actors, Open(a)
      PROVE  p \in spoiled' \/ \E d \in Importers : LastCopies(d, p)'
  <2>1. c \in Actors
    BY DEF Actors
  <2>2. CASE c = a
    BY <1>6, <2>1, <2>2, TypeFacts, KeptAndPages, PathsApart DEF Open,
       WithoutPages, Go, LastCopies
  <2>3. CASE c # a
    <3>1. LastCopies(c, p)'
      BY <1>6, <2>1, <2>3, TypeFacts, KeptAndPages, PathsApart DEF Open,
         WithoutPages, Go, LastCopies
    <3>. QED
      BY <3>1
  <2>. QED
    BY <2>2, <2>3
<1>7. ASSUME NEW a \in Actors, CreatePage(a)
      PROVE  p \in spoiled' \/ \E d \in Importers : LastCopies(d, p)'
  <2>1. c \in Actors
    BY DEF Actors
  <2>2. CASE c = a
    BY <1>7, <2>1, <2>2, TypeFacts, KeptAndPages, PathsApart, CreateEffect DEF
       CreatePage, Go, LastCopies
  <2>3. CASE c # a
    <3>1. Page(page[a]) \in Paths /\ Create(a, Page(page[a]))
      BY <1>7, TypeFacts, KeptAndPages DEF CreatePage
    <3>2. /\ disk'[Page(page[a])] = "part"
          /\ \A q \in Paths \ {Page(page[a])} : disk'[q] = disk[q]
          /\ hit'[a] = hit[a] \ {Page(page[a])}
          /\ \A b \in Actors \ {a} : hit'[b] = hit[b] \cup ({Page(page[a])} \cap Mine(b))
      BY <3>1, CreateEffect
    <3>0. p # Page(page[a])
      BY <1>7, <3>1, TypeFacts, KeptAndPages
    <3>3. p \notin hit'[c]
      BY <2>1, <2>3, <3>0, <3>2 DEF LastCopies
    <3>4. LastCopies(c, p)'
      BY <1>7, <2>1, <2>3, <3>3, TypeFacts DEF CreatePage, Go, LastCopies
    <3>. QED
      BY <3>4
  <2>. QED
    BY <2>2, <2>3
<1>8. ASSUME NEW a \in Actors, RenderPage(a)
      PROVE  p \in spoiled' \/ \E d \in Importers : LastCopies(d, p)'
  <2>1. c \in Actors
    BY DEF Actors
  <2>2. CASE c = a
    BY <1>8, <2>2 DEF RenderPage, LastCopies
  <2>3. CASE c # a
    <3>1. hit'[c] = hit[c]
      BY <1>8 DEF RenderPage
    <3>2. pc'[c] = pc[c] /\ own'[c] = own[c]
      BY <1>8, <2>1, <2>3, TypeFacts DEF RenderPage, Go
    <3>. QED
      BY <3>1, <3>2 DEF LastCopies
  <2>. QED
    BY <2>2, <2>3
<1>9. ASSUME NEW a \in Actors, ConversionFails(a)
      PROVE  p \in spoiled' \/ \E d \in Importers : LastCopies(d, p)'
  <2>1. c \in Actors
    BY DEF Actors
  <2>2. CASE c = a
    BY <1>9, <2>1, <2>2, TypeFacts, KeptAndPages, PathsApart, ForgetEffect DEF
       ConversionFails, WithoutPages, Orphaned, Go, LastCopies
  <2>3. CASE c # a
    <3>1. LastCopies(c, p)'
      BY <1>9, <2>1, <2>3, TypeFacts, KeptAndPages, PathsApart, ForgetEffect DEF
         ConversionFails, WithoutPages, Orphaned, Go, LastCopies
    <3>. QED
      BY <3>1
  <2>. QED
    BY <2>2, <2>3
<1>10. ASSUME NEW a \in Actors, a \in Importers, PreviewSave(a)
       PROVE  p \in spoiled' \/ \E d \in Importers : LastCopies(d, p)'
  <2>1. Preview(own[a]) \in Paths /\ Create(a, Preview(own[a]))
    BY <1>10, TypeFacts, KeptAndPages DEF PreviewSave
  <2>2. /\ disk'[Preview(own[a])] = "part"
        /\ \A q \in Paths \ {Preview(own[a])} : disk'[q] = disk[q]
        /\ hit'[a] = hit[a] \ {Preview(own[a])}
        /\ \A b \in Actors \ {a} : hit'[b] = hit[b] \cup ({Preview(own[a])} \cap Mine(b))
    BY <2>1, CreateEffect
  <2>3. CASE p = Preview(own[a])
    <3>1. LastCopies(a, p)'
      BY <1>10, <2>2, <2>3, TypeFacts DEF PreviewSave, Go, LastCopies
    <3>. QED
      BY <1>10, <3>1
  <2>4. CASE p # Preview(own[a])
    <3>1. c \in Actors /\ c # a
      BY <1>10, TypeFacts DEF PreviewSave, LastCopies, Actors
    <3>2. p \notin hit'[c]
      BY <2>2, <2>4, <3>1 DEF LastCopies
    <3>3. LastCopies(c, p)'
      BY <1>10, <3>1, <3>2, TypeFacts DEF PreviewSave, Go, LastCopies
    <3>. QED
      BY <3>3
  <2>. QED
    BY <2>3, <2>4
<1>11. ASSUME NEW a \in Actors, a \in Importers, PreviewCopied(a)
       PROVE  p \in spoiled' \/ \E d \in Importers : LastCopies(d, p)'
  <2>1. c \in Actors
    BY DEF Actors
  <2>2. CASE c = a
    <3>1. p = Preview(own[a]) /\ p \notin hit[a] /\ p \in Paths
      BY <1>11, <2>2, KeptAndPages DEF PreviewCopied, LastCopies
    <3>2. CASE Page(1) \in hit[a]
      BY <1>11, <3>1, <3>2 DEF PreviewCopied
    <3>3. CASE Page(1) \notin hit[a]
      <4>1. Written(a, p)
        BY <1>11, <3>1, <3>3 DEF PreviewCopied
      <4>. QED
        BY <3>1, <4>1, WrittenEffect
    <3>. QED
      BY <3>2, <3>3
  <2>3. CASE c # a
    <3>1. hit'[c] = hit[c]
      BY <1>11, <2>1, <2>3, ForgetEffect DEF PreviewCopied
    <3>2. pc'[c] = pc[c] /\ own'[c] = own[c]
      BY <1>11, <2>1, <2>3, TypeFacts DEF PreviewCopied, Go
    <3>. QED
      BY <3>1, <3>2 DEF LastCopies
  <2>. QED
    BY <2>2, <2>3
<1>12. ASSUME NEW a \in Actors, a \in Importers, NoPreview(a)
       PROVE  p \in spoiled' \/ \E d \in Importers : LastCopies(d, p)'
  <2>1. c \in Actors
    BY DEF Actors
  <2>2. CASE c = a
    BY <1>12, <2>1, <2>2, TypeFacts, KeptAndPages, PathsApart, ForgetEffect DEF
       NoPreview, Go, LastCopies
  <2>3. CASE c # a
    <3>1. LastCopies(c, p)'
      BY <1>12, <2>1, <2>3, TypeFacts, KeptAndPages, PathsApart, ForgetEffect
         DEF NoPreview, Go, LastCopies
    <3>. QED
      BY <3>1
  <2>. QED
    BY <2>2, <2>3
<1>13. ASSUME NEW a \in Actors, a \in Importers, ImportClean(a)
       PROVE  p \in spoiled' \/ \E d \in Importers : LastCopies(d, p)'
  <2>1. c \in Actors
    BY DEF Actors
  <2>2. CASE c = a
    BY <1>13, <2>1, <2>2, TypeFacts, KeptAndPages, PathsApart, RemoveEffect DEF
       ImportClean, Go, LastCopies
  <2>3. CASE c # a
    <3>1. made[a] \in SUBSET Paths /\ made[a] \in SUBSET Pages /\ Remove(a, made[a])
      BY <1>13, TypeFacts DEF ImportClean
    <3>2. /\ \A q \in made[a] : disk'[q] = "none"
          /\ \A q \in Paths \ made[a] : disk'[q] = disk[q]
          /\ hit'[a] = hit[a] \ made[a]
          /\ \A b \in Actors \ {a} : hit'[b] = hit[b] \cup (made[a] \cap Mine(b))
          /\ left' = left \ made[a]
      BY <3>1, RemoveEffect
    <3>0. p \notin made[a]
      BY <1>13, <3>1, TypeFacts, KeptAndPages
    <3>3. p \notin hit'[c]
      BY <2>1, <2>3, <3>0, <3>2 DEF LastCopies
    <3>4. LastCopies(c, p)'
      BY <1>13, <2>1, <2>3, <3>3, TypeFacts DEF ImportClean, Go, LastCopies
    <3>. QED
      BY <3>4
  <2>. QED
    BY <2>2, <2>3
<1>14. ASSUME NEW a \in Actors, WorkerClean(a)
       PROVE  p \in spoiled' \/ \E d \in Importers : LastCopies(d, p)'
  <2>1. c \in Actors
    BY DEF Actors
  <2>2. CASE c = a
    BY <1>14, <2>1, <2>2, TypeFacts, KeptAndPages, PathsApart, RemoveEffect DEF
       WorkerClean, End, Go, LastCopies
  <2>3. CASE c # a
    <3>1. made[a] \in SUBSET Paths /\ made[a] \in SUBSET Pages /\ Remove(a, made[a])
      BY <1>14, TypeFacts DEF WorkerClean
    <3>2. /\ \A q \in made[a] : disk'[q] = "none"
          /\ \A q \in Paths \ made[a] : disk'[q] = disk[q]
          /\ hit'[a] = hit[a] \ made[a]
          /\ \A b \in Actors \ {a} : hit'[b] = hit[b] \cup (made[a] \cap Mine(b))
          /\ left' = left \ made[a]
      BY <3>1, RemoveEffect
    <3>0. p \notin made[a]
      BY <1>14, <3>1, TypeFacts, KeptAndPages
    <3>3. p \notin hit'[c]
      BY <2>1, <2>3, <3>0, <3>2 DEF LastCopies
    <3>4. LastCopies(c, p)'
      BY <1>14, <2>1, <2>3, <3>3, TypeFacts DEF WorkerClean, End, Go, LastCopies
    <3>. QED
      BY <3>4
  <2>. QED
    BY <2>2, <2>3
<1>15. ASSUME NEW a \in Actors, Dies(a)
       PROVE  p \in spoiled' \/ \E d \in Importers : LastCopies(d, p)'
  <2>1. c \in Actors
    BY DEF Actors
  <2>2. CASE c = a
    BY <1>15, <2>1, <2>2, TypeFacts, KeptAndPages, PathsApart, ForgetEffect DEF
       Dies, Orphaned, End, Go, LastCopies
  <2>3. CASE c # a
    <3>1. LastCopies(c, p)'
      BY <1>15, <2>1, <2>3, TypeFacts, KeptAndPages, PathsApart, ForgetEffect
         DEF Dies, Orphaned, End, Go, LastCopies
    <3>. QED
      BY <3>1
  <2>. QED
    BY <2>2, <2>3
<1>16. CASE UNCHANGED vars
  BY <1>16 DEF vars, actorVars, LastCopies
<1>. QED
  BY NextSteps, <1>1, <1>2, <1>3, <1>4, <1>5, <1>6, <1>7, <1>8, <1>9, <1>10,
     <1>11, <1>12, <1>13, <1>14, <1>15, <1>16


\* A page is there before, or somebody has just made it.
LEMMA PageIsNew ==
  ASSUME TypeOK, NEW p \in Pages, disk'[p] # "none", [Next]_vars
  PROVE  disk[p] # "none" \/ \E c \in Actors : p \in made'[c]
<1>1. ASSUME NEW a \in Actors, a \in Importers, NEW u \in Users, ImportSave(a, u)
      PROVE  disk[p] # "none" \/ \E c \in Actors : p \in made'[c]
  BY <1>1, TypeFacts, KeptAndPages, CreateEffect DEF ImportSave, Go
<1>2. ASSUME NEW a \in Actors, a \in Importers, ImportCopied(a)
      PROVE  disk[p] # "none" \/ \E c \in Actors : p \in made'[c]
  BY <1>2, TypeFacts, KeptAndPages, WrittenEffect, ForgetEffect DEF
     ImportCopied, Go
<1>3. ASSUME NEW a \in Actors, a \in Importers, SaveBreaksOff(a)
      PROVE  disk[p] # "none" \/ \E c \in Actors : p \in made'[c]
  BY <1>3, TypeFacts, KeptAndPages, ForgetEffect DEF SaveBreaksOff, End, Go
<1>4. ASSUME NEW a \in Actors, a \in Importers, ImportInsert(a)
      PROVE  disk[p] # "none" \/ \E c \in Actors : p \in made'[c]
  BY <1>4, TypeFacts, KeptAndPages, ForgetEffect DEF ImportInsert, End, Go
<1>5. ASSUME NEW a \in Actors, NEW u \in Users, WorkerBegin(a, u)
      PROVE  disk[p] # "none" \/ \E c \in Actors : p \in made'[c]
  BY <1>5, TypeFacts, KeptAndPages DEF WorkerBegin, Go
<1>6. ASSUME NEW a \in Actors, Open(a)
      PROVE  disk[p] # "none" \/ \E c \in Actors : p \in made'[c]
  BY <1>6, TypeFacts, KeptAndPages DEF Open, WithoutPages, Go
<1>7. ASSUME NEW a \in Actors, CreatePage(a)
      PROVE  disk[p] # "none" \/ \E c \in Actors : p \in made'[c]
  BY <1>7, TypeFacts, KeptAndPages, CreateEffect DEF CreatePage, Go
<1>8. ASSUME NEW a \in Actors, RenderPage(a)
      PROVE  disk[p] # "none" \/ \E c \in Actors : p \in made'[c]
  BY <1>8, TypeFacts, KeptAndPages, WrittenEffect DEF RenderPage, Go
<1>9. ASSUME NEW a \in Actors, ConversionFails(a)
      PROVE  disk[p] # "none" \/ \E c \in Actors : p \in made'[c]
  BY <1>9, TypeFacts, KeptAndPages, ForgetEffect DEF ConversionFails,
     WithoutPages, Orphaned, Go
<1>10. ASSUME NEW a \in Actors, a \in Importers, PreviewSave(a)
       PROVE  disk[p] # "none" \/ \E c \in Actors : p \in made'[c]
  <2>1. Preview(own[a]) \in Paths /\ Create(a, Preview(own[a]))
    BY <1>10, TypeFacts, KeptAndPages DEF PreviewSave
  <2>2. /\ disk'[Preview(own[a])] = "part"
        /\ \A q \in Paths \ {Preview(own[a])} : disk'[q] = disk[q]
        /\ hit'[a] = hit[a] \ {Preview(own[a])}
        /\ \A b \in Actors \ {a} : hit'[b] = hit[b] \cup ({Preview(own[a])} \cap Mine(b))
    BY <2>1, CreateEffect
  <2>. QED
    BY <2>2, <1>10, TypeFacts, KeptAndPages DEF PreviewSave, Go
<1>11. ASSUME NEW a \in Actors, a \in Importers, PreviewCopied(a)
       PROVE  disk[p] # "none" \/ \E c \in Actors : p \in made'[c]
  <2>1. p # Preview(own[a]) /\ p \in Paths /\ Preview(own[a]) \in Paths
    BY <1>11, TypeFacts, KeptAndPages DEF PreviewCopied
  <2>2. CASE Page(1) \in hit[a]
    BY <1>11, <2>1, <2>2, TypeFacts DEF PreviewCopied
  <2>3. CASE Page(1) \notin hit[a]
    <3>1. Written(a, Preview(own[a]))
      BY <1>11, <2>3 DEF PreviewCopied
    <3>2. disk'[p] = disk[p]
      BY <2>1, <3>1, WrittenEffect
    <3>. QED
      BY <3>2
  <2>. QED
    BY <2>2, <2>3
<1>12. ASSUME NEW a \in Actors, a \in Importers, NoPreview(a)
       PROVE  disk[p] # "none" \/ \E c \in Actors : p \in made'[c]
  BY <1>12, TypeFacts, KeptAndPages, ForgetEffect DEF NoPreview, Go
<1>13. ASSUME NEW a \in Actors, a \in Importers, ImportClean(a)
       PROVE  disk[p] # "none" \/ \E c \in Actors : p \in made'[c]
  BY <1>13, TypeFacts, KeptAndPages, RemoveEffect DEF ImportClean, Go
<1>14. ASSUME NEW a \in Actors, WorkerClean(a)
       PROVE  disk[p] # "none" \/ \E c \in Actors : p \in made'[c]
  BY <1>14, TypeFacts, KeptAndPages, RemoveEffect DEF WorkerClean, End, Go
<1>15. ASSUME NEW a \in Actors, Dies(a)
       PROVE  disk[p] # "none" \/ \E c \in Actors : p \in made'[c]
  BY <1>15, TypeFacts, KeptAndPages, ForgetEffect DEF Dies, Orphaned, End, Go
<1>16. CASE UNCHANGED vars
  BY <1>16 DEF vars, actorVars
<1>. QED
  BY NextSteps, <1>1, <1>2, <1>3, <1>4, <1>5, <1>6, <1>7, <1>8, <1>9, <1>10,
     <1>11, <1>12, <1>13, <1>14, <1>15, <1>16


\* A page left behind stays so until it is made anew or removed.
LEMMA LeftStays ==
  ASSUME TypeOK, NEW p \in Pages, disk'[p] # "none", p \in left, [Next]_vars
  PROVE  p \in left' \/ \E c \in Actors : p \in made'[c]
<1>1. ASSUME NEW a \in Actors, a \in Importers, NEW u \in Users, ImportSave(a, u)
      PROVE  p \in left' \/ \E c \in Actors : p \in made'[c]
  BY <1>1, TypeFacts, KeptAndPages, CreateEffect DEF ImportSave, Go
<1>2. ASSUME NEW a \in Actors, a \in Importers, ImportCopied(a)
      PROVE  p \in left' \/ \E c \in Actors : p \in made'[c]
  BY <1>2, TypeFacts, KeptAndPages, WrittenEffect, ForgetEffect DEF
     ImportCopied, Go
<1>3. ASSUME NEW a \in Actors, a \in Importers, SaveBreaksOff(a)
      PROVE  p \in left' \/ \E c \in Actors : p \in made'[c]
  BY <1>3, TypeFacts, KeptAndPages, ForgetEffect DEF SaveBreaksOff, End, Go
<1>4. ASSUME NEW a \in Actors, a \in Importers, ImportInsert(a)
      PROVE  p \in left' \/ \E c \in Actors : p \in made'[c]
  BY <1>4, TypeFacts, KeptAndPages, ForgetEffect DEF ImportInsert, End, Go
<1>5. ASSUME NEW a \in Actors, NEW u \in Users, WorkerBegin(a, u)
      PROVE  p \in left' \/ \E c \in Actors : p \in made'[c]
  BY <1>5, TypeFacts, KeptAndPages DEF WorkerBegin, Go
<1>6. ASSUME NEW a \in Actors, Open(a)
      PROVE  p \in left' \/ \E c \in Actors : p \in made'[c]
  BY <1>6, TypeFacts, KeptAndPages DEF Open, WithoutPages, Go
<1>7. ASSUME NEW a \in Actors, CreatePage(a)
      PROVE  p \in left' \/ \E c \in Actors : p \in made'[c]
  BY <1>7, TypeFacts, KeptAndPages, CreateEffect DEF CreatePage, Go
<1>8. ASSUME NEW a \in Actors, RenderPage(a)
      PROVE  p \in left' \/ \E c \in Actors : p \in made'[c]
  BY <1>8, TypeFacts, KeptAndPages, WrittenEffect DEF RenderPage, Go
<1>9. ASSUME NEW a \in Actors, ConversionFails(a)
      PROVE  p \in left' \/ \E c \in Actors : p \in made'[c]
  BY <1>9, TypeFacts, KeptAndPages, ForgetEffect DEF ConversionFails,
     WithoutPages, Orphaned, Go
<1>10. ASSUME NEW a \in Actors, a \in Importers, PreviewSave(a)
       PROVE  p \in left' \/ \E c \in Actors : p \in made'[c]
  BY <1>10, TypeFacts, KeptAndPages, CreateEffect DEF PreviewSave, Go
<1>11. ASSUME NEW a \in Actors, a \in Importers, PreviewCopied(a)
       PROVE  p \in left' \/ \E c \in Actors : p \in made'[c]
  BY <1>11, TypeFacts, KeptAndPages, WrittenEffect, ForgetEffect DEF
     PreviewCopied, Go
<1>12. ASSUME NEW a \in Actors, a \in Importers, NoPreview(a)
       PROVE  p \in left' \/ \E c \in Actors : p \in made'[c]
  BY <1>12, TypeFacts, KeptAndPages, ForgetEffect DEF NoPreview, Go
<1>13. ASSUME NEW a \in Actors, a \in Importers, ImportClean(a)
       PROVE  p \in left' \/ \E c \in Actors : p \in made'[c]
  <2>1. made[a] \in SUBSET Paths /\ made[a] \in SUBSET Pages /\ Remove(a, made[a])
    BY <1>13, TypeFacts DEF ImportClean
  <2>2. /\ \A q \in made[a] : disk'[q] = "none"
        /\ \A q \in Paths \ made[a] : disk'[q] = disk[q]
        /\ hit'[a] = hit[a] \ made[a]
        /\ \A b \in Actors \ {a} : hit'[b] = hit[b] \cup (made[a] \cap Mine(b))
        /\ left' = left \ made[a]
    BY <2>1, RemoveEffect
  <2>. QED
    BY <2>2, <1>13, TypeFacts, KeptAndPages DEF ImportClean, Go
<1>14. ASSUME NEW a \in Actors, WorkerClean(a)
       PROVE  p \in left' \/ \E c \in Actors : p \in made'[c]
  <2>1. made[a] \in SUBSET Paths /\ made[a] \in SUBSET Pages /\ Remove(a, made[a])
    BY <1>14, TypeFacts DEF WorkerClean
  <2>2. /\ \A q \in made[a] : disk'[q] = "none"
        /\ \A q \in Paths \ made[a] : disk'[q] = disk[q]
        /\ hit'[a] = hit[a] \ made[a]
        /\ \A b \in Actors \ {a} : hit'[b] = hit[b] \cup (made[a] \cap Mine(b))
        /\ left' = left \ made[a]
    BY <2>1, RemoveEffect
  <2>. QED
    BY <2>2, <1>14, TypeFacts, KeptAndPages DEF WorkerClean, End, Go
<1>15. ASSUME NEW a \in Actors, Dies(a)
       PROVE  p \in left' \/ \E c \in Actors : p \in made'[c]
  BY <1>15, TypeFacts, KeptAndPages, ForgetEffect DEF Dies, Orphaned, End, Go
<1>16. CASE UNCHANGED vars
  BY <1>16 DEF vars, actorVars
<1>. QED
  BY NextSteps, <1>1, <1>2, <1>3, <1>4, <1>5, <1>6, <1>7, <1>8, <1>9, <1>10,
     <1>11, <1>12, <1>13, <1>14, <1>15, <1>16


\* Whoever stops minding a page removes it, or notes that nobody minds it.
LEMMA MindedStep ==
  ASSUME TypeOK, NothingMade, NEW p \in Pages, disk'[p] # "none", disk[p] # "none",
         NEW c \in Actors, p \in made[c], [Next]_vars
  PROVE  p \in left' \/ \E d \in Actors : p \in made'[d]
<1>1. ASSUME NEW a \in Actors, a \in Importers, NEW u \in Users, ImportSave(a, u)
      PROVE  p \in left' \/ \E d \in Actors : p \in made'[d]
  BY <1>1, TypeFacts, KeptAndPages, CreateEffect DEF ImportSave, Go, NothingMade
<1>2. ASSUME NEW a \in Actors, a \in Importers, ImportCopied(a)
      PROVE  p \in left' \/ \E d \in Actors : p \in made'[d]
  BY <1>2, TypeFacts, KeptAndPages, WrittenEffect, ForgetEffect DEF
     ImportCopied, Go, NothingMade
<1>3. ASSUME NEW a \in Actors, a \in Importers, SaveBreaksOff(a)
      PROVE  p \in left' \/ \E d \in Actors : p \in made'[d]
  BY <1>3, TypeFacts, KeptAndPages, ForgetEffect DEF SaveBreaksOff, End, Go,
     NothingMade
<1>4. ASSUME NEW a \in Actors, a \in Importers, ImportInsert(a)
      PROVE  p \in left' \/ \E d \in Actors : p \in made'[d]
  BY <1>4, TypeFacts, KeptAndPages, ForgetEffect DEF ImportInsert, End, Go,
     NothingMade
<1>5. ASSUME NEW a \in Actors, NEW u \in Users, WorkerBegin(a, u)
      PROVE  p \in left' \/ \E d \in Actors : p \in made'[d]
  BY <1>5, TypeFacts, KeptAndPages DEF WorkerBegin, Go, NothingMade
<1>6. ASSUME NEW a \in Actors, Open(a)
      PROVE  p \in left' \/ \E d \in Actors : p \in made'[d]
  BY <1>6, TypeFacts, KeptAndPages DEF Open, WithoutPages, Go, NothingMade
<1>7. ASSUME NEW a \in Actors, CreatePage(a)
      PROVE  p \in left' \/ \E d \in Actors : p \in made'[d]
  BY <1>7, TypeFacts, KeptAndPages, CreateEffect DEF CreatePage, Go, NothingMade
<1>8. ASSUME NEW a \in Actors, RenderPage(a)
      PROVE  p \in left' \/ \E d \in Actors : p \in made'[d]
  BY <1>8, TypeFacts, KeptAndPages, WrittenEffect DEF RenderPage, Go, NothingMade
<1>9. ASSUME NEW a \in Actors, ConversionFails(a)
      PROVE  p \in left' \/ \E d \in Actors : p \in made'[d]
  BY <1>9, TypeFacts, KeptAndPages, ForgetEffect DEF ConversionFails,
     WithoutPages, Orphaned, Go, NothingMade
<1>10. ASSUME NEW a \in Actors, a \in Importers, PreviewSave(a)
       PROVE  p \in left' \/ \E d \in Actors : p \in made'[d]
  BY <1>10, TypeFacts, KeptAndPages, CreateEffect DEF PreviewSave, Go, NothingMade
<1>11. ASSUME NEW a \in Actors, a \in Importers, PreviewCopied(a)
       PROVE  p \in left' \/ \E d \in Actors : p \in made'[d]
  BY <1>11, TypeFacts, KeptAndPages, WrittenEffect, ForgetEffect DEF
     PreviewCopied, Go, NothingMade
<1>12. ASSUME NEW a \in Actors, a \in Importers, NoPreview(a)
       PROVE  p \in left' \/ \E d \in Actors : p \in made'[d]
  BY <1>12, TypeFacts, KeptAndPages, ForgetEffect DEF NoPreview, Go, NothingMade
<1>13. ASSUME NEW a \in Actors, a \in Importers, ImportClean(a)
       PROVE  p \in left' \/ \E d \in Actors : p \in made'[d]
  <2>1. made[a] \in SUBSET Paths /\ made[a] \in SUBSET Pages /\ Remove(a, made[a])
    BY <1>13, TypeFacts DEF ImportClean
  <2>2. /\ \A q \in made[a] : disk'[q] = "none"
        /\ \A q \in Paths \ made[a] : disk'[q] = disk[q]
        /\ hit'[a] = hit[a] \ made[a]
        /\ \A b \in Actors \ {a} : hit'[b] = hit[b] \cup (made[a] \cap Mine(b))
        /\ left' = left \ made[a]
    BY <2>1, RemoveEffect
  <2>3. c # a
    BY <2>2
  <2>4. made'[c] = made[c]
    BY <1>13, <2>3, TypeFacts DEF ImportClean, Go
  <2>. QED
    BY <2>4
<1>14. ASSUME NEW a \in Actors, WorkerClean(a)
       PROVE  p \in left' \/ \E d \in Actors : p \in made'[d]
  <2>1. made[a] \in SUBSET Paths /\ made[a] \in SUBSET Pages /\ Remove(a, made[a])
    BY <1>14, TypeFacts DEF WorkerClean
  <2>2. /\ \A q \in made[a] : disk'[q] = "none"
        /\ \A q \in Paths \ made[a] : disk'[q] = disk[q]
        /\ hit'[a] = hit[a] \ made[a]
        /\ \A b \in Actors \ {a} : hit'[b] = hit[b] \cup (made[a] \cap Mine(b))
        /\ left' = left \ made[a]
    BY <2>1, RemoveEffect
  <2>3. c # a
    BY <2>2
  <2>4. made'[c] = made[c]
    BY <1>14, <2>3, TypeFacts DEF WorkerClean, End, Go
  <2>. QED
    BY <2>4
<1>15. ASSUME NEW a \in Actors, Dies(a)
       PROVE  p \in left' \/ \E d \in Actors : p \in made'[d]
  BY <1>15, TypeFacts, KeptAndPages, ForgetEffect DEF Dies, Orphaned, End, Go,
     NothingMade
<1>16. CASE UNCHANGED vars
  BY <1>16 DEF vars, actorVars, NothingMade
<1>. QED
  BY NextSteps, <1>1, <1>2, <1>3, <1>4, <1>5, <1>6, <1>7, <1>8, <1>9, <1>10,
     <1>11, <1>12, <1>13, <1>14, <1>15, <1>16


\* A page that was whole, and is still counted on, is whole.
LEMMA OwnPages ==
  ASSUME TypeOK, NEW c \in Actors, NEW p \in made[c], p \notin hit'[c], p \in made'[c],
         disk[p] = "full", [Next]_vars
  PROVE  disk'[p] = "full" \/ (pc'[c] = "render" /\ p = Page(page'[c]))
<1>1. ASSUME NEW a \in Actors, a \in Importers, NEW u \in Users, ImportSave(a, u)
      PROVE  disk'[p] = "full" \/ (pc'[c] = "render" /\ p = Page(page'[c]))
  <2>1. Upload(u) \in Paths /\ Create(a, Upload(u))
    BY <1>1, TypeFacts, KeptAndPages DEF ImportSave
  <2>2. /\ disk'[Upload(u)] = "part"
        /\ \A q \in Paths \ {Upload(u)} : disk'[q] = disk[q]
        /\ hit'[a] = hit[a] \ {Upload(u)}
        /\ \A b \in Actors \ {a} : hit'[b] = hit[b] \cup ({Upload(u)} \cap Mine(b))
    BY <2>1, CreateEffect
  <2>3. Upload(u) \in Kept
    BY <1>1, TypeFacts, KeptAndPages DEF ImportSave, Go
  <2>. QED
    BY <2>2, <2>3, TypeFacts, KeptAndPages
<1>2. ASSUME NEW a \in Actors, a \in Importers, ImportCopied(a)
      PROVE  disk'[p] = "full" \/ (pc'[c] = "render" /\ p = Page(page'[c]))
  BY <1>2, TypeFacts, KeptAndPages, WrittenEffect, ForgetEffect DEF
     ImportCopied, Go
<1>3. ASSUME NEW a \in Actors, a \in Importers, SaveBreaksOff(a)
      PROVE  disk'[p] = "full" \/ (pc'[c] = "render" /\ p = Page(page'[c]))
  BY <1>3, TypeFacts, KeptAndPages, ForgetEffect DEF SaveBreaksOff, End, Go
<1>4. ASSUME NEW a \in Actors, a \in Importers, ImportInsert(a)
      PROVE  disk'[p] = "full" \/ (pc'[c] = "render" /\ p = Page(page'[c]))
  BY <1>4, TypeFacts, KeptAndPages, ForgetEffect DEF ImportInsert, End, Go
<1>5. ASSUME NEW a \in Actors, NEW u \in Users, WorkerBegin(a, u)
      PROVE  disk'[p] = "full" \/ (pc'[c] = "render" /\ p = Page(page'[c]))
  BY <1>5, TypeFacts, KeptAndPages DEF WorkerBegin, Go
<1>6. ASSUME NEW a \in Actors, Open(a)
      PROVE  disk'[p] = "full" \/ (pc'[c] = "render" /\ p = Page(page'[c]))
  BY <1>6, TypeFacts, KeptAndPages DEF Open, WithoutPages, Go
<1>7. ASSUME NEW a \in Actors, CreatePage(a)
      PROVE  disk'[p] = "full" \/ (pc'[c] = "render" /\ p = Page(page'[c]))
  <2>1. Page(page[a]) \in Paths /\ Create(a, Page(page[a]))
    BY <1>7, TypeFacts, KeptAndPages DEF CreatePage
  <2>2. /\ disk'[Page(page[a])] = "part"
        /\ \A q \in Paths \ {Page(page[a])} : disk'[q] = disk[q]
        /\ hit'[a] = hit[a] \ {Page(page[a])}
        /\ \A b \in Actors \ {a} : hit'[b] = hit[b] \cup ({Page(page[a])} \cap Mine(b))
    BY <2>1, CreateEffect
  <2>3. CASE c = a
    BY <1>7, <2>2, <2>3, TypeFacts, KeptAndPages DEF CreatePage, Go
  <2>4. CASE c # a
    <3>1. p # Page(page[a])
      BY <2>2, <2>4 DEF Mine
    <3>. QED
      BY <2>2, <3>1, TypeFacts, KeptAndPages
  <2>. QED
    BY <2>3, <2>4
<1>8. ASSUME NEW a \in Actors, RenderPage(a)
      PROVE  disk'[p] = "full" \/ (pc'[c] = "render" /\ p = Page(page'[c]))
  BY <1>8, TypeFacts, KeptAndPages, WrittenEffect DEF RenderPage, Go
<1>9. ASSUME NEW a \in Actors, ConversionFails(a)
      PROVE  disk'[p] = "full" \/ (pc'[c] = "render" /\ p = Page(page'[c]))
  BY <1>9, TypeFacts, KeptAndPages, ForgetEffect DEF ConversionFails,
     WithoutPages, Orphaned, Go
<1>10. ASSUME NEW a \in Actors, a \in Importers, PreviewSave(a)
       PROVE  disk'[p] = "full" \/ (pc'[c] = "render" /\ p = Page(page'[c]))
  <2>1. Preview(own[a]) \in Paths /\ Create(a, Preview(own[a]))
    BY <1>10, TypeFacts, KeptAndPages DEF PreviewSave
  <2>2. /\ disk'[Preview(own[a])] = "part"
        /\ \A q \in Paths \ {Preview(own[a])} : disk'[q] = disk[q]
        /\ hit'[a] = hit[a] \ {Preview(own[a])}
        /\ \A b \in Actors \ {a} : hit'[b] = hit[b] \cup ({Preview(own[a])} \cap Mine(b))
    BY <2>1, CreateEffect
  <2>3. Preview(own[a]) \in Kept
    BY <1>10, TypeFacts, KeptAndPages DEF PreviewSave, Go
  <2>. QED
    BY <2>2, <2>3, TypeFacts, KeptAndPages
<1>11. ASSUME NEW a \in Actors, a \in Importers, PreviewCopied(a)
       PROVE  disk'[p] = "full" \/ (pc'[c] = "render" /\ p = Page(page'[c]))
  BY ZenonT(60), <1>11, TypeFacts, KeptAndPages, WrittenEffect, ForgetEffect DEF
     PreviewCopied, Go
<1>12. ASSUME NEW a \in Actors, a \in Importers, NoPreview(a)
       PROVE  disk'[p] = "full" \/ (pc'[c] = "render" /\ p = Page(page'[c]))
  BY <1>12, TypeFacts, KeptAndPages, ForgetEffect DEF NoPreview, Go
<1>13. ASSUME NEW a \in Actors, a \in Importers, ImportClean(a)
       PROVE  disk'[p] = "full" \/ (pc'[c] = "render" /\ p = Page(page'[c]))
  <2>1. made[a] \in SUBSET Paths /\ made[a] \in SUBSET Pages /\ Remove(a, made[a])
    BY <1>13, TypeFacts DEF ImportClean
  <2>2. /\ \A q \in made[a] : disk'[q] = "none"
        /\ \A q \in Paths \ made[a] : disk'[q] = disk[q]
        /\ hit'[a] = hit[a] \ made[a]
        /\ \A b \in Actors \ {a} : hit'[b] = hit[b] \cup (made[a] \cap Mine(b))
        /\ left' = left \ made[a]
    BY <2>1, RemoveEffect
  <2>3. c # a
    BY <1>13, TypeFacts DEF ImportClean, Go
  <2>4. p \notin made[a]
    BY <2>2, <2>3 DEF Mine
  <2>. QED
    BY <2>2, <2>4, TypeFacts, KeptAndPages
<1>14. ASSUME NEW a \in Actors, WorkerClean(a)
       PROVE  disk'[p] = "full" \/ (pc'[c] = "render" /\ p = Page(page'[c]))
  <2>1. made[a] \in SUBSET Paths /\ made[a] \in SUBSET Pages /\ Remove(a, made[a])
    BY <1>14, TypeFacts DEF WorkerClean
  <2>2. /\ \A q \in made[a] : disk'[q] = "none"
        /\ \A q \in Paths \ made[a] : disk'[q] = disk[q]
        /\ hit'[a] = hit[a] \ made[a]
        /\ \A b \in Actors \ {a} : hit'[b] = hit[b] \cup (made[a] \cap Mine(b))
        /\ left' = left \ made[a]
    BY <2>1, RemoveEffect
  <2>3. c # a
    BY <1>14, TypeFacts DEF WorkerClean, End, Go
  <2>4. p \notin made[a]
    BY <2>2, <2>3 DEF Mine
  <2>. QED
    BY <2>2, <2>4, TypeFacts, KeptAndPages
<1>15. ASSUME NEW a \in Actors, Dies(a)
       PROVE  disk'[p] = "full" \/ (pc'[c] = "render" /\ p = Page(page'[c]))
  BY <1>15, TypeFacts, KeptAndPages, ForgetEffect DEF Dies, Orphaned, End, Go
<1>16. CASE UNCHANGED vars
  BY <1>16 DEF vars, actorVars
<1>. QED
  BY NextSteps, <1>1, <1>2, <1>3, <1>4, <1>5, <1>6, <1>7, <1>8, <1>9, <1>10,
     <1>11, <1>12, <1>13, <1>14, <1>15, <1>16


\* The page at hand is rendered.
LEMMA PageAtHand ==
  ASSUME TypeOK, NEW c \in Actors, NEW p \in made[c], p \notin hit[c], p \in made'[c],
         pc[c] = "render", p = Page(page[c]), [Next]_vars
  PROVE  disk'[p] = "full" \/ (pc'[c] = "render" /\ p = Page(page'[c]))
<1>1. ASSUME NEW a \in Actors, a \in Importers, NEW u \in Users, ImportSave(a, u)
      PROVE  disk'[p] = "full" \/ (pc'[c] = "render" /\ p = Page(page'[c]))
  BY <1>1, TypeFacts, KeptAndPages, CreateEffect DEF ImportSave, Go
<1>2. ASSUME NEW a \in Actors, a \in Importers, ImportCopied(a)
      PROVE  disk'[p] = "full" \/ (pc'[c] = "render" /\ p = Page(page'[c]))
  BY <1>2, TypeFacts, KeptAndPages, WrittenEffect, ForgetEffect DEF
     ImportCopied, Go
<1>3. ASSUME NEW a \in Actors, a \in Importers, SaveBreaksOff(a)
      PROVE  disk'[p] = "full" \/ (pc'[c] = "render" /\ p = Page(page'[c]))
  BY <1>3, TypeFacts, KeptAndPages, ForgetEffect DEF SaveBreaksOff, End, Go
<1>4. ASSUME NEW a \in Actors, a \in Importers, ImportInsert(a)
      PROVE  disk'[p] = "full" \/ (pc'[c] = "render" /\ p = Page(page'[c]))
  BY <1>4, TypeFacts, KeptAndPages, ForgetEffect DEF ImportInsert, End, Go
<1>5. ASSUME NEW a \in Actors, NEW u \in Users, WorkerBegin(a, u)
      PROVE  disk'[p] = "full" \/ (pc'[c] = "render" /\ p = Page(page'[c]))
  BY <1>5, TypeFacts, KeptAndPages DEF WorkerBegin, Go
<1>6. ASSUME NEW a \in Actors, Open(a)
      PROVE  disk'[p] = "full" \/ (pc'[c] = "render" /\ p = Page(page'[c]))
  BY <1>6, TypeFacts, KeptAndPages DEF Open, WithoutPages, Go
<1>7. ASSUME NEW a \in Actors, CreatePage(a)
      PROVE  disk'[p] = "full" \/ (pc'[c] = "render" /\ p = Page(page'[c]))
  BY <1>7, TypeFacts, KeptAndPages, CreateEffect DEF CreatePage, Go
<1>8. ASSUME NEW a \in Actors, RenderPage(a)
      PROVE  disk'[p] = "full" \/ (pc'[c] = "render" /\ p = Page(page'[c]))
  BY <1>8, TypeFacts, KeptAndPages, WrittenEffect DEF RenderPage, Go
<1>9. ASSUME NEW a \in Actors, ConversionFails(a)
      PROVE  disk'[p] = "full" \/ (pc'[c] = "render" /\ p = Page(page'[c]))
  BY <1>9, TypeFacts, KeptAndPages, ForgetEffect DEF ConversionFails,
     WithoutPages, Orphaned, Go
<1>10. ASSUME NEW a \in Actors, a \in Importers, PreviewSave(a)
       PROVE  disk'[p] = "full" \/ (pc'[c] = "render" /\ p = Page(page'[c]))
  BY <1>10, TypeFacts, KeptAndPages, CreateEffect DEF PreviewSave, Go
<1>11. ASSUME NEW a \in Actors, a \in Importers, PreviewCopied(a)
       PROVE  disk'[p] = "full" \/ (pc'[c] = "render" /\ p = Page(page'[c]))
  BY <1>11, TypeFacts, KeptAndPages, WrittenEffect, ForgetEffect DEF
     PreviewCopied, Go
<1>12. ASSUME NEW a \in Actors, a \in Importers, NoPreview(a)
       PROVE  disk'[p] = "full" \/ (pc'[c] = "render" /\ p = Page(page'[c]))
  BY <1>12, TypeFacts, KeptAndPages, ForgetEffect DEF NoPreview, Go
<1>13. ASSUME NEW a \in Actors, a \in Importers, ImportClean(a)
       PROVE  disk'[p] = "full" \/ (pc'[c] = "render" /\ p = Page(page'[c]))
  BY <1>13, TypeFacts, KeptAndPages, RemoveEffect DEF ImportClean, Go
<1>14. ASSUME NEW a \in Actors, WorkerClean(a)
       PROVE  disk'[p] = "full" \/ (pc'[c] = "render" /\ p = Page(page'[c]))
  BY <1>14, TypeFacts, KeptAndPages, RemoveEffect DEF WorkerClean, End, Go
<1>15. ASSUME NEW a \in Actors, Dies(a)
       PROVE  disk'[p] = "full" \/ (pc'[c] = "render" /\ p = Page(page'[c]))
  BY <1>15, TypeFacts, KeptAndPages, ForgetEffect DEF Dies, Orphaned, End, Go
<1>16. CASE UNCHANGED vars
  BY <1>16 DEF vars, actorVars
<1>. QED
  BY NextSteps, <1>1, <1>2, <1>3, <1>4, <1>5, <1>6, <1>7, <1>8, <1>9, <1>10,
     <1>11, <1>12, <1>13, <1>14, <1>15, <1>16


\* A page counted on was so before, or is the one at hand.
LEMMA PagesMade ==
  ASSUME TypeOK, NEW c \in Actors, NEW p \in made'[c], p \notin hit'[c], [Next]_vars
  PROVE  (p \in made[c] /\ p \notin hit[c]) \/ (pc'[c] = "render" /\ p = Page(page'[c]))
<1>1. ASSUME NEW a \in Actors, a \in Importers, NEW u \in Users, ImportSave(a, u)
      PROVE  (p \in made[c] /\ p \notin hit[c]) \/ (pc'[c] = "render" /\ p = Page(page'[c]))
  <2>1. Upload(u) \in Paths /\ Create(a, Upload(u))
    BY <1>1, TypeFacts, KeptAndPages DEF ImportSave
  <2>2. /\ disk'[Upload(u)] = "part"
        /\ \A q \in Paths \ {Upload(u)} : disk'[q] = disk[q]
        /\ hit'[a] = hit[a] \ {Upload(u)}
        /\ \A b \in Actors \ {a} : hit'[b] = hit[b] \cup ({Upload(u)} \cap Mine(b))
    BY <2>1, CreateEffect
  <2>3. CASE c = a
    BY <1>1, <2>2, <2>3, TypeFacts, KeptAndPages DEF ImportSave, Go
  <2>4. CASE c # a
    <3>1. made'[c] = made[c]
      BY <1>1, <2>4, TypeFacts DEF ImportSave, Go
    <3>. QED
      BY <2>2, <2>4, <3>1
  <2>. QED
    BY <2>3, <2>4
<1>2. ASSUME NEW a \in Actors, a \in Importers, ImportCopied(a)
      PROVE  (p \in made[c] /\ p \notin hit[c]) \/ (pc'[c] = "render" /\ p = Page(page'[c]))
  BY <1>2, TypeFacts, KeptAndPages, WrittenEffect, ForgetEffect DEF
     ImportCopied, Go
<1>3. ASSUME NEW a \in Actors, a \in Importers, SaveBreaksOff(a)
      PROVE  (p \in made[c] /\ p \notin hit[c]) \/ (pc'[c] = "render" /\ p = Page(page'[c]))
  BY <1>3, TypeFacts, KeptAndPages, ForgetEffect DEF SaveBreaksOff, End, Go
<1>4. ASSUME NEW a \in Actors, a \in Importers, ImportInsert(a)
      PROVE  (p \in made[c] /\ p \notin hit[c]) \/ (pc'[c] = "render" /\ p = Page(page'[c]))
  BY <1>4, TypeFacts, KeptAndPages, ForgetEffect DEF ImportInsert, End, Go
<1>5. ASSUME NEW a \in Actors, NEW u \in Users, WorkerBegin(a, u)
      PROVE  (p \in made[c] /\ p \notin hit[c]) \/ (pc'[c] = "render" /\ p = Page(page'[c]))
  BY <1>5, TypeFacts, KeptAndPages DEF WorkerBegin, Go
<1>6. ASSUME NEW a \in Actors, Open(a)
      PROVE  (p \in made[c] /\ p \notin hit[c]) \/ (pc'[c] = "render" /\ p = Page(page'[c]))
  BY <1>6, TypeFacts, KeptAndPages DEF Open, WithoutPages, Go
<1>7. ASSUME NEW a \in Actors, CreatePage(a)
      PROVE  (p \in made[c] /\ p \notin hit[c]) \/ (pc'[c] = "render" /\ p = Page(page'[c]))
  <2>1. Page(page[a]) \in Paths /\ Create(a, Page(page[a]))
    BY <1>7, TypeFacts, KeptAndPages DEF CreatePage
  <2>2. /\ disk'[Page(page[a])] = "part"
        /\ \A q \in Paths \ {Page(page[a])} : disk'[q] = disk[q]
        /\ hit'[a] = hit[a] \ {Page(page[a])}
        /\ \A b \in Actors \ {a} : hit'[b] = hit[b] \cup ({Page(page[a])} \cap Mine(b))
    BY <2>1, CreateEffect
  <2>3. CASE c = a
    BY <1>7, <2>2, <2>3, TypeFacts, KeptAndPages DEF CreatePage, Go
  <2>4. CASE c # a
    <3>1. made'[c] = made[c]
      BY <1>7, <2>4, TypeFacts DEF CreatePage, Go
    <3>. QED
      BY <2>2, <2>4, <3>1
  <2>. QED
    BY <2>3, <2>4
<1>8. ASSUME NEW a \in Actors, RenderPage(a)
      PROVE  (p \in made[c] /\ p \notin hit[c]) \/ (pc'[c] = "render" /\ p = Page(page'[c]))
  BY <1>8, TypeFacts, KeptAndPages, WrittenEffect DEF RenderPage, Go
<1>9. ASSUME NEW a \in Actors, ConversionFails(a)
      PROVE  (p \in made[c] /\ p \notin hit[c]) \/ (pc'[c] = "render" /\ p = Page(page'[c]))
  BY <1>9, TypeFacts, KeptAndPages, ForgetEffect DEF ConversionFails,
     WithoutPages, Orphaned, Go
<1>10. ASSUME NEW a \in Actors, a \in Importers, PreviewSave(a)
       PROVE  (p \in made[c] /\ p \notin hit[c]) \/ (pc'[c] = "render" /\ p = Page(page'[c]))
  <2>1. Preview(own[a]) \in Paths /\ Create(a, Preview(own[a]))
    BY <1>10, TypeFacts, KeptAndPages DEF PreviewSave
  <2>2. /\ disk'[Preview(own[a])] = "part"
        /\ \A q \in Paths \ {Preview(own[a])} : disk'[q] = disk[q]
        /\ hit'[a] = hit[a] \ {Preview(own[a])}
        /\ \A b \in Actors \ {a} : hit'[b] = hit[b] \cup ({Preview(own[a])} \cap Mine(b))
    BY <2>1, CreateEffect
  <2>3. CASE c = a
    BY <1>10, <2>2, <2>3, TypeFacts, KeptAndPages DEF PreviewSave, Go
  <2>4. CASE c # a
    <3>1. made'[c] = made[c]
      BY <1>10, <2>4, TypeFacts DEF PreviewSave, Go
    <3>. QED
      BY <2>2, <2>4, <3>1
  <2>. QED
    BY <2>3, <2>4
<1>11. ASSUME NEW a \in Actors, a \in Importers, PreviewCopied(a)
       PROVE  (p \in made[c] /\ p \notin hit[c]) \/ (pc'[c] = "render" /\ p = Page(page'[c]))
  <2>1. made'[c] = made[c]
    BY <1>11, TypeFacts DEF PreviewCopied, Go
  <2>2. Preview(own[a]) \in Kept /\ made[c] \subseteq Pages
    BY <1>11, TypeFacts DEF PreviewCopied, Go
  <2>3. hit'[a] = hit[a] \ {Preview(own[a])} /\ \A b \in Actors \ {a} : hit'[b] = hit[b]
    BY <1>11, ForgetEffect DEF PreviewCopied, Go
  <2>. QED
    BY <2>1, <2>2, <2>3, KeptAndPages
<1>12. ASSUME NEW a \in Actors, a \in Importers, NoPreview(a)
       PROVE  (p \in made[c] /\ p \notin hit[c]) \/ (pc'[c] = "render" /\ p = Page(page'[c]))
  <2>1. made'[c] = made[c]
    BY <1>12, TypeFacts DEF NoPreview, Go
  <2>2. Preview(own[a]) \in Kept /\ made[c] \subseteq Pages
    BY <1>12, TypeFacts DEF NoPreview, Go
  <2>3. hit'[a] = hit[a] \ {Preview(own[a])} /\ \A b \in Actors \ {a} : hit'[b] = hit[b]
    BY <1>12, ForgetEffect DEF NoPreview, Go
  <2>. QED
    BY <2>1, <2>2, <2>3, KeptAndPages
<1>13. ASSUME NEW a \in Actors, a \in Importers, ImportClean(a)
       PROVE  (p \in made[c] /\ p \notin hit[c]) \/ (pc'[c] = "render" /\ p = Page(page'[c]))
  <2>1. made[a] \in SUBSET Paths /\ made[a] \in SUBSET Pages /\ Remove(a, made[a])
    BY <1>13, TypeFacts DEF ImportClean
  <2>2. /\ \A q \in made[a] : disk'[q] = "none"
        /\ \A q \in Paths \ made[a] : disk'[q] = disk[q]
        /\ hit'[a] = hit[a] \ made[a]
        /\ \A b \in Actors \ {a} : hit'[b] = hit[b] \cup (made[a] \cap Mine(b))
        /\ left' = left \ made[a]
    BY <2>1, RemoveEffect
  <2>3. CASE c = a
    BY <1>13, <2>2, <2>3, TypeFacts, KeptAndPages DEF ImportClean, Go
  <2>4. CASE c # a
    <3>1. made'[c] = made[c]
      BY <1>13, <2>4, TypeFacts DEF ImportClean, Go
    <3>. QED
      BY <2>2, <2>4, <3>1
  <2>. QED
    BY <2>3, <2>4
<1>14. ASSUME NEW a \in Actors, WorkerClean(a)
       PROVE  (p \in made[c] /\ p \notin hit[c]) \/ (pc'[c] = "render" /\ p = Page(page'[c]))
  <2>1. made[a] \in SUBSET Paths /\ made[a] \in SUBSET Pages /\ Remove(a, made[a])
    BY <1>14, TypeFacts DEF WorkerClean
  <2>2. /\ \A q \in made[a] : disk'[q] = "none"
        /\ \A q \in Paths \ made[a] : disk'[q] = disk[q]
        /\ hit'[a] = hit[a] \ made[a]
        /\ \A b \in Actors \ {a} : hit'[b] = hit[b] \cup (made[a] \cap Mine(b))
        /\ left' = left \ made[a]
    BY <2>1, RemoveEffect
  <2>3. CASE c = a
    BY <1>14, <2>2, <2>3, TypeFacts, KeptAndPages DEF WorkerClean, End, Go
  <2>4. CASE c # a
    <3>1. made'[c] = made[c]
      BY <1>14, <2>4, TypeFacts DEF WorkerClean, End, Go
    <3>. QED
      BY <2>2, <2>4, <3>1
  <2>. QED
    BY <2>3, <2>4
<1>15. ASSUME NEW a \in Actors, Dies(a)
       PROVE  (p \in made[c] /\ p \notin hit[c]) \/ (pc'[c] = "render" /\ p = Page(page'[c]))
  BY <1>15, TypeFacts, KeptAndPages, ForgetEffect DEF Dies, Orphaned, End, Go
<1>16. CASE UNCHANGED vars
  BY <1>16 DEF vars, actorVars
<1>. QED
  BY NextSteps, <1>1, <1>2, <1>3, <1>4, <1>5, <1>6, <1>7, <1>8, <1>9, <1>10,
     <1>11, <1>12, <1>13, <1>14, <1>15, <1>16

-------------------------------------------------------------------------------
(* The invariant                                                             *)

\* The strengthened invariant is inductive.
LEMMA FilesStep ==
  ASSUME FilesInv, [Next]_vars
  PROVE  FilesInv'
<1>. USE DEF FilesInv
<1>1. TypeOK'
  BY TypeStep
<1>2. NothingMade'
  BY <1>1, MadeStep DEF NothingMade
<1>3. UploadThere'
  BY UploadStep DEF UploadThere
<1>4. PreviewThere'
  BY PreviewStep DEF PreviewThere
<1>5. InvoiceFiles'
  <2>1. ASSUME NEW u \in known'
        PROVE  disk'[Upload(u)] # "none"
    <3>1. u \in Users /\ disk[Upload(u)] # "none"
      BY RowsStep DEF TypeOK, InvoiceFiles
    <3>. QED
      BY <3>1, KeptStays, KeptAndPages
  <2>2. ASSUME NEW u \in shown'
        PROVE  disk'[Preview(u)] # "none"
    <3>1. u \in Users /\ disk[Preview(u)] # "none"
      BY RowsStep DEF TypeOK, InvoiceFiles
    <3>. QED
      BY <3>1, KeptStays, KeptAndPages
  <2>. QED
    BY <2>1, <2>2 DEF InvoiceFiles
<1>6. PartsAreCopied'
  <2>1. ASSUME NEW p \in Kept, disk'[p] = "part"
        PROVE  p \in spoiled' \/ \E c \in Importers : LastCopies(c, p)'
    <3>1. CASE disk[p] = "part" /\ p \in spoiled
      BY <2>1, <3>1, SpoiledStays
    <3>2. CASE disk[p] = "part" /\ \E c \in Importers : LastCopies(c, p)
      BY <2>1, <3>2, CopyStep
    <3>3. CASE disk[p] # "part"
      BY <2>1, <3>3, PartIsNew
    <3>. QED
      BY <3>1, <3>2, <3>3 DEF PartsAreCopied
  <2>. QED
    BY <2>1 DEF PartsAreCopied
<1>7. TempIsClean'
  <2>1. ASSUME NEW p \in Pages, disk'[p] # "none"
        PROVE  p \in left' \/ \E c \in Actors : p \in made'[c]
    <3>1. CASE disk[p] = "none"
      BY <2>1, <3>1, PageIsNew
    <3>2. CASE p \in left
      BY <2>1, <3>2, LeftStays
    <3>3. CASE disk[p] # "none" /\ \E c \in Actors : p \in made[c]
      BY <2>1, <3>3, MindedStep
    <3>. QED
      BY <3>1, <3>2, <3>3 DEF TempIsClean
  <2>. QED
    BY <2>1 DEF TempIsClean
<1>8. MadePagesAreWhole'
  <2>1. ASSUME NEW c \in Actors, NEW p \in made'[c], p \notin hit'[c]
        PROVE  disk'[p] = "full" \/ (pc'[c] = "render" /\ p = Page(page'[c]))
    <3>1. CASE p \in made[c] /\ p \notin hit[c] /\ disk[p] = "full"
      BY <2>1, <3>1, OwnPages
    <3>2. CASE p \in made[c] /\ p \notin hit[c] /\ pc[c] = "render" /\ p = Page(page[c])
      BY <2>1, <3>2, PageAtHand
    <3>. QED
      BY <2>1, <3>1, <3>2, PagesMade DEF MadePagesAreWhole
  <2>. QED
    BY <2>1 DEF MadePagesAreWhole
<1>. QED
  BY <1>1, <1>2, <1>3, <1>4, <1>5, <1>6, <1>7, <1>8

LEMMA FilesStart == Init => FilesInv
<1>. SUFFICES ASSUME Init PROVE FilesInv
  OBVIOUS
<1>1. TypeOK
  <2>1. page \in [Actors -> 1 .. PageCount]
    BY PageNumbers DEF Init
  <2>. QED
    BY <2>1 DEF Init, TypeOK
<1>2. TempIsClean /\ PartsAreCopied
  BY KeptAndPages DEF Init, TempIsClean, PartsAreCopied
<1>. QED
  BY <1>1, <1>2
     DEF Init, FilesInv, NothingMade, UploadThere, PreviewThere, InvoiceFiles,
         MadePagesAreWhole

-------------------------------------------------------------------------------
(* Theorems                                                                *)

\* Whatever the imports, the workers and the processes that die between two of
\* their steps do to the files of a document, FilesInv holds.
THEOREM FilesInvariant == Spec => []FilesInv
BY FilesStart, FilesStep, PTL DEF Spec

\* The files, program counters and locals stay in their sets.
THEOREM TypeCorrect == Spec => []TypeOK
BY FilesInvariant, PTL DEF FilesInv

\* The upload behind an invoice and its preview are there, and whole unless
\* somebody is copying them or a broken-off copy has been noted: the last import
\* to create the file is the one that completes it (storage.go:60).
THEOREM KeptFilesAreWhole == Spec => []KeptIsWhole
<1>1. FilesInv => KeptIsWhole
  BY DEF FilesInv, InvoiceFiles, PartsAreCopied, LastCopies, KeptIsWhole, Copying
<1>. QED
  BY <1>1, FilesInvariant, PTL

\* A page in the temporary directory is going to be removed, or was left by a
\* failed conversion or a dead process (media.go:29).
THEOREM TemporaryFilesAreMinded == Spec => []TempIsClean
BY FilesInvariant, PTL DEF FilesInv

\* The pages a conversion has handed on are whole until they are removed, but
\* for those another conversion of the document has touched (media.go:30).
THEOREM PagesHandedOnAreWhole == Spec => []PagesAreWhole
<1>1. FilesInv => PagesAreWhole
  BY DEF FilesInv, MadePagesAreWhole, PagesAreWhole
<1>. QED
  BY <1>1, FilesInvariant, PTL

===============================================================================
