# importinvoices: verification project

importinvoices is a self-hosted server (Go, SQLite) that takes in invoice
files, lets a language model read them, lets a user review the result and hands
confirmed invoices to accounting programs. This directory holds TLA+ modules
that model it, the TLC configurations that check them on small instances,
proofs that TLAPS checks, and `PROJECT.json`, which ties every definition to the
lines it stands for.

Each configuration is checked with the MC module of the same component, for
example `tlc -config PipelineCore.cfg MCTicketHistory`; the table under
[runs](#runs-and-what-they-show) names both. The proofs are checked with
`tlapm InvoicePipelineProofs.tla` and so on.

Contents: [the system](#the-system) · [plan](#plan) · [modules](#modules) ·
[runs](#runs-and-what-they-show) · [fairness](#fairness) · [proofs](#proofs) ·
[where code and documents disagree](#where-code-and-documents-disagree) ·
[behaviours without a run](#behaviours-without-a-run-of-their-own) ·
[not modelled](#what-is-not-modelled)

## The system

Paths are below `src/server/internal/`. One process, `serve`
(`cli/serve.go`), runs these goroutines on one SQLite database that it opens
with a single connection (`db/store.go:27`):

- the HTTP server, one goroutine per request (`httpapi/`, calling `service/`);
- the worker, which takes invoice ids from a channel of 100 places
  (`worker/worker.go`);
- the recovery, once at boot, concurrently with the other two
  (`service/recovery.go`, started at `cli/serve.go:78`);
- an hourly cleanup of expired sessions.

A second process, `mcp`, serves tools over stdin and stdout, with a queue and
a worker of its own on the same database file.

| Component | State | Operations | What makes it hard | Correct when | Module |
|---|---|---|---|---|---|
| Worker | channel; the invoice in hand | `Queue`, `Start`, `process` | several SQL statements with a long model call between them; killed anywhere; a blocking send | every queued invoice ends up processed, failed or duplicate; none is processed twice; keys stay unique | `InvoicePipeline` |
| Boot recovery | open cursor, connection | `RecoverStuckInvoices` | runs beside requests; holds the only connection while it sends | every pending or interrupted invoice is queued exactly once | `InvoicePipeline` |
| Import | table `invoices`, file store | `ImportInvoice` | checksum lookup and INSERT are apart; INSERT and send are apart | one row per file, others are its duplicates; no pending row without a ticket | `InvoicePipeline`, `McpImport` |
| Review | status and fields; the order of the queue | `UpdateInvoice`, `ConfirmInvoice`, `ScheduleReprocess`; links and position | the edit checks a status it read earlier; a page is four statements | the transition table of `QA.md:285-297`; a walk shows everything | `InvoicePipeline`, `ReviewQueue` |
| Review form, decimals | rows of a table in the browser | typing, adding and removing rows, saving | indices, decimal separators, NULL and zero | what is typed is stored | `ReviewedExport`, `Decimal` |
| Export | status, `export_batches` | `ExportInvoices`, `MarkInvoicesExported` | rendering or an API call between gate and mark; separate statements | nothing posted twice; only exported what was confirmed; every run recorded | `InvoiceExport` |
| Export engine | a cache of companies per payload | `BuildPayload`, reconciliation | signs of credit notes, companies under three keys, buckets | the amounts in the export are those of the invoice; each invoice in its bucket | `ExportPayload` |
| Identity, setup | users, roles, sessions | roles, deletion, passwords, sessions, first run | check-then-act in separate statements | an administrator always remains; a changed password ends the old sessions; one setup | `Identity` |
| Login limiter | failures per address, a mutex | `allow`, `recordFailure`, `reset` | separate critical sections | at most *max* failures per window | `Identity` |
| Companies | companies, links from invoices | match, upsert, merge, delete | merges and deletions against several workers' lookups and links | no link to a company that is gone; one row per VAT code; the right company | `Companies` |
| VAT classifiers | classifiers, codes on lines | create, update, delete, catalogue import | count-then-delete; readers that use what they read minutes ago | a line with an unknown code is flagged; no line refers to a deleted code | `VatClassifiers` |
| Media, storage | temporary pages, stored files | `ConvertToImages`, `Save` | concurrent work on one document shares names; failures half-way | a reader sees the whole file; nothing piles up | `FileStore` |
| MCP server | own queue and worker | import tool with its wait loop | two workers on one table; recovery of one process under the other | the answer tells the invoice's real state; nothing is read twice | `McpImport` |
| AI processors, webhooks, export templates, config, HTTP plumbing | little or none | | network and text | see [not modelled](#what-is-not-modelled) | |

How they interact: handlers and the recovery call `Worker.Queue`; the worker
reads and writes the `invoices` row through the same connection as everybody
else; after a save it resolves companies and fires webhooks; it reads the VAT
classifiers before the extraction and renders the stored file into temporary
pages; the review and export handlers change the same rows; a restart loses the
channel and every blocked handler, and only the `status` column tells the next
boot what to do. `mcp` shares the database, the stored files and the temporary
directory with `serve`, and nothing else: no lock, no queue.

`PROJECT.json` lists each component with its sources and status, and under
"hazards" each place where this code is hard to test, with the properties that
cover it.

## Plan

The order the modules were written in, and what each one builds on:

1. `InvoiceLifecycle`, the abstract book: what happens to invoices as atomic
   steps.
2. `InvoicePipeline`: import, edit, confirm, reprocess and export handlers,
   queue, worker, recovery, crash and restart; and `TicketHistory`, which adds
   what its promises except and shows that it implements 1.
3. `InvoiceExport`: requests with several invoices, one statement at a time.
4. `Identity`: users, roles, sessions, setup, with the login limiter.
5. `Companies`: match, upsert, merge and delete against the workers' links.
6. `VatClassifiers`: lines, warnings and the settings.
7. `FileStore`: uploads, previews and temporary pages of one document.
8. `McpImport`: two processes, two queues, one table, and the import tool.
9. `ReviewQueue`: the walk through the review, a page being several statements.
10. `Decimal`, `ExportPayload`, and `ReviewedExport`, which composes them: from
    the form over the database to the payload.

Each of 2 to 8 has a module of proofs, and 9 and 10 share `ReviewProofs`. What is
left: an abstract ledger, in
which a posting is one step, for 3; a directory that merges act on at once, for
5; the items of duplicates, which join 2 and 6.

## Modules

In all of them an action is what a goroutine or process does between two
points at which another one can get in: a statement or a transaction, a channel
operation, a critical section, a system call on a file. A definition with a
comment "Mutant" is a variant of the definition after it with a plausible bug;
no action uses it, and `PROJECT.json` says which property it would break. A
variable with a comment "history" is read by no guard.

### InvoiceLifecycle

Three variables stand for the columns of `invoices` that the workflow is
about: `status`, `key` (`seller_vat` and `series_and_number`, one model value)
and `dupOf` (`duplicate_of_id`). `"absent"` is a row that is not inserted yet.
Every permitted change is one action: `Register`, `RegisterDuplicate`, `Begin`,
`Publish`, `MarkDuplicate`, `Fail`, `Interrupt`, `Confirm`, `Redo`, `Export`,
`Amend`. A fourth, `again`, holds the invoices that the last boot put in line a
second time (`LineUpAgain`) and the next crash forgets (`Forget`): they are the
only ones `Begin` may start whatever their status is. `Live` and `KeyTaken` are
the partial unique index of `db/migrations/001_initial.sql:203-205`.

### InvoicePipeline

| Actions | Code |
|---|---|
| `ImportCheck`, `ImportInsert`, `Enqueue` | `ImportInvoice`: checksum lookup; files, preview, INSERT; `Queue` |
| `EditRead`, `EditWrite` | `handleUpdateInvoice` up to its guard; `UpdateInvoice` |
| `ConfirmInvoice` | one guarded UPDATE |
| `ScheduleReprocess`, `Enqueue` | one guarded UPDATE; `Queue` |
| `ExportLoad`, `MarkInvoicesExported` | status gate; guarded UPDATE |
| `RequestDropped` | an early return between two steps of a handler: client gone, disk full, invalid form, failed posting, export without marking |
| `WorkerTake` … `WorkerFail` | `Start` and `process`: receive, claim, extraction, dedup lookup, transaction, deferred failure |
| `RecoverReset`, `RecoverSelect`, `RecoverSend`, `RecoverFails` | `RecoverStuckInvoices`; the connection is held from the SELECT to the last send |
| `Crash`, `Restart` | SIGKILL, power loss, SIGTERM; the container's restart policy |

State: `queue` is the channel; `wpc`, `cur`, `found`, `orig` are the locals of
`process`; `boot`, `todo`, `stale` those of the recovery; `rpc`, `rinv`, `rfile`
those of each handler in flight; `file` is the `checksum` column.

What the data is reduced to: the content of an invoice is its business key; the
language model may return any key or an error; a file is its checksum. Time
appears only in the five-minute threshold of the recovery: `stale` is the set of
rows older than it at boot: any subset of the interrupted rows if
`QuickRestart`, all of them otherwise.

Three switches say which environment is considered:

- `BootOverlap`: requests are served while the recovery is still running. This
  is what `serve.go` does, and what the passing runs consider. With FALSE,
  requests start after it, which is what happens in practice when nobody is
  connected during a boot.
- `QuickRestart`: a restart may come within the threshold.
- `DbErrors`: SQL statements may fail for reasons other than the unique index
  (disk full, I/O error, a cancelled context).

### TicketHistory

`InvoicePipeline` with three history variables, set by `Record` in every step and
read by none, that say where the environment has taken something away:

- `doubled`: invoices that had a ticket when the recovery of the last boot opened
  its cursor over them (`Doubles`), because a request it overlapped had put them
  in line;
- `dropped`: unsettled invoices that a failing SQL statement has left behind since
  the last boot (`Lost`): the worker's claim, its deferred handler, or a recovery
  that gives up;
- `reopened`: duplicates whose second ticket was taken, until the worker saves
  them: meanwhile they have a link and another status.

The properties of the pipeline are stated here for all other invoices, and hold
in every environment. The refinement is explicit: `Workflow == INSTANCE
InvoiceLifecycle WITH status <- status, ..., again <- doubled`, and
`ImplementsLifecycle` is the book's specification under it.

### InvoiceExport

| Actions | Code |
|---|---|
| `Submit` | `handleExport`, `handleExportAPI` up to the call of `ExportInvoices` |
| `LoadHeader`, `Refuse` | `loadExportData`: the row of the next id, the status gate |
| `LoadItems` | `ListInvoiceItems`, a second query |
| `PostToAPI` | `exportWithTemplate` with `ExecuteAPI`; the payload arrives, the answer may not |
| `RenderFile` | `RenderTemplateFiles` or `WriteQuickFormat` into memory |
| `RecordBatch`, `LinkInvoice`, `LinkRejected` | `recordExportBatch`: a row, then an INSERT per id under a primary key |
| `MarkExported` | `MarkInvoicesExported`: one guarded UPDATE per id |
| `Answer` | the handler's answer, with the file if there is one |
| `Abort` | an SQL error, a template that does not render, a refused posting, a client that is gone |
| `Crash` | the process dies; requests in flight end where they are |
| `ConfirmInvoice`, `UpdateInvoice`, `ScheduleReprocess`, `WorkerSave`, `WorkerFail` | what the workflow does to the rows meanwhile, one transaction each |

State: `status`, `version` and `reviewed` for each invoice; for each request
`pc` and the locals `form` (ids, template type, `mark_exported`, `re_export`),
`next`, `head`, `lines`; its audit rows `batch` and `linked`; `ledger`, what
the accounting program got from it; `after`, the requests that had answered
before it was submitted.

The content of an invoice is a version number that edits and extractions
increase. It is reviewed if a user confirmed it or typed it. `reviewed`,
`ledger` and `after` are history. `"pending"` stands for pending and processing,
which are the same to an export, and for a duplicate, which is never exported
either. The worker and the review are coarser than in `InvoicePipeline`: they
are the environment here.

### Identity

| Actions | Code |
|---|---|
| `SetupCheck`, `Setup` | `handleSetup`, and `onboard` in a process of its own: a look for users, then one transaction with organization and administrator |
| `LimiterAllow`, `Authenticate`, `RecordFailure` or `CreateSession`, `LimiterReset` | `handleLogin`: two critical sections of the limiter around a query, a slow comparison and an INSERT |
| `SessionEnds`, `Forget` | logout and expiry; a failure leaves the limiter's window |
| `Authorize` | `authMiddleware` and `requireAdmin`: user and role are read once, at the start |
| `VerifyUserPassword`, `UpdateOwnPassword`, `CreateSession` | `handleProfile` with a new password |
| `UserPasswordSet`, `ResetPassword` | an administrator, or the command `reset-password`, sets a password |
| `CreateUserWithRole` | `handleUserCreate` |
| `ReadTarget`, `CountAdmins`, `UpdateUserRole` or `DeleteUser` | `UpdateUserRole` and `DeleteUserAs`: three statements |
| `RequestEnds` | an early return or a failed statement |
| `Crash` | the server restarts: requests and the limiter's memory are gone |

State: `role` and `hash` are columns of `users`, `session` the rows of `sessions`
that have not expired, `orgs` the number of organizations, `attempts` what the
limiter holds per address, `req` the locals of the requests in flight. A hash is a
number that every change of the password increases; a session carries the one
that was checked when it was opened. `overlaps` is history:
the kinds of changes (of roles, setup, of a password) that were made while
another request stood between the look it bases its own on and the change. The
properties of this module hold unless such an overlap has happened, and the
proofs show that nothing else can break them.

### Companies

| Actions | Code |
|---|---|
| `WorkerCommit` | the end of the transaction of `process`; the invoice counts, or is a duplicate |
| `SkipSide`, `MatchCompany` | `resolveCompanyID` for the seller, then the buyer: `MatchCompany` by VAT code, code, title |
| `UpsertFind`, `UpsertInsert`, `UpsertUpdate`, `UpsertFails` | `UpsertCompany`: the same lookup again, then an INSERT, or an UPDATE with `COALESCE(NULLIF(...))` per column, under the partial unique index on the VAT code |
| `LinkCompanies`, `LinkNothing` | the UPDATE of both link columns; the foreign key |
| `WorkerDies`, `InvoiceFails`, `InvoiceReprocessed` | the environment |
| `DeleteCheck`, `DeleteCompany` | the count that leaves duplicates and failed invoices out; the DELETE with `ON DELETE SET NULL` |
| `MergeReadSource`, `MergeReadTarget`, `MergeCompanies`, `RequestEnds` | two reads, then one transaction that moves the links and deletes the source |

State: `row` is the table, with the four columns the lookups read; `link` the
two link columns; `hidden` the invoices that the deletion does not count.
Workers and requests have their locals. A VAT number is a country prefix and a
number; `Normalize` is `normalizeVATCode`, which strips two letters if something
else than a letter follows. Ids come from `uuid.New` and are never handed out
twice (`used`). Several workers are several processes.

### VatClassifiers

| Actions | Code |
|---|---|
| `WorkerRead`, `WorkerSave`, `WorkerSaveDuplicate` | `process`: the active classifiers before the extraction; lines and warning in its transaction |
| `EditRead`, `EditWrite` | `UpdateInvoice`: all classifiers before its transaction; lines and warning in it |
| `DeleteRead`, `DeleteCount`, `DeleteVatClassifier` | three statements |
| `CreateVatClassifier`, `UpdateVatClassifier`, `ImportCatalogCountry` | one statement, or one transaction |
| `ActorEnds` | an early return, a failed statement or extraction, a process that dies |

State: `row` is the table; `lines` gives each invoice its lines as a function
from codes to tariffs; `warned` is `vat_warning`. A map by code over rows in no
order takes any of several rows with the same code (`TariffMaps`); a reader who
ignores the errors of the query, of a row and of the iteration, as both of them
do, may have read any part of the rows (`MapsRead`). `since` and
`lost` are history: what was written since a deletion counted, and which codes
left the table since a read.

### FileStore

The files of one document: `Upload(u)` and `Preview(u)` under the user and the
checksum, `Page(n)` in the temporary directory under the checksum alone.

| Actions | Code |
|---|---|
| `ImportSave`, `ImportCopied`, `SaveBreaksOff` | `Storage.Save`: `os.Create` truncates, `io.Copy` fills, either may be the last thing that happens |
| `Open`, `CreatePage`, `RenderPage`, `ConversionFails` | `ConvertToImages`, page after page; with a failure the caller gets no paths |
| `PreviewSave`, `PreviewCopied`, `NoPreview`, `ImportClean`, `ImportInsert` | the best-effort preview of `ImportInvoice`, the removal of the pages, the row |
| `WorkerBegin`, `WorkerClean` | `process`: the pages go to the model and are removed by the deferred call; without pages it falls back to the upload |
| `Dies` | the process of an import or worker ends |

`disk` says of each path whether there is nothing, a part or all. Who writes a
file that somebody else has truncated or removed meanwhile leaves what chance
says (`Written`). `hit`, `left` and `spoiled` are history: what others touched
under an actor, what nobody will remove, what a broken-off copy has left.

### McpImport

| Actions | Code |
|---|---|
| `Lookup`, `LookupFails`, `Insert`, `Enqueue`, `ImportEnds` | `ImportInvoice`, by an upload of `serve` or by the import tool, with the queue of its own process; a lookup that fails counts as no duplicate (`import.go:50-54`) |
| `Poll`, `PollsEnd` | the loop of `callTool`: one look per second, sixty times |
| `WorkerTake`, `WorkerClaim`, `WorkerFinish` | the worker of either process |
| `WorkerClaimFails`, `WorkerMarkFails` | an error before the deferred handler is installed (`worker.go:67-76`), and one of its own UPDATE, which is only logged (`worker.go:82-84`) |
| `ConfirmInvoice`, `MarkExported`, `ScheduleReprocess` | users of `serve` |
| `ProcessEnds`, `McpStarts`, `ServeStarts` | either process ends anywhere; `serve` recovers when it starts, `mcp` does not |
| `RecoverReset`, `RecoverSelect`, `RecoverSend`, `RecoverFails` | `RecoverStuckInvoices`, a goroutine beside the handlers and the worker (`serve.go:78`); its cursor keeps the connection of `serve` (`CanQuery`), and any of its statements can fail |

An extraction is a claim and an outcome here; `InvoicePipeline` looks into it.
Every statement can fail, also because the other process has the database locked;
where that leaves the state as it was, the handler ends (`ImportEnds`) or the
worker marks a failure, and where it does not there is an action for it. `answer`
is what the agent was told. Three history variables name the exceptions that the
properties make:

- `twice`: invoices that a recovery reset or found pending while a process held
  them, whichever process that was;
- `dropped`: invoices a process held when it ended or gave up on an error, until
  a recovery queues them;
- `raced`: files that two imports looked up before either inserted, or that a
  failing lookup missed.

### ReviewQueue

| Actions | Code |
|---|---|
| `ReviewStart`, `FollowNext`, `FollowPrevious` | the links a reviewer can click |
| `ReadInvoice`, `NextUnconfirmedInvoiceID`, `PreviousUnconfirmedInvoiceID`, `CountUnconfirmedBefore`, `CountUnconfirmedInvoices` | the statements of one review page |
| `ConfirmInvoice`, `AfterConfirmNext`, `AfterConfirmPrevious` | `handleConfirm` and its redirects |
| `ErrorPage`, `ReviewQueueFails`, `ConfirmFails`, `NextLookupFails`, `PreviousLookupFails` | a statement fails: the invoice's own gives an error page; those of its links and position are passed over (`review.go:47`), as are the two lookups after a confirmation (`review.go:264`, `271`) |
| `ImportInvoice`, `WorkerPublishes`, `OtherConfirms`, `ScheduleReprocess` | what happens between two statements |

The queue is ordered by `created_at` in seconds, ties by id; `Behind` is that
order. `walk`, `since`, `shown` and `failed` (a lookup after the confirmation at
hand has failed) are history.

### Decimal, ExportPayload, ReviewedExport

`Decimal` is `decimal.Parse` with the rounding to cents and the rendering back,
over sequences of characters. `ExportPayload` is `BuildPayload` with the
company cache that its loop fills, the classification, the signs and the
reconciliation; its loops are recursive functions of the number of turns
(`Loop`, `Sums`), as are the ones over characters (`Left`, `Value`).
`ReviewedExport` puts them
behind each other: a form is opened (`OpenPage`), edited (`AddRow`,
`RemoveRow`, `TypeDescription`, `TypeTotal`, `TypeGross`), saved (`Save`: the
loop over the indices of the form, parsing, storing) and the invoice is
exported with others (`Export`); nothing keeps an id from being selected twice.
The reference for parsing is `Says`: it writes
an amount in the styles that the comment of `decimal.Parse` lists, so that a
text comes with the amount it means. Amounts are exact; the code's `float64`
is, too, once rounded to cents, as long as an amount has fewer than 2^53 of
them.

### The MC modules

They give constants their values and name the symmetries. Symmetry is used in
runs without liveness properties only, of values that no instance tells apart:
invoices and handlers in `MCTicketHistory` (`PipelineCore`), requests in `Export`, users, requests
and tokens in `Identity`, ids, workers and requests in `Companies`, ids,
invoices and requests in `Vat`, importers in `Files`.

## Runs and what they show

| Run | Module | Instance | Checks |
|---|---|---|---|
| `PipelineCore` | `MCTicketHistory` | 3 invoices, 1 file, 1 key, 2 handlers, queue of 1, overlap, quick restarts and SQL errors | `TypeOK`, `NoLostWork`, `SingleTicket`, `DuplicatesGrounded`, `RecoveryFitsQueue`, `ImplementsLifecycle` |
| `PipelineLive` | `MCTicketHistory` | 2 invoices, 1 file, a key and a blank key, 1 handler, queue of 3, overlap and SQL errors, fairness | `EveryInvoiceSettles` |
| `Export` | `MCInvoiceExport` | 2 invoices, 2 requests, the five forms, 2 versions of each invoice | `TypeOK`, `RecordedFirst`, `PostedHeadersReviewed`, `NoLaterRepost` |
| `Identity` | `MCIdentity` | 3 users, 2 requests, 1 session, 1 address, a limit of 1 failure, 1 password change per user | `TypeOK`, `AdminRemains`, `OneOrganization`, `SessionsAreCurrent`, `FailuresBounded` |
| `Companies` | `MCCompanies` | 2 ids, 1 invoice, 2 workers, 2 requests, 3 extractions of four parties | `OncePerVat`, `ResolvedFits`, `KeylessWasMatched`, `MergeLosesNoLink`, `DeletedLinksAreNew` |
| `Vat` | `MCVatClassifiers` | 3 ids, 1 invoice, 1 worker, 1 request, a catalogue of 2, 2 forms, an unknown code | `WarningMatchesLines`, `UnknownIsFlagged`, `DeletedIsUnused` |
| `Files` | `MCFileStore` | 1 user, 2 imports, 1 worker, 2 pages | `KeptIsWhole`, `TempIsClean`, `PagesAreWhole` |
| `McpImport` | `MCMcpImport` | 2 invoices of 1 file, 1 upload beside the tool, 1 poll, queues of 1, 1 death or failing statement, 1 invoice in `twice`, fairness | `HeldOnce`, `AnswersStand`, `UnheldWasDropped`, `OnePerFile`, `ToolReturns`, `SettlesOnceRecovered` |
| `Review` | `MCReviewQueue` | 3 invoices, 2 seconds, 2 uploads, 2 changes by others, failing statements | `WalkShowsAll`, `AllReviewedIsTrue` |
| `Payload` | `MCReviewedExport` | up to 3 rows and 3 changes to the form, 5 amounts in every style, an invoice alone, with others or selected twice, 4 directories | `PartiesKeptApart`, `BucketsComplete`, `LinesAddUp`, `StoredAsWritten`, `WholeFormIsSaved` |
| `BootWedged`, `AllIsSales` | `MCInvoicePipeline`, `MCReviewedExport` | the smallest that shows it, and that of `Payload` | one documented statement each, violated |

The pipeline:

- `SingleTicket`: the queue, blocked senders, the recovery's cursor and the
  worker's hand never hold one invoice twice, and hold only pending ones, but for
  those in `doubled`. The unconditional claim of `worker.go:74` depends on it.
- `NoLostWork`: the converse; a pending invoice always has a ticket once the
  recovery is through, or is in `dropped`.
- `DuplicatesGrounded`: links form no cycle, though the original of a duplicate
  may be reprocessed and become a duplicate itself; a row with a link is a
  duplicate or in `reopened`.
- `RecoveryFitsQueue`: the exact boundary of the deadlock that `BootWedged`
  shows. An invoice in line twice takes two places, so it is stated for boots
  without one.
- `ImplementsLifecycle`: every interleaving is a behaviour of the book. It
  carries two properties the proofs state on their own: `BusinessKeyUnique`,
  through edits, claims and saves that race with the dedup lookup, and
  `ExportedNeverReprocessed`, of invoices that are not in `doubled`.
- `EveryInvoiceSettles`: if the process stays up from some point on, what is
  pending or processing is settled, or in `dropped`.

Exports:

- `RecordedFirst`: an invoice that is marked, and one in an export that reports
  success, is named by an audit batch with as many items as it counts.
- `PostedHeadersReviewed`: the header that is posted was reviewed as it stands,
  although the invoice may have moved on since the gate.
- `NoLaterRepost`: after an export that marks has answered, no request that
  begins later posts the same content unless it is a re-export. This rests on
  the silent skip in `MarkInvoicesExported`: a row that is not ready any more can
  become ready again only with a new extraction.

Identity:

- `AdminRemains`: a system that is set up keeps an administrator unless two role
  changes overlap, although the actor may have lost its own role since
  `requireAdmin` looked, and although the count is about all administrators
  while the write is about one.
- `OneOrganization`: a second setup takes an overlap of two setups, or a system
  that lost all its users; it ties the setup to the protection of administrators.
- `SessionsAreCurrent`: every open session was opened with the password its user
  has now. A login or a change of one's own password that stands between the
  check and the INSERT while the password changes is the only exception.
- `FailuresBounded`: logins in parallel pass the limiter before the first of them
  fails, so the limit is exceeded; by how much is bounded by the number of
  requests at a time.

Companies:

- `OncePerVat`: two workers that find nothing and insert, refreshes that fill in
  a VAT code, merges and deletions: a number that starts with a digit has one
  company, printed with or without prefix.
- `ResolvedFits`: the id a worker is about to link comes from one lookup, the row
  it refreshes from another. If titles and codes tell companies apart
  (`KeysIdentify`), what it links never has another VAT number than the invoice
  prints.
- `KeylessWasMatched`: a company without VAT code and code comes into being only
  if a match vanishes between two lookups.
- `MergeLosesNoLink`, `DeletedLinksAreNew`: a merge with a target that is gone
  either moves nothing or fails; a deletion takes links only from invoices
  linked or shown again since it counted.

VAT classifiers:

- `WarningMatchesLines`: lines and warning are written together from one reading
  of the classifiers, whoever writes them.
- `UnknownIsFlagged`: a line whose code has no classifier is flagged, or the last
  classifier with the code went after the reading behind the line.
- `DeletedIsUnused`: a deletion orphans only lines written after it counted.

Files:

- `KeptIsWhole`: whoever created a file last completes it, so what an invoice
  names is there, and whole unless someone is at it or a copy broke off.
- `TempIsClean`: a page in the temporary directory has somebody who will remove
  it, or was left by a failed conversion or a dead process.
- `PagesAreWhole`: what a conversion hands on is whole until it is removed,
  unless another conversion of the document touched it.

Two processes:

- `HeldOnce`: an invoice is held by one of the processes at most, and has the
  status for it, pending while it waits and processing while it is read; but for
  those in `twice`. A user's reprocess, a retry of the tool and a start of either
  process beside the other do not break it.
- `AnswersStand`: what the agent was told stays true until a reprocessing, with
  the same exception.
- `UnheldWasDropped`: unsettled invoices are held by a running process, or in
  `dropped`.
- `OnePerFile`: a file has one original, through retries after a timeout, unless
  it is in `raced`.
- `ToolReturns`: a waiting call is answered, or the process ends.
- `SettlesOnceRecovered`: with `serve` up and its recovery over, an invoice that
  is not in `dropped` is settled, whatever was dropped or read twice beside it.

The review and its form:

- `WalkShowsAll`: a walk that has come to a page without next link has shown
  every invoice that was in the queue all the time, if the page has its position,
  which it lacks when its lookups failed.
- `AllReviewedIsTrue`: "All invoices have been reviewed!" is true of all that
  waited since the confirmation, unless one of the two lookups failed.
- `StoredAsWritten`: an amount in a documented style is stored as what it says,
  and a line with its own amounts. Where there is no amount nothing is promised.
- `WholeFormIsSaved`: no line is lost unless a row was removed or is blank.
- `PartiesKeptApart`: the payload lists no id twice and, as long as a code stands
  for one id (`CodesIdentify`), every party under the id its invoices use,
  suppliers and customers apart. It is about ids: one company can have two, see
  [below](#behaviours-without-a-run-of-their-own).
- `BucketsComplete`: each invoice is in its bucket, once unless it was selected
  twice.
- `LinesAddUp`: lines add up to the header in cents, or the export warns.

Why the bounds are enough:

- Pipeline: three invoices give an original, a duplicate of it and a third that
  changes the original's role; with a queue of one place they are one more than
  the queue and the worker hold, so the boundary of `RecoveryFitsQueue` is met
  from both sides. Two handlers give every pairwise race; the worker and the
  recovery come on top. One file makes every import after the first a lookup that
  finds something or, with SQL errors, nothing, so that both kinds of rows occur.
  Crashes, retries and reprocessings are not bounded: the state space is finite
  as it stands. The liveness run has two invoices and a queue of three, which the
  boundary above allows: with the overlap, tickets of invoices in line twice
  can fill a smaller queue while the recovery holds the connection, and then
  nothing settles until the process dies. A blank key is in this run.
  Both runs take every action of `InvoicePipeline`; TLC reports
  them by line, since `HistoryNext` is one conjunction.
- `Export`: two requests give every race between two exports, two ids every place
  in a loop, two versions the difference between what was confirmed and what is
  there now.
- `Identity`: three users are an actor, a target and a bystander, two requests
  give every pairwise overlap, one password change tells an old session from a
  new one. A request in flight keeps its actor when the session ends, so one
  session is enough; two were checked separately.
- `Companies`: two ids are a company found and one inserted, or source and target;
  two workers race their lookups, two requests a merge and a deletion or two
  opposite merges. Ids are used up: after two companies the instance comes to
  rest, which is why the theorems matter here.
- `Vat`: one invoice is enough, since classifiers join invoices by code only; three
  ids are the two shipped classifiers and one made by hand. Two requests were
  checked separately.
- `Files`: two imports and a worker give every pair that shares a page, two pages a
  conversion that fails half-way. Two users, and two imports of two users, were
  checked separately with fewer actors.
- `McpImport`: the second invoice is the duplicate or the overlapping original of
  the first; one poll is a look that settles the call or one before the timeout.
  Queues of one place block a sender and the recovery. `MaxFaults`, of which
  there is one, bounds how often a process ends or a statement fails in a way
  that loses something; a start and everything else are free. At most one invoice
  is in `twice`. With two faults the state space is too large for a run with
  liveness; the safety properties are proved without any of these bounds.
- `Review`: three invoices are the one shown, one in front and one behind it, two
  seconds make equal and different times. `MaxUploads` and `MaxChanges` bound the
  others.
- `Payload`: three rows are a first, a middle and a last one. `MaxEdits` counts
  every change to the form, that of the total included. In one of the directories
  two companies share a code, so that both sides of `CodesIdentify` occur.

The theorems below depend on none of these bounds.

Deadlock is checked in the runs of the pipeline and of `Identity`: a process can
always crash or restart, so what a stuck server would look like is a question
for the properties. It is not checked in the others: their requests, ids, edits
or rows are used up, and then nothing is left to do; in `McpImport` the end of
both processes is a state in which nothing has to happen.

## Fairness

`InvoicePipeline!Fairness`, in `FairSpec` and `FairHistorySpec`, assumes that

- the worker goroutine goes on whenever it can (`WF_vars(Worker)`); this
  includes that the language model answers or returns an error. The clients in
  `processor/` set no timeout of their own, so it is an assumption about the
  service, not a fact of the code;
- the recovery goroutine goes on, and a send of the recovery or of a handler
  that becomes possible again and again happens (`SF_vars`): a Go channel serves
  blocked senders in order. That an SQL error ends a blocked recovery is not
  assumed;
- a process that is down is started again (`restart: unless-stopped`,
  `docker-compose.yml:20`).

`McpImport!FairSpec` assumes the same of the workers of both processes and of
sends, and that the clock of the tool's loop ticks; that a process is started
again is a premise of `SettlesOnceRecovered` and not an assumption.

Nothing is assumed of users: no handler step but the send is fair, and crashes
may go on forever unless the property's premise excludes it.

## Proofs

TLAPS checks eight modules. The theorems hold for every value of the constants
that satisfies the assumptions named in the component's module; TLC evaluates
these assumptions in every run.

`InvoicePipelineProofs`, from `PipelineAssumption`:

| Theorem | Statement |
|---|---|
| `TypeCorrect` | `Spec => []TypeOK` |
| `BusinessKeysUnique` | `Spec => []BusinessKeyUnique` |
| `NothingLost` | `HistorySpec => []NoLostWork` |
| `OneTicket` | `HistorySpec => []SingleTicket` |
| `DuplicatesAreGrounded` | `HistorySpec => []DuplicatesGrounded` |
| `Refinement` | `HistorySpec => ImplementsLifecycle` |
| `RecoveryFits` | `HistorySpec => []RecoveryFitsQueue`, for finitely many invoices |
| `ExportedStaysExported` | `HistorySpec => ExportedNeverReprocessed` |

They hold in every environment: with requests during the recovery, quick
restarts and SQL errors. What they except is a set of invoices that the history
variables name. The exceptions are needed: an invoice that is inserted before the recovery's SELECT gets a
ticket from the handler and one from the recovery, and a claim that fails drops
its ticket and leaves the invoice pending (`worker.go:74`).

The argument. `RowInv` says what holds of every reachable state: types; an
absent row is blank and nothing refers to it (`RowsExist`); a row the boot found
stale has no ticket (`StaleIdle`); while the worker is past its claim, the row's
status is `processing`, because no other step changes that status
(`WorkOwned`). `HistoryStep` says what a step does to the history variables. On
top of these

- `BusinessKeyUnique` is inductive with `RowInv`, since each write of a key or
  a status into the index's range looks at the index in the same step;
- `EveryPendingHasTicket` extends `NoLostWork` to the loop of the recovery, whose
  cursor rows are tickets; before its SELECT the row itself is the promise. It
  needs `BusinessKeyUnique`: else the index could reject the claim of a pending
  invoice, which no SQL error excuses;
- `SingleTicket` is inductive with `RowInv`: only the recovery puts in line what
  it did not make pending in the same step, and what had a ticket when it opened
  its cursor is in `doubled` from then on;
- `LinkInv` strengthens `DuplicatesGrounded`: a link names a row that exists
  (`LinksExist`), and what the dedup lookup returned is still live when it is
  saved (`OrigLive`), since nobody but the worker makes an invoice a duplicate.
  A new link then goes from an invoice to a live one, and no live one is among
  the duplicates, so no cycle closes. `LinksKept` covers the steps that
  make no link and leave no duplicate behind;
- `StepImplements` maps every step to a step of the book or a stutter: a claim of
  an invoice that is not pending needs it in `doubled`, by `SingleTicket`, and
  the recovery's SELECT is the book's `LineUpAgain`. `BookExportedFinal` reads
  `ExportedStaysExported` off the book;
- `WedgeHoldsMany` counts: a stuck recovery means that queue, worker and cursor
  hold `QueueCap + 2` different invoices, given as an injection.

`InvoiceExportProofs`, from `ExportAssumption` alone (a request names at
least one invoice):

| Theorem | Statement |
|---|---|
| `TypeCorrect` | `Spec => []TypeOK` |
| `ReviewedIsPosted` | `Spec => []PostedHeadersReviewed` |
| `RecordsComeFirst` | `Spec => []RecordedFirst` |
| `NothingRepostedLater` | `Spec => []NoLaterRepost` |

The inductive invariant `ExportInv` has three layers:

- `ReviewInv`: a row that is ready or exported has a reviewed version
  (`StatusReviewed`); a request in flight has as many headers as its place in the
  loop says (`LocalsOK`), each of them reviewed. `reviewed` only grows, so what
  was loaded stays reviewed whatever becomes of the row;
- `BatchInv`: while it links, a request's batch has exactly the ids before
  `next`, all different, so it is complete when the loop ends and not before;
- `LaterInv`: since a version was loaded, its invoice is not `processed` with
  that version (`SinceLoad`), and since it was marked, not ready either
  (`SinceMark`). Each step of the environment keeps both, since only `WorkerSave`
  makes a row processed and it makes a new version. A later request that loads
  a ready row therefore loads another version.

`IdentityProofs`, from `IdentityAssumption` (finite sets of users and
requests, a limit of at least one, blanks that are not values):

| Theorem | Statement |
|---|---|
| `TypeCorrect` | `Spec => []TypeOK` |
| `SessionsBelongToUsers` | `Spec => []SessionsHaveUsers` |
| `SessionsStayCurrent` | `Spec => []SessionsAreCurrent` |
| `AdministratorRemains` | `Spec => []AdminRemains` |
| `SetupRunsOnce` | `Spec => []OneOrganization` |
| `LimiterHolds` | `Spec => []FailuresBounded` |

The inductive invariant `IdentityInv` has five parts:

- `ShapeInv`: types, what each step of a request implies about its locals (a
  change of roles has a target that is not its actor, a login has an address),
  and that a session belongs to a user who exists;
- `CurrentInv`: unless a password change has overlapped, an open session and the
  hash that a request is about to open one with are those of the user. A change
  deletes the sessions and records the overlap with every such request in the
  same step, so there is nothing left to be stale;
- `AdminInv`: unless changes of roles have overlapped, an administrator is there
  once the system is set up, and a request that has counted and is about to write
  stands before a set of administrators that has another one than its target.
  Any change made in the meantime by another request is an overlap by definition;
- `OrgInv`: unless setups or role changes have overlapped, there is at most one
  organization, and none while a setup stands before its transaction;
- `FailuresBounded` is inductive as it stands: passing the limiter moves a
  request into `LoginsFrom`, failing moves it from there into `attempts`.

`CompaniesProofs`, from `CompaniesAssumption` and `PartiesAssumption` (parties
are records, blanks are not values):

| Theorem | Statement |
|---|---|
| `TypeCorrect` | `Spec => []TypeOK` |
| `NoDanglingLink` | `Spec => []LinksStored` |
| `OneCompanyPerVat` | `Spec => []OncePerVat` |
| `ResolvedCompanyFits` | `Spec => []ResolvedFits` |
| `NoJunkCompanies` | `Spec => KeylessWasMatched` |
| `MergesLoseNoLink` | `Spec => MergeLosesNoLink` |
| `DeletionsTakeNewLinks` | `Spec => DeletedLinksAreNew` |

`CompaniesInv` joins the types with: links lead to stored companies
(`LinksStored`); merges and deletions have a source, and a deletion past its
count has every counted link of it in `since` (`Aimed`, `Counted`); every id in
a local was handed out once (`HandedOut`), so that one which is gone does not
come back as another company; a worker about to write has a match or a key
(`MatchedOrKeyed`); and stored VAT codes are unique (`VatUnique`). `ResolvedFits`
needs another argument, about who the parties are: `KeysIdentify` gives every
party an owner, and by induction every stored row and every id a worker holds
has the owner of the party it came from (`RowsOwned`, `HeldOwned`), since a match
by any key is a match of the same owner and a refresh takes fields of the same
owner; an owner has one VAT number.

`VatClassifiersProofs`, from `VatAssumption`:

| Theorem | Statement |
|---|---|
| `TypeCorrect` | `Spec => []TypeOK` |
| `WarningsMatch` | `Spec => []WarningMatchesLines` |
| `UnknownCodesAreFlagged` | `Spec => []UnknownIsFlagged` |
| `DeletionsOrphanNoLine` | `Spec => DeletedIsUnused` |

`VatInv` adds to the types and the properties that what an actor has read is
either still in the table or noted as lost (`ReadsKnown`), and that the lines
with the code of a deletion past its count are those written since
(`CountedUnused`).

`FileStoreProofs`, from `FilesAssumption`:

| Theorem | Statement |
|---|---|
| `TypeCorrect` | `Spec => []TypeOK` |
| `KeptFilesAreWhole` | `Spec => []KeptIsWhole` |
| `TemporaryFilesAreMinded` | `Spec => []TempIsClean` |
| `PagesHandedOnAreWhole` | `Spec => []PagesAreWhole` |

`FilesInv` says who will complete a part: among those that copy a kept file
there is one whom nobody has touched since, the last that created it
(`PartsAreCopied`). The upload is there from the moment somebody works on it,
since uploads are never removed (`UploadThere`, `PreviewThere`), which gives
`InvoiceFiles`. `MadePagesAreWhole` extends `PagesAreWhole` to a conversion at
work, but for the page at hand.

`McpImportProofs`, from `McpAssumption`:

| Theorem | Statement |
|---|---|
| `TypeCorrect` | `Spec => []TypeOK` |
| `InvoicesAreHeldOnce` | `Spec => []HeldOnce` |
| `AnswersKeepStanding` | `Spec => []AnswersStand` |
| `DroppedWorkIsNamed` | `Spec => []UnheldWasDropped` |
| `FilesHaveOneOriginal` | `Spec => []OnePerFile` |

`McpInv`: within a process, a queue, a hand and a blocked import hold an invoice
once (`OnceHeld`), which makes `HeldOnce` inductive: taking and claiming move the
one ticket there is. What the cursor of the recovery has still to return is
pending and held by nobody, or in `twice` (`TodoWaits`): from the SELECT to the
last send nobody in `serve` can reprocess it, since that needs the connection, and
`mcp` does not reprocess. A process that is down holds nothing
(`DownHoldsNothing`), a row that is absent has no file and no ticket
(`AbsentIsBlank`). For `OnePerFile`, of two rows of one file that is not in
`raced` one is a duplicate that nobody holds and no cursor will return
(`Originals`), and an import that found nothing still finds nothing unless
another one has been noted beside it (`Unseen`).

`ReviewProofs`, the queue from `QueueAssumption`:

| Theorem | Statement |
|---|---|
| `WalksShowAll` | `Spec => []WalkShowsAll` |
| `TheMessageIsTrue` | `Spec => AllReviewedIsTrue` |

The order of the queue is total (lemma `Order`), so `FirstOf` and `LastOf` return
what their queries do. `WalkInv`: what is in front of the page at hand and was
there all the time has been shown (`FrontShown`); the next link skips nothing of
the walk and the previous one leads to the front (`LinksFit`), although both were
read before the page is clicked; past the first lookup after a confirmation all
that waited is in front (`RestInFront`).

Its second half is about amounts, the form and the payload:

| Theorem | Statement |
|---|---|
| `AmountsReadBack` | `Says(text, cents)` implies `ParseCents(text) = cents` |
| `RenderedReadsBack` | `ParseCents(Rendered(v)) = Cents(v)` |
| `FormInvariant` | `FormSpec => []FormInv` |
| `AmountsAreStoredAsWritten` | `FormSpec => StoredAsWritten` |
| `FormsAreSavedWhole` | `FormSpec => WholeFormIsSaved` |
| `PartiesAreKeptApart` | `FormSpec => []PartiesKeptApart` |
| `BucketsAreComplete` | `FormSpec => []BucketsComplete` |
| `ExportedLinesAddUp` | `FormSpec => []LinesAddUp` |

They hold from `NilAssumption` (NULL is no number), `BoundAssumption`,
`IdAssumption` (there are more ids than rows), and from what
`InvoiceAssumption`, `SelectionAssumption` and `DirectoryAssumption` say of the
database and the user: amounts are numbers or NULL, a reviewer types nothing or
one of the documented styles, ids and VAT numbers are unique in the directory
(a primary key and an index). Codes need not be, and an invoice may be selected
any number of times. `CodesIdentify` stands in the property because it is needed:
with two companies of one code under two VAT numbers, the list of companies keeps
one of them, and invoices refer to an id that is not in it (`context.go:46-53`).

The recursive functions are reasoned about by a least counterexample
(`SmallestOf`, from the library's well-founded order on the naturals), which the
lemmas `Induction` and `StrongInduction` turn into induction over the members of
a set.

- Amounts. `Value` reads the digits of a text and nothing else, so it is blind to
  the removal of separators (`ValueWithout`). `Integer` says what the part
  before the decimal separator is: digits that write a number, perhaps set
  apart by one separator, with three digits behind the last. `Grouped` and
  `DigitsOf` produce such texts (`GroupedInteger`), and whichever way `Canonical`
  decides, what it leaves of one with decimal places is those digits, a dot and
  the places (`CanonicalText`).
- The form. `FormInv`: rows and ids are what the database can hold
  (`FormTypeInv`), an index is below the bound and, until a row is removed, one
  less than the row's place (`IndexInv`), and each field reads as the amount it
  says (`ReadInv`): shown ones by `RenderedReadsBack`, typed ones by
  `AmountsReadBack`. With it the server's loop ends where the table does.
- The payload. `LoopInv` is the invariant of `BuildPayload`'s loop: the cache
  holds, for each key, the company made from the first invoice that shows it
  (`CacheInv`), each mapped invoice refers to the cached companies
  (`MappedInv`), and the buckets hold each of them once (`BucketInv`).
  `PayloadInv` carries this to the state: what was exported was built from a
  selection of stored invoices. `KeyIsId` relates the two ways a company is
  identified, the id under which it was found and the key of its filled-in
  record, which is where a code must stand for one id. `TotalNegated` makes the check of
  the stored invoice one of the signed payload.

Each invariant was checked with TLC on the instance of its run before it was
proved, except `PayloadInv`, which speaks of all selections. Only
model-checked is liveness: `EveryInvoiceSettles`, `ToolReturns` and
`SettlesOnceRecovered`, since the prover does not handle `ENABLED`.

## Where code and documents disagree

Each has a run whose counterexample is the shortest such behaviour.

- `BootWedged`: with 102 or more pending invoices a boot deadlocks
  (`recovery.go:55` sends with the cursor open) although all pending invoices
  are said to be enqueued.
- `AllIsSales`: an export of type "all" calls an invoice a sale if its seller is
  anywhere in the directory, which holds every vendor an invoice was ever read
  from; `QA.md:329` says that the own organization decides.

## Behaviours without a run of their own

The models have these behaviours, and the properties above are stated so that
they are excepted by name. Each differs from what a reader of the documents
might expect.

Workflow and exports:

- An invoice interrupted less than five minutes before a boot stays in
  `processing`; recovery does not run again (`recovery.go:13`).
- Requests served during the recovery can put an invoice into the queue twice
  (`doubled`); the second ticket reprocesses it whatever its status is by then,
  an exported one included (`serve.go:78`, `worker.go:74`), and the recovery
  can get stuck with fewer pending invoices than `RecoveryFitsQueue` says.
- An edit that passed its check changes an invoice that has been exported since
  (`review.go:105`).
- An error in the worker's first statements leaves the invoice pending, not
  failed (`worker.go:74`); a second invoice with the same blank key fails at the
  index instead of being a duplicate (`worker.go:144`).
- Two exports that overlap, or one repeated after its answer got lost, post
  the same content twice without a re-export (`export.go:71`, `engine.go:131`).
  A posting whose request fails before the batch row is written is not in the
  audit trail (`export.go:175-177`).
- A reprocessing between the two reads of an export lets items through that
  nobody has reviewed (`export.go:263`); an invoice edited or reprocessed while
  it is exported can end marked with content that was not sent (`export.go:318`).

Identity:

- Two administrators who demote or delete each other at the same time both
  count two, and leave none (`identity.go:286`).
- Two setups at once make two organizations (`setup.go:9`).
- A login that checked the old password can open a session after the password
  has changed (`identity.go:155`).

Companies:

- If companies share a title, a party without VAT code is matched by title and
  the refresh can then give a company another one's VAT code; `KeysIdentify` in
  `ResolvedFits` excludes this.
- Numbers that start with a letter behind the country (ATU12345678) keep their
  prefix, so such a company is stored twice if it is printed both ways.
- A company without VAT code and code is inserted if the match vanishes between
  `MatchCompany` and `UpsertCompany`, although `QA.md:364` says that none is.
- Two opposite merges of companies without links delete both (`QA.md:367`).
- A reprocess that resolves no party keeps the links of the earlier extraction.
  An invoice extracted after a merge can bring the merged company back under
  its own VAT code.

VAT classifiers:

- Renaming a classifier orphans lines, which deleting it refuses to do
  (`QA.md:397`).
- A review resolves codes against inactive classifiers too, and with codes of
  the same name in several countries any of them may win.

Files:

- A duplicate upload is stored over the original before it is known to be a
  duplicate; if its copy breaks off, the original is lost (`storage.go:60`).
- A conversion that fails at its second page leaves the first in the temporary
  directory (`media.go:88`). Conversions of one document by different users and
  processes share their pages, and one removes those the other reads; an
  extraction that finds its pages gone fails.

Two processes:

- A start of `serve` takes what a running `mcp` holds: both read it. So is what an
  upload of `serve` lined up while its recovery had not yet looked, and what
  `mcp` has been at for more than five minutes (`twice`); the second reading
  changes an invoice the agent was told about.
- A claim that fails leaves an invoice pending and a mark that fails leaves it in
  processing, with both processes up, until `serve` starts again (`worker.go:67-84`);
  so does a recovery that fails (`recovery.go:33-55`), since nothing repeats it.
- Uploads of one file that overlap both become originals, and so does an upload
  whose lookup failed (`import.go:50-54`).

Review and payload:

- "All invoices have been reviewed!" can be wrong about an invoice older than the
  one confirmed that the worker publishes between the two lookups. "n of m" comes
  from separate statements and can be torn; no property is about it.
- A statement that fails while links and position are looked up gives a page
  without either, and the walk ends there (`review.go:47`). A lookup that fails
  after a confirmation counts as one that finds nothing, so the reviewer can be
  told that all is reviewed while invoices wait (`review.go:264`, `271`).
- Removing a row of the form does not renumber the others, and the server stops
  at the first number that is missing: lines behind it are lost on save. Removing
  and adding can give two rows the same number; the first wins. A row whose
  description and total were cleared cuts off the rest.
- A text that is no number, an empty one included, is stored as NULL without a
  word, although `QA.md:405` says that empty input is rejected rather than
  silently treated as zero; the page shows NULL as 0.00, and the next save
  stores that as zero. "1.234" is read as 1234, as `decimal.go:17-21` and
  `QA.md:405` say.
- A company that one invoice names by a code the directory does not have, and
  another by its VAT number, is in a payload under two ids, as a company of its
  own each time (`context.go:115-126`, `189-261`).
- A selection that names an invoice twice has it twice in the payload
  (`export.go:245`).
- Later invoices of a payload get the company data the first one printed,
  including which side it was on (`QA.md:341`,
  `docs/export-templates.md:188-190`). Where companies of the directory share a
  code, the last one counts.
- A credit note negates both quantity and unit price of a line
  (`context.go:148-151`).
  An export whose files all render blank is still marked.

## What is not modelled

- Webhooks: one POST per event without retry; a setting that is written whole.
  Their payload is that of an export of type all.
- Export templates: create, replace and delete are one transaction or statement
  each, and nothing else writes these tables. An export reads a template and its
  files in two statements, and the favourite flag is toggled from a value read
  before; neither would change what a property here says.
- Rendering of templates and of CSV, XML, TXT and JSON: text without state. Of
  the payload, quantities (shown with two places, so that saving loses the rest),
  unit prices, addresses and bank accounts are left out.
- AI processors: network clients. The models take any answer, or an error.
- HTTP plumbing, configuration and command line: routing, middleware and values
  read once at start. URL and path checks are pure functions.
- The database beyond statements, transactions and the single connection: a
  statement is atomic. Migrations run before anything else.
- More than one organisation: every statement about invoices is restricted to
  one, and a single setup creates only one.
- Names, e-mail addresses and webhook addresses of users; the invoices that
  `DeleteUser` deletes with a user (`identity.go:312`).
- The user interface, except for the review page.
- Errors of `Close` after a whole copy (`storage.go:73`, `media.go:112`): in
  `FileStore` what was copied is on the disk. A document has at least one page.
- The up to three lookups of one match (`company.go:322-347`) are one step in
  `Companies`.
- A second ticket, which reads an invoice in any status, in `InvoiceExport`: its
  environment extracts pending invoices only. `InvoicePipeline` has second tickets.
- That the original at the end of a chain of duplicates still holds the items of
  the document: `InvoicePipeline` has no items, `VatClassifiers` no originals.
