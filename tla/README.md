# MeetingLoop AI: TLA+ models, checks and proofs

MeetingLoop AI records a meeting in the browser, transcribes it there, stores the *confirmed* transcript and
minutes in PostgreSQL, generates minutes with an AI provider through a Redis queue, and deletes meetings by
request or by retention period. This directory holds the TLA+ models of that system, the TLC runs that check
them and the proofs that TLAPS checks. Paths below are relative to the repository root, written `src/...` in
`PROJECT.json`.

Run a check with `tlc -config MCMeetingContent_content.cfg MCMeetingContent`, the proofs about a module with
`tlapm MeetingContent_proofs.tla`, likewise for the other `*_proofs` modules. Every check is listed in section 3 and in `PROJECT.json`, which also says which
lines of the code each definition stands for.

## 1. Inventory

| Part | Code | State it keeps | Operations | What is hard |
|---|---|---|---|---|
| Content persistence | `packages/db/src/index.ts`, `mutation-receipts.ts`, `transaction.ts` | transcripts, minutes, their revisions, mutation receipts | `saveTranscript`, `saveMinutes`, loads, revision lists | concurrent editors, retries with an idempotency key, crashes, deletion under a save |
| Deletion and retention | `packages/db/src/index.ts:970-1082`, worker timer | deletion requests, audit events | `requestMeetingDeletion`, `runRetentionSweep` | several workers sweeping, user requests in between, batches, rollback |
| Consents | `packages/db/src/index.ts:880-968`, `RecordingPanel.tsx:240-331` | consent columns, consents table, audit events, a pending consent in localStorage | `recordRecordingConsent`, `recordExternalAiConsent`, `assertExternalAiConsent`, offline sync | lost or delayed delivery, replays |
| Identity, projects, meetings | `packages/db/src/index.ts` | organizations, members, projects, meetings | registration, project and meeting CRUD, listing with a cursor | cursor order, get-or-create of the quick-capture meeting |
| Migrations | `packages/db/scripts/migrate.mjs` | `schema_migrations` | run | two runners, a crash between files |
| Queue and worker | `packages/queue`, `apps/worker` | jobs in Redis, executions in the worker | enqueue, process, time out, retry, stall | duplicate requests, abandoned executions, worker death, edits while a job waits |
| Web server | `apps/web/app/minutes-generation.ts`, `api/**` | `activeGenerations` (inline mode) | routes in front of the database and the queue | a guard per process, lost connections, configured providers |
| Save client | `meeting-api-client.ts`, `RecordingPanel.tsx:588-650` | pending mutation key, base version | PUT with retry, key reuse | unknown outcome, edit between retries |
| Recording panel | `RecordingPanel.tsx` | transcript and minutes drafts, versions | load, edit, save, generate, poll | late answers over newer edits |
| Browser recording | `useBrowserRecording.ts`, `browser-recording.ts` | recorder state, chunks in IndexedDB or memory | start, cancel, pause, stop, confirm, delete | permission prompts, writes in flight, fallback to memory |
| Transcript review | `browser-review.ts`, `browser-review-store.ts`, `TranscriptEditor.tsx` | segments, speaker clusters, review items | edit, merge, split, approve, autosave | long legal sequences, stale autosave |
| AI | `packages/ai`, `domain/src/{review,overlap,audio}` | none | providers, deterministic pipeline | roundings, boundaries, a provider that does not answer |
| Domain, auth, storage, UI | `packages/domain`, `auth`, `storage`, `ui`, pages | none | schemas, roles, rendering | - |

How they interact: the browser calls the web server over HTTP and may repeat a call with the same
`Idempotency-Key`; the web server runs each call as one database transaction or adds a job to the queue; the
worker executes jobs against the same database and runs the retention sweep on a timer; the browser polls for
the job's result. The database is the only shared state of the content, Redis that of the jobs.

What makes each part correct:

* content: no acknowledged save is lost, no update overwrites one its author has not seen, versions and
  revisions form one gapless chain, a key is applied once and replayed truthfully, nothing half done survives;
* retention: nothing is purged before the date its user was told, everything due is purged in the end, the
  audit trail says exactly what happened, concurrent sweeps never do a thing twice;
* generation: one execution per job at a time and a bounded number of them, no effect of an abandoned one, a
  draft of the text that was asked for, every job settles;
* an editing session: it never overwrites what its author has not seen, a retry is not refused because of its own
  first attempt, and what was typed is not taken away without a question;
* recording: an abandoned start never records, no recording without a consent, every consent reaches the server, what
  the panel says about the storage is true, a deleted chunk stays deleted;
* review: the gates of the minutes open only over judged and safe evidence, clusters stay a partition, every change
  of a text is traced;
* the organization's data: unique and foreign keys under concurrent inserts, one audit event per consent, pages
  without holes or repetitions;
* migrations: interrupted runs end where an undisturbed one does.

All hazards, with their lines and the properties about them, are in `PROJECT.json`.

## 2. Modules

| Module | What it is |
|---|---|
| `MeetingContent` | the SQL statements of the saves and of the deletions that compete with them, for one meeting |
| `AtomicContent` | the abstract store: each document a chain of contents, each save one atomic compare-and-swap |
| `MeetingContentRefinement` | the mapping by which the first implements the second |
| `MeetingContent_proofs`, `MeetingContentRefinement_proofs` | the inductive invariants and theorems about `MeetingContent`, and the proof that it implements `AtomicContent` |
| `Retention` | the clock, users' deletion requests and concurrent sweeps |
| `MinutesGeneration` | browsers, web processes, BullMQ, worker and provider around one meeting's minutes |
| `EditorSession` | one tab that loads, restores, edits, autosaves and saves, against another client and the network |
| `BrowserRecording` | consent, microphone, recorder, chunks in IndexedDB, one await at a time |
| `BrowserReview` | the review of a transcript: edits, dictionary, clusters, judgements |
| `AudioAnalysis`, `AudioAnalysisChecks` | the deterministic providers as functions, and what they return for every small input |
| `Workspace` | registrations, projects, meetings, the quick meeting, consents and the paged list |
| `MigrationRunner`, `MigrationRunnerChecks` | a run of the migrations as a function, and what interrupted runs leave |
| `Retention_proofs`, `MinutesGeneration_proofs`, `EditorSession_proofs`, `BrowserRecording_proofs`, `BrowserReview_proofs`, `Workspace_proofs` | the inductive invariants and theorems about those modules |
| `MC*` | instances for TLC |

They meet at these points. `EditorSession` takes the server's save as one atomic step, which is what
`MeetingContentRefinement_proofs` proves of the statements; `MinutesGeneration` takes from `MeetingContent` that a transcript has
a version that only grows; the consents of `Workspace` are what `BrowserRecording` and `MinutesGeneration` ask the
server for; a deletion is one step in `Workspace` and `MeetingContent`, and `Retention` is about its parts. They are not
composed into one state machine: each pair shares one value (a version, a consent, a status), and the product would
multiply states without adding a step.

### MeetingContent

One step is one SQL statement that another transaction can observe or wait for. `pc[t]` is the next statement,
`read[t]` the row `SELECT ... FOR UPDATE` returned, `outcome[t]` what the caller is told. Writes are private
until `Commit`, which publishes the row, the revision and the receipt at once; `Crash` at any point rolls back.
Locks are not variables: each is taken by one statement and held to the end of the transaction, so
`HoldsDocument`, `HoldsKey` and `HoldsKeyShare` are functions of `pc`. The row lock of `FOR UPDATE` and the
unique-index entry of a first insert are the same `HoldsDocument`; the uncommitted receipt is `HoldsKey`; the
`FOR KEY SHARE` that a foreign-key check takes on the meeting is `HoldsKeyShare`. A statement that waits is one
that is not enabled. `SelectForUpdate` without a row has nothing to wait for, which is why two first saves can
both reach `InsertDocument` and one of them ends with a unique violation.

The deletions appear here as what a save can meet: the meeting locked, archived, purged with the cascade, or
the deletion rolled back. A document's content is one model value; a request's payload is the record
`Request`, so that comparing request hashes is comparing records. Assumed: no two different payloads have the
same hash. Left out: the role and membership checks (the request is refused before it touches the meeting) and
the schema validation.

### AtomicContent and the refinement

The chain of a document is its revisions followed by the current row. `Apply` is the compare-and-swap;
`Truthful` says what must hold in the store at the moment a refusal is given. The mapping needs no history: the
answer and the chain change in the same step in both. The refinement is checked by TLC and proved.

### Retention

A sweep is one transaction: the snapshot of its first statement (`SeeCandidates`), the locks and inserts of
that statement (`ScheduleExpired`), the locked due requests (`SelectDue`), one delete per meeting
(`PurgeMeeting`), `CommitSweep`. Snapshot and locking are separate steps because another transaction may commit
in between; `FOR UPDATE ... SKIP LOCKED` and `ON CONFLICT DO NOTHING` then decide. Sweeps overlap as those of
several workers do. `LIMIT` with its order is `Earliest`; ties are nondeterministic.
Two sweeps never have the same request in their batches, but one can still wait for the other: a sweep whose
snapshot is older than a request locks its meeting, inserts nothing (`ON CONFLICT`), and holds the meeting to its
end. `WaitsOnlyForStaleSweep` says that this is the only case. With three sweeps and four meetings (larger than the
runs here) TLC reaches a state in which two sweeps wait for each other in this way; PostgreSQL then ends one of
them and the next sweep does its work.
`PurgedOnlyWhenDue` is the promise of the receipt, which the code keeps; the documents let the end of the retention
period override it, which is `RetentionOverridesRecovery`, and the code does not do that (finding 4).
Abstracted: the recovery period and the retention periods are small numbers of ticks; `Tick` does not let a
transaction last as long as the recovery period (a transaction takes seconds, the period is 30 days); every
deletion request has an idempotency key of its own, so its audit event is always inserted.

### MinutesGeneration

A deployment fixes the mode (`redis` or `inline`), the provider and whether it is usable (an API key, no demo provider
in production); it does not change in a behaviour. In the redis mode a job is named after the transcript version
(`JobId`), so job ids are versions. `StartJob`, `CheckVersion`, `ReadTranscript` and the provider's steps (`AskGemini`,
`GeminiAnswers`, ...) are the processor: the first read compares the version with the payload's, the second, inside
`generateMinutesFromTranscript`, fetches the text, and the consent to an external provider is asserted before the
call. `Timeout` fails the attempt but leaves the execution running with `live = FALSE`; what it still does has no
effect on the job. In the inline mode (`AskInline`) the web process generates in the request, and
`activeGenerations` is `generating`; `ServerCrash` ends its executions and loses its set, and a browser whose
connection is lost leaves an execution behind in the same way as a timeout does.
BullMQ is external and modelled from the options the code passes: attempts and backoff, stalled detection, removal
of settled jobs, a known id is not added again. Assumed of it: a live worker renews the lock of its job (300 s,
renewed at half time), so only jobs of a dead worker stall. `Runs` bounds the executions that exist at one time,
abandoned ones included.

### EditorSession

The tab is `RecordingPanel` with `TranscriptEditor` and `meetingApiRequest`. Its GET is two steps on the server, because
`loadTranscriptDocument` reads the header and the segments in two statements on the pool: a save between them gives an
old version with a new text. Its PUT carries the version on screen and a key from `transcriptMutationRef`, which is kept
while the payload is the same and dropped after a definite answer; the client retries once, and a request it has given
up on may still arrive (`late`). The review draft is read from IndexedDB when the editor is ready and written 250 ms
after each change. `Sessions` says what is edited and how often each thing may happen.
A text is a number that no two edits share, a content is a text with the version whose save gave its segments their
ids, and version 0 stands for the code's `null`.
An answer can be lost in two ways. Without any answer, or with a status of 500 and more (`LoseSave`), the client sends the
request again and at last keeps the key. An OK answer whose body cannot be read (`AnswerUnreadable`) is a success without a
payload: the request is not sent again, the key is dropped, and the panel throws on the missing payload.
A retry of minutes that has its key again is never refused for the
version its first attempt made. It can lose the key: to an unreadable answer, to an attempt rejected for an
expired session, and when the answer of an older reload brings the same text back after another text was saved.
`RetryNotRefused` therefore speaks of what is on screen as it was written and sent, and excludes the first two.
`asked` says of a load whether the user asked for it. `basis` and `typed`
are history: the version whose text the author had
seen, and whether something was typed while the stored draft was being read.

### BrowserRecording

A start is one click of the start button; it goes through the consent request (or, offline, the consent kept in
localStorage), the permission prompt, recording, pausing and stopping. `start[s].req` is the request id by which
`useBrowserRecording` tells an abandoned permission from the current one, `page` holds the refs of the hook, and a chunk
is `<<start, id>>`. A chunk that is written may be refused (`ChunkNotStored`), which is when the panel falls back to memory,
or its transaction is aborted at the commit (`ChunkAborted`), which nothing listens to. `RecorderFails` is a recorder that
throws when it is started, after the refs of the hook are set. Confirmations and deletions run side by side, as the
buttons are not locked against each other: `confirming` holds, for each run, the records it has read and not yet put
back, `deleting` the session each deletion was asked for. `abandoned`, `erased`, `aborted` and `held` (what a confirmation
had in hand when a deletion went past it) are history. The server is only its audit events, as `recordRecordingConsent` leaves them (`Workspace`).

### BrowserReview

`draft` is the read of the stored draft from IndexedDB: until it is `"ready"` there is no review in the code
(`reviewState` is `null`), the buttons are not shown and the panel counts no blockers (`BlockerCount`); a transcript that
arrives meanwhile is taken over by the review that is created at the end (`ReviewCreated`), unless its version has
changed, which abandons the read for good (`ServerTranscript`). While there is no review, `review` holds the transcript
that it would be created from.
Each button of `TranscriptEditor` is an action that applies the functions of `browser-review.ts` in the order of the
code; `Incoming` is the effect that follows a transcript changed elsewhere. A text is a short sequence of words,
`KindOf` the patterns of `classifyReviewItem`, and a speaker a name with the number of times its cluster was split.
Confidences, times and the wording of evidence are left out, as no guard of these functions reads them. The ids of
sentences come from `SegmentIds`, a bound: the code makes a new id whenever a sentence is added. The id of a cluster
that was split off is random in the code; here it carries the number of splits before it (`splits`). A filter of a
sequence is stated by the positions it keeps (`SelectAt`), which is what proofs about it need.

### AudioAnalysis

The providers of `packages/ai/src/deterministic.ts`, the copy of the quality report in `browser-recording.ts` and the
rules of `packages/domain` about their results, as functions with the code's roundings and thresholds. A frame's volume
is one of the classes its thresholds tell apart. `AudioAnalysisChecks` compares ten of them with reference definitions
as `ASSUME`s over every input up to its bounds; TLC evaluates them with the run `review`, whose module extends it. These
are functions of one input: nothing but those comparisons uses the frames.

### Workspace

Each caller runs one transaction in READ COMMITTED, one statement per step; `Holds...` says which unique entry or row an
uncommitted one holds, so that another waits, and its COMMIT publishes what it wrote. `list` is a member paging through
`listMeetings`; of its filters only the project's is modelled, the others compare columns in the same `WHERE`. The order of a page's rows is left to
the reader: a page is the set of the first `PageSize` rows behind the cursor, and the next cursor its last row. Roles do
not change. Assumed (`RequestsWellFormed`): a request has the fields its route requires, and an idempotency key is used
for one consent to one meeting, which is what `RecordingPanel.tsx:316` does; what happens otherwise is in section 5.
The age of a consent is left out: `recordRecordingConsent` refuses one older than 30 days before its transaction begins
(`packages/db/src/index.ts:883-886`), which changes nothing.
`EarlierWellFormed` says of the meetings that were there before what the proof shows of those that are made.

### MigrationRunner

The advisory lock makes runs follow each other, so a run is a function from the database it finds to the one it leaves,
dying at any file. `MigrationRunnerChecks` holds two statements about it, evaluated by TLC with the run `workspace`.

## 3. Runs

All runs use `-workers 2` and end well below five minutes.

| Run | Bounds | Shows |
|---|---|---|
| `content` | 3 transactions, 5 requests: first transcripts and transcripts from version 1, with two contents, and minutes, one key or none | type and safety invariants, action properties, `AtomicContent` implemented, minutes need a transcript, every request is answered (liveness, no symmetry) |
| `retention_sweep` | 2 meetings that expire at 1 and 2, 2 sweeps, 2 users, batch 1, recovery 2 ticks, clock to 3 | promises to users, receipts, audit, when a sweep waits for another; everything due is purged |
| `retention_hidden` | as above, recovery 1 tick | *violated*: finding 1 |
| `retention_override` | as `retention_sweep`, without symmetry | *violated*: finding 4 |
| `generation_safety` | 2 browsers, 2 web processes, 2 executions, 2 versions, concurrency 2, 2 attempts, 1 stall; redis and inline with Gemini, usable or not; symmetry | one execution per job and per process, bounded executions, no stale draft or missing consent, settled jobs are final |
| `generation_liveness` | 1 browser, 1 web process; Ollama and the demo provider in both modes | every job settles, every inline request is answered |
| `generation_revision` | 1 browser, 3 attempts | *violated*: finding 2 |
| `editor_edit` | 2 saves, 2 versions; minutes that lose both answers, with three keys; a transcript whose page is reopened, a transcript with two saves in flight | no blind overwrite, no retry refused for its own first attempt, edits leave for three kinds of answers only |
| `editor_draft` | a transcript whose page is reopened and whose reads may fail | *violated*: finding 3 |
| `recording_record` | 2 starts with four sets of bounds: consents, prompts and a recorder that fails, with a network that goes away; two recordings and the input test; chunks of two recordings confirmed, deleted and reloaded; two confirmations beside two deletions | no abandoned recording, no recording without consent, refused writes are told, deletion |
| `review` | two transcripts of 2 and 3 sentences, five sets of bounds of up to five operations | gates of a review, clusters, trace of edits; the `ASSUME`s of `AudioAnalysisChecks` |
| `workspace` | 2 callers, 4 meetings, pages of one, clock to 2 | keys, the quick meeting, audited consents, complete pages; the `ASSUME`s of `MigrationRunnerChecks` |

The runs of `EditorSession`, `BrowserRecording`, `BrowserReview` and `Workspace` do not check for deadlock: there the user or
the callers have done all that the bounds allow, and really stop.

Why the bounds are enough. A conflict between saves needs two writers and a third to observe or to retry; base 0
meets the first insert and base 1 the update, so chains reach version 2 and hold a revision, and version 3 would
repeat the step from 1 to 2. One key shared by three attempts gives the duplicate, the retry after a crash and the
replay; it is also used with another payload and for the other document. Minutes are saved by the same statements as
transcripts, so one request for them is enough to meet a purge and to wait for their transcript. A sweep that waits for another needs a due meeting
left over by a batch, and passing a meeting over needs a batch smaller than what is due: two meetings with batches of
one. Two versions are the text asked for and a newer one; two attempts and one stall are the smallest numbers at which
both the retry and the exhaustion happen; two web processes are what a guard in one process does not see. An editing
session needs one version of its own and one of the other client, two losses for a retry that fails too, and a second
page for the restored draft; two saves in flight share one mutation ref. Two starts are an abandoned recording and the
one after it; three chunks (0 to 2) are one stored, one in flight and one lost. In the review a gate that opens wrongly takes a
judgement, an edit or a change of speaker, and another judgement. Two meetings with the same start meet the tie of the
cursor, and pages of one put a page boundary at every place. Liveness properties are checked without symmetry.

Every property has a mutant: a faulty variant of one action (next to it in the module, marked "Faulty variant")
that makes TLC find the property violated.

### Fairness

* `MeetingContent`: strong fairness of each transaction's next statement, because PostgreSQL's lock queues are
  first come first served and a statement whose lock becomes free again and again is granted it; weak fairness
  of the commit of a running deletion. Nothing makes a client start, a transaction crash, a deletion begin or roll
  back, so `EveryRequestAnswered` would show a deadlock between a save and a purge.
* `Retention`: time passes, the timer of each worker fires again and again, a sweep's statements are executed
  unless they wait, a user's transaction ends, and from some point on sweeps do not fail. Without the last one a
  meeting that cannot be deleted holds up its whole batch for ever, which is how the code behaves: one failing
  meeting rolls back the sweep. A sweep in a deadlock is ended by PostgreSQL, however often that happens. (The commit
  of a sweep that found nothing is the same step as its rollback, so the assumption is stated about the steps that
  are a rollback only.)
* `MinutesGeneration`: executions go on and provider calls end (`fetch` ends a request without headers, the HTTP client
  a silent body), BullMQ promotes delayed jobs and looks for stalled ones; strong fairness of starting a waiting job,
  because the queue is first come first served and other jobs may take the free slot several times. Nothing is assumed
  of browsers.
* The other modules have safety properties only: what a user does next is nobody's promise.

## 4. Proofs

TLAPS checks the following for every value of the constants that the named assumption admits; TLC evaluates each
assumption in the runs of its module.

| Module | Theorem | States |
|---|---|---|
| `MeetingContent_proofs` | `TypeCorrect`, `LocksCorrect`, `HistoryCorrect` | `TypeOK`, `LockInv`, `HistoryInv` |
| | `AcknowledgedSavesAreStored`, `NoLostUpdate`, `RevisionsAreExact`, `KeysApplyOnce`, `ReceiptsAreTruthful`, `MinutesFollowTranscript` | the invariants of `content` |
| | `KeyedSavesNeedActiveMeeting`, `RetriesNeverSelfConflict`, `ContentMovesForward` | the action properties |
| `MeetingContentRefinement_proofs` | `ProgressCorrect`, `Implementation` | `Progress`; the statements implement `AtomicContent` |
| `Retention_proofs` | `TypeCorrect`, `LocksCorrect`, `HistoryCorrect` | `TypeOK`, `LockInv`, `HistoryInv` |
| | `PurgesKeepPromises`, `ReceiptsAgree`, `AuditTrailExact`, `SweepsWaitOnlyForStale` | `PurgedOnlyWhenDue`, `OneReceiptPerMeeting`, `AuditExact`, `WaitsOnlyForStaleSweep` |
| | `CommittedRequestsStand` | `RequestsStand`: no request is brought forward, put off or withdrawn before the purge |
| `MinutesGeneration_proofs` | `RunsCorrect`, `DraftsCorrect`, `TypeCorrect` | `RunsInv`, `DraftsInv`, `TypeOK` |
| | `JobsRunOnce`, `ExecutionsAreBounded`, `DraftsAreFresh`, `SettledJobsStay` | `OneRunPerJob`, `BoundedExecutions`, `NoStaleDraft`, `SettledIsFinal` |
| `EditorSession_proofs` | `TypesCorrect`, `TypeCorrect`, `SeenCorrect`, `TypingIsNoticed` | `TypeInv`, `TypeOK`, `SeenInv`, `TypedInv` |
| | `NothingOverwrittenBlindly`, `EditsAreKept`, `RetriesKeepTheirKey`, `RetriesAreNotRefused` | `NoBlindOverwrite`, `UnaskedKeepsEdits`, `KeysInv` and `MinutesInv`, `RetryNotRefused` |
| `BrowserRecording_proofs` | `RecordingCorrect`, `TypeCorrect`, `ChunksCorrect` | `TypeInv` and `StartsInv`, `TypeOK`, `ChunksInv` |
| | `NoAbandonedRecording`, `DeletionIsFinal`, `StorageModeCorrect`, `ConsentIsKept` | `AbandonedNeverRecords`, `DeletedStaysDeleted`, `StorageModeHonest`, `ConsentKnown` |
| `BrowserReview_proofs` | `ReviewCorrect`, `GatesOpenSafely` | `ReviewInv`, `GatesAreSafe` |
| | `ReviewInOrder`, `ReviewTyped` | `FullState`, `TypeOK` |
| | `ClustersHold`, `EditsLeaveTrace` | the action properties `OnlySplitBreaksClusters`, `EditsTraced` |
| `Workspace_proofs` | `TablesCorrect`, `TypeCorrect` | `AllInv`, `TypeOK` |
| | `QuickMeetingIsOne`, `ConsentsHaveEvents` | `OneQuickMeeting`, `ConsentAudited` |
| | `ListCorrect`, `PagesAreComplete` | `ListInv`, `PagesComplete` |

`KeyedSavesNeedActiveMeeting` states `KeyedSaveNeedsActiveMeeting`, which is proved for every instance and is not part
of a run. Every proof is laid out the same way: the inductive invariant in named parts, one step per action, and under
it the parts that the action can disturb. What follows is why each invariant is what it is.

### Content

Assumed (`ContentAssumption`): requests are well formed, `NoKey` is not a key, `None` neither a content nor a
request.

None of the invariants of the runs is inductive. A commit is safe because of what the transaction has found out several
steps earlier, and that is still true only because of the locks it holds. So the argument has two layers:

1. `LockInv` says what the locks give. `Exclusion`: no two transactions hold the same document or the same key, and
   nobody shares the meeting while a deletion holds it. `ReadIsCurrent`: between its `SELECT ... FOR UPDATE` (or first
   insert) and its end, what a transaction has read is still the committed row, with the version its request
   started from. `KeysUnused`: there is no receipt yet for a key it has claimed. `MeetingHeld` and `PurgeIsFinal`: a
   transaction that shares the meeting past its last check runs over an active meeting, and after a purge nothing is
   stored again.
2. `HistoryInv` relates the committed data to the answers given: the properties of the runs, the receipt that every
   keyed save has left (`SavedHasReceipt`), that only finished transactions have an answer (`AnswersFinal`), and that
   minutes past their check still have their transcript (`MinutesChecked`). By `LockInv` a commit extends the chain
   at its end, so it is preserved.

Only `Commit`, `ReplayReceipt` and `CommitPurge` disturb `HistoryInv`, and the lemmas `CommitEffect` and
`CommitKeepsHistory` carry the commit.

The refinement needs two more facts. `ChainsExact`, a consequence of `RevisionsExact`: the chain that the mapping
builds by `CHOOSE` from the revisions is the one that is stored, version by version. `Progress`: a running transaction
has no answer, and one that found its key taken will still find a receipt of it unless the meeting is purged. With
them each of the statements is mapped: `Commit` is `Apply`, an answer without a change is a replay or a refusal that is
truthful when it is given, and every other statement is a stutter.

### Retention

Assumed (`RetentionAssumption`): the periods and the clock's bound are numbers, a batch takes at least one.

`LockInv` has the same role as for the content. `Exclusion`: two sweeps never have locked the same meeting or due
request, nor a sweep and a user the same meeting. `SweepReadsCurrent` and `UserReadsCurrent`: what was read under a lock
is still so. `RequestsFounded`: a request by the retention exists only for a meeting past its period. `HistoryInv` adds
to the properties that whoever has a receipt has the meeting's request (`AnswersKept`). `AuditExact` counts the events
of a sweep at its commit, which is right because the meetings it deletes and schedules are its own by `Exclusion`.

### Generation

Assumed (`GenerationAssumption`): a worker takes at least one job and a job is tried at least once, the deployments are
those of the code, `"none"` is no process or browser.

`RunsInv` accounts for executions. A working one has its job active and to itself (`JobsHeld`), an inline one has its
process in `generating` (`LocksHeld`), jobs exist in the redis mode only (`OneMode`), and the starts of a job are its
failed attempts, its stalls and the one that may be running (`StartsCounted`): that is the bound. `DraftsInv` follows a
text from the click to the draft: what is asked for is not newer than the transcript (`NothingNewer`), a job has the
version it is named after and its text is not older (`JobsFresh`), an inline execution that is waited for serves its
browser (`InlineFresh`), and whoever waits has consented (`Consented`).

### Editing

Assumed (`SessionAssumption`): the bounds are numbers, the set of saves is finite, `None` is no draft and no mutation.

* `TypeInv` counts: every text and key in the state is one of those made so far, so the next one is new.
* `SeenInv`: whatever could be sent with a version (the screen, a load, a save, a late request, the review draft in
  memory and in IndexedDB) is older than the server's, or its author had seen that version. A PUT is accepted only with
  the server's version, so the first kind is refused and the second overwrites nothing unseen.
* `TypedInv`: what was typed while the draft is being read differs from what the read will compare with.
* `KeysInv`: a key stands for one payload wherever it occurs. `MinutesInv` adds for minutes that one save runs, under the
  key the tab remembers (`OneSave`), that loads are not torn (`LoadsWhole`), and that, as long as no attempt was rejected and every OK answer could be read
  (`Heard`), what is written here and was ever sent has its key kept, or can never be accepted any more (`KeyKept`).

The proof changed the model. `RetryNotRefused` used to speak of what is on screen without asking whether it was loaded
or written; the proof of `KeyKept` failed at a reload's late answer, and with three keys instead of two TLC found
the behaviour described in section 2. The property now says what the code keeps, and the run has three keys.

### Recording

Assumed (`RecordingAssumption`): the bounds are numbers and one of them allows the most chunks, and `None` and `"test"`
are no starts.

`StartsInv`: no start has a later request id than the page, and an abandoned one that still waits for the microphone has
an earlier one, which is why its permission is refused. `TypeInv` also ties the refs of the hook to the starts: the
recorder, the microphone and the meter are those of a granted one. `ChunksInv`: a chunk has one record and a name that
is not used again, and a deleted chunk is not being written, and if a confirmation has it in hand or has put it back
then it had read it before the deletion (`held`). A step of the storage
mode or of the consent needs no such history: `StorageModeHonest` and `ConsentKnown` are preserved over `RecordingCorrect`.

### Review

Assumed: `TranscriptsWellFormed`, that the sentences of a transcript have different ids (they are the primary keys of the
server's rows, or made fresh in the browser) and the fields and types of `BrowserReviewSegment`; `InputsWellFormed`, that
what is entered is made of the vocabulary and an imported dictionary has rows; and `NoneIsNoType`. Nothing is assumed of
the patterns, the participants, the ids of added sentences or how often an operation is used.

`ReviewOK`: ids stay different, every item is `Current` with its sentence (its content, and its blockers as they follow
from the sentence now), every sentence that calls for a judgement is `Covered` by an item, and a completed review has
none pending. The gates read only items, so this is what makes them say something about sentences. Every operation that
touches a sentence ends in `refreshDerived`, and `DerivedOK` shows that it restores the invariant whatever the sentences
have become; what is left is that each operation keeps the ids different (`PatchOK`, `RewrittenOK`, `ChangedSegments`),
and that the operations that do not end in it touch nothing it derives, or judge an item that is current (`JudgingOK`).

Merging clusters and assigning a speaker patch one sentence after the other, a fold. `LoopExists` and `LoopOK` carry it
without an induction theorem: a set of numbers of steps at which the loop would fail has a least member (`Least`, from
the library's `WFMin`), and one step before it the loop has not failed. `ByMaximum` and `FoldStays` do the same for the
folds of the dictionary and for sequences made flat.

`FullInv` adds two parts. `TextsInv`: sentences, dictionary and events have their types, and what is kept is about
sentences that remain. `ClustersInv` is what makes the buttons of a cluster safe after any history:

* `Identified`: active clusters have different ids, and an id tells where it comes from: built for its label, or split
  off. Assigning a cluster looks for its id *after* the patches have rebuilt all clusters, so it must be known which
  cluster has that id now: one with the same label, if any (`LabelsKept`, carried along the loop by `AlongStep`).
* `Filled`: a cluster whose id was built for its label has all that its speaker said, even next to one that was split off.
  Without it, assigning a cluster could leave sentences of its speaker behind, and their rebuilt cluster, which takes the
  same id, would be given the new label as well. `Gone` draws the conclusion: once its sentences are given away, no
  cluster has its id.
* `LabelsDiffer`, only while every sentence is in exactly one cluster (`Once`): two clusters of one label appear by a split
  and by nothing else.

A refresh makes the clusters a `Partition` again whatever they were (`RefreshedOK`), so most operations restore `Once`.
Assigning and merging change clusters after the refresh: `RelabelledOK` and `MergingOK` say when that preserves it, and
`SplittingOK` that a split never does. For the trace, `Traced` reduces the events of a step to those the operation appends,
and `RewrittenFull` shows that these are one for each sentence with a new text, however many replacements a dictionary
has made in it.

### Workspace

Assumed: `RequestsWellFormed` and `EarlierWellFormed`, described in section 2.

`ControlInv`: a transaction is on the path of its request. `AccountsInv`, `ProjectsInv`: a row or unique entry that is
being written belongs to one transaction, so what it has found absent still is at its commit. `MeetingsInv`: a
transaction that will insert the quick meeting (`WillBeFirst`) holds the row of the quick project, and there is no quick
meeting until it ends; foreign keys hold. `EventsInv`: a key has one event of each kind and actor, and that event is the
request's. `ConsentInv`: each consent, and each answer, has its event.

`ListInv`: what the reader has seen does not come after the cursor, and a meeting that was listed when the reading began
is seen or behind the cursor while it stays listed. A page is read by rank: the rows before a row are counted, so that
`LastRow` exists and every row that is not on the page is behind it (`Pages`, from `Ranks` by least counterexample). The
rest is that a step of a transaction moves no meeting in the order (`MeetingsForward`).

### Only model-checked

* `EveryRequestAnswered`, `DueIsPurged`, `JobsSettle`: liveness under fairness, and with it ENABLED, is outside what
  TLAPS proves here.
* What `AudioAnalysis` and `MigrationRunner` compute: functions without a state, which TLC evaluates over bounded inputs.

## 5. Findings

Each of these is a run that TLC finds violated.

1. `DeletedIsHidden` (`packages/db/src/index.ts:984`): a user who deletes a meeting that a sweep has scheduled
   gets a receipt and the meeting stays visible; `docs/STAGE7_SECURITY_PRIVACY_OPERATIONS.md:11,49` say it is
   hidden at once.
2. `OnlyRequestedRevision` (`apps/worker/src/index.ts:87`): the version is checked in one read and the text taken
   from the next, so a draft of a newer text can be returned under the requested version;
   `apps/worker/src/index.test.ts:6` says otherwise.
3. `DraftKeptForItsVersion` (`apps/web/app/TranscriptEditor.tsx:146`): when the first GET of a reopened page fails, the
   stored review draft is compared with no version, taken for outdated, and the autosave overwrites it;
   `docs/STAGE5_SPEAKER_DICTIONARY_REVIEW_UI.md:28` says it is restored when its version is the same.
4. `RetentionOverridesRecovery` (`packages/db/src/index.ts:1032`): a meeting with a user's request is not brought forward
   when its retention period ends; `docs/STAGE7_SECURITY_PRIVACY_OPERATIONS.md:12` and `docs/DATA_STORAGE_POLICY.md:81`
   say that the retention period overrides the recovery period.

Other disagreements met while modelling. The models contain these behaviours unless it is said otherwise, and the
properties are stated around them; no run is spent on them.

Queue and deletion:

* A failed job keeps its id for seven days and answers every new attempt for the same transcript
  (`packages/queue/src/index.ts:80,93`); `RecordingPanel.tsx:742` tells the user to try again.
* The timeout of an AI request covers the headers and not the body (`packages/ai/src/index.ts:166-178, 343, 431`).

Recording:

* `storeBrowserChunk` listens to `oncomplete` and `onerror` and not to `onabort` (`browser-recording.ts:197-202`): a
  transaction that fails at its commit settles nothing, so the catch at `useBrowserRecording.ts:342` does not run and the
  panel goes on saying IndexedDB for a chunk that is lost; `docs/STAGE4_BROWSER_RECORDING_QUALITY.md:33,72` promise the
  fallback to memory. `StorageModeHonest` excludes these chunks (`aborted`).
* `confirmLocalChunks` puts back chunks that a deletion beside it has removed (`useBrowserRecording.ts:459, 479`), although
  the message at line 497 says that they are deleted. `DeletedStaysDeleted` excludes exactly the chunks that a confirmation
  had read before (`held`). The deletion covers only the last session's chunks.
* A second click while the consent is being recorded gives two recorders, one of which the hook no longer knows; leaving
  the page during that await starts a recording that no page shows (`RecordingPanel.tsx:319-330`).
* The end of the input test stops the level meter of a recording that has begun meanwhile
  (`useBrowserRecording.ts:265`).
* The pending consent of one start is overwritten by the next, and the answer for the older removes the newer
  (`RecordingPanel.tsx:250, 328`), although by `docs/STAGE7_SECURITY_PRIVACY_OPERATIONS.md:9` it is held and synchronized.
  `ConsentKnown` asks for a consent of the meeting, not of each start. One older than 30 days is refused and sent
  again for ever (`packages/db/src/index.ts:885`, not modelled).
* After a quick pause and resume, `onend` of the old speech recognizer restarts it (`RecordingPanel.tsx:537-545`).

Editing:

* An OK answer whose body is lost is a success without a payload (`meeting-api-client.ts:44`): the save is not repeated,
  its key is dropped (`RecordingPanel.tsx:630, 850`), and the next click is refused for its own first attempt;
  `docs/STAGE4_BROWSER_RECORDING_QUALITY.md:50,55` and `docs/STAGE2_POSTGRESQL_REPOSITORY.md:83` promise a retry with the
  same key that gets the first response. `RetryNotRefused` excludes it.
* Three answers replace what was typed before them, and `UnaskedKeepsEdits` allows them: that of a reload, which asks at the
  click whether edits would be lost and not when its answer arrives (`RecordingPanel.tsx:677`;
  `docs/STAGE4_REAL_TEST_GUIDE.md:44` says that a popup confirms it); a stored draft whose read begins after the typing, which
  is then not seen as an edit (`TranscriptEditor.tsx:135`; `docs/STAGE8_RELEASE_READINESS.md:43` says that the race is
  closed); and that of a save, for what was typed while it was in flight (`RecordingPanel.tsx:631`).
* A reload's answer that comes after a save's sets the version back, so that the next save is refused
  (`RecordingPanel.tsx:360-375`).
* Of two transcript saves in flight, the first one's refusal drops the other's key (`RecordingPanel.tsx:637`).

Review:

* While there is no review the panel counts no unresolved decision (`TranscriptEditor.tsx:195`), and a version change while
  the draft is being read cancels the read for good (`TranscriptEditor.tsx:127, 132, 165`): the minutes can then be
  confirmed with nothing judged, although by `docs/STAGE5_SPEAKER_DICTIONARY_REVIEW_UI.md:44` the confirmation is blocked.
  `GatesAreSafe` speaks of a review that exists.
* A split leaves the original cluster split and its new one twice (`browser-review.ts:365-378`); it is the exception of
  `OnlySplitBreaksClusters`.
* An approval and its valid evidence survive an edit that keeps the sentence's kind (`browser-review.ts:160-170`);
  adding or deleting a sentence resets every judgement (`TranscriptEditor.tsx:178-184`).

Organization:

* A project created with the key `QUICK` before the first view of the home page breaks the quick recordings for good
  (`packages/db/src/index.ts:850-870`); the home page asks for the quick meeting for every role, and a viewer is
  refused (`page.tsx:51`); an archived quick project is active again after the next view.
* `createMeeting` checks that its project is active without a lock, so a project can be archived under it.
* One idempotency key used for two meetings leaves the second consent without an audit event
  (`migrations/0007_privacy_retention_operations.sql:47`).

Analysis and migrations:

* A quick segment takes the severity of the first overlap it meets, not of the strongest; an extract whose overlap
  begins after the end of the recording is refused by its own schema; a segment with fewer milliseconds than words gets
  words that overlap.
* A migration file with a lower number that arrives late is applied after the higher ones; a removed file goes
  unnoticed; a modified one stops the run after the new files before it have been applied.

## 6. Not modelled

* The user interface, its pages and styles, and the deployment descriptions: no protocol of their own. Playback,
  scrolling (`virtualWindow`), TXT downloads and notices are left out for the same reason.
* zod schemas, formatting, password hashing, session tokens, upload metadata, body limits and error texts: functions of
  one input, which no interleaving can spoil. Where a refusal matters (an extract that its schema rejects, a request
  that is not well formed) the model says so.
* Prompts, the wording of minutes and the parsing of a provider's JSON: a call to a provider ends with an answer or one
  of its errors.
* Speech recognition in the browser: text that arrives (`LiveText`, the edits of `EditorSession`).
* The deprecated `saveTranscriptSegments` and `confirmMinutes`: a read followed by the save that is modelled.
* Revision lists, metrics and health servers: reads.

## 7. Plan

The components are modelled, and every safety and action property that a passing run checks is proved; the three liveness
properties are checked by TLC. Of the hazards of `PROJECT.json`, one
has no property of a run because it is about functions (two migration runners: `MigrationRunnerChecks` states assumptions
that TLC evaluates), and six have none, or one with a named exception, because the code does not prevent them (section 5): pending
consents, answers without a body, answers over typed text, confirmations beside a deletion, aborted writes, and the gate without
a review. A property for each of them would be a run that is violated: these are what a fix of the code
should come with. What is left is what section 6 lists as not modelled.
