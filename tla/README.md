# Verification of LexiLoop

LexiLoop is a vocabulary trainer: a Cloudflare worker with a D1 database and an
R2 bucket serves a web application, and a command-line compiler turns a scanned
course into immutable content releases that the worker presents.  This
directory holds TLA+ models of the parts whose correctness depends on order,
concurrency and failure, the TLC configurations that check them, and TLAPS
proofs of what matters most.

## Inventory

| component | state it keeps | operations | what is hard about it |
|---|---|---|---|
| **Study API** (`apps/worker/src/study`) | D1 tables `review_log`, `card_state`, `word_progress`, `study_session` | create a session, grade, undo, patch | a handler is many awaited reads, then one atomic batch; other requests, retries and tabs run between any two of them |
| FSRS (`packages/fsrs`) | none | compute the next card state | pure |
| **Releases in D1** (`packages/db/.../releases.ts`) | `content_release.status`, `app_meta.active_release_id` | status steps, activation batch, rollback | decisions from reads before the batch; remote activation is not atomic |
| Retention (`worker/src/releases/retention.ts`) | `content_release`, R2 objects | plan and delete retired releases | the plan is stale when applied; rows and objects are deleted in separate steps |
| Aliases (`packages/domain/src/releases/aliases.ts`, `release/aliases.ts`, `alias-repository.ts`) | `content_key_alias` | declare and import edges, resolve a key to its canonical root | chains over several releases, cycles, progress that a grade moves meanwhile |
| **Review client** (`useReviewSession.ts`) | a reducer in the tab | reveal, rate, undo, resume | lost answers, retries with the same event id, late answers |
| Learn client (`useStudySession.ts`) | a reducer, pending presentations | present words, grade, patch | presentations sent late, in parallel with grades |
| API client, query cache (`apps/web/src/lib`) | caches per user | fetch with CSRF, invalidate | answers of an earlier user after logout |
| Service worker (`sw.ts`) | Cache Storage | cache content per release, clear on logout | a fetch in flight refills a cache just cleared |
| Authentication (`worker/src/auth`) | `auth_session` | login, logout, expire | sessions revoked while requests run |
| Content and search (`worker/src/content`) | none (immutable reads) | bootstrap, word, audio, search | consistent release over several reads |
| Progress, statistics (`worker/src/stats`, `progress`) | none | the overview of a learner, in several queries | grades between the queries; days of the learner's calendar, whose offset changes |
| Backup and restore (`worker/src/backups`) | R2 objects, D1 tables | export, verify, restore | a restore that stops half-way; rows that change while they are exported |
| **Compiler pipeline** (`pipeline.ts`, `ledger.ts`) | stage manifests, a ledger, a work lock | run stages, skip what is up to date, resume | crashes between two files, two processes, invalidation that cascades |
| **Review loop** (`agents/review-loop.ts`) | work packets and rounds | propose, verify, correct, escalate | rounds that never converge, results of an older round |
| **Release build and publish** (`release/*.ts`) | package directory, D1, R2 | stage, upload, smoke test, activate, roll back | a crash leaves a release half imported; a rerun must converge |
| Speech (`tts/*.ts`, `python/lexiloop_media/audio.py`) | audio files by content hash, `audio/manifest.jsonl` | plan, synthesise, reuse, inspect | partial files, retries, paying twice |
| Media and OCR (`python/lexiloop_media`, `stage-registry.ts`, `media.ts`) | page images, `ocr.jsonl`, raw evidence | extract, clean, recognise in chunks | workers killed at any write, configs changed and changed back |
| Visual review (`agents/visual-ocr.ts`, `segmentation.ts`) | a queue of doubtful fields and answers | ask, answer, apply | answers that land while a run rewrites the queue |
| Segmentation (`normalize/segmentation.ts`) | none | pages to units, words, examples | misread and lost page signals |
| Pages and components | none | presentation | - |

**How they interact.**  The compiler publishes a release into D1 and R2 and
switches `app_meta.active_release_id`.  A study session pins the release that is
active when it is created, and every later request of the session reads that
release; user state is keyed by *canonical* keys, to which the aliases of a
release resolve the keys it presents.  Clients call the API over HTTP and retry
with the same `event_id`; requests of one user can reach different isolates, so
the database is the only thing they share.  Retention deletes releases that are
neither active nor needed by sessions or history.

**What makes each part correct.**  Study API: a grade counts once, a position
matches the log, an undo restores exactly what the previous grade left, and an
introduced word is complete; nothing of one user is visible to another.
Releases: one active release, equal to the pointer, never a half-imported one,
and never one that retention has deleted.  Pipeline: a stage that is skipped
would have produced what is on disk.  Review loop: it ends, and what it accepts
was verified in the round it belongs to.  Clients: a card is not skipped and not
graded twice, whatever the network does; what is written lands in the account
the page shows; nothing personal survives a logout.  Aliases: the learner's rows
are where the worker looks for them.  Backup: what a drill restores contains
every answer its states were computed from.  Compiler stages: what the ledger
calls passed is whole, settled by an answer where it was doubtful, in the unit
that prints it, and paid for once.

## Modules

| module | what it is |
|---|---|
| `StudyServer` | the study API over D1: one action per round trip of a handler |
| `MCStudyServer` | instances of it for TLC |
| `ReviewHistory` | what the study API promises, as a stack of grades per user, with no database, requests or races |
| `StudyRefinement` | the mapping under which `StudyServer` implements `ReviewHistory` |
| `StudyServerProofs` | theorems about `StudyServer` and `Statistics` for every value of the constants |
| `ReleaseLifecycle` | a content release from its staging to its deletion: the local and the remote publishing tool, retention, and the sessions that pin releases |
| `MCReleaseLifecycle` | an instance of it for TLC |
| `ReleaseLifecycleProofs` | theorems about `ReleaseLifecycle` for every value of the constants |
| `Pipeline` | the content compiler on one work directory: scheduling, ledger, lock, and the commands that bypass the schedule |
| `MCPipeline` | an instance of it for TLC |
| `PipelineProofs` | theorems about `Pipeline` for every value of the constants |
| `Statistics`, `MCStatistics` | the overview of a learner's statistics over the log and a calendar |
| `MCStudyLog` | `StudyRefinement` and `Statistics` for TLC |
| `ReviewClient`, `LearnClient` | the review page and the learning page over a network that loses requests and answers |
| `MCWebPages`, `WebPagesProofs` | the two pages for TLC; theorems about them |
| `WebSession`, `WebSessionProofs` | who is signed in: auth sessions of the worker, a tab, its cookie and its caches; theorems about it |
| `OfflineCache` | the service worker and Cache Storage |
| `AliasGraph` | the graph of renamed keys, the worker's walk along it, and what a batch of renames may declare |
| `Aliases`, `MCAliases`, `MCKeyNames` | renames that releases declare and their import, beside the learner's grades |
| `UserBackup`, `MCUserBackup` | the daily export of the learners' rows and the restore drill |
| `MCReleaseParts`, `ReleasePartsProofs` | `Aliases`, `UserBackup` and `OfflineCache` for TLC; theorems about the three |
| `ReviewLoop`, `ReviewLoopProofs` | the proofreading of a unit by agents: packets, answers, rounds; theorems about it |
| `MediaStages` | extraction, cleaning and recognition of the page images |
| `VisualReview` | the visual review of doubtful fields |
| `Segmentation`, `MCSegmentation` | pages to units, words and examples |
| `Speech` | speech synthesis and its validation |
| `MCCompilerParts`, `CompilerPartsProofs` | `MediaStages`, `VisualReview`, `Segmentation` and `Speech` for TLC; theorems about the four |

`StudyServer` is the detailed specification that `ReviewHistory` abstracts; the
two pages talk to a worker whose handlers are single steps, since `StudyServer`
has their interleavings; `ReleaseLifecycle` has of the study requests what
retention reads; `Aliases` and `UserBackup` have each a table of renames, whose
rules are `AliasGraph`'s; `Pipeline` schedules stages whose insides are `MediaStages`,
`VisualReview`, `Segmentation`, `ReviewLoop` and `Speech`.  Modules that share no
state are checked side by side in one instance: a behaviour is of the part that
`Init` picks, and the variables of the other parts keep their values.

### StudyServer

*State.*  `reviewLog`, `cardState`, `wordProgress` and `session` are the four
tables; `rows` gives the `rowid` of the next log row; `active` is the release
pointer; `clock` is `Date.now()`.  `req` holds the requests in flight: `pc`
names the statement a request runs next, the other fields what it has read.

*Actions.*  Each action is one awaited statement.  `GradeReplay`/`GradeStart`
(lookup of the event), `GradeSession` (session and position), `GradeNow`
(`reviewed_at`), `GradeState` (`before_state`), `GradeProgress` (which
statements the batch gets), then `GradeCommit` (the whole batch) or
`GradeConflict` and `GradeReread` (the event id was taken meanwhile).  Undo has
the same shape: `UndoStart`, `UndoLatest`, `UndoSession`, `UndoProgress`,
`UndoCommit`.  `PatchStart`/`PatchCommit` are `applyStudyPatch`.  Creating a
session reads the active release and the time (`CreateStart`), then builds the
queue of one of the three modes (`CreateNewWords`, `CreateReview`,
`CreateQuickTestWords` and `CreateQuickTest`) and inserts it.  An answer with an
error frees the slot and changes nothing, so errors are not told apart.

*Abstractions.*  Cards and words are named by canonical keys; `LocalKey` is the
name a release presents them under, so a renamed word is one whose `LocalKey`
differs.  A release's content is constant because it never changes once staged.
The FSRS state a grade computes is a function of the log row it writes and is
named by the row's event.  Which cards are due is any set up to `DUE_QUEUE_LIMIT`.
Ratings, durations, familiarity values and time stamps that nothing reads are
left out, as are requests for a card outside of the session's queue, which
`GradeSession` refuses.  The group size is one for all users.

*The serial discipline.*  Some of what the code promises holds only for a client
that waits for its answers, and the module says which: `SerialSpec` is `Spec`
with at most one *live* event per user - a grade whose event is not in the log
yet, with any number of retries of the same event beside it, or an undo.
Requests whose event is committed do not count, so late duplicates are
everywhere, and patches, creations and activations are never limited.
`useStudySession.ts` and `useReviewSession.ts` keep this for grades
(`gradePending`), but a second tab does not, and in the review page an undo can
be sent beside a pending grade (`ReviewPage.tsx:85`, `useReviewSession.ts:370`):
that is what the run `study_undo_race` is about.

*Fairness.*  None is assumed: every property of this module is a safety
property.  A worker isolate may be evicted between two statements, so no
handler is obliged to finish; a slot that stays in flight for ever models it.

### ReleaseLifecycle

*State.*  `status`, `activatedAt`, `pointer` and `imported` are
`content_release`, `app_meta` and the rows of a release, `index` the releases in
the search table, `uploadedAt` the objects in R2.  Activation times are days, by
which retention counts, and within a day `before` keeps their order, by which it
finds the rollback target; a millisecond clock would say the same with a far
larger state.  `session` holds the sessions and what pins them, `referenced` the
releases that `word_progress` or `review_log` name.  `op` is the command in
progress, `plan` the last retention plan that an operator has kept.

*Actions.*  `StageStart`, `CreateRow`, `Import`, `Upload` stage a release in the
order of the tool (`stageBundle` imports first, `remoteStageBundle` uploads
first); `SmokeStart` and `SmokeVerdict` are the checks before activation.
`LocalActivate` and `LocalRollback` are one batch; `RemoteActivate` and
`RemoteRollback` read status and pointer and go on with `RemoteDemote`,
`RemotePromote`, `RemoteSwitch`, a wrangler call each.  `MakePlan` is
`planRetention`; `ApplyStart` checks a chosen part of a plan and goes on with
`ClearIndex` and `DeleteRow` (or `DeleteFails`) for each release and
`DeleteAudio` for each object.  `Die` ends any command after any statement.
`SessionStart`, `SessionInsert` and `Grade` are the study requests, reduced to
what retention reads.

*Abstractions.*  The contents of a bundle are three steps (unit reports, content
and its index rows, cards): smoke compares the sums of the first with the counts
of the others, so a file that stops half-way is told from a whole one wherever it
stops, and half a file adds no other verdict.  A bundle that fails its own
verification is never staged.  Alias rows are left out, so is a second operator:
the tools are run by hand, one command at a time, and nothing in them guards
against two.

*What is assumed of time.*  Days pass between two commands, not within one, and a
session creation, which is two statements, does not outlast the time in which an
operator moves the pointer, makes a plan and confirms it (`RequestsAreShort`).
Without it a creation that read the pointer before all of that could insert its
session between the last check and the deletion.

*A plan and its age.*  A plan is `fresh` until the next command that publishes
something.  `FreshPlanIsSafe` is what retention promises of such a plan;
`LiveSessionsStay` is what the second look of `applyRetentionPlan` gives for any
plan.  An old plan may delete the rollback target of the day, or an object that a
release staged since uses.

*Fairness.*  None: an operator is free to stop after any command.

### Pipeline

*State.*  `ledger` holds the entry of each stage, `normalized` and `cards` the
two files, `lock` the owner of `compile.lock`, `sources` the versions of what
people and agents edit beside the compiler, `proc` the compiler processes: the
command, the step it is in, the stage, and what `runPipelineLocked` keeps in
memory (`cascade`, the upstream hash, the input hash).

*Actions.*  A run takes the lock and recovers (`RunStart`), then for each stage
of its prefix fails to hash (`HashFails`), skips (`Skip`), stops at a BLOCKED
entry (`StopsBlocked`) or marks it RUNNING (`Begin`, with the release gate).  A
stage reads and opens its file, fills it, and is saved as PASSED
(`OpenNormalized`, `WriteNormalized`, `StagePasses`, and so on), or fails or
blocks at any of these steps.  `CardsStart` and `PackageStart` are the direct
commands `cards generate`, which takes the lock, and `release package`, which
does not; packaging reads the entries and the text (`ReadForPackage`), the cards
(`ReadCards`), and compares the files with the entries when it writes
(`WriteBundle`, `Fresh`).  `Die` ends any process anywhere and leaves its lock, `Unlock` is the
operator who removes it once no compiler runs (as the runbook demands; an
operator who removes it earlier has no promise).

*Abstractions.*  Four stages stand for thirteen.  `STRUCTURE_NORMALIZE` writes a
file that later stages read; `REPAIR_LOOP` is the one of the four agent gates
whose output the cards hash, and it says of each unit no more than "passed"
(`stage-registry.ts:1301`); `CARD_GENERATE`; `RELEASE_PACKAGE`.  The media
stages before and the speech stages between cards and package have the shape of
the first two.  A hash is named by what it is taken of.  An entry keeps its
hashes only while PASSED, since no other entry's hashes are read.  PENDING and
FAILED are scheduled alike and are one status, `"OPEN"`.  The agents' queue is a
number, odd while a packet waits: units that were answered are not asked again
when the book changes, since `assessUnit` takes the generation of a unit by its
key (`review-loop.ts:264`).  Retries of a stage end in the state they began in
and are left out.  Files and rules are never edited back to an earlier version.
The text is made of the book's files and of the answers of the visual review,
and hashed by the files alone (`Inputs`, `OpenNormalized`); inside the stage the
answers are `VisualReview`'s.  The freshness check of packaging computes the text's
counts again from the queue, so an answer that changes them makes it fail; that is
one of the ways in which a stage fails here.  The bundle is named by its content.

*Bounds.*  One edit, of a file, a visual answer or the card rules, at any moment, and
one packet; a run ends after normalisation, after the gate, or goes through; only
`CARD_GENERATE` may end BLOCKED, besides the package by its gate.  Two processes are
what the lock is about.  One edit is what makes old and new differ; the theorems have
no bound.

*Two exceptions.*  `lost` is a history variable: a run ended - it died, or was told
to (`--through`) - between passing the gate again and making the cards again.  The
cascade is gone then, the next run skips the old cards, and new text is packaged with
old cards (see the observations): `SkippedIsFresh` and, of a run,
`BundlesAreOfOneCompile` are said of the other states, and false without `~lost`.
`release package` takes no lock and asks of the entries only that all have passed; of
it `BundlesAreOfOneCompile` is said if the directory was `Settled` when it read them -
no compile under way, nothing lost, nothing to make - and then holds whatever a
compile rewrites before it has read the cards.  And since no hash covers the visual
answers, `SkippedIsFresh` lets the text have any that ever stood: all it says of them
is that text and cards agree.

*Fairness.*  None: processes die.

### Statistics

*State.*  The learner's `zone`, an offset that changes once, at any hour; `now`;
the review log and the card states; the `request` under way with what it has
read.  Instants are hours, a date is the number of its day.

*Actions.*  `ReadStates`, `CountToday` and `AnswerOverview` are the queries of
`statsOverview`; `Grade`, `Undo` and `Wait` come between them.  `LocalDateKey`
and `StartOfLocalDay` (two passes over the offset, as in the code) are the
conversions, `StreakDays`, `DueForecast`, `DifficultWords` and `UnitMastery` the
counts, the last with the keys of renamed words (`AliasKeys`).

*Abstractions.*  Retention and difficulty, which a library computes, are left
out, as are the counts of all reviews and of introduced words, each a single
query.

### ReviewClient and LearnClient

*State.*  The reducer of the page (`review`, `learn`), the request each of its
asynchronous functions awaits (`lane`, `work`, `loads`), the worker's sessions
and log as far as the page's user sees them (`worker`, `records`), requests that
the client has given up and the worker may still serve (`late`).  History:
`reveals` and `sights` say what was on the screen when an event id was made,
`parted` that something was served of which the client knows nothing.

*Actions.*  A click (`Reveal`, `Rate`, `Undo`, `StartGroup`, `AdvanceStudy`,
`ChooseFamiliarity`, ...) dispatches and sends a request; the worker serves it
(`WorkerServes`, `LearnServes`); the function goes on with the answer
(`OpeningContinues`, `GradingContinues`, `RatingContinues`, ...).  Requests and
answers are lost (`Lose`, `LearnLoses`), sessions expire, the review page is left
and mounted anew (`Remount`).  The learning page reads the words' contents on
its own (`ContentLoaded`, `ContentFails`, `IdleTask`).  In `LearnClient` a
render comes before the next click or answer, so an action that dispatches ends
with the effects of that render (`Renders`).

*Abstractions.*  The worker's handlers are single steps.  A queue snapshot never
changes, so a view of a session is its id and position.  A word of the learning
page has one card, named by the word.

*Fairness.*  The worker serves and the browser delivers answers and runs effects:
a weak fairness condition for each function.  Users, losses and the clock are
free, so a function may wait for a request that is lost - it then sees a network
error, which is an answer.

### WebSession

*State.*  `accounts` (status and `session_version`), `sessions` (the rows of
`auth_session`, with the password their login presented), the browser's
`cookie`, the `tab` (page, CSRF token, the user that is shown) and its
outstanding `calls`, one of each kind.  A CSRF token is derived from its session,
so it is named by it; a password is named by its generation.

*Actions.*  A call is sent (`Fetch`, `Logout`, `Submit`), read by the worker in
its steps (`Serves`: the session row, the user row, the handler; for a login the
user, then the insert), lost (`LoseCall`), sent again if it is a read (`Retry`)
and taken in (`Continue`).  Another tab signs in or out (`SignInElsewhere`,
`SignOutElsewhere`); the seed-users tool rotates credentials and sets the
status; sessions expire.

*A history variable.*  A read that a sign-out cancelled is sent again by the API
client all the same, under whatever cookie there is by then; it and the token it
hands to the tab are `stray`.  `WritesAsBelieved` says that a write lands in the
account the tab showed when it was sent, but for a stray token: with three
sessions the exception is real (see the observations), and a first version of
the property without it was refuted by the proof attempt, not by the run, whose
two sessions are too few for it.

*Fairness.*  For each kind of call, the worker serves it, the browser delivers or
repeats it.

### OfflineCache

*State.*  The `workers` of each build with the release they remember, the one in
`control`, the names in Cache Storage and what is `stored` in them with the
login it came from, the `requests` and the deletions (`jobs`) under way.

*Actions.*  `Request`, `Respond`, `WriteThrough`, `Observe` and `Fail` are a
fetch handler; `ListCaches` and `DeleteCaches` a deletion for a logout, a new
release or a new build; `Install` and `StopWorker` the life of a worker;
`Login`, `ClearPersonalState` and `SwitchRelease` the page and the server.

*Abstractions.*  A put follows its open at once: a cache deleted between the two
takes the response with it, as if the put had come before.  What is in a
response is its kind and its login.

### Aliases

*State.*  The `edges` of `content_key_alias`, the keys under which the learner
has `progress`, the releases `present` and `studied`, the `import` of an
activation and the `grade` under way.

*Actions.*  An activation looks at the declared batch (`Declare`), at the
releases its edges name (`LookAtEnds`) and at the progress (`LookAtProgress`),
each a query of its own, and imports the edges in one batch or one by one
(`ImportLocally`, `ImportRow`, `ImportEnds`, `ImportBreaks`); `Rollback`,
`DeleteRelease`; a grade resolves its key (`GradeResolves`) and commits later
(`GradeCommits`).  Of `AliasGraph`, `Sink`, `Walked`, `Resolves` and `Reached` are the
walks, `ValidBatch` and `FitsStored` the gates of the two files `aliases.ts`,
`Upserts` and `Collides` the table's unique indexes.

*What is excepted.*  `ProgressIsAtTheRoot` is said of states in which no
statement-wise import has broken off, no grade was overtaken by an import and no
release was deleted out of the middle of a chain (`Undisturbed`); the three
exceptions are real and listed below.

### UserBackup

*State.*  The personal `tables` with their rowids, `renames`, `pointer`, the runs
of the exporter (`exports`) and the two objects of the day (`bucket`).

*Actions.*  An export reads page after page (`ReadPage`), the releases, the
pointer and the renames, and puts two objects (`PutData`, `PutManifest`), dying
anywhere (`ExportDies`); learners begin, grade and undo (`Begin`, `GradeCard`,
`UndoNewest`), an administrator adds an account (`Seed`).  An activation looks at the
stored renames and at the progress (`PrepareActivation`, with the gates of
`AliasGraph`), stores its renames one by one (`StoreRename`), promotes its release
(`Promote`) and moves the pointer (`SwitchPointer`), and may break off anywhere
(`ActivationBreaks`); a rollback is one without renames.  Chains, renames declared
twice and chains stored in part all occur.  A grade goes to the end of the walk, and
fails if the walk throws.  The drill is an operator on the two objects
(`DrillPasses`): the import under the foreign keys and unique indexes, then the walk
from every edge, which must lead to the root that the edge names (`LeadsToItsRoot`).

*What is excepted.*  `FinishedExportRestores` is not said of an export beside which an
account was added or an answer undone (`disturbed`), nor of one that took renames
while the worker could not walk from some key it had read (`walkable`): a key that two
releases declare, or a chain of which an activation has stored some edges and not
others.  The exporter does not look; such an export fails the drill at
`alias_resolution`.

### ReviewLoop

*State.*  The `packets` and `results` of the semantic queue, the version of the
book (`source`), the gate a run is at, the gate that is BLOCKED, and what
`CARD_GENERATE` accepted.

*Actions.*  `StartRun` and `RunStep` take a run through the gates: each assesses
the unit from the queue (`Assess`, `Folds`, `Author`, `Judged`), asks for what is
missing (`Enqueue`) and ends, or passes.  `Answer` is `semantic-ingest`, with
every condition of `validateSemanticResult` (`MayIngest`); `Normalise` is another
version of the book.  `MakesCards` accepts a passed text, blocks if a word would have
no card, and fails if another card rule is broken; `Folds` fails, at every later
assessment, on a repair whose value the schema refuses.

*Abstractions.*  One unit; a generated text is the set of versions it is valid
for and what will be found out of it (`Flaws`), a review its verdict.  A result has
the run of its envelope (`run`) and the id that its output bears (`own`), which the
code compares nowhere: `Misnaming` names the roles whose output may bear another.  An
agent answers what its packet shows, the id of the text or review in it (`Names`).
One answer is taken in at a time.

*What is excepted.*  `LoopEnds` is not said of a loop that is `Ambiguous` (two packets
of a role and round, for two versions of the book) or `Stuck`: a text that bears
another id than its run, which no review can name both at the ingest and in the
assessment; a malformed repair; a passed text that breaks a card rule.  In each of the
three the runs may fail for ever, neither accepting nor BLOCKED, and TLC refutes
`LoopEnds` without any one of them.  `AcceptedIsReviewed` says that the review came after the
text only of a text that bears its own run's id.

*Fairness.*  The supervisor runs the compiler again, agents answer.  A run can take a
step as long as no cards are accepted, so weak fairness of `RunStep` is written as
`RunsGoOn`: infinitely many such steps, or cards for good.

### MediaStages, VisualReview, Segmentation, Speech

`MediaStages` has the work directory of the first stages (`work`), their ledger
entries, the run (`job`) and the operator's `config`.  A run extracts, cleans and
recognises in chunks, each a worker process that is killed before, after or in
the middle of a write (`Leaves`, `ChunkDies`, `KillRun`); `media extract` and
`media clean` come between runs.  Recognition is a function of image and config,
so a row is what it was made of.  Of its config a row names the `Identity`, four
fields of the file, and the resume compares no more (`Complete`), while the stage's
input hash is of the whole file: after an edit that leaves the identity as it is,
rows of before and after stand side by side.  `RecognisedIsWhole` is about identities.

`VisualReview` has what the recogniser gave (`ocr`), `packets` and `results`, the
entry of the stage and the run in it (`pass`): `BeginNormalize`, `Reconcile`,
`WriteQueue`, `RecordNormalize` are the stage, `CheckResponse`, `CheckRevision`
and `AppendResponse` the ingest, which takes no lock; `Reread` is a new
recognition.  `Resolve` is the resolution of a field over its rounds.

`Segmentation` walks the lines of a book (`OpenPage`, `ReadLine`, `Emit`) after
`AttributePages` has given every page to a unit; it is sequential, and what is
hard about it is the combination of signals, so all of the book is in the
initial state and `printed` says what the book really is.

`Speech` has the `files`, the `manifest`, the entries of `TTS_SYNTHESIZE` and
`AUDIO_VALIDATE`, the `run` with its workers' calls, and counts what was `paid`
and what of it was `spoilt`.  A file is what its bytes tell: ended before or
after the embedded hash of the text, or whole.  `Kill` leaves any file that was
being written torn or a stub.

*Fairness.*  None: workers are killed, operators stop.

## Runs

Each cfg gives small sets.  Events, sessions, requests, patch ids, releases,
compiler processes, exporters and agent runs are interchangeable, so they are
symmetry sets in the runs without a liveness property; the runs with one
(`web_pages`, `web_session`, `review_loop`) have none.  Deadlock is looked for in
the four study runs and in `pipeline`.  The others may stop: release
runs when every release has failed its smoke test, since a bundle keeps its
identifier, the pages when the user stops, the compiler's parts when the last
edit is made and everything has passed.

| run | shows | bounds |
|---|---|---|
| `study_any_order` | append-only log, answers and card states grounded in the log, one step forward per row, introductions complete when made, under every interleaving | 2 users, 2 sessions, 2 events, 2 requests in flight, 2 words with 2 and 1 cards |
| `study_sessions` | position = graded prefix of the queue, card state = newest remaining grade, introduced words complete, for clients that wait | 2 sessions, 2 events, 2 requests, 2 releases of which one lacks a card, clock 0..1 with sessions that expire at 1 |
| `study_history` | the same clients see exactly the stack of `ReviewHistory`; the overview counts by the learner's calendar | 2 sessions, 3 events, 2 requests, 2 cards; three zones of which two change their offset, five instants, 2 reviews, forecast of 2 days |
| `study_undo_race` | violated: an undo beside the grade that introduces the word leaves it INTRODUCED with a card missing | 1 session, 2 events |
| `release_lifecycle` | admitted releases are whole, the pointer serves, the release left is the rollback target, plans old and new take nothing they must not, with both tools and a death after any statement | 3 releases that share an object, 1 session, days 0..1, all periods 1 day |
| `release_parts` | renames stay chains with the progress at their ends; what a drill restores has its answers; a finished export restores, unless an account was added, an answer undone or the renames not walkable when read; nothing personal is cached after a logout | 3 releases with a key each, 2 activations of up to 2 edges; 2 learners, pages of 1 row, 1 row written, and either 2 exporters, or 1 and an activation of up to 2 edges over a table with up to 1; 2 releases, 1 request, 2 builds, 1 login, 1 switch |
| `alias_twice` | violated: the gate lets no second edge for a key in | 2 releases, 2 keys, 2 activations |
| `web_pages` | a grade is of the card that was shown, the page follows the worker, what is held for recorded is, every wait ends | review: 2 cards, 2 sessions, 3 reveals, 1 loss, 2 mounts; learning: 3 words in groups of 2, 2 reveals, 1 loss |
| `web_session` | replaced passwords are out, writes land in the account shown but for stray tokens, signing out ends | 2 users, 2 auth sessions, 2 attempts of a read, 1 administrator's change, 1 loss, 2 calls at once |
| `pipeline` | one compile at a time, no phantom RUNNING entry, skipped text and cards are those that would be made, a bundle's cards are of its text; excepted is a directory where a run ended between gate and cards, for `release package` one that was not settled when it began, and visual answers, which are not hashed | 2 processes, 1 edit, 1 packet |
| `review_loop` | what is accepted was reviewed as it stands, the loop ends unless it is ambiguous or stuck (a text under another's id, a malformed repair, a broken card rule) | 1 repair round, 1 edit of the book, generations that bear any id |
| `compiler_parts` | recognition passes whole and of one identity; no doubtful field is guessed; no printed unit is split or merged, no line leaves its unit; validated speech is complete, a text is paid for once | 2 pages, 2 rules, 3 recogniser configs of which two have one identity, chunks of 1 page, 2 edits; 1 field, 2 wordings, 2 rounds, 2 agent runs; books of 5 pages in three layouts, all signals and contents about a change of unit; 2 texts, 2 voices, 2 workers, 1 retry, 1 edit, 1 answer in vain |

Two requests in flight suffice for a race over one pair of reads and writes; a handler
writes once, so a third request adds only what a second could do after finishing, and
slots are reused.  Three releases are what it takes to have one served, one to roll back
to and one to delete; the fourth would be a second one to delete.  One day is enough to
tell a period that has passed from one that has not.  Two sessions with a common card and
two or three events give every pattern of a grade of a card over a grade of the same
card, in one session or across two, with undos between.  One loss per page is one answer
that does not come while everything else does, and the retry after it is not lost; a
second loss repeats it.  Three keys make the longest chain in which an edge has a
neighbour on either side; one activation over a stored edge lengthens its chain,
refreshes it or declares it again, and stores that in part. A page of one row puts a
page boundary between any two rows.  Two pages in chunks of one have a chunk that was
recognised and one that was not; configs are changed and changed back, with and without
another identity; two texts over two workers are a call that fails beside one that is
being written. Five pages have room for a unit between two units and a restart of the
numbers. Where a theorem states the property (see below) it holds beyond these bounds;
the run then shows that the states it is about are reached.

The two findings.  `study_undo_race`: the batch of an undo reverts
`word_progress` if the word was INTRODUCED when it was read, statements before
the batch; a grade that introduces the word in between is undone in its card
states but not in its stage.  `alias_twice`: a rename that another release has
declared already passes the gate when its root is the same, the unique indexes
are per release, and the walk of the worker throws on the second row at every
later grade of the word.

## Observations that are not runs

Seen while modelling or proving; each can be reproduced by adding the obvious
property, with smaller consequences than the findings or of debatable intent.

**Study API.**  Two tabs that grade the same card
with different event ids both succeed and skip the next card
(`grade.ts:104` advances whatever it finds); two simultaneous undos of one event
rewind twice (`undo.ts:74`); a retry that overlaps its first
request can be answered 409 instead of the original result (`grade.ts:79`,
the next retry is replayed); of two simultaneous patches one processed id is
forgotten (`service.ts:415`); a word presented after its last card was graded
stays IN_PROGRESS although `useStudySession.ts:698` expects otherwise; an undo in
a session whose release renamed the word looks its completeness up under the
release's key (`undo.ts:65-66`) and leaves the word INTRODUCED; `reviewCards`
(`service.ts:336`) looks canonical keys up as keys of the release.  In a zone west
of Greenwich whose clocks go from midnight to one o'clock, the second pass of
`startOfLocalDay` gives 23:00 of the day before, so the day counts an hour of
yesterday (`queries.ts:144-149`).  In a zone east of it whose clocks go from one
o'clock back to midnight, both passes give the second midnight, so the day loses its
first hour to yesterday (the proof of `CountsOnTheCalendar` failed on it).

**Clients.**  `QuickRecall.tsx:175` compares only the numbers of prompts and
cards, while the comment at :13-16 promises no mismatched prompt.  In the learning
page `syncPendingPresentations` retries the first pending word only
(`useStudySession.ts:440-447`); a background read that fails after its word became
visible leaves it loading (:401); a completed session that is resumed shows a
question without a card (:519).  In the review page a lost answer of an undo parts
page and worker until the page is mounted anew, and a failed bootstrap query
leaves it preparing for ever.

**Signing in.**  A read that a sign-out cancelled and the client repeats brings
the CSRF token of a session that another tab has opened since, and a write with
it lands in that account (`api-client.ts:557-570`, `query-cache.ts:104`); a late
401 of an old session clears a newer login (`api-client.ts:497-501`), and so does
the late answer of a logout; `setStatus` does not rotate the session version
(`users.ts:78`), so sessions of a suspended account come back with it.

**Service worker.**  A request under way at the logout creates a deleted content
or audio cache again; one under way at a switch of the release re-creates the
pruned namespace; responses of a session pinned to an old release are written
under the active release's; a logout in a page without a controlling worker clears
nothing.

**Release tools.**  A staging that died cannot be repeated, because the
identifier comes from the content and its row exists (`publish.ts:169`), nor
finished, because smoke fails it; an activation of the first release that died
between promotion and switch cannot be run again, since `remote.ts:530` only
recognises the state when the pointer names another release; a remote activation
that died after its
promotion, followed by the activation of a third release, leaves two releases
ACTIVE and makes retention protect the one that was never served; one that died
after the demotion leaves the served release RETIRED, `retention.ts:159` offers it
for deletion and applying the plan empties its search index (`retention.ts:325`)
before the foreign key of `app_meta` refuses; the objects of
an old plan are deleted without a second look (`retention.ts:328`).

**Aliases.**  A grade between the gate and the import leaves progress under a key
that is no root; statement-wise upserts that break off break walks although
`remote.ts:512-513` says the previous release keeps serving; deleting a release
out of the middle of a chain cuts it; a word with progress cannot be renamed at
all by a continuity report, whose canonical key is the new one.

**Backup.**  An account added, or an answer undone and given again, between two pages
makes an export that the drill refuses or that lacks a row; a grade between the pages of
`card_state` and `review_log` exports answers without a state; the roots of renames are
searched forward only (`export.ts:275`), against the header at :20; an export that finds
a key declared twice, or a chain that an activation has stored in part, is put without
complaint and fails the drill at `alias_resolution`; a second export of the day that
dies between its puts leaves the day with a hash mismatch; the pointer of a restored
database names a release without activation time, so retention finds no rollback target.

**Compiler.**  A BLOCKED entry is overwritten by a run whose input hash cannot
be computed (`pipeline.ts:376`) and by `cards generate`; the hash of
`STRUCTURE_NORMALIZE` leaves out the visual review queue that its run reads
(`stage-registry.ts:802`), so a text made of an answer that was superseded since is
skipped as current; the import of proofread text writes the ledger without
the lock (`proofread-markdown.ts:597`).  A book that is normalised again while the
run then ends before the cards (`--through`, a death, or a run still under way) is
packaged by `release package` with cards of the version before, since all entries
are PASSED and all files as recorded (`cli.ts:1257`); past the gate, a later run
does not repair it, as every hash matches (`stage-registry.ts:1415` relies on the
queue, whose packets are those of the first version), and the run itself packages the
new text with the old cards: this is `lost`.

**Review loop.**  A unit that passes the validator but cites an example twice makes
`CARD_GENERATE` fail for ever; a repair's revised value is not checked against
the field's schema, and a malformed one makes every later assessment throw; nobody
compares the `agent_run_id` in a generation's output with that of its envelope, and
where they differ no review satisfies both the ingest (`work-packets.ts:604`) and the
assessment (`review-loop.ts:281`), so the unit stalls, unless the output bears the id
of an earlier generation, whose review may then pass the later text: `LoopEnds` and
`AcceptedIsReviewed` state these exceptions (`Stuck`, `a.own = a.run`);
`foldGeneration` takes the last review of a round and `assessUnit` the first, so a
second review of a text for another version of the book may pass what the first
blocked.

**Media and visual review.**  A worker killed in its first chunk leaves half a
file that stops all later chunks (`ocr.py:914` writes in place, against the
comment at :876); narrowing the page selection leaves rows of dropped pages and
the stage fails until they are removed; a config changed and changed back may
leave raw evidence that never matches; an edit of tiling or engine parameters that
does not raise `config_version` keeps the rows read before it, although the input hash
changes (`stage-registry.ts:642-648` against :690).  A BLOCK answer is filtered out by one of
its two readers, and the stage stays pending (`stage-registry.ts:840` against
:768); an answer that lands while the queue is rewritten can be dropped
(`visual-ocr.ts:137`).

**Segmentation.**  A unit of one page between two units of one number is
collapsed into them, which happens when numbers restart with the chapter
(`segmentation.ts:2535`); lines above the first headword on the page after a
banner at the end of a page go to the last word of the unit before (:1603-1605
against :2837-2845); an example ahead of the first headword of a unit is dropped.
A unit of one page beside another whose number may be read as its own (6 beside 9,
where 7 and 8 are missing) is merged into it (:2599-2616); a chapter that begins at 9 is taken
to begin at 6 until a banner says otherwise, and is split there; so is the last unit
of a chapter whose tabs are misread in two ways.  `UnitsAsPrinted` and
`LinesStayInTheirUnit` say which books they are about (`Calibrated`,
`Distinguishable`, `Interleaved`, `BannersHaveLines`).

**Speech.**  A WAV torn by a kill is taken for the text's file, since its hash is
the first chunk (`stage-registry.ts:1849` against :1775); audio that fails its
checks is never synthesised again.

## Proofs

Eight modules hold the theorems; each is about all values of the constants, from
the assumptions its component states, and follows one pattern: an inductive
invariant, a lemma per action or kind of action that keeps it, a lemma or two
saying why everything else is harmless, and the theorems read off it.

**`StudyServerProofs`**, from `NoneAssumption`, `ContentAssumption` and
`BoundAssumption`, for any sets of users, sessions, cards, events, words,
releases and requests.

* For every interleaving: `Invariance` (`Spec => []IInv`); `TypeCorrect`,
  `AnswersAreLogged`, `StatesAreGraded`; `LogIsAppendOnly`,
  `PositionsAdvanceWithRows`, `IntroductionIsComplete`, `UsersAreIsolated`.
  None of the invariants is inductive: a commit writes what the request has read
  steps before.  `IInv` adds what a request in flight may still rely on
  (`Grounded`: its session exists and is its user's, its `before` names a row of
  its user and card, its answer describes a row), that ids of sessions in creation
  are unique (`FreshSessionIds`), and that rows and card states refer to rows of
  the same user and card (`RowsGrounded`, `StatesGrounded`).  `Keeps` says why
  reading early is harmless for these facts: rows of the log and sessions are only
  added, or changed in parts no fact mentions.  A statement that only reads goes
  through the lemma `ReadStep`; the four that write have a lemma each; `Writers`
  shows that there are no others, which gives the action properties.

* For clients that wait (`SerialSpec`): `SerialInvariance`,
  `PositionsCountRows` (`GradedPrefix`), `StatesAreNewest`
  (`StateIsNewestGrade`), `IntroducedWordsAreComplete`
  (`IntroducedIsComplete`).  `SerialInv` says that a user's remaining rows are a
  stack by rowid whose times agree with the rowids (`RowsInOrder`), that each row's
  `before_state` is what the newest remaining row of the card below it left
  (`Chained`) and that the rows are finitely many; a card state is then the newest
  remaining grade, and an undo, which pops the newest row, may restore
  `before_state`.  What a live request has read stands until it commits
  (`ReadsHold`), because nobody else of the user is live (`OneAtATime`): this is
  where the serial discipline is used.  `IntroducedWordsAreComplete` needs
  `NamesAgree`, that releases present a word under one name: without it
  `undo.ts:65-66` looks the completeness of a renamed word up under a key that the
  session's release does not have, and the property is false (see the
  observations).  The instance of `study_sessions` satisfies it.

* The refinement: `HistoryIsImplemented`, `SerialSpec => ImplementsHistory`.  The
  place of an event in the abstract stack is its rank among the remaining rows by
  rowid; a commit of a grade adds a row of highest rank (`CommitGrades` against
  `ReviewHistory`'s grade), an undo takes the row of highest rank away
  (`UndoPops`), a session's insertion opens it (`InsertOpens`), and a patch or any
  reading statement is a stutter (`PatchIsUnseen`).  The lemmas on ranks go by
  cardinalities of finite sets, not by induction.

* Of the statistics, from `StatisticsAssumption` (hours are whole; a zone
  changes its offset once, by an hour at most; the clock is past the window of the
  streak): `StatsInvariance`, `CountsOnTheCalendar`
  (`OverviewOnTheCalendar`).  `StatsInv` says of each count that it is that of the log,
  or of the rows, at its own query.  That it is also what the calendar says rests on
  `DayStarts`: an instant is at or after `StartOfLocalDay(d)` exactly if its date is `d`
  or a later one, so counting from an instant is counting dates, and two starts bound a
  bucket of the forecast.  The streak is counted over the days of the window; a run
  of days that ends today or yesterday and goes back further than the window has a day
  for each of its length, so it is no longer than the days with a review (by
  cardinalities).  The zones of which this is not true are `SkipsMidnight` and
  `RepeatsMidnight` (see the observations).

**`ReleaseLifecycleProofs`**, from `AudioAssumption`, `DriverAssumption`,
`TimeAssumption` and `NullAssumption`: `Invariance`, `TypeCorrect`,
`OnlyWholeIsAdmitted`, `PointerAlwaysServes`, `LeftIsRollbackTarget`,
`NoLiveSessionIsDeleted`, `PlanInvariance`, `FreshPlansAreSafe`.
Here `IInv` adds what the command in progress has established about its release
(`OpGrounded`: a verdict is given to a VALIDATING release, a demotion concerns
the pointer's release and not the target, and so on; it holds because commands do
not overlap), that the local pointer names the release activated last
(`PointerIsLatest`), and that no session uses a release about to be deleted
unless the pointer names it (`DoomedAreUnused`), in which case the deletion is
refused.  One lemma per action shows that it is kept, `PassedIsWhole` that smoke
admits nothing but a whole import.  For `FreshPlanIsSafe` `PlanInv` adds the order of
the activations - any releases that were activated have a latest one
(`LatestExists`), which a stamp makes and a deletion keeps, and no two are each
before the other (`OneWay`) - and that while a plan is fresh only what it lists is
being deleted, none of which is young, in use or the rollback target (`FreshInv`).

**`PipelineProofs`**, for any number of processes and any bounds, from
`NoneAssumption`.  First `Invariance`, `CompilesAreExclusive` and `RunningIsReal`:
`OneCompile` needs nothing but itself; `NoPhantomRunning` needs
it, because what a run finds RUNNING could be another run's, and that only runs
schedule stages (`OnlyRunsSchedule`).  `QuietStep` says why a step that marks
nothing RUNNING and takes no lock is harmless; the few that do have a lemma each.
Then `FreshInvariance` and `SkippedCardsFresh`, by
`FreshInv`: versions only grow, so a file or entry is bounded by the versions it
was made of (`TextsAndCards`, `EntriesAreOfTheFiles`); only the process that has
the lock writes files; the entry of a stage is not PASSED while its file is
written; a gate that passes again leaves `lost`, or a cascade that has not reached
the cards yet (`CardsFollow`); and the compile under way carries what it read
(`Compile`, one case per place a process may be in: `RunsInOrder`, `Normalizes`,
`Gates`, `MakesCards`, `Packages`).  A direct `cards generate` fits in because it
starts only when the cards are not current, and no edit makes them so.  Last
`BundlingInvariance` and `BundlesOfOneCompile`.  A run has the lock, so what it
packages is what `Packages` says.  A package command has none: of one that read a
settled directory `Bundling` says that the cards on record then were of the text it
read, and that nothing on disk or about to be written falls behind them (`Ahead`:
versions only grow).  Cards it reads later are thus as new as those on record, and when
`Fresh` finds the cards on disk to be those on record, what was read between is
neither older nor newer.

**`WebSessionProofs`**: `ReplacedPasswordIsOut`, `WritesAreAsBelieved`.  `WebInv`
says that a session's version is that of the password its login presented and never
above the account's (`RowsMatch`), what a call carries at each of its steps
(`CallsCarry`), that a tab in the shell whose token is the cookie's shows the owner
of the session unless the token is stray (`TabShowsOwner`), that a cancelled read
bears no session that is the cookie's (`CancelledIsPast`), and that a login's answer
brings a session nobody has (`IssuedIsNew`).

**`ReleasePartsProofs`**, of the renames, from `AliasAssumption` (finitely many keys;
nothing is assumed of the size of a batch): `AliasInvariance`, `ProgressAtTheRoot`.
`AliasInv` says that the stored edges are chains, alone and together with the batch
under way, and that a batch whose edges an edge goes on from says so itself
(`StayChains`); that every edge names the root of its chain, unless a row that is still
owed begins on its way, now and once the batch is whole (`RootsStand`); and that,
unless a grade was overtaken, no edge leads on from a key with progress or under a
grade (`ProgressStands`).  The walks are recursive functions.  A walk is shown to exist
step by step, to have stopped at its last step by the least step that repeats a key
(`WayStops`, `ShorterWay`), and what is reached from a set of keys is closed since each
step that is not adds a key to a finite set (`ReachedIsClosed`); so `FitsStored`, which
looks only at the edges it reaches, decides of all of them (`GateHolds`).

Of the backup, from `BackupAssumption`: `BackupInvariance`,
`DrillsRestoreAnswers` (`RestoredHasItsAnswers`).  `BackupInv` says that the log is
numbered from 1 without a gap, and that states refer to rows of it
(`TablesSound`); that an export which is reading knows only such rows, has, while it
reads the log, all of it up to the page's end, and afterwards every answer known
when it began and that of every state it has read (`ReadsSound`); and that this is
so of what it puts (`Answers`).  It is kept because the log is read after the
states and new rows go to its end (`Grows`, `ExportStays`), and because a page
leaves out nothing between the row it begins after and its last, which `PageOfLog`
derives from the cardinalities that stand for `LIMIT`.

Then `FinishInvariance` and `FinishedExportsRestore` (`FinishedExportRestores`).
`FinishInv` adds that the tables hold one word and one card per user and key, under
numbers of their own, and rows of users they hold (`TablesFit`); that of one release no
two stored renames share a key on either side (`StoredFit`, which is all that can be
said of them: chains, keys declared twice and chains stored in part are all reached);
and of an export that nothing has disturbed (`ReadsFit`), that it has every
user once it reads the next table, of words and cards rows that still stand, each
number once, and none past its page; hence the manifest it puts imports
(`ManifestFits`, `WhatWasReadFits`), if the renames were walkable when it took them.
An undo may delete a row that was read, and a seed add a user whose rows a later page
brings: these two disturb, and no other write does (`Keeps`).  The drill walks among
fewer edges than the worker, those that lead on from keys that were read: what is
walked from a key is closed (`Walks`), so a walk among them passes the same edges
(`ForwardEdges`), and all that a sound walk passes has its sink (`WalkHasOneSink`).

Of the caches: `LogoutClearsCaches`.  `OfflineInv`: a request bears the
login that is on, or was under way at its end (`RequestsAreCurrent`); every entry
of an older login is in a cache that some logout's deletion will take
(`OldIsTaken`); the worker in control has its shell and no deletion will take it
(`ShellsStay`).

**`ReviewLoopProofs`**, for any rounds and edits and whichever roles misname their
output: `LoopInvariance`, `CardsAreOfReviewed`.  `LoopInv`: results are of distinct runs,
a review names the run of an earlier answer (the ingest looks at the envelope), and an
acceptance stands once made.  The author that a review names by the id it bears is the
one before it only where the two ids agree; that author and reviewer are distinct runs
needs no more than that their roles differ; the assessment of a unit picks its reviews
by least and greatest index of a finite set of naturals, which the module proves to
exist.

**`CompilerPartsProofs`**, of the recognition: `RecognitionIsWhole`, by what a run in
its chunks has done already (`ChunksAreOfTheRun`), for any assignment of identities to
configs.

Of the doubtful fields: `VisualInvariance`, `NoFieldIsGuessed`
(`NothingIsGuessed`), from `VisualAssumption`.  `VisualInv` says that the answers
are a sequence of which each has a packet, a verdict and a text (`AnswersSound`),
and that each text a run has settled, on the queue it began with, is `Founded`: it
is what was read and not doubtful, or affirmed, or a clean repair of that field
that is recorded, which later answers do not take back (`PassSound`).  The rounds
of a field are replayed by a recursive function; that every one of them leaves
what is settled founded is shown over the set of rounds of which it holds (`Kept`).

Of the speech: `NothingIsPaidTwice`, `WhatIsValidatedIsComplete`.  `SpeechInv`: what is owed or
asked for has no readable file and is asked for once (`RunIsOwed`), a text is worth
at most one answer beyond those spoilt (`PaidForWorth`), and an input that was
validated was whole when it was (`PassedWasWhole`).

Of the segmentation, for any book and whatever its signals say: `WalkInvariance`,
`UnitsStayTogether`, `LinesKeepTheirUnit`.  `SegInv` says that units open once and in
order (`OpensOnce`), that the words from the first of the open unit on are all of it
and those of a unit that was left stay together (`WordsTogether`), and that a line
has a word printed no later than itself (`LinesHaveWords`).  Every branch of the walk
is sound and only adds (`Grown`); the examples that move at the end move to the
least of the nearest words, which is of the same unit and page as the sentence.

**`WebPagesProofs`**, of the review page, from `ReviewBounds`, with any cards, losses,
late requests, undos and remounts: `PageInvariance`, `RecordedAsShown`
(`GradedAsShown`), `PageInStep` (`InStep`).  `PageInv` says that a request, in
flight, late or answered, names the session and card that its event id was made for
(`Addressed`) and that the worker has one row for an event (`WorkerSound`), so it
does not matter when and how often it is served.  `StepInv` compares the positions
while nothing was undone or recorded behind the page's back: the worker's is the
page's, but for one grade that is recorded and not yet known to be, or one undo that
is served and not yet known to be - never both, since an undone event is not logged
again and a grade is refused unless its card is next.  A rating that is still out may
be of an event that the page has left, by an undo beside it; it then names another
card than the next one and is refused (`RatesPast`).

Of the learning page, from `LearnAssumption`: `LearnInvariance`, `AckedIsOnRecord`
(`AckedIsRecorded`).  `LearnInv` says that an event id in use stands for the card at
the page's index of the worker's queue, which no later session replaces, because a
session is created only before the first word (`LearnerSound`); that a presentation
answered "ok" is on record, and records are never taken back (`Rightful`); and that
the functions of the setup and of the recall never wait together (`RequestsSound`).

**What stays model-checked.**  Liveness (`LoopEnds`, `SignOutEnds`,
`ReviewPageWaitsEnd`, `LearnPageWaitsEnd`): the prover has no rule for it here.
`UnitsAsPrinted` and `LinesStayInTheirUnit`: what the folds over all signals of a book
(`SignalRuns`, `Collapse`, `Merge`) compute is an induction over its pages, and the
two also depend on which numbers look alike (`Distinguishable`, found while trying to
prove them: without it TLC refutes them on books the run does not have).
What the proofs show of every book is that no unit is interrupted and no line changes
its unit.

## Plan

Done: all modules of the inventory's components whose state is shared, persisted
or read over several steps, with their runs; the proofs above.  Left: a reference
definition for the attribution of pages that can be proved equal to the folds.

## Not modelled

Components without state or whose behaviour is a library's: see `components` in
`PROJECT.json`, with the reason for each.  Within the study API: body
validation, which comes before the handlers; reads that
only present (`listSessions`, `getSession`); deletion of users.  Within the
compiler: the text heuristics under the segmentation (repairs of wording, split
headwords, phrase sections), the checks of the unit validator, and the contents
of a bundle beyond what smoke compares.
