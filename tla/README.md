# TLA+ models of the resume processing system

This directory models the application's own logic: uploads, saves and deletions of a
resume, the durable tasks they create, the transactional outbox, the workers that run the
tasks in local (database queue) and AWS (SQS) mode, the temporary objects, the slot and
child process that do the heavy work; the save endpoint with its idempotency keys and the
browser's save controller and workspace; sessions; the job catalogue with its fetchers,
import, readers and ranking; and the deployment script. The modules are checked with TLC
on small instances. The safety properties that hold there, among them that the save endpoint
implements its abstract specification, are also proved with TLAPS for every value of the
constants; see "Theorems".

Paths below are relative to the repository root.

## Inventory of the system

| Part | State | Operations | Interacts with | What is hard | What makes it correct |
|---|---|---|---|---|---|
| Durable tasks, `src/backend/app/processing/tasks.py` | `processing_tasks` rows: state, attempts, lease token and expiry, `available_at`, `payload_ref`, result | enqueue, claim, complete, fail, cancel | called in the transactions of API and workers | leases that expire under a working process, late completions, `SKIP LOCKED` | ends are final; a late worker writes nothing; attempts are bounded |
| Outbox, `outbox.py`, `outbox_publisher.py` | `processing_outbox` rows | claim a batch, acknowledge, retry, cancel | publisher thread of every API instance, local workers | crash between send and acknowledgement, stale claims | an unfinished task always has a publication, an ended one none |
| Resume API, `api/resume.py` | `users.resume_revision`, profile, chunks, `save_operations` | prepare, read tasks, discard, save, delete | rows, storage | object stored before the commit, deleted after it; concurrent saves | nothing survives a delete; a save applies once |
| Temporary storage, `local_storage.py`, `aws_storage.py` | objects with an age | store, read, delete, orphan cleanup | API, workers | orphans after crashes; cleanup racing with live tasks | every object is reclaimed, none of a live task is deleted |
| Worker, `local_worker.py` | claimed task, lease token, input, content it read | publish, claim, run, complete, fail, clean up | all of the above | stale reads, death at any point, redelivery | chunks always belong to the saved profile |
| SQS, `sqs_transport.py`, CloudFormation | messages, visibility, receive count | send, receive, delete, change visibility | publisher, workers | at least once, out of order, dead-lettering | a published task keeps a message until it has been tried |
| Slot and child, `slot.py`, `worker.py` | state, child process, slot, leases, respawn thread | acquire, run, release, terminate, respawn, start, stop | worker, or the routes of an API | disconnects, deadline against a late reply, respawn against stop | one client at a time, no work without the slot, it comes free again |
| Save idempotency, `api/resume.py` | `save_operations` rows, keyed by `Idempotency-Key` | look up, recheck, save or replay, expire | save controller, deletion | two requests with one key, a retry after expiry or deletion | a key changes the profile at most once, answers stay true |
| Save controller, `saveController.ts`, `idempotency.ts` | attempt and its key, displayed profile, expected revision, conflict | save, retry, poll, refresh, resolve a conflict | API over an unreliable network | lost responses, another tab | nothing is overwritten unseen, an attempt a conflict ends is never saved |
| Resume workspace, `useResumeWorkspace.ts` | phase, draft and its source, flags, `taskEpoch` | reload, prepare, watch, review, cancel, save, delete | API, save controller | answers that arrive after the page has moved on | a late answer leaves the draft alone; a save names the extraction its draft came from |
| Sessions, `auth/`, `api/me.py` | session rows, users | sign in, rotate, touch, expire, log out | every request | a request that ends after its session was ended; the idle limit under a throttle | what was signed out stays out; idle time counts from use; one account per identity |
| Row locks, `tasks.py` and its callers | locks on users, tasks, events | lock in order, skip, wait, time out | all transactions | lock order, `SKIP LOCKED` in the wrong place | no waits in a circle, a deletion misses no task |
| Catalogue import, `catalogue/importer.py` | jobs, requirements, vectors, catalogue revision | validate, plan, embed, write | readers, ranking | two imports at a time, vectors of two model versions | a plan is applied only to the rows it was made from; every text has its vector |
| Jobs and matches API, `api/jobs.py`, `api/matches.py` | a cursor with revisions | first page, next page, open a job | imports, saves | the listing changes between two pages | the pages are one listing, or the student is told |
| Fetchers, `fetch_live_jobs.py`, `fetch_jsearch.py`, `clean_batch.py` | pages, listings, counters, batch | fetch, retry, transform, check links, write, clean | job boards | rate limits, lost connections, defective listings | a file has every usable listing, the run ends, cleaning settles the quotes |
| Ranking, `matching/scoring.py`, `matching/sql.py` | none | deduplicate, score, rank, page | import | two implementations with different equalities | both give the same pages but for twins |
| Deployment, `deploy-foundation.py`, `enable-https.sh` | stack, artifacts, host, DNS, remote commands | plan, create, wait, activate, verify | CloudFormation, SSM, DNS | interruption at any call, commands that outlive their run, two operators | one build per stack, success is real, a rerun completes |
| Text processing (`pdf_extract`, `privacy`, `sections`, `chunking`, `embeddings`) | none | PDF to draft, draft to chunks | runs inside the child | heuristics, models | outside these models |

## Modules

| Module | Models | Extends |
|---|---|---|
| `TaskStore` | the rows, and every function of `tasks.py` and `outbox.py` as a row transformer or predicate; the clock | |
| `ResumeApi` | prepare, discard, save, delete of `api/resume.py`; the objects | `TaskStore` |
| `TaskWorker` | what a worker does with a claimed task, and `cleanup`; the row properties and the inductive invariant | `ResumeApi` |
| `LocalPipeline` | local mode: `dispatch_outbox`, `run_one`, faults, fairness | `TaskWorker` |
| `AwsPipeline` | AWS mode: `publish_once`, SQS, `run_queue_message`, faults, fairness | `TaskWorker` |
| `ProcessingSlot` | `slot.py` with the child of `worker.py` | |
| `SaveOnce` | what an idempotency key promises: the abstract specification | |
| `ResumeSave` | `save_resume` as the transactions it consists of, operation rows, replays, expiry, deletion; refines `SaveOnce` (`Once`, with `done` mapped to the SUCCEEDED rows) | |
| `SaveClient` | `ResumeSaveController` and the workspace's profile, revision and conflict, over a network that loses answers; other tabs | `ResumeSave` |
| `ResumeWorkspace` | the async functions of `useResumeWorkspace.ts` and the buttons of its components | |
| `Sessions` | sign-in, rotation, expiry, activity, sign-out | |
| `RowLocks` | which rows each transaction locks, in which order, waiting or skipping | |
| `CatalogueImport` | `import_catalogue` and the validation of a batch | |
| `CatalogueReaders` | pages of jobs and matches, the job page, the student's profile | `CatalogueImport` |
| `Ranking` | import deduplication, in-memory scoring and the SQL ranking, as operators and one loop | |
| `FetchJobs` | the six adapters with retries, link checks, the written batch and its cleaning | |
| `RequirementExtraction` | the line scan of `extract_requirements`, with a reference definition | |
| `DeployFoundation` | `deploy-foundation.py`, its remote script, `enable-https.sh` | |
| `MCLocalPipeline`, `MCAwsPipeline`, `MCSave`, `MCCatalogue`, `MCCatalogueTools`, `MCOverlap` | the instances for TLC | |
| `TaskWorker_proofs` | lemmas on the rows, one per operation that both modes share | `TaskWorker` |
| `LocalPipeline_proofs`, `AwsPipeline_proofs` | the theorems of the two modes | the mode and `TaskWorker_proofs` |
| `ProcessingSlot_proofs` | the theorems of the slot and its child | `ProcessingSlot` |
| `Save_proofs` | the endpoint and the workspace's controller, with the refinement | `MCSave` |
| `Catalogue_proofs` | imports and listings | `CatalogueReaders` |
| `Overlap_proofs` | sessions, the resume page, row locks | `Sessions`, `ResumeWorkspace`, `RowLocks` |
| `Scripts_proofs` | deployments, fetchers, the scan for requirements, the ranking | `DeployFoundation`, `FetchJobs`, `RequirementExtraction`, `Ranking` |

### How state and actions correspond to the code

* The functions of `tasks.py` and `outbox.py` never commit. They are therefore operators
  on rows (`ClaimedTask`, `FailedTask`, `FailedEvent`, `CancelledEvent`, ...) and guards
  (`Claimable`, `Fenced`, `Publishable`, ...); an action is one committed transaction of
  a caller, or one call on the storage or on SQS.
* Every endpoint that writes takes the `User` row lock first, and so does `complete_task`;
  what happens under it is one step. What the code does before the lock (storing an
  upload) or after the commit (deleting objects) is a step of its own, and the process
  may die in between (`ApiDies`, `WorkerDies`).
* A worker remembers `cur`, `input` and `content` from the time it read them; `pc` says
  how far it has come. `_process_claimed` is `HandleExtraction` / `HandleEmbedding` (the
  read and the child's work, with its three outcomes: result, retryable error, final
  error) followed by `CompleteExtraction`, `CompleteEmbedding` or `FailTask`. An exception
  of the completing transaction leads to `_fail` with a retryable code, as the outcome
  "retryable" does.
* Time is not a number. A timestamp is the answer of the comparison the code makes with
  it: `live`, `due`, `aged`, `FRESH`. The steps of the clock flip one answer at a time, in
  any order, except that `fail_task` gives task and event the same `available_at`.
* A lease token is the name of the process that drew it: a process keeps at most one task
  token and one batch of event tokens and forgets them before it claims again.
* A lease of a process that has forgotten it expires as time passes (`Tick`). The lease of
  a process still at work expires only if that process stalls (`Stall`), which is a fault:
  15 minutes against a 60 second deadline.
* A fault (death of a process, a stall, a failing transaction) may happen anywhere,
  `MaxFaults` times in a behaviour.
* `SKIP LOCKED` shows where two transactions meet: `Contended` (a claim that skips a
  locked row) and `CompleteSkipped` (a completion that skips a row a duplicate delivery
  has locked, so that the result is lost).
* SQS is external and modelled from its use: `visible`, `hidden` after a receive, deleted,
  or `dead` after `MaxReceives` receives. A receipt that has been superseded may or may
  not delete the message.
* In `ProcessingSlot` every step is what a thread does under `_lock` or under a lease's
  mutex. A client is a route (acquire, and release in its `finally`, which a disconnect
  may reach at any time) and the executor thread that runs the operation.

* `ResumeSave` splits a save where the code does: authentication and the first lookup, the
  privacy recheck outside any transaction, then the transaction under the user's lock. An
  answer is read by the client later, or never.
* In `SaveClient` a request is answered or given up; one that was given up may still be
  served. The controller's backoff has `Waits` steps. `OtherSaves` is another tab or device.
* In `ResumeWorkspace` every async function is a flow with the epoch it started at: it
  asks, the server answers when it likes, and the function goes on. A function that looks at
  `taskEpoch` returns when the epoch has moved (`TooLate`); the error path of
  `monitorExtraction`, `confirmSave`, `checkSaveStatus` and `deleteProfile` do not look, and
  neither do their actions. What a callback captured when it was created (the profile in
  `cancelReview`) is kept in the flow. A button exists in the phases that render it.
  What a save names as its source (`SourceAgrees`) is said of saves of the current epoch: one
  of an earlier epoch is about a draft that the page no longer holds.
* In `Sessions` a request authenticates in one step and touches its session in another, with
  the row it read first or the row as it is now: both occur in the routes. Time is a number
  here because the lifetimes are compared with each other.
* `RowLocks` knows nothing of leases and revisions: they only decide whether a transaction
  ends early, and each may (`EndTx`, also the 5 s lock timeout). Cleanup and the publisher
  take what is free in one step, since `SKIP LOCKED` never waits.
* An import reads the revision, the rows and the vectors in separate statements and writes
  in one transaction that compares the revision again.
* In `FetchJobs` a listing is its identity and its defects; an adapter is the defects it
  looks for, in its order. Of its text the model keeps where the quotes lie to the two limits:
  the description is cut (`size`), some or all requirement lines are past the cut (`past`), an
  eligibility sentence is, or is too long itself (`note`). Cleaning a file is a step per job (`swept`), as its loop is.
* In `Ranking` the order of a page is `Place`: how many jobs rank before a job. An empty page
  past the end is asked again for its first row (`PageOrFirst`), which carries the total.
* In `DeployFoundation` every call of the AWS CLI is a step that may
  fail or be the run's last; a remote command goes on by itself.

### What is abstracted

Names, payloads, PDF and resume text are model values; `Chunkless` contents are those
without a project or experience entry, for which `embed_resume` returns no chunks.
Logging, heartbeat files, failure codes, the order of keys and HTTP layout are left out.
A commit that raises is taken not to have happened. Malformed messages, and the expiry of
SQS messages after four days, are left out. A storage deletion that raises leaves the
object, as a death at that point does. Requests that only answer an error do not change
the state.

## Runs

| Run | Instance | What it shows |
|---|---|---|
| `local` | one account; either an upload and a save with a worker of each kind, or two saves with two embedding workers; one fault | types, rows agree (`OutboxAgrees`), a delete leaves nothing (`NothingSurvivesDelete`), inputs of live tasks stay (`InputPresent`), chunks are of the saved profile (`ChunksOfProfile`) and a profile without chunks is accounted for (`EmbeddingAccounted`), ends are final (`TerminalIsFinal`) |
| `local_embed_stuck` | fairness, one embedding, one fault | violation, see below |
| `aws` | two saves, or one save with duplicate messages and two workers, or an upload with two extraction workers; one fault | `FirstDeliveryKept`; `ChunksOfProfile` and `TerminalIsFinal` under redelivery |
| `aws_settle` | fairness, one object, two workers, one message at a time, one fault | extractions end and objects are reclaimed whatever SQS does, also when a redelivery makes a worker throw its result away (`CompleteSkipped`) |
| `aws_retry_lost` | one embedding | violation, see below |
| `slot` | three clients, three children, fairness | `SlotExclusive`, `WorkUnderSlot`, `OneChild`, `SlotFreed`, `StopIsFinal` |
| `slot_recovery` | one client, fairness | violation, see below |
| `save` | two requests at a time, two keys, three contents, one of them not clean; sent by the workspace and another tab, or by clients that may use any key for anything | `SavesOnce` (refinement of `SaveOnce`), `AnswersHold`; for the workspace `NoBlindOverwrite`, `ConflictEndsAttempt`, `NoKeyConflict` |
| `catalogue` | two importers over two jobs, two texts and two model versions, or one beside a student who pages | `ImportApplies`, `VectorsComplete`, `PagesAgree` |
| `tools` | every adapter over two pages; descriptions of four lines; jobs of up to three requirements, with no alternative, one or two | `KeepsWhatItHas`, `CleanRefusals`, `FetchEnds`, `ScanMeetsReference`, `ScoringsAgree` |
| `deploy` | two operators, two builds, one disturbance, fairness | `OneBuild`, `SuccessIsReal`, `RerunCompletes` |
| `overlap` | two requests and two tokens past both lifetimes; two functions of the page and two uploads; three transactions on two tasks | `SignedOutStaysOut`, `IdleCountsFromUse`, `OneAccount`; `ReviewIsTheStudents`, `SourceOfDraft`; `NoWaitCycle`, `DeletionMissesNothing` |

`tools` and `overlap` put modules that share nothing side by side: a variable of the MC
module says which of them runs, so that each is explored alone. `local`, `aws` and
`catalogue` have a CONSTRAINT that keeps the union of a few scenarios: a state outside is
not explored further. That is sound for what these runs check, which is safety only.

Bounds. Two attempts give a first, a last and an exhausted claim. Two or three tasks give
a superseded and a current one (and a retried one). Revision 2 is a save followed by a
save or a delete. Two workers of a kind are what a lease has to keep apart; two messages
are a duplicate and three a duplicate of a republished task. (`aws_settle` has one message, so
that two workers fit a run with fairness; it comes back and is dead-lettered.) One fault in a safety run is
enough for a stalled holder or a death at the worst point. `MaxReceives` is not smaller
than the attempts, as in the CloudFormation template (5 against 3). Two keys and two
requests are a retry that races its original, and a second attempt; `Waits = 1` is a retry
and giving up. Two pages are a page that fails after one that was kept. In `overlap` the
clock runs past the absolute lifetime, which is longer than the idle one, which is longer
than the throttle; `MaxEpoch = 4` is a load, a choice of file, an upload and one more move
of the student, and the two tasks and three transactions of `RowLocks` are enough for a
circle through user, task and event rows.

Deadlock is checked in every run: workers poll for ever, requests may come at any time,
and a program that has ended stutters.

Symmetry is used for interchangeable requests, keys, contents, tokens and importers in runs that
check safety only.

Fairness. `run_forever` and `publish_loop` loop until the process ends, and Docker
restarts it (`restart: unless-stopped`): weak fairness of a worker's and a publisher's
steps. A cleanup runs every `CLEANUP_INTERVAL_SECONDS`; in the model it is passed over in
the meantime (`SkipSweep`), so it is strongly fair. Requests in progress finish or die,
time passes, visibility timeouts end. Nothing obliges a user to act, no fault has to
happen, and in `ProcessingSlot` no child has to answer. A fetcher is one process that takes
its next step. `RerunCompletes` assumes an operator who runs the deployment again until it
succeeds, with the artifacts of the build the stack has, and an outside (CloudFormation,
DNS, SSM) that gets on; the script itself promises no more than that a rerun is safe.

### Disagreements found

1. `local_embed_stuck`: `run_one` rolls back when `claim_next_task` returns `None`. That
   also discards the `FAILED` / `ATTEMPTS_EXHAUSTED` which `claim_task` has just written.
   An embedding whose worker died on its last attempt stays `PROCESSING` for ever and heads
   the queue; the durable-task plan says that "maximum attempts end in `FAILED`".
   Extractions are ended by `cleanup`, in both modes the same code (`aws_settle`).
2. `aws_retry_lost`: `run_queue_message` deletes the message of every `RETRY_WAIT` task
   ("A durable outbox retry or cancellation now owns recovery."). If the message arrived
   before the publisher's acknowledgement was committed, the acknowledgement makes the
   event `SENT` and nothing is left to deliver the task.
3. `slot_recovery`: `_begin_respawn` returns while the previous respawn thread is alive.
   That thread has set `READY` already; if its child dies at once and a client notices
   before the thread has returned, the service stays `RECOVERING`. The worker process
   escapes because `_assert_processing_ready` makes it exit and be restarted.

### Observations without a run

Met while modelling, and visible in the definitions named. Where a property names an exception,
the exception happens: without it TLC finds the property violated in the same instance.

* `saveController.ts:321-322` says of a save refused for want of a session that "no
  operation row was created". After a lost answer the earlier request may have committed
  (`SaveFails`). The key is kept, so confirming again replays the row.
* `saveController.ts:342-343` drops the key because the server "stored a terminal result".
  It stores none when the privacy recheck is down or the extraction has expired.
* `fetch_live_jobs.py:492`: `float()` raises on a `Retry-After` that is a date, which `main` does
  not catch, and the fetch loses the pages it has. `get_with_backoff` was written so that the caller
  can "keep what it already has instead of losing the whole batch" (line 478). It is an exception of
  `KeepsWhatItHas` (`PauseUnknown`).
* `fetch_live_jobs.py` takes quotes from a description before it cuts it (line 589), and clips
  an eligibility sentence over 2,000 characters with an ellipsis (line 396). The importer refuses
  a file with either, as the quote is not in the stored description (`Quoted`); only the JSearch adapter
  validates before it writes, and then writes nothing (the last exception of `KeepsWhatItHas`).
* `clean_batch.py` takes the quotes again from the stored description, which settles those past
  the cut. But its line 30 turns the ellipsis that ends a cut description into three dots, so that
  it exceeds the limit unless cleaning shortens it elsewhere, and it clips overlong sentences as
  before: `CleanRefusals` says that the importer refuses a cleaned file for these two alone.
  `test_job_fetch_clean.py:191` asserts that a cleaned file has no issues, for a short description.
* A requirement both plain and with its own text as the only alternative is two requirements for the
  import (`importer.py:69`) and the SQL, and one for `score_job` (`scoring.py:75`), although `sql.py:12`
  says that "tests assert both give the same ranking". The importer accepts such a pair (`Twins`);
  `ScoringsAgree` says that nothing else makes the two differ.
* A save commits and its answer is lost; the student edits, so the next save has a new key and the
  old expected revision. Its conflict is with the workspace's own save, and the message
  (`saveController.ts:283`) says that the resume "was changed somewhere else". Nothing is lost;
  `ConflictEndsAttempt` is what a conflict does mean.
* `transform_ai_jobs_co` drops incomplete and insecure listings without counting them
  (`SkipCounted`), and `--verify-urls` keeps what times out or refuses the connection although
  its help text (`fetch_live_jobs.py:1207`) says otherwise (`Verdict`). The cap on requirements can keep one row of an AND pair.
* `stop()` does not wait for the respawn thread. One that has found the service running lets go
  of the lock before it starts its child, so a child may come to life after `stop()`; the
  thread kills it when it is loaded (`RespawnTry`, `RespawnSpawn`, `OneLateChild`).
* A remote command of a deployment that gave up may import while the API, started by a
  rerun, is serving (`CheckStopped`, `Import`).
* In the workspace a student who retries a failed load during an upload leaves `preparing`
  set for ever, if the server shows no active task; and a draft the server sends back for
  review (`REVIEW_REQUIRED`) replaces whatever a reload has shown since, with the source of
  the other draft (`LateReview`, exempted in `SourceOfDraft`).

## Theorems

Every theorem is for any values of the constants that satisfy the named `ASSUME`s of its
module: any number of accounts, tasks, workers, clients, tokens, importers, operators, ..., and
any value of the bounds. TLC evaluates the assumptions in every run. Each theorem below without
another name is `Spec => []P` for the invariant `P`, or `Spec => P` for an action property
or the refinement.

| Module | Theorem | States |
|---|---|---|
| `LocalPipeline_proofs` | `TypeCorrect`, `ChunksAreOfProfile`, `DeleteIsFinal`, `RowsAgree`, `EndsAreFinal`, `InputsArePresent`, `ResumesAreAccountedFor` | `TypeOK`, `ChunksOfProfile`, `NothingSurvivesDelete`, `OutboxAgrees` with `LeaseColumns`, `TerminalIsFinal`, `InputPresent`, `EmbeddingAccounted` |
| `AwsPipeline_proofs` | the same seven with the prefix `Aws`, and `FirstDeliveryIsKept` | the same of AWS mode, and `FirstDeliveryKept` |
| `ProcessingSlot_proofs` | `SlotIsExclusive`, `WorkIsUnderSlot`, `ChildIsAlone`, `StopAllowsOneLateChild`, `StopLeavesNoChildBehind`, `ServiceTypeCorrect` | `SlotExclusive`, `WorkUnderSlot`, `OneChild`, `OneLateChild`, what `stop` leaves, `TypeOK` |
| `Save_proofs` | `SaveImplementsSaveOnce`, `AnswersStayTrue` | `SavesOnce`, `AnswersHold` of the endpoint with any clients |
| | `WorkspaceSavesOnce`, `AnswersStayTrueToWorkspace`, `KeysNeverConflict`, `ConflictsEndAttempts`, `NothingOverwrittenUnseen`, `WorkspaceTypeCorrect` | `SavesOnce`, `AnswersHold`, `NoKeyConflict`, `ConflictEndsAttempt`, `[][ReplacesWhatIsShown]_vars`, `TypeOK` of the endpoint with the workspace and other tabs |
| | `NothingOverwrittenInTheRun` | `NoBlindOverwrite` of the composition that `save` checks |
| `Catalogue_proofs` | `ImportTypeCorrect`, `ImportsApply`, `VectorsAreComplete`, `OneListing` | `ImportTypeOK`, `ImportApplies`, `VectorsComplete`, `PagesAgree` |
| `Overlap_proofs` | `SessionTypeCorrect`, `SignedOutIsFinal`, `IdleLimitHolds`, `IdentityHasOneAccount` | `SessionTypeOK`, `SignedOutStaysOut`, `IdleCountsFromUse`, `OneAccount` |
| | `ReviewStaysTheStudents`, `DraftHasItsSource` | `ReviewIsTheStudents`, `SourceOfDraft` |
| | `NobodyWaitsInACircle`, `DeletionIsComplete` | `NoWaitCycle`, `DeletionMissesNothing` |
| `Scripts_proofs` | `DeployTypeCorrect`, `StacksAreOfOneBuild`, `ReportedSuccessIsReal` | `TypeOK`, `OneBuild`, `SuccessIsReal` |
| | `NothingUsableIsLost`, `FetchTypeCorrect`, `CleaningSettlesQuotes` | `KeepsWhatItHas`, `FetchTypeOK`, `CleanRefusals` |
| | `ExtractionMeetsReference` | `ScanMeetsReference` |
| | `ScoringsAgreeButForTwins` | `ScoringsAgree`; its lemma `PagesEqual` is for pages of any size that begin anywhere |
| | `EveryJobIsOnOnePage` | for every page size, every job that has a score is on exactly one page, and the pages follow the order of the ranking (`EachJobOnce`) |

Each rests on an inductive invariant, proved as a theorem or lemma of its own (`Inductive`,
`AwsInductive`, `ServiceInductive`, ...): the initial states satisfy it, one lemma per action
shows that the action keeps it, and the property follows from it or from one step under it.
What the invariants add, and why nothing less is inductive:

* Tasks and workers, `RowInv` (in `TaskWorker`). A task is never ahead of its account
  (`TasksOwned`); a live embedding of the current revision has its profile (`LiveEmbedding`),
  because a delete raises the revision; drafts belong to succeeded extractions
  (`DraftsSucceeded`); and what a worker remembers is still what the profile holds as long as
  the profile has the task's revision (`Remembers`), because a save of other text raises the
  revision. `TaskWorker_proofs` has the lemmas that both modes share; each mode adds its
  publication and claim.
* `InputPresent` is about two parties that do not see each other: an object is stored before
  its row is committed and deleted after the commit. `InputInv` adds that an object whose deletion
  is owed is of no open upload request and of no live task (`DeletionsAllowed`), that an upload under way
  has its object and nobody else refers to it (`UploadsStored`), that no two tasks share an object
  (`InputsUnshared`), and that the input a worker remembers is at most its own task's
  (`InputRemembered`). `EmbeddingAccounted` is inductive on top of `RowInv`: an embedding that
  succeeds has written its chunks or had nothing to embed, in the transaction that ends it.
* AWS mode. A worker's message is of the task it remembers, unless it is gone (`Delivered`).
  `FirstDeliveryKept` alone is lost by a step that deletes the last message; `FirstKept` asks
  for a message that no worker is about to delete, and asks it from the moment the message is
  sent under a claim that holds, before the acknowledgement. A worker about to delete has seen
  the task ended, in retry or unpublished, so it deletes another publication's message. The
  same statement about retries is false (`aws_retry_lost`).
* Slot. `LeaseTracksThread`: a lease's `running` flag is set exactly while the client's thread
  is in an operation, and the slot is not given back during one; without it a release could
  free a slot another client has taken since. `ServiceInv` says what the owner thread, a respawn
  and each client know of the service's state and its child, at each of their steps. A step
  brings a child to life only where the owner starts or the respawn thread has decided to
  (`OnlyStartsRevive`), and that decision is made only while the state is not `STOPPED`
  (`OnlyTriesDecide`): what is decided when `stop` begins is all that comes.
* Saves. `ServerInv`: a request expects no later revision than the account has, what it saw when
  it was authenticated lies between, and a stored operation is never rewritten; so an answer
  that was true when it was given is true when it is read. `ClientInv` adds that a key has one
  payload (of every request that carries it, of its row and of the attempt that holds it), that
  the attempt of a running `save()` is its request's, and that the displayed profile is the
  account's if it is of its revision, while no request, not even an abandoned one, expects a
  later one. A request that is told of a conflict expects less than the revision, which only
  grows. For the refinement every step is a `Save`, a `Delete`
  or a stutter of `SaveOnce`, with `done` mapped to `Done`.
* Imports and listings. `RowsCurrent`, `VecsCurrent`: while the revision is the one an import
  read first, the rows and vectors it holds are those of the database. `PageKnows`: while both
  revisions are those of the first page, listing again gives the same sequence, and what was
  collected is its beginning.
* Sessions. `ActiveTracksUse`: the row is behind the last use by the throttle at most; and
  `RequestKnows`: what a request read of the row is never ahead of it. Accounts have positive
  numbers.
* The resume page, `PageInv`. The current epoch belongs to one flow that loads, uploads, watches
  or cancels (`EpochsTaken`), nobody watches while a draft is under review, and one write is
  under way at a time. `SourceOfDraft` splits into what is shown (`DraftNamed`) and what saves of the
  current epoch name (`SavesNamed`), each kept by every step.
* Row locks, `LockInv`. The order is owner, tasks by `task_id`, events. Events have no order among
  themselves; whoever waits for one has its task, or has nothing, and whoever has one without
  its task waits for nothing. In a circle nobody waits for an event, so each would wait for
  a task greater than the one it is waited for, and finitely many tasks have a greatest.
* Deployments, `DeployInv`. `RunKnows` says for every step of the script what still holds of what
  the run saw; `OwnCommands`, that two runs poll different commands; `NothingStale`, that while a
  run goes on whose host kept its address, no older address can reach the DNS record.
* Fetchers, `FetchInv`. The listings before `next` are decided: each usable one has its job. Detail
  pages and links of later listings do not touch them. `BatchInv` is about what comes out: the
  jobs that are kept have one identity each, also while the links of a listing are checked
  (`JobsDistinct`), and a file is all of them, of which the cleaning keeps some it has looked at
  (`FilesKnown`). The types need one fact of their own: a page is asked for only if there are
  some left (`FetchTypes`).
* The scan, `ScanInv`. At every line `on` and `pref` are what the headings above it say
  (`InSection`, `BelowPreferred`), `seen` is the texts of the eligible lines above it, the rows are
  the reference of those lines, and the shared counter is past the value this listing began with
  exactly when one of those lines was unclear (`FlagsMean`). The last is why a listing is not
  left to a human for the lines of another one.
* Ranking, `RankInv`. The import leaves one requirement of each key, out of the job's batch. Of
  requirements with two keys there, `score_job` has one key for exactly a plain requirement and
  its twin (`ScoreKeysJoinTwins`); so its removal of duplicates leaves out a required twin and
  nothing else (`ScoredLeavesOutTwins`). Without one the totals agree because
  the SQL's page, or the first row it asks for instead, is empty only if nothing has a score, and
  the jobs it counts are those with a score and those that lack a vector. For
  `EveryJobIsOnOnePage` the mean scores, multiplied out, are a total order with the job's id, so
  a job's place is a bijection with 1 .. N, and every number is on one page.

Induction. `FlattenSeq` (in what a scan must give) and `MapThenSumSet` (in a score) are recursive
functions: their definitions say CHOOSE, and say nothing until a function that satisfies the
equation is shown to exist. The induction theorems of the library take an operator, which the
provers cannot instantiate; instead `LeastNumber` gives the least counterexample, of which each
of these inductions refutes the existence (`ConcatenationsExist`, `ConcatenationsAgree`,
`SumsExist`, `SumsAreNumbers`, `GreatestNumber`, `OnOnePage`).

The prover needed constants to be typed: the assumptions say that `None` and `Nobody` are none
of the values they stand beside, that bounds are naturals, that `Throttle <= Idle`, that listings
order jobs by a number and finitely many of them, that a batch is a sequence of entries whose
alternatives are distinct (the schema refuses others), that quotes past the cut are of a description
that is cut, that a fetcher is asked for a page at least, and that no heading is the mark for none.

Only model-checked is liveness (`SlotFreed`, `StopIsFinal`, `ExtractionsSettle`,
`ObjectsReclaimed`, `FetchEnds`, `RerunCompletes`): fairness is out of the prover's reach. Of
`StopIsFinal` the safety half is proved, `StopAllowsOneLateChild` and `StopLeavesNoChildBehind`; that
the last child goes needs fairness. Every
invariant, action property and refinement that a passing run checks is proved as well.

## Not modelled

* `pdf_extract`, `privacy`, `sections`, `chunking`, `embeddings`: text heuristics and models.
  The worker modules use their outcomes: a result, a retryable error, a final error.
* Explanation texts, the skill gap and recommendations: they reformat scores.
* `analytics/`, `evidence/`: offline measurements over recorded data. Migrations.
* The browser's renewal of its CSRF token, and the poll of a pending embedding, which only
  refreshes the displayed profile.
* That a save in the browser ends: the controller's waits are counted, and the run checks
  safety only.

## What could follow

1. That `RowLocks` and the task modules agree on which transactions write a task: at present by
   reading.
2. Shorter proofs where lemmas of two modules repeat each other (the frame lemmas of
   `Scripts_proofs` and `Overlap_proofs`).
