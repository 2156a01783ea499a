# TLA+ models of TrackPrompt Studio

TrackPrompt Studio analyses audio, plans visualisations and renders them with
Blender. This directory holds TLA+ modules for the parts of it in which several
processes, tasks, crashes and time meet:

- **hybrid cloud rendering** (`cloud_render/`): a job of frames is cut into chunks;
  local and cloud workers lease chunks from a SQLite database, render, upload and
  publish them; differing renderings of one frame are quarantined for an operator; a
  fleet controller stops instances when the job is done; a returned chunk can also be
  imported by hand;
- **Mission Control** (`backend/app/mission_control/`): a persistent scheduler that
  leases render tasks to local workers, and the production render an operator starts,
  stops, cancels and resumes, whose process outlives the server;
- **analysis** (`backend/app/jobs.py`, `backend/app/catalog/`): the job manager with its
  slots, cancellation and deletion, and the catalogue's queue and scans.

## 1. Inventory

| Part | State it keeps | Operations | Interacts with |
|---|---|---|---|
| Chunk scheduler `cloud_render/scheduler.py` | `jobs`, `chunks` (state, lease token, expiry, attempts), `frame_candidates`, `frame_publications`, `publication_conflicts`, `heartbeats` | create, claim, sweep, renew, heartbeat, transition, complete, cancel, register external, resolve, status | called by every worker process, the operator and the fleet controller; one `BEGIN IMMEDIATE` transaction per write |
| Pull worker `cloud_render/worker/core.py` | lease, program position, artifacts, heartbeat and idle clocks | `run_once`, `run_until_idle` | scheduler, object store, runtime (callbacks `progress`, `cancelled`) |
| Runtimes `worker/blender.py`, `worker/mock.py` | a subprocess | render, cancel, time out | calls the worker's `progress` |
| Fleet controller `fleet.py` | none | `reconcile` | reads `status()`, calls the provider |
| Return importer `imports.py` | files in the output directory | `import_quarantined_return` | shares the directory with the local renderer |
| Object storage `storage/` | files or S3 objects | put if absent, get, head | workers |
| Costs, providers, manifests, CLI | - | pure or I/O | - |
| Mission Control scheduler `backend/app/mission_control/scheduler.py` | workers, devices, render tasks, leases | submit, register, heartbeat, retire, claim, start, complete, fail, reap | local workers, service; one `BEGIN IMMEDIATE` transaction per call, each reaping what has expired first |
| Local worker `mission_control/local_worker.py` | position in `run_once`, lease, render process | `run_once` | scheduler, a subprocess |
| Production render `mission_control/service.py`, `renderers.py`, `render-trackprompt-final.ps1` | job record, renderer task, process, render manifest, stop marker | start, stop, cancel, withdraw, resume, retry, recover | server and process meet in manifest, marker and exit code |
| Job manager `backend/app/jobs.py`, `store.py`, uploads in `main.py` | job rows, directories, markers, tasks, slots, admissions | upload, run, cancel, delete, retry deletion, shutdown, startup | analysis subprocesses, catalogue queue |
| Catalogue queue `backend/app/catalog/scheduler.py`, `router.py`, `store.py` | batches, queue items, artifacts, dispatch tasks | enqueue, dispatch, start, pause, cancel, retry, recover | job manager, segment map |
| Scan scheduler `backend/app/catalog/scan_scheduler.py` | segmentation jobs, events, segment map | start, cancel, run, recover | the segments the queue refers to |
| Video generation, local video | budget reservations, shot records | submit, poll, resume | external services |
| Everything else (analysis DSP, prompting, tagging, cinematic tooling, Blender scenes, frontend, PowerShell) | - | data transformation, I/O, UI | - |

What makes each part correct, and what is hard about it:

- *Scheduler.* A lease is usable by exactly one holder until it expires or is
  superseded, however late its calls arrive; attempts are bounded; a chunk is
  delivered once; a finished chunk stays finished. Hard: late calls, expiry
  racing completion, time stamps read before waiting for the write lock.
- *Publication.* A frame's content never changes silently: another content opens
  a conflict, local content is preferred provisionally, only an operator closes
  it. Hard: three tables updated by separate statements in two methods, conflicts
  on a frame before and after decisions, chunks that depend on several frames.
- *Worker.* No path forgets a lease, objects precede the rows that point at them,
  the worker's position and the chunk's state agree, everything ends. Hard: death
  between any two steps, exceptions in every stage, cancellation, timeouts.
- *Fleet controller.* Decides from four SELECTs that do not see one snapshot.
- *Return importer.* Never overwrites a valid frame and reports what it did. Hard:
  failures half way, a renderer in the same directory.
- *Render scheduler and local worker.* A task that is leased or running has exactly one
  active lease of its current attempt; workers are never given more than they can hold;
  a late worker delivers nothing; two processes do not share a device. Hard: every call
  reaps first, workers register again with other capabilities, `run_once` awaits between
  any two calls while its process goes on.
- *Production render.* "Stop after the current chunk" means that chunk; a cancel is not
  lost; a job ends. Hard: the process outlives the server and the server its processes;
  marker, record and manifest are three files written by two programs.
- *Job manager.* A job that ended stays ended, an honoured cancel never completes, a
  deletion is carried through, slots and admissions come back. Hard: stage updates
  without the lock of the job, deletions that time out, waiting without polling.
- *Catalogue.* Rows say what has happened and nothing is left lying. Hard: each store
  call runs in a thread, an item can be dispatched twice, a batch is cancelled in many
  steps, events are set after rows are written.

`PROJECT.json` lists all components and, under `hazards`, each place in the code
where these things bite.

## 2. Modules

```
FramePublication            promise about one frame: first value, dispute, decision
      ^ refinement (PublicationPromise)
FrameLedger                 the three publication tables
      ^ EXTENDS, refinement proved (SchedulerImplementsLedger)
ChunkScheduler              + chunks, leases, cancellation, time
      ^ EXTENDS, refinement proved (WorkersAreClients)       ^ EXTENDS
RenderWorker  worker processes, object store, crashes     FleetController  torn status() reads

ReturnImport                the output directory and concurrent imports

RenderTaskScheduler         tables of the render scheduler, operations as functions
      ^ EXTENDS
RenderPlacement             + time, workers in run_once, render processes, crashes
      v refinement proved (DeliveryPromise)
TaskDelivery                promise about tasks: rounds, one holder each, settled once

MissionRender               a production render: server, renderer task, process, operator

AnalysisJobs                uploads, tasks, slots, cancel and delete, restart

CatalogueScan               scans of an asset
      ^ EXTENDS
CatalogueQueue              + batch, queue items, dispatch tasks, requests, restart

ChunkSchedulerProofs (with those of FrameLedger), RenderWorkerProofs,
FleetControllerProofs, ReturnImportProofs, RenderPlacementProofs, MissionRenderProofs,
AnalysisJobsProofs, CatalogueQueueProofs
                            theorems about these modules and their proofs
MC*.tla, *.cfg              small instances for TLC
```

**FrameLedger.** `cands[f]`, `pub[f]` and `conflicts` are the rows of the three
tables. `Deliver` is the per-frame publication that `complete_chunk` and
`register_external_publication` share (they differ in one point: only the first
marks the candidate of an identical frame); `Resolve` is the table part of
`resolve_conflict`. Abstractions: conflict rows form a set (two pending rows with
the same digests are one; nothing counts them but `unresolved_conflicts`, which is
compared with 0 only); the `preferred_*` columns, never read, are left out; the
resolution `OPERATOR_SELECTED:<sha>` is the digest; which of several equally
preferred candidates is chosen first is left open. `source_kind` is a function of
the worker.

**ChunkScheduler.** One action per public method; a call that raises is rolled
back and is no step. A token is named by the attempt it was drawn for, because
`secrets.token_urlsafe` does not repeat. Clients are the most general ones:
`leases` collects every lease ever granted and any of them may be used at any
time, which covers late, duplicated and reordered calls and crashed clients at
once. Time is a countdown `remaining` per lease (`Tick`), and every call carries a
time stamp up to `MaxLag` ticks old.

**RenderWorker.** `run_once` as a program counter per worker, one action between
two interactions with the outside: poll, claim, transition to RENDERING, progress
(any number), result, each upload, transition to VALIDATING, manifest, completion,
and both exception handlers. `Die` can happen anywhere (it also stands for
exceptions `run_once` does not catch, such as `ObjectStorageError` and
`sqlite3.Error`), `Restart` starts the same worker id afresh. Clocks are `sinceBeat`, `idle`
and `age`. Only `--run-until-idle` is modelled; a single `run_once` is its prefix.

**FleetController.** `status()` as the four SELECTs it is, in order, with the
scheduler stepping in between; `reconcile`'s decision; instances stopped one by
one. Budget verdict and idle list are inputs.

**ReturnImport.** The loop of `import_quarantined_return` over the files of the
output directory: first check, copy, second check, `os.replace`, each a step, with
a failure possible after each. Records are taken in any order (the manifest lists
them in some order). Output files may be absent or torn at the start.

**RenderTaskScheduler.** The four tables as one record `db`. An operation is a condition
(`MayRegister`, `MayClaim`, `MayComplete`, `IsActive`) and a function from tables to
tables, because each of them runs on what `Reap` left in the same transaction; a call
that raises is rolled back with its reaping. `_requeue_worker_leases_locked` and the
second half of `_reap_expired_locked` are the one operator `EndLeases`. Leases are
numbered in the order of their grants; a token is known to the worker it was given to
only, so presenting it is knowing the number. Left out: task identities and dependencies
(none of the queries reads them), sizes and formats, what rows record and nobody reads.

**RenderPlacement.** `run_once` as a program counter per worker, one action between two
awaits: register, claim (with the time stamp of the registration, as the code has it),
build, start, spawn, heartbeat, exit, terminate, complete, fail. `Crash` takes the
process with it, as a machine that stops does. Other clients may submit, reap, retire and
heartbeat at any time. `MaxLag` bounds how old the time stamp of a call may be.

**TaskDelivery.** What a client of the render scheduler may count on, without leases,
devices or time: a task waits, is held by one worker, is delivered by that worker or given
up. Withdrawing it opens the next round, which is the next attempt; a call may withdraw
any number of tasks first (its reaping) and then serve one. `RenderPlacement.View` reads
the tables as the rows of `TaskDelivery`.

**MissionRender.** The job record, the task that watches the process (`watch`), up to two
processes (`proc`: one known and one lost), the manifest and the marker. A process that
boots needs the GPU mutex, writes the manifest, and looks for the marker before and after
every chunk. The server may lose its task (`WatchFails`), die (`Crash`, between marker and
record too) and recover (`Startup`, `MonitorOrphans`). Writing a record never suspends its
coroutine, so a handler is one step, except for `retry_current_chunk`, which holds the
lock while a process is killed.

**AnalysisJobs.** Per job: row, media, marker, and where its upload, task, cancel request
and delete request are. A deletion (`delete_job`) succeeds, is refused (`DeletionError`,
which is retried) or breaks off with another exception (which is not). Sections under the lock of a job are one step;
stage updates, which are not under it, are two (`ReadForStage`, `WriteStage`); finishing,
which looks at the marker again and again, is several steps that hold the lock.
`Restart` forgets what was in memory and fails active jobs.

**CatalogueScan, CatalogueQueue.** One asset, its scans and the batch its segments were
enqueued in. A call of the store is a step. `Dispatch` takes the oldest queued item even
if it has a task already, which is how an item gets two. The analysis job of a task is
what `AnalysisJobs` models, reduced to: it ends, and does not complete once cancelled
(`doomed`). `CancelBatch`, `CancelItem`, `WithdrawBatch` and `CancelJob` are the
cancellation of a batch in its steps, in the router and then in the scheduler.

## 3. Runs

| Run | Instance | Shows |
|---|---|---|
| `ledger` | 1 frame, 3 contents, local and cloud worker, up to 3 conflict rows | tables agree (`ConflictTracked`, `NothingSilentlyDropped`, `RivalsQuarantined`, `LocalPreferred`) and keep `PublicationPromise` |
| `scheduler` | 3 frames in chunks of 2, 2 workers, 2 attempts, lease 2 ticks, lag 1, 2 contents, 2 outside renderings | lease discipline, retry budget, single delivery, quarantine and completion, final states, lost leases |
| `worker` | 2 frames in one chunk, 2 workers, 2 attempts, lease 2, lag 1, one restart each | stages agree, leases are returned, objects before rows, `WorkersAreClients` (refinement of ChunkScheduler) |
| `timely` | 2 frames in one chunk, 2 contents, lease 4, heartbeat 1, step time 1, no crash | a punctual worker keeps its lease |
| `settle` | 1 frame, 2 workers, 2 attempts, lease 2, idle timeout 2, one restart each, under fairness | every chunk settles, cancellation ends all workers |
| `fleet` | 2 chunks of one frame, 1 attempt, one outside rendering | the job-complete verdict is true when taken and stays harmless while instances are stopped |
| `import_serial` | 2 imports, 2 frames, 2 contents, one at a time | nothing is overwritten, reports are true |
| `import_shared` | the same, concurrent and with a renderer | **violation**, see below |
| `placement` | 2 workers with one GPU or two CPU slots each, 2 tasks of which one needs the GPU, 2 leases, 3 ticks, lease 3, worker timeout 2, heartbeat 1 | tables agree, capacity is held, the newest lease delivers, two processes meet only when a worker is late |
| `jobs` | 2 heavy jobs, 2 worker slots, 1 GPU slot, 2 requests about one of them, 2 deletions that are refused or break off, retry loops of 2 attempts, 1 shutdown or crash, under fairness | cancels and ends stick, jobs settle, deletions complete unless given up for a reason |
| `mission` | 2 chunks, 2 processes, 2 jobs over one output, 3 requests, 2 crashes, under fairness | a stop is prompt, a cancel sticks, a render ends |
| `catalogue` | 2 scans, 2 items, 2 dispatch tasks, 2 requests or restarts, under fairness | rows are true, work proceeds |

Why the bounds are enough for the questions asked. Tables of different frames do
not interact, so one frame with three contents shows every conflict history of the
tables; the three-frame instance of `scheduler` has a full and a short chunk and a
chunk with two frames in dispute. Two attempts give an expired holder, a current
holder and exhaustion; a lease of two ticks separates live, nearly expired and
expired; lag 1 makes stale time stamps cross the expiry. Two workers give every
race between two holders. `MaxConflicts` (in `MCFrameLedger`) is the one bound on
the ledger's state; in `RenderWorker`, `MaxRestarts` bounds restarts, and the
clocks stop at the value beyond which they decide nothing more. In `worker`, frames have
one content: that the stored object has the content of the row is left to
the theorem `StoreComesFirst`.

In `placement`, two leases give a task a holder that lost it and one that has it, and the
three ticks let a worker, a lease and a heartbeat expire in every order; capabilities are
chosen at every registration. In `jobs`, both jobs get a worker slot and one waits for the
GPU, the place where nothing is polled; as many deletions may fail as a retry loop has attempts
(two for the eight of the code), so that a loop can go on, succeed late, or run out.
In `mission`, two chunks separate a stop before, in and after a chunk from completion, two
processes are one watched and one lost, two crashes lose two of them. In `catalogue`, two
slots let an item be dispatched twice, and the first states may already have a map and a
batch, so that two events reach deep into both schedulers.

`jobs`, `mission` and `catalogue` set `CHECK_DEADLOCK FALSE`: when everything has ended
and the bounds on requests are used up, nothing is left to happen. So do
`import_serial` and `import_shared`: when both imports have finished and every frame
exists, nothing is left to happen.

Each property is paired in `PROJECT.json` (`mutants`) with a plausible bug in a
modelled definition (`Mutant...` operators stand before what they change) that
makes TLC report a violation of it.

### Fairness

`settle` assumes weak fairness of a live process's loop (`WorkerStep`), of a render
coming to an end (the subprocess runner kills Blender at
`render_timeout_seconds`) and of time. It does not assume that anyone restarts a
dead process, resolves a conflict or cancels. `EveryChunkSettles` is conditional on
no worker staying dead for ever, because with the only survivors gone nobody is left
to render. Time stamps are current there (`MaxLag = 0`).

`jobs` assumes that the event loop runs what is ready, job by job (`Run`, and the
continuations of the upload, cancel and delete requests), and that an analysis ends
(`LeaveWork`, strongly fair because stage updates come in between: it has a hard time
limit and reports finitely often). `mission` assumes that a process goes on (`Process`;
nothing limits the time Blender takes, so a hang is assumed away), that the renderer task
and the orphan monitor run and that a server that died is started again. It assumes nothing
of the operator. `catalogue` assumes that scans and tasks go on, and strong fairness of one
thing: a task that asks for admission again and again is admitted once, because other jobs
end too (`JobsSettle`). The retry of a dispatch comes every second or sooner.

### What the bounds of time mean for a deployment

- `timely`: the lease must exceed heartbeat interval - 1 + 3 x longest step (in
  ticks). With lease 3, heartbeat 1 and step 1, the property fails: after the last
  heartbeat come the transition to VALIDATING, the manifest and the completion,
  none of which extends the lease. `WorkerConfig` only checks heartbeat < lease.
  `TimelyWorkersKeepLeases` proves that the inequality is enough for all values, with the
  staleness of time stamps (`MaxLag`) added to the left side (`EnoughTime`).
- `settle`: `EveryChunkSettles` needs `no_work_timeout_seconds` at least as long as
  the lease. With `IdleTerm = 1` and `LeaseTerm = 2` it fails: a worker dies with
  the last lease and is restarted, everybody finds nothing claimable and stops, and
  only then does the lease expire. The defaults (300 s against 900 s) are in that region; no document
  promises otherwise, so this is a remark and not a finding.

- `placement`: `OneProcessUnlessLate` says that two processes on a device, or of a task,
  need a worker that is late with its heartbeat or was retired in mid-task.
  `OneProcessPerLease` proves it for all values under `SilenceEnough`: the longest silence
  between two renewals plus the staleness of time stamps is below the worker's timeout.
  The run has current time stamps (`MaxLag = 0`); with `MaxLag = 1` and its worker timeout
  of 2 the property fails: a heartbeat of the worker's row (which other clients may send),
  stamped before it waited for the lock and applied after the worker registered, sets the
  expiry back. The constructor of the worker checks heartbeat < lease and heartbeat <
  worker timeout, which is what `SilenceAssumption` says; the second margin must also
  cover the wait for the lock.

### Remarks

What the models show of the code beside the properties, and no document contradicts:

- *Production render.* If the server dies between removing the marker of a stop that is
  withdrawn and recording so, the record says STOP_REQUESTED without a marker, and a later
  cancel writes none: the render goes on to its end. `StopIsPrompt` excepts this case by
  name (`torn`). A stop marker that a previous job left behind stops the next job over the
  same output at once. A FAILED render whose manifest is paused or complete can be neither
  retried nor resumed, although its error says retryable. A retry of a chunk that has been
  published meanwhile kills the attempt at the next one.
- *Job manager.* A stage update may overwrite the CANCELLED a deletion has written
  (`EndedStaysEnded` therefore speaks of jobs nobody deletes). The retry loop of a deletion
  removes the files of a task that may still run. A restart forgets a deletion that was
  only promised. An exception that is no `DeletionError` (the archive's files, which
  `delete_job` removes first, or a database) leaves a deletion lying: `delete()` schedules
  no retry and a retry loop ends. A refusal that lasts, such as a dependency without a
  snapshot (only tests record one), outlasts the loop as well. `DeletionCompletes` excepts
  these two cases by name (`Abandoned`) and says that nothing else leaves one lying. A
  rejected upload whose cleanup is refused is marked as one that will be retried
  automatically (`store.py:359`); nothing retries it but a request to delete it. A cancel answered during the upload does not keep the analysis from being
  started; it runs, and its row stays cancelled.
- *Catalogue.* With `max_active_analyses` above one the same item may be dispatched twice
  (`README.md:601` calls the setting the maximum dispatched concurrently; the first of the
  two to end removes the key of the other, and the loop starts one more). An item of a
  cancelled batch may end as completed. Items enqueued or retried while the batch is being
  closed stay queued in a completed batch until the next start. `retry_failed` queues the
  rows it listed whatever has become of them. Once a segment was enqueued, a rescan of its
  asset fails. Not in the model: a `DeletionError` at the end of a dispatch task
  (`catalog/scheduler.py:357` suppresses only `KeyError` and `OSError`) skips the rest of
  its `finally`, so a place among the pending jobs is given back only with a later
  deletion, and the batch is not closed.

### Finding

`import_shared` violates `NeverOverwritten`: look (absent), copy, look again
(absent), the local renderer finishes the frame, `os.replace` overwrites it and the
report says `published`. `docs/cloud-rendering.md:268`: "the importer never silently
overwrites the local frame." `FilesystemStorage` avoids the same situation with a
hard link and says why (`storage/filesystem.py:61`).

## 4. Proofs

`tlapm` checks the eight modules `*Proofs`. They use these assumptions on constants:

- `LedgerAssumption` and `SchedulerAssumption`: constants have the expected types, `NoRow`
  and the pending marker are not data, local workers are workers; `Frame` is the range of
  the job and chunk size, attempts and lease term are positive;
- `WorkerAssumption`: heartbeat < lease, the other terms and bounds are numbers;
- `ImportAssumption` (importer): an absent and a torn file are no contents, and differ;
- `TermsAssumption`, `NamesAssumption`, `CapabilityAssumption`, `NeedAssumption`,
  `LagAssumption` and `SilenceAssumption` (render scheduler): terms are positive, the
  markers are not data, capabilities and needs are records of the expected shape, the lag
  of a call is a number, the silence of a worker is shorter than lease and timeout;
- `ChunksAssumption` (production render: there is a chunk), `HeavyAssumption` (job manager:
  heavy jobs are jobs), `ScansAssumption` and `ItemsAssumption` (catalogue: bounds are
  numbers).

Two theorems have a premise of their own, a margin of time that no code checks:
`EnoughTime` of `TimelyWorkersKeepLeases` and `SilenceEnough` of `OneProcessPerLease`
(section 3 says what they mean for a deployment and how the properties fail without).

- *Ledger* (the first part of `ChunkSchedulerProofs`). `LedgerInv` is the conjunction of `LedgerTypeOK`, `ConflictTracked`,
  `NothingSilentlyDropped`, `RivalsQuarantined`, `LocalPreferred` and the
  strengthening `DisputeRecorded`. The last says that the digest
  a disputed frame provisionally carries is named by one of its conflict rows; without
  it `NothingSilentlyDropped` is not inductive, because a second delivery or a decision
  may put another digest in its place and the old one must still be recorded. There is
  one lemma per action (`Deliver`, `Resolve`) with one step per conjunct; then each
  invariant follows from `LedgerInvariant`. `LedgerKeepsPromise` is the refinement: initial states map to
  initial states, and each ledger step maps, frame by frame, to a step of
  `FramePublication`.
- *Scheduler.* `SchedulerImplementsLedger` shows that every scheduler step is a
  ledger step or leaves the ledger alone, so the ledger's theorems, and
  `SchedulerKeepsPromise`, carry over. The inductive invariant of the chunk
  rows is `SchedulerInv`: `TypeOK`, `LeaseDiscipline` and `RetryBudget`, which need
  each other (a token is the number of its attempt, so a fresh token is fresh because
  earlier grants have the numbers 1 .. attempts). Every action is first summarised as
  either granting nothing (each row stays, is extended or is released: `NoGrant`) or
  being the one grant (`Grant`), with one lemma per operation, and the invariant is
  shown for the two summaries. `LostIsLost` then rests on tokens being attempts that
  only grow; `FinishedIsFinal` and `CompleteJobIsQuiet` on a finished chunk having no
  token, so that no lease opens it; `QuarantineExplained` on conflicts staying pending
  until `ResolveConflict`, which looks at the chunks itself. `DeliveredOnce` rests on the
  chunks being disjoint ranges of frames (`FrameStart + FramesPerChunk * i`): a delivery
  adds the key of its own attempt only, and to the frames of its own chunk only.

- *Workers.* `WorkerInv` is stated per worker on values (`Sound`): the process record has
  a lease exactly while its position works on one, the lease was granted to it, what it
  has uploaded is in the store with its content (`Stored`), the row's state is the one the
  position expects while the lease opens the row (`Agrees`), and every row with time left
  in its name is its lease, unless it died or was restarted (`Accounted`). Beside it stand
  `Unassigned` (a row without token names no worker) and `ObjectsBeforePublication`, for
  which `Stored` is the strengthening: a completion publishes what was stored before it.
  One lemma per step of `run_once` shows `Sound` of the worker that steps; for the others
  each transaction only leaves a row of theirs alone or closes it. Because every step of a
  worker is a step of a client, `WorkersOnlyCallScheduler` holds and `SchedulerInv` carries
  over, which the lemmas use. `TimelyInv` bounds the time left in the row from below by the
  lease minus the lag, what the position may have used up (`Spent`) and the age of the
  current step; `EnoughTime` keeps that bound positive at every step.

- *Fleet controller.* `FleetInv` records what a count that was read says and that it stays
  true: a complete chunk stays complete and a published frame published. Conflicts come
  and go, but are read last; with none pending and every frame published, every
  publication is accepted at that moment. `FleetOnlyWatches` carries the scheduler's
  theorems over.

- *Return importer.* `SortedInv` follows the frames of a manifest from `todo`, over the one
  being copied, into the three lists of the report, and needs nothing of the files: it
  holds for concurrent imports beside the renderer too, and gives
  `ReportsNameEachFrameOnce`. `SerialInv` adds that what a call has recorded is true of the
  files and that a frame it found absent stays absent until it puts it there, which is
  where one import at a time is used; `NeverOverwritten` and `ReportIsTrue` follow from
  it, and `import_shared` shows that the first does not hold without.

- *Render scheduler.* The tables are one value, so the lemmas of
  the first part of `RenderPlacementProofs` are about values and not about steps: a transaction takes
  sound tables (`TableInv`) to sound tables and never touches the row of a task that is
  complete or failed (`Step`). There is one lemma per transaction; those that end
  leases, renew them or finish a task share a summary (`Released`, `Renewed`,
  `Finished`), since expiry, retirement and release differ only in which leases end and
  how. Every call reaps first and steps from there, so the lemmas compose
  (`StepsCompose`, `Transaction`). `TableInv` needs two conjuncts beside the shape of
  the rows: an ended lease never has the current attempt of a task that is pending
  (`History`), and along the leases of a task the attempts increase (`Increasing`).
  Without them a claim could repeat an attempt and an old lease could pass for the
  newest. `PlacementInv` adds that a worker past its claim presents a lease that was
  granted, which `Complete`, `Fail` and `Start` rely on. `TypeOK`, `LeasesBackTasks` and
  `NewestLeaseDelivers` follow.

- *Capacity.* `CapacityHeld` is a conjunct of `TableInv` and needs the sums of memory over
  the leases of a worker. The library's fold is a table of partial sums over the subsets
  of the set; that the table exists, and that a sum grows by what a lease needs when it
  is granted and never grows otherwise, is shown for a smallest subset that would be a
  counterexample (`SmallestSubset`), because the library's induction theorems are out of
  the prover's reach. A claim checks the sums (`GrantFits`), a registration with other
  capabilities is refused while leases are held, all else only ends leases (`FewerFit`).

- *One process.* `TimeInv` says of each worker that presents a lease and is neither retired
  nor late (`InTouch`) that its row is active and its lease runs, both for longer than its
  silence can last. Each transaction either leaves row and leases of a worker alone
  (`Spares`) or renews them; reaping spares whoever is in touch, however stale the time
  it reaps at; and who is late stays late until it calls. Two workers in touch
  then hold two active leases, which `TableInv` keeps on different tasks and devices.

- *Promise about tasks.* `TasksKeepPromise` shows that `RenderPlacement` implements
  `TaskDelivery`. What a call reaps or retires makes rows of the view lapse (`Lapses`,
  from `Released`), what it then does serves one row or none (`Serves`, from `Renewed`,
  `Finished` and the lemmas about submission and claim), and the two together are a step
  of `TaskDelivery` (`CallKeepsPromise`). A delivery is by the holder because the lease
  that completes a task keeps its worker (`Step`). No run lists `DeliveryPromise`; TLC
  confirms it on the instance of `placement`.

- *Production render.* `MissionInv` says that at most one process is past the GPU mutex and
  has a chunk left to render (`Exclusive`), that while a stop is pending its marker is there
  and after one late chunk nobody renders (`Prompt`), that the task in the server and the
  record agree (`TaskAgrees`) and that a complete job has a complete manifest. Without
  `Exclusive` a second process could publish a second late chunk; without `TaskAgrees` a
  task could write a state over a cancel.

- *Job manager.* `JobsInv` is per job. A stage is written without the lock, from a row read
  earlier, so `Stages` says over which rows a task between its read and its write can
  stand: an active one, or one that is being deleted. `Cancels` says that an active row
  somebody asked to cancel has its marker for the task to see, and that a task past its
  last look at the marker was not asked. A step of one job leaves the others alone
  (`SameKeeps`), so each action is looked at for its own job.

- *Catalogue.* `QueueInv` adds to `RowsAreTrue` that a running item is backed by a task that
  will still write its row (the second task of an item that is dispatched twice may be the
  one), that a task that will complete its item has stored the result, and that a scan
  whose row says running is past its first step.

Every safety property of a passing run is thus stated by a theorem. Only model-checked
is all liveness (`EveryChunkSettles`, `CancelStops`, `JobsSettle`, `DeletionCompletes`,
`RenderEnds`, `WorkProceeds`), because fairness and ENABLED are beyond the prover; the
violation of `NeverOverwritten` by concurrent imports is TLC's as well.

## 5. Not modelled

Within `cloud_render`: launching Blender and GPU checks, manifest parsing and
hashing, cost arithmetic, providers, storage internals. Uploaded keys contain the
hash of the lease token, so no two puts of workers meet; the create-if-absent
protocol of `FilesystemStorage` is therefore not needed for the properties above.
Mission Control: the projection of scheduled tasks onto job records, other jobs beside
the one modelled, the fake renderer, `invalid` manifests, encoding, forecasting, discovery.
Job manager and catalogue: event subscriptions, edits of finished analyses, the archive,
clients, projects, uploads of the catalogue and its audit chain. A graceful shutdown is
modelled as far as it leaves something else than a crash. Pure computation (signal
processing, prompting, tagging, planning, costs), I/O and user interface are left out for
good: they make up most of the repository's lines, and have no state a model checker
could explore.

## 6. Plan

Done, in this order: publication tables and their promise; scheduler; worker; fleet
controller; importer; proofs about tables and scheduler; render scheduler with its local
workers; job manager; production render; catalogue scans and queue; proofs about the
render scheduler, the workers, the fleet controller, the production render, the job
manager and the catalogue; proofs about the importer, about capacity and time in the
render scheduler, and the promise about tasks.

Next, in the order of importance:

1. `FilesystemStorage` create-if-absent with concurrent puts and torn temporaries,
   refining an atomic write-once map; budget reservations of video generation; resume of
   local video.
2. Promises like `TaskDelivery` for the job manager and the catalogue queue.
