# A TLA+ model of pgwarden

pgwarden backs PostgreSQL databases up on a schedule and restores them. One Go binary runs
in one of three roles: `web` serves the UI and the API, `worker` runs cron and the dumps and
restores, `all` does both in one process. The pods share a PostgreSQL database, which is also
the job queue, and store dumps in S3 or in a local directory. This directory holds TLA+
modules for the parts of it that are hard to test, the TLC configurations that check them, and
TLAPS proofs.

## The system

| Part | State it keeps | Operations | Interacts with |
|---|---|---|---|
| Execution queue (`service/executions`) | rows of `executions`: status, heartbeat, path, deleted_at | enqueue, claim, run, heartbeat, reap, soft delete, purge | called by cron, UI, API; claimed by worker; writes dumps through storage |
| Restoration queue (`service/restorations`) | rows of `restorations`: status, target, heartbeat; the target databases | enqueue, claim, prepare target, restore, reassign owner, reap, purge | reads execution rows and dumps; deleted with them by the foreign key |
| Worker (`service/worker`) | claim slots, heartbeat tickers | claim loops, reap loop, shutdown | both queues |
| Cron and schedules (`internal/cron`, `service/backups`, `cmd/app/init_schedule.go`) | a job registry per process; rows of `backups` | upsert/remove/schedule all; create, edit, toggle, delete a backup | enqueues executions |
| Retention (`soft_delete_expired_executions`, `monthly_retention`, presets) | policy columns, keepers | select expired, housekeep, purge | deletes execution rows and dumps |
| Parallel dump and restore (`integration/postgres`) | in-process pipes, goroutines, temp directory, zip archive | dump schema and data ranges, write the archive, restore parts | feeds the upload of an execution |
| Storage (`integration/storage`) | files, S3 objects | upload, delete, open, size | executions, restorations |
| Discovery (`service/discovery`) | run flag under a mutex, rows of `discovery_events` | begin, scan, register databases and backups, end | databases, backups, cron |
| Config files (`service/configfiles`) | files on disk, in-memory copies, versions in the database | load, watch, save, restore a version, prune | discovery settings, restore presets |
| Log tail and progress (`util/logtail`, `util/progress`) | a window of lines, flush numbers | write, asynchronous and synchronous flush | the log column of both queues |
| Auth, users, RBAC, audit log (`service/auth`, `service/users`, `service/rbac`, `service/auditlogs`, `view/middleware`) | sessions, the access a request was given, audit lines, counters of the rate limiter | login, logout, token checks, what a user may view and run, one line per deed | every web and API handler |
| Databases, destinations (`service/databases`, `service/destinations`) | rows, result of the last test | create, edit, delete, test, scheduled checks | backups, executions, restores, `/api/health` |
| Web UI and API (`view/web`, `view/api`) | in the browser: cards, pollers, dialogs, the hidden fields of the wizard | load, scroll, poll, open, restore, run, retry, download | all services |
| Jobs list, static data, version check (`service/jobs`, `staticdata`, `service/versioncheck`) | one cached version string | count, list, any active | the lists of the UI |

### What is hard

Several pods act on the same rows at once; a claim, the work and the final report are separate
statements, and a pod can die between any two. A heartbeat written late or not at all makes the
reaper fail a living job. Dumps are files outside the transaction that records them. Cron
registries live in every process while the schedule lives in the database. A dump is a pipeline
of goroutines and pipes which has to end whichever stage fails. Configuration is changed by
hand on disk, from the UI, and from other pods. A request of the UI reads its session, presets,
databases and dumps one after the other, and each may change before the job is queued. A list that
polls, scrolls and swaps cards works on pages of an order that moves under it.

### What makes each part correct

* Execution queue: at most one queued or running execution per backup and one dump of it at a
  time; an execution is run once; only rows without a living worker are reaped; a settled row
  stays settled; a row that says success has its dump; no dump is out of housekeeping's reach;
  what is queued is served and what runs settles.
* Restoration queue: the same queue rules per target database; success means the target holds
  exactly that dump, owned as configured, and it stays so until the next restore is claimed; a
  queued restoration is served once the executions, which come first, leave a slot.
* Cron: a re-sync leaves a pod with the jobs the table asks for, and worker pods follow the
  table in the end, whatever request, restart or failure came in between.
* Parallel dump and restore: what was uploaded without an error is the whole database; nothing
  works on after the end; a restore runs in order and reports success only for the whole.
* Config files: nothing is applied that was not saved; what a save replaces is kept; pods agree.
* Log tail: the stored tail never goes back, and is complete before the final report.
* Discovery: one run at a time; a database and its backup are registered once; a run that died
  does not block the next for longer than its window.
* Databases and destinations: the stored result of the last test ends up true of the present
  connection, whatever tests and edits overlapped.
* Access and audit: what a request starts was allowed, is what its preset says, and leaves its line.
* Lists: nothing is skipped, and what is shown under way is followed to its end.
* Retention: an execution goes when its window is over and not before; one success of each
  month outlives the others where the backup asks for it.

## Modules

| Module | Models | State | Actions |
|---|---|---|---|
| `JobSlots` | what either queue promises | `slot` of each resource, `used` jobs | `Take`, `Leave` |
| `ExecutionQueue` | `service/executions`, `service/worker`, file side of `integration/storage` | the columns `status`, `softDeleted`, `path`, `before` (order of `started_at`), `beat` (age of `heartbeat_at`); `stored` dumps; `pc`, `job`, `due` of the worker slots; `ask` of callers; `delPc`, `delExec`, `delPath` of deletions | `CheckRunning` and `InsertQueued` (`EnqueueExecution`), `ClaimExecution`, `StartUpload` to `ReportLost` (`RunClaimedExecution`), `HeartbeatExecution`, `Tick`, `ReapStaleExecutions`, `Crash`, `Restart`, `PickForDeletion` to `MarkDeleted` (`SoftDeleteExecution`), `PurgeDeletedExecutions`, `DeleteBackup` |
| `RestorationQueue` | `service/restorations`, `integration/postgres/admin.go`, `claimLoop` of `service/worker` | the columns of a row; `exec` and `stored` of the dumps restored from; `data`, `by`, `owned` of each target; `waiting` executions; workers as above | `StartRestore`, `EnqueueRestoration`, `ClaimExecution`, `EndExecution`, `NoExecution`, `ClaimRestoration`, `NoRestoration`, `CheckExecution` to `ReassignDatabaseOwner`, the reports, heartbeats and reaper, `PurgeOldRestorations`, `RemoveExecution` (the cascade) |
| `LogTail` | `util/logtail` | `last` line, `seq`, `snap`, `flushedSeq`, `holder` of `flushMu`, `persisted` | `Write`, `FlushNow`, `BeginFlush`, `SkipFlush`, `EndFlush` |
| `ConfigFiles` | `service/configfiles` | `versions` and `backups` of the database; `mem`, `applied` of each pod; `save` and `watch`, the handlers under way | `LoadOne`, `Seed`, `ValidateAndSave` to `MarkSaved`, `RestoreBackup`, `WatchGet` to `WatchMark`, `Lose` |
| `BackupSchedule` | `internal/cron`, `service/backups`, `init_schedule.go` | `row` of each backup, `jobs` of each pod, `edit` and `sync` under way | the backup requests and the two halves of `UpsertJob`, `ScheduleAll` step by step, `Fire`, `Restart` |
| `ParallelDump` | `integration/postgres/parallel_dump.go` | `producer`, `worker`, bounded `chunks`, `archive`, `upload`, `snapshot`, `cancelled` | `Take`, `WriteChunk`, `DumpEnds`, `DumpFails`, the producer's sections, `Close`, `UploadFails`, `JobReturns` |
| `ParallelRestore` | `integration/postgres/restore.go`, on the archive `ParallelDump` leaves | `stage`, `todo`, `psql`, `errs`, `stopped`, `restored` | `OpenArchive`, `RestorePre`, `TakeFile`, `FileRestored`, `RestoreFails`, `EndDataFiles`, `RestorePost` |
| `Discovery` | `service/discovery`, `cmd/discover` | `lock` and `runActive` of each process; `pc`, `pod` of each run; its events (`log`, `age`, `due`, `lost`); `ports`, `todo`, `cur` of its scan; `registered` and `copies`, the rows it creates | `ClickRun`, `CallRun`, `AskDatabase`, `ClearFlag` (`Running`), `LockRun` to `AdmitRun` (`beginRun`), `StartScan` to `FinishScan` (`runLocked`), `LookupBackup` to `ScheduleBackup` (`ensureBackup`), `EndRun`, `PurgeOldEvents`, `Crash`, `DeleteDatabase`, `DeleteBackup` |
| `Access` | `service/rbac` | none: operators on a configuration and the groups of a user | |
| `Registry` | `service/databases`, `service/destinations` | `conn` and `health` of each row, `known` names, `up` servers, `edit` and `test` under way | `SubmitForm`, `ProbeForm`, `InsertRow`, `UpdateRow`, `DeleteRow`, `TestExisting`, the scheduled `TestAll...`, and a test as `GetRow`, `TestConnection`, `StoreResult` |
| `Console` | `view/web`, `view/api`, `view/middleware`, `service/auth`, `service/auditlogs`, `service/restorations` up to the queue | `saved` and `applied` presets, `session`, `dumps`, `form` (the wizard of each browser), `req` (what a request has been given, has read and has written) | the pages of the wizard, `FindTarget` to `Enqueue` (`StartRestore`, `FixOwner`), `AdmitRun`, `AdmitDownload`, `FindBackup`, `Link`, `Log`, `Reply`, `ClientLeaves`; `Login`, `LoginWithOidc`, `Logout`, `SaveConfig`, `Follow`, `PodRestarts`, `DumpStored` around them |
| `ListPages` | `view/web/dashboard/executions`, `.../discovery`, `service/jobs` | `status` and `order` of the jobs; `cards`, `sentinel`, `polling` of the page; `list` and `scroll`, the requests in flight; `dialog`, `shown` | jobs that start, move, end and go; `ReadList`, `AnswerLoad`, `AnswerPoll`, `AnswerScroll`, `ListFails`, `ScrollFails`; `StartPoll`, `StartScroll`, `ClickRun`, `OpenLog`, `PollDialog` in the browser |

`Console` extends `Registry` and instantiates `Access`: its requests read the rows that edits and
tests of `Registry` change. `ParallelRestore` extends `ParallelDump`: a run dumps a database and restores what came out.
Both queue modules instantiate `JobSlots` with the refinement mapping `SlotOf`, `Born` (a slot
is taken by the active row of a backup or a target). The `MC*` modules give the constants
values; the `...Proofs` modules hold the theorems.
Operators named `Mut...` are broken variants of the definition next to them, and are used by nothing: putting one in
its place has to break the property it is meant for.

### How the code became steps

One SQL statement is one step; so is an operation on storage, on a target database or on a
scheduler; everything else may happen in between. Handlers that read a row before they act on
it keep what they read in a variable of their own (`ask`, `delPath`, `save[s].old`,
`sync[p].rows`), so a stale value is acted upon as it is in the code. A call that can fail has
a step for its failure, limited to kinds of call by `Faults`, or in number by `MaxFaults`,
`MaxMishaps`, `MaxCrashes` and `MaxChanges`. Left out: log lines and progress columns other than the tail's order, the
wording of messages, and reads that nothing depends on.

Assumptions, by module:

* Queues. A pod has one slot, so a slot is a pod. The slots are those of both queues, and a slot
  asks for an execution first: `RestorationQueue` has this loop (`ClaimExecution` to
  `NoRestoration`), with the tags of the waiting executions (`waiting`, any set of tags within
  `Backlog`, changing at any time) for the queue of executions. `ExecutionQueue` leaves
  restorations out, since one of them keeps a slot from its executions only until it ends. All
  pods see one local volume. Which row has expired or is old enough to be purged is a free
  choice, and purges are not cut into batches. `Tick` is one heartbeat interval (30
  seconds; `reapStaleAfter`, five minutes, is `StaleAfter` intervals, of which one or two are
  enough here): every heartbeat of the last
  interval has been tried before the next begins. `AllRole` pods (`PBW_ROLE=all`) are alone, as
  the README of pgwarden means that role (one container). An upload to S3 leaves all of the object or nothing.
* `RestorationQueue`. Executions come to it successful; their deletion is three free steps: the
  dump is erased and the row marked (`Expiring`), the row is removed (`Cascading`).
  Anything but its own statements leaves a target database alone. `owned` speaks of the database
  and of the kinds of objects the script of `ReassignDatabaseOwner` lists; types other than
  composite ones and domains, and whatever else a dump may hold, stay with the user who restored it.
* `LogTail`. Lines are numbered and the tail is its last line. The gap between flushes may pass
  at any time.
* `ConfigFiles`. One configuration. An `UPDATE` is one step, so `updated_at` grows with each.
  `raced` is there for `PodsConverge` only.
* `BackupSchedule`. Expression and time zone are one value; a job may fire at any time; the
  last job added under an id replaces the one before.
* `ParallelDump`. Bytes of a table are chunks of its entry. A write to the pipe needs an upload
  that reads. The caller's context is cancelled when the job returns. Table sizes do not change
  between the plan and the dump.
* `Discovery`. A tick is ten minutes, of which the window of a silent run (30 minutes) has three;
  two are enough. A call of a run takes less than a tick. A database is named by host, port and
  name; which ports are open and what is excluded by name or size is a free choice.
* `Registry`, `Console`. What a form changes of a row is one value, its connection; a row's name
  and tag stay. A connection works or does not (`up`). The admin group and the presets of a
  configuration are read at once. Group names are compared after the cut of their paths. A dump is
  its number, later ones being greater. `worlds` is history: the presets, rows and dumps that were
  in force on the pod while a request was under way.
* `ListPages`. A page is one browser window. `fresh`, `shifted` and `raced` are history, there to
  state which rows a list may have missed, and why. `Nth` picks the rows that are there in their order.

## Runs

The run marked *violation* checks what the repository says and finds that the code does
otherwise. All others pass.

| Run | Configuration | Instance | Shows |
|---|---|---|---|
| claims | `ExecutionQueue_claims.cfg` | two pods, two concurrent callers, two executions of one backup, two crashes, lost final reports | one active row and one dump per backup, settled rows stay settled, only the dead are reaped, `JobSlots` is implemented; fair: what runs settles and what is queued is served |
| late | `ExecutionQueue_late.cfg` | a local backup, two pods, up to two lost heartbeats or reports or crashes, next to two deletions that may stop anywhere, purges and a deleted backup | still one runner per execution, success has its dump, and without mishaps every dump is in reach of housekeeping |
| restore | `RestorationQueue_restore.cfg` | two restores of one target with an owner and a tag of its own, an S3 dump that may be missing or deleted at any time, two requests, two pods that serve executions too, one crash, lost reports | one worker per target, an honest success that stays true until the next restore, `JobSlots`; fair: every restoration is served, if executions do not take the slots for ever |
| rlate | `RestorationQueue_late.cfg` | a restore and two owner fixes of two targets from a local dump, two requests, a pod whose heartbeats may be lost and whose claims may fail, purges, an execution deleted at any time | one active row per target |
| cascade *violation* | `RestorationQueue_cascade.cfg` | an execution that is removed while it is restored | two workers on one target |
| tail | `LogTail.cfg` | three lines, four flushes, two callers of `FlushNow` | never older; complete when `FlushNow` returns; it returns |
| configs | `ConfigFiles_follow.cfg` | two pods, two concurrent saves on one, two contents, one fault or lost pod | applied is saved, replaced is kept, pods converge |
| parallel | `ParallelRestore.cfg` | every database of up to three tables of three sizes, two `pg_dump`, two `psql`, two faults | plan, completeness, order and end of dump and restore |
| schedule | `BackupSchedule_follow.cfg` | a pod `all` and a pod `worker`, two backups, two schedules, two edits, one fault | an undisturbed re-sync is exact; worker pods follow the table in the end |
| discovery | `Discovery_runs.cfg` | two processes, two runs by any way in, one database, lost events, failing queries and steps, one crash or deletion | a flag has its run, a scan keeps others out, a backup is created once; fair: every run ends and a dead one is forgotten |
| pages | `ListPages_follow.cfg` | three jobs (a running execution and one that has ended are listed already, a restoration comes) or runs of this pod and another, one card per page, polls of one to three rows of which the service returns two, one failure or deletion | no row is skipped; fair: cards and dialogs of what has ended say so |
| console | `MCConsole` with `Console.cfg` | a source and a target database, a destination, one manager, one user of the UI and one of the API, two contents of the presets, two dumps, two edits or outages | what is started was allowed and planned and is in the audit log; fair: results of tests settle on the truth |

Why these bounds: the hazards need two of everything that races. Two executions of one backup
are the least for a second one to start next to a reaped first one; a third restoration is
there so that a purge and an owner fix meet a restore of another target. Two crashes let the
second pod die with the work it took over. `StaleAfter` is 2 where reaping the living has to be
excluded and 1 elsewhere. With solo and batch limits of 3, tables of 1 to 3 and two per batch,
every edge of `planDataJobs` (a limit met exactly, by bytes and by count) is among the
databases, and a channel of one chunk makes workers wait. `ListPages`
has the least list that moves under pages already loaded: two rows on pages of their own and a
third that comes to the front, or ends, or goes, before or after any of them is read. A poll of two rows
is answered in full, one of three asks for more than it may (`PollMax` over `ServiceMax`, as in
the code). In `Console`, a request begins
with any of the contents saved and any applied, so its pod may follow, and be given another by a
save, while it runs; one more change (an edit, a save, a logout, an outage, a dump, a restart) comes
in between, and the checks meet two. Its scheduled checks write only the
results of tests, which no request reads, and no request of one client reads what that of another
writes; so `MCConsole` checks them as scenes of one run (`scene`: the requests of one client, or
the checks), each interleaved with everything around it, and not with each other. Each property was
also run against a broken variant of the code (`mutants` in `PROJECT.json`) and found violated.

Deadlock is checked except where the system may stop: a tail at its bounds, a restore that is over,
a page without work to follow, and a console that nobody uses have nothing left to do
(`LogTail.cfg`, `ParallelRestore.cfg`, `ListPages_follow.cfg`, `Console.cfg`).

### Fairness

* Queues: the loops of a pod (`claimLoop`, the heartbeat, the reaper) run for ever, and the
  calls of a job return, as dumps and replays end or fail. That is weak fairness for each
  pod's claims, work, heartbeats, reaps and restarts (Kubernetes or compose restarts a pod), and
  for time. Nothing is assumed of callers, deletions and crashes. In `RestorationQueue` it is the
  loop as a whole that goes on (`Loop(w) \/ Claim(w)`), not the claim of a restoration: as long as
  executions are queued `claimLoop` never comes to it. So `QueuedIsServed` has the premise that
  from some time on no execution waits, which nothing in the code bounds.
* `LogTail`: strong fairness for a flush that wants the lock, as `sync.Mutex` in its starvation
  mode hands itself to the longest waiter; weak fairness for the flush that holds it.
* `ConfigFiles`, `BackupSchedule`: requests end (weak fairness), and the tickers of `Watch` and
  of the re-sync start over and over; edits are finitely many.
* `Discovery`: the calls of a run return, and time passes.
* `ListPages`: the server answers, a timer of htmx fires over and over, and jobs end. Nothing is
  assumed of scrolling and clicks.
* `Registry`: the checks start every ten minutes and each of them ends; edits and outages are
  finitely many. Nothing is assumed of requests.
* Parallel dump and restore: goroutines run, `pg_dump` and `psql` end for better or worse, and a
  read of the upload gets data while there is some.

## Proofs

`ExecutionQueueProofs` proves for all sets of backups, executions, pods, callers and cleaners,
all faults and any number of crashes, from `ConstantsOK` and `AllRoleAlone`:

* `TypeCorrect`, `OneActive`, `OneRunner` by the inductive invariant `QueueInv`. The property
  that two slots do not hold one execution is not inductive by itself: it needs that a claimed
  row has left the queue (`ClaimedLeftQueue`), that a slot has a job exactly while it is busy
  (`SlotShape`), that an active row is not soft-deleted (`ActiveNotDeleted`: without it a row
  could leave the unique index while it is active), and the shape of deletions.
* `Settles`: a lemma (`StatusStep`) lists the moves one step can make with a status; none leads
  from a settled one back.
* `OneDump`, `ReaperSparesTheLiving`, where no heartbeat is lost (`"beat" \notin Faults`), by
  `DumpInv`: the row of a busy worker is running, and its heartbeat is as fresh as the ticker
  allows (`FreshBeat`), hence below `StaleAfter`.
* `SuccessIsStored` by `StoreInv`, with every fault allowed: a worker writes the path last
  (`PathIsLast`), a deletion that saw a path is recorded (`DeletesRecorded`), and a worker about to
  report success has its dump complete (`UploadedBeforeSuccess`).
* `NoDumpIsOrphaned`, as long as no pod crashes, nothing is lost and no backup is deleted, by
  `CalmInv`: a worker stores nothing before its upload and after a failed one (`NothingYet`), a
  deletion marks a row only when its file is gone (`FileIsGone`), and `DumpInv` keeps the reaper
  from taking the row of a living worker. A calm state has calm predecessors (`CalmBefore`).
* `ImplementsJobSlots`: every step, seen through `SlotOf` and `Born`, takes one free slot
  (`TakeStep`), or frees some (`LeaveStep`).
* `ReaperSeesAll` and `AbandonedIsReaped`, the part of `JobsSettle` that needs no fairness. The first is an
  invariant: a running row carries a heartbeat and is not soft-deleted, so `ReapStaleExecutions` selects it once
  it is stale, and it is never more than one interval past that moment. The second is about steps: a running row
  that no worker has is taken up by none and its heartbeat never gets younger, so that each interval
  brings it nearer to the reaper. Both follow from `BeatStep`, which lists how a step can move heartbeats and jobs.

`RestorationQueueProofs` proves for all sets of targets, restorations, executions, pods and
callers, from the same two assumptions on the constants:

* `TypeCorrect`, `OneActive`, `Settles` and `ImplementsJobSlots` along the same lines, with every
  fault, purge and deletion allowed. Its `QueueInv` needs one more part: the id a request is
  about to insert is its own and has no row yet (`AskShape`).
* `OneRestorer`, where no heartbeat is lost and no execution's row is removed (`Cascading = {}`; run
  *cascade* shows that the second hypothesis is needed), by `GuardInv`: the row of a busy
  worker is running and its heartbeat fresh, so the unique index guards its target. Dumps may be
  erased and executions soft-deleted at any moment.
* `SuccessIsRestored` under the same hypotheses, by `TargetInv`: what a worker relies on of its
  target at each step (empty of other restorations after the drop, complete after the
  replay, owned at the end) is left alone by the others, because they work on other targets
  (`OthersKeep`).
* `RestoredIsKept` under the same hypotheses: what a success says of its target stays true until the
  next restore of it is claimed. `KeepInv` adds that an active restoration was inserted after every
  other one of its target (`ActiveIsLast`); only a running restore changes what a target holds
  (`DataStep`), so the change is the next restore's, and that one stays the next (`SupersededStays`).
* `ReaperSeesAll` and `AbandonedIsReaped`, as for executions and with every fault: the row of a worker that is
  gone keeps others from its target, but comes nearer to the reaper with every interval (`QueuedIsServed`).

`ProgressProofs` is about what a user sees of work under way. It proves of `ListPages`, for any set of
jobs, every page size and limit, any list the page is opened on, and any number of deletions and failures, from
`ListPagesConstants`:

* `NothingSkipped` (that is `NoGap`) and `PageTypes`, by `PagesInv`: no job is in the list twice, and but for
  the jobs that came to the front since, what is shown is the list down to some row (`Before`,
  `DownTo`) and the next request begins no lower (`PageInv`, `ScrollInv`). Each move to the front keeps this
  (`Moved`), of what is shown and of what requests hold (`Found`); a statement of a request adds
  the rows of its page (`ReadFinds`, on `ListedIs` and `RowsAre`, which say what `LIMIT` and `OFFSET` and the
  reading of the rows yield); an answer shows what its request has found. In
  a request of the Jobs list, the rows may be read later than the ids, in which time rows go
  (`There`), and a poll takes whole pages, so that the page after it is where it ends (`AnswerListKeeps`).

and of `LogTail`, for any number of callers, lines and flushes, from `TailConstants`:

* `TailTypes`, `TailNeverOlder` and `FlushIsDurable`, by `TailInv`: flush numbers order the copies
  (`Numbering`), and the row holds the copy of the last flush carried out or an older one (`Row`).

`DiscoveryProofs` proves for all sets of processes, runs, clusters and databases, every window of
more than one tick, all faults and any number of crashes and deletions, from `DiscoveryConstants`:

* `FlagIsAlive`: the flag is set only together with a run that becomes live in its process, and
  every way out of that run clears it.
* `RunsAreAlone`, by `Fresh`: the events of a scanning run that has lost none are at most one tick
  old, so `HasActiveRun` sees it; a run that is let in has just asked.
* `BackupsAreSingle`, by `Alone`: runs that have not met are under way one at a time, and one
  about to insert a backup has seen that there is none, which only it can change.

`ConfigFilesProofs` proves for all sets of pods, savers and contents, from `ConfigAssumption`:

* `NothingUnsaved`: what a handler or `Watch` holds for `apply` is in the row (`HeldIsSaved`), a pod that
  seeds the row works with the file it writes (`SeedsFile`), and contents never leave the history of the row.
* `BackupBeforeUpdate`: the old content a handler holds at its update is in a backup (`OldIsKept`),
  and no prune takes it away, by the lemma `NothingPruned`: see below.

`BackupScheduleProofs` proves `ResyncIsExact` for all pods, backups and schedules, from
`ScheduleAssumption`, by `DoneIsExact`: a re-sync that nothing touched has read the present table, and
what it is done with has its job; `SyncShape` and `EditShape` say what a re-sync or an edit under way can hold.

`ParallelRestoreProofs` proves for every database within `MaxTables`, number of processes, capacity of
the channels and sequence of failures, from `DumpAssumption`:

* `TablesOnce`: every table is in one job of the plan, and no batch is over its limits. The plan is
  built by recursive functions (`Placed`, `Sum`). Induction over naturals is out of the prover's reach;
  `UpTo` has it for the sets `0..n`, which strict inclusion orders well, and `Recursion` derives
  from it that a recursive function exists. `PlaceCovers` is the step: what the jobs and the open batches
  hold together are the tables seen so far.
* `ProcessesEndFirst`: processes run only while the producer is at the data (`ProcessesAtData`).
* `UploadedIsComplete`, by `GoodInv`: while nothing has failed, entries are created in the order of
  the jobs (`InOrder`), each process has one to itself (`OwnEntry`), the first worker leaves only
  when no job is left (`FirstLeaves`), and the archive holds what the producer's section says
  (`Filled`). A failure anywhere ends the upload with an error, so an upload that ended without
  one is whole (`Uploaded`).
* `RestoresAll`, by `RestoreInv`: without an error, the files taken so far are a part of the archive's list,
  in its order, and each of them is restored or with one session (`InProgress`); the first session ends
  when none is left. With `UploadedIsComplete`, the list has every entry of the plan.
* `DumpTypes` and `NeverStuck`, by `AnyTime`, which unlike `GoodInv` holds after failures too: an entry that
  has not ended is in the hands of one worker (`Held`), entries are created in the order of the jobs
  (`Turns`), and the upload has ended before the job returns (`Control`). The hard part is the
  producer, which copies one entry at a time while processes wait for room in the channel of theirs:
  `NoWaitingInACircle` shows that the entry it waits for is one whose process has room.
* `GoesForward` and `RestoreGoesForward`: no step of a dump or of a restore undoes anything (a stage, an entry, a
  chunk, a file, a process that has left), and each does something. What can be done is bounded by
  the types, so that a dump or a restore cannot go round for ever. With `NeverStuck` this is
  what `DumpsEnd` and `RestoreEnds` rest on, for any number of processes; fairness is left to the runs.

`ConsoleProofs` proves for all clients, pods, presets, rows, dumps and contents of the configuration,
from `ConsoleAssumption`:

* `ConsoleTypes`: whatever a form or a request carries is of its type at each stage; the forms keep
  names that presets had when they were shown.
* `StartsAsAllowed`: the present world of its pod is among the `worlds` of a request (`UpToDate`), through every
  change around it, and a world is never forgotten. Each step of a request reads or checks in the present
  world; so what it holds at each stage is a fact of one of its worlds (`Kept`, with a part each for what
  was asked for, checked, found and written), and nothing around the request can take that back.
* `AuditTells`: a job and its line are written from what `Kept` says the request holds, by one request each.

With these, every invariant and every action property that a run checks is a theorem. Only model-checked are
the properties of liveness and those that rest on fairness, and `Access`
and `Registry` apart from what the theorems of `Console` say of them. Fairness is about
`ENABLED`, which the prover does not do; of four of these properties the theorems above have the part without it: what is
blocked, lost or undone by no step (`JobsSettle`, `QueuedIsServed`, `DumpsEnd`, `RestoreEnds`), and that a
guard of some step holds (`SomebodyCan`, which names the guards, since it cannot say `ENABLED`).

## Where the code and its documentation differ

*cascade.* The migration that adds the unique index of restorations says it "Guarantees at most one
running restoration per target database at the database level". Removing an execution, by
deleting its backup or in the purge, removes the rows of its restorations, the running ones too;
their workers go on, and the index admits the next restore of the target.

Seen while modelling, without a run of their own:

* The changelog says "restore preset targets can carry a tag" (`CHANGELOG.md:15`). The presets
  are decoded into a type without that field (`presets_load.go:22`), so every restoration is stored
  with the tag `default`.
* The README says of the role `web`: "no cron or dumps" (`README.md:124`). The scheduler is
  started in every role, and a web pod that handles a backup's form adds the job to its own
  (`create_backup.go:27`); it never re-syncs, so it also keeps a job that another pod has disabled.
* A worker whose heartbeats fail for five minutes is reaped although it lives, and a
  second dump of the backup may start; the README says the reaper only catches dead ones. The
  properties that depend on it are checked and proved for heartbeats that arrive.
* `S3Upload` fails when it cannot read the size of what it has just stored, and drops the error of the
  deletion that follows: the execution is reported failed, and its object may stay (`SizeUnread`). The row
  has the path by then, so retention and deletion still reach it (`NoDumpIsOrphaned`).
* `pruneBackups` iterates over a listing that its own `LIMIT 10` has cut, so nothing is ever
  deleted ("Keep the 10 newest"); `Prune` has the code's behaviour.
* Two loads of the configuration that overlap in one pod may leave it with the older content,
  marked as the newer (`raced` in `PodsConverge`); the comment in `configfiles` excludes it.
* Two discovery runs that have not logged their first event yet do not see each other: both may
  scan, create the backup of one database twice (`dest_dir` has no unique index), and the end of
  either clears the flag of the other. `AdmittedAlone` and `OneBackupEach` say what does hold.
* The Jobs list asks for its rows and then whether anything is active. A job that ends in between
  leaves its card at "running" and the polling stopped (`list_executions.go:103-116`; `raced`).
* A poll asks for all cards that are shown, up to 400 (300 runs), but the services return 100
  at most: from the 101st card on, rows vanish from the page, and scrolling skips some (`shifted`).
* A list opened while nothing is active never polls, and the list of discovery runs asks only
  the pod that answers for its flag (`list_runs.go:60`); the changelog has both lists refresh by
  themselves (`CHANGELOG.md:20`). The dialog of a queued execution never refreshes (`README.md:148`,
  `CHANGELOG.md:21`), jobs that appear while a list polls have no dialog, and the dialog of a run's
  log polls for ever.
* A request of the sentinel that fails is not sent again: the cards below it do not come.
* A claim sets `started_at`, so a job moves in the list when it starts. The filter by name uses
  the database's name for executions, and the backup's for restorations.
* The wizard keeps the preset's and the environment's names in hidden fields; when the presets are
  reloaded between two pages, the same names may mean another target than was shown.
  `StartedAsAllowed` promises a target of the presets in force during the last request only.
* The edit form of a backup sends every field as it was when the form was opened: a stale form
  switches a backup on again, or moves it back to an old schedule (`UpdateBackup` allows any row).
* The OIDC provider is set up once per pod (`sync.Once`); if that fails, every login through it
  fails on this pod until it restarts.
* An audit line is written with the request's context and its error is dropped: a client that
  leaves after the job is queued leaves no line. A request is judged by the presets its pod had when
  it came in; only whether it may restore anything, and the definition of the preset, are read anew.
* A row that no pod checks (its tag is served by no worker) keeps the result of its last test.
* The purge of restorations takes queued rows as well as finished ones.
* After a failed upload nothing reads or closes the pipe of a parallel dump: its producer
  goroutine and the snapshot's connection stay; the processes and the transaction end with the
  job's context (`DumpsEnd`).
* The re-sync replaces every job in the minute in which many are due; a tick that falls between
  is lost. Two pods may run one tick one after the other when the first run is short.

## Not modelled, and the plan

Done, in this order: `ExecutionQueue` with `JobSlots`, `RestorationQueue`, `LogTail`,
`ConfigFiles`, `ParallelDump` and `ParallelRestore`, `BackupSchedule`, `Discovery`, `ListPages`, `Access`
with `Registry` and `Console`; proofs about all of them.

Next, most important first:

1. `Retention`: time in days, `soft_delete_expired_executions.sql` with its monthly keepers as an
   operator, and housekeeping as a step: what is kept for how long.
2. A second manager in `Registry`: with one, an `INSERT` refused for a taken name and an `UPDATE` of
   a row that has gone are in the model but not in the run.

Left out for good, with the reasons in `components` of `PROJECT.json`: the first user, profiles, OIDC exchanges and hashing
(edits of one row, or external: an exchange that succeeds is `LoginWithOidc`); the rate limiter (counters behind one mutex); summary, about and
log pages, pagination of tables other than the two lists, and everything that only renders;
changes of the name or the tag of a registered database; listing and purging audit lines; the S3
and PostgreSQL clients and the text of connection strings and dumps (I/O and formatting); the
version check; configuration parsing, logging, validation, static tables and the maintenance
commands. Single-file archives are restored by one `psql`, which has no order to get wrong.
