# BitProtector in TLA+

BitProtector (Rust, `src/src/`) keeps the files a user tracks on a pair of
drives the same: it copies them from the active drive to the standby drive, hashes them,
repairs a damaged copy from the good one, and replaces a drive while the files stay in
use. This directory holds TLA+ models of the parts of it where order matters, the TLC
configurations that check them on small instances, and theorems about them that TLAPS
checks for every instance.

Contents: [The system](#the-system) - [Modules](#modules) - [Runs](#runs) -
[Fairness](#fairness) - [Proofs](#proofs) - [What the code does not keep](#what-the-code-does-not-keep) -
[What is abstracted](#what-is-abstracted) - [Not modelled](#not-modelled) - [Plan](#plan).

Run `tlc -config DrainSafety.cfg MCQueueDrain`, or any other pair of the table
under Runs, in this directory, and `tlapm QueueDrainProofs.tla` and so on for the proofs.

## The system

One service process serves the REST API, runs the scheduler's threads, and drains the
sync queue; the command line runs the same core functions in processes of its own. All
share one SQLite database and the file systems under the mount points. There is no lock
but what the database rows express.

| Part (source) | State it keeps | Operations | Correct when | Hard because |
|---|---|---|---|---|
| Queue drain and processing lock (`core/sync_queue.rs`, `db/repository.rs`) | `sync_settings`: lock timestamp and pid, pause flag; `sync_queue` statuses; per call: page, one thread per pair, deadline | acquire, requeue, heartbeat, pass, release, pause, resume | one drain at a time over all processes; never two transfers on a pair; rows left behind are taken up; a drain ends | processes are killed; the lock goes stale by age or by its dead pid; pages, pauses and deadlines cut a drain anywhere |
| Queue rows and `process_item` | `sync_queue` rows: file, action, status | dedup insertion, start, settle, fail a pair's rows, resolve, clear | a row stands for work still to do; settling it is justified by what is on disk | the row, the file and the pair are read once, before a copy of any length |
| Drive pair lifecycle (`core/drive.rs`, routes and commands `drives`) | `drive_pairs`: state and path per slot, active role; root markers on the drives | create, update, delete, mark, cancel, confirm, emergency failover, assign, finalize | slots follow *active, quiescing, failed, rebuilding, active*; a finished rebuild is complete; no version is lost | handlers, scheduler and worker change a pair concurrently; drives disappear; the finalizer infers completeness from the queue |
| Copies (`core/mirror.rs`, `core/checksum.rs`) | files of both drives | mirror, restore either side | the target is the source, or is recognizably not | the target is truncated first, the source may change while it is read |
| Change detection (`core/change_detection.rs`, `tracker::scan_tracked_folder`) | `tracked_files.checksum`, `is_mirrored` | scan, record | every edit leads to a transfer | an edit and damage look the same; a row may be in transfer already |
| Integrity checks and runs (`core/integrity.rs`, `core/integrity_runs.rs`) | `integrity_runs`, `integrity_run_results`, `last_integrity_check_at` | start, stop, clean up, process pages, check, recover, check one file | one active run; an end is final; every file is covered; recovery loses nothing | the list is re-sorted while it is paged through; service and CLI do not know of each other; files change meanwhile |
| Tracking of files and folders (`core/tracker.rs`, routes and commands `files`, `folders`) | `tracked_files`, `tracked_folders` with the flags scanning, mirroring, deleting; provenance | track, scan, mirror, delete | operations on a folder exclude each other; nothing half deleted | threads outlive their requests; commands look at no flag; the folder mirror copies without the processing lock |
| Virtual paths (`core/virtual_path.rs`, routes and commands) | rows' `virtual_path`, symlinks | set, remove, refresh, list | a path has one owner, links lead to the active drive | link and row are two writes; refresh runs on failover, with a map of one pair |
| Database backup (`db/backup.rs`, route and command `database`) | `db_backup_config`, backup files | back up, check, repair, configure | the rows tell the truth of the copies; a broken copy is repaired from a good one | copies and rows are separate writes; runs are killed; copies change between inspection and repair |
| Database restore (`db/backup.rs`, `create_file_pool`, `db/schema.rs`) | pending file, safety copies, main file and write-ahead log | stage, apply, migrate | applied whole, with nothing lost | every process that opens the database applies it, in steps |
| Scheduler (`core/scheduler.rs`, route and command `scheduler`) | one thread and stop flag per schedule and backup task | reload, run, record, stop | threads are those the rows ask for | stopped threads are not joined; commands write rows without a reload |
| Sync event bus (`SyncEventBus`, `routes/sync.rs`) | a revision counter, a flag, streams | snapshot, publish, stream | a page ends at the newest state | the revision is drawn after the tables are read; streams lag |

The remaining parts are listed under [Not modelled](#not-modelled). PROJECT.json lists every part with its status
and, under `hazards`, the places in the code where an order nobody tested could hurt, with
the properties that would catch it.

How the parts interact:

- Scans, integrity runs, requests and `assign_replacement_drive` insert rows; the drain
  consumes them, and `process_item` calls the copies and, after a rebuild row, the
  lifecycle's finalizer.
- Whoever loads a pair (`load_operational_pair`) may fail it over first; whoever switches its
  active role refreshes the virtual paths.
- A failover or a confirmed failure fails the pair's pending rows under the drain's feet.
- A recovering integrity run, and the check of one file, write files and complete queue rows without the
  processing lock.
- The scheduler's threads start drains, integrity runs, backups and backup checks; requests
  and commands start the same.
- Handlers, drains and scans publish what they have written on the event bus; commands cannot.
- At startup a pending restore is applied, the schema migrated, virtual paths refreshed, runs and folder flags
  cleaned up, and the scheduler loaded (`api/server.rs:335-389`).

## Modules

| Module | Models |
|---|---|
| `WorkQueue` | Abstract: what the queue promises its callers, without locks, passes or processes. |
| `QueueDrain`, `MCQueueDrain` | `process_all_pending` in several processes: the lock, requeue, passes, pair threads. |
| `DriveLifecycle` | Abstract: the states of the two slots and the active role. |
| `Replacement`, `MCReplacement` | One pair: handlers, command and finalizer of `drive.rs`, `process_item` with its copies, one file's change detection, users, lost drives, crashes. |
| `IntegrityRuns`, `MCIntegrityRuns` | The integrity run table, its callers and `process_run`, checks of one file, next to edits, scans, transfers, damage, untracking. |
| `FolderExclusion` | Abstract: one operation at a time on a folder. |
| `FolderOps`, `MCFolderOps` | Tracking of files and folders: the requests, the commands, the scan, mirror and delete threads, next to the queue worker, users and kills. |
| `VirtualPaths`, `MCVirtualPaths` | Rows and links of virtual paths, the requests on them, refreshes, and the administration of drive pairs. |
| `DatabaseBackup`, `MCDatabaseBackup` | Backup runs, check runs and their repairs, and the configuration rows. |
| `DatabaseRestore`, `MCDatabaseRestore` | Staging and applying a restore, in a service and a command, with the write-ahead log and the migrations. |
| `Scheduler`, `MCScheduler` | Rows, reloads and threads of the scheduler. |
| `SyncEvents`, `MCSyncEvents` | Snapshots, revisions and streams of the event bus. |
| `QueueDrainProofs`, `ReplacementProofs`, `IntegrityRunsProofs`, `FolderOpsProofs`, `VirtualPathsProofs`, `DatabaseProofs`, `SchedulerProofs`, `SyncEventsProofs` | Theorems. |

How they fit: `QueueDrain` shows that a pair has one transferring thread at a time and has each
transfer as one step from `StartRow` to `FinishRow`. `Replacement` takes one pair and one
such thread and opens that step up into what `process_item` reads and writes.
`IntegrityRuns` has a transfer as one step again (`MirrorFile`), because its subject is
the long life of a run. `VirtualPaths` has a switch of the active role as one step (`Switch`),
followed by the refresh that `Replacement` leaves out. `Scheduler` has a task as the step
from `Begin` to `Finish`; the tasks are `QueueDrain`, `IntegrityRuns` and `DatabaseBackup`. `DatabaseRestore` has
a backup as one step.

### QueueDrain

`locked`, `lockedBy` are the columns of `sync_settings`; `lockAge` is the age of the
timestamp, saturating where it becomes stale, and `since[r]` the time since runner `r`
wrote it. A runner is a call of `process_all_pending`; `pc[r]` follows the function:
`ReadHolder` and `Claim`/`GiveUp` are the SELECT and the guarded UPDATE of
`try_acquire_sync_processing_lock`, `Requeue` the reset of rows left in progress,
`StopAtTop`/`BeginPass` the top of the loop with its heartbeat and the ranked page,
`Thread` a pair's thread over its part of the page, `EndPass` the join and the
`all_skipped` check, `Release` the guard's destructor. `Kill` and `Restart` act on a
process with all its runners; a restarted process may have the old pid. `Tick` lets time
pass and is blocked when a drainer's pass would get longer than `MaxPass`: the bound
on a pass is a constant, so its relation to `StaleAfter` can be varied.

A thread takes a row in two steps, as `process_item` does. `LoadPair` loads the row's pair,
and the row is then in its `hand`: when the pair's active drive is gone the load fails it over,
and with it fail all its pending rows, the one in hand and the rest of the batch included.
`StartRow` writes in_progress over whatever the row's status is by then. So a row may go from
failed to in_progress, and a batch is worked off although its rows have failed. A pair fails over
once until a rebuild, which ends with a row that completes (`FinishRow`), has cleared `degraded`.

`QueueSpec` is `WorkQueue!Spec` with the rows in transfer as `busy` and those of a page, the ones
in hand included, as `fetched`: rows are fetched and requeued only when nobody is at work, one
transfer per pair, a failover only between two transfers of its pair, completed rows stay
completed, and a failed row is taken up again only by who had fetched it before.

### Replacement

A file's content is the number of the version a user wrote, `Missing`, or `Torn`
(truncated, half copied, mixed). `slot`, `active`, `path` are the pair's row, `avail` and
`marker` what `path_is_available` and the root marker say of a mount point, `sum` and
`mirrored` the file's row, `queue` the table; a completed row counts as absent, since
nothing reads it. `wpc`, `batch`, `item`, `snap`, `begun` are the worker's local state:
`Load` reads file and pair, `MarkInProgress` writes the status without reading it,
`BeginCopy` truncates the target, `EndCopy` compares and keeps or removes it,
`SettleCompleted`, `SettleFailed`, `FinalizeRebuild` are the writes after the copy.
`AssignReplacement` writes the pair's row, and `QueueRebuild` inserts one rebuild row
after the other. The handlers are reached by requests (`MarkRequest` and so on) and by the
`drives replace` command (`ReplaceCommand`), which do the same. `kept` is a history variable: the newest version of each file that no
lost and no replaced drive took with it.

### IntegrityRuns

`runs`, `results`, `order` are the tables: `order` is, for each pair, `tracked_files` sorted by
`last_integrity_check_at`. `Ask` and `Insert` are the two halves of `start_run_async` and
`run_sync`, `RequestStop` and `StartService` the stop request and the start of the
service with its clean-up. `thread[r]` is where `process_run` is: `StopAtPage` and
`ListPage` at the top of a page, `CheckFile` one of the parallel checks, `SettleFile`
and `FailRun` the sequential loop over the results with recovery, `Decide` and `Finish`
the last look at the stop flag and the write of the end. `CheckRequest` and `CheckCommand`
check one file (`LookAt`), and may repair it: `RepairOne` takes its verdict, which
`SettleOne` acts on in a later step, next to whatever a run does with the same
file. A check that repairs nothing writes its time and is one step. `Changing` names the files that
users, damage and repairs of one file touch, a bound on the instance.

### FolderOps

`tracked`, `direct`, `via`, `mirrored` are the rows of `tracked_files` and three of their columns,
`folders` and `flags` the table `tracked_folders`, `rows` the queue by file and action. `op[t]` is
what a request, a command or a spawned thread does: its kind, the place it has reached, the folder it
holds, the files it has still to visit and the file in its hand. `StartScan`, `StartMirror`,
`StartDelete` are the guarded UPDATEs; `ScanNew`, `ScanChanged`, `Queue` one file of
`scan_tracked_folder`, whose row is written after the file's; `MirrorFile`,
`FileMirrored`, `CompleteRows`, `FileFailed` one file of the folder mirror; `ListOrigins` and
`CommitDelete` the two phases of `untrack_folder_cascade`; `Clear`, `Cover`, `Settle` the three
statements of `recompute_folder_provenance_for_drive`, which adding, scanning and deleting a
folder end with. `RequeueAndFetch`, `TakeRow`, `RowCompleted`, `MarkMirrored` and `RowFailed` are
the worker on the same rows. `FolderCommand`, `CopyCommand`, `UntrackCommand` are the commands, which run
the same operations in another process and neither read nor set a flag; a kill of the service leaves them
at work, and they can be killed themselves. Whoever has a file by its id loses it when the file is untracked
(`Gone`), for ids are not used again. `asked` is a history variable: the files the user
tracked and did not untrack.

### VirtualPaths

`row` is the column `virtual_path` of each tracked file and folder, `entry` what is at each path of the
file system, `pair` the table of pairs, `op[r]` a request at work. Setting a path is `SetPath` (the
reservations), `Look` (the file system), `Create` or `CreateOver` and `Relink` (the link), `Write` (the row), and
`Unhook` (the link of the path that was given up); `WriteFails` and `Rollback` are the error path.
`RemovePath`, `DeleteFile` with `Drop`, `Untrack` with `Cascade` give paths up; `Track` with `Reserve` and `Queue`
tracks with a path and takes the row back when something fails. `Refresh`, `Switch` and `Start` collect
mappings (`Collect`, which one unmapped pair ends) and treat one after the other (`RefreshOne`).
A path is a sequence of names; `Put` keeps what is seen through a folder's link in step with the link.
`TreeNodes` is what the listing of a directory of virtual paths shows.

### DatabaseBackup and DatabaseRestore

A copy of the database is the version it holds, or `Missing`, or `Corrupt`. A backup run takes one
snapshot and writes it to every destination (`WriteCopy`, `RecordCopy`); a check run inspects all copies (`Inspect`), then
settles each (`SettleHealthy`, `SettleBroken`), marking a broken one before its repair (`MarkBroken`, `Repair`,
`ReportRepair`). Every row write may be lost (`Lost`), every run killed. `fromPeer` and `unreported` are history variables.

In `DatabaseRestore` the database is `main` and `log`, with a generation, so that a process keeps the
file it has opened; `staged` is the pending restore, `safe` what safety copies hold: those of earlier seconds (`kept`), and the one of this
second (`last`), which the next `SafetyCopy` writes over, for their names are the time in seconds. `SecondPasses` ends the second. `Open`, `Verified`, `Keep`, `Clear`, `Swap` are
`apply_pending_restore`, `CreateTables`, `AddColumns`, `RebuildQueue` the migrations, `Stage`, `KeepLive`, `CopyBegins`,
`CopyEnds` `stage_restore`.

### Scheduler

`config` are the rows, `slot` the scheduler's two maps of threads, `thread` all threads, also those that
were told to stop and have not noticed. `ReloadReads`, `Apply` and `ReloadBackups` are a reload under its mutex;
`ReloadFails` and `BackupsUnread` its errors. `Due`, `Quit`, `Begin`, `Finish`, `Record` are a thread's loop. A plan is
when a schedule is due and for how long (`max_duration_seconds`). When the end of a run is out of the range of an
`Instant` (plans in `Overlong`: a duration below zero, which requests store, or near 2^63), the thread panics instead of
beginning the run (`Panic`, `scheduler.rs:212-213`) and is at `panicked` until its place in the map is cleared: `Apply`
takes it for a thread like any other. Requests reload, commands do not. `behind` tells which table has been written since a reload last read it.

### SyncEvents

A table is the number of its writes. `ReadQueue`, `ReadRest`, `Number`, `Send` are a snapshot and its
publication; `Open`, `Show`, `Receive`, `Close` a page's stream, whose `inbox` loses the oldest summary when it lags;
`Process`, `Work`, `End` the worker of `POST /sync/process` with its flag. `owed` is what somebody publishes or has published;
`ahead` keeps, for each snapshot, those that began to read before it, and so the order of numbers and of sending.

### Freedoms

Eight modules have a constant `Allowed` (`RestoreAllowed` in DatabaseRestore): what the environment also does.
With `Allowed = {}` the properties hold; each freedom is something the program permits
and at least one property does not survive. So the assumption under which the code is
right is explicit, and each can be lifted by itself: putting its name into `Allowed` of the
config gives the trace.

| Module | Freedom | What it permits | What fails with it |
|---|---|---|---|
| Replacement | `edit degraded` | users edit while a slot is not active | NoVersionLost, MirroredIsCurrent |
| | `interleave` | a request between any two steps of the worker or of an assignment | RebuildPaid, NoVersionLost |
| | `scan during copy` | a scan finds a change of a file that is being copied | MirroredIsCurrent (run `mirror_race`, with MaxVersion = 3) |
| | `give up both` | both slots are given up in turn | NoVersionLost, RebuildPaid, with a crash: the rebuild then reads a half-written drive and truncates the last good copy |
| IntegrityRuns | `racing starts` | two callers look for an active run at once | OneActiveRun |
| | `restart beside a run` | the service starts while the CLI has a run | OneActiveRun, EndStands |
| | `change under recovery` | files change while a recovering run or check works | NoVersionLost, BehindIsQueued |
| | `recover before scan` | a recovery starts with an edit no scan has seen | NoVersionLost, BehindIsQueued |
| | `scan damage` | a scan takes damage for an edit | NoVersionLost |
| | `damage before transfer` | the active copy is damaged while its transfer is pending; `mirror_file` (`mirror.rs:49-84`) copies what it finds over the good version | NoVersionLost (with MaxVersion = 3) |
| FolderOps | `overlapping recomputes` | two recomputations of sources at once, or a deletion that lists its files within one | DirectWasAsked: files of a folder become directly tracked ones |
| | `deletes together` | two nested folders are deleted at once | DirectWasAsked: each deletion leaves the files the other folder covers |
| | `track during delete` | a user tracks a file after the deletion of its folder has listed it | ExplicitStaysTracked: the file is deleted |
| | `crash between writes` | a kill between a file's row and its queue row, between a completed row and `is_mirrored`, or within a recomputation | UnmirroredIsQueued, DirectWasAsked |
| | `change during completion` | a scan finds a change between a folder mirror's `is_mirrored` and its completion of the rows | UnmirroredIsQueued: the change's row is the one that is completed |
| | `command beside operation` | a command works on a folder while another operation does (`cli/commands/folders.rs:113-176` looks at no flag) | ExclusionSpec |
| VirtualPaths | `same owner` | two requests about one file, or a file and its folder | LinksApart: a link without a row |
| | `nested` | two requests for paths one above the other, at the same time | LinksApart |
| | `set again` | an owner sets its path again while another request asks for it | ListedResolves |
| | `below own` | a folder is moved below its own path: `collect_virtual_reservations` passes over the owner (`virtual_path.rs:252`) | LinksApart, LinkAtPath |
| | `refresh beside` | links are refreshed beside requests | ListedResolves |
| | `two pairs` | a pair is switched while another pair has virtual paths (`drive.rs:209-212`) | ListedResolves |
| | `below orphan` | a path is asked for below a link that has no row | LinksApart |
| | `edit mapped` | the drives of a pair with virtual paths are edited | ListedResolves |
| DatabaseBackup | `two backups` | two backup runs at once: the slower one puts back an older snapshot | RowsTellTruth (with two members in Backers) |
| | `two checks` | two checks at once | RowsTellTruth (with two members in Checkers): one takes back the marker under the other's repair |
| | `move` | a configuration gets another directory when a backup was made | RowsTellTruth: the row keeps the date of the copy in the old one (with MaxEvents = 2) |
| DatabaseRestore | `command beside service` | a process opens the database, and applies a restore, while the other has it open | CommitsKept: what the service commits to the replaced file is lost |
| | `uncheckpointed` | a process ends with commits in the log only, while a restore is pending | CommitsKept: the safety copy has no log, and the log is removed |
| | `stage during apply` | a restore is staged while another one is applied | TornIsNotApplied |
| | `same second` | a safety copy is written over one that was made in the same second, of a file that has been replaced since (`backup.rs:508-514`, `562`, `588`): `database restore` of the CLI while a restore is pending applies it, then stages its own | CommitsKept: the commits that the first restore replaced were in that copy only |
| Scheduler | `plan changed` | an enabled schedule's plan is changed: its thread keeps the old one (`scheduler.rs:152`) | ThreadsFollowRows |
| | `negative interval` | an interval below zero (`scheduler.rs:195`) | JobsFollowRows (with such a plan in Negative): its sleep does not end |
| SyncEvents | `overtaken` | a snapshot overtakes another one between its queries and its number (`sync_queue.rs:109`) | NeverBackwards, ShownIsCurrent |
| | `query fails` | a query of a snapshot fails and counts as zero (`sync_queue.rs:86-90`) | NeverBackwards, ShownIsCurrent |
| | `panic` | a drain panics, and `processing_active` stays set (`sync_queue.rs:391`) | ShownIsCurrent, and no request starts a worker again |

## Runs

| Run | Module, config | Checks | Instance and why it is enough |
|---|---|---|---|
| `drain_safety` | MCQueueDrain, DrainSafety | SingleDrainer, LiveTransferInProgress, DrainerHoldsLock, QueueSpec | two processes, two pairs, three rows, a page of two, one kill, one runner with a deadline, window 3, passes up to 2: a dead holder's takeover, a stale takeover of a reused pid, a page that leaves a row behind, parallel pair threads, a failover with a row in hand and another one in the batch |
| `drain_liveness` | MCQueueDrain, DrainLiveness | LockRecovered, RowsTakenUp, DrainEndsUnlessQuiescing | one pair with three rows, the first one waiting for a user, a page of two, one kill, window 2, passes up to 1: a row behind the first page, and a failover that fails it |
| `replacement_safety` | MCReplacement, ReplacementSafety | NoVersionLost, MirroredIsCurrent, RebuildPaid, LifecycleSpec | two files, one spare drive, one edit, one lost drive, one crash, three rows: a rebuild of two rows next to a third one, a loss during a rebuild or a copy, a crash between any two writes |
| `replacement_liveness` | MCReplacement, ReplacementLiveness | RebuildEnds | two files, one edit, five rows; no loss, no crash |
| `mirror_race` | MCReplacement, MirrorRace | MirroredIsCurrent is violated | one file, `scan during copy` |
| `integrity_runs` | MCIntegrityRuns, IntegrityRuns | OneActiveRun, NoVersionLost, BehindIsQueued, EndStands, RunsEnd, Coverage | two files on one pair and one on another, one file per page, one file that changes, one edit, one kill, checks of the changing file by request and command: a second page, a second pair, a second run, a run that takes over after a killed one, a single repair beside a run |
| `folder_ops` | MCFolderOps, FolderOps | FlagHasThread, DirectWasAsked, ExplicitStaysTracked, UnmirroredIsQueued, ExclusionSpec | a file in two nested folders, two threads for requests, operations and commands, one row per page, any number of edits, kills and restarts: an operation in each folder, or one and a request on the file, next to the worker. Files meet only in the lists of threads, so one file shows what befalls each; threads and folders are interchangeable (symmetry) |
| `virtual_paths` | MCVirtualPaths, VirtualPaths | LinksApart, ListedResolves, UserFilesStay, LinksRestored | a folder with a file in it on one pair, a file on another; three paths, one below another; two requests at a time and three in all, a switch, a kill, an edit of the pairs, a user's file: a kill or a request between any two steps of another one, a switch before or after, a path given up for one that somebody else gives up |
| `database_backup` | MCDatabaseBackup, DatabaseBackup | RowsTellTruth, HealthyStaysHealthy, RepairsEnd | two destinations, the second one may name the first one's directory, a backup run beside a check run, one commit, one event out of damage, failed write, lost status, kill and edit. Two events take TLC beyond five minutes |
| `database_restore` | MCDatabaseRestore, DatabaseRestore | FilesAgree, CommitsKept, TornIsNotApplied, RestoreEnds | two commits, two restores, two backups beside the one of an older schema, two kills: a restore of a restored database, and a kill within each of two applications |
| `scheduler` | MCScheduler, Scheduler | ThreadsFollowRows, NextRunIsPlanned, JobsFollowRows | one schedule and one backup task, three thread numbers, three edits, one kill: a schedule disabled and enabled again while its thread is at work, two reloads waiting, a row written between two reads of a reload, a schedule whose thread panics and that is disabled, corrected and enabled |
| `sync_events` | MCSyncEvents, SyncEvents | ShownIsCurrent, NeverBackwards, CatchesUp | a handler, two workers, one page whose stream keeps one summary, two writes, two drains: a second drain that starts before the first has published its end, a stream that lags at once |

What the properties say, where their names do not:

- *SingleDrainer*, *DrainerHoldsLock*: a claim succeeds only when nobody drains, and a
  heartbeat or a release touches the caller's own claim although neither looks at the owner.
- *LiveTransferInProgress*: nobody requeues or settles a row under the thread that
  copies it.
- *LockRecovered*, *RowsTakenUp*: a lock left by a killed process is taken over as long as some
  process lives, and a pending row is eventually taken up when it is not held back by
  a pause, a quiescing slot or a user's decision.
- *NoVersionLost* (in both modules): the newest version of a file survives on one
  of the drives unless the drive that held it was lost or replaced.
- *RebuildPaid*: a slot leaves rebuilding only when its drive holds every file at the
  kept version. A drive that was lost during the rebuild is excepted (a restore onto a
  lost mount point recreates it as a directory and completes).
- *MirroredIsCurrent*: a file marked mirrored, with no transfer to come and no change to be found,
  is the same on both drives.
- *BehindIsQueued*: a recovery that completes a file's mirror rows leaves no older
  version on the mirror.
- *EndStands*: a run that was reported as stopped, completed or failed is not written
  over. The row's id may be used for the next run; in the code ids are new.
- *Coverage*: once runs take all pairs and none is cut short or blocked, and no check of one file comes
  between again and again, every tracked file gets a result in one run after the other, although one run alone may skip it.
- *FlagHasThread*: while the service runs, a set flag has a thread at work on the folder, so
  that no folder refuses all operations.
- *DirectWasAsked*: no recomputation, scan or deletion turns a file that came with a folder
  into one the user tracked; such a file would survive its folder.
- *ExplicitStaysTracked*: the converse; a folder takes no file with it that the user tracked.
- *UnmirroredIsQueued*: a file that is not mirrored has a row (a failed one counts) or somebody
  about to write it. Nothing else brings it back: a scan queues only what it finds new or changed.
- *LinksApart*: no two items have one path or one below the other's, and no link is made below
  another link, which would put it on a drive. *ListedResolves*: every path that listings show leads to its item on
  the active drive, and every directory of the tree leads somewhere. *LinksRestored*: a link that a kill or a switch
  left stale is right again in the end.
- *RowsTellTruth*: a repair that no row reports yet has left its marker, and a healthy copy older
  than its row's `last_backup` was put there by a repair. *HealthyStaysHealthy*: no run replaces a good copy by
  a bad one. *RepairsEnd*: a broken copy is repaired while there is one to repair from, and the repair is reported in the end.
- *FilesAgree*: the log beside the database is its own, and nobody serves from a schema that was not migrated.
  *CommitsKept*: every commit is in the database or in a safety copy, also when one copy is written over another. *TornIsNotApplied*, *RestoreEnds*: what is left of a
  copy that was broken off is never applied; a whole restore is, and the service comes back.
- *ThreadsFollowRows*: after a reload the threads are those the rows ask for, by their
  plans, one each, and go on unless the duration of that very row made them panic. *NextRunIsPlanned*: the `next_run` shown is by the plan of that thread. *JobsFollowRows*: what stays
  enabled, with a duration that is not out of range, runs again and again; what stays disabled comes to rest.
- *ShownIsCurrent*: once nothing is on its way, a page has what every publisher has written, and shows a drain exactly
  if there is one. *NeverBackwards*: a page never returns to an earlier summary. *CatchesUp*: a page that is behind does not
  stay behind.

`CHECK_DEADLOCK FALSE` is set where the modelled world may stop: versions, losses,
crashes, requests and events are bounded and a pair with a failed rebuild row waits for its user. Every checked property of a
passing run is also checked to be violated by a plausible bug: the definitions called
mutants, next to what they mutate, with the list in PROJECT.json. Properties that a module states and no run checks are
those of [What the code does not keep](#what-the-code-does-not-keep). The type invariant of every
component is proved: DatabaseRestore's as a part of the invariant `RInv`, the others by a theorem of their own or, in Scheduler, with
*ThreadsAreThoseOfRows*.

The bounds are MaxKills, MaxPass, StaleAfter, PageSize (QueueDrain); MaxVersion,
MaxLosses, MaxCrashes, RowIds (Replacement); MaxVersion, MaxKills, Changing, RunIds (IntegrityRuns);
Threads, PerPage, Touched (FolderOps); MaxRequests, MaxSwitches, MaxKills, MaxEdits, MaxUserFiles, VPaths (VirtualPaths);
MaxId, MaxVersion, MaxEvents (DatabaseBackup); MaxCommits, MaxRestores, MaxBackups, MaxKills (DatabaseRestore);
Threads, MaxEdits, MaxKills (Scheduler); Capacity, MaxWrites, MaxDrains, MaxOpens (SyncEvents).
`RowIds` of Replacement has room for the rows of an assignment by
construction (`Room`): a request that would need more rows than there are waits.

## Fairness

- `QueueDrain`: weak fairness of each runner's steps and of each pair thread (the operating system runs the
  threads of a live process and drains are started again and again by the scheduler), and of `Tick`.
  Nothing is assumed of pauses, quiescing, kills or restarts.
- `Replacement`: weak fairness of the worker or the failover its first look does, and
  of the insertion loop of an assignment. Requests, edits, losses are not fair.
- `IntegrityRuns`: weak fairness of each run's thread, of the restart of a service that died
  (systemd, `packaging/bitprotector.service`, restarts it), and of somebody starting a run when none is
  active (the scheduler's loop). *RunsEnd* is claimed for runs of the service only: a
  killed CLI run stays active until the service restarts, which nothing ensures.
- `VirtualPaths`: weak fairness of a request that was taken and of the restart.
- `DatabaseBackup`: weak fairness of a run's steps and of the start of a check (the scheduler's thread
  starts one at every interval). Backups, edits and damage are not fair.
- `DatabaseRestore`: weak fairness of the service's start, of opening the database, of staging, of
  the end of a command, and of the passing of a second.
- `Scheduler`: weak fairness of each thread, of a reload that was asked for, and of the restart. Requests are not fair.
- `SyncEvents`: weak fairness of each snapshot, of the end of a drain, and of a page that reads its stream.

## Proofs

The theorems hold for every value of the constants that satisfies the module's assumption.

- **QueueDrainProofs.** Under the hypothesis `MaxPass < StaleAfter` (a pass is shorter than
  the staleness window): *OneDrainer*, *HolderKept*, *TransfersInProgress*, and
  *DrainImplementsQueue*, the refinement of `WorkQueue`; *TypeCorrect* needs no hypothesis.
  The invariant is `TypeOK /\ LockInv /\ RowInv`. SingleDrainer alone is not inductive:
  one has to know that a drainer's lock is exactly as old as its last heartbeat (`FreshLock`), so
  never stale, that drainers' processes live and that a holder once read as dead stays dead
  until the claim (`RunnersAlive`, `DeadHolderStaysDead`). From these, a claim
  succeeds only when nobody drains (lemma `ClaimAlone`). For the rows, transfers belong
  to a pass, and a page's rows are pending or failed with their pair, and in one thread's hands,
  until they are transferred (`RowInv`).
- **ReplacementProofs.** No hypothesis, every set of freedoms: *TypeCorrect*,
  *WorkerHoldsRow* (process_item marks and settles a row that is in the table and
  no longer on its page) and *LifecycleKept*, the refinement of `DriveLifecycle`. The invariant is
  `TypeOK /\ WorkerOK`; the refinement maps each handler, the failover and the finalizer
  to its transition and every other step to a stutter.
  In the second half, requests fall between the worker's items, one drive is given up at a time and users edit a
  healthy pair only (`Orderly`, which still lets a scan find a change of the file under copy): *VersionsSafe* (NoVersionLost) and
  *RebuildsPaid* (RebuildPaid). NoVersionLost is far from inductive, since a copy truncates its target: its invariant
  `VInv` says that the drive in charge is behind no other (`DrivesOK`), that a rebuilding slot owes a row for every file its
  drive lacks and that such a row is not completed by what the worker read before the rebuild began (`RowsOK`, `DebtOK`), and
  what of the worker's reading of row, pair and file is still true at each of its steps (`SnapOK`, `FreshOK`, `CopyOK`,
  `CopiedOK`). Under no freedom at all: *MirrorsCurrent*, with the checksum, the copy in
  flight and the rows of a restored slot (`MInv`).
- **IntegrityRunsProofs.** Under the hypothesis `Apart` (no racing starts, no restart
  beside a run): *OneRun* and *EndIsFinal*. The invariant adds to `OneActiveRun` that
  a run that is worked on is marked active (`ThreadsAreActive`), without which a
  thread could end a run a second time, and that a caller that found no active run is
  alone until it inserts (`AskedAlone`). Both are kept by a kill, a stop request and
  the clean-up.
  In the second half: *TypeCorrect* under every set of freedoms, and under the hypothesis `Careful` (files
  keep still under a recovery, which starts with no edit unscanned; a scan meets no damage and a transfer no damaged
  source; callers may race and the service restart beside a run): *VersionsKept* (NoVersionLost),
  *OldMirrorsQueued* (BehindIsQueued), and *RepairsHaveSources*, the invariant both follow from. It says of every
  tracked file that one side has the newest version, that the checksum is that of the active side or a scan will find
  it, and that an older mirror has its row (`FileOk`); of every verdict that a run or a check of one file still has in
  hand that the side it will copy from is good now, and that no two of them would copy one file in
  opposite directions (`SourcesGood`); and that nothing is unscanned while somebody repairs. That the two
  verdicts in hand may be of different age, one taken by a run and one by a request, is what makes it hard.
- **FolderOpsProofs.** Every set of freedoms: *TypeCorrect* and *RowsHaveFiles*, whose invariant is
  `TypeOK /\ IdsValid` (without valid ids a folder mirror could mark an untracked file). While no command
  works beside another operation: *FlagsHaveThreads* and *OneOperationPerFolder*, the refinement of `FolderExclusion`. Their
  invariant adds `Held`: a thread at work on a folder has its flag and no other flag is set,
  no second thread is at work there, and nothing of the service runs when it is down. Most steps leave
  every thread its folder (`Keeps`) and stutter; starting and ending are lemmas of their own. Under
  the hypothesis that `track during delete` is not allowed: *ExplicitFilesStay*, with the
  invariant that a deletion has listed no file the user tracked (`SparesAsked`).
  Two more have invariants of their own. *UnmirroredAreQueued* (UnmirroredIsQueued) under `Steady` (no crash between writes
  that belong together, no change of a file whose rows are being completed; recomputes, deletions and commands may overlap as they
  will): the property counts every thread with the file in hand, but a folder mirror's hand does not count,
  since its copy may fail; `Written` says so, and that whoever completes rows has marked the file (`DoneIsMirrored`), the worker
  before it takes the next row (`MarksFirst`). *DirectFilesWereAsked* (DirectWasAsked) under `OneByOne`
  (recomputes, deletions and commands beside operations do not overlap, no recompute is killed): a recompute turns a file
  without a folder into a direct one, so that each must have one. The invariant `Sourced` says that a
  file not directly tracked is in a tracked folder (`SourcesCovered`), that whoever tracks files of a folder
  works on one that is tracked (`WalksCovered`), and that a deletion has listed all that no other folder will
  cover (`ListsWhole`), whatever was tracked since.
- **VirtualPathsProofs.** Every set of freedoms: *TypeCorrect* (with a pair for all that is tracked) and *UserFilesKept*
  (UserFilesStay), since every step that puts a link finds nothing or a link there, and all that is above a user's file is a
  directory (`UserOK`). If requests meet in none of six ways (`Orderly`; pairs may be edited and switched below virtual paths): *LinksStayApart*
  (LinksApart). LinksApart speaks of rows and links at one moment, while a request holds a path before it has a row, and
  keeps a link after the row has gone; the invariant `IInv` gives each request the items and the paths it is about, which are
  nobody else's but where two ask for the same free path (`OpsApart`), says for each place of a request what row and link are
  there (`OpsOK`), that at and above a path with a row is nothing of anybody else (`RowsOpen`), that what has something below is a
  directory (`TreeOK`), and that a row without its link has a request about to make it again, or a refresh that will
  (`RowsLinked`), which a kill leaves to the start of the service (`ServiceOK`). Under no freedom: *ListedPathsResolve*, ListedResolves
  together with *LinkAtPath*, from the same invariant, whose links are then exact (`Right`): they lead to the drive that is active, not to the one
  that was when they were made. A file of a folder has no link of its own; that its path is free of others' entries is a
  lemma about prefixes. The proof rests on assumptions of the module that the code gives: files of a folder are on the folder's pair,
  two of them have different names, and what stands for no path, no pair or no entry is not one (`PathsOK`, `ValuesApart`).
- **DatabaseProofs, backup.** Every set of freedoms: *TypeCorrect* (with the shape of a run at each place, and that the rows
  it has listed existed and are listed once) and *HealthyCopiesStay* (HealthyStaysHealthy). While
  one check runs at a time: *RepairsOnRecord*; the marker on a row is there before the repair (`MarkedFirst`)
  and the check has read every marker of a repair no row tells of, but for its own (`MarkerRead`). While one backup runs
  at a time and a dated destination keeps its directory: *LastBackupsTrue*; the snapshot under copy is older than no date
  (`SnapshotNewest`), and what replaced a copy before its row was dated was a repair or damage (`CopyStands`).
  Both together: *RowsAreTrue* (RowsTellTruth). The first row of a list is a CHOOSE of the lowest id, so a lemma
  shows that there is one, from the well-foundedness of the order on the naturals.
- **DatabaseProofs, restore.** Nobody opens the database beside one that has it open while a restore is pending, commits while
  one is applied or stages one meanwhile (`Ordered`): *FilesAgreeHolds* (FilesAgree) and *TornIsKeptOut*
  (TornIsNotApplied), from `RInv`: who stages has the database open and nobody applies (`StagedOK`), who applies works on a whole
  file and a closed database unless the other process was faster (`AppliedOK`), who serves has opened the
  file at the path with the migrations it went through (`OpenedOK`). Under no freedom (no
  process ends with commits in the log alone, and no restore is applied between two safety copies of one second):
  *CommitsAreKept* (CommitsKept), from `KInv`: the log of a pending restore is in the main file and that in a safety copy
  before the rename, and this second's copy holds nothing that the file at its generation has lost (`LastOK`), so that
  whoever writes over it keeps what it had.
- **SchedulerProofs.** Every set of freedoms: *JobsFollowRowsAlways*, that no job has two threads, and that
  once the rows were read a thread goes on for the enabled jobs only, and for each of them unless the thread has panicked
  over a plan that is Overlong (`PanicsOwn`). If an enabled schedule's plan is not changed:
  *ThreadsAreThoseOfRows* (ThreadsFollowRows) and *NextRunsArePlanned* (NextRunIsPlanned). ThreadsMatch speaks of the time
  between reloads; its invariant `MInv` has what a reload knows on its way: the rows it has read are those in the
  table until a schedule is written, and then that table is marked (`RowsRead`), a registered thread is that of its job and was not told to stop
  (`Registration`), and a schedule's thread, or a row of it in a reload's hand, has the plan of the row (`PlansKept`), so that
  a thread which was told to stop and records late leaves the same next run (`NextKept`).
- **SyncEventsProofs.** Every set of freedoms: *TypeCorrect*. Queries answer and no snapshot overtakes another (drains may
  panic): *PagesGoOnward* (NeverBackwards). A stream may hold summaries from before the one that is shown; its invariant `SInv`
  has that all of these have lower numbers than `first` and are passed over (`StreamsInOrder`), which rests on the
  order of the snapshots under way: who began to read later has read a later queue (`ReadInOrder`), and the summary about to be sent
  has the last number drawn (`OrderKept`, `Numbered`). Under no freedom: *PagesShowWhatIs* (ShownIsCurrent), from `CInv`: a
  snapshot that lacks what is owed is followed by another publisher's (`OwedFollows`), so that the last one has
  all; and while nobody publishes the last summary of each stream is current, or what the page shows is, if that summary is passed
  over (`StreamsEnd`). That a stream drops its oldest when it lags takes away no last one.

Every hypothesis but that of QueueDrainProofs excludes some of the [Freedoms](#freedoms); what remains of them is allowed
together, for any number of files, threads and failures. Only model-checked: all liveness properties (fairness and ENABLED are out of the
prover's reach). Every invariant, safety property and refinement that a passing run checks has a theorem. Pages of
`IntegrityRuns` come out of `SelectSeq`, whose induction the prover does not do; its theorems rest on what
every sequence of files of a pair has in common.

## What the code does not keep

One run shows a sentence of the repository violated; PROJECT.json quotes it.

1. `mirror_race`: a change found during the file's own transfer queues nothing, and the
   transfer marks the file mirrored (`docs/API.md:707-709`, of a scan: "Changed files are detected by re-hashing", "enqueues mirror work when possible").

The other disagreements met while modelling are stated as properties that no run checks; each is
violated by the setting given here.

2. *OneTransferPerPair*, DrainSafety with `MaxPass = 3`: the heartbeat is written once per pass, and a pass is up to 1000
   copies. A pass longer than 300 s loses the lock to another process, which requeues the
   running row and transfers on the same pair. `core/sync_queue.rs:261-264`: "Only one invocation drains the
   queue at a time".
3. *DrainEndsIfLeftAlone*, DrainLiveness: with a slot in quiescing, a drain fetches and skips the pair's rows in a
   tight loop; the guard against an infinite loop (`sync_queue.rs:361-363`) covers rows for users only.
4. *RowsTakenUp*, DrainLiveness with `PageSize = 1`: a page that is filled by rows which wait for a user or are held
   back by a quiescing slot hides every row behind it (`sync_queue.rs:309`, a page of 1000).
5. *RebuildPaid*, ReplacementSafety with `interleave`: a drain that completes the first rebuild row before the second is
   inserted finalizes the rebuild with files missing. `README.md:39`: "return the pair to a fully mirrored state".
6. *NoVersionLost*, ReplacementSafety with `edit degraded`: an edit on the secondary after its rebuild row completed is overwritten
   once the rebuilt primary is active again.
7. *CompletedCheckedAll*, IntegrityRuns: a run with more than one page checks some files twice and others not at all.
8. *SafetyCopyIsLive*, DatabaseRestore: the safety copy is the main file without its write-ahead log
   (`backup.rs:562`). `docs/testing/integration/api.md:201`: "the safety copy made of the live database before staging".
9. *CommitsKept*, DatabaseRestore with `same second`: a safety copy is written over the one made earlier in the same second, so
   the command that applies a pending restore and stages its own leaves no copy of what was replaced
   (`backup.rs:508-514`).
10. *LinkAtPath*, VirtualPaths with `below own`: a folder that is moved below its own path is followed by its old link, so the
   new one is made on the drive and goes with the old one (`virtual_path.rs:252`). `docs/CONFIGURATION.md:209` promises a link at the path.
11. *ThreadsFollowRows*, Scheduler with `plan changed`: an enabled schedule that is given another plan goes on with the
    old one until it is disabled or the service restarts (`scheduler.rs:152`); `docs/API.md:1307` says changes take effect.
12. *EnabledGoesOn*, Scheduler as it is: a `max_duration_seconds` that is below zero or near 2^63 panics the schedule's thread before its
    first run, and the thread's place in the map keeps every reload from starting another (`scheduler.rs:152`, `212-213`);
    `docs/API.md:1247`: "the scheduler will stop processing after that many seconds and resume remaining items on the next
    scheduled run". Correcting the row does not help until the schedule has been disabled and enabled, or the service restarts.
13. *ShownIsCurrent*, SyncEvents with `overtaken`: "Subscribe before taking the snapshot so no concurrent mutations are
    missed" (`routes/sync.rs:53`), but a stream passes over what was read later and numbered earlier.
14. *ExplicitStaysTracked*, FolderOps with `track during delete`: `docs/API.md:772`, "Descendant files
    that were explicitly tracked remain tracked".

## What is abstracted

- All: SQLite statements are atomic and succeed, except where a module says otherwise; hashes are the
  versions they are taken of; names, sizes, logging, events and error texts are left out. A mutex that a panic has
  poisoned is not modelled.
- QueueDrain: a pid is not reused between the SELECT and the UPDATE of one claim. `FinishRow`
  may leave a row in_progress, as adopt_mirror and verify do when they return early.
  Statuses written by others during a pass, by a failover that a request runs into (`resolve_queue_item` of `ResolveRow` is one) for instance, are
  Replacement's subject.
- Replacement: one pair and one worker; rows in the order of ids; each handler is one
  step, except for the insertion loop of an assignment, which is not interrupted by a crash or by the worker
  unless `interleave` is allowed. Users do not edit between mark and
  confirm. Torn contents compare equal to each other. adopt_mirror, verify
  and user_action_required rows and virtual paths are left out; a replacement path is not the other slot's (`validate_drive_pair`).
- IntegrityRuns: healthy pairs with the primary active, so the verdicts of unavailable
  drives do not occur. Two updates of `last_integrity_check_at` have different times (in
  the code they have a resolution of a second). A file's two copies are hashed at one
  moment. A recovery is one step, except that a kill may leave its target torn, and so is
  a mirror transfer. Damage hits one copy while the other one is good. Ids of ended runs are used again. One repair of a
  single file at a time; a check that repairs nothing is one step.
- FolderOps: one healthy pair whose files all exist, so a copy by the folder mirror or the worker
  just succeeds or fails and contents are reduced to "changed since the checksum" (`edited`). Rows of one
  file and action are one row. A scan's look at a file and the row it writes for it are one
  step, and a new file that another thread tracks in between (which ends the scan) is not
  met. Writing checksum and `is_mirrored` of a changed file is one step. A command's scan makes its list of changes at once, and
  a file that is gone from it is passed over or ends the command. .b3 sidecars, virtual
  paths and the progress columns are left out. A folder covers the same files for every query (the
  recomputation does not escape `_` and `%` in its LIKE pattern, the other queries do).
- VirtualPaths: names are given; a drive is a value, and a link leads to an item on a drive. Commands run only while the service is up.
  A request is refused for reasons of paths only. The pair of a `Switch` is switched and collected as `Replacement` does it,
  without its rows.
- DatabaseBackup: a copy is written, verified and renamed in one step, or fails before or after the rename; the
  retries of a status write are one write that may be lost. The order of priority is that of creation.
- DatabaseRestore: two processes; a checkpoint is one step; the shared-memory file goes with the log. A restore is never
  staged from the pending file itself.
- Scheduler: a cron expression or interval with a duration is a plan, and a sleep ends some time. A task itself does not panic. A row's update is one step, also where it is
  several statements. A cron expression that does not parse falls back to an hour and is a plan like any other.
- SyncEvents: the three queries on the queue are one step, and so are the read of the flag and the send. A page that is
  closed while its first summary is made is not modelled. Writers that publish nothing (commands, the scheduler's checks,
  the rows between two publications of a drain, `docs/API.md:1121`) owe nothing.

## Not modelled

- *REST server, authentication and path resolution*: they decode, check and answer around the handlers; 
  none of the modelled state is theirs.
- *Event log, system information, sidecar files*: append-only rows, reading of disks, parsing of one line. What deserves a
  remark: `routes/files.rs:192-199` logs the untracking of a file after its row is deleted, so the log's reference to it is refused
  and ignored, while the folder cascade logs before (`tracker.rs:270`).
- *Command line*: parsing and printing; the commands that change state are in the modules of their subject.
- *Web frontend, packaging and scripts*.
- Within modelled parts: adopt_mirror, verify and user_action_required rows beyond their place in a drain; verdicts on
  pairs that are not healthy; what a folder mirror copies on its snapshot of the pair; filters and paging of listings.

## Plan

1. `Replacement` refined: handlers as read and write; adopt_mirror rows; `resolve_queue_item`; the folder
   mirror's copies on its snapshot of the pair; untracking during a rebuild.
2. Coverage under deadlines: a run that is always cut in the first pair against
   `docs/ARCHITECTURE.md:411`.
