---------------------------- MODULE DatabaseRestore ----------------------------
(***************************************************************************)
(* Replacing the service's database by a backup: staging a restore, and    *)
(* applying it when a process opens the database (src/src/db/backup.rs,    *)
(* create_file_pool of repository.rs), followed by the migrations of       *)
(* initialize_schema, which a restored older database needs.  The service  *)
(* and a command-line call both open the database this way.                *)
(*                                                                         *)
(* The database is its main file and a write-ahead log beside it: a commit *)
(* goes to the log, a checkpoint copies the log into the main file, and    *)
(* the log is removed when the last connection is closed.  A process keeps *)
(* the file it has opened when another one is renamed over it: files have  *)
(* a generation.  A database is the set of commits it holds.               *)
(***************************************************************************)
EXTENDS Naturals, FiniteSets

CONSTANTS
    MaxCommits,   \* commits
    MaxRestores,  \* restores staged
    MaxBackups,   \* backups that can be restored from
    MaxKills,     \* kills of either process
    NoLog,        \* there is no write-ahead log
    Nothing,      \* no restore is pending
    Torn,         \* a file of which a part was copied
    RestoreAllowed  \* what the processes also meet, out of RestoreFreedoms

\* A process opens the database while a restore is pending and the other has it open, or
\* commits while the other applies the restore; a process ends with commits in the log
\* only, while a restore is pending; a restore is staged while another one is applied;
\* two safety copies are made within a second, with a restore applied in between.
RestoreFreedoms ==
    {"command beside service", "uncheckpointed", "stage during apply", "same second"}

ASSUME RestoreConstantsOK ==
    /\ {MaxCommits, MaxRestores, MaxBackups, MaxKills} \subseteq Nat
    /\ Nothing # Torn
    /\ RestoreAllowed \subseteq RestoreFreedoms

VARIABLES
    main,         \* the database file
    log,          \* the write-ahead log beside it
    staged,       \* the file a restore is pending in
    safe,         \* the safety copies: commits in those of earlier seconds, and
                  \* the one of this second, if there is one
    backups,      \* copies that a restore can start from
    proc,         \* what each process does
    staging,      \* the restore being staged
    commits, restores, kills      \* so far

counts == <<commits, restores, kills>>
restoreVars == <<main, log, staged, safe, backups, proc, staging, counts>>

Procs == {"service", "command"}
Commits == 1..MaxCommits
Migrations == 3                   \* tables, columns, the rebuild of sync_queue

\* A database with the migrations it has seen, and a file of it.
Database == [data : SUBSET Commits, schema : 0..Migrations]
MainFile == [data : SUBSET Commits, schema : 0..Migrations, gen : 0..MaxRestores]
LogFile == [data : SUBSET Commits, gen : 0..MaxRestores]
SafetyCopies == [kept : SUBSET Commits, last : SUBSET Commits, gen : 0..MaxRestores]
ASSUME NoLogIsNone == NoLog \notin LogFile

Applying == {"look", "keep", "clear", "swap"}
ProcState == [at : Applying \cup {"down", "migrate", "open"},
              gen : 0..MaxRestores,      \* generation of the file it has opened
              step : 0..Migrations]      \* migrations it has gone through
Closed == [at |-> "down", gen |-> 0, step |-> 0]

Staging == [at : {"idle", "keep", "copy", "check"}, by : Procs,
            from : Database, seen : SUBSET Commits, kept : SUBSET Commits]
Empty == [data |-> {}, schema |-> 0]
NotStaging == [at |-> "idle", by |-> "service", from |-> Empty, seen |-> {}, kept |-> {}]

\* A new installation, and a backup that an older version made.
RestoreInit ==
    /\ main = [data |-> {}, schema |-> 0, gen |-> 0]
    /\ log = NoLog
    /\ staged = Nothing
    /\ safe = [kept |-> {}, last |-> {}, gen |-> 0]
    /\ backups = {[data |-> {}, schema |-> 1]}
    /\ proc = [p \in Procs |-> Closed]
    /\ staging = NotStaging
    /\ commits = 0 /\ restores = 0 /\ kills = 0
-----------------------------------------------------------------------------
(* Helpers *)

ProcAt(p, place) == proc[p].at = place
ProcBecomes(p, o) == proc' = [proc EXCEPT ![p] = o]
Go(p, place) == ProcBecomes(p, [proc[p] EXCEPT !.at = place])
Other(p) == CHOOSE q \in Procs : q # p

Logged == IF log = NoLog THEN {} ELSE log.data
Content == main.data \cup Logged
Checkpointed == [main EXCEPT !.data = Content]
Saved == safe.kept \cup safe.last
Whole(file) == file \notin {Nothing, Torn}
\* The process has the file open that is at the path.
Attached(p) == proc[p].at \in {"migrate", "open"} /\ proc[p].gen = main.gen

\* A copy of the main file, named by the second: it is written over one that was
\* made in the same second.
SafetyCopy ==
    /\ "same second" \in RestoreAllowed \/ safe.last = {} \/ safe.gen = main.gen
    /\ safe' = [safe EXCEPT !.last = main.data, !.gen = main.gen]

SecondPasses ==
    /\ safe.last # {}
    /\ safe' = [kept |-> Saved, last |-> {}, gen |-> 0]
    /\ UNCHANGED <<main, log, staged, backups, proc, staging, counts>>
-----------------------------------------------------------------------------
(* apply_pending_restore: run_server, and create_file_pool for every process *)

\* The service is started again by systemd; a command is a user's.
Open(p) ==
    /\ ProcAt(p, "down")
    /\ \/ "command beside service" \in RestoreAllowed
       \/ staged = Nothing /\ staging.at = "idle"
       \/ proc[Other(p)].at \notin {"migrate", "open"}
    /\ "stage during apply" \in RestoreAllowed \/ staging.at = "idle"
    /\ Go(p, "look")
    /\ UNCHANGED <<main, log, staged, safe, backups, staging, counts>>

\* What the process does once no restore is pending: open connections, migrate.
Connect(p, gen) == ProcBecomes(p, [at |-> "migrate", gen |-> gen, step |-> 0])

NothingPending(p) ==
    /\ ProcAt(p, "look")
    /\ staged = Nothing
    /\ Connect(p, main.gen)
    /\ UNCHANGED <<main, log, staged, safe, backups, staging, counts>>

Verified(p) ==
    /\ ProcAt(p, "look")
    /\ Whole(staged)
    /\ Go(p, "keep")
    /\ UNCHANGED <<main, log, staged, safe, backups, staging, counts>>

\* Mutant: the pending file is not verified.
NotVerifiedApplied(p) ==
    /\ ProcAt(p, "look")
    /\ staged = Torn
    /\ Go(p, "keep")
    /\ UNCHANGED <<main, log, staged, safe, backups, staging, counts>>
\* The pending file is no database: the process ends.
NotVerified(p) ==
    /\ ProcAt(p, "look")
    /\ staged = Torn
    /\ ProcBecomes(p, Closed)
    /\ UNCHANGED <<main, log, staged, safe, backups, staging, counts>>

\* Mutant: the safety copy is made when a restore is staged only.
KeepNot(p) ==
    /\ ProcAt(p, "keep")
    /\ Go(p, "clear")
    /\ UNCHANGED <<main, log, staged, safe, backups, staging, counts>>
Keep(p) ==
    /\ ProcAt(p, "keep")
    /\ SafetyCopy
    /\ Go(p, "clear")
    /\ UNCHANGED <<main, log, staged, backups, staging, counts>>

\* Mutant: the log is left beside the new file.
ClearNot(p) ==
    /\ ProcAt(p, "clear")
    /\ Go(p, "swap")
    /\ UNCHANGED <<main, log, staged, safe, backups, staging, counts>>
Clear(p) ==
    /\ ProcAt(p, "clear")
    /\ log' = NoLog
    /\ Go(p, "swap")
    /\ UNCHANGED <<main, staged, safe, backups, staging, counts>>

Replace(file) ==
    main' = IF file = Torn THEN [main EXCEPT !.gen = @ + 1, !.data = {}, !.schema = 0]
            ELSE [data |-> file.data, schema |-> file.schema, gen |-> main.gen + 1]

Swap(p) ==
    /\ ProcAt(p, "swap")
    /\ staged # Nothing
    /\ Replace(staged)
    /\ staged' = Nothing
    /\ Connect(p, main.gen + 1)
    /\ UNCHANGED <<log, safe, backups, staging, counts>>

\* Mutant: it waits for the file.
SwapWaits(p) ==
    /\ ProcAt(p, "swap")
    /\ staged = Nothing
    /\ UNCHANGED restoreVars
\* The other process has renamed it: this one ends.
SwapFails(p) ==
    /\ ProcAt(p, "swap")
    /\ staged = Nothing
    /\ ProcBecomes(p, Closed)
    /\ UNCHANGED <<main, log, staged, safe, backups, staging, counts>>
-----------------------------------------------------------------------------
(* initialize_schema: every statement does nothing where it is done already *)

Migrated(k) == [main EXCEPT !.schema = IF @ < k THEN k ELSE @]
MigrateTo(p, k) ==
    /\ ProcAt(p, "migrate")
    /\ proc[p].step = k - 1
    /\ main' = IF Attached(p) THEN Migrated(k) ELSE main
    /\ ProcBecomes(p, [proc[p] EXCEPT !.step = k, !.at = IF k = Migrations THEN "open" ELSE @])
    /\ UNCHANGED <<log, staged, safe, backups, staging, counts>>

CreateTables(p) == MigrateTo(p, 1)
AddColumns(p) == MigrateTo(p, 2)
RebuildQueue(p) == MigrateTo(p, 3)
-----------------------------------------------------------------------------
(* Use of the database *)

\* A commit goes to the log of the file the process has opened, which nobody
\* else can open again once another file was renamed over it.
CommitOne(p) ==
    /\ ProcAt(p, "open")
    /\ "command beside service" \in RestoreAllowed \/ proc[Other(p)].at \notin Applying \ {"look"}
    /\ commits < MaxCommits
    /\ commits' = commits + 1
    /\ log' = IF Attached(p) THEN [data |-> Logged \cup {commits'}, gen |-> main.gen] ELSE log
    /\ UNCHANGED <<main, staged, safe, backups, proc, staging, restores, kills>>

\* The log is copied into the main file, and stays.
Checkpoint ==
    /\ \E p \in Procs : Attached(p)
    /\ main' = Checkpointed
    /\ UNCHANGED <<log, staged, safe, backups, proc, staging, counts>>

\* The last connection checkpoints and removes the log.
Close(p) ==
    /\ ProcAt(p, "open")
    /\ staging.at = "idle" \/ staging.by # p
    /\ IF Attached(p) /\ ~Attached(Other(p))
       THEN main' = Checkpointed /\ log' = NoLog
       ELSE UNCHANGED <<main, log>>
    /\ ProcBecomes(p, Closed)
    /\ UNCHANGED <<staged, safe, backups, staging, counts>>

\* The process is killed, or ends without closing its connections, which threads
\* of the scheduler hold.
KillProc(p) ==
    /\ ~ProcAt(p, "down")
    /\ kills < MaxKills
    /\ \/ "uncheckpointed" \in RestoreAllowed
       \/ Logged \subseteq main.data
       \/ staged = Nothing
    /\ kills' = kills + 1
    /\ ProcBecomes(p, Closed)
    /\ staging' = IF staging.by = p THEN NotStaging ELSE staging
    /\ UNCHANGED <<main, log, staged, safe, backups, commits, restores>>

\* run_all_backups of a process, see DatabaseBackup.
Backup ==
    /\ \E p \in Procs : ProcAt(p, "open") /\ Attached(p)
    /\ Cardinality(backups) < MaxBackups
    /\ backups' = backups \cup {[data |-> Content, schema |-> main.schema]}
    /\ UNCHANGED <<main, log, staged, safe, proc, staging, counts>>
-----------------------------------------------------------------------------
(* stage_restore: a request to the service, or a command *)

\* The paths and the source are in order.
Stage(p, from) ==
    /\ ProcAt(p, "open")
    /\ staging.at = "idle"
    /\ "stage during apply" \in RestoreAllowed \/ \A q \in Procs : proc[q].at \notin Applying
    /\ "command beside service" \in RestoreAllowed \/ \A q \in Procs : proc[q].at # "look"
    /\ restores < MaxRestores
    /\ restores' = restores + 1
    /\ staging' = [at |-> "keep", by |-> p, from |-> from, seen |-> Content, kept |-> {}]
    /\ UNCHANGED <<main, log, staged, safe, backups, proc, commits, kills>>

\* The main file is copied, without its log.
KeepLive ==
    /\ staging.at = "keep"
    /\ SafetyCopy
    /\ staging' = [staging EXCEPT !.at = "copy", !.kept = main.data]
    /\ UNCHANGED <<main, log, staged, backups, proc, counts>>

\* The file is written in place, over one that is pending already.
CopyBegins ==
    /\ staging.at = "copy"
    /\ staged' = Torn
    /\ staging' = [staging EXCEPT !.at = "check"]
    /\ UNCHANGED <<main, log, safe, backups, proc, counts>>

CopyEnds ==
    /\ staging.at = "check"
    /\ staged' = staging.from
    /\ staging' = NotStaging
    /\ UNCHANGED <<main, log, safe, backups, proc, counts>>

\* The disk is full: the request is refused, and the part that was copied stays.
CopyBreaksOff ==
    /\ staging.at = "check"
    /\ staging' = NotStaging
    /\ UNCHANGED <<main, log, staged, safe, backups, proc, counts>>

\* Somebody removes a pending file that nothing can apply.
RemovePending ==
    /\ staged = Torn
    /\ staging.at = "idle"
    /\ staged' = Nothing
    /\ UNCHANGED <<main, log, safe, backups, proc, staging, counts>>
-----------------------------------------------------------------------------
Opening(p) ==
    \/ NothingPending(p) \/ Verified(p) \/ NotVerified(p)
    \/ Keep(p) \/ Clear(p) \/ Swap(p) \/ SwapFails(p)
    \/ CreateTables(p) \/ AddColumns(p) \/ RebuildQueue(p)

RestoreNext ==
    \/ \E p \in Procs :
          \/ Open(p) \/ Opening(p)
          \/ CommitOne(p) \/ Close(p) \/ KillProc(p)
          \/ \E b \in backups : Stage(p, b)
    \/ Checkpoint \/ Backup \/ SecondPasses
    \/ KeepLive \/ CopyBegins \/ CopyEnds \/ CopyBreaksOff \/ RemovePending

RestoreSpec == RestoreInit /\ [][RestoreNext]_restoreVars

\* systemd starts the service again, a command ends, what is begun goes on, and time
\* passes.
RestoreFairSpec ==
    /\ RestoreSpec
    /\ WF_restoreVars(Open("service"))
    /\ \A p \in Procs : WF_restoreVars(Opening(p))
    /\ WF_restoreVars(Close("command"))
    /\ WF_restoreVars(SecondPasses)
    /\ WF_restoreVars(KeepLive \/ CopyBegins \/ CopyEnds \/ CopyBreaksOff)
-----------------------------------------------------------------------------
(* Properties *)

RestoreTypeOK ==
    /\ main \in MainFile
    /\ log \in LogFile \cup {NoLog}
    /\ staged \in Database \cup {Nothing, Torn}
    /\ safe \in SafetyCopies
    /\ backups \subseteq Database
    /\ proc \in [Procs -> ProcState]
    /\ staging \in Staging
    /\ commits \in 0..MaxCommits /\ restores \in 0..MaxRestores /\ kills \in 0..MaxKills

\* The log that lies beside the database is its own: commits of a database that
\* was replaced are never replayed into the restored one, also when a process is
\* killed between the steps of a restore.
LogMatches == log # NoLog => log.gen = main.gen

\* A restore loses nothing for good: every commit is in the database, or in a
\* safety copy, also when the next copy is written over one.
CommitsKept == 1..commits \subseteq Content \cup Saved

\* Who serves from the database has seen it through all migrations, also when it
\* was restored from a backup of an older version.
ServedIsMigrated ==
    \A p \in Procs : ProcAt(p, "open") /\ Attached(p) => main.schema = Migrations

\* What a copy that was broken off has left is never made the database.
TornIsNotApplied ==
    [][\A p \in Procs : ProcAt(p, "swap") /\ main'.gen # main.gen => staged # Torn]_restoreVars

\* A service that is down while a whole restore is pending applies it.
PendingIsApplied == (Whole(staged) /\ ProcAt("service", "down")) ~> ~Whole(staged)

\* The service comes back, unless a torn file is pending.
ServiceReturns == []<>(ProcAt("service", "open") \/ staged = Torn)

\* docs/testing/integration/api.md:201: the response names "the safety copy made
\* of the live database before staging".
SafetyCopyIsLive == staging.at \in {"copy", "check"} => staging.seen \subseteq staging.kept

(* What the run checks *)

\* The files that make the database belong together and have been migrated:
\* src/src/db/backup.rs:591-606, src/src/db/schema.rs:18-23.
FilesAgree == RestoreTypeOK /\ LogMatches /\ ServedIsMigrated

\* A restore comes to an end, with the service up: src/src/api/server.rs:335-350.
RestoreEnds == PendingIsApplied /\ ServiceReturns
=============================================================================
