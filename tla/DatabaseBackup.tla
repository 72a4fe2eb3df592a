---------------------------- MODULE DatabaseBackup ----------------------------
(***************************************************************************)
(* Copies of the service's own database: src/src/db/backup.rs without the  *)
(* restore, and the configuration rows it works from.  A backup run puts   *)
(* one snapshot of the live database at every enabled destination; a check *)
(* run inspects every copy first and then repairs the broken ones from the *)
(* first healthy one.  Runs are started by the scheduler's two threads, by *)
(* requests and by the command line, and nothing keeps them apart.         *)
(*                                                                         *)
(* A copy is the version of the database it holds, or what is wrong with   *)
(* it.  It is written to a temporary file, verified and renamed, so that   *)
(* the copy at its place changes in one step; the row that tells of it is  *)
(* another step, which may be lost.  The .blake3 file beside a copy is     *)
(* written and never read.                                                 *)
(***************************************************************************)
EXTENDS Integers, FiniteSets

CONSTANTS
    Dirs,         \* directories copies may be kept in
    NoDir,        \* no directory
    Missing,      \* the copy of a directory that has none
    Corrupt,      \* a copy that does not verify
    Unused,       \* a row that was never created
    Deleted,      \* a row that was removed
    MaxId,        \* configurations ever created
    DirsOf,       \* the directories a user may name for each
    Backers,      \* threads, requests and commands that run backups
    Checkers,     \* and those that run checks
    MaxVersion,   \* commits of the live database
    MaxEvents,    \* copies damaged, disks or writes failed, runs killed, rows edited
    Allowed       \* what the service also meets, out of Freedoms

\* Two backup runs at a time, two checks at a time, a configuration that is given
\* another directory when a backup of it was made or is under way.
Freedoms == {"two backups", "two checks", "move"}

ASSUME ConstantsOK ==
    /\ {MaxId, MaxVersion, MaxEvents} \subseteq Nat
    /\ Backers \cap Checkers = {}
    /\ NoDir \notin Dirs
    /\ DirsOf \in [1..MaxId -> SUBSET Dirs]
    /\ Missing # Corrupt
    /\ Unused # Deleted
    /\ {Missing, Corrupt} \cap Nat = {}
    /\ Allowed \subseteq Freedoms

VARIABLES
    live,         \* version of the live database
    file,         \* the copy in each directory
    row,          \* db_backup_config
    op,           \* what each runner does
    events,       \* so far
    fromPeer,     \* directories whose copy a repair put there
    unreported    \* configurations whose repair no row tells of yet

ghosts == <<fromPeer, unreported>>
vars == <<live, file, row, op, events, ghosts>>

Runners == Backers \cup Checkers
Ids == 1..MaxId
Versions == 0..MaxVersion
Never == -1                       \* last_backup is NULL
InError == {"missing", "corrupt", "failed"}
Statuses == {"none", "ok", "repaired"} \cup InError

\* A row of the table; a row that is not there yet, or not any more.
Config == [dir : Dirs, enabled : BOOLEAN, last : Versions \cup {Never},
           status : Statuses, error : BOOLEAN]
NoRows == {Unused, Deleted}

ASSUME NoRowIsConfig == NoRows \cap Config = {}

\* A configuration as a run has read it, and what the check saw of its copy.
Item == [id : Ids, dir : Dirs, was : Statuses, healthy : BOOLEAN]

Op == [kind : {"none", "backup", "check"},
       at : {"idle", "snapshot", "write", "copied", "failed",
             "inspect", "settle", "repair", "repaired", "spoiled"},
       todo : SUBSET Item,        \* rows still to be treated
       seen : SUBSET Item,        \* rows inspected
       snap : Versions \cup {Never},
       source : Dirs \cup {NoDir}]
NoOp == [kind |-> "none", at |-> "idle", todo |-> {}, seen |-> {}, snap |-> Never, source |-> NoDir]

Init ==
    /\ live = 0
    /\ file = [d \in Dirs |-> Missing]
    /\ row = [i \in Ids |-> Unused]
    /\ op = [r \in Runners |-> NoOp]
    /\ events = 0
    /\ fromPeer = {}
    /\ unreported = {}
-----------------------------------------------------------------------------
(* Helpers *)

Live(i) == row[i] \notin NoRows
Healthy(copy) == copy \in Versions
Become(r, o) == op' = [op EXCEPT ![r] = o]
Idle(r) == op[r].at = "idle"
At(r, place) == op[r].at = place
Alone(freedom, kind) == freedom \in Allowed \/ \A r \in Runners : op[r].kind # kind

\* Priority is the order of creation.
First(items) == CHOOSE x \in items : \A y \in items : x.id <= y.id
Hand(r) == First(op[r].todo)
Rest(r) == op[r].todo \ {Hand(r)}
\* The run goes on with its next row, or has tried them all and ends.
NextRow(r, place) ==
    Become(r, IF Rest(r) = {} THEN NoOp ELSE [op[r] EXCEPT !.at = place, !.todo = Rest(r)])

\* list_db_backup_configs, and the enabled ones among them.
Enabled == {[id |-> i, dir |-> row[i].dir, was |-> row[i].status, healthy |-> FALSE] :
                i \in {j \in Ids : Live(j) /\ row[j].enabled}}

\* An UPDATE of a row that is gone changes nothing and is no error.
Write(i, new) == row' = [row EXCEPT ![i] = IF Live(i) THEN new ELSE @] /\ UNCHANGED events
Event == events < MaxEvents /\ events' = events + 1
Lost == Event /\ UNCHANGED row
WriteStatus(i, status, error) ==
    Write(i, [row[i] EXCEPT !.status = status, !.error = error])
-----------------------------------------------------------------------------
(* run_all_backups *)

\* No enabled configuration: the run ends at once.
StartBackup(r) ==
    /\ r \in Backers
    /\ Idle(r)
    /\ Alone("two backups", "backup")
    /\ Enabled # {}
    /\ Become(r, [NoOp EXCEPT !.kind = "backup", !.at = "snapshot", !.todo = Enabled])
    /\ UNCHANGED <<live, file, row, events, ghosts>>

TakeSnapshot(r) ==
    /\ At(r, "snapshot")
    /\ Become(r, [op[r] EXCEPT !.at = "write", !.snap = live])
    /\ UNCHANGED <<live, file, row, events, ghosts>>

\* The live file is not there, is locked, or the snapshot does not verify: no
\* destination is tried and no row is written.
SnapshotFails(r) ==
    /\ At(r, "snapshot")
    /\ Event
    /\ Become(r, NoOp)
    /\ UNCHANGED <<live, file, row, ghosts>>

WriteCopy(r) ==
    /\ At(r, "write")
    /\ file' = [file EXCEPT ![Hand(r).dir] = op[r].snap]
    /\ fromPeer' = fromPeer \ {Hand(r).dir}
    /\ Become(r, [op[r] EXCEPT !.at = "copied"])
    /\ UNCHANGED <<live, row, events, unreported>>

\* The copy fails before its rename, or the checksum file after it.
CopyFails(r) ==
    /\ At(r, "write")
    /\ Event
    /\ \/ UNCHANGED <<file, fromPeer>>
       \/ /\ file' = [file EXCEPT ![Hand(r).dir] = op[r].snap]
          /\ fromPeer' = fromPeer \ {Hand(r).dir}
    /\ Become(r, [op[r] EXCEPT !.at = "failed"])
    /\ UNCHANGED <<live, row, unreported>>

\* Mutant: the row is dated whatever became of the copy.
RecordCopyAlways(r) ==
    LET i == Hand(r).id IN
    /\ op[r].at \in {"copied", "failed"}
    /\ \/ Write(i, [row[i] EXCEPT !.last = op[r].snap, !.error = FALSE])
       \/ Lost
    /\ NextRow(r, "write")
    /\ UNCHANGED <<live, file, ghosts>>
\* update_db_backup_last_backup, or update_db_backup_error
RecordCopy(r) ==
    LET i == Hand(r).id IN
    /\ op[r].at \in {"copied", "failed"}
    /\ \/ At(r, "copied") /\ Write(i, [row[i] EXCEPT !.last = op[r].snap, !.error = FALSE])
       \/ At(r, "failed") /\ Write(i, [row[i] EXCEPT !.error = TRUE])
       \/ Lost
    /\ NextRow(r, "write")
    /\ UNCHANGED <<live, file, ghosts>>

-----------------------------------------------------------------------------
(* run_backup_integrity_check *)

StartCheck(r) ==
    /\ r \in Checkers
    /\ Idle(r)
    /\ Alone("two checks", "check")
    /\ Enabled # {}
    /\ Become(r, [NoOp EXCEPT !.kind = "check", !.at = "inspect", !.todo = Enabled])
    /\ UNCHANGED <<live, file, row, events, ghosts>>

\* Mutant: only the destination of highest priority repairs the others.
SourcePrimary(items) == IF First(items).healthy THEN First(items).dir ELSE NoDir
\* The first healthy copy in order of priority is the one to repair from.
Source(items) ==
    LET healthy == {x \in items : x.healthy}
    IN  IF healthy = {} THEN NoDir ELSE First(healthy).dir

\* All copies are inspected before any is settled.
Inspect(r) ==
    LET seen == op[r].seen \cup {[Hand(r) EXCEPT !.healthy = Healthy(file[Hand(r).dir])]} IN
    /\ At(r, "inspect")
    /\ Become(r, IF Rest(r) # {}
                 THEN [op[r] EXCEPT !.todo = Rest(r), !.seen = seen]
                 ELSE [op[r] EXCEPT !.at = "settle", !.todo = seen, !.seen = {},
                                    !.source = Source(seen)])
    /\ UNCHANGED <<live, file, row, events, ghosts>>

Settling(r) == At(r, "settle")
\* What the row is to say of a copy that was seen broken, by the path as it is now.
Presence(d) == IF file[d] = Missing THEN "missing" ELSE "corrupt"

\* A copy that was in error and is healthy now was repaired.
HealthyStatus(was) == IF was \in InError THEN "repaired" ELSE "ok"

SettleHealthy(r) ==
    LET i == Hand(r).id
        status == HealthyStatus(Hand(r).was) IN
    /\ Settling(r)
    /\ Hand(r).healthy
    /\ \/ /\ WriteStatus(i, status, FALSE)
          /\ unreported' = IF status = "repaired" THEN unreported \ {i} ELSE unreported
       \/ Lost /\ UNCHANGED unreported
    /\ NextRow(r, "settle")
    /\ UNCHANGED <<live, file, fromPeer>>

SettleBroken(r) ==
    /\ Settling(r)
    /\ ~Hand(r).healthy
    /\ op[r].source = NoDir
    /\ WriteStatus(Hand(r).id, Presence(Hand(r).dir), TRUE) \/ Lost
    /\ NextRow(r, "settle")
    /\ UNCHANGED <<live, file, ghosts>>

\* The marker of the broken copy is written before the repair; when three tries
\* fail the row waits for the next check.
MarkBroken(r) ==
    /\ Settling(r)
    /\ ~Hand(r).healthy
    /\ op[r].source # NoDir
    /\ \/ /\ WriteStatus(Hand(r).id, Presence(Hand(r).dir), TRUE)
          /\ Become(r, [op[r] EXCEPT !.at = "repair"])
       \/ Lost /\ NextRow(r, "settle")
    /\ UNCHANGED <<live, file, ghosts>>

\* The copy a repair would make of its source, as the source is now.
Install(r) ==
    /\ file' = [file EXCEPT ![Hand(r).dir] = file[op[r].source]]
    /\ fromPeer' = fromPeer \cup {Hand(r).dir}
    /\ unreported' = unreported \cup ({Hand(r).id} \cap {i \in Ids : Live(i)})

\* Mutant: the copy is not verified before it is renamed.
RepairUnverified(r) ==
    /\ At(r, "repair")
    /\ Install(r)
    /\ Become(r, [op[r] EXCEPT !.at = "repaired"])
    /\ UNCHANGED <<live, row, events>>
Repair(r) ==
    /\ At(r, "repair")
    /\ Healthy(file[op[r].source])
    /\ Install(r)
    /\ Become(r, [op[r] EXCEPT !.at = "repaired"])
    /\ UNCHANGED <<live, row, events>>

\* The source is broken by now, a disk fails before the rename or after it.
RepairFails(r) ==
    /\ At(r, "repair")
    /\ \/ ~Healthy(file[op[r].source]) /\ UNCHANGED <<file, ghosts, events>>
       \/ Event /\ UNCHANGED <<file, ghosts>>
       \/ Event /\ Healthy(file[op[r].source]) /\ Install(r)
    /\ Become(r, [op[r] EXCEPT !.at = "spoiled"])
    /\ UNCHANGED <<live, row>>

\* Six tries at "repaired", one at "failed".
ReportRepair(r) ==
    LET i == Hand(r).id IN
    /\ op[r].at \in {"repaired", "spoiled"}
    /\ \/ /\ At(r, "repaired")
          /\ WriteStatus(i, "repaired", FALSE)
          /\ unreported' = unreported \ {i}
       \/ /\ At(r, "spoiled")
          /\ WriteStatus(i, "failed", TRUE)
          /\ UNCHANGED unreported
       \/ Lost /\ UNCHANGED unreported
    /\ NextRow(r, "settle")
    /\ UNCHANGED <<live, file, fromPeer>>
-----------------------------------------------------------------------------
(* Configurations: requests and commands *)

NewRow(d, enabled) ==
    [dir |-> d, enabled |-> enabled, last |-> Never, status |-> "none", error |-> FALSE]

\* Priority is one more than the highest; the same directory may be named twice.
CreateConfig(i, d, enabled) ==
    /\ row[i] = Unused
    /\ \A j \in 1..(i - 1) : row[j] # Unused
    /\ d \in DirsOf[i]
    /\ row' = [row EXCEPT ![i] = NewRow(d, enabled)]
    /\ UNCHANGED <<live, file, op, events, ghosts>>

EditRow(i) == Live(i) /\ Event

SetEnabled(i) ==
    /\ EditRow(i)
    /\ row' = [row EXCEPT ![i].enabled = ~@]
    /\ UNCHANGED <<live, file, op, ghosts>>

\* The row keeps what it says of the copy in the old directory.
Move(i, d) ==
    /\ EditRow(i)
    /\ d \in DirsOf[i]
    /\ "move" \in Allowed \/ row[i].last = Never
    /\ Alone("move", "backup")
    /\ row' = [row EXCEPT ![i].dir = d]
    /\ UNCHANGED <<live, file, op, ghosts>>

RemoveConfig(i) ==
    /\ EditRow(i)
    /\ row' = [row EXCEPT ![i] = Deleted]
    /\ unreported' = unreported \ {i}
    /\ UNCHANGED <<live, file, op, fromPeer>>
-----------------------------------------------------------------------------
(* The environment *)

Commit ==
    /\ live < MaxVersion
    /\ live' = live + 1
    /\ UNCHANGED <<file, row, op, events, ghosts>>

Damage(d) ==
    /\ Event
    /\ Healthy(file[d])
    /\ \E what \in {Missing, Corrupt} : file' = [file EXCEPT ![d] = what]
    /\ UNCHANGED <<live, row, op, ghosts>>

Kill(r) ==
    /\ ~Idle(r)
    /\ Event
    /\ Become(r, NoOp)
    /\ UNCHANGED <<live, file, row, ghosts>>

Step(r) ==
    \/ TakeSnapshot(r) \/ SnapshotFails(r)
    \/ WriteCopy(r) \/ CopyFails(r) \/ RecordCopy(r)
    \/ Inspect(r)
    \/ SettleHealthy(r) \/ SettleBroken(r)
    \/ MarkBroken(r) \/ Repair(r) \/ RepairFails(r) \/ ReportRepair(r)

\* The scheduler, a request and a command start the same runs ...
Start(r) == StartBackup(r) \/ StartCheck(r)

\* ... and requests and commands write the same rows; only a request moves one.
Configure(i) ==
    \/ \E d \in Dirs : Move(i, d) \/ \E e \in BOOLEAN : CreateConfig(i, d, e)
    \/ SetEnabled(i)
    \/ RemoveConfig(i)

Next ==
    \/ \E r \in Runners : Start(r) \/ Step(r) \/ Kill(r)
    \/ \E i \in Ids : Configure(i)
    \/ Commit
    \/ \E d \in Dirs : Damage(d)

Spec == Init /\ [][Next]_vars

\* A run that has begun goes on, and the scheduler's thread starts a check again
\* and again.
FairSpec ==
    /\ Spec
    /\ \A r \in Runners : WF_vars(Step(r))
    /\ \A r \in Checkers : WF_vars(StartCheck(r))
-----------------------------------------------------------------------------
(* Properties *)

TypeOK ==
    /\ live \in Versions
    /\ file \in [Dirs -> Versions \cup {Missing, Corrupt}]
    /\ row \in [Ids -> Config \cup NoRows]
    /\ op \in [Runners -> Op]
    /\ events \in 0..MaxEvents
    /\ fromPeer \subseteq Dirs
    /\ unreported \subseteq Ids

\* The comments of run_backup_integrity_check (src/src/db/backup.rs:371-374): a
\* repair that no row tells of yet has left the marker by which the next check
\* reports it, whichever write was lost and wherever the run was killed.
RepairOnRecord ==
    \A i \in unreported : row[i].status \in InError

\* A healthy copy that is older than the backup its row dates was put there by a
\* repair: no backup run leaves an older copy behind a newer date.
LastBackupTrue ==
    \A i \in Ids :
        (Live(i) /\ Healthy(file[row[i].dir]) /\ file[row[i].dir] < row[i].last)
            => row[i].dir \in fromPeer

\* Neither run replaces a healthy copy by a broken one or by none: only damage
\* from outside does, however runs overlap and whichever step fails.
HealthyStaysHealthy ==
    [][\A d \in Dirs : Healthy(file[d]) => Healthy(file'[d]) \/ Damage(d)]_vars

\* A broken copy of an enabled destination, while another enabled one is healthy.
Repairable(i) ==
    /\ Live(i) /\ row[i].enabled /\ ~Healthy(file[row[i].dir])
    /\ \E j \in Ids : Live(j) /\ row[j].enabled /\ Healthy(file[row[j].dir])

\* A broken copy does not stay broken beside a healthy one, once disks, writes and
\* processes cease to fail.
BrokenIsRepaired == \A i \in Ids : []<>~Repairable(i)

\* A repair is told of in the end, in the row of a destination that stays enabled.
RepairIsReported ==
    \A i \in Ids : []<>(i \in unreported => ~row[i].enabled \/ ~Healthy(file[row[i].dir]))

(* What the run checks *)

\* What the rows say of the copies is true: src/src/db/backup.rs:189-216, 371-430.
RowsTellTruth == TypeOK /\ RepairOnRecord /\ LastBackupTrue

\* Repairs are made, and told of: src/src/db/backup.rs:319-430.
RepairsEnd == BrokenIsRepaired /\ RepairIsReported
=============================================================================
