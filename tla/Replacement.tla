---------------------------- MODULE Replacement ----------------------------
(***************************************************************************)
(* Failover, replacement and rebuild of one drive pair: the request        *)
(* handlers and the finalizer of src/src/core/drive.rs, the queue worker's *)
(* process_item (src/src/core/sync_queue.rs) with the copies of mirror.rs, *)
(* and change detection, against drives that get lost and users that edit. *)
(*                                                                         *)
(* The worker is the one thread that transfers for this pair (QueueDrain   *)
(* shows there is one).  It works on what it fetched: the page of rows of  *)
(* its pass, and the pair and file rows process_item read before a copy    *)
(* that may take hours.                                                    *)
(*                                                                         *)
(* A file's content is the number of the version a user wrote, Missing, or *)
(* Torn: truncated, half copied or mixed from two versions.                *)
(***************************************************************************)
EXTENDS Integers, FiniteSets

CONSTANTS
    Files,        \* tracked files of the pair
    Paths,        \* mount points: the pair's two and spare ones
    Home,         \* the mount point of each role when the pair was created
    RowIds,       \* sync_queue row ids
    NoRow,        \* no row in hand
    NoFile,       \* no file in hand
    MaxVersion,   \* bound on the versions users write
    MaxLosses,    \* bound on the drives that are lost
    MaxCrashes,   \* bound on the crashes of the process
    Allowed       \* what users and requests also do, out of Freedoms

Roles == {"primary", "secondary"}
Other(r) == IF r = "primary" THEN "secondary" ELSE "primary"

\* Users edit while a slot is not active; the administrator gives up a drive
\* while the other slot is not active; a scan finds a change while the file is
\* copied; a request falls between any two steps of the worker or an assignment.
Freedoms == {"edit degraded", "give up both", "scan during copy", "interleave"}

ASSUME ConstantsOK ==
    /\ Home \in [Roles -> Paths]
    /\ Home["primary"] # Home["secondary"]
    /\ IsFiniteSet(Paths)
    /\ IsFiniteSet(Files)
    /\ RowIds \subseteq Nat
    /\ NoRow \notin RowIds
    /\ NoFile \notin Files
    /\ MaxVersion \in Nat \ {0}
    /\ MaxLosses \in Nat
    /\ MaxCrashes \in Nat
    /\ Allowed \subseteq Freedoms

VARIABLES
    slot,         \* primary_state, secondary_state
    active,       \* active_role
    path,         \* primary_path, secondary_path
    avail,        \* path_is_available, per mount point
    marker,       \* the drive root marker exists, per mount point
    disk,         \* content of each file under each mount point
    sum,          \* tracked_files.checksum: the version it is the hash of
    mirrored,     \* tracked_files.is_mirrored
    queue,        \* sync_queue; a completed row counts as absent
    owing,        \* files an assign request has still to queue, per role
    wpc,          \* where the worker is in process_item
    batch,        \* rows of the page the worker has still to visit
    item,         \* the row process_item works on
    snap,         \* the pair and the checksum process_item has read
    begun,        \* content of the source when the copy began
    kept,         \* the version each file must not fall behind
    version,      \* versions written by users so far
    lost,         \* the drives that were lost
    crashes

pairVars   == <<slot, active, path>>
driveVars  == <<avail, marker, disk>>
fileVars   == <<sum, mirrored>>
workerVars == <<wpc, batch, item, snap, begun>>
boundVars  == <<lost, crashes>>
ghostVars  == <<kept, version>>
vars == <<pairVars, driveVars, fileVars, queue, owing, workerVars, ghostVars, boundVars>>

States == {"active", "quiescing", "failed", "rebuilding"}
Actions == {"mirror", "restore_master", "restore_mirror"}
Locations == {"idle", "loaded", "marked", "copying", "copied", "broken", "finalize"}

Missing == -1
Torn == 0
Contents == Missing..MaxVersion
Whole(c) == c > Torn

Row == [file : Files, action : Actions, status : {"pending", "in_progress", "failed"}]
\* The absent row.
Absent == [status |-> "absent"]
NoSnap == [slot |-> [r \in Roles |-> "active"], active |-> "primary", path |-> Home,
           sum |-> Missing, file |-> NoFile, action |-> "mirror"]

TypeOK ==
    /\ slot \in [Roles -> States]
    /\ active \in Roles
    /\ path \in [Roles -> Paths]
    /\ avail \in [Paths -> BOOLEAN]
    /\ marker \in [Paths -> BOOLEAN]
    /\ disk \in [Paths -> [Files -> Contents]]
    /\ sum \in [Files -> Contents]
    /\ mirrored \in [Files -> BOOLEAN]
    /\ queue \in [RowIds -> Row \cup {Absent}]
    /\ owing \in [Roles -> SUBSET Files]
    /\ wpc \in Locations
    /\ batch \subseteq RowIds
    /\ item \in RowIds \cup {NoRow}
    /\ snap \in [slot : [Roles -> States], active : Roles, path : [Roles -> Paths],
                 sum : Contents, file : Files \cup {NoFile}, action : Actions]
    /\ begun \in Contents
    /\ kept \in [Files -> Contents]
    /\ version \in 1..MaxVersion
    /\ lost \subseteq Paths /\ Cardinality(lost) <= MaxLosses
    /\ crashes \in 0..MaxCrashes

Init ==
    /\ slot = [r \in Roles |-> "active"]
    /\ active = "primary"
    /\ path = Home
    /\ avail = [p \in Paths |-> TRUE]
    /\ marker = [p \in Paths |-> \E r \in Roles : p = Home[r]]
    /\ disk = [p \in Paths |-> [f \in Files |->
                 IF \E r \in Roles : p = Home[r] THEN 1 ELSE Missing]]
    /\ sum = [f \in Files |-> 1]
    /\ mirrored = [f \in Files |-> TRUE]
    /\ queue = [i \in RowIds |-> Absent]
    /\ owing = [r \in Roles |-> {}]
    /\ wpc = "idle"
    /\ batch = {}
    /\ item = NoRow
    /\ snap = NoSnap
    /\ begun = Missing
    /\ kept = [f \in Files |-> 1]
    /\ version = 1
    /\ lost = {}
    /\ crashes = 0
-----------------------------------------------------------------------------
(* The sync_queue table *)

RebuildAction(r) == IF r = "primary" THEN "restore_master" ELSE "restore_mirror"

Live == {i \in RowIds : queue[i].status \in {"pending", "in_progress"}}
Rows(action) == {i \in RowIds : queue[i] # Absent /\ queue[i].action = action}

\* A new row has an identifier above all that the table or the worker holds.
Free == {i \in RowIds :
           /\ \A j \in RowIds : j >= i => queue[j] = Absent
           /\ \A j \in batch \cup ({item} \ {NoRow}) : j < i}

\* RowIds has room for n rows beside those an assignment has still to queue.
Room(n) ==
    Cardinality(Free) >= n + Cardinality(owing["primary"]) + Cardinality(owing["secondary"])

\* create_sync_queue_item_dedup_with_created
Enqueue(f, action) ==
    IF \E i \in Live : queue[i].file = f /\ queue[i].action = action
    THEN UNCHANGED queue
    ELSE \E i \in Free :
            /\ \A j \in Free : i <= j
            /\ queue' = [queue EXCEPT ![i] =
                           [file |-> f, action |-> action, status |-> "pending"]]

\* fail_pending_sync_queue_for_drive_pair
FailLiveRows ==
    queue' = [i \in RowIds |->
                IF i \in Live THEN [queue[i] EXCEPT !.status = "failed"] ELSE queue[i]]
-----------------------------------------------------------------------------
(* The request handlers of drive.rs *)

Quiescing == \E r \in Roles : slot[r] = "quiescing"

\* Unless requests interleave freely, none changes the pair between the moment
\* process_item reads it and the first write of its copy ...
BetweenItems == "interleave" \in Allowed \/ wpc \notin {"loaded", "marked"}
\* ... and an assignment has queued all its rows before the worker goes on.
AssignDone == "interleave" \in Allowed \/ \A r \in Roles : owing[r] = {}

MarkQuiescing(r) ==
    /\ slot[r] = "active"
    /\ "give up both" \in Allowed \/ slot[Other(r)] = "active"
    /\ slot' = [slot EXCEPT ![r] = "quiescing"]
    /\ UNCHANGED <<active, path, driveVars, fileVars, queue, owing, workerVars, ghostVars, boundVars>>

CancelQuiescing(r) ==
    /\ slot[r] = "quiescing"
    /\ slot' = [slot EXCEPT ![r] = "active"]
    /\ UNCHANGED <<active, path, driveVars, fileVars, queue, owing, workerVars, ghostVars, boundVars>>

GiveUp(r) ==
    /\ slot' = [slot EXCEPT ![r] = "failed"]
    /\ active' = IF active = r THEN Other(r) ELSE active
    /\ mirrored' = [f \in Files |-> FALSE]
    /\ FailLiveRows

ConfirmFailure(r) ==
    /\ slot[r] = "quiescing"
    /\ active = r => avail[path[Other(r)]]
    /\ BetweenItems
    /\ GiveUp(r)
    /\ UNCHANGED <<path, driveVars, sum, owing, workerVars, ghostVars, boundVars>>

\* missing_expected_root_marker and the conditions of maybe_emergency_failover.
RootLost(r) ==
    \/ ~avail[path[r]]
    \/ ~marker[path[r]] /\ marker[path[Other(r)]]

\* Mutant: the standby only has to be there.
FailoverUnchecked == RootLost(active) /\ slot[active] = "active" /\ avail[path[Other(active)]]
FailoverDue ==
    /\ RootLost(active)
    /\ \A r \in Roles : slot[r] = "active"
    /\ avail[path[Other(active)]]

\* load_operational_pair calls this first wherever the pair is used.
EmergencyFailover ==
    /\ FailoverDue
    /\ BetweenItems
    /\ GiveUp(active)
    /\ UNCHANGED <<path, driveVars, sum, owing, workerVars, ghostVars, boundVars>>

\* What is left of each file's kept version when only these roles' drives count.
KeptBy(roles, d) ==
    [f \in Files |->
        LET left == {d[path[r]][f] : r \in roles}
        IN  IF \E c \in left : c >= kept[f] THEN kept[f]
            ELSE CHOOSE c \in left \cup {Missing} :
                   /\ c = Missing \/ Whole(c)
                   /\ \A e \in left : Whole(e) => e <= c]

\* assign_replacement_drive: first the pair row, with a mount point that is not
\* the other slot's (validate_drive_pair) ...
AssignReplacement(r, p) ==
    /\ slot[r] = "failed"
    /\ p # path[Other(r)] /\ avail[p]
    /\ Room(Cardinality(Files))
    /\ BetweenItems
    /\ marker' = [marker EXCEPT ![p] = TRUE]
    /\ path' = [path EXCEPT ![r] = p]
    /\ slot' = [slot EXCEPT ![r] = "rebuilding"]
    /\ owing' = [owing EXCEPT ![r] = Files]
    /\ kept' = KeptBy({Other(r)}, disk)
    /\ UNCHANGED <<active, avail, disk, fileVars, queue, workerVars, version, boundVars>>

\* ... then one rebuild row per tracked file.
QueueRebuild(r, f) ==
    /\ f \in owing[r]
    /\ Enqueue(f, RebuildAction(r))
    /\ owing' = [owing EXCEPT ![r] = @ \ {f}]
    /\ UNCHANGED <<pairVars, driveVars, fileVars, workerVars, ghostVars, boundVars>>
-----------------------------------------------------------------------------
(* The queue worker *)

\* Mutant: what a killed drain left behind is taken for done.
RequeueDropped ==
    /\ wpc = "idle" /\ batch = {}
    /\ \E i \in RowIds : queue[i].status = "in_progress"
    /\ queue' = [i \in RowIds |-> IF queue[i].status = "in_progress" THEN Absent ELSE queue[i]]
    /\ UNCHANGED <<pairVars, driveVars, fileVars, owing, workerVars, ghostVars, boundVars>>

\* A new drain puts back what a killed one left behind.
Requeue ==
    /\ wpc = "idle" /\ batch = {}
    /\ \E i \in RowIds : queue[i].status = "in_progress"
    /\ queue' = [i \in RowIds |->
                   IF queue[i].status = "in_progress"
                   THEN [queue[i] EXCEPT !.status = "pending"] ELSE queue[i]]
    /\ UNCHANGED <<pairVars, driveVars, fileVars, owing, workerVars, ghostVars, boundVars>>

FetchPage ==
    /\ wpc = "idle" /\ batch = {}
    /\ \A i \in RowIds : queue[i].status # "in_progress"
    /\ batch' = {i \in RowIds : queue[i].status = "pending"}
    /\ batch' # {}
    /\ UNCHANGED <<pairVars, driveVars, fileVars, queue, owing, wpc, item, snap, begun, ghostVars, boundVars>>

\* process_item reads the file and the pair, and looks at nothing else before
\* it marks the row: the row may have been failed since the page was fetched.
Load(i) ==
    /\ wpc = "idle"
    /\ i \in batch /\ \A j \in batch : i <= j
    /\ ~FailoverDue /\ AssignDone
    /\ batch' = batch \ {i}
    /\ IF Quiescing
       THEN UNCHANGED <<wpc, item, snap>>
       ELSE /\ wpc' = "loaded"
            /\ item' = i
            /\ snap' = [slot |-> slot, active |-> active, path |-> path,
                        sum |-> sum[queue[i].file],
                        file |-> queue[i].file, action |-> queue[i].action]
    /\ UNCHANGED <<pairVars, driveVars, fileVars, queue, owing, begun, ghostVars, boundVars>>

MarkInProgress ==
    /\ wpc = "loaded"
    /\ wpc' = "marked"
    /\ queue' = [queue EXCEPT ![item].status = "in_progress"]
    /\ UNCHANGED <<pairVars, driveVars, fileVars, owing, batch, item, snap, begun, ghostVars, boundVars>>

\* Where mirror_file, restore_from_mirror and restore_mirror_from_master read
\* and write.
SourceRole ==
    CASE snap.action = "mirror"         -> snap.active
      [] snap.action = "restore_master" -> "secondary"
      [] snap.action = "restore_mirror" -> "primary"
Source == snap.path[SourceRole]
Target == snap.path[Other(SourceRole)]
TargetState == snap.slot[Other(SourceRole)]

SourceExists == avail[Source] /\ disk[Source][snap.file] # Missing

\* ensure_drive_root_marker of both roots precedes the look at the source file.
MirrorReady ==
    /\ snap.action = "mirror"
    /\ TargetState \in {"active", "rebuilding"}
    /\ avail[Source] /\ avail[Target]

RestoreReady == snap.action # "mirror" /\ TargetState # "failed" /\ SourceExists

MarkersOf == IF snap.action = "mirror" THEN {Source, Target} ELSE {Target}
SetMarkers == marker' = [p \in Paths |-> marker[p] \/ p \in MarkersOf]

\* File::create truncates the target.  A restore creates a lost target directory
\* first, where the mount point lets it.
BeginCopy ==
    /\ wpc = "marked"
    /\ (MirrorReady /\ SourceExists) \/ RestoreReady
    /\ wpc' = "copying"
    /\ begun' = disk[Source][snap.file]
    /\ SetMarkers
    /\ avail' = [avail EXCEPT ![Target] = TRUE]
    /\ disk' = [disk EXCEPT ![Target][snap.file] = Torn]
    /\ UNCHANGED <<pairVars, fileVars, queue, owing, batch, item, snap, ghostVars, boundVars>>

RefuseCopy ==
    /\ wpc = "marked"
    /\ IF MirrorReady
       THEN ~SourceExists /\ SetMarkers
       ELSE (RestoreReady => ~avail[Target]) /\ UNCHANGED marker
    /\ wpc' = "broken"
    /\ UNCHANGED <<pairVars, avail, disk, fileVars, queue, owing, batch, item, snap, begun, ghostVars, boundVars>>

\* What a reader sees of a file that may be rewritten while it is read.
ReadBy(c) ==
    c \in {begun, disk[Source][snap.file]} \cup
          IF disk[Source][snap.file] = begun THEN {} ELSE {Torn}

\* copy_with_checksum compares what it read with what it wrote;
\* copy_and_verify_checksum compares it with the checksum process_item read,
\* and removes the target when they differ.
EndCopy(c) ==
    /\ wpc = "copying"
    /\ ReadBy(c)
    /\ LET good == snap.action = "mirror" \/ c = snap.sum
       IN  /\ disk' = [disk EXCEPT ![Target][snap.file] = IF good THEN c ELSE Missing]
           /\ wpc' = IF good THEN "copied" ELSE "broken"
    /\ UNCHANGED <<pairVars, avail, marker, fileVars, queue, owing, batch, item, snap, begun, ghostVars, boundVars>>

SettleCompleted ==
    /\ wpc = "copied"
    /\ wpc' = "finalize"
    /\ queue' = [queue EXCEPT ![item] = Absent]
    /\ mirrored' = [mirrored EXCEPT ![snap.file] = TRUE]
    /\ item' = NoRow
    /\ begun' = Missing
    /\ UNCHANGED <<pairVars, driveVars, sum, owing, batch, snap, ghostVars, boundVars>>

SettleFailed ==
    /\ wpc = "broken"
    /\ wpc' = "idle"
    /\ queue' = [queue EXCEPT ![item].status = "failed"]
    /\ item' = NoRow /\ snap' = NoSnap /\ begun' = Missing
    /\ UNCHANGED <<pairVars, driveVars, fileVars, owing, batch, ghostVars, boundVars>>

\* Mutants: failed rows do not count; no row counts; the rows of other actions
\* count too.
FinalizableFailed(r) ==
    /\ snap.action = RebuildAction(r) /\ slot[r] = "rebuilding"
    /\ Rows(snap.action) \cap Live = {}
FinalizableAnyway(r) == snap.action = RebuildAction(r) /\ slot[r] = "rebuilding"
FinalizableAlone(r) ==
    /\ snap.action = RebuildAction(r) /\ slot[r] = "rebuilding"
    /\ \A i \in RowIds : queue[i] = Absent
\* maybe_finalize_rebuild_for_action
Finalizable(r) ==
    /\ snap.action = RebuildAction(r)
    /\ slot[r] = "rebuilding"
    /\ Rows(snap.action) = {}

FinalizeRebuild ==
    /\ wpc = "finalize"
    /\ wpc' = "idle" /\ snap' = NoSnap
    /\ \/ \E r \in Roles :
             /\ Finalizable(r)
             /\ slot' = [slot EXCEPT ![r] = "active"]
             /\ active' = IF r = "primary" THEN r ELSE active
             /\ mirrored' = [f \in Files |-> slot'[Other(r)] = "active"]
       \/ /\ \A r \in Roles : ~Finalizable(r)
          /\ UNCHANGED <<slot, active, mirrored>>
    /\ UNCHANGED <<path, driveVars, sum, queue, owing, batch, item, begun, ghostVars, boundVars>>
-----------------------------------------------------------------------------
(* Users, change detection, drives and the process *)

\* A user writes through a virtual path, into a mounted active drive, and not
\* between mark and confirm.
Edit(f) ==
    /\ version < MaxVersion
    /\ avail[path[active]] /\ marker[path[active]]
    /\ ~Quiescing
    /\ "edit degraded" \in Allowed \/ \A r \in Roles : slot[r] = "active"
    /\ version' = version + 1
    /\ disk' = [disk EXCEPT ![path[active]][f] = version']
    /\ kept' = [kept EXCEPT ![f] = version']
    /\ UNCHANGED <<pairVars, avail, marker, fileVars, queue, owing, workerVars, boundVars>>

StandbyAcceptsSync ==
    slot[Other(active)] \in {"active", "rebuilding"} /\ avail[path[Other(active)]]

\* scan_tracked_folder and scan_and_record_changes, for one file.
ScanFile(f) ==
    /\ ~FailoverDue /\ ~Quiescing
    /\ avail[path[active]]
    /\ disk[path[active]][f] \notin {Missing, sum[f]}
    /\ "scan during copy" \in Allowed \/ snap.file # f
    /\ sum' = [sum EXCEPT ![f] = disk[path[active]][f]]
    /\ mirrored' = [mirrored EXCEPT ![f] = FALSE]
    /\ IF StandbyAcceptsSync THEN Room(1) /\ Enqueue(f, "mirror") ELSE UNCHANGED queue
    /\ UNCHANGED <<pairVars, driveVars, owing, workerVars, ghostVars, boundVars>>

\* A drive is lost.  Its mount point is gone, or is an empty directory now.
LoseDrive(p) ==
    /\ Cardinality(lost) < MaxLosses
    /\ p \notin lost
    /\ avail[p] /\ marker[p]
    /\ lost' = lost \cup {p}
    /\ \E gone \in BOOLEAN : avail' = [avail EXCEPT ![p] = ~gone]
    /\ marker' = [marker EXCEPT ![p] = FALSE]
    /\ disk' = [disk EXCEPT ![p] = [f \in Files |-> Missing]]
    /\ kept' = KeptBy(Roles, disk')
    /\ wpc' = IF wpc = "copying" /\ p \in {Source, Target} THEN "broken" ELSE wpc
    /\ UNCHANGED <<pairVars, fileVars, queue, owing, batch, item, snap, begun, version, crashes>>

\* The process dies with its worker and its requests.
Crash ==
    /\ crashes < MaxCrashes
    /\ AssignDone
    /\ crashes' = crashes + 1
    /\ owing' = [r \in Roles |-> {}]
    /\ wpc' = "idle" /\ batch' = {} /\ item' = NoRow /\ snap' = NoSnap /\ begun' = Missing
    /\ UNCHANGED <<pairVars, driveVars, fileVars, queue, ghostVars, lost>>
-----------------------------------------------------------------------------
Worker ==
    \/ Requeue \/ FetchPage \/ MarkInProgress \/ BeginCopy \/ RefuseCopy
    \/ SettleCompleted \/ SettleFailed \/ FinalizeRebuild
    \/ \E i \in RowIds : Load(i)
    \/ \E c \in Contents : EndCopy(c)

\* POST .../replacement/mark, cancel, confirm, assign and .../failover.
MarkRequest(r) == MarkQuiescing(r)
CancelRequest(r) == CancelQuiescing(r)
ConfirmRequest(r) == ConfirmFailure(r)
AssignRequest(r, p) == AssignReplacement(r, p)
FailoverRequest == EmergencyFailover

\* drives replace: on the same pair, with the same functions, and with no service.
ReplaceCommand(r) ==
    \/ MarkQuiescing(r) \/ CancelQuiescing(r) \/ ConfirmFailure(r)
    \/ \E p \in Paths : AssignReplacement(r, p)

Requests ==
    \/ \E r \in Roles : \/ MarkRequest(r) \/ CancelRequest(r) \/ ConfirmRequest(r)
                         \/ \E p \in Paths : AssignRequest(r, p)
                         \/ ReplaceCommand(r)
    \/ FailoverRequest \/ EmergencyFailover

Queueing == \E r \in Roles, f \in Files : QueueRebuild(r, f)

Environment ==
    \/ \E f \in Files : Edit(f) \/ ScanFile(f)
    \/ \E p \in Paths : LoseDrive(p)
    \/ Crash

Next == Worker \/ Requests \/ Queueing \/ Environment

Spec == Init /\ [][Next]_vars

\* The scheduler keeps starting drains, whose first look at the pair fails over,
\* and a request runs to its end.
FairSpec == Spec /\ WF_vars(Worker \/ EmergencyFailover) /\ WF_vars(Queueing)
-----------------------------------------------------------------------------
Lifecycle == INSTANCE DriveLifecycle
\* The valid transition sequence of a slot and of the active role.
LifecycleSpec == Lifecycle!Spec

\* A rebuild is finished only when the new drive holds every file, at the
\* version the pair has to keep.
RebuildPaid ==
    [][\A r \in Roles :
         slot[r] = "rebuilding" /\ slot'[r] = "active" /\ path[r] \notin lost =>
         \A f \in Files : disk[path[r]][f] >= kept[f]]_vars

\* A file that is marked mirrored, has no transfer to come and no change to be
\* found yet is the same on both drives.
MirroredIsCurrent ==
    \A f \in Files :
        /\ mirrored[f]
        /\ \A r \in Roles : slot[r] = "active" /\ path[r] \notin lost
        /\ \A i \in Live : queue[i].file # f
        /\ disk[path[active]][f] = sum[f]
        => disk[path[Other(active)]][f] = sum[f]

\* A rebuild ends unless one of its transfers fails or a slot is quiescing again
\* and again.
RebuildEnds ==
    \A r \in Roles :
        \/ []<>(slot[r] # "rebuilding")
        \/ []<>(\E i \in Rows(RebuildAction(r)) : queue[i].status = "failed")
        \/ []<>Quiescing

\* No handler and no transfer destroys the last copy of a version that neither
\* a lost drive nor a drive the administrator replaced took with it.
NoVersionLost ==
    \A f \in Files :
        kept[f] # Missing =>
            \E r \in Roles : disk[path[r]][f] >= kept[f]
=============================================================================
