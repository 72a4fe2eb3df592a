------------------------------ MODULE FolderOps ------------------------------
(***************************************************************************)
(* Tracking of files and folders on one pair: the requests of              *)
(* src/src/api/routes/files.rs and folders.rs and the threads they start,  *)
(* and the commands of src/src/cli/commands/files.rs and folders.rs, which *)
(* run the functions of src/src/core/tracker.rs, next to the queue worker, *)
(* users and a crash of the service.                                       *)
(*                                                                         *)
(* A thread's work is cut where another one can come between: at every     *)
(* file it visits, before the row it queues for it, and at every statement *)
(* of recompute_folder_provenance_for_drive.  The pair is healthy and all  *)
(* files exist on the active drive.                                        *)
(***************************************************************************)
EXTENDS Naturals, FiniteSets

CONSTANTS
    Files,        \* files on the active drive
    Folders,      \* folder paths that may be tracked
    Under,        \* the files under each folder path
    Threads,      \* requests, threads of the service and commands at one time
    NoFile,       \* a thread with no file in hand
    Gone,         \* the file a thread had in hand is not tracked any more
    NoFolder,     \* a thread that works on no folder
    Touched,      \* the files users track, untrack and edit themselves
    PerPage,      \* rows the queue worker fetches at a time
    Allowed       \* what the service also meets, out of Freedoms

\* Two recomputations at a time, or a deletion that lists its files within one;
\* two deletions at a time; a user tracks a file that a deletion has listed; the
\* service or a command is killed between two statements that belong together; a
\* scan finds a change of a file whose rows a mirror is about to complete; a command
\* works on a folder, whose flags it neither reads nor sets, while another operation does.
Freedoms == {"overlapping recomputes", "deletes together", "track during delete",
             "crash between writes", "change during completion", "command beside operation"}

ASSUME ConstantsOK ==
    /\ Under \in [Folders -> SUBSET Files]
    /\ {NoFile, Gone} \cap Files = {}
    /\ NoFile # Gone
    /\ NoFolder \notin Folders
    /\ Touched \subseteq Files
    /\ PerPage \in Nat \ {0}
    /\ Allowed \subseteq Freedoms

VARIABLES
    tracked,      \* tracked_files
    direct,       \* files with tracked_direct
    via,          \* files with tracked_via_folder
    mirrored,     \* files with is_mirrored
    rows,         \* sync_queue: status per file and action
    folders,      \* tracked_folders
    flags,        \* scanning, mirroring, deleting of each folder
    op,           \* what each thread does
    page,         \* rows the queue worker has fetched
    row,          \* the row it transfers
    marking,      \* the file whose row it has completed, before is_mirrored
    edited,       \* tracked files whose content is not that of the checksum
    asked,        \* files the user tracked directly, and did not untrack since
    up            \* the service is running

fileVars   == <<tracked, direct, via, mirrored, edited, asked>>
folderVars == <<folders, flags>>
drainVars  == <<page, row, marking>>
vars == <<fileVars, rows, folderVars, op, drainVars, up>>

RowActions == {"adopt_mirror", "mirror"}
Rows == Files \X RowActions
\* A completed row counts as absent.
Statuses == {"absent", "pending", "in_progress", "failed"}
NoRow == <<NoFile, "mirror">>

FlagOf(kind) ==
    CASE kind = "scan" -> "scanning" [] kind = "mirror" -> "mirroring" [] OTHER -> "deleting"
\* What threads of the service do, with a flag, and what commands do, without one: a
\* scan is there "auto", which tracks new files, and then "changes", a mirror is "copy".
FolderKinds == {"scan", "mirror", "delete"}
Commands == {"auto", "changes", "copy", "remove"}
Kinds == FolderKinds \cup Commands \cup {"none", "add", "track", "untrack"}
Places == {"visit", "hold", "list", "commit", "clear", "cover", "settle", "done", "finish"}
Op == [kind : Kinds, at : Places, folder : Folders \cup {NoFolder},
       todo : SUBSET Files, hand : Files \cup {NoFile, Gone}, action : RowActions]
NoOp == [kind |-> "none", at |-> "finish", folder |-> NoFolder, todo |-> {},
         hand |-> NoFile, action |-> "mirror"]

TypeOK ==
    /\ tracked \subseteq Files
    /\ direct \subseteq tracked /\ via \subseteq tracked /\ direct \cap via = {}
    /\ mirrored \subseteq tracked
    /\ edited \subseteq tracked /\ asked \subseteq Files
    /\ rows \in [Rows -> Statuses]
    /\ folders \subseteq Folders
    /\ flags \in [Folders -> SUBSET {"scanning", "mirroring", "deleting"}]
    /\ op \in [Threads -> Op]
    /\ page \subseteq Rows
    /\ row \in Rows \cup {NoRow}
    /\ marking \in Files \cup {NoFile}
    /\ up \in BOOLEAN

Init ==
    /\ tracked = {} /\ direct = {} /\ via = {} /\ mirrored = {}
    /\ edited = {} /\ asked = {}
    /\ rows = [r \in Rows |-> "absent"]
    /\ folders = {}
    /\ flags = [d \in Folders |-> {}]
    /\ op = [t \in Threads |-> NoOp]
    /\ page = {} /\ row = NoRow /\ marking = NoFile
    /\ up = TRUE
-----------------------------------------------------------------------------
Free(t) == op[t].kind = "none"
Become(t, o) == op' = [op EXCEPT ![t] = o]
At(t, kinds, place) == op[t].kind \in kinds /\ op[t].at = place
End(t) == Become(t, NoOp)

Covered(f, ds) == \E d \in ds : f \in Under[d]

\* Threads within a recomputation; deletions that have listed their files.
Recomputing == {t \in Threads : op[t].at \in {"cover", "settle"}}
Listed == {t \in Threads : At(t, {"delete", "remove"}, "commit")}
Holders(d) == {t \in Threads : op[t].folder = d}
Alone(freedom, threads) == freedom \in Allowed \/ threads = {}

\* Walks over a directory: they meet files, not ids.
Walks == {"scan", "auto"}

\* Rows of untracked files are deleted with them.  Threads have a file by its id
\* and find it no more; the worker's updates of such a row change nothing.
Without(t, gone) ==
    [op[t] EXCEPT !.todo = IF op[t].kind \in Walks THEN @ ELSE @ \ gone,
                  !.hand = IF @ \in gone THEN Gone ELSE @]

Untrack(gone) ==
    /\ tracked' = tracked \ gone
    /\ direct' = direct \ gone
    /\ via' = via \ gone
    /\ mirrored' = mirrored \ gone
    /\ edited' = edited \ gone
    /\ rows' = [r \in Rows |-> IF r[1] \in gone THEN "absent" ELSE rows[r]]
    /\ page' = {r \in page : r[1] \notin gone}
    /\ row' = IF row[1] \in gone THEN NoRow ELSE row
    /\ marking' = IF marking \in gone THEN NoFile ELSE marking

\* create_tracked_file_with_source
Track(f, directly) ==
    /\ tracked' = tracked \cup {f}
    /\ direct' = IF directly THEN direct \cup {f} ELSE direct
    /\ via' = IF directly THEN via ELSE via \cup {f}
    /\ UNCHANGED <<mirrored, edited>>
-----------------------------------------------------------------------------
(* Files: track_file and delete_file, and the commands Track, Untrack and Mirror *)

TrackFile(t, f) ==
    /\ Free(t)
    /\ f \notin tracked
    /\ Track(f, TRUE)
    /\ asked' = asked \cup {f}
    /\ Become(t, [NoOp EXCEPT !.kind = "track", !.at = "hold", !.hand = f,
                              !.action = "adopt_mirror"])
    /\ UNCHANGED <<rows, folderVars, drainVars, up>>

\* A file that is tracked already becomes directly tracked.
TrackAgain(f) ==
    /\ f \in tracked
    /\ Alone("track during delete", Listed)
    /\ direct' = direct \cup {f}
    /\ via' = via \ {f}
    /\ asked' = asked \cup {f}
    /\ UNCHANGED <<tracked, mirrored, edited, rows, folderVars, op, drainVars, up>>

\* delete_file looks for a row in transfer ...
DeleteFile(t, f) ==
    /\ up /\ Free(t)
    /\ f \in tracked
    /\ \A a \in RowActions : rows[<<f, a>>] # "in_progress"
    /\ Become(t, [NoOp EXCEPT !.kind = "untrack", !.at = "commit", !.hand = f])
    /\ UNCHANGED <<fileVars, rows, folderVars, drainVars, up>>

\* ... which the command does not.
UntrackCommand(t, f) ==
    /\ Free(t)
    /\ f \in tracked
    /\ Become(t, [NoOp EXCEPT !.kind = "untrack", !.at = "commit", !.hand = f])
    /\ UNCHANGED <<fileVars, rows, folderVars, drainVars, up>>

\* The file is deleted, and its rows.
RemoveFile(t) ==
    /\ At(t, {"untrack"}, "commit")
    /\ LET gone == {op[t].hand} \cap Files IN
          /\ Untrack(gone)
          /\ asked' = asked \ gone
          /\ op' = [s \in Threads |-> IF s = t THEN NoOp ELSE Without(s, gone)]
    /\ UNCHANGED <<folderVars, up>>
\* Mirrors a file whatever is queued for it.
CopyCommand(t, f) ==
    /\ Free(t)
    /\ f \in tracked
    /\ Become(t, [NoOp EXCEPT !.kind = "copy", !.at = "visit", !.todo = {f}])
    /\ UNCHANGED <<fileVars, rows, folderVars, drainVars, up>>
\* The request does the same.
MirrorRequest(t, f) == up /\ CopyCommand(t, f)
-----------------------------------------------------------------------------
(* Folders: the requests *)

AddFolder(t, d) ==
    /\ Free(t)
    /\ d \notin folders
    /\ folders' = folders \cup {d}
    /\ flags' = [flags EXCEPT ![d] = {}]
    /\ Become(t, [NoOp EXCEPT !.kind = "add", !.at = "clear"])
    /\ UNCHANGED <<fileVars, rows, drainVars, up>>

\* Mutant: only the operation's own flag is looked at.
UnflaggedOf(d, kind) == FlagOf(kind) \notin flags[d]
\* The conditional UPDATE of start_folder_scan, _mirror and _delete.
Unflagged(d, kind) == flags[d] = {}

\* list_tracked_files_under_folder, those that are not mirrored
ToMirror(d) == (Under[d] \cap tracked) \ mirrored

Start(t, d, kind, place, todo) ==
    /\ up /\ Free(t)
    /\ d \in folders
    /\ Unflagged(d, kind)
    /\ Alone("command beside operation", {s \in Holders(d) : op[s].kind \in Commands})
    /\ flags' = [flags EXCEPT ![d] = @ \cup {FlagOf(kind)}]
    /\ Become(t, [NoOp EXCEPT !.kind = kind, !.at = place, !.folder = d, !.todo = todo])
    /\ UNCHANGED <<fileVars, rows, folders, drainVars, up>>

StartScan(t, d) == Start(t, d, "scan", "visit", Under[d])
StartMirror(t, d) == Start(t, d, "mirror", "visit", ToMirror(d))
StartDelete(t, d) == Start(t, d, "delete", "list", {})

\* finish_folder_scan, finish_folder_mirror
Finish(t) ==
    /\ At(t, {"scan", "mirror"}, "finish")
    /\ flags' = [flags EXCEPT ![op[t].folder] = @ \ {FlagOf(op[t].kind)}]
    /\ End(t)
    /\ UNCHANGED <<fileVars, rows, folders, drainVars, up>>

\* Commands look at no flag, and need no service.
Command(t, d, kind, place, todo) ==
    /\ Free(t)
    /\ d \in folders
    /\ Alone("command beside operation", Holders(d))
    /\ Become(t, [NoOp EXCEPT !.kind = kind, !.at = place, !.folder = d, !.todo = todo])
    /\ UNCHANGED <<fileVars, rows, folderVars, drainVars, up>>

FolderCommand(t, d) ==
    \/ Command(t, d, "auto", "visit", Under[d])
    \/ Command(t, d, "copy", "visit", ToMirror(d))
    \/ Command(t, d, "remove", "list", {})
-----------------------------------------------------------------------------
(* scan_tracked_folder; auto_track_folder_files and scan_and_record_changes *)

Visiting(t, kinds, f) == At(t, kinds, "visit") /\ f \in op[t].todo
InHand(t, f, action) ==
    Become(t, [op[t] EXCEPT !.at = "hold", !.hand = f, !.todo = @ \ {f}, !.action = action])

\* create_tracked_file_from_disk
TrackNew(t, f) ==
    /\ f \notin tracked
    /\ Track(f, FALSE)
    /\ InHand(t, f, "adopt_mirror")
    /\ UNCHANGED <<asked, rows, folderVars, drainVars, up>>

ScanTrack(t, f) == Visiting(t, {"scan"}, f) /\ TrackNew(t, f)
AutoTrack(t, f) == Visiting(t, {"auto"}, f) /\ TrackNew(t, f)
ScanNew(t, f) == ScanTrack(t, f) \/ AutoTrack(t, f)

Completing(f) == {s \in Threads : op[s].at = "done" /\ op[s].hand = f}

\* update_tracked_file_checksum, update_tracked_file_mirror_status
Record(t, f) ==
    /\ Alone("change during completion", Completing(f))
    /\ edited' = edited \ {f}
    /\ mirrored' = mirrored \ {f}
    /\ InHand(t, f, "mirror")
    /\ UNCHANGED <<tracked, direct, via, asked, rows, folderVars, drainVars, up>>

\* A scan has a file with a change in its hands; a command records those it has listed.
ScanChange(t, f) == Visiting(t, {"scan"}, f) /\ f \in edited /\ Record(t, f)
CommandChange(t, f) == Visiting(t, {"changes"}, f) /\ f \in tracked /\ Record(t, f)
ScanChanged(t, f) == ScanChange(t, f) \/ CommandChange(t, f)

ScanSame(t, f) ==
    /\ Visiting(t, Walks, f)
    /\ f \in tracked /\ (op[t].kind = "scan" => f \notin edited)
    /\ Become(t, [op[t] EXCEPT !.todo = @ \ {f}])
    /\ UNCHANGED <<fileVars, rows, folderVars, drainVars, up>>

Scans == {"scan", "auto", "changes"}
AfterQueue(t) == IF op[t].kind \in Scans THEN [op[t] EXCEPT !.at = "visit", !.hand = NoFile] ELSE NoOp

Open == {"pending", "in_progress"}
\* create_sync_queue_item_dedup: an open row stands for the new one.
Queued(status) == IF status \in Open THEN status ELSE "pending"

\* create_for_new_tracking, create_from_change
Queue(t) ==
    /\ At(t, Scans \cup {"track"}, "hold")
    /\ op[t].hand # Gone
    /\ rows' = [rows EXCEPT ![<<op[t].hand, op[t].action>>] = Queued(@)]
    /\ Become(t, AfterQueue(t))
    /\ UNCHANGED <<fileVars, folderVars, drainVars, up>>

\* A thread that gives up still has its flag to clear.
GiveUp(t) ==
    IF op[t].kind = "scan" THEN [op[t] EXCEPT !.at = "finish", !.hand = NoFile, !.todo = {}] ELSE NoOp

\* The row's file is gone: the insert violates a foreign key, and a scan ends.
QueueFails(t) ==
    /\ At(t, Scans \cup {"track"}, "hold")
    /\ op[t].hand = Gone
    /\ Become(t, GiveUp(t))
    /\ UNCHANGED <<fileVars, rows, folderVars, drainVars, up>>

\* A directory or a file cannot be read: the scan ends, without a recomputation.
ScanFails(t) ==
    /\ At(t, Scans, "visit")
    /\ Become(t, GiveUp(t))
    /\ UNCHANGED <<fileVars, rows, folderVars, drainVars, up>>

AllVisited(t) ==
    /\ At(t, Walks \cup {"changes", "mirror", "copy"}, "visit") /\ op[t].todo = {}
    /\ Become(t, CASE op[t].kind \in Walks -> [op[t] EXCEPT !.at = "clear"]
                   [] op[t].kind = "mirror" -> [op[t] EXCEPT !.at = "finish"]
                   [] OTHER -> NoOp)
    /\ UNCHANGED <<fileVars, rows, folderVars, drainVars, up>>
-----------------------------------------------------------------------------
(* recompute_folder_provenance_for_drive: three statements *)

Clear(t) ==
    /\ op[t].at = "clear"
    /\ Alone("overlapping recomputes", Recomputing)
    /\ via' = {}
    /\ Become(t, [op[t] EXCEPT !.at = "cover"])
    /\ UNCHANGED <<tracked, direct, mirrored, edited, asked, rows, folderVars, drainVars, up>>

Cover(t) ==
    /\ op[t].at = "cover"
    /\ via' = via \cup {f \in tracked \ direct : Covered(f, folders)}
    /\ Become(t, [op[t] EXCEPT !.at = "settle"])
    /\ UNCHANGED <<tracked, direct, mirrored, edited, asked, rows, folderVars, drainVars, up>>

\* scan_all_changes: the command lists the files whose content has changed.
ListChanges(t) == [op[t] EXCEPT !.kind = "changes", !.at = "visit", !.todo = edited]

Settle(t) ==
    /\ op[t].at = "settle"
    /\ direct' = direct \cup (tracked \ via)
    /\ Become(t, CASE op[t].kind = "scan" -> [op[t] EXCEPT !.at = "finish"]
                   [] op[t].kind = "auto" -> ListChanges(t)
                   [] OTHER -> NoOp)
    /\ UNCHANGED <<tracked, via, mirrored, edited, asked, rows, folderVars, drainVars, up>>
-----------------------------------------------------------------------------
(* untrack_folder_cascade *)

\* Mutants: the source of a file does not count; no file goes with its folder.
OriginsAny(d) ==
    {f \in Under[d] \cap tracked : ~Covered(f, folders \ {d})}
OriginsNone(d) == {}
\* list_folder_origin_descendant_files
Origins(d) ==
    {f \in (Under[d] \cap via) \ direct : ~Covered(f, folders \ {d})}

ListOrigins(t) ==
    /\ At(t, {"delete", "remove"}, "list")
    /\ Alone("deletes together", Listed)
    /\ Alone("overlapping recomputes", Recomputing)
    /\ Become(t, [op[t] EXCEPT !.at = "commit", !.todo = Origins(op[t].folder)])
    /\ UNCHANGED <<fileVars, rows, folderVars, drainVars, up>>

\* delete_folder_cascade_tx
CommitDelete(t) ==
    /\ At(t, {"delete", "remove"}, "commit")
    /\ Untrack(op[t].todo)
    /\ folders' = folders \ {op[t].folder}
    /\ flags' = [flags EXCEPT ![op[t].folder] = {}]
    /\ op' = [s \in Threads |->
                IF s = t THEN [NoOp EXCEPT !.kind = "add", !.at = "clear"]
                         ELSE Without(s, op[t].todo)]
    /\ UNCHANGED <<asked, up>>

\* Mutant: the flag is left.
DeleteFailsFlagged(t) ==
    /\ op[t].kind \in {"delete", "remove"}
    /\ End(t)
    /\ UNCHANGED <<fileVars, rows, folderVars, drainVars, up>>
\* The database refuses: clear_folder_delete.
DeleteFails(t) ==
    /\ op[t].kind \in {"delete", "remove"}
    /\ flags' = IF op[t].kind = "remove" THEN flags
                ELSE [flags EXCEPT ![op[t].folder] = @ \ {"deleting"}]
    /\ End(t)
    /\ UNCHANGED <<fileVars, rows, folders, drainVars, up>>
-----------------------------------------------------------------------------
(* mirror_folder, and the commands that mirror *)

Mirrors == {"mirror", "copy"}

\* start_pending_mirror_queue_for_file, which the commands leave out, then the copy.
MirrorFile(t, f) ==
    /\ Visiting(t, Mirrors, f)
    /\ rows' = [r \in Rows |->
                  IF op[t].kind = "mirror" /\ r[1] = f /\ rows[r] = "pending"
                  THEN "in_progress" ELSE rows[r]]
    /\ InHand(t, f, "mirror")
    /\ UNCHANGED <<fileVars, folderVars, drainVars, up>>

SettleRows(f, status) ==
    rows' = [r \in Rows |-> IF r[1] = f /\ rows[r] \in Open THEN status ELSE rows[r]]

\* Mutant: a failed copy settles the rows like a good one.
FileFailedCompleted(t) ==
    /\ At(t, {"mirror"}, "hold")
    /\ SettleRows(op[t].hand, "absent")
    /\ Become(t, [op[t] EXCEPT !.at = "visit", !.hand = NoFile])
    /\ UNCHANGED <<fileVars, folderVars, drainVars, up>>
\* A command ends with the error.
CopyFailed(t) ==
    /\ At(t, {"copy"}, "hold")
    /\ End(t)
    /\ UNCHANGED <<fileVars, rows, folderVars, drainVars, up>>

\* fail_pending_mirror_queue_for_file
FileFailed(t) ==
    /\ At(t, {"mirror"}, "hold")
    /\ SettleRows(op[t].hand, "failed")
    /\ Become(t, [op[t] EXCEPT !.at = "visit", !.hand = NoFile])
    /\ UNCHANGED <<fileVars, folderVars, drainVars, up>>

\* is_mirrored ...
FileMirrored(t) ==
    /\ At(t, Mirrors, "hold")
    /\ mirrored' = mirrored \cup ({op[t].hand} \cap Files)
    /\ Become(t, [op[t] EXCEPT !.at = "done"])
    /\ UNCHANGED <<tracked, direct, via, edited, asked, rows, folderVars, drainVars, up>>

\* ... and complete_pending_mirror_queue_for_file
CompleteRows(t) ==
    /\ At(t, Mirrors, "done")
    /\ SettleRows(op[t].hand, "absent")
    /\ Become(t, [op[t] EXCEPT !.at = "visit", !.hand = NoFile])
    /\ UNCHANGED <<fileVars, folderVars, drainVars, up>>
-----------------------------------------------------------------------------
(* The queue worker: process_all_pending and process_item *)

RequeueAndFetch ==
    /\ up /\ page = {} /\ row = NoRow /\ marking = NoFile
    /\ rows' = [r \in Rows |-> IF rows[r] = "in_progress" THEN "pending" ELSE rows[r]]
    /\ page' \in SUBSET {r \in Rows : rows'[r] = "pending"}
    /\ Cardinality(page') \in 1..PerPage
    /\ UNCHANGED <<fileVars, folderVars, op, row, marking, up>>

\* The status is written without a look at what it is by now.
TakeRow(r) ==
    /\ row = NoRow /\ marking = NoFile
    /\ r \in page
    /\ page' = page \ {r}
    /\ row' = r
    /\ rows' = [rows EXCEPT ![r] = "in_progress"]
    /\ UNCHANGED <<fileVars, folderVars, op, marking, up>>

RowCompleted ==
    /\ row # NoRow
    /\ rows' = [rows EXCEPT ![row] = "absent"]
    /\ row' = NoRow
    /\ marking' = row[1]
    /\ UNCHANGED <<fileVars, folderVars, op, page, up>>

MarkMirrored ==
    /\ marking # NoFile
    /\ mirrored' = mirrored \cup {marking}
    /\ marking' = NoFile
    /\ UNCHANGED <<tracked, direct, via, edited, asked, rows, folderVars, op, page, row, up>>

\* The error of an adopt_mirror row leaves process_item before the row is settled.
RowFailed ==
    /\ row # NoRow
    /\ rows' = IF row[2] = "mirror" THEN [rows EXCEPT ![row] = "failed"] ELSE rows
    /\ row' = NoRow
    /\ UNCHANGED <<fileVars, folderVars, op, page, marking, up>>
-----------------------------------------------------------------------------
(* Users and the process *)

Edit(f) ==
    /\ f \in tracked \ edited
    /\ edited' = edited \cup {f}
    /\ UNCHANGED <<tracked, direct, via, mirrored, asked, rows, folderVars, op, drainVars, up>>

\* Threads between two statements that belong together, as the queue worker is
\* when it has a file to mark.
HalfDone == Recomputing \cup {t \in Threads : At(t, Scans \cup {"track"}, "hold")}

\* Threads of the service, by what they do; what both do may be either's.
OfService == {t \in Threads : op[t].kind \in FolderKinds}
OfCommands == {t \in Threads : op[t].kind \in Commands}

Die(dead) ==
    /\ Alone("crash between writes", HalfDone \cap dead)
    /\ op' = [t \in Threads |-> IF t \in dead THEN NoOp ELSE op[t]]

Kill ==
    /\ up
    /\ \E dead \in SUBSET (Threads \ OfCommands) : OfService \subseteq dead /\ Die(dead)
    /\ marking = NoFile \/ "crash between writes" \in Allowed
    /\ up' = FALSE
    /\ page' = {} /\ row' = NoRow /\ marking' = NoFile
    /\ UNCHANGED <<fileVars, rows, folderVars>>

\* A user interrupts a command.
Interrupt(t) ==
    /\ t \notin OfService /\ ~Free(t)
    /\ Die({t})
    /\ UNCHANGED <<fileVars, rows, folderVars, drainVars, up>>

\* reset_stale_folder_flags
ResetFlags == [d \in Folders |-> {}]

Restart ==
    /\ ~up
    /\ up' = TRUE
    /\ flags' = ResetFlags
    /\ UNCHANGED <<fileVars, rows, folders, op, drainVars>>
-----------------------------------------------------------------------------
Requests ==
    \E t \in Threads :
       \/ \E f \in Touched : \/ TrackFile(t, f) \/ DeleteFile(t, f) \/ MirrorRequest(t, f)
                             \/ UntrackCommand(t, f) \/ CopyCommand(t, f)
       \/ \E d \in Folders : \/ AddFolder(t, d) \/ StartScan(t, d) \/ StartMirror(t, d)
                             \/ StartDelete(t, d) \/ FolderCommand(t, d)

Work(t) ==
    \/ RemoveFile(t) \/ Finish(t)
    \/ \E f \in Files : ScanNew(t, f) \/ ScanChanged(t, f) \/ ScanSame(t, f) \/ MirrorFile(t, f)
    \/ Queue(t) \/ QueueFails(t) \/ ScanFails(t) \/ AllVisited(t)
    \/ Clear(t) \/ Cover(t) \/ Settle(t)
    \/ ListOrigins(t) \/ CommitDelete(t) \/ DeleteFails(t)
    \/ FileFailed(t) \/ FileMirrored(t) \/ CompleteRows(t) \/ CopyFailed(t)
    \/ Interrupt(t)

Worker == RequeueAndFetch \/ (\E r \in Rows : TakeRow(r)) \/ RowCompleted \/ MarkMirrored \/ RowFailed

Users == \E f \in Touched : TrackAgain(f) \/ Edit(f)

Next ==
    \/ Requests
    \/ \E t \in Threads : Work(t)
    \/ Worker
    \/ Users
    \/ Kill \/ Restart

Spec == Init /\ [][Next]_vars
-----------------------------------------------------------------------------
(* What the operations keep *)

Exclusion == INSTANCE FolderExclusion WITH holders <- [d \in Folders |-> Holders(d)]

\* What FolderExclusion promises: the flags, set by one conditional UPDATE and cleared on
\* every way out, let one operation at a time work on a folder (folders.rs: 409 "already
\* active"), and a command beside none.
ExclusionSpec == Exclusion!Spec

\* A flag stands for a thread of the running service: whatever an operation dies
\* of, the folder does not refuse all others from then on.
FlagHasThread ==
    up => \A d \in Folders : flags[d] # {} => Holders(d) \cap OfService # {}

\* Adding, scanning and deleting folders, which recompute the sources of every
\* file, do not make a file that came with a folder one the user tracked
\* (docs/ARCHITECTURE.md: tracked_direct, tracked_via_folder).
DirectWasAsked == direct \subseteq asked

\* A file the user tracked explicitly stays tracked until the user untracks it,
\* whatever is done to the folders above it (docs/API.md, DELETE /folders/{id}:
\* "Descendant files that were explicitly tracked remain tracked").
ExplicitStaysTracked == asked \subseteq tracked \cap direct

InHandOf(f) == {t \in Threads : op[t].hand = f /\ op[t].at = "hold"}

\* A file that is not mirrored has a row, be it a failed one, or a thread that is
\* about to write it: scans, folder mirrors and the queue worker settle rows next
\* to each other and lose none.
UnmirroredIsQueued ==
    \A f \in tracked \ mirrored :
        InHandOf(f) # {} \/ marking = f \/ \E a \in RowActions : rows[<<f, a>>] # "absent"
=============================================================================
