--------------------------- MODULE FolderExclusion ---------------------------
(***************************************************************************)
(* What the scan, mirror and delete operations of tracked folders promise  *)
(* (src/src/api/routes/folders.rs: "Folder operation already active"): one *)
(* of them at a time works on a folder, and a folder disappears under      *)
(* nobody but the deletion that removes it.                                *)
(***************************************************************************)
CONSTANTS
    Folders,    \* folder paths that may be tracked
    Threads     \* threads that carry out operations

VARIABLES
    folders,    \* the tracked folders
    holders     \* the threads at work on each folder

vars == <<folders, holders>>

Idle == [d \in Folders |-> {}]

Init ==
    /\ folders = {}
    /\ holders = Idle

Add(d) ==
    /\ d \notin folders
    /\ folders' = folders \cup {d}
    /\ UNCHANGED holders

Begin(d, t) ==
    /\ d \in folders
    /\ holders[d] = {}
    /\ holders' = [holders EXCEPT ![d] = {t}]
    /\ UNCHANGED folders

End(d, t) ==
    /\ holders[d] = {t}
    /\ holders' = [holders EXCEPT ![d] = {}]
    /\ UNCHANGED folders

Remove(d, t) ==
    /\ holders[d] = {t}
    /\ holders' = [holders EXCEPT ![d] = {}]
    /\ folders' = folders \ {d}

\* The service is killed: what it was at work on is free, what a command is at work on is not.
Crash ==
    /\ \E gone \in SUBSET Folders :
          holders' = [d \in Folders |-> IF d \in gone THEN {} ELSE holders[d]]
    /\ UNCHANGED folders

Next ==
    \/ \E d \in Folders : Add(d)
    \/ \E d \in Folders, t \in Threads : Begin(d, t) \/ End(d, t) \/ Remove(d, t)
    \/ Crash

Spec == Init /\ [][Next]_vars
=============================================================================
