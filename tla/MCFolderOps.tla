---------------------------- MODULE MCFolderOps ----------------------------
(* Small instances of FolderOps for TLC. *)
EXTENDS FolderOps, TLC

CONSTANTS f1, d1, d2, t1, t2

OneFile == {f1}
TwoFolders == {d1, d2}
Both == [d \in Folders |-> Files]
TwoThreads == {t1, t2}
AllAlike == Permutations(Threads) \cup Permutations(Folders)
=============================================================================
