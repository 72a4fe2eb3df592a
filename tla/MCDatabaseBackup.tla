--------------------------- MODULE MCDatabaseBackup ---------------------------
(* Small instances of DatabaseBackup for TLC: one thread that runs backups   *)
(* and one that runs checks, as the scheduler starts them.                   *)
EXTENDS DatabaseBackup, TLC

CONSTANTS d1, d2, backer, checker

TwoDirs == {d1, d2}
OwnDirs == [i \in {1, 2} |-> IF i = 1 THEN {d1} ELSE {d1, d2}]
OneBacker == {backer}
OneChecker == {checker}
=============================================================================
