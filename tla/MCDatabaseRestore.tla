-------------------------- MODULE MCDatabaseRestore --------------------------
(* Small instances of DatabaseRestore for TLC. *)
EXTENDS DatabaseRestore, TLC
=============================================================================
