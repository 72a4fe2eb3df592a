---------------------------- MODULE MCSyncEvents ----------------------------
(* Small instances of SyncEvents for TLC. *)
EXTENDS SyncEvents

CONSTANTS h, w, z, c
=============================================================================
