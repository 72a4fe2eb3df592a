--------------------------- MODULE DriveLifecycle ---------------------------
(***************************************************************************)
(* What drive.rs promises about the two slots of a drive pair: "active ->  *)
(* quiescing -> failed -> rebuilding -> active" (docs/ARCHITECTURE.md:356),*)
(* a failed active slot hands the active role to the other slot, and a     *)
(* rebuilt primary takes it back.                                          *)
(***************************************************************************)
VARIABLES
    slot,       \* primary_state and secondary_state
    active      \* active_role

vars == <<slot, active>>

Roles == {"primary", "secondary"}
States == {"active", "quiescing", "failed", "rebuilding"}
Other(r) == IF r = "primary" THEN "secondary" ELSE "primary"

Init ==
    /\ slot = [r \in Roles |-> "active"]
    /\ active = "primary"

Move(r, from, to) ==
    /\ slot[r] = from
    /\ slot' = [slot EXCEPT ![r] = to]

Quiesce(r) == Move(r, "active", "quiescing") /\ UNCHANGED active

Cancel(r) == Move(r, "quiescing", "active") /\ UNCHANGED active

HandOver(r) == active' = IF active = r THEN Other(r) ELSE active

Fail(r) == Move(r, "quiescing", "failed") /\ HandOver(r)

\* The active root is lost: only a healthy standby may take over unasked.
FailOver ==
    /\ slot[Other(active)] = "active"
    /\ Move(active, "active", "failed")
    /\ HandOver(active)

Replace(r) == Move(r, "failed", "rebuilding") /\ UNCHANGED active

Rebuilt(r) ==
    /\ Move(r, "rebuilding", "active")
    /\ active' = IF r = "primary" THEN "primary" ELSE active

Next ==
    \/ \E r \in Roles : Quiesce(r) \/ Cancel(r) \/ Fail(r) \/ Replace(r) \/ Rebuilt(r)
    \/ FailOver

Spec == Init /\ [][Next]_vars
=============================================================================
