----------------------------- MODULE WorkQueue -----------------------------
(***************************************************************************)
(* What the sync queue promises, without locks, passes or processes        *)
(* (src/src/core/sync_queue.rs, doc comment of process_all_pending): a     *)
(* drive pair never carries two transfers at once, rows are fetched and    *)
(* put back to pending only when nobody is at work on any, a completed row *)
(* stays completed, and a failed one too unless it was fetched before its  *)
(* drive pair failed over: whoever has fetched it goes on with it.         *)
(***************************************************************************)
CONSTANTS
    Rows,       \* identifiers of sync_queue rows
    Pairs,      \* drive pairs
    PairOf      \* the drive pair of each row's tracked file

VARIABLES
    status,     \* status column of each row; "absent" before it is inserted
    fetched,    \* rows that were fetched and are still to be visited
    busy        \* rows whose file operation is running

vars == <<status, fetched, busy>>

Final == {"completed", "failed"}
Nobody == fetched = {} /\ busy = {}

Init ==
    /\ status \in [Rows -> {"absent", "pending", "in_progress"}]
    /\ Nobody

Insert(i) ==
    /\ status[i] = "absent"
    /\ status' = [status EXCEPT ![i] = "pending"]
    /\ UNCHANGED <<fetched, busy>>

Fetch ==
    /\ Nobody
    /\ fetched' \in SUBSET {i \in Rows : status[i] = "pending"}
    /\ UNCHANGED <<status, busy>>

\* The rows of a pair fail with its active drive, between two transfers.
FailOver(p) ==
    /\ \E i \in fetched : PairOf[i] = p
    /\ \A j \in busy : PairOf[j] # p
    /\ status' = [i \in Rows |->
                    IF PairOf[i] = p /\ status[i] \in {"pending", "in_progress"}
                    THEN "failed" ELSE status[i]]
    /\ UNCHANGED <<fetched, busy>>

Start(i) ==
    /\ i \in fetched
    /\ status[i] \in {"pending", "failed"}
    /\ \A j \in busy : PairOf[j] # PairOf[i]
    /\ status' = [status EXCEPT ![i] = "in_progress"]
    /\ fetched' = fetched \ {i}
    /\ busy' = busy \cup {i}

Finish(i) ==
    /\ i \in busy
    /\ \E s \in Final : status' = [status EXCEPT ![i] = s]
    /\ busy' = busy \ {i}
    /\ UNCHANGED fetched

\* A user's decision settles a row that no transfer belongs to.
Resolve(i) ==
    /\ status[i] = "pending"
    /\ status' = [status EXCEPT ![i] = "completed"]
    /\ UNCHANGED <<fetched, busy>>

\* A process dies, an operation is given up or fetched rows are left for
\* later: rows keep their status.
Abandon ==
    /\ fetched' \in SUBSET fetched
    /\ busy' \in SUBSET busy
    /\ UNCHANGED status

Requeue ==
    /\ Nobody
    /\ status' = [i \in Rows |->
                    IF status[i] = "in_progress" THEN "pending" ELSE status[i]]
    /\ UNCHANGED <<fetched, busy>>

Next ==
    \/ \E i \in Rows : Insert(i) \/ Start(i) \/ Finish(i) \/ Resolve(i)
    \/ \E p \in Pairs : FailOver(p)
    \/ Fetch \/ Abandon \/ Requeue

Spec == Init /\ [][Next]_vars
=============================================================================
