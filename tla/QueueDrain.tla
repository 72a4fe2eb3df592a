----------------------------- MODULE QueueDrain -----------------------------
(***************************************************************************)
(* process_all_pending (src/src/core/sync_queue.rs): draining the sync     *)
(* queue from several threads of several operating-system processes (the   *)
(* API worker, the scheduler, the command line) that share one database    *)
(* row as a lock (sync_settings.processing_locked_at).                     *)
(*                                                                         *)
(* Each call is a runner.  It claims the lock, puts rows left in_progress  *)
(* back to pending, and then makes passes: a pass writes the heartbeat,    *)
(* reads the pending rows, runs one thread per drive pair over them and    *)
(* joins the threads.  Processes may be killed at any point; a lock        *)
(* whose recorded process is dead, or whose timestamp is StaleAfter old,   *)
(* may be taken over.                                                      *)
(*                                                                         *)
(* Time is kept as ages: lockAge is the age of processing_locked_at        *)
(* (saturating at StaleAfter, from where on it is stale) and since[r] the  *)
(* time since runner r last wrote it.  MaxPass bounds since: the time a    *)
(* runner takes from one heartbeat to the next.                            *)
(***************************************************************************)
EXTENDS Naturals, FiniteSets

CONSTANTS
    Runners,      \* calls of process_all_pending
    Procs,        \* operating-system processes
    ProcOf,       \* the process a runner runs in
    Timed,        \* runners called with a stop_by deadline
    Pairs,        \* drive pairs
    Rows,         \* sync_queue row ids, a set of naturals: rows of a pair are
                  \* taken in the order of their ids
    PairOf,       \* the drive pair of each row's tracked file
    UserRows,     \* rows whose action is user_action_required
    PageSize,     \* page_size: rows fetched per pass
    StaleAfter,   \* PROCESSING_LOCK_STALE_AFTER_SECS
    MaxPass,      \* bound on the time between two heartbeats of a runner
    MaxKills,     \* bound on the number of killed processes
    NoProc,       \* processing_locked_by_pid is NULL
    NoRow         \* a pair thread that has no row, or is not transferring

ASSUME ConstantsOK ==
    /\ ProcOf \in [Runners -> Procs]
    /\ PairOf \in [Rows -> Pairs]
    /\ Timed \subseteq Runners
    /\ Rows \subseteq Nat
    /\ UserRows \subseteq Rows
    /\ PageSize \in Nat \ {0}
    /\ StaleAfter \in Nat \ {0}
    /\ MaxPass \in Nat \ {0}
    /\ MaxKills \in Nat
    /\ NoProc \notin Procs
    /\ NoRow \notin Rows

VARIABLES
    locked,       \* processing_locked_at IS NOT NULL
    lockedBy,     \* processing_locked_by_pid
    lockAge,      \* now - processing_locked_at, saturating at StaleAfter
    alive,        \* which processes exist (/proc/<pid>)
    paused,       \* sync_settings.queue_paused
    quiescing,    \* drive pairs with a slot in quiescing
    degraded,     \* drive pairs that failed over and are not rebuilt
    kills,        \* processes killed so far
    status,       \* sync_queue.status per row; "absent": not inserted yet
    pc,           \* where each runner is in process_all_pending
    seen,         \* held_by as read by try_acquire_sync_processing_lock
    since,        \* time since a runner last wrote processing_locked_at
    batch,        \* rows each pair thread of a runner has still to visit
    hand,         \* the row a pair thread has loaded file and pair for
    cur,          \* the row each pair thread is transferring
    allSkipped,   \* the pass fetched user_action_required rows only
    expired       \* runners whose stop_by deadline has passed

lockVars == <<locked, lockedBy, lockAge>>
envVars  == <<alive, paused, quiescing, degraded, kills>>
runVars  == <<pc, seen, since, batch, hand, cur, allSkipped, expired>>
vars     == <<lockVars, envVars, status, runVars>>

Statuses == {"absent", "pending", "in_progress", "completed", "failed"}
Locations == {"idle", "claim", "requeue", "top", "pass", "release"}

TypeOK ==
    /\ locked \in BOOLEAN
    /\ lockedBy \in Procs \cup {NoProc}
    /\ lockAge \in 0..StaleAfter
    /\ alive \in [Procs -> BOOLEAN]
    /\ paused \in BOOLEAN
    /\ quiescing \subseteq Pairs
    /\ degraded \subseteq Pairs
    /\ status \in [Rows -> Statuses]
    /\ pc \in [Runners -> Locations]
    /\ seen \in [Runners -> [pid : Procs \cup {NoProc}, dead : BOOLEAN]]
    /\ since \in [Runners -> 0..MaxPass]
    /\ batch \in [Runners -> [Pairs -> SUBSET Rows]]
    /\ hand \in [Runners -> [Pairs -> Rows \cup {NoRow}]]
    /\ cur \in [Runners -> [Pairs -> Rows \cup {NoRow}]]
    /\ allSkipped \in [Runners -> BOOLEAN]
    /\ expired \subseteq Timed
    /\ kills \in 0..MaxKills

\* Runners between a successful claim and the release of the lock guard.
Draining(r) == pc[r] \in {"requeue", "top", "pass", "release"}

NoRows == [p \in Pairs |-> {}]
NoTransfers == [p \in Pairs |-> NoRow]
Unread == [pid |-> NoProc, dead |-> FALSE]

Init ==
    /\ locked = FALSE
    /\ lockedBy = NoProc
    /\ lockAge = 0
    /\ alive = [o \in Procs |-> TRUE]
    /\ paused = FALSE
    /\ quiescing = {}
    /\ degraded = {}
    /\ status \in [Rows -> {"absent", "pending", "in_progress"}]
    /\ pc = [r \in Runners |-> "idle"]
    /\ seen = [r \in Runners |-> Unread]
    /\ since = [r \in Runners |-> 0]
    /\ batch = [r \in Runners |-> NoRows]
    /\ hand = [r \in Runners |-> NoTransfers]
    /\ cur = [r \in Runners |-> NoTransfers]
    /\ allSkipped = [r \in Runners |-> FALSE]
    /\ expired = {}
    /\ kills = 0
-----------------------------------------------------------------------------
(* try_acquire_sync_processing_lock: a SELECT and a guarded UPDATE *)

\* Mutant of ReadHolder: another process always looks dead.
ReadHolderForeignDead(r) ==
    /\ pc[r] = "idle"
    /\ alive[ProcOf[r]]
    /\ pc' = [pc EXCEPT ![r] = "claim"]
    /\ seen' = [seen EXCEPT ![r] =
                  [pid |-> lockedBy, dead |-> lockedBy \in Procs \ {ProcOf[r]}]]
    /\ UNCHANGED <<lockVars, envVars, status, since, batch, hand, cur, allSkipped, expired>>

ReadHolder(r) ==
    /\ pc[r] = "idle"
    /\ alive[ProcOf[r]]
    /\ pc' = [pc EXCEPT ![r] = "claim"]
    /\ seen' = [seen EXCEPT ![r] =
                  [pid  |-> lockedBy,
                   dead |-> lockedBy \in Procs /\ ~alive[lockedBy]]]
    /\ UNCHANGED <<lockVars, envVars, status, since, batch, hand, cur, allSkipped, expired>>

\* Mutant of Claimable: a lock never goes stale.
ClaimableIfDead(r) == ~locked \/ (seen[r].dead /\ lockedBy = seen[r].pid)

Claimable(r) ==
    \/ ~locked
    \/ lockAge >= StaleAfter
    \/ seen[r].dead /\ lockedBy = seen[r].pid

Claim(r) ==
    /\ pc[r] = "claim"
    /\ Claimable(r)
    /\ locked' = TRUE
    /\ lockedBy' = ProcOf[r]
    /\ lockAge' = 0
    /\ since' = [since EXCEPT ![r] = 0]
    /\ pc' = [pc EXCEPT ![r] = "requeue"]
    /\ seen' = [seen EXCEPT ![r] = Unread]
    /\ UNCHANGED <<envVars, status, batch, hand, cur, allSkipped, expired>>

\* Mutant of GiveUp: the guard that releases the lock exists already.
GiveUpReleasing(r) ==
    /\ pc[r] = "claim"
    /\ ~Claimable(r)
    /\ pc' = [pc EXCEPT ![r] = "idle"]
    /\ seen' = [seen EXCEPT ![r] = Unread]
    /\ locked' = FALSE /\ lockedBy' = NoProc /\ lockAge' = 0
    /\ UNCHANGED <<envVars, status, since, batch, hand, cur, allSkipped, expired>>

\* The UPDATE matched no row: process_all_pending returns 0.
GiveUp(r) ==
    /\ pc[r] = "claim"
    /\ ~Claimable(r)
    /\ pc' = [pc EXCEPT ![r] = "idle"]
    /\ seen' = [seen EXCEPT ![r] = Unread]
    /\ UNCHANGED <<lockVars, envVars, status, since, batch, hand, cur, allSkipped, expired>>

\* Mutant of Requeued: failed rows are retried too.
RequeuedFailed(s) ==
    [i \in Rows |-> IF s[i] \in {"in_progress", "failed"} THEN "pending" ELSE s[i]]

\* requeue_in_progress_sync_queue, for every drive pair at once.
Requeued(s) ==
    [i \in Rows |-> IF s[i] = "in_progress" THEN "pending" ELSE s[i]]

Requeue(r) ==
    /\ pc[r] = "requeue"
    /\ status' = Requeued(status)
    /\ pc' = [pc EXCEPT ![r] = "top"]
    /\ UNCHANGED <<lockVars, envVars, seen, since, batch, hand, cur, allSkipped, expired>>
-----------------------------------------------------------------------------
(* The loop of process_all_pending *)

Pending == {i \in Rows : status[i] = "pending"}

\* list_pending_sync_queue_with_drive_pair: rank the pending rows of each pair
\* by id, order all by rank and then id, and take the first PageSize.
PairRank(i) == Cardinality({j \in Pending : PairOf[j] = PairOf[i] /\ j < i})

FetchedBefore(i, j) ==
    \/ PairRank(i) < PairRank(j)
    \/ PairRank(i) = PairRank(j) /\ i < j

Page ==
    {i \in Pending : Cardinality({j \in Pending : FetchedBefore(j, i)}) < PageSize}

\* Mutant of Heartbeat: the timestamp stays that of the claim.
HeartbeatForgotten(r) ==
    /\ since' = [since EXCEPT ![r] = 0]
    /\ UNCHANGED lockVars

\* heartbeat_sync_processing_lock writes the timestamp whoever holds the lock,
\* and leaves processing_locked_by_pid alone.
Heartbeat(r) ==
    /\ locked' = TRUE
    /\ lockAge' = 0
    /\ since' = [since EXCEPT ![r] = 0]
    /\ UNCHANGED lockedBy

\* queue_paused is set, or the deadline has passed.
MustStop(r) == paused \/ r \in expired

StopAtTop(r) ==
    /\ pc[r] = "top"
    /\ Heartbeat(r)
    /\ MustStop(r) \/ Page = {}
    /\ pc' = [pc EXCEPT ![r] = "release"]
    /\ UNCHANGED <<envVars, status, seen, batch, hand, cur, allSkipped, expired>>

BeginPass(r) ==
    /\ pc[r] = "top"
    /\ Heartbeat(r)
    /\ ~MustStop(r)
    /\ Page # {}
    /\ batch' = [batch EXCEPT ![r] =
                   [p \in Pairs |-> {i \in Page : PairOf[i] = p}]]
    /\ allSkipped' = [allSkipped EXCEPT ![r] = Page \subseteq UserRows]
    /\ pc' = [pc EXCEPT ![r] = "pass"]
    /\ UNCHANGED <<envVars, status, seen, hand, cur, expired>>

\* The next row of a pair thread: ids ascend within a pair.
NextRow(r, p, i) ==
    /\ pc[r] = "pass"
    /\ hand[r][p] = NoRow /\ cur[r][p] = NoRow
    /\ i \in batch[r][p]
    /\ \A j \in batch[r][p] : i <= j

\* Mutant of SkipRow: a skipped row ends the thread.
SkipRowAndRest(r, p) ==
    /\ \E i \in batch[r][p] :
          /\ NextRow(r, p, i)
          /\ i \in UserRows \/ (~MustStop(r) /\ p \in quiescing)
    /\ batch' = [batch EXCEPT ![r][p] = {}]
    /\ UNCHANGED <<lockVars, envVars, status, pc, seen, since, hand, cur, allSkipped, expired>>

\* process_item leaves the row as it is when it needs a user's decision or when
\* a slot of its pair is quiescing.
SkipRow(r, p) ==
    /\ \E i \in batch[r][p] :
          /\ NextRow(r, p, i)
          /\ i \in UserRows \/ (~MustStop(r) /\ p \in quiescing)
          /\ batch' = [batch EXCEPT ![r][p] = @ \ {i}]
    /\ UNCHANGED <<lockVars, envVars, status, pc, seen, since, hand, cur, allSkipped, expired>>

\* Pause flag or deadline seen between two rows: the thread ends its pass.
StopThread(r, p) ==
    /\ \E i \in batch[r][p] : NextRow(r, p, i) /\ i \notin UserRows
    /\ MustStop(r)
    /\ batch' = [batch EXCEPT ![r][p] = {}]
    /\ UNCHANGED <<lockVars, envVars, status, pc, seen, since, hand, cur, allSkipped, expired>>

\* fail_pending_sync_queue_for_drive_pair.
FailedOver(p) ==
    [i \in Rows |-> IF PairOf[i] = p /\ status[i] \in {"pending", "in_progress"}
                   THEN "failed" ELSE status[i]]

\* process_item loads the pair whatever the row's status is by now.  A pair whose
\* active drive is gone fails over first (load_operational_pair), once until it
\* has been rebuilt, and with it fail its rows, the one in hand included.
LoadPair(r, p) ==
    /\ \E i \in batch[r][p] :
          /\ NextRow(r, p, i)
          /\ i \notin UserRows
          /\ ~MustStop(r)
          /\ p \notin quiescing
          /\ hand' = [hand EXCEPT ![r][p] = i]
          /\ batch' = [batch EXCEPT ![r][p] = @ \ {i}]
    /\ \/ UNCHANGED <<status, degraded>>
       \/ p \notin degraded /\ degraded' = degraded \cup {p} /\ status' = FailedOver(p)
    /\ UNCHANGED <<lockVars, alive, paused, quiescing, kills, pc, seen, since, cur, allSkipped, expired>>

\* in_progress is written over whatever the row's status is.
StartRow(r, p) ==
    /\ hand[r][p] # NoRow
    /\ status' = [status EXCEPT ![hand[r][p]] = "in_progress"]
    /\ cur' = [cur EXCEPT ![r][p] = hand[r][p]]
    /\ hand' = [hand EXCEPT ![r][p] = NoRow]
    /\ UNCHANGED <<lockVars, envVars, pc, seen, since, batch, allSkipped, expired>>

\* The file operation ends, and may end the rebuild of the pair.  An adopt_mirror
\* or verify row whose operation fails inside process_item's match returns early
\* and stays in_progress.
FinishRow(r, p) ==
    /\ pc[r] = "pass"
    /\ cur[r][p] # NoRow
    /\ \/ /\ status' = [status EXCEPT ![cur[r][p]] = "completed"]
          /\ degraded' \in {degraded, degraded \ {p}}
       \/ status' = [status EXCEPT ![cur[r][p]] = "failed"] /\ UNCHANGED degraded
       \/ UNCHANGED <<status, degraded>>
    /\ cur' = [cur EXCEPT ![r][p] = NoRow]
    /\ UNCHANGED <<lockVars, alive, paused, quiescing, kills, pc, seen, since, batch, hand, allSkipped, expired>>

\* Mutant of EndPass: no look at all_skipped.
EndPassAgain(r) ==
    /\ pc[r] = "pass"
    /\ batch[r] = NoRows
    /\ hand[r] = NoTransfers /\ cur[r] = NoTransfers
    /\ pc' = [pc EXCEPT ![r] = "top"]
    /\ allSkipped' = [allSkipped EXCEPT ![r] = FALSE]
    /\ UNCHANGED <<lockVars, envVars, status, seen, since, batch, hand, cur, expired>>

EndPass(r) ==
    /\ pc[r] = "pass"
    /\ batch[r] = NoRows
    /\ hand[r] = NoTransfers /\ cur[r] = NoTransfers
    /\ pc' = [pc EXCEPT ![r] = IF allSkipped[r] THEN "release" ELSE "top"]
    /\ allSkipped' = [allSkipped EXCEPT ![r] = FALSE]
    /\ UNCHANGED <<lockVars, envVars, status, seen, since, batch, hand, cur, expired>>

\* ProcessingLockGuard::drop clears both columns whoever holds the lock.
Release(r) ==
    /\ pc[r] = "release"
    /\ locked' = FALSE
    /\ lockedBy' = NoProc
    /\ lockAge' = 0
    /\ pc' = [pc EXCEPT ![r] = "idle"]
    /\ since' = [since EXCEPT ![r] = 0]
    /\ expired' = expired \ {r}
    /\ UNCHANGED <<envVars, status, seen, batch, hand, cur, allSkipped>>
-----------------------------------------------------------------------------
(* The rest of the program and the machine *)

\* The local variable f of the runners of process o is gone.
Reset(f, o, v) == [r \in Runners |-> IF ProcOf[r] = o THEN v ELSE f[r]]

\* A killed process runs no destructor: lock and rows stay as they are.
Kill(o) ==
    /\ alive[o]
    /\ kills < MaxKills
    /\ kills' = kills + 1
    /\ alive' = [alive EXCEPT ![o] = FALSE]
    /\ pc' = Reset(pc, o, "idle")
    /\ seen' = Reset(seen, o, Unread)
    /\ since' = Reset(since, o, 0)
    /\ batch' = Reset(batch, o, NoRows)
    /\ hand' = Reset(hand, o, NoTransfers)
    /\ cur' = Reset(cur, o, NoTransfers)
    /\ allSkipped' = Reset(allSkipped, o, FALSE)
    /\ expired' = {r \in expired : ProcOf[r] # o}
    /\ UNCHANGED <<lockVars, paused, quiescing, degraded, status>>

\* The process is started again under the same pid.  Pids are handed out in
\* turn, so a pid does not come back between the SELECT and the UPDATE of a claim.
Restart(o) ==
    /\ ~alive[o]
    /\ \A r \in Runners : ~(seen[r].dead /\ seen[r].pid = o)
    /\ alive' = [alive EXCEPT ![o] = TRUE]
    /\ UNCHANGED <<lockVars, paused, quiescing, degraded, kills, status, runVars>>

SetPaused ==
    /\ paused' = ~paused
    /\ UNCHANGED <<lockVars, alive, quiescing, degraded, kills, status, runVars>>

SetQuiescing(p) ==
    /\ quiescing' = IF p \in quiescing THEN quiescing \ {p} ELSE quiescing \cup {p}
    /\ UNCHANGED <<lockVars, alive, paused, degraded, kills, status, runVars>>

\* A stop_by deadline passes.
Expire(r) ==
    /\ r \in Timed \ expired
    /\ Draining(r)
    /\ expired' = expired \cup {r}
    /\ UNCHANGED <<lockVars, envVars, status, pc, seen, since, batch, hand, cur, allSkipped>>

InsertRow(i) ==
    /\ status[i] = "absent"
    /\ status' = [status EXCEPT ![i] = "pending"]
    /\ UNCHANGED <<lockVars, envVars, runVars>>

\* resolve_queue_item: the user's decision settles a pending row.
ResolveRow(i) ==
    /\ i \in UserRows
    /\ status[i] = "pending"
    /\ status' = [status EXCEPT ![i] = "completed"]
    /\ UNCHANGED <<lockVars, envVars, runVars>>

Older(age, bound) == IF age < bound THEN age + 1 ELSE age

Tick ==
    /\ \A r \in Runners : Draining(r) => since[r] < MaxPass
    /\ lockAge' = IF locked THEN Older(lockAge, StaleAfter) ELSE lockAge
    /\ since' = [r \in Runners |->
                   IF Draining(r) THEN Older(since[r], MaxPass) ELSE since[r]]
    /\ UNCHANGED <<locked, lockedBy, envVars, status, pc, seen, batch, hand, cur, allSkipped, expired>>
-----------------------------------------------------------------------------
Thread(r, p) ==
    SkipRow(r, p) \/ StopThread(r, p) \/ LoadPair(r, p) \/ StartRow(r, p) \/ FinishRow(r, p)

Runner(r) ==
    \/ ReadHolder(r) \/ Claim(r) \/ GiveUp(r) \/ Requeue(r)
    \/ StopAtTop(r) \/ BeginPass(r) \/ EndPass(r) \/ Release(r)
    \/ \E p \in Pairs : Thread(r, p)

Environment ==
    \/ \E o \in Procs : Kill(o) \/ Restart(o)
    \/ \E r \in Runners : Expire(r)
    \/ SetPaused
    \/ \E p \in Pairs : SetQuiescing(p)
    \/ \E i \in Rows : InsertRow(i) \/ ResolveRow(i)

Next ==
    \/ \E r \in Runners : Runner(r)
    \/ Environment
    \/ Tick

Spec == Init /\ [][Next]_vars

(***************************************************************************)
(* The operating system runs every thread of a live process, a started     *)
(* call of process_all_pending is followed by others (the scheduler's      *)
(* loop), and time passes.  Nothing is assumed of pauses, quiescing,       *)
(* kills or restarts.                                                      *)
(***************************************************************************)
Fairness ==
    /\ \A r \in Runners :
          /\ WF_vars(ReadHolder(r) \/ Claim(r) \/ GiveUp(r) \/ Requeue(r))
          /\ WF_vars(StopAtTop(r) \/ BeginPass(r) \/ EndPass(r) \/ Release(r))
          /\ \A p \in Pairs : WF_vars(Thread(r, p))
    /\ WF_vars(Tick)

FairSpec == Spec /\ Fairness
-----------------------------------------------------------------------------
(* Safety *)

\* "Only one invocation drains the queue at a time ... even across separate OS
\* processes" (sync_queue.rs:264-266): no two runners are between a successful
\* claim and the release of the lock.
SingleDrainer ==
    \A r, s \in Runners : Draining(r) /\ Draining(s) => r = s

\* "never running two transfers against the same drive pair at once"
\* (sync_queue.rs:261-262): at most one thread of all runners has a row of a
\* pair in transfer.
OneTransferPerPair ==
    \A r, s \in Runners, p \in Pairs :
        cur[r][p] # NoRow /\ cur[s][p] # NoRow => r = s

\* A row whose file operation runs is in_progress: no runner requeues it or
\* settles it under the thread that is transferring it, whatever was killed
\* and reclaimed before.
LiveTransferInProgress ==
    \A r \in Runners, p \in Pairs :
        cur[r][p] # NoRow => status[cur[r][p]] = "in_progress"

\* A heartbeat or a release touches the caller's own claim only, never the lock
\* of a runner that took it over: the lock is held, in the name of the draining
\* process, for as long as somebody drains.
DrainerHoldsLock ==
    \A r \in Runners : Draining(r) => locked /\ lockedBy = ProcOf[r]

(***************************************************************************)
(* The invariant behind the three, when MaxPass < StaleAfter.  A draining  *)
(* runner's lock is as old as its last heartbeat, hence never stale; a     *)
(* runner that read a dead holder cannot take a lock whose holder lives;   *)
(* so a claim succeeds only when nobody drains.                            *)
(***************************************************************************)
FreshLock ==
    \A r \in Runners : Draining(r) => lockAge = since[r]

RunnersAlive ==
    \A r \in Runners : pc[r] # "idle" => alive[ProcOf[r]]

DeadHolderStaysDead ==
    \A r \in Runners :
        seen[r].dead => seen[r].pid \in Procs /\ ~alive[seen[r].pid]

ThreadsWithinPass ==
    \A r \in Runners, p \in Pairs :
        /\ pc[r] # "pass" => cur[r][p] = NoRow /\ hand[r][p] = NoRow /\ batch[r][p] = {}
        /\ cur[r][p] # NoRow => PairOf[cur[r][p]] = p /\ hand[r][p] = NoRow

\* A fetched row is pending, or failed with its pair; and is visited once.
Open(i) == status[i] \in {"pending", "failed"}

HandOpen ==
    \A r \in Runners, p \in Pairs : hand[r][p] # NoRow =>
        /\ PairOf[hand[r][p]] = p /\ Open(hand[r][p])
        /\ hand[r][p] \notin UserRows \cup batch[r][p]

BatchOpen ==
    \A r \in Runners, p \in Pairs : \A i \in batch[r][p] :
        PairOf[i] = p /\ (Open(i) \/ i \in UserRows)

LockInv ==
    /\ SingleDrainer
    /\ DrainerHoldsLock
    /\ FreshLock
    /\ RunnersAlive
    /\ DeadHolderStaysDead

RowInv ==
    /\ LiveTransferInProgress
    /\ ThreadsWithinPass
    /\ HandOpen
    /\ BatchOpen

DrainInv == TypeOK /\ LockInv /\ RowInv

\* The sync queue as its callers see it: the pages of drains, with the rows in hand,
\* as fetched, and the running transfers as busy.
Fetched == {i \in Rows : \E r \in Runners, p \in Pairs : i \in batch[r][p] \/ hand[r][p] = i}
Busy == {i \in Rows : \E r \in Runners, p \in Pairs : cur[r][p] = i}
Queue == INSTANCE WorkQueue WITH fetched <- Fetched, busy <- Busy
QueueSpec == Queue!Spec
-----------------------------------------------------------------------------
(* Liveness *)

\* A lock left behind by a killed process is taken over or given back: by the
\* dead pid at once, by its age when the pid is in use again.
LockRecovered ==
    (locked /\ \A r \in Runners : ~Draining(r))
        ~> (~locked \/ \E r \in Runners : Draining(r) \/ \A o \in Procs : ~alive[o])

\* A row nobody's decision is needed for is eventually taken up, or failed with
\* its pair, when from some moment on the queue is not paused, its pair is not
\* quiescing, and some process stays alive.
RowsTakenUp ==
    \A i \in Rows \ UserRows :
        <>[](~paused /\ PairOf[i] \notin quiescing /\ \E o \in Procs : alive[o])
            => (status[i] = "pending" ~> status[i] # "pending")

DrainEnds == \A r \in Runners : Draining(r) ~> ~Draining(r)

\* A drain ends when users leave the pause flag and the slots alone: it does not
\* visit rows it cannot process over and over (sync_queue.rs:361-363).
DrainEndsIfLeftAlone ==
    (/\ <>[](~paused)
     /\ \A p \in Pairs : <>[](p \in quiescing) \/ <>[](p \notin quiescing))
        => DrainEnds

\* A drain ends once no slot is quiescing and the pause flag is left alone: rows
\* that wait for a user's decision do not keep it, and every other row it visits
\* is settled or left behind.
DrainEndsUnlessQuiescing == <>[](quiescing = {} /\ ~paused) => DrainEnds
=============================================================================
