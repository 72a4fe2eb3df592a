-------------------------- MODULE QueueDrainProofs --------------------------
(***************************************************************************)
(* Theorems about QueueDrain for any number of runners, processes, pairs   *)
(* and rows, under one hypothesis: a pass is shorter than the staleness    *)
(* window (MaxPass < StaleAfter).                                          *)
(***************************************************************************)
EXTENDS QueueDrain, TLAPS

\* A pass fetches pending rows only.
LEMMA PageIsPending == Page \subseteq Pending
  BY DEF Page

\* A runner without a page or a transfer, and an unread holder, are typed.
LEMMA DefaultsTyped ==
    /\ NoRows \in [Pairs -> SUBSET Rows]
    /\ NoTransfers \in [Pairs -> Rows \cup {NoRow}]
    /\ Unread \in [pid : Procs \cup {NoProc}, dead : BOOLEAN]
  BY DEF NoRows, NoTransfers, Unread

\* Zero is an age, and no kill.
LEMMA ZeroTyped == 0 \in 0..StaleAfter /\ 0 \in 0..MaxPass /\ 0 \in 0..MaxKills
  BY ConstantsOK

\* An age that saturates at a bound stays within it.
LEMMA AgesTyped ==
    ASSUME NEW bound \in Nat, NEW age \in 0..bound
    PROVE  Older(age, bound) \in 0..bound
  BY DEF Older

\* Every initial state is typed.
LEMMA TypeInit == Init => TypeOK
<1> SUFFICES ASSUME Init PROVE TypeOK
  OBVIOUS
<1> USE DEF Init
<1>1. alive \in [Procs -> BOOLEAN] /\ allSkipped \in [Runners -> BOOLEAN]
  OBVIOUS
<1>2. status \in [Rows -> Statuses] /\ pc \in [Runners -> Locations]
  BY DEF Statuses, Locations
<1>3. /\ seen \in [Runners -> [pid : Procs \cup {NoProc}, dead : BOOLEAN]]
      /\ since \in [Runners -> 0..MaxPass]
      /\ batch \in [Runners -> [Pairs -> SUBSET Rows]]
      /\ hand \in [Runners -> [Pairs -> Rows \cup {NoRow}]]
      /\ cur \in [Runners -> [Pairs -> Rows \cup {NoRow}]]
  BY DefaultsTyped, ZeroTyped
<1>4. QED
  BY <1>1, <1>2, <1>3, ZeroTyped DEF TypeOK

\* Every step keeps the state typed.
LEMMA TypeStep == TypeOK /\ [Next]_vars => TypeOK'
<1> SUFFICES ASSUME TypeOK, [Next]_vars PROVE TypeOK'
  OBVIOUS
<1> USE ConstantsOK, DefaultsTyped, ZeroTyped DEF TypeOK, Statuses, Locations, lockVars, envVars, runVars
<1>1. ASSUME NEW r \in Runners, ReadHolder(r) PROVE TypeOK'
  BY <1>1 DEF ReadHolder
<1>2. ASSUME NEW r \in Runners, Claim(r) \/ GiveUp(r) PROVE TypeOK'
  <2>1. CASE Claim(r)
    BY <2>1 DEF Claim
  <2>2. CASE GiveUp(r)
    BY <2>2 DEF GiveUp
  <2>3. QED
    BY <1>2, <2>1, <2>2
<1>3. ASSUME NEW r \in Runners, Requeue(r) PROVE TypeOK'
  BY <1>3 DEF Requeue, Requeued
<1>4. ASSUME NEW r \in Runners, StopAtTop(r) PROVE TypeOK'
  BY <1>4 DEF StopAtTop, Heartbeat
<1>5. ASSUME NEW r \in Runners, BeginPass(r) PROVE TypeOK'
  <2>1. [p \in Pairs |-> {i \in Page : PairOf[i] = p}] \in [Pairs -> SUBSET Rows]
    BY PageIsPending DEF Pending
  <2>2. (Page \subseteq UserRows) \in BOOLEAN
    OBVIOUS
  <2>3. QED
    BY <1>5, <2>1, <2>2 DEF BeginPass, Heartbeat
<1>6. ASSUME NEW r \in Runners, EndPass(r) PROVE TypeOK'
  BY <1>6 DEF EndPass
<1>7. ASSUME NEW r \in Runners, Release(r) PROVE TypeOK'
  BY <1>7 DEF Release
<1>8. ASSUME NEW r \in Runners, NEW p \in Pairs, Thread(r, p) PROVE TypeOK'
  <2>1. CASE SkipRow(r, p)
    BY <2>1 DEF SkipRow
  <2>2. CASE StopThread(r, p)
    BY <2>2 DEF StopThread
  <2>3. CASE LoadPair(r, p)
    <3>1. FailedOver(p) \in [Rows -> Statuses]
      BY DEF FailedOver
    <3>2. QED
      BY <2>3, <3>1 DEF LoadPair
  <2>4. CASE StartRow(r, p)
    BY <2>4 DEF StartRow
  <2>5. CASE FinishRow(r, p)
    BY <2>5 DEF FinishRow
  <2>6. QED
    BY <1>8, <2>1, <2>2, <2>3, <2>4, <2>5 DEF Thread
<1>9. ASSUME NEW o \in Procs, Kill(o) PROVE TypeOK'
  <2>1. /\ pc' \in [Runners -> Locations]
        /\ seen' \in [Runners -> [pid : Procs \cup {NoProc}, dead : BOOLEAN]]
        /\ since' \in [Runners -> 0..MaxPass]
        /\ batch' \in [Runners -> [Pairs -> SUBSET Rows]]
        /\ hand' \in [Runners -> [Pairs -> Rows \cup {NoRow}]]
        /\ cur' \in [Runners -> [Pairs -> Rows \cup {NoRow}]]
    BY <1>9 DEF Kill, Reset
  <2>2. allSkipped' \in [Runners -> BOOLEAN] /\ alive' \in [Procs -> BOOLEAN]
    BY <1>9 DEF Kill, Reset
  <2>3. kills' \in 0..MaxKills /\ expired' \subseteq Timed
    BY <1>9 DEF Kill
  <2>4. QED
    BY <1>9, <2>1, <2>2, <2>3 DEF Kill
<1>10. ASSUME NEW o \in Procs, Restart(o) PROVE TypeOK'
  BY <1>10 DEF Restart
<1>11. ASSUME NEW r \in Runners, Expire(r) PROVE TypeOK'
  BY <1>11 DEF Expire
<1>12. CASE SetPaused
  BY <1>12 DEF SetPaused
<1>13. ASSUME NEW p \in Pairs, SetQuiescing(p) PROVE TypeOK'
  BY <1>13 DEF SetQuiescing
<1>14. ASSUME NEW i \in Rows, InsertRow(i) \/ ResolveRow(i) PROVE TypeOK'
  <2>1. CASE InsertRow(i)
    BY <2>1 DEF InsertRow
  <2>2. CASE ResolveRow(i)
    BY <2>2 DEF ResolveRow
  <2>3. QED
    BY <1>14, <2>1, <2>2
<1>15. CASE Tick
  BY <1>15, AgesTyped DEF Tick
<1>16. CASE UNCHANGED vars
  BY <1>16 DEF vars
<1>17. QED
  BY <1>1, <1>2, <1>3, <1>4, <1>5, <1>6, <1>7, <1>8, <1>9, <1>10, <1>11,
     <1>12, <1>13, <1>14, <1>15, <1>16 DEF Next, Runner, Environment

\* Type correctness of the drain: what each step writes fits the columns and
\* local variables of process_all_pending.
THEOREM TypeCorrect == Spec => []TypeOK
  BY TypeInit, TypeStep, PTL DEF Spec

-----------------------------------------------------------------------------
(* The lock: one drainer at a time *)

\* The variables the lock invariant reads.
LockVarsOf == <<locked, lockedBy, lockAge, alive, pc, seen, since>>

\* The lock invariant reads only these variables.
LEMMA LockFrame == LockInv /\ UNCHANGED LockVarsOf => LockInv'
  BY DEF LockVarsOf, LockInv, SingleDrainer, DrainerHoldsLock, FreshLock, RunnersAlive,
         DeadHolderStaysDead, Draining

\* The guarded UPDATE of try_acquire_sync_processing_lock matches the row only
\* when nobody drains: a drainer's lock is younger than the staleness window,
\* and its holder lives.
LEMMA ClaimAlone ==
    ASSUME MaxPass < StaleAfter, TypeOK, LockInv,
           NEW r \in Runners, Claimable(r), NEW s \in Runners, Draining(s)
    PROVE  FALSE
<1>1. locked /\ lockedBy = ProcOf[s] /\ lockAge = since[s] /\ alive[ProcOf[s]]
  BY DEF LockInv, DrainerHoldsLock, FreshLock, RunnersAlive, Draining
<1>2. ~(lockAge >= StaleAfter)
  BY <1>1, ConstantsOK DEF TypeOK
<1>3. ~(seen[r].dead /\ lockedBy = seen[r].pid)
  BY <1>1 DEF LockInv, DeadHolderStaysDead
<1>4. QED
  BY <1>1, <1>2, <1>3 DEF Claimable

\* The lock invariant holds initially.
LEMMA LockInit == Init => LockInv
  BY DEF Init, LockInv, SingleDrainer, DrainerHoldsLock, FreshLock, RunnersAlive,
         DeadHolderStaysDead, Draining, Unread

\* A step that leaves the lock row and the processes alone, and moves runner r
\* within its own drain, keeps the lock invariant.
LEMMA LockStay ==
    ASSUME TypeOK, LockInv, NEW r \in Runners, NEW l \in Locations,
           pc[r] # "idle", l # "idle",
           l \in {"requeue", "top", "pass", "release"} => Draining(r),
           pc' = [pc EXCEPT ![r] = l],
           UNCHANGED <<locked, lockedBy, lockAge, alive, seen, since>>
    PROVE  LockInv'
<1> USE DEF LockInv, Draining, TypeOK
<1>1. \A s \in Runners : Draining(s)' => Draining(s)
  OBVIOUS
<1>2. SingleDrainer' /\ DrainerHoldsLock' /\ FreshLock'
  BY <1>1 DEF SingleDrainer, DrainerHoldsLock, FreshLock
<1>3. RunnersAlive' /\ DeadHolderStaysDead'
  BY DEF RunnersAlive, DeadHolderStaysDead
<1>4. QED
  BY <1>2, <1>3

\* Every step keeps the lock invariant.
LEMMA LockStep ==
    ASSUME MaxPass < StaleAfter, TypeOK, LockInv, [Next]_vars
    PROVE  LockInv'
<1> USE ConstantsOK DEF lockVars, envVars, runVars
<1>1. ASSUME NEW r \in Runners, ReadHolder(r) PROVE LockInv'
  <2> USE <1>1 DEF ReadHolder, LockInv, TypeOK, Draining
  <2>1. \A s \in Runners : Draining(s)' <=> Draining(s)
    OBVIOUS
  <2>2. SingleDrainer' /\ DrainerHoldsLock' /\ FreshLock'
    BY <2>1 DEF SingleDrainer, DrainerHoldsLock, FreshLock
  <2>3. RunnersAlive' /\ DeadHolderStaysDead'
    BY DEF RunnersAlive, DeadHolderStaysDead
  <2>4. QED
    BY <2>2, <2>3
<1>2. ASSUME NEW r \in Runners, Claim(r) PROVE LockInv'
  <2>1. \A s \in Runners : ~Draining(s)
    BY <1>2, ClaimAlone DEF Claim
  <2> USE <1>2 DEF Claim, LockInv, TypeOK, Draining
  <2>2. \A s \in Runners : Draining(s)' <=> s = r
    BY <2>1
  <2>3. SingleDrainer' /\ DrainerHoldsLock' /\ FreshLock'
    BY <2>2 DEF SingleDrainer, DrainerHoldsLock, FreshLock
  <2>4. RunnersAlive' /\ DeadHolderStaysDead'
    BY DEF RunnersAlive, DeadHolderStaysDead, Unread
  <2>5. QED
    BY <2>3, <2>4
<1>3. ASSUME NEW r \in Runners, GiveUp(r) PROVE LockInv'
  <2> USE <1>3 DEF GiveUp, LockInv, TypeOK, Draining
  <2>1. \A s \in Runners : Draining(s)' <=> Draining(s)
    OBVIOUS
  <2>2. SingleDrainer' /\ DrainerHoldsLock' /\ FreshLock'
    BY <2>1 DEF SingleDrainer, DrainerHoldsLock, FreshLock
  <2>3. RunnersAlive' /\ DeadHolderStaysDead'
    BY DEF RunnersAlive, DeadHolderStaysDead, Unread
  <2>4. QED
    BY <2>2, <2>3
<1>4. ASSUME NEW r \in Runners, Requeue(r) PROVE LockInv'
  BY <1>4, LockStay DEF Requeue, Locations, Draining
<1>5. ASSUME NEW r \in Runners, StopAtTop(r) \/ BeginPass(r) PROVE LockInv'
  <2> DEFINE l == pc'[r]
  <2>1. /\ Draining(r) /\ l \in {"release", "pass"}
        /\ pc' = [pc EXCEPT ![r] = l]
        /\ Heartbeat(r)
        /\ UNCHANGED <<alive, seen>>
    BY <1>5 DEF StopAtTop, BeginPass, Draining, TypeOK
  <2>2. \A s \in Runners : Draining(s)' <=> Draining(s)
    BY <2>1 DEF Draining, TypeOK
  <2>3. SingleDrainer' /\ DrainerHoldsLock' /\ FreshLock'
    BY <2>1, <2>2 DEF LockInv, SingleDrainer, DrainerHoldsLock, FreshLock, Heartbeat, TypeOK
  <2>4. RunnersAlive' /\ DeadHolderStaysDead'
    BY <2>1 DEF LockInv, RunnersAlive, DeadHolderStaysDead, TypeOK, Draining
  <2>5. QED
    BY <2>3, <2>4 DEF LockInv
<1>6. ASSUME NEW r \in Runners, EndPass(r) PROVE LockInv'
  BY <1>6, LockStay DEF EndPass, Locations, Draining
<1>7. ASSUME NEW r \in Runners, Release(r) PROVE LockInv'
  <2> USE <1>7 DEF Release, LockInv, TypeOK, Draining
  <2>1. \A s \in Runners : ~Draining(s)'
    BY DEF SingleDrainer
  <2>2. SingleDrainer' /\ DrainerHoldsLock' /\ FreshLock'
    BY <2>1 DEF SingleDrainer, DrainerHoldsLock, FreshLock
  <2>3. RunnersAlive' /\ DeadHolderStaysDead'
    BY DEF RunnersAlive, DeadHolderStaysDead
  <2>4. QED
    BY <2>2, <2>3
<1>8. ASSUME NEW r \in Runners, NEW p \in Pairs, Thread(r, p) PROVE LockInv'
  BY <1>8, LockFrame DEF Thread, SkipRow, StopThread, LoadPair, StartRow, FinishRow, LockVarsOf
<1>9. ASSUME NEW o \in Procs, Kill(o) PROVE LockInv'
  <2> USE <1>9 DEF Kill, Reset, LockInv, TypeOK, Draining
  <2>1. \A s \in Runners : Draining(s)' => Draining(s) /\ ProcOf[s] # o
    OBVIOUS
  <2>2. SingleDrainer' /\ DrainerHoldsLock' /\ FreshLock'
    BY <2>1 DEF SingleDrainer, DrainerHoldsLock, FreshLock
  <2>3. RunnersAlive' /\ DeadHolderStaysDead'
    BY DEF RunnersAlive, DeadHolderStaysDead, Unread
  <2>4. QED
    BY <2>2, <2>3
<1>10. ASSUME NEW o \in Procs, Restart(o) PROVE LockInv'
  <2> USE <1>10 DEF Restart, LockInv, TypeOK, Draining
  <2>1. SingleDrainer' /\ DrainerHoldsLock' /\ FreshLock'
    BY DEF SingleDrainer, DrainerHoldsLock, FreshLock
  <2>2. RunnersAlive'
    BY DEF RunnersAlive
  <2>3. DeadHolderStaysDead'
    BY DEF DeadHolderStaysDead
  <2>4. QED
    BY <2>1, <2>2, <2>3
<1>11. CASE Environment
  <2>1. ASSUME NEW r \in Runners, Expire(r) PROVE LockInv'
    BY <2>1, LockFrame DEF Expire, LockVarsOf
  <2>2. CASE SetPaused
    BY <2>2, LockFrame DEF SetPaused, LockVarsOf
  <2>3. ASSUME NEW p \in Pairs, SetQuiescing(p) PROVE LockInv'
    BY <2>3, LockFrame DEF SetQuiescing, LockVarsOf
  <2>4. ASSUME NEW i \in Rows, InsertRow(i) \/ ResolveRow(i) PROVE LockInv'
    BY <2>4, LockFrame DEF InsertRow, ResolveRow, LockVarsOf
  <2>5. QED
    BY <1>9, <1>10, <1>11, <2>1, <2>2, <2>3, <2>4 DEF Environment
<1>12. CASE Tick
  <2> USE <1>12 DEF Tick, LockInv, TypeOK, Draining
  <2>1. SingleDrainer' /\ DrainerHoldsLock' /\ RunnersAlive' /\ DeadHolderStaysDead'
    BY DEF SingleDrainer, DrainerHoldsLock, RunnersAlive, DeadHolderStaysDead
  <2>2. FreshLock'
    BY DEF FreshLock, DrainerHoldsLock, Older
  <2>3. QED
    BY <2>1, <2>2
<1>13. CASE UNCHANGED vars
  BY <1>13, LockFrame DEF vars, LockVarsOf
<1>14. QED
  BY <1>1, <1>2, <1>3, <1>4, <1>5, <1>6, <1>7, <1>8, <1>11, <1>12, <1>13 DEF Next, Runner

\* No two calls of process_all_pending drain at once, a drainer owns the lock row
\* and its timestamp is never stale, whatever processes are killed and restarted.
THEOREM LockSafe == ASSUME MaxPass < StaleAfter PROVE Spec => []LockInv
  BY LockInit, LockStep, TypeInit, TypeStep, PTL DEF Spec

\* At most one call drains the queue, across processes.
THEOREM OneDrainer == ASSUME MaxPass < StaleAfter PROVE Spec => []SingleDrainer
  BY LockSafe, PTL DEF LockInv

\* The lock is held, in its name, for as long as a call drains.
THEOREM HolderKept == ASSUME MaxPass < StaleAfter PROVE Spec => []DrainerHoldsLock
  BY LockSafe, PTL DEF LockInv
-----------------------------------------------------------------------------
(* The rows: a running transfer's row is in_progress *)

\* The variables the row invariant reads.
RowVars == <<status, pc, batch, hand, cur>>

\* The row invariant reads only these variables.
LEMMA RowFrame == RowInv /\ UNCHANGED RowVars => RowInv'
  BY DEF RowVars, RowInv, LiveTransferInProgress, ThreadsWithinPass, HandOpen, BatchOpen, Open

\* Moving between places outside a pass keeps the row invariant.
LEMMA RowStay ==
    ASSUME TypeOK, RowInv, NEW r \in Runners, NEW l \in Locations,
           pc[r] # "pass", l # "pass", pc' = [pc EXCEPT ![r] = l],
           UNCHANGED <<status, batch, hand, cur>>
    PROVE  RowInv'
<1> USE DEF TypeOK, RowInv
<1>1. LiveTransferInProgress'
  BY DEF LiveTransferInProgress
<1>2. ThreadsWithinPass'
  BY DEF ThreadsWithinPass
<1>3. HandOpen' /\ BatchOpen'
  BY DEF HandOpen, BatchOpen, Open
<1>4. QED
  BY <1>1, <1>2, <1>3

\* The row invariant holds initially.
LEMMA RowInit == Init => RowInv
  BY DEF Init, RowInv, LiveTransferInProgress, ThreadsWithinPass, HandOpen,
         BatchOpen, NoRows, NoTransfers

\* While a runner makes a pass no other runner has rows.
LEMMA OthersIdle ==
    ASSUME LockInv, RowInv, NEW r \in Runners, pc[r] = "pass",
           NEW s \in Runners \ {r}, NEW q \in Pairs
    PROVE  cur[s][q] = NoRow /\ hand[s][q] = NoRow /\ batch[s][q] = {}
  BY DEF RowInv, ThreadsWithinPass, Draining, LockInv, SingleDrainer

\* Loading the pair keeps the row invariant: a failover finds no transfer of its
\* pair, and leaves the fetched rows pending or failed.
LEMMA LoadPairStep ==
    ASSUME TypeOK, LockInv, RowInv, NEW r \in Runners, NEW p \in Pairs, LoadPair(r, p)
    PROVE  RowInv'
<1> USE ConstantsOK DEF TypeOK, RowInv, lockVars
<1>1. PICK i \in batch[r][p] :
        /\ pc[r] = "pass" /\ hand[r][p] = NoRow /\ cur[r][p] = NoRow
        /\ i \notin UserRows
        /\ hand' = [hand EXCEPT ![r][p] = i]
        /\ batch' = [batch EXCEPT ![r][p] = @ \ {i}]
        /\ UNCHANGED <<pc, cur>>
  BY DEF LoadPair, NextRow
<1>2. i \in Rows /\ PairOf[i] = p /\ Open(i)
  BY <1>1 DEF BatchOpen
<1>3. \A j \in Rows :
         \/ status'[j] = status[j]
         \/ PairOf[j] = p /\ status[j] \in {"pending", "in_progress"} /\ status'[j] = "failed"
  BY DEF LoadPair, FailedOver
<1>4. \A s \in Runners, q \in Pairs : cur[s][q] # NoRow => PairOf[cur[s][q]] # p
  <2>1. ASSUME NEW q \in Pairs, cur[r][q] # NoRow PROVE PairOf[cur[r][q]] # p
    BY <2>1, <1>1 DEF ThreadsWithinPass
  <2>2. QED
    BY <2>1, <1>1, OthersIdle
<1>5. LiveTransferInProgress'
  <2> SUFFICES ASSUME NEW s \in Runners, NEW q \in Pairs, cur[s][q] # NoRow
               PROVE  status'[cur[s][q]] = "in_progress"
    BY <1>1 DEF LiveTransferInProgress
  <2>1. cur[s][q] \in Rows /\ status[cur[s][q]] = "in_progress"
    BY DEF LiveTransferInProgress
  <2>2. QED
    BY <2>1, <1>3, <1>4
<1>6. \A j \in Rows : Open(j) => Open(j)'
  BY <1>3 DEF Open
<1>7. ThreadsWithinPass'
  BY <1>1, <1>2 DEF ThreadsWithinPass
<1>8. HandOpen'
  <2> SUFFICES ASSUME NEW s \in Runners, NEW q \in Pairs, hand'[s][q] # NoRow
               PROVE  /\ PairOf[hand'[s][q]] = q /\ Open(hand[s][q])'
                      /\ hand'[s][q] \notin UserRows \cup batch'[s][q]
    BY DEF HandOpen
  <2>1. CASE s = r /\ q = p
    BY <2>1, <1>1, <1>2, <1>6 DEF Open
  <2>2. CASE ~(s = r /\ q = p)
    <3>1. hand'[s][q] = hand[s][q] /\ batch'[s][q] = batch[s][q] /\ hand[s][q] \in Rows
      BY <2>2, <1>1
    <3>2. PairOf[hand[s][q]] = q /\ Open(hand[s][q]) /\ hand[s][q] \notin UserRows \cup batch[s][q]
      BY <3>1 DEF HandOpen
    <3>3. status'[hand[s][q]] \in {"pending", "failed"}
      BY <3>1, <3>2, <1>3 DEF Open
    <3>4. QED
      BY <3>1, <3>2, <3>3 DEF Open
  <2>3. QED
    BY <2>1, <2>2
<1>9. BatchOpen'
  <2>1. \A s \in Runners, q \in Pairs : batch'[s][q] \subseteq batch[s][q]
    BY <1>1
  <2> SUFFICES ASSUME NEW s \in Runners, NEW q \in Pairs, NEW j \in batch'[s][q]
               PROVE  PairOf[j] = q /\ (status'[j] \in {"pending", "failed"} \/ j \in UserRows)
    BY DEF BatchOpen, Open
  <2>2. j \in batch[s][q] /\ j \in Rows
    BY <2>1
  <2>3. PairOf[j] = q /\ (Open(j) \/ j \in UserRows)
    BY <2>2 DEF BatchOpen
  <2>4. QED
    BY <2>2, <2>3, <1>3 DEF Open
<1>10. QED
  BY <1>5, <1>7, <1>8, <1>9

\* Writing in_progress over the row in hand keeps the row invariant: nobody else
\* has the row.
LEMMA StartRowStep ==
    ASSUME TypeOK, LockInv, RowInv, NEW r \in Runners, NEW p \in Pairs, StartRow(r, p)
    PROVE  RowInv'
<1> USE ConstantsOK DEF TypeOK, RowInv
<1> DEFINE i == hand[r][p]
<1>1. /\ i \in Rows /\ PairOf[i] = p /\ i \notin UserRows \cup batch[r][p]
      /\ pc[r] = "pass" /\ cur[r][p] = NoRow
  BY DEF StartRow, HandOpen, ThreadsWithinPass
<1>2. /\ status' = [status EXCEPT ![i] = "in_progress"]
      /\ cur' = [cur EXCEPT ![r][p] = i]
      /\ hand' = [hand EXCEPT ![r][p] = NoRow]
      /\ UNCHANGED <<pc, batch>>
  BY DEF StartRow
<1>3. LiveTransferInProgress'
  BY <1>1, <1>2 DEF LiveTransferInProgress
<1>4. ThreadsWithinPass'
  BY <1>1, <1>2 DEF ThreadsWithinPass
<1>5. \A s \in Runners, q \in Pairs : hand'[s][q] # NoRow =>
         hand'[s][q] = hand[s][q] /\ s = r /\ q # p
  BY <1>1, <1>2, OthersIdle
<1>6. HandOpen'
  BY <1>1, <1>2, <1>5 DEF HandOpen, Open
<1>7. \A s \in Runners, q \in Pairs : i \notin batch[s][q]
  <2>1. ASSUME NEW q \in Pairs PROVE i \notin batch[r][q]
    BY <1>1 DEF BatchOpen
  <2>2. QED
    BY <2>1, <1>1, OthersIdle
<1>8. BatchOpen'
  BY <1>2, <1>7 DEF BatchOpen, Open
<1>9. QED
  BY <1>3, <1>4, <1>6, <1>8

\* Settling a transferred row keeps the row invariant: it is in no page, in no
\* thread's hand, and in no other thread's transfer.
LEMMA FinishRowStep ==
    ASSUME TypeOK, LockInv, RowInv, NEW r \in Runners, NEW p \in Pairs, FinishRow(r, p)
    PROVE  RowInv'
<1> USE ConstantsOK DEF TypeOK, RowInv, lockVars
<1>1. /\ pc[r] = "pass" /\ cur[r][p] \in Rows
      /\ cur' = [cur EXCEPT ![r][p] = NoRow]
      /\ status[cur[r][p]] = "in_progress"
      /\ \A i \in Rows \ {cur[r][p]} : status'[i] = status[i]
      /\ UNCHANGED <<pc, batch, hand>>
  BY DEF FinishRow, LiveTransferInProgress
<1>2. \A s \in Runners, q \in Pairs : cur[s][q] = cur[r][p] => s = r /\ q = p
  BY <1>1, OthersIdle DEF ThreadsWithinPass
<1>3. \A s \in Runners, q \in Pairs :
         cur'[s][q] # NoRow => cur'[s][q] = cur[s][q] /\ cur[s][q] # cur[r][p]
  BY <1>1, <1>2
<1>4. LiveTransferInProgress'
  <2> SUFFICES ASSUME NEW s \in Runners, NEW q \in Pairs, cur'[s][q] # NoRow
               PROVE  status'[cur'[s][q]] = "in_progress"
    BY DEF LiveTransferInProgress
  <2>1. cur'[s][q] = cur[s][q] /\ cur[s][q] \in Rows \ {cur[r][p]}
    BY <1>3
  <2>2. QED
    BY <1>1, <2>1 DEF LiveTransferInProgress
<1>5. ThreadsWithinPass'
  BY <1>1, <1>3 DEF ThreadsWithinPass
<1>6. \A i \in Rows : Open(i) => i # cur[r][p] /\ status'[i] = status[i]
  BY <1>1 DEF Open
<1>7. HandOpen'
  <2> SUFFICES ASSUME NEW s \in Runners, NEW q \in Pairs, hand[s][q] # NoRow
               PROVE  /\ PairOf[hand[s][q]] = q /\ status'[hand[s][q]] \in {"pending", "failed"}
                      /\ hand[s][q] \notin UserRows \cup batch[s][q]
    BY <1>1 DEF HandOpen, Open
  <2>1. /\ hand[s][q] \in Rows /\ PairOf[hand[s][q]] = q /\ Open(hand[s][q])
        /\ hand[s][q] \notin UserRows \cup batch[s][q]
    BY DEF HandOpen
  <2>2. QED
    BY <2>1, <1>6 DEF Open
<1>8. BatchOpen'
  <2> SUFFICES ASSUME NEW s \in Runners, NEW q \in Pairs, NEW j \in batch[s][q]
               PROVE  PairOf[j] = q /\ (status'[j] \in {"pending", "failed"} \/ j \in UserRows)
    BY <1>1 DEF BatchOpen, Open
  <2>1. j \in Rows /\ PairOf[j] = q /\ (Open(j) \/ j \in UserRows)
    BY DEF BatchOpen
  <2>2. QED
    BY <2>1, <1>6 DEF Open
<1>9. QED
  BY <1>4, <1>5, <1>7, <1>8

\* Every step keeps the row invariant: requeueing happens when nobody
\* transfers, and one row has one thread.
LEMMA RowStep ==
    ASSUME TypeOK, LockInv, RowInv, [Next]_vars
    PROVE  RowInv'
<1> USE ConstantsOK DEF lockVars, envVars, runVars
<1>1. ASSUME NEW r \in Runners,
             ReadHolder(r) \/ Claim(r) \/ GiveUp(r) \/ StopAtTop(r) \/ Release(r)
      PROVE  RowInv'
  <2>1. /\ pc[r] # "pass" /\ pc'[r] # "pass" /\ pc'[r] \in Locations
        /\ pc' = [pc EXCEPT ![r] = pc'[r]]
        /\ UNCHANGED <<status, batch, hand, cur>>
    BY <1>1 DEF ReadHolder, Claim, GiveUp, StopAtTop, Release, TypeOK, Locations
  <2>2. QED
    BY <2>1, RowStay
<1>2. ASSUME NEW r \in Runners, Requeue(r) PROVE RowInv'
  <2>1. \A s \in Runners, p \in Pairs :
           cur[s][p] = NoRow /\ hand[s][p] = NoRow /\ batch[s][p] = {}
    BY <1>2 DEF Requeue, Draining, LockInv, SingleDrainer, RowInv, ThreadsWithinPass
  <2>2. cur' = cur /\ hand' = hand /\ batch' = batch
    BY <1>2 DEF Requeue
  <2>3. QED
    BY <2>1, <2>2 DEF RowInv, LiveTransferInProgress, ThreadsWithinPass, HandOpen, BatchOpen
<1>3. ASSUME NEW r \in Runners, BeginPass(r) PROVE RowInv'
  <2> USE <1>3 DEF BeginPass, TypeOK, RowInv
  <2>1. LiveTransferInProgress' /\ ThreadsWithinPass'
    BY DEF LiveTransferInProgress, ThreadsWithinPass
  <2>2. HandOpen' /\ BatchOpen'
    BY PageIsPending DEF HandOpen, BatchOpen, ThreadsWithinPass, Open, Pending
  <2>3. QED
    BY <2>1, <2>2
<1>4. ASSUME NEW r \in Runners, EndPass(r) PROVE RowInv'
  <2> USE <1>4 DEF EndPass, TypeOK, RowInv
  <2>1. LiveTransferInProgress'
    BY DEF LiveTransferInProgress
  <2>2. ThreadsWithinPass'
    BY DEF ThreadsWithinPass, NoRows, NoTransfers
  <2>3. HandOpen' /\ BatchOpen'
    BY DEF HandOpen, BatchOpen, Open
  <2>4. QED
    BY <2>1, <2>2, <2>3
<1>5. ASSUME NEW r \in Runners, NEW p \in Pairs, Thread(r, p) PROVE RowInv'
  <2> USE DEF TypeOK, RowInv
  <2>1. CASE SkipRow(r, p) \/ StopThread(r, p)
    <3>1. /\ UNCHANGED <<status, hand, cur, pc>>
          /\ \A s \in Runners, q \in Pairs : batch'[s][q] \subseteq batch[s][q]
      <4>1. CASE SkipRow(r, p)
        BY <4>1 DEF SkipRow
      <4>2. CASE StopThread(r, p)
        BY <4>2 DEF StopThread
      <4>3. QED
        BY <2>1, <4>1, <4>2
    <3>2. LiveTransferInProgress' /\ ThreadsWithinPass'
      BY <3>1 DEF LiveTransferInProgress, ThreadsWithinPass
    <3>3. HandOpen' /\ BatchOpen'
      <4>1. HandOpen'
        BY <3>1 DEF HandOpen, Open
      <4>2. BatchOpen'
        BY <3>1 DEF BatchOpen, Open
      <4>3. QED
        BY <4>1, <4>2
    <3>4. QED
      BY <3>2, <3>3
  <2>2. CASE LoadPair(r, p)
    BY <2>2, LoadPairStep
  <2>3. CASE StartRow(r, p)
    BY <2>3, StartRowStep
  <2>4. CASE FinishRow(r, p)
    BY <2>4, FinishRowStep
  <2>5. QED
    BY <1>5, <2>1, <2>2, <2>3, <2>4 DEF Thread
<1>6. CASE Environment
  <2>1. ASSUME NEW o \in Procs, Kill(o) PROVE RowInv'
    <3>1. /\ status' = status
          /\ \A r \in Runners :
                \/ /\ pc'[r] = pc[r] /\ batch'[r] = batch[r]
                   /\ hand'[r] = hand[r] /\ cur'[r] = cur[r]
                \/ /\ pc'[r] = "idle" /\ batch'[r] = NoRows
                   /\ hand'[r] = NoTransfers /\ cur'[r] = NoTransfers
      BY <2>1 DEF Kill, Reset
    <3>2. LiveTransferInProgress'
      BY <3>1 DEF RowInv, LiveTransferInProgress, NoTransfers
    <3>3. ThreadsWithinPass'
      BY <3>1 DEF RowInv, ThreadsWithinPass, NoTransfers, NoRows
    <3>4. HandOpen' /\ BatchOpen'
      BY <3>1 DEF RowInv, HandOpen, BatchOpen, Open, NoRows, NoTransfers
    <3>5. QED
      BY <3>2, <3>3, <3>4 DEF RowInv
  <2>2. ASSUME NEW o \in Procs, Restart(o) PROVE RowInv'
    BY <2>2, RowFrame DEF Restart, RowVars
  <2>3. ASSUME NEW r \in Runners, Expire(r) PROVE RowInv'
    BY <2>3, RowFrame DEF Expire, RowVars
  <2>4. CASE SetPaused
    BY <2>4, RowFrame DEF SetPaused, RowVars
  <2>5. ASSUME NEW p \in Pairs, SetQuiescing(p) PROVE RowInv'
    BY <2>5, RowFrame DEF SetQuiescing, RowVars
  <2>6. ASSUME NEW i \in Rows, InsertRow(i) \/ ResolveRow(i) PROVE RowInv'
    <3>1. /\ status[i] # "in_progress" /\ (status[i] = "pending" => i \in UserRows)
          /\ \A j \in Rows \ {i} : status'[j] = status[j]
          /\ UNCHANGED <<pc, batch, hand, cur>>
      BY <2>6 DEF InsertRow, ResolveRow, TypeOK
    <3>2. LiveTransferInProgress'
      <4> SUFFICES ASSUME NEW r \in Runners, NEW p \in Pairs, cur[r][p] # NoRow
                   PROVE  status'[cur[r][p]] = "in_progress"
        BY <3>1 DEF LiveTransferInProgress
      <4>1. cur[r][p] \in Rows /\ status[cur[r][p]] = "in_progress"
        BY DEF RowInv, LiveTransferInProgress, TypeOK
      <4>2. QED
        BY <3>1, <4>1
    <3>3. ThreadsWithinPass'
      BY <3>1 DEF RowInv, ThreadsWithinPass
    <3>4. \A j \in Rows : Open(j) => status'[j] = status[j] \/ j \in UserRows
      BY <3>1, <2>6 DEF Open, InsertRow, ResolveRow
    <3>5. HandOpen'
      <4> SUFFICES ASSUME NEW r \in Runners, NEW p \in Pairs, hand[r][p] # NoRow
                   PROVE  /\ PairOf[hand[r][p]] = p /\ status'[hand[r][p]] \in {"pending", "failed"}
                          /\ hand[r][p] \notin UserRows \cup batch[r][p]
        BY <3>1 DEF HandOpen, Open
      <4>1. /\ hand[r][p] \in Rows /\ PairOf[hand[r][p]] = p /\ Open(hand[r][p])
            /\ hand[r][p] \notin UserRows \cup batch[r][p]
        BY DEF RowInv, HandOpen, TypeOK
      <4>2. QED
        BY <4>1, <3>4 DEF Open
    <3>6. BatchOpen'
      <4> SUFFICES ASSUME NEW r \in Runners, NEW p \in Pairs, NEW j \in batch[r][p]
                   PROVE  PairOf[j] = p /\ (status'[j] \in {"pending", "failed"} \/ j \in UserRows)
        BY <3>1 DEF BatchOpen, Open
      <4>1. j \in Rows /\ PairOf[j] = p /\ (Open(j) \/ j \in UserRows)
        BY DEF RowInv, BatchOpen, TypeOK
      <4>2. QED
        BY <4>1, <3>4 DEF Open
    <3>7. QED
      BY <3>2, <3>3, <3>5, <3>6 DEF RowInv
  <2>7. QED
    BY <1>6, <2>1, <2>2, <2>3, <2>4, <2>5, <2>6 DEF Environment
<1>7. CASE Tick
  BY <1>7, RowFrame DEF Tick, RowVars
<1>8. CASE UNCHANGED vars
  BY <1>8, RowFrame DEF vars, RowVars
<1>9. QED
  BY <1>1, <1>2, <1>3, <1>4, <1>5, <1>6, <1>7, <1>8 DEF Next, Runner

\* A row whose file operation runs is in_progress: nobody requeues or settles it.
THEOREM TransfersInProgress ==
    ASSUME MaxPass < StaleAfter PROVE Spec => []LiveTransferInProgress
<1>1. Spec => [](TypeOK /\ LockInv /\ RowInv)
  BY RowInit, RowStep, LockInit, LockStep, TypeInit, TypeStep, PTL DEF Spec
<1>2. QED
  BY <1>1, PTL DEF RowInv
-----------------------------------------------------------------------------
(* Refinement: the drain implements the abstract work queue *)

\* Initially nothing is fetched or in transfer.
LEMMA RefineInit == Init => Queue!Init
  BY ConstantsOK DEF Init, Queue!Init, Queue!Nobody, Fetched, Busy, NoRows, NoTransfers

\* Outside passes nobody has rows.
LEMMA NobodyOutsidePass ==
    ASSUME LockInv, RowInv, NEW r \in Runners, pc[r] \in {"requeue", "top"}
    PROVE  Queue!Nobody
<1>1. \A s \in Runners, q \in Pairs :
         cur[s][q] = NoRow /\ hand[s][q] = NoRow /\ batch[s][q] = {}
  BY DEF RowInv, ThreadsWithinPass, Draining, LockInv, SingleDrainer
<1>2. QED
  BY <1>1, ConstantsOK DEF Queue!Nobody, Fetched, Busy

\* While a runner makes a pass, the rows of its own threads are all the rows.
LEMMA RowsOfPass ==
    ASSUME LockInv, RowInv, TypeOK, NEW r \in Runners, pc[r] = "pass"
    PROVE  /\ Fetched = {i \in Rows : \E p \in Pairs : i \in batch[r][p] \/ hand[r][p] = i}
           /\ Busy = {i \in Rows : \E p \in Pairs : cur[r][p] = i}
<1>1. \A s \in Runners \ {r}, q \in Pairs :
         cur[s][q] = NoRow /\ hand[s][q] = NoRow /\ batch[s][q] = {}
  BY OthersIdle
<1>2. QED
  BY <1>1, ConstantsOK DEF Fetched, Busy

\* Every step of the drain is a step of the work queue or leaves it unchanged.
LEMMA RefineStep ==
    ASSUME TypeOK, LockInv, RowInv, [Next]_vars
    PROVE  [Queue!Next]_Queue!vars
<1> USE ConstantsOK DEF lockVars, envVars, runVars
<1>1. ASSUME UNCHANGED <<status, batch, hand, cur>> PROVE UNCHANGED Queue!vars
  BY <1>1 DEF Queue!vars, Fetched, Busy
<1>2. ASSUME NEW r \in Runners, Requeue(r) PROVE Queue!Requeue
  <2>1. Queue!Nobody
    BY <1>2, NobodyOutsidePass DEF Requeue
  <2>2. UNCHANGED <<Fetched, Busy>>
    BY <1>2 DEF Requeue, Fetched, Busy
  <2>3. QED
    BY <1>2, <2>1, <2>2 DEF Requeue, Requeued, Queue!Requeue
<1>3. ASSUME NEW r \in Runners, BeginPass(r) PROVE Queue!Fetch
  <2>1. Queue!Nobody
    BY <1>3, NobodyOutsidePass DEF BeginPass
  <2>2. \A s \in Runners, q \in Pairs :
           /\ hand'[s][q] = NoRow
           /\ batch'[s][q] \subseteq Page
    <3>1. \A s \in Runners, q \in Pairs : hand[s][q] = NoRow /\ batch[s][q] = {}
      BY <1>3 DEF BeginPass, RowInv, ThreadsWithinPass, Draining, LockInv, SingleDrainer
    <3>2. QED
      BY <1>3, <3>1 DEF BeginPass, TypeOK
  <2>3. Fetched' \subseteq Pending
    BY <2>2, PageIsPending DEF Fetched
  <2>4. UNCHANGED <<status, Busy>>
    BY <1>3 DEF BeginPass, Busy
  <2>5. QED
    BY <2>1, <2>3, <2>4 DEF Queue!Fetch, Pending
<1>4. ASSUME NEW r \in Runners, NEW p \in Pairs, LoadPair(r, p)
      PROVE  Queue!FailOver(p) \/ UNCHANGED Queue!vars
  <2>1. PICK i \in batch[r][p] :
          /\ pc[r] = "pass" /\ hand[r][p] = NoRow /\ cur[r][p] = NoRow
          /\ hand' = [hand EXCEPT ![r][p] = i]
          /\ batch' = [batch EXCEPT ![r][p] = @ \ {i}]
          /\ UNCHANGED <<pc, cur>>
    BY <1>4 DEF LoadPair, NextRow
  <2>2. i \in Rows /\ PairOf[i] = p /\ i \in Fetched
    BY <2>1 DEF TypeOK, RowInv, BatchOpen, Fetched
  <2>3. \A q \in Pairs \ {p} : hand'[r][q] = hand[r][q] /\ batch'[r][q] = batch[r][q]
    BY <2>1 DEF TypeOK
  <2>4. hand'[r][p] = i /\ batch'[r][p] = batch[r][p] \ {i}
    BY <2>1 DEF TypeOK
  <2>5. \A s \in Runners \ {r} : hand'[s] = hand[s] /\ batch'[s] = batch[s]
    BY <2>1 DEF TypeOK
  <2>6. Fetched' = Fetched
    BY <2>1, <2>2, <2>3, <2>4, <2>5 DEF Fetched
  <2>7. Busy' = Busy
    BY <2>1 DEF Busy
  <2>8. CASE UNCHANGED status
    BY <2>6, <2>7, <2>8 DEF Queue!vars
  <2>9. CASE status' = FailedOver(p)
    <3>1. \A j \in Busy : PairOf[j] # p
      BY <2>1, RowsOfPass DEF RowInv, ThreadsWithinPass
    <3>2. QED
      BY <2>2, <2>6, <2>7, <2>9, <3>1 DEF Queue!FailOver, FailedOver
  <2>10. QED
    BY <1>4, <2>8, <2>9 DEF LoadPair
<1>5. ASSUME NEW r \in Runners, NEW p \in Pairs, StartRow(r, p)
      PROVE  \E i \in Rows : Queue!Start(i)
  <2> DEFINE i == hand[r][p]
  <2>1. /\ i \in Rows /\ PairOf[i] = p /\ Open(i) /\ i \notin batch[r][p]
        /\ pc[r] = "pass" /\ cur[r][p] = NoRow
    BY <1>5 DEF StartRow, TypeOK, RowInv, HandOpen, ThreadsWithinPass
  <2>2. /\ status' = [status EXCEPT ![i] = "in_progress"]
        /\ cur' = [cur EXCEPT ![r][p] = i]
        /\ hand' = [hand EXCEPT ![r][p] = NoRow]
        /\ batch' = batch
    BY <1>5 DEF StartRow
  <2>3. i \in Fetched
    BY <2>1 DEF Fetched
  <2>4. \A j \in Busy : PairOf[j] # p
    BY <2>1, RowsOfPass DEF RowInv, ThreadsWithinPass
  <2>5. \A s \in Runners, q \in Pairs :
           /\ cur'[s][q] = IF s = r /\ q = p THEN i ELSE cur[s][q]
           /\ hand'[s][q] = IF s = r /\ q = p THEN NoRow ELSE hand[s][q]
    BY <2>2 DEF TypeOK
  <2>6. Busy' = Busy \cup {i}
    BY <2>1, <2>5 DEF Busy
  <2>7. \A s \in Runners, q \in Pairs :
           i \notin batch[s][q] /\ (hand[s][q] = i => s = r /\ q = p)
    BY <2>1, OthersIdle DEF RowInv, BatchOpen, HandOpen
  <2>8. Fetched' = Fetched \ {i}
    <3>1. ASSUME NEW j \in Rows PROVE j \in Fetched' <=> j \in Fetched /\ j # i
      BY <2>1, <2>2, <2>5, <2>7 DEF Fetched
    <3>2. QED
      BY <3>1 DEF Fetched
  <2>9. Queue!Start(i)
    BY <2>1, <2>2, <2>3, <2>4, <2>6, <2>8 DEF Queue!Start, Open
  <2>10. QED
    BY <2>1, <2>9
<1>6. ASSUME NEW r \in Runners, NEW p \in Pairs, FinishRow(r, p)
      PROVE  Queue!Next
  <2>1. /\ pc[r] = "pass" /\ cur[r][p] \in Rows
        /\ cur' = [cur EXCEPT ![r][p] = NoRow]
        /\ UNCHANGED <<hand, batch>>
    BY <1>6 DEF FinishRow, TypeOK
  <2>2. \A s \in Runners, q \in Pairs :
           cur'[s][q] = IF s = r /\ q = p THEN NoRow ELSE cur[s][q]
    BY <2>1 DEF TypeOK
  <2>3. \A s \in Runners, q \in Pairs : cur[s][q] = cur[r][p] => s = r /\ q = p
    BY <2>1, OthersIdle DEF RowInv, ThreadsWithinPass
  <2>4. Busy' = Busy \ {cur[r][p]} /\ cur[r][p] \in Busy
    BY <2>1, <2>2, <2>3 DEF Busy
  <2>5. Fetched' = Fetched
    BY <2>1 DEF Fetched
  <2>6. CASE UNCHANGED status
    <3>1. Queue!Abandon
      BY <2>4, <2>5, <2>6 DEF Queue!Abandon
    <3>2. QED
      BY <3>1 DEF Queue!Next
  <2>7. CASE \E v \in {"completed", "failed"} :
                status' = [status EXCEPT ![cur[r][p]] = v]
    <3>1. Queue!Finish(cur[r][p])
      BY <2>4, <2>5, <2>7 DEF Queue!Finish, Queue!Final
    <3>2. QED
      BY <3>1, <2>1 DEF Queue!Next
  <2>8. QED
    BY <1>6, <2>6, <2>7 DEF FinishRow
<1>7. ASSUME /\ UNCHANGED status
             /\ \A r \in Runners, p \in Pairs :
                   /\ batch'[r][p] \subseteq batch[r][p]
                   /\ hand'[r][p] \in {hand[r][p], NoRow}
                   /\ cur'[r][p] \in {cur[r][p], NoRow}
      PROVE  Queue!Abandon
  <2>1. Fetched' \subseteq Fetched /\ Busy' \subseteq Busy
    BY <1>7 DEF Fetched, Busy
  <2>2. QED
    BY <1>7, <2>1 DEF Queue!Abandon
<1>8. ASSUME NEW o \in Procs, Kill(o) PROVE Queue!Abandon
  <2>1. \A r \in Runners, p \in Pairs :
           /\ batch'[r][p] \in {batch[r][p], {}}
           /\ hand'[r][p] \in {hand[r][p], NoRow}
           /\ cur'[r][p] \in {cur[r][p], NoRow}
    BY <1>8 DEF Kill, Reset, NoTransfers, NoRows
  <2>2. QED
    BY <1>7, <1>8, <2>1 DEF Kill
<1>9. ASSUME NEW r \in Runners, NEW p \in Pairs, SkipRow(r, p) \/ StopThread(r, p)
      PROVE  Queue!Abandon
  <2>1. UNCHANGED <<status, hand, cur>>
    BY <1>9 DEF SkipRow, StopThread
  <2>2. \A s \in Runners, q \in Pairs : batch'[s][q] \subseteq batch[s][q]
    <3>1. CASE SkipRow(r, p)
      BY <3>1 DEF SkipRow, TypeOK
    <3>2. CASE StopThread(r, p)
      BY <3>2 DEF StopThread, TypeOK
    <3>3. QED
      BY <1>9, <3>1, <3>2
  <2>3. QED
    BY <1>7, <2>1, <2>2
<1>10. ASSUME NEW i \in Rows, InsertRow(i) \/ ResolveRow(i)
       PROVE  Queue!Insert(i) \/ Queue!Resolve(i)
  BY <1>10 DEF InsertRow, ResolveRow, Queue!Insert, Queue!Resolve, Fetched, Busy
<1>11. ASSUME NEW r \in Runners, Runner(r) PROVE [Queue!Next]_Queue!vars
  <2>1. CASE \/ ReadHolder(r) \/ Claim(r) \/ GiveUp(r) \/ StopAtTop(r)
             \/ EndPass(r) \/ Release(r)
    BY <2>1, <1>1 DEF ReadHolder, Claim, GiveUp, StopAtTop, EndPass, Release
  <2>2. CASE Requeue(r)
    BY <2>2, <1>2 DEF Queue!Next
  <2>3. CASE BeginPass(r)
    BY <2>3, <1>3 DEF Queue!Next
  <2>4. ASSUME NEW p \in Pairs, Thread(r, p) PROVE [Queue!Next]_Queue!vars
    <3>1. CASE SkipRow(r, p) \/ StopThread(r, p)
      BY <3>1, <1>9 DEF Queue!Next
    <3>2. CASE LoadPair(r, p)
      BY <3>2, <1>4 DEF Queue!Next
    <3>3. CASE StartRow(r, p)
      BY <3>3, <1>5 DEF Queue!Next
    <3>4. CASE FinishRow(r, p)
      BY <3>4, <1>6
    <3>5. QED
      BY <2>4, <3>1, <3>2, <3>3, <3>4 DEF Thread
  <2>5. QED
    BY <1>11, <2>1, <2>2, <2>3, <2>4 DEF Runner
<1>12. CASE Environment
  <2>1. ASSUME NEW o \in Procs, Kill(o) PROVE Queue!Next
    BY <2>1, <1>8 DEF Queue!Next
  <2>2. ASSUME NEW i \in Rows, InsertRow(i) \/ ResolveRow(i) PROVE Queue!Next
    BY <2>2, <1>10 DEF Queue!Next
  <2>3. ASSUME NEW o \in Procs, Restart(o) PROVE UNCHANGED Queue!vars
    BY <2>3, <1>1 DEF Restart
  <2>4. ASSUME NEW r \in Runners, Expire(r) PROVE UNCHANGED Queue!vars
    BY <2>4, <1>1 DEF Expire
  <2>5. CASE SetPaused
    BY <2>5, <1>1 DEF SetPaused
  <2>6. ASSUME NEW p \in Pairs, SetQuiescing(p) PROVE UNCHANGED Queue!vars
    BY <2>6, <1>1 DEF SetQuiescing
  <2>7. QED
    BY <1>12, <2>1, <2>2, <2>3, <2>4, <2>5, <2>6 DEF Environment
<1>13. CASE Tick
  BY <1>13, <1>1 DEF Tick
<1>14. CASE UNCHANGED vars
  BY <1>14, <1>1 DEF vars
<1>15. QED
  BY <1>11, <1>12, <1>13, <1>14 DEF Next

\* process_all_pending implements the work queue, the failovers its own threads run
\* into included: rows are fetched and requeued only when nobody is at work, a pair
\* carries one transfer at a time and fails over between two, a completed row stays
\* completed, and a failed one is taken up again only by who had fetched it before.
THEOREM DrainImplementsQueue ==
    ASSUME MaxPass < StaleAfter PROVE Spec => QueueSpec
<1>1. Init /\ [][Next]_vars => [](TypeOK /\ LockInv /\ RowInv)
  BY RowInit, RowStep, LockInit, LockStep, TypeInit, TypeStep, PTL
<1>2. QED
  BY <1>1, RefineInit, RefineStep, PTL DEF Spec, QueueSpec, Queue!Spec
=============================================================================
