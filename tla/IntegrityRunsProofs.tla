------------------------ MODULE IntegrityRunsProofs ------------------------
(***************************************************************************)
(* For every number of runs, pairs, files and versions:                    *)
(*  - At most one integrity run at a time, and none that comes back after  *)
(*    its end, provided that two callers do not look for an active run at  *)
(*    the same time, and that the service does not start while another     *)
(*    process has a run.                                                   *)
(*  - Types, and what repairs do to the files: no recovery, of a run or of *)
(*    a single check, and no mirror transfer destroys the version a user   *)
(*    wrote last, however the runs race and die.                           *)
(***************************************************************************)
EXTENDS IntegrityRuns, TLAPS, SequenceTheorems, WellFoundedInduction

\* The two freedoms under which the code keeps neither promise are off.
Apart ==
    /\ "racing starts" \notin Allowed
    /\ "restart beside a run" \notin Allowed

\* What the proof needs of the types: the rows, and where a thread is.
Places == {"none", "list", "work", "finish"}
RunsTyped ==
    /\ runs \in [RunIds -> Row \cup {Absent}]
    /\ DOMAIN thread = RunIds
    /\ \A r \in RunIds :
          /\ {"at", "outcome"} \subseteq DOMAIN thread[r]
          /\ thread[r].at \in Places
          /\ thread[r].outcome \in Ended
    /\ asked \subseteq Callers

\* The inductive invariant: the rows are typed, one run at most is active or worked
\* on, what is worked on is active, and who found no active run is alone.
IInv ==
    /\ RunsTyped
    /\ OneActiveRun
    /\ ThreadsAreActive
    /\ AskedAlone

\* An absent row is neither active nor ended; an active one is a row.
LEMMA RowFacts ==
    ASSUME RunsTyped
    PROVE  \A r \in RunIds :
              /\ IsActive(r) => runs[r] \in Row
              /\ runs[r] # Absent => runs[r] \in Row
              /\ runs[r] \in Row => runs[r].status \in Active \cup Ended
  BY DEF RunsTyped, IsActive, Active, Absent, Row

\* The empty table and no thread satisfy the invariant.
LEMMA InitIInv == Init => IInv
<1>1. ASSUME Init PROVE RunsTyped
  BY <1>1 DEF Init, RunsTyped, NoThread, Places, Ended, Callers
<1>2. ASSUME Init PROVE \A r \in RunIds : ~IsActive(r) /\ ~Running(r)
  BY <1>2 DEF Init, IsActive, Running, Active, Absent, NoThread
<1>3. ASSUME Init PROVE asked = {}
  BY <1>3 DEF Init
<1> QED
  BY <1>1, <1>2, <1>3 DEF IInv, OneActiveRun, ThreadsAreActive, AskedAlone

\* Steps that leave rows and threads' places alone and let nobody ask.
LEMMA QuietKeeps ==
    ASSUME IInv, UNCHANGED runs,
           DOMAIN thread' = RunIds,
           \A r \in RunIds :
              /\ {"at", "outcome"} \subseteq DOMAIN thread'[r]
              /\ thread'[r].at \in Places
              /\ thread'[r].outcome \in Ended
              /\ Running(r)' => Running(r),
           asked' \subseteq asked
    PROVE  IInv'
<1>1. \A r \in RunIds : IsActive(r)' <=> IsActive(r)
  BY DEF IsActive
<1>2. RunsTyped'
  BY DEF IInv, RunsTyped
<1>3. OneActiveRun'
  BY <1>1 DEF IInv, OneActiveRun
<1>4. ThreadsAreActive'
  BY <1>1 DEF IInv, ThreadsAreActive
<1>5. AskedAlone'
  <2>1. asked' # {} => asked # {}
    OBVIOUS
  <2>2. NoneActive' <=> NoneActive
    BY <1>1 DEF NoneActive
  <2> QED BY <2>1, <2>2 DEF IInv, AskedAlone
<1> QED BY <1>2, <1>3, <1>4, <1>5 DEF IInv

\* finish_integrity_run ends a run whose thread is at work.
LEMMA FinishKeeps ==
    ASSUME IInv, NEW r \in RunIds, Running(r), NEW status \in Ended,
           FinishAs(r, status), UNCHANGED asked
    PROVE  IInv' /\ runs[r].status \in Active
<1>1. IsActive(r) /\ runs[r] \in Row
  BY RowFacts DEF IInv, ThreadsAreActive
<1>2. runs' = [runs EXCEPT ![r].status = status]
  BY DEF FinishAs
<1>3. thread' = [thread EXCEPT ![r] = NoThread]
  BY DEF FinishAs
<1>4. \A q \in RunIds : q # r => runs'[q] = runs[q] /\ thread'[q] = thread[q]
  BY <1>2, <1>3 DEF IInv, RunsTyped
<1>5. runs'[r] = [runs[r] EXCEPT !.status = status] /\ thread'[r] = NoThread
  BY <1>2, <1>3 DEF IInv, RunsTyped
<1>6. runs'[r] \in Row /\ runs'[r].status = status
  BY <1>1, <1>5 DEF Row
<1>7. ~IsActive(r)' /\ ~Running(r)'
  BY <1>5, <1>6 DEF IsActive, Running, Active, Ended, NoThread
<1>8. \A q \in RunIds : q # r => (IsActive(q)' <=> IsActive(q)) /\ (Running(q)' <=> Running(q))
  BY <1>4 DEF IsActive, Running
<1>9. RunsTyped'
  <2>1. runs' \in [RunIds -> Row \cup {Absent}]
    BY <1>2, <1>4, <1>6 DEF IInv, RunsTyped
  <2>2. {"at", "outcome"} \subseteq DOMAIN NoThread /\ NoThread.at \in Places
        /\ NoThread.outcome \in Ended
    BY DEF NoThread, Places, Ended
  <2>3. DOMAIN thread' = RunIds
    BY <1>3 DEF IInv, RunsTyped
  <2> QED
    BY <1>4, <1>5, <2>1, <2>2, <2>3 DEF IInv, RunsTyped
<1>10. OneActiveRun'
  BY <1>7, <1>8 DEF IInv, OneActiveRun
<1>11. ThreadsAreActive'
  BY <1>7, <1>8 DEF IInv, ThreadsAreActive
<1>12. AskedAlone'
  <2>1. asked = {}
    BY <1>1 DEF IInv, AskedAlone, NoneActive
  <2> QED BY <2>1 DEF AskedAlone
<1> QED BY <1>1, <1>9, <1>10, <1>11, <1>12 DEF IInv, IsActive

\* A thread that goes on without an end keeps its row and its place is legal.
LEMMA MoveKeeps ==
    ASSUME IInv, NEW r \in RunIds, Running(r), NEW t,
           {"at", "outcome"} \subseteq DOMAIN t, t.at \in Places, t.outcome \in Ended,
           thread' = [thread EXCEPT ![r] = t], UNCHANGED <<runs, asked>>
    PROVE  IInv'
<1>1. thread'[r] = t /\ \A q \in RunIds : q # r => thread'[q] = thread[q]
  BY DEF IInv, RunsTyped
<1>2. DOMAIN thread' = RunIds
  BY DEF IInv, RunsTyped
<1>3. \A q \in RunIds :
         /\ {"at", "outcome"} \subseteq DOMAIN thread'[q]
         /\ thread'[q].at \in Places
         /\ thread'[q].outcome \in Ended
         /\ Running(q)' => Running(q)
  BY <1>1 DEF IInv, RunsTyped, Running
<1> QED BY <1>2, <1>3, QuietKeeps

\* What a step may do to the end of a run.
EndKept == \A r \in RunIds :
    runs[r].status \in Ended => runs'[r].status \in {runs[r].status, "running"}

\* A step that leaves the rows alone ends no run and revives none.
LEMMA EndUntouched ==
    ASSUME UNCHANGED runs
    PROVE  EndKept
  BY DEF EndKept

\* Only an active run is ended by its thread.
LEMMA EndOfActive ==
    ASSUME IInv, NEW r \in RunIds, NEW status \in Ended, runs[r].status \in Active,
           FinishAs(r, status)
    PROVE  EndKept
<1>1. \A q \in RunIds : q # r => runs'[q] = runs[q]
  BY DEF FinishAs, IInv, RunsTyped
<1> QED BY <1>1 DEF EndKept, Active, Ended

\* A caller that looks and finds nothing active.
LEMMA AskKeeps ==
    ASSUME IInv, Apart, NEW c \in Callers, Ask(c)
    PROVE  IInv' /\ EndKept
<1>1. UNCHANGED <<runs, thread>> /\ asked' = asked \cup {c} /\ NoneActive
  BY DEF Ask
<1> asked = {}
  BY DEF Ask, Apart
<1>2. RunsTyped'
  BY <1>1 DEF IInv, RunsTyped
<1>3. (OneActiveRun /\ ThreadsAreActive /\ NoneActive)'
  BY <1>1 DEF IInv, OneActiveRun, ThreadsAreActive, NoneActive, IsActive, Running
<1> QED BY <1>1, <1>2, <1>3, EndUntouched DEF IInv, AskedAlone

\* The one caller that asked inserts the one active run.
LEMMA InsertKeeps ==
    ASSUME IInv, NEW c \in Callers, NEW r \in RunIds, Insert(c, r)
    PROVE  IInv' /\ EndKept
<1>1. asked' = {} /\ NoneActive
  BY DEF Insert, IInv, AskedAlone
<1>2. PICK recover \in BOOLEAN, timed \in BOOLEAN,
           scope \in {Pairs} \cup {{p} : p \in Pairs} :
        /\ runs' = [runs EXCEPT ![r] =
                      [status |-> "running", stop |-> FALSE, recover |-> recover,
                       caller |-> c, scope |-> scope]]
        /\ thread' = [thread EXCEPT ![r] =
                        [NoThread EXCEPT !.at = "list", !.timed = timed, !.todo = scope]]
  BY DEF Insert
<1> DEFINE row == [status |-> "running", stop |-> FALSE, recover |-> recover,
                   caller |-> c, scope |-> scope]
           t == [NoThread EXCEPT !.at = "list", !.timed = timed, !.todo = scope]
<1>3. runs'[r] = row /\ \A q \in RunIds : q # r => runs'[q] = runs[q]
  BY <1>2 DEF IInv, RunsTyped
<1>4. thread'[r] = t /\ \A q \in RunIds : q # r => thread'[q] = thread[q]
  BY <1>2 DEF IInv, RunsTyped
<1>5. {"at", "outcome"} \subseteq DOMAIN t /\ t.at = "list" /\ t.outcome \in Ended
  BY DEF NoThread, Ended
<1>6. row \in Row /\ row.status = "running"
  BY DEF Row, Active
<1>7. RunsTyped'
  <2>1. runs' \in [RunIds -> Row \cup {Absent}]
    BY <1>2, <1>6 DEF IInv, RunsTyped
  <2>2. DOMAIN thread' = RunIds
    BY <1>2 DEF IInv, RunsTyped
  <2> QED
    BY <1>1, <1>4, <1>5, <2>1, <2>2 DEF IInv, RunsTyped, Places
<1>8. IsActive(r)' /\ \A q \in RunIds : q # r => ~IsActive(q)' /\ ~Running(q)'
  BY <1>1, <1>3, <1>4, <1>6
     DEF IInv, NoneActive, IsActive, Running, ThreadsAreActive, Active
<1>9. (OneActiveRun /\ ThreadsAreActive /\ AskedAlone)'
  BY <1>1, <1>8 DEF OneActiveRun, ThreadsAreActive, AskedAlone
<1>10. EndKept
  BY <1>3, <1>6 DEF EndKept
<1> QED BY <1>7, <1>9, <1>10 DEF IInv

\* A stop request: a running run is stopping, an ended one stays ended.
LEMMA StopKeeps ==
    ASSUME IInv, NEW r \in RunIds, RequestStop(r)
    PROVE  IInv' /\ EndKept
<1>1. runs[r] \in Row
  BY RowFacts DEF RequestStop, IInv
<1>2. runs' = [runs EXCEPT ![r].stop = TRUE,
                           ![r].status = IF @ = "running" THEN "stopping" ELSE @]
  BY DEF RequestStop
<1>3. UNCHANGED <<thread, asked>>
  BY DEF RequestStop
<1>4. \A q \in RunIds : q # r => runs'[q] = runs[q]
  BY <1>2 DEF IInv, RunsTyped
<1>5. /\ runs'[r] \in Row
      /\ runs'[r].status = IF runs[r].status = "running" THEN "stopping" ELSE runs[r].status
  BY <1>1, <1>2 DEF IInv, RunsTyped, Row, Active
<1>6. \A q \in RunIds : (IsActive(q)' <=> IsActive(q)) /\ (Running(q)' <=> Running(q))
  BY <1>3, <1>4, <1>5 DEF IsActive, Running, Active
<1>7. RunsTyped'
  <2>1. runs' \in [RunIds -> Row \cup {Absent}]
    BY <1>2, <1>4, <1>5 DEF IInv, RunsTyped
  <2> QED BY <1>3, <2>1 DEF IInv, RunsTyped
<1>8. (OneActiveRun /\ ThreadsAreActive)'
  BY <1>6 DEF IInv, OneActiveRun, ThreadsAreActive
<1>9. AskedAlone'
  BY <1>3, <1>6 DEF IInv, AskedAlone, NoneActive
<1>10. EndKept
  BY <1>4, <1>5 DEF EndKept, Ended
<1> QED BY <1>7, <1>8, <1>9, <1>10 DEF IInv

-----------------------------------------------------------------------------

\* What process_run does between the first page and its end.
LEMMA WorkKeeps ==
    ASSUME IInv, NEW r \in RunIds, Work(r)
    PROVE  IInv' /\ EndKept
<1> {"at", "outcome"} \subseteq DOMAIN thread[r] /\ thread[r].outcome \in Ended
  BY DEF IInv, RunsTyped
<1>1. ASSUME NEW status \in Ended, Running(r), FinishAs(r, status), UNCHANGED asked
      PROVE  IInv' /\ EndKept
  BY <1>1, FinishKeeps, EndOfActive
<1>2. ASSUME NEW t, Running(r), UNCHANGED <<runs, asked>>,
             {"at", "outcome"} \subseteq DOMAIN t, t.at \in Places, t.outcome \in Ended,
             thread' = [thread EXCEPT ![r] = t]
      PROVE  IInv' /\ EndKept
  BY <1>2, MoveKeeps, EndUntouched
<1>3. CASE StopAtPage(r)
  BY <1>1, <1>3 DEF StopAtPage, Running, Ended
<1>4. CASE FailRun(r)
  BY <1>1, <1>4 DEF FailRun, PageChecked, Running, Ended
<1>5. CASE Finish(r)
  BY <1>1, <1>5 DEF Finish, Running
<1>6. {"at", "outcome"} \subseteq DOMAIN PairDone(r)
      /\ PairDone(r).at = "list" /\ PairDone(r).outcome = thread[r].outcome
  BY DEF PairDone
<1>7. CASE ListPage(r)
  <2> DEFINE t == IF PageOf(NextPair(r), thread[r].page) = <<>>
                  THEN PairDone(r) ELSE StartedPage(r)
  <2>1. thread' = [thread EXCEPT ![r] = t]
    BY <1>7 DEF ListPage
  <2>2. {"at", "outcome"} \subseteq DOMAIN StartedPage(r)
        /\ StartedPage(r).at = "work" /\ StartedPage(r).outcome = thread[r].outcome
    BY DEF StartedPage
  <2>3. {"at", "outcome"} \subseteq DOMAIN t /\ t.at \in Places /\ t.outcome \in Ended
    BY <1>6, <2>2 DEF Places
  <2>4. Running(r) /\ UNCHANGED <<runs, asked>>
    BY <1>7 DEF ListPage, Running
  <2> HIDE DEF t
  <2> QED BY <1>2, <2>1, <2>3, <2>4
<1>8. CASE SettleFile(r)
  <2>1. /\ {"at", "outcome"} \subseteq DOMAIN NextFile(r)
        /\ NextFile(r).at \in Places /\ NextFile(r).outcome \in Ended
    BY <1>6, <1>8 DEF NextFile, Places, SettleFile, PageChecked
  <2> QED BY <1>2, <1>8, <2>1 DEF SettleFile, PageChecked, Running
<1>9. CASE Decide(r)
  <2> DEFINE t == [thread[r] EXCEPT !.at = "finish",
                     !.outcome = IF runs[r].stop THEN "stopped" ELSE "completed"]
  <2>1. {"at", "outcome"} \subseteq DOMAIN t /\ t.at \in Places /\ t.outcome \in Ended
    BY DEF Places, Ended
  <2>2. thread' = [thread EXCEPT ![r] = t]
    BY <1>9 DEF Decide
  <2> QED BY <1>2, <1>9, <2>1, <2>2 DEF Decide, Running
<1>10. CASE \E i \in DOMAIN thread[r].batch : CheckFile(r, i)
  <2>1. PICK i, v : thread' = [thread EXCEPT ![r].batch[i].verdict = v]
    BY <1>10 DEF CheckFile
  <2> DEFINE t == [thread[r] EXCEPT !.batch[i].verdict = v]
  <2>2. thread' = [thread EXCEPT ![r] = t]
    BY <2>1
  <2>3. {"at", "outcome"} \subseteq DOMAIN t /\ t.at = thread[r].at
        /\ t.outcome = thread[r].outcome
    OBVIOUS
  <2>4. thread[r].at = "work" /\ UNCHANGED <<runs, asked>>
    BY <1>10 DEF CheckFile
  <2> QED BY <1>2, <2>2, <2>3, <2>4 DEF Running, Places
<1> QED BY <1>3, <1>4, <1>5, <1>7, <1>8, <1>9, <1>10 DEF Work

\* Processes that die take their threads and their callers with them; the
\* service that starts finds no thread at work.
LEMMA ProcessesKeep ==
    ASSUME IInv, Apart, Processes
    PROVE  IInv' /\ EndKept
<1>1. ASSUME NEW c, NEW dead, KillThreads(c, dead), UNCHANGED runs, asked' \subseteq asked
      PROVE  IInv' /\ EndKept
  <2>1. thread' = [r \in RunIds |-> IF r \in dead THEN NoThread ELSE thread[r]]
    BY <1>1 DEF KillThreads
  <2>2. /\ {"at", "outcome"} \subseteq DOMAIN NoThread
        /\ NoThread.at = "none" /\ NoThread.outcome \in Ended
    BY DEF NoThread, Ended
  <2>3. DOMAIN thread' = RunIds
    BY <2>1
  <2>4. \A r \in RunIds :
           /\ {"at", "outcome"} \subseteq DOMAIN thread'[r]
           /\ thread'[r].at \in Places
           /\ thread'[r].outcome \in Ended
           /\ Running(r)' => Running(r)
    BY <2>1, <2>2 DEF IInv, RunsTyped, Running, Places
  <2> QED BY <1>1, <2>3, <2>4, QuietKeeps, EndUntouched
<1>2. CASE KillService
  BY <1>1, <1>2 DEF KillService
<1>3. CASE KillCli
  BY <1>1, <1>3 DEF KillCli
<1>4. CASE StartService
  <2>1. \A r \in RunIds : ~Running(r)
    BY <1>4 DEF StartService, Apart
  <2>2. /\ runs' = [r \in RunIds |->
                     IF IsActive(r) THEN [runs[r] EXCEPT !.status = "failed"] ELSE runs[r]]
        /\ UNCHANGED <<thread, asked>>
    BY <1>4 DEF StartService, Cleaned
  <2>3. ASSUME NEW r \in RunIds
        PROVE  /\ runs'[r] \in Row \cup {Absent}
               /\ ~IsActive(r)' /\ ~Running(r)'
               /\ runs[r].status \in Ended => runs'[r] = runs[r]
    <3>1. CASE IsActive(r)
      <4>1. runs[r] \in Row
        BY <3>1, RowFacts DEF IInv
      <4>2. runs'[r] \in Row /\ runs'[r].status = "failed"
        BY <2>2, <3>1, <4>1 DEF Row, Ended
      <4> QED BY <2>1, <2>2, <3>1, <4>2 DEF IsActive, Running, Active, Ended
    <3>2. CASE ~IsActive(r)
      BY <2>1, <2>2, <3>2 DEF IsActive, Running, IInv, RunsTyped
    <3> QED BY <3>1, <3>2
  <2>4. RunsTyped'
    BY <2>2, <2>3 DEF IInv, RunsTyped
  <2>5. (OneActiveRun /\ ThreadsAreActive /\ AskedAlone)'
    BY <2>2, <2>3 DEF IInv, OneActiveRun, ThreadsAreActive, AskedAlone, NoneActive
  <2>6. EndKept
    BY <2>3 DEF EndKept
  <2> QED BY <2>4, <2>5, <2>6 DEF IInv
<1> QED BY <1>2, <1>3, <1>4 DEF Processes

\* Every step of the specification, the idle one included.
LEMMA NextIInv ==
    ASSUME IInv, Apart, [Next]_vars
    PROVE  IInv' /\ EndKept
<1>1. ASSUME UNCHANGED <<runs, thread, asked>>
      PROVE  IInv' /\ EndKept
  BY <1>1, QuietKeeps, EndUntouched DEF IInv, RunsTyped, Running
<1>2. CASE Starts
  BY <1>2, AskKeeps, InsertKeeps DEF Starts, StartRun, CheckAll, Callers
<1>3. CASE \E r \in RunIds : StopRun(r) \/ Work(r)
  BY <1>3, StopKeeps, WorkKeeps DEF StopRun
<1>4. CASE Processes
  BY <1>4, ProcessesKeep
<1>5. CASE FileChanges
  BY <1>1, <1>5 DEF FileChanges, Edit, Scan, MirrorFile, Untrack, Damage
<1>6. CASE UNCHANGED vars
  BY <1>1, <1>6 DEF vars
<1>7. CASE Singles
  BY <1>1, <1>7 DEF Singles, CheckRequest, CheckCommand, LookAt, RepairOne, SettleOne
<1> QED BY <1>2, <1>3, <1>4, <1>5, <1>6, <1>7 DEF Next

\* The invariant holds throughout: process_run's rows and threads, and the look
\* for an active run before the insert, stay in step.
THEOREM Inductive == ASSUME Apart PROVE Spec => []IInv
<1>1. IInv /\ [Next]_vars => IInv'
  BY NextIInv
<1> QED BY <1>1, InitIInv, PTL DEF Spec

(***************************************************************************)
(* The single-active-run rule of integrity_runs.rs.                        *)
(***************************************************************************)
THEOREM OneRun == ASSUME Apart PROVE Spec => []OneActiveRun
<1>1. IInv => OneActiveRun
  BY DEF IInv
<1> QED BY <1>1, Inductive, PTL

(***************************************************************************)
(* finish_integrity_run and request_integrity_run_stop never change the    *)
(* status of a run that has ended, although neither looks at it.           *)
(***************************************************************************)
THEOREM EndIsFinal == ASSUME Apart PROVE Spec => EndStands
<1>1. IInv /\ [Next]_vars => [EndKept]_vars
  BY NextIInv
<1>2. Spec => []IInv
  BY Inductive
<1> QED BY <1>1, <1>2, PTL DEF Spec, EndStands, EndKept
-----------------------------------------------------------------------------
(* Types, and what repairs do to the files *)

\* A page at work is not empty.
PagesFull == \A r \in RunIds : thread[r].at = "work" => thread[r].batch # <<>>

\* A run that is worked on has a row.
RowsThere == \A r \in RunIds : Running(r) => runs[r] \in Row

TInv == TypeOK /\ PagesFull /\ RowsThere
-----------------------------------------------------------------------------
(* The lists of files *)

\* delete_tracked_file takes one file out of a list and leaves the others in place.
LEMMA RemoveAtFacts ==
    ASSUME NEW S, NEW s \in Seq(S), NEW i \in DOMAIN s,
           \A j, k \in DOMAIN s : s[j] = s[k] => j = k
    PROVE  LET t == SubSeq(s, 1, i - 1) \o SubSeq(s, i + 1, Len(s)) IN
              /\ t \in Seq(S)
              /\ \A j, k \in DOMAIN t : t[j] = t[k] => j = k
              /\ \A j \in DOMAIN t : t[j] # s[i]
              /\ \A j \in DOMAIN t : \E k \in DOMAIN s : t[j] = s[k]
<1> DEFINE a == SubSeq(s, 1, i - 1)
           b == SubSeq(s, i + 1, Len(s))
           t == a \o b
           at(j) == IF j < i THEN j ELSE j + 1
<1>1. i \in Int /\ Len(s) \in Nat /\ 1 <= i /\ i <= Len(s) /\ DOMAIN s = 1..Len(s)
  BY LenProperties
<1>2. \A j \in 1..Len(s) : s[j] \in S
  BY ElementOfSeq
<1>3. a \in Seq(S) /\ Len(a) = i - 1 /\ \A j \in 1..(i - 1) : a[j] = s[j]
  <2>1. \A j \in 1..(i - 1) : s[j] \in S
    BY <1>1, <1>2
  <2>2. /\ SubSeq(s, 1, i - 1) \in Seq(S)
        /\ Len(SubSeq(s, 1, i - 1)) = IF 1 <= i - 1 THEN (i - 1) - 1 + 1 ELSE 0
        /\ \A j \in 1..((i - 1) - 1 + 1) : SubSeq(s, 1, i - 1)[j] = s[1 + j - 1]
    BY <1>1, <2>1, SubSeqProperties
  <2> QED BY <1>1, <2>2
<1>4. b \in Seq(S) /\ Len(b) = Len(s) - i /\ \A j \in 1..(Len(s) - i) : b[j] = s[i + j]
  <2>1. \A j \in (i + 1)..Len(s) : s[j] \in S
    BY <1>1, <1>2
  <2>2. /\ SubSeq(s, i + 1, Len(s)) \in Seq(S)
        /\ Len(SubSeq(s, i + 1, Len(s))) = IF i + 1 <= Len(s) THEN Len(s) - (i + 1) + 1 ELSE 0
        /\ \A j \in 1..(Len(s) - (i + 1) + 1) : SubSeq(s, i + 1, Len(s))[j] = s[(i + 1) + j - 1]
    BY <1>1, <2>1, SubSeqProperties
  <2> QED BY <1>1, <2>2
<1> HIDE DEF a, b
<1>5. /\ t \in Seq(S) /\ Len(t) = Len(s) - 1
      /\ \A j \in 1..(Len(a) + Len(b)) : t[j] = IF j <= Len(a) THEN a[j] ELSE b[j - Len(a)]
  <2>1. /\ a \o b \in Seq(S)
        /\ Len(a \o b) = Len(a) + Len(b)
        /\ \A j \in 1..(Len(a) + Len(b)) :
              (a \o b)[j] = IF j <= Len(a) THEN a[j] ELSE b[j - Len(a)]
    BY <1>3, <1>4, ConcatProperties, SMTT(30)
  <2>2. Len(a) + Len(b) = Len(s) - 1
    BY <1>1, <1>3, <1>4
  <2> QED BY <2>1, <2>2
<1> HIDE DEF t
<1>6. \A j \in 1..Len(t) : t[j] = s[at(j)] /\ at(j) \in DOMAIN s /\ at(j) # i
  <2> SUFFICES ASSUME NEW j \in 1..Len(t)
               PROVE  t[j] = s[at(j)] /\ at(j) \in DOMAIN s /\ at(j) # i
    OBVIOUS
  <2>1. t[j] = IF j <= Len(a) THEN a[j] ELSE b[j - Len(a)]
    BY <1>1, <1>3, <1>4, <1>5
  <2>2. CASE j < i
    <3>1. j <= Len(a) /\ j \in 1..(i - 1)
      BY <1>1, <1>3, <2>2
    <3> QED BY <1>1, <1>3, <1>5, <2>1, <2>2, <3>1
  <2>3. CASE ~(j < i)
    <3>1. ~(j <= Len(a)) /\ j - Len(a) \in 1..(Len(s) - i) /\ i + (j - Len(a)) = j + 1
      BY <1>1, <1>3, <1>5, <2>3
    <3>2. b[j - Len(a)] = s[j + 1]
      BY <1>4, <3>1
    <3> QED BY <1>1, <1>5, <2>1, <2>3, <3>1, <3>2
  <2> QED BY <2>2, <2>3
<1>7. DOMAIN t = 1..Len(t)
  BY <1>5, LenProperties
<1>8. \A j, k \in DOMAIN t : t[j] = t[k] => j = k
  <2> SUFFICES ASSUME NEW j \in DOMAIN t, NEW k \in DOMAIN t, t[j] = t[k] PROVE j = k
    OBVIOUS
  <2>1. at(j) = at(k)
    BY <1>6, <1>7
  <2> QED BY <1>1, <1>5, <1>7, <2>1
<1>9. \A j \in DOMAIN t : t[j] # s[i] /\ \E k \in DOMAIN s : t[j] = s[k]
  BY <1>6, <1>7
<1>10. t = SubSeq(s, 1, i - 1) \o SubSeq(s, i + 1, Len(s))
  BY DEF t, a, b
<1> QED BY <1>5, <1>8, <1>9, <1>10

\* A file goes to the end of the list it was taken out of.
LEMMA AppendFacts ==
    ASSUME NEW S, NEW t \in Seq(S), NEW f \in S,
           \A j, k \in DOMAIN t : t[j] = t[k] => j = k,
           \A j \in DOMAIN t : t[j] # f
    PROVE  LET u == Append(t, f) IN
              /\ u \in Seq(S)
              /\ \A j, k \in DOMAIN u : u[j] = u[k] => j = k
              /\ \A j \in DOMAIN u : u[j] = f \/ \E k \in DOMAIN t : u[j] = t[k]
<1> DEFINE u == Append(t, f)
<1>1. u \in Seq(S) /\ Len(u) = Len(t) + 1 /\ u[Len(t) + 1] = f
      /\ \A j \in 1..Len(t) : u[j] = t[j]
  BY AppendProperties
<1>2. DOMAIN u = 1..Len(u) /\ DOMAIN t = 1..Len(t) /\ Len(t) \in Nat
  BY <1>1, LenProperties
<1> HIDE DEF u
<1>3. \A j \in DOMAIN u : j = Len(t) + 1 \/ j \in DOMAIN t
  BY <1>1, <1>2
<1>4. \A j, k \in DOMAIN u : u[j] = u[k] => j = k
  BY <1>1, <1>2, <1>3
<1>5. \A j \in DOMAIN u : u[j] = f \/ \E k \in DOMAIN t : u[j] = t[k]
  BY <1>1, <1>2, <1>3
<1> QED BY <1>1, <1>4, <1>5 DEF u

\* What the lists are typed as.
Lists == order \in [Pairs -> Seq(Files)] /\ \A p \in Pairs : order[p] \in Listing(p)
TrackedOf(o) == UNION {{o[p][i] : i \in DOMAIN o[p]} : p \in Pairs}

\* The two updates of the lists: what they are typed as and which files they hold.
LEMMA ListFacts ==
    ASSUME Lists, NEW f \in Tracked
    PROVE  /\ f \in Files
           /\ Without(f) \in [Pairs -> Seq(Files)]
           /\ \A p \in Pairs : Without(f)[p] \in Listing(p)
           /\ TrackedOf(Without(f)) \subseteq Tracked \ {f}
           /\ Touched(f) \in [Pairs -> Seq(Files)]
           /\ \A p \in Pairs : Touched(f)[p] \in Listing(p)
           /\ TrackedOf(Touched(f)) \subseteq Tracked
<1> DEFINE S(p) == {g \in Files : PairOf[g] = p}
<1>0. \A p \in Pairs : \A s : s \in Listing(p) => s \in Seq(Files)
  <2> SUFFICES ASSUME NEW p \in Pairs, NEW s \in Seq(S(p)) PROVE s \in Seq(Files)
    BY DEF Listing
  <2>1. Len(s) \in Nat /\ s \in [1..Len(s) -> S(p)]
    BY LenProperties
  <2> QED BY <2>1, SeqDef
<1>1. PICK p \in Pairs : \E n \in DOMAIN order[p] : order[p][n] = f
  BY DEF Tracked
<1>2. order[p] \in Seq(S(p)) /\ \A j, k \in DOMAIN order[p] : order[p][j] = order[p][k] => j = k
  BY DEF Lists, Listing
<1>3. f \in S(p)
  BY <1>1, <1>2, ElementOfSeq, LenProperties
<1>4. f \in Files /\ PairOf[f] = p
  BY <1>3
<1> DEFINE s == order[p]
           i == CHOOSE j \in DOMAIN s : s[j] = f
           t == SubSeq(s, 1, i - 1) \o SubSeq(s, i + 1, Len(s))
           u == Append(t, f)
<1>5. i \in DOMAIN s /\ s[i] = f
  BY <1>1
<1>6. Without(f) = [order EXCEPT ![p] = t]
  BY <1>4 DEF Without
<1>7. /\ t \in Seq(S(p))
      /\ \A j, k \in DOMAIN t : t[j] = t[k] => j = k
      /\ \A j \in DOMAIN t : t[j] # f
      /\ \A j \in DOMAIN t : \E k \in DOMAIN s : t[j] = s[k]
  <2> DEFINE T == S(p)
  <2>1. s \in Seq(T) /\ \A j, k \in DOMAIN s : s[j] = s[k] => j = k
    BY <1>2 DEF s, T
  <2> HIDE DEF i, s, T
  <2>2. /\ t \in Seq(T)
        /\ \A j, k \in DOMAIN t : t[j] = t[k] => j = k
        /\ \A j \in DOMAIN t : t[j] # s[i]
        /\ \A j \in DOMAIN t : \E k \in DOMAIN s : t[j] = s[k]
    BY <1>5, <2>1, RemoveAtFacts
  <2> QED BY <1>5, <2>2 DEF T
<1> HIDE DEF t, i
<1>8. Without(f) = [q \in Pairs |-> IF q = p THEN t ELSE order[q]]
  BY <1>6 DEF Lists
<1>9. t \in Listing(p)
  BY <1>7 DEF Listing
<1>10. \A q \in Pairs : Without(f)[q] \in Listing(q)
  BY <1>8, <1>9 DEF Lists
<1>11. Without(f) \in [Pairs -> Seq(Files)]
  BY <1>0, <1>8, <1>9 DEF Lists
<1>12. TrackedOf(Without(f)) \subseteq Tracked \ {f}
  <2> SUFFICES ASSUME NEW q \in Pairs, NEW j \in DOMAIN Without(f)[q]
               PROVE  Without(f)[q][j] \in Tracked \ {f}
    BY DEF TrackedOf
  <2>1. CASE q = p
    BY <1>7, <1>8, <2>1 DEF Tracked
  <2>2. CASE q # p
    <3>1. Without(f)[q] = order[q]
      BY <1>8, <2>2
    <3>2. order[q][j] \in S(q)
      <4>1. order[q] \in Seq(S(q)) /\ j \in DOMAIN order[q]
        BY <3>1 DEF Lists, Listing
      <4> QED BY <4>1, ElementOfSeq, LenProperties
    <3>3. order[q][j] # f
      BY <1>4, <2>2, <3>2
    <3> QED BY <3>1, <3>3 DEF Tracked
  <2> QED BY <2>1, <2>2
<1>13. /\ u \in Seq(S(p))
       /\ \A j, k \in DOMAIN u : u[j] = u[k] => j = k
       /\ \A j \in DOMAIN u : u[j] = f \/ \E k \in DOMAIN t : u[j] = t[k]
  <2> HIDE DEF u
  <2> QED BY <1>3, <1>7, AppendFacts DEF u
<1>14. Touched(f) = [q \in Pairs |-> IF q = p THEN u ELSE order[q]]
  BY <1>4, <1>8 DEF Touched
<1> HIDE DEF u
<1>15. u \in Listing(p)
  BY <1>13 DEF Listing
<1>16. \A q \in Pairs : Touched(f)[q] \in Listing(q)
  BY <1>14, <1>15 DEF Lists
<1>17. Touched(f) \in [Pairs -> Seq(Files)]
  BY <1>0, <1>14, <1>15 DEF Lists
<1>18. TrackedOf(Touched(f)) \subseteq Tracked
  <2> SUFFICES ASSUME NEW q \in Pairs, NEW j \in DOMAIN Touched(f)[q]
               PROVE  Touched(f)[q][j] \in Tracked
    BY DEF TrackedOf
  <2>1. CASE q = p
    BY <1>7, <1>13, <1>14, <2>1 DEF Tracked
  <2>2. CASE q # p
    BY <1>14, <2>2 DEF Tracked
  <2> QED BY <2>1, <2>2
<1> QED BY <1>4, <1>10, <1>11, <1>12, <1>16, <1>17, <1>18
-----------------------------------------------------------------------------
(* Types *)

LEMMA TrackedFiles == ASSUME Lists PROVE Tracked \subseteq Files
  BY ListFacts

\* The side a verdict lets be written, and the one it is written from.
LEMMA Targets ==
    ASSUME NEW v, TargetSide(v) # "none"
    PROVE  TargetSide(v) \in Sides /\ Other(TargetSide(v)) \in Sides
  BY DEF TargetSide, Sides, Other

LEMMA VerdictType ==
    ASSUME NEW a, NEW b, NEW c PROVE Verdict(a, b, c) \in Verdicts
  BY DEF Verdict, Verdicts

\* attempt_recovery_with_reconciliation keeps the types.
LEMMA RecoverTypes ==
    ASSUME TypeOK, NEW recover, NEW e \in Entry, Recover(recover, e)
    PROVE  /\ copy' \in [Sides -> [Files -> Contents]]
           /\ mirrored' \subseteq Files /\ rows' \subseteq Files
<1>1. e.file \in Files /\ e.sum \in Contents /\ Missing \in Contents
  BY ConstantsOK DEF Entry, Contents, Hashed, Missing, Damaged
<1>2. copy' \in [Sides -> [Files -> Contents]]
  BY <1>1, Targets DEF TypeOK, Recover, Restores, Sides
<1>3. Tracked \subseteq Files
  BY TrackedFiles DEF TypeOK, Lists
<1> QED BY <1>2, <1>3 DEF TypeOK, Recover

\* What a step of one thread has to keep.
LEMMA ThreadTypes ==
    ASSUME TInv, NEW r \in RunIds, Running(r), NEW t \in Thread,
           t.at = "work" => t.batch # <<>>,
           thread' = [thread EXCEPT ![r] = t], UNCHANGED runs
    PROVE  thread' \in [RunIds -> Thread] /\ PagesFull' /\ RowsThere'
<1>1. thread \in [RunIds -> Thread]
  BY DEF TInv, TypeOK
<1>2. \A q \in RunIds : thread'[q] = IF q = r THEN t ELSE thread[q]
  BY <1>1
<1>3. PagesFull'
  BY <1>2 DEF TInv, PagesFull
<1>4. RowsThere'
  BY <1>2 DEF TInv, RowsThere, Running
<1> QED BY <1>1, <1>3, <1>4

LEMMA NoThreadType == NoThread \in Thread /\ NoThread.at = "none"
<1>1. <<>> \in Seq(Entry)
  BY EmptySeq
<1>2. 1 \in Nat \ {0}
  OBVIOUS
<1> QED BY <1>1, <1>2 DEF NoThread, Thread, Ended

\* finish_integrity_run
LEMMA FinishTypes ==
    ASSUME TInv, NEW r \in RunIds, Running(r), NEW status \in Ended, FinishAs(r, status)
    PROVE  /\ runs' \in [RunIds -> Row \cup {Absent}]
           /\ thread' \in [RunIds -> Thread] /\ PagesFull' /\ RowsThere'
<1>1. runs[r] \in Row
  BY DEF TInv, RowsThere
<1>2. [runs[r] EXCEPT !.status = status] \in Row
  BY <1>1 DEF Row
<1>3. thread'[r] = NoThread /\ \A q \in RunIds : q # r => runs'[q] = runs[q] /\ thread'[q] = thread[q]
  <2>1. runs \in [RunIds -> Row \cup {Absent}] /\ thread \in [RunIds -> Thread]
    BY DEF TInv, TypeOK
  <2>2. /\ runs' = [runs EXCEPT ![r].status = status]
        /\ thread' = [thread EXCEPT ![r] = NoThread]
    BY DEF FinishAs
  <2> QED BY <2>1, <2>2
<1>4. runs' \in [RunIds -> Row \cup {Absent}] /\ thread' \in [RunIds -> Thread]
  BY <1>2, NoThreadType DEF FinishAs, TInv, TypeOK
<1>5. PagesFull' /\ RowsThere'
  <2>1. PagesFull'
    BY <1>3, NoThreadType DEF TInv, PagesFull
  <2>2. RowsThere'
    BY <1>3, NoThreadType DEF TInv, RowsThere, Running
  <2> QED BY <2>1, <2>2
<1> QED BY <1>4, <1>5

\* A step that leaves runs and threads alone.
LEMMA IdleTypes ==
    ASSUME TInv, UNCHANGED <<runs, thread>>
    PROVE  RowsThere' /\ PagesFull'
  BY DEF TInv, RowsThere, PagesFull, Running

LEMMA InitTInv == Init => TInv
<1> SUFFICES ASSUME Init PROVE TInv
  OBVIOUS
<1>1. 1 \in Versions /\ 1 \in Hashed /\ 1 \in Contents /\ 0 \in 0..MaxKills
  BY ConstantsOK DEF Versions, Hashed, Contents, Missing, Damaged
<1>2. TypeOK
  BY <1>1, ConstantsOK, NoThreadType DEF Init, TypeOK
<1>3. PagesFull /\ RowsThere
  BY NoThreadType DEF Init, PagesFull, RowsThere, Running
<1> QED BY <1>2, <1>3 DEF TInv

\* A caller looks for an active run, and inserts one.
LEMMA StartTypes ==
    ASSUME TInv, Starts
    PROVE  TInv'
<1>1. ASSUME NEW c \in Callers, Ask(c) PROVE TInv'
  <2>1. TypeOK'
    BY <1>1 DEF Ask, TInv, TypeOK, fileVars
  <2> QED BY <1>1, <2>1, IdleTypes DEF Ask, TInv
<1>2. ASSUME NEW c \in Callers, NEW r \in RunIds, Insert(c, r) PROVE TInv'
  <2>1. PICK recover \in BOOLEAN, timed \in BOOLEAN,
             scope \in {Pairs} \cup {{p} : p \in Pairs} :
          /\ runs' = [runs EXCEPT ![r] =
                        [status |-> "running", stop |-> FALSE, recover |-> recover,
                         caller |-> c, scope |-> scope]]
          /\ thread' = [thread EXCEPT ![r] =
                          [NoThread EXCEPT !.at = "list", !.timed = timed, !.todo = scope]]
    BY <1>2 DEF Insert
  <2> DEFINE row == [status |-> "running", stop |-> FALSE, recover |-> recover,
                     caller |-> c, scope |-> scope]
             t == [NoThread EXCEPT !.at = "list", !.timed = timed, !.todo = scope]
  <2>2. row \in Row
    BY DEF Row, Active
  <2>3. t \in Thread /\ t.at = "list"
    BY NoThreadType DEF Thread
  <2> HIDE DEF row, t
  <2>4. /\ runs' = [runs EXCEPT ![r] = row]
        /\ thread' = [thread EXCEPT ![r] = t]
    BY <2>1 DEF row, t
  <2>5. runs' \in [RunIds -> Row \cup {Absent}] /\ thread' \in [RunIds -> Thread]
    BY <2>2, <2>3, <2>4 DEF TInv, TypeOK
  <2>6. PagesFull' /\ RowsThere'
    <3>1. /\ runs'[r] = row /\ thread'[r] = t
          /\ \A q \in RunIds : q # r => runs'[q] = runs[q] /\ thread'[q] = thread[q]
      <4>1. runs \in [RunIds -> Row \cup {Absent}] /\ thread \in [RunIds -> Thread]
        BY DEF TInv, TypeOK
      <4> QED BY <2>4, <4>1
    <3>2. PagesFull'
      BY <2>3, <3>1 DEF TInv, PagesFull
    <3>3. RowsThere'
      BY <2>2, <3>1 DEF TInv, RowsThere, Running
    <3> QED BY <3>2, <3>3
  <2>7. results' \in [RunIds -> SUBSET Files] /\ asked' \subseteq Callers
    BY <1>2 DEF Insert, TInv, TypeOK
  <2>8. TypeOK'
    BY <1>2, <2>5, <2>7 DEF Insert, TInv, TypeOK, fileVars
  <2> QED BY <2>6, <2>8 DEF TInv
<1> QED BY <1>1, <1>2 DEF Starts, StartRun, CheckAll, Callers

LEMMA StopTypes ==
    ASSUME TInv, NEW r \in RunIds, RequestStop(r)
    PROVE  TInv'
<1>1. runs[r] \in Row
  BY DEF RequestStop, TInv, TypeOK
<1> DEFINE row == [runs[r] EXCEPT !.stop = TRUE,
                     !.status = IF @ = "running" THEN "stopping" ELSE @]
<1>2. row \in Row
  BY <1>1 DEF Row, Active
<1>3. runs' = [runs EXCEPT ![r] = row]
  BY DEF RequestStop, TInv, TypeOK
<1> HIDE DEF row
<1>4. runs' \in [RunIds -> Row \cup {Absent}]
  BY <1>2, <1>3 DEF TInv, TypeOK
<1>5. PagesFull' /\ RowsThere'
  BY <1>2, <1>3 DEF RequestStop, TInv, TypeOK, PagesFull, RowsThere, Running
<1>6. TypeOK'
  BY <1>4 DEF RequestStop, TInv, TypeOK, fileVars
<1> QED BY <1>5, <1>6 DEF TInv

\* A set of numbers has a least one.
LEMMA LeastNumber ==
    ASSUME NEW T, T \subseteq Nat, T # {}
    PROVE  \E x \in T : \A y \in T : x <= y
<1> DEFINE R == OpToRel(<, Nat)
<1>1. IsWellFoundedOn(R, Nat)
  BY NatLessThanWellFounded
<1>2. \A y, x \in Nat : y < x => <<y, x>> \in R
  BY DEF OpToRel
<1> HIDE DEF R
<1>3. PICK x \in T : \A y \in T : ~ (<<y, x>> \in R)
  BY <1>1, WFMin
<1>4. \A y \in T : y \in Nat /\ x \in Nat /\ ~(y < x)
  BY <1>2, <1>3
<1>5. \A y \in T : x <= y
  BY <1>4
<1> QED BY <1>5

\* The pair process_run works on is one of those left.
LEMMA NextPairLeft ==
    ASSUME TypeOK, NEW r \in RunIds, thread[r].todo # {}
    PROVE  NextPair(r) \in thread[r].todo /\ NextPair(r) \in Pairs
<1>1. thread[r].todo \subseteq Pairs
  BY DEF TypeOK, Thread
<1>2. thread[r].todo \subseteq Nat
  BY <1>1, ConstantsOK
<1>3. \E x \in thread[r].todo : \A y \in thread[r].todo : x <= y
  BY <1>2, LeastNumber
<1> QED BY <1>1, <1>3 DEF NextPair

\* list_tracked_files_oldest_integrity_first returns files of the list.
LEMMA PageType ==
    ASSUME TypeOK, NEW p \in Pairs, NEW n \in Nat \ {0}
    PROVE  PageOf(p, n) \in Seq(Files)
<1> DEFINE files == order[p]
           last == IF n * PerPage < Len(files) THEN n * PerPage ELSE Len(files)
           first == (n - 1) * PerPage + 1
<1>1. files \in Seq(Files)
  BY DEF TypeOK
<1>2. Len(files) \in Nat /\ \A i \in 1..Len(files) : files[i] \in Files
  BY <1>1, LenProperties, ElementOfSeq
<1>3. first \in Int /\ 1 <= first
  <2>1. n - 1 \in Nat /\ PerPage \in Nat
    BY ConstantsOK
  <2>2. (n - 1) * PerPage \in Nat
    BY <2>1
  <2> QED BY <2>2
<1>4. last \in Int /\ last <= Len(files)
  <2>1. n * PerPage \in Int
    BY ConstantsOK
  <2> QED BY <1>2, <2>1
<1>5. \A i \in first..last : files[i] \in Files
  <2> HIDE DEF first, last, files
  <2> QED BY <1>2, <1>3, <1>4
<1>6. SubSeq(files, first, last) \in Seq(Files)
  <2> HIDE DEF first, last, files
  <2> QED BY <1>3, <1>4, <1>5, SubSeqProperties
<1> QED BY <1>6 DEF PageOf

LEMMA PairDoneType ==
    ASSUME TypeOK, NEW r \in RunIds
    PROVE  PairDone(r) \in Thread /\ PairDone(r).at = "list" /\ PairDone(r).batch = <<>>
<1>1. thread[r] \in Thread
  BY DEF TypeOK
<1>2. <<>> \in Seq(Entry)
  BY EmptySeq
<1>3. 1 \in Nat \ {0}
  OBVIOUS
<1> QED BY <1>1, <1>2, <1>3 DEF PairDone, Thread

\* The variables that hold the files, next to what a thread does.
OthersSame == UNCHANGED <<results, order, asked, up, single, fileVars, kills>>

\* A step in which a thread only moves on.
LEMMA MoveTypes ==
    ASSUME TInv, NEW r \in RunIds, Running(r), NEW t \in Thread,
           t.at = "work" => t.batch # <<>>,
           thread' = [thread EXCEPT ![r] = t], UNCHANGED runs, OthersSame
    PROVE  TInv'
<1>1. thread' \in [RunIds -> Thread] /\ PagesFull' /\ RowsThere'
  BY ThreadTypes
<1>2. TypeOK'
  BY <1>1 DEF TInv, TypeOK, OthersSame, fileVars
<1> QED BY <1>1, <1>2 DEF TInv

LEMMA EndTypes ==
    ASSUME TInv, NEW r \in RunIds, Running(r), NEW status \in Ended, FinishAs(r, status),
           OthersSame
    PROVE  TInv'
<1>1. /\ runs' \in [RunIds -> Row \cup {Absent}]
      /\ thread' \in [RunIds -> Thread] /\ PagesFull' /\ RowsThere'
  BY FinishTypes
<1>2. TypeOK'
  BY <1>1 DEF TInv, TypeOK, OthersSame, fileVars
<1> QED BY <1>1, <1>2 DEF TInv

\* The page that process_run is given.
LEMMA StartedType ==
    ASSUME TypeOK, NEW r \in RunIds, thread[r].todo # {}, PageOf(NextPair(r), thread[r].page) # <<>>
    PROVE  StartedPage(r) \in Thread /\ StartedPage(r).batch # <<>>
<1> DEFINE p == NextPair(r)
           n == thread[r].page
           files == PageOf(p, n)
           batch == [i \in DOMAIN files |->
                       [file |-> files[i], sum |-> sum[files[i]], verdict |-> "unchecked"]]
           more == n * PerPage < Len(order[p])
<1>1. thread[r] \in Thread /\ n \in Nat \ {0} /\ p \in Pairs
  BY NextPairLeft DEF TypeOK, Thread
<1>2. files \in Seq(Files) /\ files # <<>>
  BY <1>1, PageType
<1> HIDE DEF files
<1>3. DOMAIN files = 1..Len(files) /\ Len(files) \in Nat \ {0}
  BY <1>2, LenProperties, EmptySeq
<1>4. \A i \in DOMAIN files : batch[i] \in Entry
  <2> SUFFICES ASSUME NEW i \in DOMAIN files PROVE batch[i] \in Entry
    OBVIOUS
  <2>1. files[i] \in Files /\ sum[files[i]] \in Hashed
    BY <1>2, <1>3, ElementOfSeq DEF TypeOK
  <2> QED BY <2>1 DEF Entry
<1>5. DOMAIN batch = 1..Len(files)
  BY <1>3
<1> HIDE DEF batch
<1>6. batch \in Seq(Entry) /\ batch # <<>>
  <2>1. batch \in [1..Len(files) -> Entry]
    BY <1>3, <1>4, <1>5 DEF batch
  <2>2. batch \in Seq(Entry)
    BY <1>3, <2>1, SeqDef
  <2>3. 1 \in DOMAIN batch
    BY <1>3, <1>5
  <2> QED BY <2>2, <2>3
<1>7. more \in BOOLEAN
  OBVIOUS
<1>8. StartedPage(r) = [thread[r] EXCEPT !.at = "work", !.more = more, !.batch = batch]
  BY DEF StartedPage, batch, files
<1> HIDE DEF more
<1> QED BY <1>1, <1>6, <1>7, <1>8 DEF Thread

\* The entry in hand, and the thread after it.
LEMMA HeadType ==
    ASSUME TInv, NEW r \in RunIds, thread[r].at = "work"
    PROVE  /\ Head(thread[r].batch) \in Entry
           /\ NextFile(r) \in Thread /\ (NextFile(r).at = "work" => NextFile(r).batch # <<>>)
<1>1. thread[r] \in Thread /\ thread[r].batch \in Seq(Entry) /\ thread[r].batch # <<>>
      /\ thread[r].page \in Nat \ {0}
  BY DEF TInv, TypeOK, PagesFull, Thread
<1>2. Head(thread[r].batch) \in Entry /\ Tail(thread[r].batch) \in Seq(Entry)
  BY <1>1, HeadTailProperties
<1>3. [thread[r] EXCEPT !.batch = Tail(thread[r].batch)] \in Thread
  BY <1>1, <1>2 DEF Thread
<1>4. <<>> \in Seq(Entry) /\ thread[r].page + 1 \in Nat \ {0}
  BY <1>1, EmptySeq
<1> DEFINE next == [thread[r] EXCEPT !.at = "list", !.page = @ + 1, !.more = FALSE, !.batch = <<>>]
<1>5. next \in Thread /\ next.at = "list"
  BY <1>1, <1>4 DEF Thread
<1>6. PairDone(r) \in Thread /\ PairDone(r).at = "list"
  BY PairDoneType DEF TInv
<1>7. CASE Tail(thread[r].batch) # <<>>
  BY <1>1, <1>2, <1>3, <1>7 DEF NextFile, Thread
<1>8. CASE Tail(thread[r].batch) = <<>> /\ thread[r].more
  BY <1>2, <1>5, <1>8 DEF NextFile
<1>9. CASE Tail(thread[r].batch) = <<>> /\ ~thread[r].more
  BY <1>2, <1>6, <1>9 DEF NextFile
<1> QED BY <1>7, <1>8, <1>9

LEMMA WorkTypes ==
    ASSUME TInv, NEW r \in RunIds, Work(r)
    PROVE  TInv'
<1>0. thread[r] \in Thread
  BY DEF TInv, TypeOK
<1>1. CASE StopAtPage(r)
  BY <1>1, EndTypes DEF StopAtPage, Running, OthersSame, Ended
<1>2. CASE ListPage(r)
  <2> DEFINE t == IF PageOf(NextPair(r), thread[r].page) = <<>>
                  THEN PairDone(r) ELSE StartedPage(r)
  <2>1. t \in Thread /\ (t.at = "work" => t.batch # <<>>)
    BY <1>2, PairDoneType, StartedType DEF ListPage, TInv
  <2>2. thread' = [thread EXCEPT ![r] = t] /\ Running(r) /\ UNCHANGED runs /\ OthersSame
    BY <1>2 DEF ListPage, Running, OthersSame
  <2> HIDE DEF t
  <2> QED BY <2>1, <2>2, MoveTypes
<1>3. CASE Decide(r)
  <2> DEFINE t == [thread[r] EXCEPT !.at = "finish",
                     !.outcome = IF runs[r].stop THEN "stopped" ELSE "completed"]
  <2>1. t \in Thread /\ t.at = "finish"
    BY <1>0 DEF Thread, Ended
  <2>2. thread' = [thread EXCEPT ![r] = t] /\ Running(r) /\ UNCHANGED runs /\ OthersSame
    BY <1>0, <1>3 DEF Decide, Running, OthersSame, TInv, TypeOK
  <2> HIDE DEF t
  <2> QED BY <2>1, <2>2, MoveTypes
<1>4. CASE Finish(r)
  BY <1>0, <1>4, EndTypes DEF Finish, Running, OthersSame, Thread
<1>5. CASE \E i \in DOMAIN thread[r].batch : CheckFile(r, i)
  <2>1. PICK i \in DOMAIN thread[r].batch : CheckFile(r, i)
    BY <1>5
  <2> DEFINE e == thread[r].batch[i]
             w == Verdict(copy["master"][e.file], copy["mirror"][e.file], e.sum)
  <2>w. w \in Verdicts
    BY VerdictType
  <2>2. PICK v \in Verdicts : thread' = [thread EXCEPT ![r].batch[i].verdict = v]
    <3>1. \E v \in {w, "internal_error"} : thread' = [thread EXCEPT ![r].batch[i].verdict = v]
      BY <2>1 DEF CheckFile
    <3>2. "internal_error" \in Verdicts
      BY DEF Verdicts
    <3> HIDE DEF w
    <3> QED BY <2>w, <3>1, <3>2
  <2> DEFINE t == [thread[r] EXCEPT !.batch[i].verdict = v]
             b == [thread[r].batch EXCEPT ![i] = [@ EXCEPT !.verdict = v]]
  <2>3. thread[r].batch \in Seq(Entry) /\ DOMAIN thread[r].batch = 1..Len(thread[r].batch)
        /\ Len(thread[r].batch) \in Nat
    BY <1>0, LenProperties DEF Thread
  <2>4. thread[r].batch[i] \in Entry
    BY <2>1, <2>3, ElementOfSeq
  <2>5. [thread[r].batch[i] EXCEPT !.verdict = v] \in Entry
    BY <2>4 DEF Entry
  <2>6. b \in [1..Len(thread[r].batch) -> Entry]
    <3>1. \A j \in 1..Len(thread[r].batch) : thread[r].batch[j] \in Entry
      BY <2>3, ElementOfSeq
    <3>2. thread[r].batch \in [1..Len(thread[r].batch) -> Entry]
      BY <2>3, LenProperties
    <3> QED BY <2>5, <3>2
  <2>7. b \in Seq(Entry) /\ b # <<>>
    <3>1. b \in Seq(Entry)
      BY <2>3, <2>6, SeqDef
    <3>2. i \in DOMAIN b
      BY <2>1, <2>3, <2>6
    <3> QED BY <3>1, <3>2
  <2>8. t = [thread[r] EXCEPT !.batch = b]
    BY <1>0, <2>3 DEF Thread
  <2>9. thread' = [thread EXCEPT ![r] = t]
    BY <2>2
  <2> HIDE DEF t, b
  <2>10. t \in Thread /\ t.batch # <<>>
    BY <1>0, <2>7, <2>8 DEF Thread
  <2>11. Running(r) /\ UNCHANGED runs /\ OthersSame
    BY <2>1 DEF CheckFile, Running, OthersSame
  <2> QED BY <2>9, <2>10, <2>11, MoveTypes
<1>6. CASE SettleFile(r)
  <2> DEFINE e == Head(thread[r].batch)
  <2>1. e \in Entry /\ NextFile(r) \in Thread /\ (NextFile(r).at = "work" => NextFile(r).batch # <<>>)
    BY <1>6, HeadType DEF SettleFile, PageChecked
  <2>2. /\ e.file \in Tracked /\ Recover(runs[r].recover, e) /\ order' = Touched(e.file)
        /\ results' = [results EXCEPT ![r] = @ \cup {e.file}]
        /\ thread' = [thread EXCEPT ![r] = NextFile(r)]
        /\ UNCHANGED <<runs, asked, up, single, sum, kept, kills>>
        /\ Running(r)
    BY <1>6 DEF SettleFile, AppendResult, PageChecked, Running
  <2> HIDE DEF e
  <2>3. thread' \in [RunIds -> Thread] /\ PagesFull' /\ RowsThere'
    BY <2>1, <2>2, ThreadTypes
  <2>4. copy' \in [Sides -> [Files -> Contents]] /\ mirrored' \subseteq Files /\ rows' \subseteq Files
    BY <2>1, <2>2, RecoverTypes DEF TInv
  <2>5. order' \in [Pairs -> Seq(Files)] /\ (\A p \in Pairs : order'[p] \in Listing(p)) /\ e.file \in Files
    BY <2>2, ListFacts DEF TInv, TypeOK, Lists
  <2>6. results' \in [RunIds -> SUBSET Files]
    BY <2>2, <2>5 DEF TInv, TypeOK
  <2>7. TypeOK'
    BY <2>2, <2>3, <2>4, <2>5, <2>6 DEF TInv, TypeOK
  <2> QED BY <2>3, <2>7 DEF TInv
<1>7. CASE FailRun(r)
  <2> DEFINE e == Head(thread[r].batch)
  <2>1. e \in Entry
    BY <1>7, HeadType DEF FailRun, PageChecked
  <2>2. /\ Recover(runs[r].recover, e) /\ FinishAs(r, "failed")
        /\ UNCHANGED <<results, order, asked, up, single, sum, kept, kills>>
        /\ Running(r)
    BY <1>7 DEF FailRun, PageChecked, Running
  <2> HIDE DEF e
  <2>3. /\ runs' \in [RunIds -> Row \cup {Absent}]
        /\ thread' \in [RunIds -> Thread] /\ PagesFull' /\ RowsThere'
    BY <2>2, FinishTypes DEF Ended
  <2>4. copy' \in [Sides -> [Files -> Contents]] /\ mirrored' \subseteq Files /\ rows' \subseteq Files
    BY <2>1, <2>2, RecoverTypes DEF TInv
  <2>5. TypeOK'
    BY <2>2, <2>3, <2>4 DEF TInv, TypeOK
  <2> QED BY <2>3, <2>5 DEF TInv
<1> QED BY <1>1, <1>2, <1>3, <1>4, <1>5, <1>6, <1>7 DEF Work

\* The check of one file.
LEMMA SingleTypes ==
    ASSUME TInv, Singles
    PROVE  TInv'
<1>0. Lists
  BY DEF TInv, TypeOK, Lists
<1>1. ASSUME NEW f \in Files, LookAt(f) PROVE TInv'
  <2>1. order' \in [Pairs -> Seq(Files)] /\ \A p \in Pairs : order'[p] \in Listing(p)
    BY <1>0, <1>1, ListFacts DEF LookAt
  <2>2. TypeOK'
    BY <1>1, <2>1 DEF LookAt, TInv, TypeOK, fileVars
  <2> QED BY <1>1, <2>2, IdleTypes DEF LookAt, TInv
<1>2. ASSUME NEW f \in Files, NEW c \in Callers, RepairOne(c, f) PROVE TInv'
  <2>1. Verdict(copy["master"][f], copy["mirror"][f], sum[f]) \in Verdicts
    BY VerdictType
  <2>2. Found(f) \in Entry
    <3> DEFINE v == Verdict(copy["master"][f], copy["mirror"][f], sum[f])
    <3>1. Found(f) = [file |-> f, sum |-> sum[f], verdict |-> v] /\ v \in Verdicts
      BY <2>1 DEF Found
    <3> HIDE DEF v
    <3>2. sum[f] \in Hashed
      BY DEF TInv, TypeOK
    <3> QED BY <3>1, <3>2 DEF Entry
  <2>3. single' \in Single
    BY <1>2, <2>2 DEF RepairOne, Single
  <2>4. TypeOK'
    BY <1>2, <2>3 DEF RepairOne, TInv, TypeOK, fileVars
  <2> QED BY <1>2, <2>4, IdleTypes DEF RepairOne, TInv
<1>3. CASE SettleOne
  <2> DEFINE e == single.entry
  <2>1. e \in Entry
    BY <1>3 DEF SettleOne, TInv, TypeOK, Single
  <2>2. /\ Recover(TRUE, e)
        /\ order' = order \/ (e.file \in Tracked /\ order' = Touched(e.file))
        /\ single' = NoSingle
        /\ UNCHANGED <<runs, results, asked, up, thread, sum, kept, kills>>
    BY <1>3 DEF SettleOne
  <2> HIDE DEF e
  <2>3. copy' \in [Sides -> [Files -> Contents]] /\ mirrored' \subseteq Files /\ rows' \subseteq Files
    BY <2>1, <2>2, RecoverTypes DEF TInv
  <2>4. order' \in [Pairs -> Seq(Files)] /\ \A p \in Pairs : order'[p] \in Listing(p)
    <3>1. CASE order' = order
      BY <3>1 DEF TInv, TypeOK
    <3>2. CASE e.file \in Tracked /\ order' = Touched(e.file)
      BY <1>0, <3>2, ListFacts
    <3> QED BY <2>2, <3>1, <3>2
  <2>5. TypeOK'
    BY <2>2, <2>3, <2>4 DEF TInv, TypeOK
  <2> QED BY <2>2, <2>5, IdleTypes DEF TInv
<1> QED BY <1>1, <1>2, <1>3 DEF Singles, CheckRequest, CheckCommand, Callers

\* A killed copy leaves a damaged target.
LEMMA TornType ==
    ASSUME TypeOK, NEW e \in Entry, NEW recover, Restores(recover, e), Torn(e)
    PROVE  copy' \in [Sides -> [Files -> Contents]]
<1>1. e.file \in Files /\ Damaged \in Contents
  BY ConstantsOK DEF Entry, Contents, Missing, Damaged
<1>2. TargetSide(e.verdict) \in Sides
  BY Targets DEF Restores
<1>3. copy' = [copy EXCEPT ![TargetSide(e.verdict)][e.file] = Damaged]
  BY DEF Torn
<1> QED BY <1>1, <1>2, <1>3 DEF TypeOK

LEMMA ProcessTypes ==
    ASSUME TInv, Processes
    PROVE  TInv'
<1>1. ASSUME NEW c \in Callers, NEW dead \in SUBSET RunIds, KillThreads(c, dead),
             UNCHANGED <<runs, results, order, sum, mirrored, rows, kept>>,
             up' \in BOOLEAN, asked' \subseteq asked
      PROVE  TInv'
  <2>1. copy' \in [Sides -> [Files -> Contents]]
    <3>1. CASE UNCHANGED copy
      BY <3>1 DEF TInv, TypeOK
    <3>2. CASE single.caller = c /\ Restores(TRUE, single.entry) /\ Torn(single.entry)
      <4>1. single # NoSingle
        BY <3>2 DEF NoSingle, Callers
      <4>2. single.entry \in Entry
        BY <4>1 DEF TInv, TypeOK, Single
      <4> QED BY <3>2, <4>2, TornType DEF TInv
    <3>3. CASE \E r \in dead :
                 /\ thread[r].at = "work" /\ thread[r].batch # <<>>
                 /\ Restores(runs[r].recover, Head(thread[r].batch))
                 /\ Torn(Head(thread[r].batch))
      BY <3>3, HeadType, TornType DEF TInv
    <3> QED BY <1>1, <3>1, <3>2, <3>3 DEF KillThreads, Tear
  <2>2. /\ kills' \in 0..MaxKills
        /\ thread' = [r \in RunIds |-> IF r \in dead THEN NoThread ELSE thread[r]]
        /\ single' \in {NoSingle, single}
    BY <1>1, ConstantsOK DEF KillThreads, TInv, TypeOK
  <2>3. thread' \in [RunIds -> Thread] /\ PagesFull' /\ RowsThere'
    <3>1. thread' \in [RunIds -> Thread]
      BY <2>2, NoThreadType DEF TInv, TypeOK
    <3>2. PagesFull'
      BY <2>2, NoThreadType DEF TInv, PagesFull
    <3>3. RowsThere'
      BY <1>1, <2>2, NoThreadType DEF TInv, RowsThere, Running
    <3> QED BY <3>1, <3>2, <3>3
  <2>4. TypeOK'
    BY <1>1, <2>1, <2>2, <2>3 DEF TInv, TypeOK
  <2> QED BY <2>3, <2>4 DEF TInv
<1>2. CASE KillService
  BY <1>1, <1>2 DEF KillService, Callers, RunsOf
<1>3. CASE KillCli
  <2>1. up' \in BOOLEAN
    BY <1>3 DEF KillCli, TInv, TypeOK
  <2> QED BY <1>1, <1>3, <2>1 DEF KillCli, Callers, RunsOf
<1>4. CASE StartService
  <2>1. \A r \in RunIds :
           /\ runs'[r] \in Row \cup {Absent}
           /\ runs[r] \in Row => runs'[r] \in Row
    <3> SUFFICES ASSUME NEW r \in RunIds
                 PROVE  runs'[r] \in Row \cup {Absent} /\ (runs[r] \in Row => runs'[r] \in Row)
      OBVIOUS
    <3>1. runs'[r] = IF Cleaned(r) THEN [runs[r] EXCEPT !.status = "failed"] ELSE runs[r]
      BY <1>4 DEF StartService
    <3>2. runs[r] \in Row \cup {Absent}
      BY DEF TInv, TypeOK
    <3>3. CASE Cleaned(r)
      <4>1. runs[r] \in Row
        BY <3>2, <3>3 DEF Cleaned, IsActive, Active, Absent
      <4> QED BY <3>1, <3>3, <4>1 DEF Row, Ended
    <3> QED BY <3>1, <3>2, <3>3
  <2>2. runs' \in [RunIds -> Row \cup {Absent}]
    <3>1. runs' = [r \in RunIds |->
                     IF Cleaned(r) THEN [runs[r] EXCEPT !.status = "failed"] ELSE runs[r]]
      BY <1>4 DEF StartService
    <3>2. runs' = [r \in RunIds |-> runs'[r]]
      BY <3>1
    <3> QED BY <2>1, <3>2
  <2>3. PagesFull' /\ RowsThere'
    <3>1. UNCHANGED thread
      BY <1>4 DEF StartService
    <3>2. PagesFull'
      BY <3>1 DEF TInv, PagesFull
    <3>3. RowsThere'
      BY <2>1, <3>1 DEF TInv, RowsThere, Running
    <3> QED BY <3>2, <3>3
  <2>4. TypeOK'
    BY <1>4, <2>2 DEF StartService, TInv, TypeOK, fileVars
  <2> QED BY <2>3, <2>4 DEF TInv
<1> QED BY <1>2, <1>3, <1>4 DEF Processes

LEMMA FileChangeTypes ==
    ASSUME TInv, FileChanges
    PROVE  TInv'
<1>0. Lists /\ copy \in [Sides -> [Files -> Contents]] /\ kept \in [Files -> Versions]
      /\ sum \in [Files -> Hashed] /\ mirrored \subseteq Files /\ rows \subseteq Files
  BY DEF TInv, TypeOK, Lists
<1>1. ASSUME NEW f \in Files, Edit(f) PROVE TInv'
  <2>1. kept[f] + 1 \in Versions /\ kept[f] + 1 \in Contents
    BY <1>0, <1>1, ConstantsOK DEF Edit, Versions, Contents, Missing
  <2>2. TypeOK'
    BY <1>0, <1>1, <2>1 DEF Edit, TInv, TypeOK, Sides
  <2> QED BY <1>1, <2>2, IdleTypes DEF Edit, TInv
<1>2. ASSUME NEW f \in Files, Scan(f) PROVE TInv'
  <2>1. copy["master"][f] \in Hashed
    <3>1. copy["master"][f] \in Contents /\ copy["master"][f] # Missing
      BY <1>0, <1>2 DEF Scan, Sides
    <3> QED BY <3>1, ConstantsOK DEF Contents, Hashed, Missing, Damaged
  <2>2. TypeOK'
    BY <1>0, <1>2, <2>1 DEF Scan, TInv, TypeOK
  <2> QED BY <1>2, <2>2, IdleTypes DEF Scan, TInv
<1>3. ASSUME NEW f \in Files, MirrorFile(f) PROVE TInv'
  <2>1. TypeOK'
    BY <1>0, <1>3 DEF MirrorFile, TInv, TypeOK, Sides
  <2> QED BY <1>3, <2>1, IdleTypes DEF MirrorFile, TInv
<1>4. ASSUME NEW f \in Files, Untrack(f) PROVE TInv'
  <2>1. order' \in [Pairs -> Seq(Files)] /\ \A p \in Pairs : order'[p] \in Listing(p)
    BY <1>0, <1>4, ListFacts DEF Untrack
  <2>2. results' \in [RunIds -> SUBSET Files]
    BY <1>4 DEF Untrack, TInv, TypeOK
  <2>3. TypeOK'
    BY <1>0, <1>4, <2>1, <2>2 DEF Untrack, TInv, TypeOK
  <2> QED BY <1>4, <2>3, IdleTypes DEF Untrack, TInv
<1>5. ASSUME NEW f \in Files, NEW side \in Sides, Damage(side, f) PROVE TInv'
  <2>1. Damaged \in Contents /\ Missing \in Contents
    BY ConstantsOK DEF Contents, Damaged, Missing
  <2>0. copy' \in [Sides -> [Files -> Contents]]
    <3>1. PICK c \in {Damaged, Missing} : copy' = [copy EXCEPT ![side][f] = c]
      BY <1>5 DEF Damage
    <3> QED BY <1>0, <2>1, <3>1
  <2>2. TypeOK'
    BY <1>5, <2>0 DEF Damage, TInv, TypeOK
  <2> QED BY <1>5, <2>2, IdleTypes DEF Damage, TInv
<1> QED BY <1>1, <1>2, <1>3, <1>4, <1>5 DEF FileChanges

LEMMA NextTInv ==
    ASSUME TInv, [Next]_vars
    PROVE  TInv'
<1>1. CASE Starts
  BY <1>1, StartTypes
<1>2. CASE \E r \in RunIds : StopRun(r) \/ Work(r)
  BY <1>2, StopTypes, WorkTypes DEF StopRun
<1>3. CASE Singles
  BY <1>3, SingleTypes
<1>4. CASE Processes
  BY <1>4, ProcessTypes
<1>5. CASE FileChanges
  BY <1>5, FileChangeTypes
<1>6. CASE UNCHANGED vars
  <2>1. TypeOK'
    BY <1>6 DEF vars, fileVars, TInv, TypeOK
  <2> QED BY <1>6, <2>1, IdleTypes DEF vars, TInv
<1> QED BY <1>1, <1>2, <1>3, <1>4, <1>5, <1>6 DEF Next

LEMMA TypesHold == Spec => []TInv
<1>1. TInv /\ [Next]_vars => TInv'
  BY NextTInv
<1> QED BY <1>1, InitTInv, PTL DEF Spec

(***************************************************************************)
(* The rows, the threads and the lists of integrity_runs.rs stay within    *)
(* their types, whatever of the freedoms is allowed.                       *)
(***************************************************************************)
THEOREM TypeCorrect == Spec => []TypeOK
<1>1. TInv => TypeOK
  BY DEF TInv
<1> QED BY <1>1, TypesHold, PTL
-----------------------------------------------------------------------------
(* What the user wrote last *)

\* The freedoms under which a version can get lost are off: users and damage keep
\* away while a repair is at work, a repair starts when scans have seen all edits,
\* no scan takes damage for an edit, and no damage hits a file before its transfer.
Careful == {"change under recovery", "recover before scan", "scan damage",
            "damage before transfer"} \cap Allowed = {}

\* One tracked file: its master is as written or gone, one copy is as written, a
\* pending transfer has its source, and an old mirror has a pending transfer.
FileOk(f) ==
    /\ copy["master"][f] \in {Missing, Damaged, kept[f]}
    /\ copy["master"][f] = kept[f] \/ copy["mirror"][f] = kept[f]
    /\ f \in rows => copy["master"][f] = kept[f]
    /\ sum[f] \in Versions /\ sum[f] <= kept[f]
    /\ copy["mirror"][f] \in Versions /\ copy["mirror"][f] < sum[f] => f \in rows

\* A checked file whose repair may follow: the side it will be written from holds
\* what the user wrote last, and no transfer will overwrite that side.
SourceGood(e) == e.file \in Tracked =>
    /\ e.sum = sum[e.file]
    /\ TargetSide(e.verdict) # "none" =>
          /\ copy[Other(TargetSide(e.verdict))][e.file] = kept[e.file]
          /\ e.sum = kept[e.file]
    /\ TargetSide(e.verdict) = "master" => e.file \notin rows

\* Two of them do not write the same file in opposite directions.
Agree(d, e) ==
    d.file = e.file /\ e.file \in Tracked /\ "none" \notin {TargetSide(d.verdict), TargetSide(e.verdict)}
    => TargetSide(d.verdict) = TargetSide(e.verdict)

\* The checked files that repairs are still to be made of.
InHand(e) ==
    \/ \E r \in RunIds : Recovering(r) /\ \E i \in DOMAIN thread[r].batch : e = thread[r].batch[i]
    \/ single # NoSingle /\ e = single.entry
SourcesGood == \A e : InHand(e) => SourceGood(e) /\ \A d : InHand(d) => Agree(d, e)

Repairing == (\E r \in RunIds : Recovering(r)) \/ single # NoSingle

\* The inductive invariant.
FInv ==
    /\ TInv
    /\ \A f \in Tracked : FileOk(f)
    /\ SourcesGood
    /\ Repairing => \A f \in Tracked : ~Unscanned(f)

\* What a step may do to the files while a repair is at work.
FilesSafe ==
    /\ Tracked' \subseteq Tracked
    /\ \A f \in Tracked' : FileOk(f)'
    /\ \A f \in Tracked' : Unscanned(f)' => Unscanned(f)
    /\ \A d : InHand(d) => SourceGood(d)'

LEMMA TrackedTyped == ASSUME TInv PROVE Lists /\ Tracked \subseteq Files
  BY TrackedFiles DEF TInv, TypeOK, Lists

\* A step that leaves the files alone is safe.
LEMMA SameFiles ==
    ASSUME FInv, UNCHANGED <<copy, sum, rows, kept>>, Tracked' \subseteq Tracked
    PROVE  FilesSafe
<1>1. \A f \in Tracked' : FileOk(f)'
  BY DEF FInv, FileOk
<1>2. \A f \in Tracked' : Unscanned(f)' => Unscanned(f)
  BY DEF Unscanned
<1>3. \A d : InHand(d) => SourceGood(d)'
  BY DEF SourceGood, FInv, SourcesGood
<1> QED BY <1>1, <1>2, <1>3 DEF FilesSafe

\* A repair writes what the user wrote last over the other copy.
LEMMA RecoverSafe ==
    ASSUME FInv, NEW recover, NEW e \in Entry, recover => SourceGood(e), Recover(recover, e),
           UNCHANGED <<sum, kept>>, Tracked' \subseteq Tracked
    PROVE  FilesSafe
<1>1. CASE ~Restores(recover, e)
  <2>1. copy' = copy /\ rows' = rows
    BY <1>1 DEF Recover, RestoreGood
  <2> QED BY <2>1, SameFiles
<1>2. CASE Restores(recover, e)
  <2> DEFINE t == TargetSide(e.verdict)
             g == e.file
  <2>1. recover /\ t # "none" /\ t \in Sides /\ Other(t) \in Sides /\ Other(t) # t /\ g \in Files
    BY <1>2, Targets DEF Restores, Entry, Other
  <2>2. PICK v : copy' = [copy EXCEPT ![t][g] = v]
    BY <1>2 DEF Recover
  <2>3. /\ copy'[t][g] = v
        /\ \A s \in Sides, f \in Files : s # t \/ f # g => copy'[s][f] = copy[s][f]
    <3> HIDE DEF t, g
    <3>1. TInv
      BY DEF FInv
    <3>2. copy \in [Sides -> [Files -> Contents]]
      BY <3>1 DEF TInv, TypeOK
    <3> QED BY <2>1, <2>2, <3>2
  <2>4. /\ rows' \subseteq rows
        /\ \A f : f # g => (f \in rows' <=> f \in rows)
    BY DEF Recover
  <2>5. g \in Tracked => /\ copy[Other(t)][g] = kept[g] /\ sum[g] = kept[g]
                         /\ copy'[t][g] = kept[g]
                         /\ g \notin rows'
    <3> SUFFICES ASSUME g \in Tracked
                 PROVE  /\ copy[Other(t)][g] = kept[g] /\ sum[g] = kept[g]
                        /\ copy'[t][g] = kept[g]
                        /\ g \notin rows'
      OBVIOUS
    <3>1. copy[Other(t)][g] = kept[g] /\ e.sum = kept[g] /\ sum[g] = kept[g]
      BY <2>1 DEF SourceGood
    <3>2. RestoreGood(recover, e)
      BY <1>2, <3>1 DEF RestoreGood
    <3>3. copy' = [copy EXCEPT ![t][g] = e.sum] /\ rows' = rows \ {g}
      BY <1>2, <3>2 DEF Recover
    <3>4. copy'[t][g] = e.sum
      <4> HIDE DEF t, g
      <4>1. copy \in [Sides -> [Files -> Contents]]
        BY DEF FInv, TInv, TypeOK
      <4> QED BY <2>1, <3>3, <4>1
    <3> QED BY <3>1, <3>3, <3>4
  <2> HIDE DEF t, g
  <2>6. \A f \in Tracked' : f # g => copy'["master"][f] = copy["master"][f]
                                    /\ copy'["mirror"][f] = copy["mirror"][f]
    BY <2>3, TrackedTyped DEF FInv, Sides
  <2>7. g \in Tracked => copy'["master"][g] = kept[g] /\ copy'["mirror"][g] = kept[g]
    BY <2>1, <2>3, <2>5 DEF Sides
  <2>8. \A f \in Tracked' : FileOk(f)'
    <3> SUFFICES ASSUME NEW f \in Tracked' PROVE FileOk(f)'
      OBVIOUS
    <3>1. FileOk(f)
      BY DEF FInv
    <3>2. CASE f = g
      <4>1. kept[g] \in Nat
        BY <2>1, ConstantsOK DEF FInv, TInv, TypeOK, Versions
      <4> QED BY <2>5, <2>7, <3>1, <3>2, <4>1 DEF FileOk
    <3>3. CASE f # g
      BY <2>4, <2>6, <3>1, <3>3 DEF FileOk
    <3> QED BY <3>2, <3>3
  <2>9. \A f \in Tracked' : Unscanned(f)' => Unscanned(f)
    <3> SUFFICES ASSUME NEW f \in Tracked', Unscanned(f)' PROVE Unscanned(f)
      OBVIOUS
    <3>1. f # g
      BY <2>5, <2>7 DEF Unscanned
    <3> QED BY <2>6, <3>1 DEF Unscanned
  <2>10. \A d : InHand(d) => SourceGood(d)'
    <3> SUFFICES ASSUME NEW d, SourceGood(d), d.file \in Tracked' PROVE SourceGood(d)'
      BY DEF SourceGood, FInv, SourcesGood
    <3> DEFINE s == TargetSide(d.verdict)
    <3>1. s # "none" => Other(s) \in Sides
      BY Targets
    <3>2. d.file \in Tracked /\ d.sum = sum[d.file] /\ (s = "master" => d.file \notin rows)
          /\ (s # "none" => copy[Other(s)][d.file] = kept[d.file] /\ d.sum = kept[d.file])
      BY DEF SourceGood
    <3>3. s # "none" => copy'[Other(s)][d.file] = kept[d.file]
      <4>1. CASE d.file = g
        BY <2>7, <3>1, <3>2, <4>1 DEF Sides
      <4>2. CASE d.file # g
        BY <2>6, <3>1, <3>2, <4>2 DEF Sides
      <4> QED BY <4>1, <4>2
    <3> HIDE DEF s
    <3>4. s = TargetSide(d.verdict)
      BY DEF s
    <3> QED BY <2>4, <3>2, <3>3, <3>4 DEF SourceGood
  <2> QED BY <2>8, <2>9, <2>10 DEF FilesSafe
<1> QED BY <1>1, <1>2

\* A killed repair leaves its source.
LEMMA TornSafe ==
    ASSUME FInv, NEW e \in Entry, InHand(e), Restores(TRUE, e), Torn(e),
           UNCHANGED <<sum, kept, rows>>, Tracked' \subseteq Tracked
    PROVE  FilesSafe
<1> DEFINE t == TargetSide(e.verdict)
           g == e.file
<1>1. t # "none" /\ t \in Sides /\ Other(t) \in Sides /\ Other(t) # t /\ g \in Files
  BY Targets DEF Restores, Entry, Other
<1>2. copy' = [copy EXCEPT ![t][g] = Damaged]
  BY DEF Torn
<1>3. g \in Tracked => /\ copy[Other(t)][g] = kept[g] /\ e.sum = sum[g] /\ sum[g] = kept[g]
                       /\ t = "master" => g \notin rows
  BY <1>1 DEF SourceGood, FInv, SourcesGood
<1>t. t = TargetSide(e.verdict) /\ g = e.file /\ TInv
  BY DEF FInv
<1> HIDE DEF t, g
<1>4. /\ copy'[t][g] = Damaged
      /\ \A s \in Sides, f \in Files : s # t \/ f # g => copy'[s][f] = copy[s][f]
  <2>1. copy \in [Sides -> [Files -> Contents]]
    BY <1>t DEF TInv, TypeOK
  <2> QED BY <1>1, <1>2, <2>1
<1>5. copy'[Other(t)][g] = copy[Other(t)][g]
  BY <1>1, <1>4
<1>6. \A f \in Tracked' : f # g => copy'["master"][f] = copy["master"][f]
                                  /\ copy'["mirror"][f] = copy["mirror"][f]
  BY <1>4, TrackedTyped DEF FInv, Sides
<1>7. \A f \in Tracked' : FileOk(f)'
  <2> SUFFICES ASSUME NEW f \in Tracked' PROVE FileOk(f)'
    OBVIOUS
  <2>1. FileOk(f)
    BY DEF FInv
  <2>2. CASE f = g
    <3>1. Damaged \notin Versions
      BY DEF Damaged, Versions
    <3>2. CASE t = "master"
      <4>1. copy'["master"][g] = Damaged /\ copy'["mirror"][g] = kept[g] /\ g \notin rows
        BY <1>3, <1>4, <1>5, <2>2, <3>2 DEF Other
      <4>2. kept[g] = sum[g] /\ kept[g] \in Nat
        BY <1>1, <1>3, <2>2 DEF FInv, TInv, TypeOK, Versions
      <4> QED BY <2>1, <2>2, <4>1, <4>2 DEF FileOk
    <3>3. CASE t = "mirror"
      <4>1. copy'["mirror"][g] = Damaged /\ copy'["master"][g] = kept[g]
        BY <1>3, <1>4, <1>5, <2>2, <3>3 DEF Other
      <4> QED BY <2>1, <2>2, <3>1, <4>1 DEF FileOk
    <3> QED BY <1>1, <3>2, <3>3 DEF Sides
  <2>3. CASE f # g
    BY <1>6, <2>1, <2>3 DEF FileOk
  <2> QED BY <2>2, <2>3
<1>8. \A f \in Tracked' : Unscanned(f)' => Unscanned(f)
  <2> SUFFICES ASSUME NEW f \in Tracked', Unscanned(f)' PROVE Unscanned(f)
    OBVIOUS
  <2>1. CASE f # g
    BY <1>6, <2>1 DEF Unscanned
  <2>2. CASE f = g
    BY <1>1, <1>3, <1>4, <1>5, <2>2 DEF Unscanned, Sides, Other
  <2> QED BY <2>1, <2>2
<1>9. \A d : InHand(d) => SourceGood(d)'
  <2> SUFFICES ASSUME NEW d, SourceGood(d), Agree(d, e), d.file \in Tracked' PROVE SourceGood(d)'
    BY DEF SourceGood, FInv, SourcesGood
  <2> DEFINE s == TargetSide(d.verdict)
  <2>1. s # "none" => Other(s) \in Sides /\ s \in Sides
    BY Targets
  <2>2. d.file \in Tracked /\ d.sum = sum[d.file] /\ (s = "master" => d.file \notin rows)
        /\ (s # "none" => copy[Other(s)][d.file] = kept[d.file] /\ d.sum = kept[d.file])
    BY DEF SourceGood
  <2>3. s # "none" => copy'[Other(s)][d.file] = kept[d.file]
    <3>1. CASE d.file # g
      BY <1>6, <2>1, <2>2, <3>1 DEF Sides
    <3>2. CASE d.file = g /\ s = t
      BY <1>3, <1>5, <2>2, <3>2
    <3>3. s # "none" => d.file # g \/ s = t
      BY <1>1, <1>t, <2>2 DEF Agree
    <3> QED BY <3>1, <3>2, <3>3
  <2> HIDE DEF s
  <2>4. s = TargetSide(d.verdict)
    BY DEF s
  <2> QED BY <2>2, <2>3, <2>4 DEF SourceGood
<1> QED BY <1>7, <1>8, <1>9 DEF FilesSafe

\* What is known of a file that has just been checked, or is still to be.
Fresh(e) == e.file \in Tracked =>
    /\ e.sum = sum[e.file]
    /\ e.verdict \in {Verdict(copy["master"][e.file], copy["mirror"][e.file], e.sum),
                      "internal_error", "unchecked"}

\* When a verdict asks for a repair.
LEMMA VerdictFacts ==
    ASSUME NEW m, NEW x, NEW h
    PROVE  /\ TargetSide(Verdict(m, x, h)) = "master" => m \notin {h, Missing} /\ x = h
           /\ TargetSide(Verdict(m, x, h)) = "mirror" =>
                 \/ m # Missing /\ x = Missing
                 \/ m = h /\ x \notin {h, Missing}
           /\ TargetSide(Verdict(m, x, h)) \in {"none", "master", "mirror"}
  BY DEF Verdict, TargetSide

LEMMA FreshGood ==
    ASSUME FInv, \A f \in Tracked : ~Unscanned(f), NEW e, Fresh(e)
    PROVE  SourceGood(e) /\ \A d : SourceGood(d) => Agree(d, e)
<1> DEFINE g == e.file
           m == copy["master"][g]
           x == copy["mirror"][g]
           t == TargetSide(e.verdict)
<1>3. SUFFICES ASSUME g \in Tracked
               PROVE  SourceGood(e) /\ \A d : SourceGood(d) => Agree(d, e)
  BY DEF SourceGood, Agree
<1>1. e.sum = sum[g] /\ g \in Files
  BY <1>3, TrackedTyped DEF Fresh, FInv
<1>2. t # "none" => t = TargetSide(Verdict(m, x, e.sum))
  BY <1>3 DEF Fresh, TargetSide
<1>4. FileOk(g) /\ ~Unscanned(g)
  BY <1>3 DEF FInv
<1>5. /\ m \in {Missing, Damaged, kept[g]} /\ m \in {Missing, Damaged, sum[g]}
      /\ m = kept[g] \/ x = kept[g]
      /\ g \in rows => m = kept[g]
      /\ sum[g] \in Versions /\ kept[g] \in Versions
  BY <1>1, <1>4 DEF FileOk, Unscanned, FInv, TInv, TypeOK
<1>6. Missing \notin Versions /\ Damaged \notin Versions
  BY DEF Missing, Damaged, Versions
<1>t. t = TargetSide(e.verdict) /\ g = e.file /\ m = copy["master"][g] /\ x = copy["mirror"][g]
  OBVIOUS
<1>v. /\ TargetSide(Verdict(m, x, sum[g])) = "master" => m \notin {sum[g], Missing} /\ x = sum[g]
      /\ TargetSide(Verdict(m, x, sum[g])) = "mirror" =>
            \/ m # Missing /\ x = Missing
            \/ m = sum[g] /\ x \notin {sum[g], Missing}
      /\ TargetSide(Verdict(m, x, sum[g])) \in {"none", "master", "mirror"}
  BY VerdictFacts
<1>7. t \in {"none", "master", "mirror"}
  BY DEF TargetSide
<1> HIDE DEF t, g, m, x
<1>8. t = "master" => m # kept[g] /\ x = kept[g] /\ x = sum[g] /\ g \notin rows
  BY <1>1, <1>2, <1>5, <1>6, <1>v
<1>9. t = "mirror" => m = kept[g] /\ m = sum[g] /\ x # kept[g]
  BY <1>1, <1>2, <1>5, <1>6, <1>v
<1>10. SourceGood(e)
  BY <1>1, <1>7, <1>8, <1>9, <1>t DEF SourceGood, Other
<1>11. ASSUME NEW d, SourceGood(d) PROVE Agree(d, e)
  <2> SUFFICES ASSUME d.file = g, TargetSide(d.verdict) # "none", t # "none"
               PROVE  TargetSide(d.verdict) = t
    BY <1>t DEF Agree
  <2>1. copy[Other(TargetSide(d.verdict))][g] = kept[g]
    BY <1>3, <1>11, <1>t DEF SourceGood
  <2>2. TargetSide(d.verdict) \in {"master", "mirror"}
    BY DEF TargetSide
  <2>3. TargetSide(d.verdict) = "master" => x = kept[g]
    BY <1>t, <2>1 DEF Other
  <2>4. TargetSide(d.verdict) = "mirror" => m = kept[g]
    BY <1>t, <2>1 DEF Other
  <2> QED BY <1>7, <1>8, <1>9, <2>2, <2>3, <2>4
<1> QED BY <1>10, <1>11

\* Steps that leave the files alone: what is in hand then was before, or is fresh.
LEMMA QuietFiles ==
    ASSUME FInv, TInv', UNCHANGED <<copy, sum, rows, kept>>, Tracked' \subseteq Tracked,
           \A e : InHand(e)' => InHand(e) \/ Fresh(e),
           Repairing' => \A f \in Tracked : ~Unscanned(f)
    PROVE  FInv'
<1>1. FilesSafe
  BY SameFiles
<1>2. \A d, e : Agree(d, e) => Agree(d, e)'
  BY DEF Agree
<1>3. ASSUME NEW e, InHand(e)' PROVE Repairing'
  BY <1>3 DEF InHand, Repairing
<1>4. ASSUME NEW e, InHand(e)' PROVE SourceGood(e) /\ SourceGood(e)'
  <2>1. SourceGood(e)
    BY <1>3, <1>4, FreshGood DEF FInv, SourcesGood
  <2>2. SourceGood(e)'
    BY <2>1 DEF SourceGood
  <2> QED BY <2>1, <2>2
<1>5. ASSUME NEW e, InHand(e)', NEW d, InHand(d)' PROVE Agree(d, e)
  <2>1. CASE Fresh(e)
    BY <1>3, <1>4, <1>5, <2>1, FreshGood
  <2>2. CASE Fresh(d)
    <3>1. Agree(e, d)
      BY <1>3, <1>4, <1>5, <2>2, FreshGood
    <3> QED BY <3>1 DEF Agree
  <2>3. CASE InHand(e) /\ InHand(d)
    BY <2>3 DEF FInv, SourcesGood
  <2> QED BY <1>5, <2>1, <2>2, <2>3
<1>6. SourcesGood'
  BY <1>2, <1>4, <1>5 DEF SourcesGood
<1>7. Repairing' => \A f \in Tracked' : ~Unscanned(f)'
  BY <1>1 DEF FilesSafe
<1> QED BY <1>1, <1>6, <1>7 DEF FInv, FilesSafe

\* Steps that write files while nothing new comes in hand.
LEMMA SafeFiles ==
    ASSUME FInv, TInv', FilesSafe, Repairing' => Repairing,
           \A e : InHand(e)' => InHand(e)
    PROVE  FInv'
<1>1. \A d, e : Agree(d, e) => Agree(d, e)'
  BY DEF Agree, FilesSafe
<1>2. SourcesGood'
  BY <1>1 DEF SourcesGood, FInv, FilesSafe
<1>3. Repairing' => \A f \in Tracked' : ~Unscanned(f)'
  BY DEF FilesSafe, FInv
<1> QED BY <1>2, <1>3 DEF FInv, FilesSafe

\* Steps while no repair is at work.
LEMMA FreeFiles ==
    ASSUME TInv', ~Repairing', \A f \in Tracked' : FileOk(f)'
    PROVE  FInv'
<1>1. \A e : ~InHand(e)'
  BY DEF InHand, Repairing
<1> QED BY <1>1 DEF FInv, SourcesGood

\* Steps that change neither rows, threads nor the single repair.
LEMMA SameHands ==
    ASSUME UNCHANGED <<runs, thread, single>>
    PROVE  /\ Repairing' <=> Repairing
           /\ \A e : InHand(e)' <=> InHand(e)
  BY DEF Repairing, InHand, Recovering, Running

LEMMA InitFInv == Init => FInv
<1> SUFFICES ASSUME Init PROVE FInv
  OBVIOUS
<1>1. TInv
  BY InitTInv
<1>2. 1 \in Versions
  BY ConstantsOK DEF Versions
<1>3. \A f \in Tracked : FileOk(f)
  <2> SUFFICES ASSUME NEW f \in Tracked PROVE FileOk(f)
    OBVIOUS
  <2>1. f \in Files
    BY <1>1, TrackedTyped
  <2>2. copy["master"][f] = 1 /\ copy["mirror"][f] = 1 /\ sum[f] = 1 /\ kept[f] = 1
    BY <2>1 DEF Init, Sides
  <2> QED BY <1>2, <2>2 DEF FileOk
<1>4. ~Repairing
  BY NoThreadType DEF Init, Repairing, Recovering, Running
<1>5. \A e : ~InHand(e)
  BY <1>4 DEF InHand, Repairing
<1> QED BY <1>1, <1>3, <1>4, <1>5 DEF FInv, SourcesGood

\* A run starts: its pages are still to be listed.
LEMMA StartFiles ==
    ASSUME FInv, Careful, TInv', Starts
    PROVE  FInv'
<1>1. ASSUME NEW c, Ask(c) PROVE FInv'
  <2>2. UNCHANGED <<runs, thread, single>> /\ UNCHANGED <<copy, sum, rows, kept>> /\ UNCHANGED order
    BY <1>1 DEF Ask, fileVars
  <2>1. Tracked' \subseteq Tracked
    BY <2>2 DEF Tracked
  <2> QED BY <2>1, <2>2, SameHands, QuietFiles DEF FInv
<1>2. ASSUME NEW c, NEW r \in RunIds, Insert(c, r) PROVE FInv'
  <2>1. PICK recover \in BOOLEAN, timed \in BOOLEAN,
             scope \in {Pairs} \cup {{p} : p \in Pairs} :
          /\ recover => Recoverable
          /\ runs' = [runs EXCEPT ![r] =
                        [status |-> "running", stop |-> FALSE, recover |-> recover,
                         caller |-> c, scope |-> scope]]
          /\ thread' = [thread EXCEPT ![r] =
                          [NoThread EXCEPT !.at = "list", !.timed = timed, !.todo = scope]]
    BY <1>2 DEF Insert
  <2> DEFINE row == [status |-> "running", stop |-> FALSE, recover |-> recover,
                     caller |-> c, scope |-> scope]
             t == [NoThread EXCEPT !.at = "list", !.timed = timed, !.todo = scope]
  <2>2. row.recover = recover /\ t.batch = <<>>
    BY DEF NoThread
  <2> HIDE DEF row, t
  <2>3. /\ runs'[r] = row /\ thread'[r] = t
        /\ \A q \in RunIds : q # r => runs'[q] = runs[q] /\ thread'[q] = thread[q]
    <3>1. runs \in [RunIds -> Row \cup {Absent}] /\ thread \in [RunIds -> Thread]
      BY DEF FInv, TInv, TypeOK
    <3>2. runs' = [runs EXCEPT ![r] = row] /\ thread' = [thread EXCEPT ![r] = t]
      BY <2>1 DEF row, t
    <3> QED BY <3>1, <3>2
  <2>4. UNCHANGED <<single, order, copy, sum, rows, kept>>
    BY <1>2 DEF Insert, fileVars
  <2>5. \A q \in RunIds : q # r => (Recovering(q)' <=> Recovering(q))
    BY <2>3 DEF Recovering, Running
  <2>6. \A e : InHand(e)' => InHand(e)
    <3> SUFFICES ASSUME NEW e, InHand(e)' PROVE InHand(e)
      OBVIOUS
    <3>1. CASE single' # NoSingle /\ e = single'.entry
      BY <2>4, <3>1 DEF InHand
    <3>2. CASE \E q \in RunIds : Recovering(q)' /\ \E i \in DOMAIN thread'[q].batch : e = thread'[q].batch[i]
      <4>1. PICK q \in RunIds : Recovering(q)' /\ \E i \in DOMAIN thread'[q].batch : e = thread'[q].batch[i]
        BY <3>2
      <4>2. q # r
        BY <2>2, <2>3, <4>1
      <4> QED BY <2>3, <2>5, <4>1, <4>2 DEF InHand
    <3> QED BY <3>1, <3>2 DEF InHand
  <2>7. Repairing' => \A f \in Tracked : ~Unscanned(f)
    <3>1. Recoverable => \A f \in Tracked : ~Unscanned(f)
      BY DEF Recoverable, Careful
    <3>2. Recovering(r)' => recover
      BY <2>2, <2>3 DEF Recovering
    <3> QED BY <2>1, <2>4, <2>5, <3>1, <3>2 DEF Repairing, FInv
  <2>8. Tracked' \subseteq Tracked
    BY <2>4 DEF Tracked
  <2> QED BY <2>4, <2>6, <2>7, <2>8, QuietFiles
<1> QED BY <1>1, <1>2 DEF Starts, StartRun, CheckAll

LEMMA StopFiles ==
    ASSUME FInv, TInv', NEW r \in RunIds, RequestStop(r)
    PROVE  FInv'
<1>1. UNCHANGED <<order, thread, single, copy, sum, rows, kept>>
  BY DEF RequestStop, fileVars
<1>2. \A q \in RunIds : Recovering(q)' <=> Recovering(q)
  <2> SUFFICES ASSUME NEW q \in RunIds PROVE Recovering(q)' <=> Recovering(q)
    OBVIOUS
  <2>1. CASE q # r
    <3>1. runs'[q] = runs[q]
      BY <2>1 DEF RequestStop, FInv, TInv, TypeOK
    <3> QED BY <1>1, <3>1 DEF Recovering, Running
  <2>2. CASE q = r
    <3>1. runs[r] \in Row
      BY DEF RequestStop, FInv, TInv, TypeOK
    <3>2. runs'[r].recover = runs[r].recover
      BY <3>1 DEF RequestStop, FInv, TInv, TypeOK, Row
    <3> QED BY <1>1, <2>2, <3>2 DEF Recovering, Running
  <2> QED BY <2>1, <2>2
<1>3. /\ Repairing' => Repairing
      /\ \A e : InHand(e)' => InHand(e)
  BY <1>1, <1>2 DEF Repairing, InHand
<1>4. Tracked' \subseteq Tracked
  BY <1>1 DEF Tracked
<1> QED BY <1>1, <1>3, <1>4, QuietFiles DEF FInv

\* A thread moves on.
LEMMA MoveHands ==
    ASSUME TInv, NEW r \in RunIds, Running(r), NEW t, thread' = [thread EXCEPT ![r] = t],
           UNCHANGED <<runs, single>>,
           Recovering(r) => \A i \in DOMAIN t.batch :
              Fresh(t.batch[i]) \/ \E j \in DOMAIN thread[r].batch : t.batch[i] = thread[r].batch[j]
    PROVE  /\ Repairing' => Repairing
           /\ \A e : InHand(e)' => InHand(e) \/ Fresh(e)
<1>1. thread'[r] = t /\ \A q \in RunIds : q # r => thread'[q] = thread[q]
  BY DEF TInv, TypeOK
<1>2. \A q \in RunIds : Recovering(q)' => Recovering(q)
  BY <1>1 DEF Recovering, Running
<1>3. Repairing' => Repairing
  BY <1>2 DEF Repairing
<1>4. ASSUME NEW e, InHand(e)' PROVE InHand(e) \/ Fresh(e)
  <2>1. CASE single' # NoSingle /\ e = single'.entry
    BY <2>1 DEF InHand
  <2>2. CASE \E q \in RunIds : Recovering(q)' /\ \E i \in DOMAIN thread'[q].batch : e = thread'[q].batch[i]
    <3>1. PICK q \in RunIds : Recovering(q)' /\ \E i \in DOMAIN thread'[q].batch : e = thread'[q].batch[i]
      BY <2>2
    <3>2. CASE q # r
      BY <1>1, <1>2, <3>1, <3>2 DEF InHand
    <3>3. CASE q = r
      <4>1. PICK i \in DOMAIN t.batch : e = t.batch[i]
        BY <1>1, <3>1, <3>3
      <4>2. Recovering(r)
        BY <1>2, <3>1, <3>3
      <4> QED BY <4>1, <4>2 DEF InHand
    <3> QED BY <3>2, <3>3
  <2> QED BY <1>4, <2>1, <2>2 DEF InHand
<1> QED BY <1>3, <1>4

\* A thread ends.
LEMMA EndHands ==
    ASSUME TInv, NEW r \in RunIds, NEW status, FinishAs(r, status), UNCHANGED single
    PROVE  /\ Repairing' => Repairing
           /\ \A e : InHand(e)' => InHand(e)
<1>1. /\ thread'[r] = NoThread
      /\ \A q \in RunIds : q # r => runs'[q] = runs[q] /\ thread'[q] = thread[q]
  <2>1. runs \in [RunIds -> Row \cup {Absent}] /\ thread \in [RunIds -> Thread]
    BY DEF TInv, TypeOK
  <2> QED BY <2>1 DEF FinishAs
<1>2. ~Recovering(r)' /\ \A q \in RunIds : q # r => (Recovering(q)' <=> Recovering(q))
  BY <1>1, NoThreadType DEF Recovering, Running
<1>3. Repairing' => Repairing
  BY <1>2 DEF Repairing
<1>4. \A e : InHand(e)' => InHand(e)
  BY <1>1, <1>2 DEF InHand
<1> QED BY <1>3, <1>4

\* A page is checked against what is on the disks.
LEMMA CheckFiles ==
    ASSUME FInv, TInv', NEW r \in RunIds, NEW i \in DOMAIN thread[r].batch, CheckFile(r, i)
    PROVE  FInv'
<1> DEFINE e == thread[r].batch[i]
           w == Verdict(copy["master"][e.file], copy["mirror"][e.file], e.sum)
<1>1. PICK v \in {w, "internal_error"} : thread' = [thread EXCEPT ![r].batch[i].verdict = v]
  BY DEF CheckFile
<1>2. thread[r] \in Thread /\ thread \in [RunIds -> Thread] /\ thread[r].at = "work"
  BY DEF FInv, TInv, TypeOK, CheckFile
<1> DEFINE b == [thread[r].batch EXCEPT ![i] = [@ EXCEPT !.verdict = v]]
           t == [thread[r] EXCEPT !.batch = b]
<1>3. thread' = [thread EXCEPT ![r] = t]
  BY <1>1, <1>2 DEF Thread
<1>4. t.batch = b /\ DOMAIN b = DOMAIN thread[r].batch
  BY <1>2 DEF Thread
<1>5. \A j \in DOMAIN b : j # i => b[j] = thread[r].batch[j]
  BY <1>2 DEF Thread
<1>6. thread[r].batch \in Seq(Entry) /\ e \in Entry
  <2>1. thread[r].batch \in Seq(Entry)
    BY <1>2 DEF Thread
  <2> QED BY <2>1, ElementOfSeq, LenProperties
<1>7. b[i] = [e EXCEPT !.verdict = v]
  BY <1>4
<1>8. UNCHANGED <<runs, order, single, copy, sum, rows, kept>>
  BY DEF CheckFile, fileVars
<1>9. Tracked' \subseteq Tracked
  BY <1>8 DEF Tracked
<1>10. Running(r)
  BY <1>2 DEF Running
<1>w. w \in Verdicts
  BY VerdictType
<1>11. v \in Verdicts
  <2>1. "internal_error" \in Verdicts
    BY DEF Verdicts
  <2> HIDE DEF w
  <2> QED BY <1>w, <2>1
<1>12. Recovering(r) => Fresh(b[i])
  <2> SUFFICES ASSUME Recovering(r), b[i].file \in Tracked PROVE Fresh(b[i])
    BY DEF Fresh
  <2>1. b[i].file = e.file /\ b[i].sum = e.sum /\ b[i].verdict = v
    BY <1>6, <1>7 DEF Entry
  <2>2. InHand(e)
    BY DEF InHand
  <2>3. e.sum = sum[e.file]
    BY <2>1, <2>2 DEF FInv, SourcesGood, SourceGood
  <2> QED BY <2>1, <2>3 DEF Fresh
<1> HIDE DEF b, t
<1>13. Recovering(r) => \A j \in DOMAIN t.batch :
          Fresh(t.batch[j]) \/ \E k \in DOMAIN thread[r].batch : t.batch[j] = thread[r].batch[k]
  BY <1>4, <1>5, <1>12
<1>14. (Repairing' => Repairing) /\ \A d : InHand(d)' => InHand(d) \/ Fresh(d)
  BY <1>3, <1>8, <1>10, <1>13, MoveHands DEF FInv
<1> QED BY <1>8, <1>9, <1>14, QuietFiles DEF FInv

LEMMA NoEntries == DOMAIN <<>> = {}
  OBVIOUS

\* What process_run does with the files.
LEMMA WorkFiles ==
    ASSUME FInv, TInv', NEW r \in RunIds, Work(r)
    PROVE  FInv'
<1>0. thread[r] \in Thread /\ TInv
  BY DEF FInv, TInv, TypeOK
<1>1. ASSUME NEW status, FinishAs(r, status), OthersSame PROVE FInv'
  <2>1. UNCHANGED <<order, single, copy, sum, rows, kept>>
    BY <1>1 DEF OthersSame, fileVars
  <2>2. Tracked' \subseteq Tracked
    BY <2>1 DEF Tracked
  <2>3. (Repairing' => Repairing) /\ \A e : InHand(e)' => InHand(e)
    BY <1>0, <1>1, <2>1, EndHands
  <2> QED BY <2>1, <2>2, <2>3, QuietFiles DEF FInv
<1>2. ASSUME NEW t, Running(r), thread' = [thread EXCEPT ![r] = t], UNCHANGED runs, OthersSame,
             Recovering(r) => \A i \in DOMAIN t.batch :
                Fresh(t.batch[i]) \/ \E j \in DOMAIN thread[r].batch : t.batch[i] = thread[r].batch[j]
      PROVE  FInv'
  <2>1. UNCHANGED <<order, single, copy, sum, rows, kept>>
    BY <1>2 DEF OthersSame, fileVars
  <2>2. Tracked' \subseteq Tracked
    BY <2>1 DEF Tracked
  <2>3. (Repairing' => Repairing) /\ \A e : InHand(e)' => InHand(e) \/ Fresh(e)
    BY <1>0, <1>2, <2>1, MoveHands
  <2> QED BY <2>1, <2>2, <2>3, QuietFiles DEF FInv
<1>3. CASE StopAtPage(r)
  BY <1>1, <1>3 DEF StopAtPage, OthersSame
<1>4. CASE Finish(r)
  BY <1>1, <1>4 DEF Finish, OthersSame
<1>5. CASE Decide(r)
  <2> DEFINE t == [thread[r] EXCEPT !.at = "finish",
                     !.outcome = IF runs[r].stop THEN "stopped" ELSE "completed"]
  <2>1. t.batch = thread[r].batch
    BY <1>0 DEF Thread
  <2>2. thread' = [thread EXCEPT ![r] = t] /\ Running(r) /\ UNCHANGED runs /\ OthersSame
    BY <1>0, <1>5 DEF Decide, Running, OthersSame, TInv, TypeOK
  <2> HIDE DEF t
  <2> QED BY <1>2, <2>1, <2>2
<1>6. CASE ListPage(r)
  <2> DEFINE files == PageOf(NextPair(r), thread[r].page)
             t == IF files = <<>> THEN PairDone(r) ELSE StartedPage(r)
  <2>1. thread' = [thread EXCEPT ![r] = t] /\ Running(r) /\ UNCHANGED runs /\ OthersSame
    BY <1>6 DEF ListPage, Running, OthersSame
  <2>2. CASE files = <<>>
    <3>1. t.batch = <<>>
      BY <1>0, <2>2, PairDoneType DEF TInv
    <3> HIDE DEF t
    <3>2. DOMAIN t.batch = {}
      BY <3>1, NoEntries
    <3> QED BY <1>2, <2>1, <3>2
  <2>3. CASE files # <<>>
    <3>1. t.batch = [i \in DOMAIN files |->
                       [file |-> files[i], sum |-> sum[files[i]], verdict |-> "unchecked"]]
      BY <1>0, <2>3 DEF StartedPage, Thread
    <3> HIDE DEF t, files
    <3>2. \A i \in DOMAIN t.batch : Fresh(t.batch[i])
      BY <3>1 DEF Fresh
    <3> QED BY <1>2, <2>1, <3>2
  <2> QED BY <2>2, <2>3
<1>7. CASE \E i \in DOMAIN thread[r].batch : CheckFile(r, i)
  BY <1>7, CheckFiles
<1>8. ASSUME thread[r].at = "work"
      PROVE  /\ Head(thread[r].batch) \in Entry
             /\ runs[r].recover => InHand(Head(thread[r].batch))
             /\ \A j \in DOMAIN Tail(thread[r].batch) :
                  \E i \in DOMAIN thread[r].batch : Tail(thread[r].batch)[j] = thread[r].batch[i]
  <2> DEFINE b == thread[r].batch
  <2>1. b \in Seq(Entry) /\ b # <<>>
    BY <1>0, <1>8 DEF TInv, PagesFull, Thread
  <2> HIDE DEF b
  <2>2. Len(b) \in Nat \ {0} /\ DOMAIN b = 1..Len(b) /\ Head(b) = b[1]
    BY <2>1, EmptySeq, LenProperties
  <2>3. /\ Head(b) \in Entry /\ Tail(b) \in Seq(Entry) /\ Len(Tail(b)) = Len(b) - 1
        /\ \A j \in 1..Len(Tail(b)) : Tail(b)[j] = b[j + 1]
    BY <2>1, HeadTailProperties
  <2>4. DOMAIN Tail(b) = 1..Len(Tail(b))
    BY <2>3, LenProperties
  <2>5. \A j \in DOMAIN Tail(b) : \E i \in DOMAIN b : Tail(b)[j] = b[i]
    BY <2>2, <2>3, <2>4
  <2>6. b = thread[r].batch
    BY DEF b
  <2>7. runs[r].recover => InHand(b[1])
    BY <1>8, <2>2, <2>6 DEF InHand, Recovering, Running
  <2> QED BY <2>2, <2>3, <2>5, <2>6, <2>7
<1>9. CASE SettleFile(r)
  <2> DEFINE e == Head(thread[r].batch)
  <2>1. thread[r].at = "work" /\ e.file \in Tracked /\ Recover(runs[r].recover, e)
        /\ order' = Touched(e.file) /\ thread' = [thread EXCEPT ![r] = NextFile(r)]
        /\ UNCHANGED <<runs, single, sum, kept>>
    BY <1>9 DEF SettleFile, PageChecked
  <2>2. Tracked' \subseteq Tracked
    <3>1. Tracked' = TrackedOf(order')
      BY DEF Tracked, TrackedOf
    <3> QED BY <1>0, <2>1, <3>1, TrackedTyped, ListFacts
  <2>3. e \in Entry /\ (runs[r].recover => SourceGood(e))
    BY <1>8, <2>1 DEF FInv, SourcesGood
  <2>4. FilesSafe
    <3> HIDE DEF e
    <3> QED BY <2>1, <2>2, <2>3, RecoverSafe
  <2>5. \A i \in DOMAIN NextFile(r).batch :
           \E j \in DOMAIN thread[r].batch : NextFile(r).batch[i] = thread[r].batch[j]
    <3>1. NextFile(r).batch = <<>> \/ NextFile(r).batch = Tail(thread[r].batch)
      BY <1>0, PairDoneType DEF NextFile, Thread, TInv
    <3> QED BY <1>8, <2>1, <3>1, NoEntries
  <2>6. /\ Repairing' => Repairing
        /\ \A d : InHand(d)' => InHand(d)
    <3> DEFINE t == NextFile(r)
    <3>1. thread'[r] = t /\ \A q \in RunIds : q # r => thread'[q] = thread[q]
      BY <1>0, <2>1 DEF TInv, TypeOK
    <3>2. Running(r)
      BY <2>1 DEF Running
    <3>3. \A q \in RunIds : Recovering(q)' => Recovering(q)
      BY <2>1, <3>1, <3>2 DEF Recovering, Running
    <3>4. Repairing' => Repairing
      BY <2>1, <3>3 DEF Repairing
    <3>5. \A q \in RunIds : \A i \in DOMAIN thread'[q].batch :
             \E j \in DOMAIN thread[q].batch : thread'[q].batch[i] = thread[q].batch[j]
      BY <2>5, <3>1
    <3>6. \A d : InHand(d)' => InHand(d)
      BY <2>1, <3>3, <3>5 DEF InHand
    <3> QED BY <3>4, <3>6
  <2> QED BY <2>4, <2>6, SafeFiles
<1>10. CASE FailRun(r)
  <2> DEFINE e == Head(thread[r].batch)
  <2>1. thread[r].at = "work" /\ Recover(runs[r].recover, e) /\ FinishAs(r, "failed")
        /\ UNCHANGED <<order, single, sum, kept>>
    BY <1>10 DEF FailRun, PageChecked
  <2>2. Tracked' \subseteq Tracked
    BY <2>1 DEF Tracked
  <2>3. e \in Entry /\ (runs[r].recover => SourceGood(e))
    BY <1>8, <2>1 DEF FInv, SourcesGood
  <2>4. FilesSafe
    <3> HIDE DEF e
    <3> QED BY <2>1, <2>2, <2>3, RecoverSafe
  <2>5. (Repairing' => Repairing) /\ \A d : InHand(d)' => InHand(d)
    BY <1>0, <2>1, EndHands
  <2> QED BY <2>4, <2>5, SafeFiles
<1> QED BY <1>3, <1>4, <1>5, <1>6, <1>7, <1>9, <1>10 DEF Work

\* The check of one file.
LEMMA SingleFiles ==
    ASSUME FInv, Careful, TInv', Singles
    PROVE  FInv'
<1>0. Lists /\ TInv
  BY TrackedTyped DEF FInv
<1>1. ASSUME NEW f, LookAt(f) PROVE FInv'
  <2>1. UNCHANGED <<runs, thread, single>> /\ UNCHANGED <<copy, sum, rows, kept>>
        /\ f \in Tracked /\ order' = Touched(f)
    BY <1>1 DEF LookAt, fileVars
  <2>2. Tracked' \subseteq Tracked
    <3>1. Tracked' = TrackedOf(order')
      BY DEF Tracked, TrackedOf
    <3> QED BY <1>0, <2>1, <3>1, ListFacts
  <2> QED BY <2>1, <2>2, SameHands, QuietFiles DEF FInv
<1>2. ASSUME NEW f, NEW c, RepairOne(c, f) PROVE FInv'
  <2>1. /\ UNCHANGED <<runs, thread, order, copy, sum, rows, kept>>
        /\ single' = [caller |-> c, entry |-> Found(f)]
        /\ Recoverable
    BY <1>2 DEF RepairOne, fileVars
  <2>2. Fresh(Found(f))
    BY DEF Fresh, Found
  <2>3. \A e : InHand(e)' => InHand(e) \/ Fresh(e)
    BY <2>1, <2>2 DEF InHand, Recovering, Running
  <2>4. \A g \in Tracked : ~Unscanned(g)
    BY <2>1 DEF Recoverable, Careful
  <2>5. Tracked' \subseteq Tracked
    BY <2>1 DEF Tracked
  <2> QED BY <2>1, <2>3, <2>4, <2>5, QuietFiles
<1>3. CASE SettleOne
  <2> DEFINE e == single.entry
  <2>1. /\ single # NoSingle /\ Recover(TRUE, e)
        /\ order' = order \/ (e.file \in Tracked /\ order' = Touched(e.file))
        /\ single' = NoSingle
        /\ UNCHANGED <<runs, thread, sum, kept>>
    BY <1>3 DEF SettleOne
  <2>2. e \in Entry /\ SourceGood(e)
    <3>1. e \in Entry
      BY <1>0, <2>1 DEF TInv, TypeOK, Single
    <3>2. InHand(e)
      BY <2>1 DEF InHand
    <3> QED BY <3>1, <3>2 DEF FInv, SourcesGood
  <2> HIDE DEF e
  <2>3. Tracked' \subseteq Tracked
    <3>1. Tracked' = TrackedOf(order') /\ Tracked = TrackedOf(order)
      BY DEF Tracked, TrackedOf
    <3>2. CASE order' = order
      BY <3>1, <3>2
    <3>3. CASE e.file \in Tracked /\ order' = Touched(e.file)
      BY <1>0, <3>1, <3>3, ListFacts
    <3> QED BY <2>1, <3>2, <3>3
  <2>4. FilesSafe
    BY <2>1, <2>2, <2>3, RecoverSafe
  <2>5. (Repairing' => Repairing) /\ \A d : InHand(d)' => InHand(d)
    BY <2>1 DEF Repairing, InHand, Recovering, Running
  <2> QED BY <2>4, <2>5, SafeFiles
<1> QED BY <1>1, <1>2, <1>3 DEF Singles, CheckRequest, CheckCommand

\* A process dies in the middle of a repair, or the service starts.
LEMMA ProcessFiles ==
    ASSUME FInv, TInv', Processes
    PROVE  FInv'
<1>0. TInv
  BY DEF FInv
<1>1. ASSUME NEW c \in Callers, NEW dead \in SUBSET RunIds, KillThreads(c, dead),
             UNCHANGED <<runs, order, sum, rows, kept>>
      PROVE  FInv'
  <2>1. /\ thread' = [r \in RunIds |-> IF r \in dead THEN NoThread ELSE thread[r]]
        /\ single' = single \/ single' = NoSingle
    BY <1>1 DEF KillThreads
  <2>2. \A r \in RunIds : Recovering(r)' => Recovering(r) /\ thread'[r] = thread[r]
    BY <1>1, <2>1, NoThreadType DEF Recovering, Running
  <2>3. Repairing' => Repairing
    BY <2>1, <2>2 DEF Repairing
  <2>4. \A e : InHand(e)' => InHand(e)
    BY <2>1, <2>2 DEF InHand
  <2>5. Tracked' \subseteq Tracked
    BY <1>1 DEF Tracked
  <2>6. CASE UNCHANGED copy
    BY <1>1, <2>3, <2>4, <2>5, <2>6, SameFiles, SafeFiles
  <2>7. ASSUME NEW e \in Entry, InHand(e), Restores(TRUE, e), Torn(e) PROVE FInv'
    BY <1>1, <2>3, <2>4, <2>5, <2>7, TornSafe, SafeFiles
  <2>8. CASE single.caller = c /\ Restores(TRUE, single.entry) /\ Torn(single.entry)
    <3>1. single # NoSingle
      BY <2>8 DEF NoSingle, Callers
    <3>2. single.entry \in Entry /\ InHand(single.entry)
      BY <1>0, <3>1 DEF TInv, TypeOK, Single, InHand
    <3> QED BY <2>7, <2>8, <3>2
  <2>9. CASE \E r \in dead :
               /\ thread[r].at = "work" /\ thread[r].batch # <<>>
               /\ Restores(runs[r].recover, Head(thread[r].batch))
               /\ Torn(Head(thread[r].batch))
    <3>1. PICK r \in dead :
               /\ thread[r].at = "work" /\ thread[r].batch # <<>>
               /\ Restores(runs[r].recover, Head(thread[r].batch))
               /\ Torn(Head(thread[r].batch))
      BY <2>9
    <3> DEFINE e == Head(thread[r].batch)
    <3>2. r \in RunIds /\ runs[r].recover
      BY <3>1 DEF Restores
    <3>3. e \in Entry
      BY <1>0, <3>1, <3>2, HeadType
    <3>4. InHand(e)
      <4>1. Recovering(r)
        BY <3>1, <3>2 DEF Recovering, Running
      <4>2. thread[r].batch \in Seq(Entry)
        BY <1>0, <3>2 DEF TInv, TypeOK, Thread
      <4>3. 1 \in DOMAIN thread[r].batch /\ e = thread[r].batch[1]
        BY <3>1, <4>2, EmptySeq, LenProperties
      <4> QED BY <3>2, <4>1, <4>3 DEF InHand
    <3>5. Restores(TRUE, e) /\ Torn(e)
      BY <3>1 DEF Restores
    <3> HIDE DEF e
    <3> QED BY <2>7, <3>3, <3>4, <3>5
  <2> QED BY <1>1, <2>6, <2>8, <2>9 DEF KillThreads, Tear
<1>2. CASE KillService
  BY <1>1, <1>2 DEF KillService, Callers, RunsOf
<1>3. CASE KillCli
  BY <1>1, <1>3 DEF KillCli, Callers, RunsOf
<1>4. CASE StartService
  <2>1. UNCHANGED <<order, thread, single, copy, sum, rows, kept>>
    BY <1>4 DEF StartService, fileVars
  <2>2. \A r \in RunIds : Recovering(r)' => Recovering(r)
    <3> SUFFICES ASSUME NEW r \in RunIds, Recovering(r)' PROVE Recovering(r)
      OBVIOUS
    <3>1. runs'[r] = IF Cleaned(r) THEN [runs[r] EXCEPT !.status = "failed"] ELSE runs[r]
      BY <1>4 DEF StartService
    <3>2. Running(r)
      BY <2>1 DEF Recovering, Running
    <3>3. runs[r] \in Row
      BY <1>0, <3>2 DEF TInv, RowsThere
    <3>4. runs'[r].recover = runs[r].recover
      BY <3>1, <3>3 DEF Row
    <3> QED BY <3>2, <3>4 DEF Recovering
  <2>3. (Repairing' => Repairing) /\ \A e : InHand(e)' => InHand(e)
    BY <2>1, <2>2 DEF Repairing, InHand
  <2>4. Tracked' \subseteq Tracked
    BY <2>1 DEF Tracked
  <2> QED BY <2>1, <2>3, <2>4, QuietFiles DEF FInv
<1> QED BY <1>2, <1>3, <1>4 DEF Processes

\* Users, scans, transfers and damage.
LEMMA ChangedFiles ==
    ASSUME FInv, Careful, TInv', FileChanges
    PROVE  FInv'
<1>0. TInv /\ Lists /\ Tracked \subseteq Files
  BY TrackedTyped DEF FInv
<1>t. /\ copy \in [Sides -> [Files -> Contents]] /\ kept \in [Files -> Versions]
      /\ sum \in [Files -> Hashed]
  BY <1>0 DEF TInv, TypeOK
<1>n. /\ \A v \in Versions : v \in Nat \ {0} /\ v # Missing /\ v # Damaged
      /\ \A c \in {Missing, Damaged} : c \notin Versions
  BY DEF Versions, Missing, Damaged
<1>1. ASSUME NEW f \in Files, Edit(f) PROVE FInv'
  <2>1. /\ UNCHANGED <<runs, thread, single, order, sum, rows>>
        /\ copy' = [copy EXCEPT !["master"][f] = kept[f] + 1]
        /\ kept' = [kept EXCEPT ![f] = @ + 1]
        /\ ~Repairing
    BY <1>1 DEF Edit, Undisturbed, Careful, Repairing
  <2>2. ~Repairing'
    BY <2>1, SameHands
  <2>3. Tracked' = Tracked
    BY <2>1 DEF Tracked
  <2>4. ASSUME NEW g \in Tracked PROVE FileOk(g)'
    <3>0. g \in Files /\ FileOk(g)
      BY <1>0, <2>4 DEF FInv
    <3>1. CASE g = f
      <4>1. copy'["master"][f] = kept[f] + 1 /\ copy'["mirror"][f] = copy["mirror"][f]
            /\ kept'[f] = kept[f] + 1
        BY <1>t, <2>1 DEF Sides
      <4>2. kept[f] \in Nat /\ sum[f] \in Nat
        BY <1>t, <1>n, <3>0, <3>1 DEF FileOk
      <4> QED BY <2>1, <3>0, <3>1, <4>1, <4>2 DEF FileOk
    <3>2. CASE g # f
      <4>1. copy'["master"][g] = copy["master"][g] /\ copy'["mirror"][g] = copy["mirror"][g]
            /\ kept'[g] = kept[g]
        BY <1>t, <2>1, <3>0, <3>2 DEF Sides
      <4> QED BY <2>1, <3>0, <4>1 DEF FileOk
    <3> QED BY <3>1, <3>2
  <2> QED BY <2>2, <2>3, <2>4, FreeFiles
<1>2. ASSUME NEW f \in Files, Scan(f) PROVE FInv'
  <2>1. /\ UNCHANGED <<runs, thread, single, order, copy, kept>>
        /\ sum' = [sum EXCEPT ![f] = copy["master"][f]]
        /\ rows' = rows \cup {f}
        /\ f \in Tracked /\ Unscanned(f)
    BY <1>2 DEF Scan, Careful, Unscanned
  <2>2. ~Repairing'
    BY <2>1, SameHands DEF FInv
  <2>3. Tracked' = Tracked
    BY <2>1 DEF Tracked
  <2>4. ASSUME NEW g \in Tracked PROVE FileOk(g)'
    <3>0. g \in Files /\ FileOk(g)
      BY <1>0, <2>4 DEF FInv
    <3>1. CASE g = f
      <4>1. sum'[f] = copy["master"][f] /\ f \in rows'
        BY <1>t, <2>1
      <4>2. copy["master"][f] = kept[f] /\ kept[f] \in Versions /\ kept[f] \in Nat
        BY <1>t, <1>n, <2>1, <3>0, <3>1 DEF FileOk, Unscanned
      <4> QED BY <2>1, <3>0, <3>1, <4>1, <4>2 DEF FileOk
    <3>2. CASE g # f
      <4>1. sum'[g] = sum[g] /\ (g \in rows' <=> g \in rows)
        BY <1>t, <2>1, <3>0, <3>2
      <4> QED BY <2>1, <3>0, <4>1 DEF FileOk
    <3> QED BY <3>1, <3>2
  <2> QED BY <2>2, <2>3, <2>4, FreeFiles
<1>3. ASSUME NEW f \in Files, MirrorFile(f) PROVE FInv'
  <2>1. /\ UNCHANGED <<runs, thread, single, order, sum, kept>>
        /\ copy' = [copy EXCEPT !["mirror"][f] = copy["master"][f]]
        /\ rows' = rows \ {f} /\ f \in rows
    BY <1>3 DEF MirrorFile
  <2>2. Tracked' = Tracked
    BY <2>1 DEF Tracked
  <2>3. /\ \A g \in Files : copy'["master"][g] = copy["master"][g]
        /\ \A g \in Files : g # f => copy'["mirror"][g] = copy["mirror"][g]
        /\ copy'["mirror"][f] = copy["master"][f]
    BY <1>t, <2>1 DEF Sides
  <2>4. f \in Tracked => copy["master"][f] = kept[f]
    BY <2>1 DEF FInv, FileOk
  <2>5. ASSUME NEW g \in Tracked PROVE FileOk(g)'
    <3>0. g \in Files /\ FileOk(g)
      BY <1>0, <2>5 DEF FInv
    <3>1. CASE g = f
      <4>1. sum[f] <= kept[f] /\ sum[f] \in Nat /\ kept[f] \in Nat
        BY <1>t, <1>n, <3>0, <3>1 DEF FileOk
      <4> QED BY <2>1, <2>3, <2>4, <3>0, <3>1, <4>1 DEF FileOk
    <3>2. CASE g # f
      BY <2>1, <2>3, <3>0, <3>2 DEF FileOk
    <3> QED BY <3>1, <3>2
  <2>6. \A g \in Tracked : Unscanned(g)' => Unscanned(g)
    BY <1>0, <2>1, <2>3 DEF Unscanned
  <2>7. ASSUME NEW d, InHand(d) PROVE SourceGood(d)'
    <3> SUFFICES ASSUME d.file \in Tracked PROVE SourceGood(d)'
      BY <2>2 DEF SourceGood
    <3> DEFINE s == TargetSide(d.verdict)
    <3>1. /\ d.sum = sum[d.file] /\ (s = "master" => d.file \notin rows)
          /\ (s # "none" => copy[Other(s)][d.file] = kept[d.file] /\ d.sum = kept[d.file])
      BY <2>7 DEF FInv, SourcesGood, SourceGood
    <3>2. s \in {"none", "master", "mirror"} /\ d.file \in Files
      BY <1>0 DEF TargetSide
    <3>3. s = TargetSide(d.verdict)
      OBVIOUS
    <3> HIDE DEF s
    <3>4. s # "none" => copy'[Other(s)][d.file] = kept[d.file]
      BY <2>1, <2>3, <3>1, <3>2 DEF Other
    <3> QED BY <2>1, <2>2, <3>1, <3>3, <3>4 DEF SourceGood
  <2>8. FilesSafe
    BY <2>2, <2>5, <2>6, <2>7 DEF FilesSafe
  <2> QED BY <2>1, <2>8, SameHands, SafeFiles
<1>4. ASSUME NEW f \in Files, Untrack(f) PROVE FInv'
  <2>1. /\ UNCHANGED <<runs, thread, single, copy, sum, kept>>
        /\ rows' = rows \ {f} /\ f \in Tracked /\ order' = Without(f)
    BY <1>4 DEF Untrack
  <2>2. Tracked' \subseteq Tracked \ {f}
    <3>1. Tracked' = TrackedOf(order')
      BY DEF Tracked, TrackedOf
    <3> QED BY <1>0, <2>1, <3>1, ListFacts
  <2>3. \A g \in Tracked' : FileOk(g)'
    BY <2>1, <2>2 DEF FInv, FileOk
  <2>4. \A g \in Tracked' : Unscanned(g)' => Unscanned(g)
    BY <2>1 DEF Unscanned
  <2>5. \A d : InHand(d) => SourceGood(d)'
    BY <2>1, <2>2 DEF FInv, SourcesGood, SourceGood
  <2>6. FilesSafe
    BY <2>2, <2>3, <2>4, <2>5 DEF FilesSafe
  <2> QED BY <2>1, <2>6, SameHands, SafeFiles
<1>5. ASSUME NEW f \in Files, NEW side \in Sides, Damage(side, f) PROVE FInv'
  <2>1. PICK c \in {Missing, Damaged} : copy' = [copy EXCEPT ![side][f] = c]
    BY <1>5 DEF Damage
  <2>2. /\ UNCHANGED <<runs, thread, single, order, sum, rows, kept>>
        /\ copy[Other(side)][f] = kept[f]
        /\ side = "mirror" \/ f \notin rows
        /\ ~Repairing
    BY <1>5 DEF Damage, Undisturbed, Careful, Repairing
  <2>3. ~Repairing'
    BY <2>2, SameHands
  <2>4. Tracked' = Tracked
    BY <2>2 DEF Tracked
  <2>5. ASSUME NEW g \in Tracked PROVE FileOk(g)'
    <3>0. g \in Files /\ FileOk(g)
      BY <1>0, <2>5 DEF FInv
    <3>1. CASE g = f /\ side = "master"
      <4>1. copy'["master"][f] = c /\ copy'["mirror"][f] = kept[f] /\ copy["mirror"][f] = kept[f]
        BY <1>t, <2>1, <2>2, <3>1 DEF Sides, Other
      <4> QED BY <2>2, <3>0, <3>1, <4>1 DEF FileOk
    <3>2. CASE g = f /\ side = "mirror"
      <4>1. copy'["mirror"][f] = c /\ copy'["master"][f] = kept[f] /\ copy["master"][f] = kept[f]
        BY <1>t, <2>1, <2>2, <3>2 DEF Sides, Other
      <4> QED BY <1>n, <2>2, <3>0, <3>2, <4>1 DEF FileOk
    <3>3. CASE g # f
      <4>1. copy'["master"][g] = copy["master"][g] /\ copy'["mirror"][g] = copy["mirror"][g]
        BY <1>t, <2>1, <3>0, <3>3 DEF Sides
      <4> QED BY <2>2, <3>0, <4>1 DEF FileOk
    <3> QED BY <3>1, <3>2, <3>3 DEF Sides
  <2> QED BY <2>3, <2>4, <2>5, FreeFiles
<1> QED BY <1>1, <1>2, <1>3, <1>4, <1>5 DEF FileChanges

LEMMA NextFInv ==
    ASSUME FInv, Careful, [Next]_vars
    PROVE  FInv'
<1>0. TInv'
  BY NextTInv DEF FInv
<1>1. CASE Starts
  BY <1>0, <1>1, StartFiles
<1>2. CASE \E r \in RunIds : StopRun(r) \/ Work(r)
  BY <1>0, <1>2, StopFiles, WorkFiles DEF StopRun
<1>3. CASE Singles
  BY <1>0, <1>3, SingleFiles
<1>4. CASE Processes
  BY <1>0, <1>4, ProcessFiles
<1>5. CASE FileChanges
  BY <1>0, <1>5, ChangedFiles
<1>6. CASE UNCHANGED vars
  <2>1. UNCHANGED <<runs, thread, single, order, copy, sum, rows, kept>>
    BY <1>6 DEF vars, fileVars
  <2>2. Tracked' \subseteq Tracked
    BY <2>1 DEF Tracked
  <2> QED BY <1>0, <2>1, <2>2, SameHands, QuietFiles DEF FInv
<1> QED BY <1>1, <1>2, <1>3, <1>4, <1>5, <1>6 DEF Next

\* Every repair in hand has a good source, throughout.
THEOREM RepairsHaveSources == ASSUME Careful PROVE Spec => []FInv
<1>1. FInv /\ [Next]_vars => FInv'
  BY NextFInv
<1> QED BY <1>1, InitFInv, PTL DEF Spec

(***************************************************************************)
(* attempt_recovery, of runs and of single checks at the same time, with   *)
(* processes that die in the middle of it, and mirror_file never destroy   *)
(* the last copy of what a user wrote.                                     *)
(***************************************************************************)
THEOREM VersionsKept == ASSUME Careful PROVE Spec => []NoVersionLost
<1>1. FInv => NoVersionLost
  BY DEF FInv, FileOk, NoVersionLost, Sides
<1> QED BY <1>1, RepairsHaveSources, PTL

(***************************************************************************)
(* The mirror rows that attempt_recovery_with_reconciliation completes are *)
(* those of files whose mirror is up to date.                              *)
(***************************************************************************)
THEOREM OldMirrorsQueued == ASSUME Careful PROVE Spec => []BehindIsQueued
<1>1. FInv => BehindIsQueued
  BY DEF FInv, FileOk, BehindIsQueued
<1> QED BY <1>1, RepairsHaveSources, PTL
=============================================================================
