--------------------------- MODULE SchedulerProofs ---------------------------
(***************************************************************************)
(* The threads that go on are those of the enabled rows, with the plans of *)
(* these rows, for any jobs, threads, plans, edits and kills: although a   *)
(* reload reads rows first and replaces threads later, handlers and        *)
(* commands write rows at any time, and threads that were told to stop are *)
(* at work for long.  A registered thread that does not go on has panicked *)
(* over a plan of its own that is Overlong.                                *)
(***************************************************************************)
EXTENDS Scheduler, TLAPS, FiniteSetTheorems, FunctionTheorems

Reloads == [at : {"no", "apply", "backups"}, rows : [Schedules -> Row \cup {NoRow, Deleted}]]

TInv == TypeOK /\ reload \in Reloads /\ asked <= edits + 1

\* A registered thread is that of the job it is registered for, and was not told to stop ...
Registration ==
    \A j \in Jobs : slot[j] # NoThread =>
        thread[slot[j]].at # "ended" /\ thread[slot[j]].job = j /\ ~thread[slot[j]].stop

\* ... a thread panics over its own plan only ...
PanicsOwn == \A t \in Threads : thread[t].at = "panicked" => thread[t].plan \in Overlong

\* ... and a service that is down has no threads, and nothing to do.
DownRests ==
    service = "down" =>
        /\ reload.at = "no" /\ asked = 0
        /\ \A j \in Jobs : slot[j] = NoThread

RInv == TInv /\ Registration /\ PanicsOwn /\ NoStray /\ DownRests

\* The plan of an enabled schedule stays as it is.
Planned == "plan changed" \notin Allowed

\* A schedule that a reload has seen was created, and has the plan it had then.
Seen ==
    \A s \in Schedules :
        /\ slot[s] # NoThread => config[s] # NoRow
        /\ reload.at = "apply" /\ IsRow(reload.rows[s]) => config[s] # NoRow
PlansKept ==
    Planned => \A s \in Schedules : IsRow(config[s]) =>
        /\ slot[s] # NoThread => thread[slot[s]].plan = config[s].plan
        /\ reload.at = "apply" /\ s \in On(reload.rows) => reload.rows[s].plan = config[s].plan

\* What a job has and what its row asks for.
Matches(j) ==
    IF j \in On(config)
    THEN slot[j] # NoThread /\ (Planned \/ j \in Backups => thread[slot[j]].plan = config[j].plan)
    ELSE slot[j] = NoThread

\* The rows that a reload has read are those in the table, until one of them is written ...
RowsRead ==
    "schedules" \notin behind =>
        /\ reload.at = "apply" => \A s \in Schedules : reload.rows[s] = config[s]
        /\ reload.at = "backups" => \A s \in Schedules : Matches(s)
\* ... and between reloads all threads are those that the rows ask for.
AllMatch ==
    service = "up" /\ reload.at = "no" =>
        \A j \in Jobs : Table(j) \notin behind => Matches(j)

\* A thread that has run has left the next run of its plan, or one that ran later has.
NextKept ==
    Planned => \A s \in Schedules :
        slot[s] # NoThread /\ thread[slot[s]].ran /\ IsRow(config[s]) => next[s] = config[s].plan

MInv == RInv /\ Seen /\ PlansKept /\ RowsRead /\ AllMatch /\ NextKept
-----------------------------------------------------------------------------
(* Threads for jobs *)

\* As many jobs as there are numbers free, each with a number of its own.
LEMMA AssignIn ==
    ASSUME NEW start \in SUBSET Jobs, Cardinality(start) <= Cardinality(Free)
    PROVE  /\ Assign(start) \in [start -> Free]
           /\ \A i, j \in start : Assign(start)[i] = Assign(start)[j] => i = j
<1>1. IsFiniteSet(start) /\ IsFiniteSet(Free)
  BY FS_Subset, SchedulerOK DEF Free
<1>2. /\ Cardinality(start) \in Nat /\ ExistsBijection(1..Cardinality(start), start)
      /\ Cardinality(Free) \in Nat /\ ExistsBijection(1..Cardinality(Free), Free)
  BY <1>1, FS_CardinalityType
<1>3. ExistsInjection(1..Cardinality(start), 1..Cardinality(Free))
  BY <1>2, Fun_NatInjLeq
<1>4. ExistsBijection(start, 1..Cardinality(start))
  BY <1>2, Fun_ExistsBijSymmetric
<1>5. ExistsInjection(start, 1..Cardinality(start)) /\ ExistsInjection(1..Cardinality(Free), Free)
  BY <1>2, <1>4 DEF ExistsBijection, ExistsInjection, Bijection
<1>6. ExistsInjection(start, Free)
  BY <1>3, <1>5, Fun_ExistsInjTransitive
<1>7. Assign(start) \in Injection(start, Free)
  BY <1>6 DEF ExistsInjection, Assign
<1> QED
  BY <1>7 DEF Injection, IsInjective

LEMMA ThreadType ==
    ASSUME TypeOK, NEW t \in Threads
    PROVE  /\ thread[t] \in Thread
           /\ thread[t].at # "ended" =>
                 /\ thread[t].job \in Jobs /\ thread[t].plan \in Plans
                 /\ thread[t] \in [job : Jobs, plan : Plans, stop : BOOLEAN, ran : BOOLEAN,
                                   at : {"sleep", "due", "run", "record", "panicked"}]
  BY DEF TypeOK, Thread, Ended

LEMMA FreshType ==
    ASSUME NEW j \in Jobs, NEW r \in Row
    PROVE  /\ Fresh(j, r) \in Thread
           /\ Fresh(j, r).at = "sleep" /\ ~Fresh(j, r).stop /\ ~Fresh(j, r).ran
           /\ Fresh(j, r).job = j /\ Fresh(j, r).plan = r.plan
  BY DEF Fresh, Thread, Row

Rowed(start, rows) == \A j \in start : rows[j] \in Row

\* What becomes of slots and threads when those of `stop' are told to stop and those of
\* `start' are made.
Replaced(stop, start, rows) ==
    /\ slot' \in [Jobs -> Threads \cup {NoThread}]
    /\ thread' \in [Threads -> Thread]
    /\ \A j \in start : slot'[j] \in Threads /\ thread'[slot'[j]] = Fresh(j, rows[j])
    /\ \A j \in stop \ start : slot'[j] = NoThread
    /\ \A j \in Jobs \ (stop \cup start) :
          /\ slot'[j] = slot[j]
          /\ slot[j] # NoThread => thread'[slot[j]] = thread[slot[j]]
    /\ \A t \in Threads : thread'[t].at # "ended" /\ ~thread'[t].stop =>
          \/ \E j \in start : slot'[j] = t /\ thread'[t].job = j
          \/ thread'[t] = thread[t] /\ \A j \in stop : slot[j] # t
    /\ \A t \in Threads : thread'[t].at = "panicked" =>
          thread[t].at = "panicked" /\ thread'[t].plan = thread[t].plan

LEMMA ReplaceFacts ==
    ASSUME TypeOK, Registration,
           NEW stop \in SUBSET Jobs, NEW start \in SUBSET Jobs, NEW rows,
           Rowed(start, rows), Replace(stop, start, rows)
    PROVE  Replaced(stop, start, rows)
<1> USE DEF Rowed
<1> DEFINE new == Assign(start)
           old == {slot[j] : j \in stop} \ {NoThread}
<1>1. /\ new \in [start -> Free]
      /\ \A i, j \in start : new[i] = new[j] => i = j
  BY AssignIn DEF Replace
<1>2. /\ slot' = [j \in Jobs |-> IF j \in start THEN new[j]
                                 ELSE IF j \in stop THEN NoThread ELSE slot[j]]
      /\ thread' = [t \in Threads |->
             IF \E j \in start : new[j] = t
             THEN Fresh(CHOOSE j \in start : new[j] = t, rows[CHOOSE j \in start : new[j] = t])
             ELSE IF t \in old THEN [thread[t] EXCEPT !.stop = TRUE]
             ELSE thread[t]]
  BY DEF Replace
<1> HIDE DEF new
<1>3. Free \subseteq Threads /\ \A t \in Free : thread[t].at = "ended"
  BY DEF Free
<1>4. /\ slot \in [Jobs -> Threads \cup {NoThread}]
      /\ thread \in [Threads -> Thread]
      /\ NoThread \notin Threads
  BY SchedulerOK DEF TypeOK
<1>5. \A j \in Jobs : slot[j] # NoThread => slot[j] \in Threads /\ slot[j] \notin Free
  BY <1>3, <1>4 DEF Registration
<1>6. \A i, j \in Jobs : slot[i] = slot[j] /\ slot[i] # NoThread => i = j
  BY DEF Registration
<1>7. ASSUME NEW j \in start
      PROVE  slot'[j] = new[j] /\ new[j] \in Threads /\ thread'[new[j]] = Fresh(j, rows[j])
  <2>1. new[j] \in Threads /\ j \in Jobs
    BY <1>1, <1>3
  <2>2. (CHOOSE i \in start : new[i] = new[j]) = j
    BY <1>1
  <2> QED
    BY <1>2, <2>1, <2>2
<1>8. ASSUME NEW t \in Threads, \A j \in start : new[j] # t
      PROVE  thread'[t] = IF t \in old THEN [thread[t] EXCEPT !.stop = TRUE] ELSE thread[t]
  BY <1>2, <1>8
<1>9. ASSUME NEW t \in old
      PROVE  t \in Threads /\ [thread[t] EXCEPT !.stop = TRUE] \in Thread
  <2>1. t \in Threads /\ thread[t].at # "ended"
    BY <1>3, <1>5, <1>9 DEF Registration
  <2> QED
    BY <2>1, ThreadType DEF Thread
<1>10. ASSUME NEW j \in Jobs \ (stop \cup start)
       PROVE  /\ slot'[j] = slot[j]
              /\ slot[j] # NoThread => thread'[slot[j]] = thread[slot[j]]
  <2>1. slot'[j] = slot[j]
    BY <1>2
  <2>2. ASSUME slot[j] # NoThread
        PROVE  thread'[slot[j]] = thread[slot[j]]
    <3>1. slot[j] \in Threads /\ \A i \in start : new[i] # slot[j]
      BY <1>1, <1>5, <2>2
    <3>2. slot[j] \notin old
      BY <1>6, <2>2
    <3> QED
      BY <1>8, <3>1, <3>2
  <2> QED
    BY <2>1, <2>2
<1>11. ASSUME NEW t \in Threads
       PROVE  thread'[t] \in Thread
  <2>1. CASE \E j \in start : new[j] = t
    BY <1>7, <2>1, FreshType
  <2>2. CASE \A j \in start : new[j] # t
    BY <1>4, <1>8, <1>9, <2>2
  <2> QED
    BY <2>1, <2>2
<1>12. thread' \in [Threads -> Thread]
  <2> DEFINE f == [t \in Threads |->
             IF \E j \in start : new[j] = t
             THEN Fresh(CHOOSE j \in start : new[j] = t, rows[CHOOSE j \in start : new[j] = t])
             ELSE IF t \in old THEN [thread[t] EXCEPT !.stop = TRUE]
             ELSE thread[t]]
  <2>1. thread' = f
    BY <1>2
  <2>2. f = [t \in Threads |-> f[t]]
    OBVIOUS
  <2> HIDE DEF f
  <2> QED
    BY <1>11, <2>1, <2>2
<1>13. slot' \in [Jobs -> Threads \cup {NoThread}]
  BY <1>1, <1>2, <1>3, <1>4
<1>14. ASSUME NEW t \in Threads, thread'[t].at # "ended", ~thread'[t].stop
       PROVE  \/ \E j \in start : slot'[j] = t /\ thread'[t].job = j
              \/ thread'[t] = thread[t] /\ \A j \in stop : slot[j] # t
  <2>1. CASE \E j \in start : new[j] = t
    BY <1>7, <2>1, FreshType
  <2>2. CASE \A j \in start : new[j] # t
    <3>1. CASE t \in old
      <4>1. thread'[t].stop
        BY <1>8, <1>4, <2>2, <3>1 DEF Thread, Ended
      <4> QED
        BY <1>14, <4>1
    <3>2. CASE t \notin old
      BY <1>4, <1>8, <2>2, <3>2
    <3> QED
      BY <3>1, <3>2
  <2> QED
    BY <2>1, <2>2
<1>15. \A j \in stop \ start : slot'[j] = NoThread
  BY <1>2
<1>16. ASSUME NEW t \in Threads, thread'[t].at = "panicked"
       PROVE  thread[t].at = "panicked" /\ thread'[t].plan = thread[t].plan
  <2>1. \A j \in start : new[j] # t
    BY <1>7, <1>16, FreshType
  <2>2. CASE t \in old
    BY <1>4, <1>8, <1>16, <2>1, <2>2 DEF Thread, Ended
  <2>3. CASE t \notin old
    BY <1>8, <1>16, <2>1, <2>3
  <2> QED
    BY <2>2, <2>3
<1> QED
  BY <1>7, <1>10, <1>12, <1>13, <1>14, <1>15, <1>16 DEF Replaced

\* A job that gets a thread had none, or it is told to stop: so none goes on unregistered.
LEMMA ReplaceKeeps ==
    ASSUME TypeOK, Registration, PanicsOwn, NoStray,
           NEW stop \in SUBSET Jobs, NEW start \in SUBSET Jobs, NEW rows,
           Rowed(start, rows), Replaced(stop, start, rows),
           \A j \in start : j \in stop \/ slot[j] = NoThread
    PROVE  Registration' /\ PanicsOwn' /\ NoStray'
<1>0. NoThread \notin Threads /\ slot \in [Jobs -> Threads \cup {NoThread}]
  BY SchedulerOK DEF TypeOK
<1>1. /\ slot' \in [Jobs -> Threads \cup {NoThread}]
      /\ thread' \in [Threads -> Thread]
      /\ \A j \in start : slot'[j] \in Threads /\ thread'[slot'[j]] = Fresh(j, rows[j])
      /\ \A j \in stop \ start : slot'[j] = NoThread
      /\ \A j \in Jobs \ (stop \cup start) :
            /\ slot'[j] = slot[j]
            /\ slot[j] # NoThread => thread'[slot[j]] = thread[slot[j]]
      /\ \A t \in Threads : thread'[t].at # "ended" /\ ~thread'[t].stop =>
            \/ \E j \in start : slot'[j] = t /\ thread'[t].job = j
            \/ thread'[t] = thread[t] /\ \A j \in stop : slot[j] # t
      /\ \A t \in Threads : thread'[t].at = "panicked" =>
            thread[t].at = "panicked" /\ thread'[t].plan = thread[t].plan
  BY DEF Replaced
<1>2. ASSUME NEW j \in Jobs, slot'[j] # NoThread
      PROVE  /\ thread'[slot'[j]].at # "ended" /\ thread'[slot'[j]].job = j
             /\ ~thread'[slot'[j]].stop
  <2>1. CASE j \in start
    BY <1>1, <2>1, FreshType DEF Rowed
  <2>2. CASE j \notin start
    BY <1>1, <1>2, <2>2 DEF Registration
  <2> QED
    BY <2>1, <2>2
<1>3. ASSUME NEW t \in Threads, thread'[t].at # "ended", ~thread'[t].stop
      PROVE  slot'[thread'[t].job] = t
  <2>1. CASE \E j \in start : slot'[j] = t /\ thread'[t].job = j
    BY <2>1
  <2>2. CASE thread'[t] = thread[t] /\ \A j \in stop : slot[j] # t
    <3>1. slot[thread[t].job] = t /\ thread[t].job \in Jobs
      BY <1>3, <2>2, ThreadType DEF NoStray
    <3>2. thread[t].job \notin stop \cup start
      BY <1>0, <2>2, <3>1
    <3> QED
      BY <1>1, <2>2, <3>1, <3>2
  <2> QED
    BY <1>1, <1>3, <2>1, <2>2
<1>4. PanicsOwn'
  BY <1>1 DEF PanicsOwn
<1> QED
  BY <1>2, <1>3, <1>4 DEF Registration, NoStray
-----------------------------------------------------------------------------
(* Steps *)

LEMMA RowsAre ==
    /\ \A x \in Row : IsRow(x) /\ x # NoRow /\ x # Deleted
    /\ ~IsRow(NoRow) /\ ~IsRow(Deleted) /\ NoRow # Deleted
    /\ \A x \in Row \cup {NoRow, Deleted} : IsRow(x) => x \in Row /\ x.plan \in Plans
BY SchedulerOK DEF Row, IsRow

\* A thread at work stays the thread of its job and plan, unless it was told to stop.
Worked(t) ==
    /\ thread[t].at # "ended"
    /\ thread' \in [Threads -> Thread]
    /\ \A u \in Threads \ {t} : thread'[u] = thread[u]
    /\ \/ thread[t].stop /\ thread'[t] = Ended
       \/ /\ thread'[t].at # "ended" /\ thread'[t].job = thread[t].job
          /\ thread'[t].plan = thread[t].plan /\ thread'[t].stop = thread[t].stop
    /\ thread'[t].at = "panicked" => thread'[t].plan \in Overlong
    /\ next' \in [Schedules -> Plans \cup {NoPlan}]
    /\ \A s \in Schedules : next'[s] = next[s] \/ (IsRow(config[s]) /\ next'[s] = config[s].plan)
    /\ thread'[t].ran /\ ~thread[t].ran =>
          \A s \in Schedules :
              s = thread[t].job /\ IsRow(config[s]) => next'[s] = config[s].plan
    /\ UNCHANGED <<config, slot, reload, asked, behind, service, edits, kills>>

LEMMA WorkFacts ==
    ASSUME TypeOK, NEW t \in Threads, Work(t)
    PROVE  Worked(t)
<1> DEFINE Kind == [job : Jobs, plan : Plans, stop : BOOLEAN, ran : BOOLEAN,
                    at : {"sleep", "due", "run", "record", "panicked"}]
<1>0. /\ thread \in [Threads -> Thread] /\ next \in [Schedules -> Plans \cup {NoPlan}]
      /\ Ended \in Thread /\ Ended.at = "ended" /\ Ended.ran = FALSE
  BY DEF TypeOK, Thread, Ended
<1>1. thread[t].at # "ended" /\ UNCHANGED <<config, slot, reload, asked, behind, service, edits, kills>>
  BY DEF Work, Due, Quit, Begin, Panic, Finish, Record, RecordFails, Goes
<1>2. thread[t] \in Kind
  BY <1>1, ThreadType
<1>3. \A x \in {"sleep", "due", "run", "record", "panicked"} : [thread[t] EXCEPT !.at = x] \in Kind
  BY <1>2
<1>4. Kind \subseteq Thread
  BY DEF Thread
<1>5. CASE Quit(t)
  <2>1. thread' = [thread EXCEPT ![t] = Ended] /\ thread[t].stop /\ next' = next
    BY <1>5 DEF Quit
  <2> QED
    BY <1>0, <1>1, <2>1 DEF Worked
<1>6. ASSUME NEW x \in {"sleep", "due", "run", "record", "panicked"},
             x = "panicked" => thread[t].plan \in Overlong,
             thread' = [thread EXCEPT ![t].at = x], next' = next
      PROVE  Worked(t)
  <2> DEFINE new == [thread[t] EXCEPT !.at = x]
  <2>1. thread' = [thread EXCEPT ![t] = new]
    BY <1>6
  <2>2. /\ new \in Thread /\ new.at = x /\ new.job = thread[t].job /\ new.plan = thread[t].plan
        /\ new.stop = thread[t].stop /\ new.ran = thread[t].ran
    BY <1>2, <1>3, <1>4
  <2> HIDE DEF new
  <2>3. thread'[t] = new /\ thread' \in [Threads -> Thread]
        /\ \A u \in Threads \ {t} : thread'[u] = thread[u]
    BY <1>0, <2>1, <2>2
  <2> QED
    BY <1>0, <1>1, <1>6, <2>2, <2>3 DEF Worked
<1>7. CASE Due(t) \/ Begin(t) \/ Panic(t) \/ Finish(t) \/ RecordFails(t)
  BY <1>6, <1>7 DEF Due, Begin, Panic, Finish, RecordFails, Goes
<1>8. CASE Record(t)
  <2> DEFINE new == [thread[t] EXCEPT !.at = "sleep", !.ran = TRUE]
             job == thread[t].job
  <2>1. thread' = [thread EXCEPT ![t] = new]
    BY <1>8 DEF Record
  <2>2. /\ new \in Kind /\ new.at = "sleep" /\ new.job = job /\ new.plan = thread[t].plan
        /\ new.stop = thread[t].stop
    BY <1>2
  <2>3. new \in Thread
    BY <1>4, <2>2
  <2> HIDE DEF new
  <2>4. thread'[t] = new /\ thread' \in [Threads -> Thread]
        /\ \A u \in Threads \ {t} : thread'[u] = thread[u]
    BY <1>0, <2>1, <2>3
  <2>5. next' = IF job \in Schedules /\ IsRow(config[job])
                THEN [next EXCEPT ![job] = config[job].plan] ELSE next
    BY <1>8 DEF Record
  <2>6. config \in [Jobs -> Row \cup {NoRow, Deleted}] /\ Schedules \subseteq Jobs
    BY DEF TypeOK, Jobs
  <2>7. job \in Schedules /\ IsRow(config[job]) => config[job].plan \in Plans
    BY <2>6, RowsAre
  <2> HIDE DEF job
  <2>8. /\ next' \in [Schedules -> Plans \cup {NoPlan}]
        /\ \A s \in Schedules : next'[s] = next[s] \/ (IsRow(config[s]) /\ next'[s] = config[s].plan)
        /\ \A s \in Schedules : s = job /\ IsRow(config[s]) => next'[s] = config[s].plan
    BY <1>0, <2>5, <2>7
  <2> QED
    BY <1>1, <2>2, <2>4, <2>8 DEF Worked, job
<1> QED
  BY <1>5, <1>7, <1>8 DEF Work

\* A row is written, by a request or a command.
Edited(j, x) ==
    /\ Edit(j, x)
    /\ asked' = asked \/ (service = "up" /\ asked' = asked + 1)
    /\ next' = next \/ (j \in Schedules /\ x = Deleted /\ next' = [next EXCEPT ![j] = NoPlan])
    /\ \/ j \in Backups /\ x \in Row
       \/ j \in Schedules /\ config[j] = NoRow
       \/ j \in Schedules /\ x = Deleted
       \/ /\ j \in Schedules /\ IsRow(config[j]) /\ next' = next
          /\ ~Planned \/ x.plan = config[j].plan \/ Unplanned(j)

LEMMA EditFacts ==
    ASSUME TypeOK, Administer
    PROVE  \E j \in Jobs, x \in Row \cup {Deleted} : Edited(j, x)
<1> USE DEF Requested, Commanded
<1>0. Schedules \subseteq Jobs /\ Backups \subseteq Jobs /\ config \in [Jobs -> Row \cup {NoRow, Deleted}]
  BY DEF Jobs, TypeOK
<1>1. ASSUME NEW s \in Schedules, NEW x \in Row, Create(s, x), Requested \/ Commanded
      PROVE  Edited(s, x)
  BY <1>1 DEF Create, Edited
<1>2. ASSUME NEW s \in Schedules, NEW x \in Row, Update(s, x), Requested \/ Commanded
      PROVE  Edited(s, x)
  BY <1>2 DEF Update, Edited, Planned
<1>3. ASSUME NEW s \in Schedules, Delete(s), Requested \/ Commanded
      PROVE  Edited(s, Deleted)
  BY <1>3 DEF Delete, Edited
<1>4. ASSUME NEW b \in Backups, NEW x \in Row, UpdateSettings(b, x), Requested \/ Commanded
      PROVE  Edited(b, x)
  BY <1>4 DEF UpdateSettings, Edited
<1>5. CASE \E s \in Schedules :
              \/ \E x \in Row : CreateSchedule(s, x) \/ UpdateSchedule(s, x)
              \/ DeleteSchedule(s)
  BY <1>0, <1>1, <1>2, <1>3, <1>5 DEF CreateSchedule, UpdateSchedule, DeleteSchedule
<1>6. CASE \E s \in Schedules : ScheduleCommand(s)
  <2>1. PICK s \in Schedules : ScheduleCommand(s)
    BY <1>6
  <2>2. CASE Delete(s) \/ \E x \in Row : Create(s, x)
    BY <1>0, <1>1, <1>3, <2>1, <2>2 DEF ScheduleCommand
  <2>3. ASSUME NEW e \in BOOLEAN, IsRow(config[s]), Update(s, [config[s] EXCEPT !.enabled = e])
        PROVE  \E x \in Row : Update(s, x)
    <3>1. config[s] \in Row
      BY <1>0, <2>3, RowsAre
    <3>2. [config[s] EXCEPT !.enabled = e] \in Row
      BY <3>1 DEF Row
    <3> QED
      BY <2>3, <3>2
  <2>4. ASSUME NEW q \in Plans, IsRow(config[s]), Update(s, [config[s] EXCEPT !.plan = q])
        PROVE  \E x \in Row : Update(s, x)
    <3>1. config[s] \in Row
      BY <1>0, <2>4, RowsAre
    <3>2. [config[s] EXCEPT !.plan = q] \in Row
      BY <3>1 DEF Row
    <3> QED
      BY <2>4, <3>2
  <2>5. CASE \E x \in Row : Update(s, x)
    BY <1>0, <1>2, <2>1, <2>5 DEF ScheduleCommand
  <2> QED
    BY <2>1, <2>2, <2>3, <2>4, <2>5 DEF ScheduleCommand
<1>7. CASE \E b \in Backups, x \in Row : PutSettings(b, x) \/ SettingsCommand(b, x)
  BY <1>0, <1>4, <1>7 DEF PutSettings, SettingsCommand
<1> QED
  BY <1>5, <1>6, <1>7 DEF Administer

\* A row that is written is that of one job only.
LEMMA EditedRows ==
    ASSUME TypeOK, NEW j \in Jobs, NEW x \in Row \cup {Deleted}, Edited(j, x)
    PROVE  /\ config' \in [Jobs -> Row \cup {NoRow, Deleted}]
           /\ config'[j] = x /\ x # NoRow
           /\ \A i \in Jobs \ {j} : config'[i] = config[i]
           /\ service # "down" => Table(j) \in behind' /\ behind' = behind \cup {Table(j)}
           /\ behind' \subseteq Tables
           /\ next' \in [Schedules -> Plans \cup {NoPlan}]
           /\ \A s \in Schedules \ {j} : next'[s] = next[s]
           /\ UNCHANGED <<slot, thread, reload, service, kills>>
<1>1. /\ config' = [config EXCEPT ![j] = x]
      /\ behind' = IF service = "down" THEN {} ELSE behind \cup {Table(j)}
      /\ UNCHANGED <<slot, thread, reload, service, kills>>
  BY DEF Edited, Edit
<1>2. /\ config \in [Jobs -> Row \cup {NoRow, Deleted}] /\ behind \subseteq Tables
      /\ next \in [Schedules -> Plans \cup {NoPlan}]
  BY DEF TypeOK
<1>3. Table(j) \in Tables
  BY DEF Table, Tables
<1>4. /\ next' \in [Schedules -> Plans \cup {NoPlan}]
      /\ \A s \in Schedules \ {j} : next'[s] = next[s]
  BY <1>2 DEF Edited
<1> QED
  BY <1>1, <1>2, <1>3, <1>4, RowsAre
-----------------------------------------------------------------------------
(* None goes on that is not registered *)

LEMMA RegisteredInit ==
    ASSUME Init
    PROVE  RInv
<1> USE DEF Init
<1>1. TypeOK
  BY SchedulerOK, RowsAre DEF TypeOK, Row, Thread, Tables, NoReload, Jobs
<1>2. reload \in Reloads /\ asked <= edits + 1
  BY DEF Reloads, NoReload
<1>3. Registration /\ PanicsOwn /\ NoStray /\ DownRests
  BY DEF Registration, PanicsOwn, NoStray, DownRests, Ended
<1> QED
  BY <1>1, <1>2, <1>3 DEF RInv, TInv

LEMMA RegisteredEdit ==
    ASSUME RInv, NEW j \in Jobs, NEW x \in Row \cup {Deleted}, Edited(j, x)
    PROVE  RInv'
<1>0. TypeOK /\ reload \in Reloads /\ asked <= edits + 1 /\ Registration /\ PanicsOwn /\ NoStray /\ DownRests
  BY DEF RInv, TInv
<1>1. /\ config' \in [Jobs -> Row \cup {NoRow, Deleted}]
      /\ behind' \subseteq Tables
      /\ next' \in [Schedules -> Plans \cup {NoPlan}]
      /\ UNCHANGED <<slot, thread, reload, service, kills>>
  BY <1>0, EditedRows
<1>2. /\ edits < MaxEdits /\ edits' = edits + 1
      /\ asked' = asked \/ (service = "up" /\ asked' = asked + 1)
  BY DEF Edited, Edit
<1>3. asked \in Nat /\ edits \in 0..MaxEdits /\ MaxEdits \in Nat
  BY <1>0, SchedulerOK DEF TypeOK
<1>4. edits' \in 0..MaxEdits /\ asked' \in 0..(MaxEdits + 1) /\ asked' <= edits' + 1
  BY <1>0, <1>2, <1>3
<1>5. TypeOK'
  BY <1>0, <1>1, <1>4 DEF TypeOK
<1>6. Registration' /\ PanicsOwn' /\ NoStray' /\ DownRests'
  BY <1>0, <1>1, <1>2 DEF Registration, PanicsOwn, NoStray, DownRests
<1> QED
  BY <1>0, <1>1, <1>4, <1>5, <1>6 DEF RInv, TInv

LEMMA RegisteredWork ==
    ASSUME RInv, NEW t \in Threads, Worked(t)
    PROVE  RInv'
<1> USE DEF Worked
<1>0. TypeOK /\ reload \in Reloads /\ asked <= edits + 1 /\ Registration /\ PanicsOwn /\ NoStray /\ DownRests
  BY DEF RInv, TInv
<1>1. TypeOK'
  BY <1>0 DEF TypeOK
<1>2. NoThread \notin Threads /\ slot \in [Jobs -> Threads \cup {NoThread}]
  BY <1>0, SchedulerOK DEF TypeOK
<1>3. Registration'
  <2> SUFFICES ASSUME NEW j \in Jobs, slot[j] # NoThread
               PROVE  /\ thread'[slot[j]].at # "ended" /\ thread'[slot[j]].job = j
                      /\ ~thread'[slot[j]].stop
    BY DEF Registration
  <2>1. /\ slot[j] \in Threads
        /\ thread[slot[j]].at # "ended" /\ thread[slot[j]].job = j /\ ~thread[slot[j]].stop
    BY <1>0, <1>2 DEF Registration
  <2>2. CASE slot[j] = t
    BY <2>1, <2>2
  <2>3. CASE slot[j] # t
    BY <2>1, <2>3
  <2> QED
    BY <2>2, <2>3
<1>4. NoStray'
  <2> SUFFICES ASSUME NEW u \in Threads, thread'[u].at # "ended", ~thread'[u].stop
               PROVE  slot[thread'[u].job] = u
    BY DEF NoStray
  <2>1. CASE u = t
    <3>1. thread'[t] # Ended
      BY <2>1 DEF Ended
    <3> QED
      BY <1>0, <2>1, <3>1 DEF NoStray
  <2>2. CASE u # t
    BY <1>0, <2>2 DEF NoStray
  <2> QED
    BY <2>1, <2>2
<1>5. DownRests' /\ PanicsOwn'
  BY <1>0 DEF DownRests, PanicsOwn
<1> QED
  BY <1>0, <1>1, <1>3, <1>4, <1>5 DEF RInv, TInv

\* What a reload does once it has read the rows.
Applied == Replaced(Registered \ On(reload.rows), On(reload.rows) \ Registered, reload.rows)
Again(start) == Replaced(Backups, start, config)

LEMMA ApplyFacts ==
    ASSUME RInv, Apply
    PROVE  Applied /\ RInv'
<1> DEFINE stop == Registered \ On(reload.rows)
           start == On(reload.rows) \ Registered
<1>0. /\ TypeOK /\ reload \in Reloads /\ asked <= edits + 1
      /\ Registration /\ PanicsOwn /\ NoStray /\ DownRests
  BY DEF RInv, TInv
<1>1. reload.rows \in [Schedules -> Row \cup {NoRow, Deleted}] /\ Schedules \subseteq Jobs
  BY <1>0 DEF TypeOK, Jobs
<1>2. stop \in SUBSET Jobs /\ start \in SUBSET Jobs /\ Rowed(start, reload.rows)
  BY <1>1, RowsAre DEF Registered, On, Rowed
<1>3. Replace(stop, start, reload.rows)
  BY DEF Apply
<1>4. \A j \in start : j \in stop \/ slot[j] = NoThread
  BY <1>1 DEF Registered, On
<1> HIDE DEF stop, start
<1>5. Replaced(stop, start, reload.rows)
  BY <1>0, <1>2, <1>3, ReplaceFacts
<1>6. Registration' /\ PanicsOwn' /\ NoStray'
  BY <1>0, <1>2, <1>4, <1>5, ReplaceKeeps
<1>7. /\ reload.at = "apply" /\ reload' = [reload EXCEPT !.at = "backups"]
      /\ UNCHANGED <<config, next, asked, behind, service, edits, kills>>
  BY DEF Apply
<1>8. reload' \in Reloads /\ reload'.at = "backups" /\ reload'.rows = reload.rows
  BY <1>0, <1>7 DEF Reloads
<1>9. TypeOK'
  BY <1>0, <1>5, <1>7, <1>8 DEF TypeOK, Replaced
<1>10. DownRests'
  BY <1>0, <1>7 DEF DownRests
<1> QED
  BY <1>0, <1>5, <1>6, <1>7, <1>8, <1>9, <1>10 DEF RInv, TInv, Applied, stop, start

LEMMA BackupFacts ==
    ASSUME RInv, NEW start \in SUBSET Backups, Rowed(start, config),
           Replace(Backups, start, config),
           reload.at = "backups", reload' = NoReload, service' = Started,
           behind' \subseteq Tables,
           UNCHANGED <<config, next, asked, edits, kills>>
    PROVE  Again(start) /\ RInv'
<1>0. /\ TypeOK /\ reload \in Reloads /\ asked <= edits + 1
      /\ Registration /\ PanicsOwn /\ NoStray /\ DownRests
  BY DEF RInv, TInv
<1>1. Backups \in SUBSET Jobs /\ start \in SUBSET Jobs
  BY DEF Jobs
<1>2. Replaced(Backups, start, config)
  BY <1>0, <1>1, ReplaceFacts
<1>3. Registration' /\ PanicsOwn' /\ NoStray'
  BY <1>0, <1>1, <1>2, ReplaceKeeps
<1>4. NoReload \in Reloads
  BY DEF NoReload, Reloads
<1>5. TypeOK'
  BY <1>0, <1>2, <1>4 DEF TypeOK, Replaced, Reloads, Started
<1>6. DownRests'
  BY <1>0 DEF DownRests, Started
<1> QED
  BY <1>0, <1>2, <1>3, <1>4, <1>5, <1>6 DEF RInv, TInv, Again

LEMMA BackupsFacts ==
    ASSUME RInv, ReloadBackups
    PROVE  Again(On(config) \cap Backups) /\ RInv'
<1>0. config \in [Jobs -> Row \cup {NoRow, Deleted}] /\ behind \subseteq Tables
  BY DEF RInv, TInv, TypeOK
<1>1. Rowed(On(config) \cap Backups, config)
  BY <1>0, RowsAre DEF Rowed, On, Jobs
<1> QED
  BY <1>0, <1>1, BackupFacts DEF ReloadBackups

LEMMA UnreadFacts ==
    ASSUME RInv, BackupsUnread
    PROVE  Again({}) /\ RInv'
<1>1. behind' \subseteq Tables
  BY DEF BackupsUnread, RInv, TInv, TypeOK, Tables
<1>2. Rowed({}, config)
  BY DEF Rowed
<1> QED
  BY <1>1, <1>2, BackupFacts DEF BackupsUnread

LEMMA RegisteredRest ==
    ASSUME RInv, ReloadReads \/ ReloadFails \/ Kill \/ Start \/ UNCHANGED vars
    PROVE  RInv'
<1>0. /\ TypeOK /\ reload \in Reloads /\ asked <= edits + 1
      /\ Registration /\ PanicsOwn /\ NoStray /\ DownRests
  BY DEF RInv, TInv
<1>1. asked \in Nat /\ edits \in 0..MaxEdits /\ kills \in 0..MaxKills /\ {MaxEdits, MaxKills} \subseteq Nat
  BY <1>0, SchedulerOK DEF TypeOK
<1>2. NoReload \in Reloads
  BY DEF NoReload, Reloads
<1>3. CASE ReloadReads
  <2> USE <1>3 DEF ReloadReads
  <2>1. Restrict(config, Schedules) \in [Schedules -> Row \cup {NoRow, Deleted}]
    BY <1>0 DEF TypeOK, Restrict, Jobs
  <2>2. reload' \in Reloads
    BY <2>1 DEF Reloads
  <2>3. asked' \in 0..(MaxEdits + 1) /\ asked' <= edits' + 1
    BY <1>0, <1>1 DEF TypeOK
  <2>4. TypeOK'
    BY <1>0, <2>2, <2>3 DEF TypeOK, Reloads
  <2>5. Registration' /\ PanicsOwn' /\ NoStray' /\ DownRests'
    BY <1>0, <1>1 DEF Registration, PanicsOwn, NoStray, DownRests
  <2> QED
    BY <2>2, <2>3, <2>4, <2>5 DEF RInv, TInv
<1>4. CASE ReloadFails
  <2> USE <1>4 DEF ReloadFails, Started
  <2>1. asked' \in 0..(MaxEdits + 1) /\ asked' <= edits' + 1
    BY <1>0, <1>1 DEF TypeOK
  <2>2. TypeOK'
    BY <1>0, <2>1 DEF TypeOK
  <2>3. Registration' /\ PanicsOwn' /\ NoStray' /\ DownRests'
    BY <1>0, <1>1 DEF Registration, PanicsOwn, NoStray, DownRests
  <2> QED
    BY <1>0, <2>1, <2>2, <2>3 DEF RInv, TInv
<1>5. CASE Kill
  <2> USE <1>5 DEF Kill
  <2>1. /\ slot' \in [Jobs -> Threads \cup {NoThread}] /\ thread' \in [Threads -> Thread]
        /\ behind' \subseteq Tables /\ asked' \in 0..(MaxEdits + 1) /\ asked' <= edits' + 1
        /\ kills' \in 0..MaxKills
    BY <1>1 DEF Thread
  <2>2. TypeOK'
    BY <1>0, <1>2, <2>1 DEF TypeOK, Reloads
  <2>3. Registration' /\ PanicsOwn' /\ NoStray' /\ DownRests'
    BY DEF Registration, PanicsOwn, NoStray, DownRests, NoReload, Ended
  <2> QED
    BY <1>2, <2>1, <2>2, <2>3 DEF RInv, TInv
<1>6. CASE Start
  <2> USE <1>6 DEF Start
  <2>1. asked' \in 0..(MaxEdits + 1) /\ asked' <= edits' + 1
    BY <1>1
  <2>2. TypeOK'
    BY <1>0, <2>1 DEF TypeOK
  <2>3. Registration' /\ PanicsOwn' /\ NoStray' /\ DownRests'
    BY <1>0 DEF Registration, PanicsOwn, NoStray, DownRests
  <2> QED
    BY <1>0, <2>1, <2>2, <2>3 DEF RInv, TInv
<1>7. CASE UNCHANGED vars
  BY <1>0, <1>7 DEF vars, RInv, TInv, TypeOK, Registration, PanicsOwn, NoStray, DownRests
<1> QED
  BY <1>3, <1>4, <1>5, <1>6, <1>7

LEMMA RegisteredStep ==
    ASSUME RInv, [Next]_vars
    PROVE  RInv'
<1>1. CASE Administer
  BY <1>1, EditFacts, RegisteredEdit DEF RInv, TInv
<1>2. CASE \E t \in Threads : Work(t)
  BY <1>2, WorkFacts, RegisteredWork DEF RInv, TInv
<1>3. CASE Apply
  BY <1>3, ApplyFacts
<1>4. CASE ReloadBackups
  BY <1>4, BackupsFacts
<1>5. CASE BackupsUnread
  BY <1>5, UnreadFacts
<1>6. CASE ReloadReads \/ ReloadFails \/ Kill \/ Start \/ UNCHANGED vars
  BY <1>6, RegisteredRest
<1> QED
  BY <1>1, <1>2, <1>3, <1>4, <1>5, <1>6 DEF Next, Reloading
-----------------------------------------------------------------------------
(* They are those the rows ask for *)

LEMMA MatchInit ==
    ASSUME Init
    PROVE  MInv
<1>1. RInv
  BY RegisteredInit
<1>2. Seen /\ PlansKept /\ RowsRead /\ NextKept
  BY DEF Init, Seen, PlansKept, RowsRead, NextKept, NoReload, Jobs
<1>3. AllMatch
  BY DEF Init, AllMatch, Matches, On, IsRow, Jobs
<1> QED
  BY <1>1, <1>2, <1>3 DEF MInv

LEMMA MatchEdit ==
    ASSUME MInv, NEW j \in Jobs, NEW x \in Row \cup {Deleted}, Edited(j, x)
    PROVE  MInv'
<1>0. /\ RInv /\ Seen /\ PlansKept /\ RowsRead /\ AllMatch /\ NextKept
      /\ TypeOK /\ DownRests
  BY DEF MInv, RInv, TInv
<1>1. RInv'
  BY <1>0, RegisteredEdit
<1>2. /\ config' \in [Jobs -> Row \cup {NoRow, Deleted}]
      /\ config'[j] = x /\ x # NoRow
      /\ \A i \in Jobs \ {j} : config'[i] = config[i]
      /\ service # "down" => Table(j) \in behind' /\ behind' = behind \cup {Table(j)}
      /\ next' \in [Schedules -> Plans \cup {NoPlan}]
      /\ \A s \in Schedules \ {j} : next'[s] = next[s]
      /\ UNCHANGED <<slot, thread, reload, service, kills>>
  BY <1>0, EditedRows
<1>3. \/ j \in Backups
      \/ j \in Schedules /\ config[j] = NoRow
      \/ j \in Schedules /\ x = Deleted
      \/ /\ j \in Schedules /\ IsRow(config[j]) /\ next' = next
         /\ ~Planned \/ x.plan = config[j].plan \/ Unplanned(j)
  BY DEF Edited
<1>4. Schedules \subseteq Jobs /\ Schedules \cap Backups = {}
  BY SchedulerOK DEF Jobs
<1>5. config \in [Jobs -> Row \cup {NoRow, Deleted}]
      /\ reload.rows \in [Schedules -> Row \cup {NoRow, Deleted}]
  BY <1>0 DEF TypeOK
<1>6. Seen'
  BY <1>0, <1>2, <1>4 DEF Seen
\* The rows of a schedule that was just created have not been read.
<1>7. ASSUME NEW s \in Schedules, s = j, config[j] = NoRow
      PROVE  slot[s] = NoThread /\ (reload.at = "apply" => s \notin On(reload.rows))
  BY <1>0, <1>7 DEF Seen, On
<1>8. PlansKept'
  <2> SUFFICES ASSUME Planned, NEW s \in Schedules, IsRow(config'[s])
               PROVE  /\ slot[s] # NoThread => thread[slot[s]].plan = config'[s].plan
                      /\ reload.at = "apply" /\ s \in On(reload.rows)
                            => reload.rows[s].plan = config'[s].plan
    BY <1>2 DEF PlansKept, Planned
  <2>1. CASE s # j
    BY <1>0, <1>2, <1>4, <2>1 DEF PlansKept
  <2>2. CASE s = j /\ config[j] = NoRow
    BY <1>7, <2>2
  <2>3. CASE s = j /\ x = Deleted
    BY <1>2, <2>3, RowsAre
  <2>4. CASE s = j /\ IsRow(config[j]) /\ x.plan = config[j].plan
    BY <1>0, <1>2, <2>4 DEF PlansKept
  <2>5. CASE s = j /\ Unplanned(j)
    BY <2>5 DEF Unplanned
  <2> QED
    BY <1>3, <1>4, <2>1, <2>2, <2>3, <2>4, <2>5
<1>9. NextKept'
  <2> SUFFICES ASSUME Planned, NEW s \in Schedules, IsRow(config'[s]),
                      slot[s] # NoThread, thread[slot[s]].ran
               PROVE  next'[s] = config'[s].plan
    BY <1>2 DEF NextKept, Planned
  <2>1. CASE s # j
    BY <1>0, <1>2, <1>4, <2>1 DEF NextKept
  <2>2. CASE s = j /\ config[j] = NoRow
    BY <1>7, <2>2
  <2>3. CASE s = j /\ x = Deleted
    BY <1>2, <2>3, RowsAre
  <2>4. CASE s = j /\ IsRow(config[j]) /\ x.plan = config[j].plan /\ next' = next
    BY <1>0, <1>2, <2>4 DEF NextKept
  <2>5. CASE s = j /\ Unplanned(j)
    BY <2>5 DEF Unplanned
  <2> QED
    BY <1>3, <1>4, <2>1, <2>2, <2>3, <2>4, <2>5
\* What a row that is not written asks for is what it asked for.
<1>10. ASSUME NEW i \in Jobs, i # j, Matches(i)
       PROVE  Matches(i)'
  <2>1. config'[i] = config[i] /\ (i \in On(config') <=> i \in On(config))
    BY <1>2, <1>5, <1>10 DEF On
  <2> QED
    BY <1>2, <1>10, <2>1 DEF Matches, Planned
<1>11. RowsRead'
  <2>1. CASE service = "down"
    BY <1>0, <1>2, <2>1 DEF DownRests, RowsRead
  <2>2. CASE service # "down" /\ j \in Schedules
    BY <1>2, <2>2 DEF RowsRead, Table
  <2>3. CASE service # "down" /\ j \notin Schedules
    <3>1. \A s \in Schedules : s # j /\ s \in Jobs /\ config'[s] = config[s]
      BY <1>2, <1>4, <2>3
    <3>2. \A s \in Schedules : Matches(s) => Matches(s)'
      BY <1>10, <3>1
    <3> QED
      BY <1>0, <1>2, <2>3, <3>1, <3>2 DEF RowsRead
  <2> QED
    BY <2>1, <2>2, <2>3
<1>12. AllMatch'
  <2> SUFFICES ASSUME service = "up", reload.at = "no", NEW i \in Jobs, Table(i) \notin behind'
               PROVE  Matches(i)'
    BY <1>2 DEF AllMatch, Table
  <2>1. i # j /\ Table(i) \notin behind
    BY <1>2
  <2> QED
    BY <1>0, <1>10, <2>1 DEF AllMatch
<1> QED
  BY <1>1, <1>6, <1>8, <1>9, <1>11, <1>12 DEF MInv

LEMMA MatchWork ==
    ASSUME MInv, NEW t \in Threads, Worked(t)
    PROVE  MInv'
<1> USE DEF Worked
<1>0. /\ RInv /\ Seen /\ PlansKept /\ RowsRead /\ AllMatch /\ NextKept
      /\ TypeOK /\ Registration
  BY DEF MInv, RInv, TInv
<1>1. RInv'
  BY <1>0, RegisteredWork
<1>2. NoThread \notin Threads /\ slot \in [Jobs -> Threads \cup {NoThread}] /\ Schedules \subseteq Jobs
  BY <1>0, SchedulerOK DEF TypeOK, Jobs
<1>3. ASSUME NEW j \in Jobs, slot[j] # NoThread
      PROVE  thread'[slot[j]].plan = thread[slot[j]].plan
  BY <1>0, <1>2, <1>3 DEF Registration
<1>4. Seen' /\ PlansKept'
  BY <1>0, <1>2, <1>3 DEF Seen, PlansKept, Planned
<1>5. \A j \in Jobs : Matches(j) => Matches(j)'
  BY <1>3 DEF Matches, Planned
<1>6. RowsRead' /\ AllMatch'
  BY <1>0, <1>2, <1>5 DEF RowsRead, AllMatch, Table
<1>7. NextKept'
  <2> SUFFICES ASSUME Planned, NEW s \in Schedules, IsRow(config[s]),
                      slot[s] # NoThread, thread'[slot[s]].ran
               PROVE  next'[s] = config[s].plan
    BY DEF NextKept, Planned
  <2>1. CASE thread[slot[s]].ran
    BY <1>0, <2>1 DEF NextKept
  <2>2. CASE ~thread[slot[s]].ran
    <3>1. slot[s] \in Threads /\ thread[slot[s]].job = s
      BY <1>0, <1>2 DEF Registration
    <3>2. slot[s] = t
      BY <2>2, <3>1
    <3> QED
      BY <2>2, <3>1, <3>2
  <2> QED
    BY <2>1, <2>2
<1> QED
  BY <1>1, <1>4, <1>6, <1>7 DEF MInv

LEMMA MatchApply ==
    ASSUME MInv, Apply
    PROVE  MInv'
<1> DEFINE stop == Registered \ On(reload.rows)
           start == On(reload.rows) \ Registered
<1>0. /\ RInv /\ Seen /\ PlansKept /\ RowsRead /\ AllMatch /\ NextKept /\ TypeOK /\ Registration
  BY DEF MInv, RInv, TInv
<1>1. Applied /\ RInv'
  BY <1>0, ApplyFacts
<1>2. /\ reload.at = "apply" /\ reload' = [reload EXCEPT !.at = "backups"]
      /\ UNCHANGED <<config, next, asked, behind, service, edits, kills>>
  BY DEF Apply
<1>3. reload'.at = "backups"
  BY <1>0, <1>2 DEF RInv, TInv, Reloads
<1>4. /\ config \in [Jobs -> Row \cup {NoRow, Deleted}]
      /\ reload.rows \in [Schedules -> Row \cup {NoRow, Deleted}]
      /\ Schedules \subseteq Jobs /\ Schedules \cap Backups = {} /\ NoThread \notin Threads
  BY <1>0, SchedulerOK DEF TypeOK, Jobs
<1>5. ASSUME NEW s \in Schedules, s \in start
      PROVE  slot'[s] # NoThread /\ thread'[slot'[s]] = Fresh(s, reload.rows[s])
  BY <1>1, <1>4, <1>5 DEF Applied, Replaced
<1>6. ASSUME NEW s \in Schedules, s \in stop
      PROVE  slot'[s] = NoThread
  BY <1>1, <1>6 DEF Applied, Replaced
<1>7. ASSUME NEW s \in Schedules, s \notin stop, s \notin start
      PROVE  slot'[s] = slot[s] /\ (slot[s] # NoThread => thread'[slot[s]] = thread[slot[s]])
  BY <1>1, <1>4, <1>7 DEF Applied, Replaced
<1>8. ASSUME NEW s \in Schedules
      PROVE  /\ s \in start <=> s \in On(reload.rows) /\ slot[s] = NoThread
             /\ s \in stop <=> s \notin On(reload.rows) /\ slot[s] # NoThread
             /\ s \in On(reload.rows) <=> IsRow(reload.rows[s]) /\ reload.rows[s].enabled
  BY <1>4 DEF Registered, On
<1> HIDE DEF stop, start
<1>9. ASSUME NEW s \in Schedules
      PROVE  /\ slot'[s] # NoThread <=> s \in On(reload.rows)
             /\ slot'[s] # NoThread /\ thread'[slot'[s]].ran
                   => slot'[s] = slot[s] /\ thread'[slot[s]] = thread[slot[s]]
             /\ slot'[s] # NoThread
                   => \/ slot[s] # NoThread /\ thread'[slot'[s]].plan = thread[slot[s]].plan
                      \/ thread'[slot'[s]].plan = reload.rows[s].plan
  <2>1. CASE s \in start
    <3>1. ~Fresh(s, reload.rows[s]).ran /\ Fresh(s, reload.rows[s]).plan = reload.rows[s].plan
      BY DEF Fresh
    <3> QED
      BY <1>5, <1>8, <2>1, <3>1
  <2>2. CASE s \in stop
    BY <1>6, <1>8, <2>2
  <2>3. CASE s \notin start /\ s \notin stop
    BY <1>7, <1>8, <2>3
  <2> QED
    BY <2>1, <2>2, <2>3
<1>10. Seen'
  BY <1>0, <1>2, <1>3, <1>8, <1>9 DEF Seen
<1>11. PlansKept'
  BY <1>0, <1>2, <1>3, <1>9 DEF PlansKept, Planned
<1>12. NextKept'
  BY <1>0, <1>2, <1>9 DEF NextKept, Planned
<1>13. RowsRead'
  <2> SUFFICES ASSUME "schedules" \notin behind, NEW s \in Schedules
               PROVE  Matches(s)'
    BY <1>2, <1>3 DEF RowsRead
  <2>1. reload.rows[s] = config[s]
    BY <1>0, <1>2 DEF RowsRead
  <2>2. s \in On(reload.rows) <=> s \in On(config)
    BY <1>4, <2>1 DEF On
  <2>3. s \in On(config) => IsRow(config[s])
    BY DEF On
  <2> QED
    BY <1>2, <1>4, <1>9, <1>11, <2>1, <2>2, <2>3 DEF Matches, PlansKept, Planned
<1>14. AllMatch'
  BY <1>3 DEF AllMatch
<1> QED
  BY <1>1, <1>10, <1>11, <1>12, <1>13, <1>14 DEF MInv

\* The threads of schedules are left alone by what replaces those of backups.
LEMMA BackupsLeave ==
    ASSUME TypeOK, NEW start \in SUBSET Backups, Again(start), NEW s \in Schedules
    PROVE  slot'[s] = slot[s] /\ (slot[s] # NoThread => thread'[slot[s]] = thread[slot[s]])
<1>1. s \in Jobs \ (Backups \cup start)
  BY SchedulerOK DEF Jobs
<1> QED
  BY <1>1 DEF Again, Replaced

LEMMA MatchAgain ==
    ASSUME MInv, NEW start \in SUBSET Backups, Again(start), RInv',
           reload.at = "backups", reload' = NoReload,
           UNCHANGED <<config, next>>,
           behind' = behind \cup {"settings"} \/ (behind' = behind \ {"settings"}
                                                   /\ start = On(config) \cap Backups)
    PROVE  MInv'
<1>0. /\ RInv /\ Seen /\ PlansKept /\ RowsRead /\ NextKept /\ TypeOK
  BY DEF MInv, RInv, TInv
<1>1. \A s \in Schedules :
         slot'[s] = slot[s] /\ (slot[s] # NoThread => thread'[slot[s]] = thread[slot[s]])
  BY <1>0, BackupsLeave
<1>2. reload'.at = "no"
  BY DEF NoReload
<1>3. Seen' /\ PlansKept' /\ NextKept' /\ RowsRead'
  <2>1. Seen'
    BY <1>0, <1>1, <1>2 DEF Seen
  <2>2. PlansKept'
    <3> SUFFICES ASSUME Planned, NEW s \in Schedules, IsRow(config[s]), slot[s] # NoThread
                 PROVE  thread'[slot'[s]].plan = config[s].plan
      BY <1>1, <1>2 DEF PlansKept, Planned
    <3> QED
      BY <1>0, <1>1 DEF PlansKept
  <2>3. NextKept'
    BY <1>0, <1>1, <1>2 DEF NextKept, Planned
  <2>4. RowsRead'
    BY <1>2 DEF RowsRead
  <2> QED
    BY <2>1, <2>2, <2>3, <2>4
<1>4. \A s \in Schedules : Matches(s) => Matches(s)'
  BY <1>1, SchedulerOK DEF Matches, Planned
<1>5. ASSUME NEW b \in Backups, start = On(config) \cap Backups
      PROVE  Matches(b)'
  <2>1. CASE b \in start
    <3>1. slot'[b] # NoThread /\ thread'[slot'[b]] = Fresh(b, config[b])
      BY <2>1, SchedulerOK DEF Again, Replaced
    <3>2. Fresh(b, config[b]).plan = config[b].plan /\ b \in On(config)
      BY <1>5, <2>1 DEF Fresh
    <3> QED
      BY <3>1, <3>2 DEF Matches
  <2>2. CASE b \notin start
    <3>1. slot'[b] = NoThread
      BY <2>2 DEF Again, Replaced
    <3>2. b \notin On(config)
      BY <1>5, <2>2
    <3> QED
      BY <3>1, <3>2 DEF Matches
  <2> QED
    BY <2>1, <2>2
<1>6. AllMatch'
  <2> SUFFICES ASSUME NEW j \in Jobs, Table(j) \notin behind'
               PROVE  Matches(j)'
    BY DEF AllMatch, Table
  <2>1. CASE j \in Schedules
    <3>1. "schedules" \notin behind
      BY <2>1 DEF Table
    <3> QED
      BY <1>0, <1>4, <2>1, <3>1 DEF RowsRead
  <2>2. CASE j \in Backups
    <3>1. start = On(config) \cap Backups
      BY <2>2, SchedulerOK DEF Table
    <3> QED
      BY <1>5, <2>2, <3>1
  <2> QED
    BY <2>1, <2>2 DEF Jobs
<1> QED
  BY <1>3, <1>6 DEF MInv

LEMMA MatchRest ==
    ASSUME MInv, ReloadReads \/ ReloadFails \/ Kill \/ Start \/ UNCHANGED vars
    PROVE  MInv'
<1>0. /\ RInv /\ Seen /\ PlansKept /\ RowsRead /\ AllMatch /\ NextKept /\ TypeOK
  BY DEF MInv, RInv, TInv
<1>1. RInv'
  BY <1>0, RegisteredRest
<1>2. Schedules \subseteq Jobs /\ config \in [Jobs -> Row \cup {NoRow, Deleted}]
  BY <1>0 DEF TypeOK, Jobs
<1>3. CASE ReloadReads
  <2> USE <1>3 DEF ReloadReads
  <2>1. reload'.at = "apply" /\ \A s \in Schedules : reload'.rows[s] = config[s]
    BY DEF Restrict
  <2>2. Seen'
    BY <1>0, <2>1, RowsAre DEF Seen
  <2>3. PlansKept'
    BY <1>0, <2>1 DEF PlansKept, Planned
  <2>4. RowsRead' /\ AllMatch' /\ NextKept'
    BY <1>0, <2>1 DEF RowsRead, AllMatch, NextKept, Planned
  <2> QED
    BY <1>1, <2>2, <2>3, <2>4 DEF MInv
<1>4. CASE ReloadFails
  <2> USE <1>4 DEF ReloadFails
  <2>1. Seen' /\ PlansKept' /\ NextKept'
    BY <1>0 DEF Seen, PlansKept, NextKept, Planned
  <2>2. \A j \in Jobs : Matches(j)' = Matches(j)
    BY DEF Matches, Planned
  <2>3. RowsRead'
    BY <1>0 DEF RowsRead
  <2>4. CASE service = "starting"
    <3>1. AllMatch'
      BY <2>4 DEF AllMatch, Table, Tables
    <3> QED
      BY <1>1, <2>1, <2>3, <3>1 DEF MInv
  <2>5. CASE service # "starting"
    <3>1. AllMatch'
      BY <1>0, <2>2, <2>5 DEF AllMatch, Table, Started
    <3> QED
      BY <1>1, <2>1, <2>3, <3>1 DEF MInv
  <2> QED
    BY <2>4, <2>5
<1>5. CASE Kill
  BY <1>1, <1>2, <1>5 DEF Kill, MInv, Seen, PlansKept, RowsRead, AllMatch, NextKept, NoReload
<1>6. CASE Start
  <2> USE <1>6 DEF Start
  <2>1. Seen' /\ PlansKept' /\ NextKept' /\ AllMatch'
    BY <1>0 DEF Seen, PlansKept, NextKept, AllMatch, Planned
  <2>2. reload.at = "no"
    BY <1>0 DEF RInv, DownRests
  <2> QED
    BY <1>1, <2>1, <2>2 DEF MInv, RowsRead
<1>7. CASE UNCHANGED vars
  <2> USE <1>7 DEF vars
  <2>1. Seen' /\ PlansKept' /\ NextKept'
    BY <1>0 DEF Seen, PlansKept, NextKept, Planned
  <2>2. RowsRead' /\ AllMatch'
    BY <1>0 DEF RowsRead, AllMatch, Table, Matches, Planned
  <2> QED
    BY <1>1, <2>1, <2>2 DEF MInv
<1> QED
  BY <1>3, <1>4, <1>5, <1>6, <1>7

LEMMA MatchStep ==
    ASSUME MInv, [Next]_vars
    PROVE  MInv'
<1>0. RInv /\ TypeOK
  BY DEF MInv, RInv, TInv
<1>1. CASE Administer
  BY <1>0, <1>1, EditFacts, MatchEdit
<1>2. CASE \E t \in Threads : Work(t)
  BY <1>0, <1>2, WorkFacts, MatchWork
<1>3. CASE Apply
  BY <1>3, MatchApply
<1>4. CASE ReloadBackups
  <2>1. Again(On(config) \cap Backups) /\ RInv'
    BY <1>0, <1>4, BackupsFacts
  <2> DEFINE start == On(config) \cap Backups
  <2>2. start \in SUBSET Backups
    OBVIOUS
  <2>3. /\ reload.at = "backups" /\ reload' = NoReload
        /\ behind' = behind \ {"settings"} /\ UNCHANGED <<config, next>>
    BY <1>4 DEF ReloadBackups
  <2>4. Again(start) /\ start = On(config) \cap Backups
    BY <2>1
  <2> HIDE DEF start
  <2> QED
    BY <2>1, <2>2, <2>3, <2>4, MatchAgain
<1>5. CASE BackupsUnread
  <2>1. Again({}) /\ RInv'
    BY <1>0, <1>5, UnreadFacts
  <2>2. /\ reload.at = "backups" /\ reload' = NoReload
        /\ behind' = behind \cup {"settings"} /\ UNCHANGED <<config, next>>
    BY <1>5 DEF BackupsUnread
  <2> QED
    BY <2>1, <2>2, MatchAgain
<1>6. CASE ReloadReads \/ ReloadFails \/ Kill \/ Start \/ UNCHANGED vars
  BY <1>6, MatchRest
<1> QED
  BY <1>1, <1>2, <1>3, <1>4, <1>5, <1>6 DEF Next, Reloading
-----------------------------------------------------------------------------
(* Theorems *)

\* The thread of a job goes on, or it panicked over the plan it was given.
Served(j) ==
    \E t \in Threads :
        /\ thread[t].job = j /\ ~thread[t].stop
        /\ GoesOn(t) \/ (thread[t].at = "panicked" /\ thread[t].plan \in Overlong)

\* So the jobs whose threads go on are those that the rows ask for, with plans that are
\* not Overlong, and their plans too.
LEMMA MatchFacts ==
    ASSUME MInv
    PROVE  /\ Planned => ThreadsMatch /\ NextRunIsPlanned
           /\ service = "up" /\ reload.at = "no" =>
                 \A j \in Jobs : Table(j) \notin behind =>
                     IF j \in On(config) THEN Served(j)
                     ELSE \A t \in Threads : thread[t].job = j => ~GoesOn(t)
<1>0. /\ RInv /\ PlansKept /\ AllMatch /\ NextKept
      /\ TypeOK /\ Registration /\ PanicsOwn /\ NoStray
  BY DEF MInv, RInv, TInv
<1>1. slot \in [Jobs -> Threads \cup {NoThread}] /\ NoThread \notin Threads /\ Schedules \subseteq Jobs
  BY <1>0, SchedulerOK DEF TypeOK, Jobs
<1>2. Planned => ThreadsMatch
  <2> SUFFICES ASSUME Planned, service = "up", reload.at = "no",
                      NEW j \in Jobs, Table(j) \notin behind
               PROVE  IF j \in On(config)
                      THEN /\ slot[j] # NoThread
                           /\ thread[slot[j]].job = j /\ thread[slot[j]].plan = config[j].plan
                           /\ \/ GoesOn(slot[j])
                              \/ thread[slot[j]].at = "panicked" /\ config[j].plan \in Overlong
                      ELSE slot[j] = NoThread
    BY DEF ThreadsMatch
  <2>1. Matches(j)
    BY <1>0 DEF AllMatch
  <2>2. ASSUME j \in On(config)
        PROVE  /\ slot[j] # NoThread /\ slot[j] \in Threads
               /\ thread[slot[j]].plan = config[j].plan
    BY <1>1, <2>1, <2>2 DEF Matches
  <2> QED
    BY <1>0, <2>1, <2>2 DEF Matches, Registration, PanicsOwn, GoesOn
<1>3. ASSUME Planned, NEW s \in Schedules, service = "up", reload.at = "no",
             "schedules" \notin behind, slot[s] # NoThread, thread[slot[s]].ran
      PROVE  next[s] = thread[slot[s]].plan
  <2>1. Matches(s)
    BY <1>0, <1>1, <1>3 DEF AllMatch, Table
  <2>2. IsRow(config[s])
    BY <1>3, <2>1 DEF Matches, On
  <2> QED
    BY <1>0, <1>3, <2>2 DEF PlansKept, NextKept
<1>4. ASSUME service = "up", reload.at = "no", NEW j \in Jobs, Table(j) \notin behind
      PROVE  IF j \in On(config) THEN Served(j)
             ELSE \A t \in Threads : thread[t].job = j => ~GoesOn(t)
  <2>1. j \in On(config) <=> slot[j] # NoThread
    BY <1>0, <1>4 DEF AllMatch, Matches
  <2>2. ASSUME slot[j] # NoThread
        PROVE  Served(j)
    BY <1>0, <1>1, <2>2 DEF Registration, PanicsOwn, Served, GoesOn
  <2>3. ASSUME NEW t \in Threads, thread[t].job = j, GoesOn(t)
        PROVE  slot[j] # NoThread
    BY <1>0, <1>1, <2>3 DEF NoStray, GoesOn
  <2> QED
    BY <2>1, <2>2, <2>3
<1> QED
  BY <1>2, <1>3, <1>4 DEF NextRunIsPlanned

\* src/src/core/scheduler.rs:127-162 and 231-263: a job never has two threads, or one that
\* no reload can stop, and once the rows were read a thread goes on for the enabled jobs
\* only, and for each of them unless the thread has panicked over a plan that is Overlong
\* (212-213), however plans are changed.
JobsMatch ==
    /\ NoStray
    /\ service = "up" /\ reload.at = "no" =>
          \A j \in Jobs : Table(j) \notin behind =>
              IF j \in On(config) THEN Served(j)
              ELSE \A t \in Threads : thread[t].job = j => ~GoesOn(t)
THEOREM JobsFollowRowsAlways == Spec => []JobsMatch
<1>1. Init => MInv
  BY MatchInit
<1>2. MInv /\ [Next]_vars => MInv'
  BY MatchStep
<1>3. MInv => JobsMatch
  BY MatchFacts DEF MInv, RInv, JobsMatch
<1> QED
  BY <1>1, <1>2, <1>3, PTL DEF Spec

\* src/src/core/scheduler.rs:128-132: the threads are those of the enabled rows, with their
\* plans, and go on unless that plan is Overlong; all variables have their types.
THEOREM ThreadsAreThoseOfRows ==
    ASSUME "plan changed" \notin Allowed
    PROVE  Spec => []ThreadsFollowRows
<1>1. Init => MInv
  BY MatchInit
<1>2. MInv /\ [Next]_vars => MInv'
  BY MatchStep
<1>3. Planned
  BY DEF Planned
<1>4. MInv => ThreadsFollowRows
  BY <1>3, MatchFacts DEF MInv, RInv, TInv, ThreadsFollowRows
<1> QED
  BY <1>1, <1>2, <1>4, PTL DEF Spec

\* src/src/db/repository.rs:2503: the next run that users see follows from the plan of the
\* thread that goes on, once it has run, though threads of earlier reloads record too.
THEOREM NextRunsArePlanned ==
    ASSUME "plan changed" \notin Allowed
    PROVE  Spec => []NextRunIsPlanned
<1>1. Init => MInv
  BY MatchInit
<1>2. MInv /\ [Next]_vars => MInv'
  BY MatchStep
<1>3. Planned
  BY DEF Planned
<1>4. MInv => NextRunIsPlanned
  BY <1>3, MatchFacts
<1> QED
  BY <1>1, <1>2, <1>4, PTL DEF Spec
=============================================================================
