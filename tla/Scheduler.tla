------------------------------- MODULE Scheduler -------------------------------
(***************************************************************************)
(* The scheduler of the service: a thread for every enabled schedule, and   *)
(* one each for the backups of the database and for their checks           *)
(* (src/src/core/scheduler.rs).  Handlers write a row and then reload the   *)
(* scheduler; the command line writes the same rows and cannot reload.      *)
(* A reload reads the rows, tells threads to stop without waiting for them, *)
(* and starts others, which have a copy of their row from then on.          *)
(*                                                                         *)
(* Time is abstract: a sleep ends some time.  What a task does is in        *)
(* QueueDrain, IntegrityRuns and DatabaseBackup.                            *)
(***************************************************************************)
EXTENDS Naturals, FiniteSets, Functions

CONSTANTS
    Schedules,    \* ids of schedules; none is given twice
    Backups,      \* the two backup tasks
    Threads,      \* numbers of threads, given again when a thread has ended
    Plans,        \* when a task is due, its cron expression or interval, and for how long
    Negative,     \* those that are an interval below zero
    Overlong,     \* those with a duration below zero, or so long that no Instant is its end
    Default,      \* the plan that the settings of a new database have
    MaxEdits, MaxKills,
    NoRow, Deleted, NoPlan, NoThread, NoJob,
    Allowed       \* what requests also meet, out of Freedoms

\* The plan of an enabled schedule is changed; an interval is below zero.
Freedoms == {"plan changed", "negative interval"}

Jobs == Schedules \cup Backups

ASSUME SchedulerOK ==
    /\ Schedules \cap Backups = {} /\ IsFiniteSet(Jobs)
    /\ Threads \subseteq Nat /\ IsFiniteSet(Threads)
    /\ Negative \subseteq Plans /\ Overlong \subseteq Plans
    /\ Default \in Plans \ (Negative \cup Overlong)
    /\ {MaxEdits, MaxKills} \subseteq Nat
    /\ NoRow # Deleted
    /\ {NoRow, Deleted} \cap [plan : Plans, enabled : BOOLEAN] = {}
    /\ NoThread \notin Threads /\ NoPlan \notin Plans
    /\ Allowed \subseteq Freedoms

VARIABLES
    config,       \* the row of each job: schedule_config, db_backup_settings
    next,         \* next_run of each schedule, as the plan it follows from
    slot,         \* Scheduler.threads and Scheduler.backup_threads
    thread,       \* threads, also those that were told to stop
    reload,       \* the reload that has the mutex, and the rows it has read
    asked,        \* handlers that wait for the mutex
    behind,       \* tables that were changed since a reload has read them
    service,
    edits, kills  \* so far

vars == <<config, next, slot, thread, reload, asked, behind, service, edits, kills>>

Row == [plan : Plans, enabled : BOOLEAN]
Ended == [job |-> NoJob, plan |-> NoPlan, stop |-> FALSE, ran |-> FALSE, at |-> "ended"]
Thread == {Ended} \cup
          [job : Jobs, plan : Plans, stop : BOOLEAN,
           ran : BOOLEAN,                                \* a run was recorded
           at : {"sleep", "due", "run", "record", "panicked"}]
Tables == {"schedules", "settings"}
Table(j) == IF j \in Schedules THEN "schedules" ELSE "settings"
IsRow(x) == x \notin {NoRow, Deleted}
On(rows) == {j \in DOMAIN rows : IsRow(rows[j]) /\ rows[j].enabled}
NoReload == [at |-> "no", rows |-> [s \in Schedules |-> NoRow]]

Init ==
    /\ config = [j \in Jobs |-> IF j \in Schedules THEN NoRow ELSE [plan |-> Default, enabled |-> FALSE]]
    /\ next = [s \in Schedules |-> NoPlan]
    /\ slot = [j \in Jobs |-> NoThread]
    /\ thread = [t \in Threads |-> Ended]
    /\ reload = NoReload
    /\ asked = 0
    /\ behind = {}
    /\ service = "up"
    /\ edits = 0 /\ kills = 0
-----------------------------------------------------------------------------
(* Rows *)

\* A request reloads the scheduler once its row is written.
Requested == service = "up" /\ asked' = asked + 1
\* A command runs in a process of its own and leaves the scheduler alone.
Commanded == UNCHANGED asked

Edit(j, x) ==
    /\ edits < MaxEdits /\ edits' = edits + 1
    /\ IsRow(x) => "negative interval" \in Allowed \/ x.plan \notin Negative
    /\ config' = [config EXCEPT ![j] = x]
    /\ behind' = IF service = "down" THEN {} ELSE behind \cup {Table(j)}
    /\ UNCHANGED <<slot, thread, reload, service, kills>>

Create(s, x) ==
    /\ config[s] = NoRow
    /\ Edit(s, x)
    /\ UNCHANGED next

\* No thread has the old plan, or is about to get it.
Unplanned(j) == slot[j] = NoThread /\ ~(reload.at = "apply" /\ j \in On(reload.rows))

\* Fields that are left out stay as they are.
Update(s, x) ==
    /\ IsRow(config[s])
    /\ "plan changed" \in Allowed \/ x.plan = config[s].plan \/ Unplanned(s)
    /\ Edit(s, x)
    /\ UNCHANGED next

Delete(s) ==
    /\ IsRow(config[s])
    /\ Edit(s, Deleted)
    /\ next' = [next EXCEPT ![s] = NoPlan]

\* Backups have no duration.
UpdateSettings(b, x) ==
    /\ x.plan \notin Overlong
    /\ Edit(b, x)
    /\ UNCHANGED next

\* Requests: an interval is looked at in those for the backup settings only.
CreateSchedule(s, x) == Create(s, x) /\ Requested
UpdateSchedule(s, x) == Update(s, x) /\ Requested
DeleteSchedule(s) == Delete(s) /\ Requested
PutSettings(b, x) ==
    /\ x.plan \in Negative => x.plan = config[b].plan
    /\ UpdateSettings(b, x) /\ Requested

\* Commands: a schedule is enabled or disabled, or its duration is set.
ScheduleCommand(s) ==
    /\ \/ Delete(s)
       \/ \E x \in Row : Create(s, x)
       \/ \E e \in BOOLEAN : IsRow(config[s]) /\ Update(s, [config[s] EXCEPT !.enabled = e])
       \/ \E x \in Plans : IsRow(config[s]) /\ Update(s, [config[s] EXCEPT !.plan = x])
    /\ Commanded
SettingsCommand(b, x) == UpdateSettings(b, x) /\ Commanded
-----------------------------------------------------------------------------
(* Reloads: Scheduler::reload *)

\* The mutex is taken and the schedules are read.
ReloadReads ==
    /\ reload.at = "no" /\ asked > 0
    /\ reload' = [at |-> "apply", rows |-> Restrict(config, Schedules)]
    /\ asked' = asked - 1
    /\ behind' = behind \ {"schedules"}
    /\ UNCHANGED <<config, next, slot, thread, service, edits, kills>>

Started == IF service = "starting" THEN "up" ELSE service

\* They cannot be read: nothing changes, and no handler tries again.
ReloadFails ==
    /\ reload.at = "no" /\ asked > 0
    /\ asked' = asked - 1
    /\ behind' = IF service = "starting" THEN Tables ELSE behind
    /\ service' = Started
    /\ UNCHANGED <<config, next, slot, thread, reload, edits, kills>>

Free == {t \in Threads : thread[t].at = "ended"}
\* The n-th number that is free goes to the n-th job; which is which is of no account.
Assign(jobs) == CHOOSE f \in Injection(jobs, Free) : TRUE
Fresh(j, row) == [job |-> j, plan |-> row.plan, stop |-> FALSE, ran |-> FALSE, at |-> "sleep"]

\* Threads of the jobs in `stop' are told to stop and those of `start' are made.
Replace(stop, start, rows) ==
    LET new == Assign(start)
        old == {slot[j] : j \in stop} \ {NoThread}
    IN  /\ Cardinality(start) <= Cardinality(Free)
        /\ slot' = [j \in Jobs |-> IF j \in start THEN new[j] ELSE IF j \in stop THEN NoThread ELSE slot[j]]
        /\ thread' = [t \in Threads |->
             IF \E j \in start : new[j] = t THEN Fresh(CHOOSE j \in start : new[j] = t, rows[CHOOSE j \in start : new[j] = t])
             ELSE IF t \in old THEN [thread[t] EXCEPT !.stop = TRUE]
             ELSE thread[t]]

Registered == {s \in Schedules : slot[s] # NoThread}

\* Mutant: a thread is started for every enabled schedule.
ApplyAgain ==
    /\ reload.at = "apply"
    /\ Replace(Registered \ On(reload.rows), On(reload.rows), reload.rows)
    /\ reload' = [reload EXCEPT !.at = "backups"]
    /\ UNCHANGED <<config, next, asked, behind, service, edits, kills>>
\* A thread that goes on is left as it is, whatever its row says now.
Apply ==
    /\ reload.at = "apply"
    /\ Replace(Registered \ On(reload.rows), On(reload.rows) \ Registered, reload.rows)
    /\ reload' = [reload EXCEPT !.at = "backups"]
    /\ UNCHANGED <<config, next, asked, behind, service, edits, kills>>

\* The backup threads are always started anew, with their sleep from the beginning.
ReloadBackups ==
    /\ reload.at = "backups"
    /\ Replace(Backups, On(config) \cap Backups, config)
    /\ behind' = behind \ {"settings"}
    /\ reload' = NoReload
    /\ service' = Started
    /\ UNCHANGED <<config, next, asked, edits, kills>>

\* The settings cannot be read: the threads have been stopped by then.
BackupsUnread ==
    /\ reload.at = "backups"
    /\ Replace(Backups, {}, config)
    /\ behind' = behind \cup {"settings"}
    /\ reload' = NoReload
    /\ service' = Started
    /\ UNCHANGED <<config, next, asked, edits, kills>>
-----------------------------------------------------------------------------
(* Threads *)

Goes(t, from, to) ==
    /\ thread[t].at = from
    /\ thread' = [thread EXCEPT ![t].at = to]
    /\ UNCHANGED <<config, slot, reload, asked, behind, service, edits, kills>>

\* For a schedule, the product of an interval below zero overflows: a sleep that does not end.
Endless(t) == thread[t].job \in Schedules /\ thread[t].plan \in Negative
Due(t) == ~thread[t].stop /\ ~Endless(t) /\ Goes(t, "sleep", "due") /\ UNCHANGED next

\* A thread looks at its flag while it sleeps only; one that has panicked has no more
\* than its place in the map.
Quit(t) ==
    /\ thread[t].at \in {"sleep", "panicked"} /\ thread[t].stop
    /\ thread' = [thread EXCEPT ![t] = Ended]
    /\ UNCHANGED <<config, next, slot, reload, asked, behind, service, edits, kills>>

\* The end of the run is computed first: Instant + Duration panics when it is out of
\* range, and the thread, which is over, stays registered.
Begin(t) == thread[t].plan \notin Overlong /\ Goes(t, "due", "run") /\ UNCHANGED next
Panic(t) == thread[t].plan \in Overlong /\ Goes(t, "due", "panicked") /\ UNCHANGED next

\* Mutant: a task that fails ends its thread.
FinishOrEnd(t) ==
    /\ thread[t].at = "run"
    /\ \E x \in {"ended", "record"} : thread' = [thread EXCEPT ![t].at = x]
    /\ UNCHANGED <<config, next, slot, reload, asked, behind, service, edits, kills>>
\* A task that fails is recorded like any other.
Finish(t) == Goes(t, "run", "record") /\ UNCHANGED next

\* Mutant: next_run follows from the plan that the thread started with.
RecordOwn(t) ==
    /\ thread[t].at = "record"
    /\ thread' = [thread EXCEPT ![t].at = "sleep", ![t].ran = TRUE]
    /\ next' = IF thread[t].job \in Schedules /\ IsRow(config[thread[t].job])
               THEN [next EXCEPT ![thread[t].job] = thread[t].plan] ELSE next
    /\ UNCHANGED <<config, slot, reload, asked, behind, service, edits, kills>>
\* update_schedule_last_run: next_run follows from the row as it is now.
Record(t) ==
    /\ thread[t].at = "record"
    /\ thread' = [thread EXCEPT ![t].at = "sleep", ![t].ran = TRUE]
    /\ next' = IF thread[t].job \in Schedules /\ IsRow(config[thread[t].job])
               THEN [next EXCEPT ![thread[t].job] = config[thread[t].job].plan] ELSE next
    /\ UNCHANGED <<config, slot, reload, asked, behind, service, edits, kills>>

\* The row cannot be written.
RecordFails(t) == thread[t].job \in Schedules /\ Goes(t, "record", "sleep") /\ UNCHANGED next
-----------------------------------------------------------------------------
(* The service *)

Kill ==
    /\ service # "down"
    /\ kills < MaxKills /\ kills' = kills + 1
    /\ service' = "down"
    /\ slot' = [j \in Jobs |-> NoThread]
    /\ thread' = [t \in Threads |-> Ended]
    /\ reload' = NoReload
    /\ asked' = 0
    /\ behind' = {}
    /\ UNCHANGED <<config, next, edits>>

\* The scheduler is loaded before requests are taken.
Start ==
    /\ service = "down"
    /\ service' = "starting"
    /\ asked' = 1
    /\ UNCHANGED <<config, next, slot, thread, reload, behind, edits, kills>>
-----------------------------------------------------------------------------
Reloading == ReloadReads \/ ReloadFails \/ Apply \/ ReloadBackups \/ BackupsUnread
Work(t) == Due(t) \/ Quit(t) \/ Begin(t) \/ Panic(t) \/ Finish(t) \/ Record(t) \/ RecordFails(t)

Administer ==
    \/ \E s \in Schedules :
          \/ \E x \in Row : CreateSchedule(s, x) \/ UpdateSchedule(s, x)
          \/ DeleteSchedule(s) \/ ScheduleCommand(s)
    \/ \E b \in Backups, x \in Row : PutSettings(b, x) \/ SettingsCommand(b, x)

Next == Administer \/ Reloading \/ Kill \/ Start \/ \E t \in Threads : Work(t)

Spec == Init /\ [][Next]_vars

\* A thread that sleeps wakes up, a task ends, a reload goes on, and systemd starts
\* the service again.
FairSpec ==
    /\ Spec
    /\ \A t \in Threads : WF_vars(Work(t))
    /\ WF_vars(Reloading) /\ WF_vars(Start)
-----------------------------------------------------------------------------
(* Properties *)

TypeOK ==
    /\ config \in [Jobs -> Row \cup {NoRow, Deleted}]
    /\ next \in [Schedules -> Plans \cup {NoPlan}]
    /\ slot \in [Jobs -> Threads \cup {NoThread}]
    /\ thread \in [Threads -> Thread]
    /\ reload.at \in {"no", "apply", "backups"}
    /\ reload.rows \in [Schedules -> Row \cup {NoRow, Deleted}]
    /\ asked \in 0..(MaxEdits + 1)
    /\ behind \subseteq Tables
    /\ service \in {"up", "starting", "down"}
    /\ edits \in 0..MaxEdits /\ kills \in 0..MaxKills

\* A thread is at work, and was not told to stop.
GoesOn(t) == thread[t].at \notin {"ended", "panicked"} /\ ~thread[t].stop

\* src/src/core/scheduler.rs:128: once a reload has read the rows, every enabled job
\* has a thread that follows the row's plan, and no other job has one, however requests,
\* commands, failed reloads and restarts came about.  That thread goes on, or the
\* duration in the job's own row has made it panic.
ThreadsMatch ==
    service = "up" /\ reload.at = "no" =>
        \A j \in Jobs : Table(j) \notin behind =>
            IF j \in On(config)
            THEN /\ slot[j] # NoThread
                 /\ thread[slot[j]].job = j /\ thread[slot[j]].plan = config[j].plan
                 /\ \/ GoesOn(slot[j])
                    \/ thread[slot[j]].at = "panicked" /\ config[j].plan \in Overlong
            ELSE slot[j] = NoThread

\* A thread that was not told to stop is registered, also when it has panicked: none goes
\* on that no reload can stop, and no job has two.
NoStray ==
    \A t \in Threads : thread[t].at # "ended" /\ ~thread[t].stop => slot[thread[t].job] = t

\* The next_run that users see is by the plan of the thread that goes on, also when a
\* thread of an earlier plan is still at work and recorded last.
NextRunIsPlanned ==
    \A s \in Schedules :
        service = "up" /\ reload.at = "no" /\ "schedules" \notin behind /\ slot[s] # NoThread
            => (thread[slot[s]].ran /\ next[s] # NoPlan => next[s] = thread[slot[s]].plan)

\* A job that stays enabled, in rows that were read and with a duration that has an
\* end, is run again and again, whether its task fails or not.
EnabledRuns ==
    \A j \in Jobs :
        <>[](j \in On(config) /\ config[j].plan \notin Overlong /\ Table(j) \notin behind)
            => []<>(\E t \in Threads : thread[t].job = j /\ thread[t].at = "run")

\* A job that stays disabled comes to rest, with all its threads.
DisabledRests ==
    \A j \in Jobs :
        <>[](j \notin On(config) /\ Table(j) \notin behind)
            => <>[](\A t \in Threads : thread[t].job # j)

\* docs/API.md:1247: with a duration the scheduler will "resume remaining items on the
\* next scheduled run", which an enabled schedule has.
EnabledGoesOn ==
    \A s \in Schedules :
        service = "up" /\ reload.at = "no" /\ "schedules" \notin behind /\ s \in On(config)
            => slot[s] # NoThread /\ GoesOn(slot[s])

(* What the run checks *)

\* The threads are those the rows ask for: src/src/core/scheduler.rs:128-132.
ThreadsFollowRows == TypeOK /\ ThreadsMatch /\ NoStray

\* What runs in the long run is what the rows ask for: src/src/core/scheduler.rs:188-229.
JobsFollowRows == EnabledRuns /\ DisabledRests
=============================================================================
