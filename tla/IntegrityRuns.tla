--------------------------- MODULE IntegrityRuns ---------------------------
(***************************************************************************)
(* Integrity runs: the integrity_runs table, the calls that start, stop    *)
(* and clean up runs, and process_run (src/src/core/integrity_runs.rs)     *)
(* with the check and the recovery of src/src/core/integrity.rs, next to   *)
(* the users, scans and mirror transfers that change the files meanwhile.  *)
(*                                                                         *)
(* The service, for its API and its scheduler, and the CLI start runs; the *)
(* service cleans up the table when it starts.  All pairs are healthy:     *)
(* both slots active, the primary in use.                                  *)
(***************************************************************************)
EXTENDS Integers, Sequences, FiniteSets

CONSTANTS
    Files,        \* tracked_files ids, in the order of their creation
    Pairs,        \* drive pair ids
    PairOf,       \* the pair of each file
    FirstOrder,   \* the files of each pair, by id
    RunIds,       \* integrity_runs ids; the id of an ended run is used again
    PerPage,      \* files per page: per_page
    Changing,     \* bound: the files users edit or untrack and damage hits
    MaxVersion,   \* bound on the versions users write
    MaxKills,     \* bound on the processes that are killed
    Allowed       \* what the environment also does, out of Freedoms

\* Two callers look for an active run before one of them inserts; the service
\* starts while the CLI has a run; files change while a recovering run has their
\* page in hand; a recovering run starts before a scan has seen an edit; a scan
\* takes damage for an edit; damage hits a master whose transfer is pending, which
\* copies whatever it finds.
Freedoms == {"racing starts", "restart beside a run", "change under recovery",
             "recover before scan", "scan damage", "damage before transfer"}

\* What the files of a pair are listed as: each of them once.
Listing(p) == {s \in Seq({f \in Files : PairOf[f] = p}) :
                 \A i, j \in DOMAIN s : s[i] = s[j] => i = j}

ASSUME ConstantsOK ==
    /\ Files \subseteq Nat
    /\ Pairs \subseteq Nat
    /\ PairOf \in [Files -> Pairs]
    /\ FirstOrder \in [Pairs -> Seq(Files)]
    /\ \A p \in Pairs : FirstOrder[p] \in Listing(p)
    /\ RunIds \subseteq Nat
    /\ PerPage \in Nat \ {0}
    /\ Changing \subseteq Files
    /\ MaxVersion \in Nat \ {0}
    /\ MaxKills \in Nat
    /\ Allowed \subseteq Freedoms

VARIABLES
    runs,         \* integrity_runs
    results,      \* the files of integrity_run_results, per run
    order,        \* tracked_files of each pair by last_integrity_check_at, oldest first
    asked,        \* callers that found no active run and have not inserted yet
    up,           \* the service is running
    thread,       \* where process_run is, per run
    single,       \* the repair of one file, outside of runs
    copy,         \* content of each file on either side
    sum,          \* tracked_files.checksum: the version it is the hash of
    mirrored,     \* files with is_mirrored
    rows,         \* files with a pending mirror row
    kept,         \* the version each file must not fall behind
    kills

fileVars == <<copy, sum, mirrored, rows, kept>>
vars == <<runs, results, order, asked, up, thread, single, fileVars, kills>>

Sides == {"master", "mirror"}
Other(side) == IF side = "master" THEN "mirror" ELSE "master"
\* The processes: API handlers and scheduler threads are the service's.
Callers == {"service", "cli"}

Missing == -1
Damaged == 0
Contents == Missing..MaxVersion
Versions == 1..MaxVersion
\* Damage has a checksum, too.
Hashed == Damaged..MaxVersion

Active == {"running", "stopping"}
Ended == {"stopped", "completed", "failed"}
Row == [status : Active \cup Ended, stop : BOOLEAN, recover : BOOLEAN,
        caller : Callers, scope : SUBSET Pairs]
Absent == [status |-> "absent"]

Verdicts == {"ok", "master_missing", "mirror_missing", "master_corrupted",
             "mirror_corrupted", "both_corrupted", "internal_error"}
Entry == [file : Files, sum : Hashed, verdict : Verdicts \cup {"unchecked"}]
Thread == [at : {"none", "list", "work", "finish"}, timed : BOOLEAN, todo : SUBSET Pairs,
           page : Nat \ {0}, more : BOOLEAN, batch : Seq(Entry), outcome : Ended]
NoThread == [at |-> "none", timed |-> FALSE, todo |-> {}, page |-> 1, more |-> FALSE,
             batch |-> <<>>, outcome |-> "completed"]
Single == [caller : Callers, entry : Entry]
NoSingle == [caller |-> "none"]

TypeOK ==
    /\ runs \in [RunIds -> Row \cup {Absent}]
    /\ results \in [RunIds -> SUBSET Files]
    /\ order \in [Pairs -> Seq(Files)]
    /\ \A p \in Pairs : order[p] \in Listing(p)
    /\ asked \subseteq Callers
    /\ up \in BOOLEAN
    /\ thread \in [RunIds -> Thread]
    /\ single \in Single \cup {NoSingle}
    /\ copy \in [Sides -> [Files -> Contents]]
    /\ sum \in [Files -> Hashed]
    /\ mirrored \subseteq Files
    /\ rows \subseteq Files
    /\ kept \in [Files -> Versions]
    /\ kills \in 0..MaxKills

Init ==
    /\ runs = [r \in RunIds |-> Absent]
    /\ results = [r \in RunIds |-> {}]
    /\ order = FirstOrder
    /\ asked = {}
    /\ up = TRUE
    /\ thread = [r \in RunIds |-> NoThread]
    /\ single = NoSingle
    /\ copy = [s \in Sides |-> [f \in Files |-> 1]]
    /\ sum = [f \in Files |-> 1]
    /\ mirrored = Files
    /\ rows = {}
    /\ kept = [f \in Files |-> 1]
    /\ kills = 0

Tracked == UNION {{order[p][i] : i \in DOMAIN order[p]} : p \in Pairs}
Running(r) == thread[r].at # "none"
IsActive(r) == runs[r].status \in Active
Recovering(r) == Running(r) /\ runs[r].recover
Unscanned(f) == copy["master"][f] \notin {Missing, Damaged, sum[f]}
Recoverable == "recover before scan" \in Allowed \/ \A f \in Tracked : ~Unscanned(f)
-----------------------------------------------------------------------------
(* Starting and stopping a run *)

\* Mutant: a run that is stopping does not count.
NoneActiveButStopping == \A r \in RunIds : runs[r].status # "running"
\* get_active_integrity_run finds nothing.
NoneActive == \A r \in RunIds : ~IsActive(r)

\* start_run_async and run_sync look for an active run ...
Ask(c) ==
    /\ NoneActive
    /\ "racing starts" \in Allowed \/ asked = {}
    /\ asked' = asked \cup {c}
    /\ UNCHANGED <<runs, results, order, up, thread, single, fileVars, kills>>

\* A request or the scheduler, and the command integrity check.
StartRun == up /\ Ask("service")
CheckAll == Ask("cli")

\* ... and insert one, for one pair or all, that recovers or not.  Only the
\* scheduler's runs have a deadline; they take all pairs and recover nothing.
Insert(c, r) ==
    /\ c \in asked
    /\ ~IsActive(r) /\ ~Running(r)
    /\ \A q \in RunIds : IsActive(q) \/ Running(q) \/ r <= q
    /\ asked' = asked \ {c}
    /\ \E recover, timed \in BOOLEAN, scope \in {Pairs} \cup {{p} : p \in Pairs} :
          /\ timed => c = "service" /\ ~recover /\ scope = Pairs
          /\ recover => Recoverable
          /\ runs' = [runs EXCEPT ![r] =
                        [status |-> "running", stop |-> FALSE, recover |-> recover,
                         caller |-> c, scope |-> scope]]
          /\ thread' = [thread EXCEPT ![r] =
                          [NoThread EXCEPT !.at = "list", !.timed = timed, !.todo = scope]]
    /\ results' = [results EXCEPT ![r] = {}]
    /\ UNCHANGED <<order, up, single, fileVars, kills>>

\* Mutant: the status changes whatever it is.
RequestStopAnyway(r) ==
    /\ runs[r] # Absent
    /\ runs' = [runs EXCEPT ![r].stop = TRUE, ![r].status = "stopping"]
    /\ UNCHANGED <<results, order, asked, up, thread, single, fileVars, kills>>
\* request_integrity_run_stop
RequestStop(r) ==
    /\ runs[r] # Absent
    /\ runs' = [runs EXCEPT ![r].stop = TRUE,
                            ![r].status = IF @ = "running" THEN "stopping" ELSE @]
    /\ UNCHANGED <<results, order, asked, up, thread, single, fileVars, kills>>
\* stop_run
StopRun(r) == up /\ RequestStop(r)
-----------------------------------------------------------------------------
(* process_run *)

\* finish_integrity_run, whatever the status is.
FinishAs(r, status) ==
    /\ runs' = [runs EXCEPT ![r].status = status]
    /\ thread' = [thread EXCEPT ![r] = NoThread]

NextPair(r) == CHOOSE p \in thread[r].todo : \A q \in thread[r].todo : p <= q

\* check_should_stop at the top of a page: a stop was requested, or the deadline
\* is over.
StopAtPage(r) ==
    /\ thread[r].at = "list" /\ thread[r].todo # {}
    /\ runs[r].stop \/ thread[r].timed
    /\ FinishAs(r, "stopped")
    /\ UNCHANGED <<results, order, asked, up, single, fileVars, kills>>

\* Mutant: the offset counts the page itself.
PageAfter(p, n) ==
    LET files == order[p]
        last == IF (n + 1) * PerPage < Len(files) THEN (n + 1) * PerPage ELSE Len(files)
    IN  SubSeq(files, n * PerPage + 1, last)

\* list_tracked_files_oldest_integrity_first: every page is cut out of the list
\* as it is at that moment.
PageOf(p, n) ==
    LET files == order[p]
        last == IF n * PerPage < Len(files) THEN n * PerPage ELSE Len(files)
    IN  SubSeq(files, (n - 1) * PerPage + 1, last)

PairDone(r) ==
    [thread[r] EXCEPT !.at = "list", !.todo = @ \ {NextPair(r)}, !.page = 1,
                      !.more = FALSE, !.batch = <<>>]

StartedPage(r) ==
    LET p == NextPair(r)
        n == thread[r].page
        files == PageOf(p, n)
    IN  [thread[r] EXCEPT !.at = "work",
           !.more = n * PerPage < Len(order[p]),
           !.batch = [i \in DOMAIN files |->
              [file |-> files[i], sum |-> sum[files[i]], verdict |-> "unchecked"]]]

ListPage(r) ==
    /\ thread[r].at = "list" /\ thread[r].todo # {}
    /\ ~runs[r].stop
    /\ thread' = [thread EXCEPT ![r] =
                    IF PageOf(NextPair(r), thread[r].page) = <<>>
                    THEN PairDone(r) ELSE StartedPage(r)]
    /\ UNCHANGED <<runs, results, order, asked, up, single, fileVars, kills>>

\* check_file_integrity on a healthy pair.
Verdict(master, mirror, expected) ==
    CASE master = Missing                                          -> "master_missing"
      [] master # Missing /\ mirror = Missing                      -> "mirror_missing"
      [] master = expected /\ mirror = expected                    -> "ok"
      [] master = expected /\ mirror \notin {expected, Missing}    -> "mirror_corrupted"
      [] master \notin {expected, Missing} /\ mirror = expected    -> "master_corrupted"
      [] OTHER                                                     -> "both_corrupted"

\* The files of a page are checked in parallel; a read may fail.
CheckFile(r, i) ==
    /\ thread[r].at = "work"
    /\ i \in DOMAIN thread[r].batch
    /\ LET e == thread[r].batch[i] IN
          /\ e.verdict = "unchecked"
          /\ \E v \in {Verdict(copy["master"][e.file], copy["mirror"][e.file], e.sum),
                       "internal_error"} :
                thread' = [thread EXCEPT ![r].batch[i].verdict = v]
    /\ UNCHANGED <<runs, results, order, asked, up, single, fileVars, kills>>

\* Mutant: whatever is wrong, the mirror is written again.
TargetSideMirror(verdict) == IF verdict = "ok" THEN "none" ELSE "mirror"
\* attempt_recovery: which side is written from the other.
TargetSide(verdict) ==
    CASE verdict = "master_corrupted"                        -> "master"
      [] verdict \in {"mirror_corrupted", "mirror_missing"}  -> "mirror"
      [] OTHER                                               -> "none"

\* The recovery, if one is wanted, finds its source and starts to write its target.
Restores(recover, e) ==
    /\ recover
    /\ TargetSide(e.verdict) # "none"
    /\ copy[Other(TargetSide(e.verdict))][e.file] # Missing

\* The source still has the checksum the file had when it was read.
RestoreGood(recover, e) ==
    Restores(recover, e) /\ copy[Other(TargetSide(e.verdict))][e.file] = e.sum

\* Mutant: the queue rows are reconciled after every attempt.
RecoverReconciled(recover, e) ==
    /\ copy' = IF Restores(recover, e)
               THEN [copy EXCEPT ![TargetSide(e.verdict)][e.file] =
                       IF RestoreGood(recover, e) THEN e.sum ELSE Missing]
               ELSE copy
    /\ mirrored' = mirrored \cup ({e.file} \cap Tracked)
    /\ rows' = rows \ {e.file}
\* attempt_recovery_with_reconciliation: a copy that does not have the expected
\* checksum is removed; after a good one the file's mirror rows are completed.
Recover(recover, e) ==
    /\ copy' = IF Restores(recover, e)
               THEN [copy EXCEPT ![TargetSide(e.verdict)][e.file] =
                       IF RestoreGood(recover, e) THEN e.sum ELSE Missing]
               ELSE copy
    /\ mirrored' = IF RestoreGood(recover, e) THEN mirrored \cup ({e.file} \cap Tracked) ELSE mirrored
    /\ rows' = IF RestoreGood(recover, e) THEN rows \ {e.file} ELSE rows

\* All files of the page are checked.
PageChecked(r) ==
    /\ thread[r].at = "work"
    /\ \A i \in DOMAIN thread[r].batch : thread[r].batch[i].verdict # "unchecked"

\* delete_tracked_file
Without(f) ==
    LET files == order[PairOf[f]]
        i == CHOOSE i \in DOMAIN files : files[i] = f
    IN  [order EXCEPT ![PairOf[f]] = SubSeq(files, 1, i - 1) \o SubSeq(files, i + 1, Len(files))]
\* update_tracked_file_last_integrity_check_at: two updates have different times.
Touched(f) == [Without(f) EXCEPT ![PairOf[f]] = Append(@, f)]

NextFile(r) ==
    LET rest == Tail(thread[r].batch)
    IN  IF rest # <<>> THEN [thread[r] EXCEPT !.batch = rest]
        ELSE IF thread[r].more
        THEN [thread[r] EXCEPT !.at = "list", !.page = @ + 1, !.more = FALSE, !.batch = <<>>]
        ELSE PairDone(r)

\* append_integrity_run_result
AppendResult(r, f) == results' = [results EXCEPT ![r] = @ \cup {f}]

\* The results are settled in the order of the page.
SettleFile(r) ==
    /\ PageChecked(r)
    /\ LET e == Head(thread[r].batch) IN
          /\ e.file \in Tracked
          /\ Recover(runs[r].recover, e)
          /\ order' = Touched(e.file)
          /\ AppendResult(r, e.file)
    /\ thread' = [thread EXCEPT ![r] = NextFile(r)]
    /\ UNCHANGED <<runs, asked, up, single, sum, kept, kills>>

\* The file was untracked meanwhile: its result violates a foreign key, and the
\* run fails.
FailRun(r) ==
    /\ PageChecked(r)
    /\ LET e == Head(thread[r].batch) IN
          /\ e.file \notin Tracked
          /\ Recover(runs[r].recover, e)
    /\ FinishAs(r, "failed")
    /\ UNCHANGED <<results, order, asked, up, single, sum, kept, kills>>

\* After the last pair the run is read once more ...
Decide(r) ==
    /\ thread[r].at = "list" /\ thread[r].todo = {}
    /\ thread' = [thread EXCEPT ![r].at = "finish",
                                ![r].outcome = IF runs[r].stop THEN "stopped" ELSE "completed"]
    /\ UNCHANGED <<runs, results, order, asked, up, single, fileVars, kills>>

\* ... and its end is written.
Finish(r) ==
    /\ thread[r].at = "finish"
    /\ FinishAs(r, thread[r].outcome)
    /\ UNCHANGED <<results, order, asked, up, single, fileVars, kills>>
-----------------------------------------------------------------------------
(* The check of one file: a request or a command *)

\* What check_file_integrity finds for the file as it is read.
Found(f) ==
    [file |-> f, sum |-> sum[f], verdict |-> Verdict(copy["master"][f], copy["mirror"][f], sum[f])]

\* A check that repairs nothing has no effect but its time ...
LookAt(f) ==
    /\ f \in Tracked \cap Changing
    /\ order' = Touched(f)
    /\ UNCHANGED <<runs, results, asked, up, thread, single, fileVars, kills>>

\* ... and one that recovers the file sets out to write one copy from the other.
RepairOne(c, f) ==
    /\ single = NoSingle
    /\ f \in Tracked \cap Changing
    /\ Recoverable
    /\ TargetSide(Found(f).verdict) # "none"
    /\ single' = [caller |-> c, entry |-> Found(f)]
    /\ UNCHANGED <<runs, results, order, asked, up, thread, fileVars, kills>>

\* check_file keeps the time of every check, check_single that of a good file only.
CheckRequest(f) == up /\ (LookAt(f) \/ RepairOne("service", f))
CheckCommand(f) == (Found(f).verdict = "ok" /\ LookAt(f)) \/ RepairOne("cli", f)

\* The repair is done, next to any run; only a good one is a check of the file.
SettleOne ==
    /\ single # NoSingle
    /\ LET e == single.entry IN
          /\ Recover(TRUE, e)
          /\ order' = IF RestoreGood(TRUE, e) /\ e.file \in Tracked THEN Touched(e.file) ELSE order
    /\ single' = NoSingle
    /\ UNCHANGED <<runs, results, asked, up, thread, sum, kept, kills>>
-----------------------------------------------------------------------------
(* Processes *)

Torn(e) == copy' = [copy EXCEPT ![TargetSide(e.verdict)][e.file] = Damaged]

\* What a killed recovery leaves of its target.
Tear(c, dead) ==
    \/ UNCHANGED copy
    \/ single.caller = c /\ Restores(TRUE, single.entry) /\ Torn(single.entry)
    \/ \E r \in dead :
          /\ thread[r].at = "work" /\ thread[r].batch # <<>>
          /\ LET e == Head(thread[r].batch) IN
                /\ Restores(runs[r].recover, e)
                /\ Torn(e)

KillThreads(c, dead) ==
    /\ kills < MaxKills
    /\ kills' = kills + 1
    /\ Tear(c, dead)
    /\ single' = IF single.caller = c THEN NoSingle ELSE single
    /\ thread' = [r \in RunIds |-> IF r \in dead THEN NoThread ELSE thread[r]]

RunsOf(c) == {r \in RunIds : Running(r) /\ runs[r].caller = c}

KillService ==
    /\ up
    /\ up' = FALSE
    /\ KillThreads("service", RunsOf("service"))
    /\ asked' = asked \ {"service"}
    /\ UNCHANGED <<runs, results, order, sum, mirrored, rows, kept>>

KillCli ==
    /\ RunsOf("cli") # {} \/ single.caller = "cli"
    /\ KillThreads("cli", RunsOf("cli"))
    /\ UNCHANGED <<runs, results, order, asked, up, sum, mirrored, rows, kept>>

\* Mutant: a run that was stopping is left alone.
CleanedRunning(r) == runs[r].status = "running"
Cleaned(r) == IsActive(r)

\* cleanup_stale_integrity_runs, when the service starts.
StartService ==
    /\ ~up
    /\ "restart beside a run" \in Allowed \/ \A r \in RunIds : ~Running(r)
    /\ up' = TRUE
    /\ runs' = [r \in RunIds |->
                  IF Cleaned(r) THEN [runs[r] EXCEPT !.status = "failed"] ELSE runs[r]]
    /\ UNCHANGED <<results, order, asked, thread, single, fileVars, kills>>
-----------------------------------------------------------------------------
(* Users, scans, mirror transfers and damage *)

\* No recovering run or repair works, or nobody cares.
Undisturbed ==
    \/ "change under recovery" \in Allowed
    \/ (\A r \in RunIds : ~Recovering(r)) /\ single = NoSingle

Edit(f) ==
    /\ f \in Tracked \cap Changing
    /\ kept[f] < MaxVersion
    /\ Undisturbed
    /\ copy' = [copy EXCEPT !["master"][f] = kept[f] + 1]
    /\ kept' = [kept EXCEPT ![f] = @ + 1]
    /\ UNCHANGED <<runs, results, order, asked, up, thread, single, sum, mirrored, rows, kills>>

\* scan_and_record_changes, for one file.
Scan(f) ==
    /\ f \in Tracked
    /\ copy["master"][f] \notin {Missing, sum[f]}
    /\ "scan damage" \in Allowed \/ copy["master"][f] # Damaged
    /\ sum' = [sum EXCEPT ![f] = copy["master"][f]]
    /\ mirrored' = mirrored \ {f}
    /\ rows' = rows \cup {f}
    /\ UNCHANGED <<runs, results, order, asked, up, thread, single, copy, kept, kills>>

\* The queue worker copies a file whose mirror row is pending.
MirrorFile(f) ==
    /\ f \in rows
    /\ copy["master"][f] # Missing
    /\ copy' = [copy EXCEPT !["mirror"][f] = copy["master"][f]]
    /\ mirrored' = mirrored \cup {f}
    /\ rows' = rows \ {f}
    /\ UNCHANGED <<runs, results, order, asked, up, thread, single, sum, kept, kills>>

\* One copy is damaged or gets lost while the other one is up to date.
Damage(side, f) ==
    /\ f \in Tracked \cap Changing
    /\ copy[side][f] > Damaged
    /\ copy[Other(side)][f] = kept[f]
    /\ "damage before transfer" \in Allowed \/ side = "mirror" \/ f \notin rows
    /\ Undisturbed
    /\ \E c \in {Damaged, Missing} : copy' = [copy EXCEPT ![side][f] = c]
    /\ UNCHANGED <<runs, results, order, asked, up, thread, single, sum, mirrored, rows, kept, kills>>

\* delete_file and delete_tracked_file: only a row in transfer forbids it, a
\* pending one goes with the file.
Untrack(f) ==
    /\ f \in Tracked \cap Changing
    /\ order' = Without(f)
    /\ results' = [r \in RunIds |-> results[r] \ {f}]
    /\ mirrored' = mirrored \ {f}
    /\ rows' = rows \ {f}
    /\ UNCHANGED <<runs, asked, up, thread, single, copy, sum, kept, kills>>
-----------------------------------------------------------------------------
Starts == StartRun \/ CheckAll \/ \E c \in Callers, r \in RunIds : Insert(c, r)

Work(r) ==
    \/ StopAtPage(r) \/ ListPage(r) \/ SettleFile(r) \/ FailRun(r)
    \/ Decide(r) \/ Finish(r)
    \/ \E i \in DOMAIN thread[r].batch : CheckFile(r, i)

Singles ==
    \/ \E f \in Files : CheckRequest(f) \/ CheckCommand(f)
    \/ SettleOne

Processes == KillService \/ KillCli \/ StartService

FileChanges ==
    \/ \E f \in Files : Edit(f) \/ Scan(f) \/ MirrorFile(f) \/ Untrack(f)
    \/ \E s \in Sides, f \in Files : Damage(s, f)

Next ==
    \/ Starts
    \/ \E r \in RunIds : StopRun(r) \/ Work(r)
    \/ Singles
    \/ Processes
    \/ FileChanges

Spec == Init /\ [][Next]_vars

\* Threads run, a service that died is started again, and somebody starts the
\* next run when none is active.
Fairness ==
    /\ \A r \in RunIds : WF_vars(Work(r))
    /\ WF_vars(SettleOne)
    /\ WF_vars(StartService)
    /\ WF_vars(Starts)

FairSpec == Spec /\ Fairness
-----------------------------------------------------------------------------
(* Safety *)

\* "Only one active run is allowed at a time" (ARCHITECTURE.md:335): no two runs
\* are marked active, or still worked on, at a time.
OneActiveRun ==
    \A q, r \in RunIds : (IsActive(q) \/ Running(q)) /\ (IsActive(r) \/ Running(r)) => q = r

\* A run that was reported as stopped, completed or failed keeps that end: no
\* thread that is still at work writes over it.
EndStands ==
    [][\A r \in RunIds :
         runs[r].status \in Ended => runs'[r].status \in {runs[r].status, "running"}]_vars

\* Behind both: a run that is worked on is marked active, and a caller that found
\* no active run is alone until it has inserted its own.
ThreadsAreActive == \A r \in RunIds : Running(r) => IsActive(r)
AskedAlone ==
    /\ \A c, d \in asked : c = d
    /\ asked # {} => NoneActive

\* Neither a recovery nor a mirror transfer destroys the last good copy of what
\* the user wrote last, as long as damage does not hit both copies.
NoVersionLost == \A f \in Tracked : \E s \in Sides : copy[s][f] = kept[f]

\* A recovery that completes a file's mirror rows leaves no older version on
\* the mirror: one that is behind has a row to bring it up to date.
BehindIsQueued ==
    \A f \in Tracked :
        copy["mirror"][f] \in Versions /\ copy["mirror"][f] < sum[f] => f \in rows

\* "An async pass that re-hashes every tracked file" (README.md:53): a completed
\* run has a result for every file of its scope that was tracked all along.
CompletedCheckedAll ==
    \A r \in RunIds : runs[r].status = "completed" =>
        {f \in Tracked : PairOf[f] \in runs[r].scope} \subseteq results[r]
-----------------------------------------------------------------------------
(* Liveness *)

\* A run that the service started ends, whatever the service meets: by its
\* thread, or by the clean-up when the service died and came back.
RunsEnd ==
    \A r \in RunIds :
        (IsActive(r) /\ runs[r].caller = "service") ~> ~IsActive(r)

\* "every file receives periodic coverage" (ARCHITECTURE.md:411): once all runs
\* take all pairs, none is cut short, and no row of a killed CLI blocks the next
\* one, every tracked file gets a result in one run after the other, or is checked
\* on its own again and again.
Coverage ==
    /\ <>[](\A r \in RunIds : IsActive(r) =>
               /\ ~runs[r].stop /\ ~thread[r].timed
               /\ runs[r].scope = Pairs)
    /\ []<>(\A r \in RunIds : IsActive(r) => Running(r))
    => \A f \in Files :
          \/ []<>(f \in Tracked => \E r \in RunIds : IsActive(r) /\ f \in results[r])
          \/ []<><<CheckRequest(f) \/ CheckCommand(f)>>_vars
=============================================================================
