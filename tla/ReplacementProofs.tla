------------------------- MODULE ReplacementProofs -------------------------
(***************************************************************************)
(* Theorems about Replacement for any files, mount points, rows and        *)
(* bounds.  For every set of freedoms its state stays typed, the row in    *)
(* the worker's hands exists, and the two slots follow DriveLifecycle.     *)
(* When requests do not overtake the worker, no handler and no transfer    *)
(* destroys the last copy of a version, a rebuild is finished only when    *)
(* the new drive holds every file, and what is marked mirrored is the same *)
(* on both drives.  A scan may find a change of the file that is being     *)
(* copied in all but the last.                                             *)
(***************************************************************************)
EXTENDS Replacement, TLAPS, FiniteSetTheorems

\* The rows the worker fetched are in the table as long as it holds them, and
\* process_item past its first reads holds one row and its file.
WorkerOK ==
    /\ \A i \in batch : queue[i] \in Row
    /\ wpc \notin {"idle", "finalize"} => item \in RowIds /\ queue[item] \in Row
    /\ wpc \in {"idle", "finalize"} => item = NoRow
    /\ item \notin batch
    /\ wpc # "idle" => snap.file \in Files

\* The inductive invariant.
IInv == TypeOK /\ WorkerOK

\* Contents are integers, and a new pair's files are whole.
LEMMA ContentsAre == Contents \subseteq Int /\ Missing \in Contents /\ Torn \in Contents /\ 1 \in Contents
  BY ConstantsOK DEF Contents, Missing, Torn

\* Every role has another one.
LEMMA OtherIs == \A r \in Roles : Other(r) \in Roles /\ Other(r) # r
  BY DEF Other, Roles

\* An absent row is not a row.
LEMMA AbsentIsNoRow == Absent \notin Row /\ \A x \in Row : x.status # "absent"
  BY DEF Absent, Row

\* A mutated status keeps a row a row.
LEMMA StatusChange ==
    ASSUME NEW x \in Row, NEW s \in {"pending", "in_progress", "failed"}
    PROVE  [x EXCEPT !.status = s] \in Row
  BY DEF Row

\* Of what some drives hold of a file the newest whole version can be told.
LEMMA BestLeft ==
    ASSUME TypeOK, NEW roles \in SUBSET Roles, NEW d \in [Paths -> [Files -> Contents]],
           NEW f \in Files
    PROVE  \E c \in {d[path[r]][f] : r \in roles} \cup {Missing} :
              /\ c = Missing \/ Whole(c)
              /\ \A e \in {d[path[r]][f] : r \in roles} : Whole(e) => e <= c
<1> DEFINE left == {d[path[r]][f] : r \in roles}
           fits(c) == (c = Missing \/ Whole(c)) /\ \A e \in left : Whole(e) => e <= c
<1>0. left \subseteq Contents
  BY DEF TypeOK
<1> HIDE DEF left
<1> SUFFICES \E c \in left \cup {Missing} : fits(c)
  BY DEF left
<1>1. CASE \A e \in left : ~Whole(e)
  BY <1>1
<1>2. CASE \E e \in left : Whole(e)
  <2>1. PICK r \in roles : Whole(d[path[r]][f])
    BY <1>2 DEF left
  <2>2. CASE Other(r) \in roles /\ Whole(d[path[Other(r)]][f])
    <3> DEFINE a == d[path[r]][f]
               b == d[path[Other(r)]][f]
    <3>1. left = {a, b}
      BY <2>2 DEF Roles, Other, left
    <3>2. a \in Contents /\ b \in Contents
      BY <1>0, <3>1
    <3>3. a \in Int /\ b \in Int
      BY <3>2, ContentsAre
    <3>4. CASE a <= b
      <4>1. \A e \in left : e <= b
        BY <3>1, <3>3, <3>4
      <4>2. QED
        BY <4>1, <3>1, <2>2
    <3>5. CASE b <= a
      <4>1. \A e \in left : e <= a
        BY <3>1, <3>3, <3>5
      <4>2. QED
        BY <4>1, <3>1, <2>1
    <3>6. QED
      BY <3>3, <3>4, <3>5
  <2>3. CASE ~(Other(r) \in roles /\ Whole(d[path[Other(r)]][f]))
    <3>1. \A e \in left : Whole(e) => e = d[path[r]][f]
      BY <2>3 DEF Roles, Other, left
    <3>2. d[path[r]][f] \in left /\ d[path[r]][f] \in Contents
      BY <1>0 DEF left
    <3> DEFINE a == d[path[r]][f]
    <3>0. a \in Int
      BY <3>2, ContentsAre
    <3> HIDE DEF a
    <3>3. a <= a
      BY <3>0
    <3>4. ASSUME NEW e \in left, Whole(e) PROVE e <= a
      <4>1. e = a
        BY <3>1, <3>4 DEF a
      <4>2. QED
        BY <4>1, <3>3
    <3>5. a \in left /\ Whole(a)
      BY <2>1, <3>2 DEF a
    <3>6. fits(a)
      BY <3>4, <3>5
    <3>7. QED
      BY <3>5, <3>6
  <2>4. QED
    BY <2>2, <2>3
<1>3. QED
  BY <1>1, <1>2

\* What KeptBy leaves of a file is the kept version where a drive has it, else the
\* newest whole version some drive holds, or nothing.
LEMMA KeptFacts ==
    ASSUME TypeOK, NEW roles \in SUBSET Roles, NEW d \in [Paths -> [Files -> Contents]],
           NEW f \in Files, NEW k, k = KeptBy(roles, d)[f]
    PROVE  /\ k \in Contents
           /\ (\E r \in roles : d[path[r]][f] >= kept[f]) => k = kept[f]
           /\ kept[f] = Missing \/ Whole(kept[f]) => k = Missing \/ Whole(k)
           /\ k <= kept[f]
           /\ k # Missing => \E r \in roles : d[path[r]][f] >= k
<1> DEFINE left == {d[path[r]][f] : r \in roles}
           fits(c) == (c = Missing \/ Whole(c)) /\ \A e \in left : Whole(e) => e <= c
           best == CHOOSE c \in left \cup {Missing} : fits(c)
<1>0. left \subseteq Contents /\ kept[f] \in Contents
  BY DEF TypeOK
<1>1. k = IF \E c \in left : c >= kept[f] THEN kept[f] ELSE best
  BY DEF KeptBy
<1>2. best \in left \cup {Missing} /\ fits(best)
  BY BestLeft
<1> HIDE DEF best
<1>3. CASE \E c \in left : c >= kept[f]
  <2>1. k = kept[f]
    BY <1>1, <1>3
  <2>2. kept[f] \in Int /\ kept[f] <= kept[f]
    <3>1. kept[f] \in Int
      BY <1>0, ContentsAre
    <3>2. QED
      BY <3>1
  <2>3. \E r \in roles : d[path[r]][f] >= kept[f]
    BY <1>3
  <2>4. QED
    BY <2>1, <2>2, <2>3, <1>0
<1>4. CASE ~\E c \in left : c >= kept[f]
  <2>1. k = best
    BY <1>1, <1>4
  <2>2. k \in Contents
    BY <2>1, <1>0, <1>2, ContentsAre
  <2>3. CASE k = Missing
    <3>1. k <= kept[f]
      BY <2>3, <1>0, ConstantsOK DEF Contents, Missing
    <3>2. QED
      BY <3>1, <2>2, <2>3, <1>4
  <2>4. CASE k \in left
    <3>0. k \in Int /\ kept[f] \in Int /\ ~(k >= kept[f])
      BY <2>4, <2>2, <1>0, <1>4, ContentsAre
    <3>1. k <= kept[f] /\ k >= k
      BY <3>0
    <3>2. QED
      BY <3>1, <2>1, <2>2, <2>4, <1>2, <1>4
  <2>5. QED
    BY <2>1, <2>3, <2>4, <1>2
<1>5. QED
  BY <1>3, <1>4

\* So it is typed.
LEMMA KeptType ==
    ASSUME TypeOK, NEW roles \in SUBSET Roles, NEW d \in [Paths -> [Files -> Contents]]
    PROVE  KeptBy(roles, d) \in [Files -> Contents]
<1>1. \A f \in Files : KeptBy(roles, d)[f] \in Contents
  BY KeptFacts
<1>2. QED
  BY <1>1 DEF KeptBy

-----------------------------------------------------------------------------
\* A step that keeps every row of the table a row.
KeepsRows ==
    /\ queue' \in [RowIds -> Row \cup {Absent}]
    /\ \A i \in RowIds : queue[i] \in Row => queue'[i] \in Row

\* A dedup insertion keeps the table typed and the rows that are there.
LEMMA EnqueueKeeps ==
    ASSUME TypeOK, NEW f \in Files, NEW a \in Actions, Enqueue(f, a)
    PROVE  KeepsRows
<1>1. CASE UNCHANGED queue
  BY <1>1 DEF KeepsRows, TypeOK
<1>2. CASE \E i \in Free :
             queue' = [queue EXCEPT ![i] = [file |-> f, action |-> a, status |-> "pending"]]
  <2>1. PICK i \in Free :
          queue' = [queue EXCEPT ![i] = [file |-> f, action |-> a, status |-> "pending"]]
    BY <1>2
  <2>2. [file |-> f, action |-> a, status |-> "pending"] \in Row
    BY DEF Row
  <2>3. QED
    BY <2>1, <2>2 DEF KeepsRows, TypeOK, Free
<1>3. QED
  BY <1>1, <1>2 DEF Enqueue

\* Failing a pair's rows keeps them in the table.
LEMMA FailLiveKeeps == ASSUME TypeOK, FailLiveRows PROVE KeepsRows
<1>1. ASSUME NEW i \in Live PROVE [queue[i] EXCEPT !.status = "failed"] \in Row
  <2>1. queue[i] \in Row \cup {Absent} /\ queue[i].status \in {"pending", "in_progress"}
    BY DEF Live, TypeOK
  <2>2. queue[i] \in Row
    BY <2>1 DEF Absent
  <2>3. QED
    BY <2>2, StatusChange
<1>2. QED
  BY <1>1 DEF FailLiveRows, KeepsRows, TypeOK

\* So does putting rows back to pending.
LEMMA RequeueKeeps == ASSUME TypeOK, Requeue PROVE KeepsRows
<1>1. ASSUME NEW i \in RowIds, queue[i].status = "in_progress"
      PROVE  [queue[i] EXCEPT !.status = "pending"] \in Row
  <2>1. queue[i] \in Row \cup {Absent}
    BY DEF TypeOK
  <2>2. queue[i] \in Row
    BY <1>1, <2>1 DEF Absent
  <2>3. QED
    BY <2>2, StatusChange
<1>2. QED
  BY <1>1 DEF Requeue, KeepsRows, TypeOK

\* So does a new status of one row.
LEMMA StatusKeeps ==
    ASSUME IInv, wpc \in {"loaded", "broken"}, NEW s \in {"in_progress", "failed"},
           queue' = [queue EXCEPT ![item].status = s]
    PROVE  KeepsRows
<1>1. item \in RowIds /\ queue[item] \in Row
  BY DEF IInv, WorkerOK
<1>2. [queue[item] EXCEPT !.status = s] \in Row
  BY <1>1, StatusChange
<1>3. queue' = [queue EXCEPT ![item] = [queue[item] EXCEPT !.status = s]]
  OBVIOUS
<1>4. QED
  BY <1>1, <1>2, <1>3 DEF KeepsRows, IInv, TypeOK

\* Where the worker stays what it is, its rows stay rows.
LEMMA WorkerStays == WorkerOK /\ TypeOK /\ UNCHANGED workerVars /\ KeepsRows => WorkerOK'
  BY DEF WorkerOK, TypeOK, workerVars, KeepsRows
-----------------------------------------------------------------------------
\* Every initial state is typed and the worker's hands are empty.
LEMMA TypeInit == Init => IInv
<1> SUFFICES ASSUME Init PROVE IInv
  OBVIOUS
<1> USE ConstantsOK, ContentsAre DEF Init
<1>1. slot \in [Roles -> States] /\ active \in Roles /\ path \in [Roles -> Paths]
  BY DEF States, Roles
<1>2. /\ avail \in [Paths -> BOOLEAN] /\ marker \in [Paths -> BOOLEAN]
      /\ disk \in [Paths -> [Files -> Contents]]
  OBVIOUS
<1>3. snap \in [slot : [Roles -> States], active : Roles, path : [Roles -> Paths],
                sum : Contents, file : Files \cup {NoFile}, action : Actions]
  BY DEF NoSnap, States, Roles, Actions
<1>4. Cardinality(lost) = 0 /\ lost \subseteq Paths
  BY FS_EmptySet
<1>5. wpc \in Locations /\ version \in 1..MaxVersion /\ crashes \in 0..MaxCrashes
  BY DEF Locations
<1>6. TypeOK
  BY <1>1, <1>2, <1>3, <1>4, <1>5 DEF TypeOK
<1>7. QED
  BY <1>6 DEF IInv, WorkerOK

-----------------------------------------------------------------------------
\* So does leaving the table alone.
LEMMA UnchangedKeeps == TypeOK /\ UNCHANGED queue => KeepsRows
  BY DEF TypeOK, KeepsRows

\* The handlers of drive.rs keep the invariant.
LEMMA RequestSteps == IInv /\ (Requests \/ Queueing) => IInv'
<1> SUFFICES ASSUME IInv, Requests \/ Queueing PROVE IInv'
  OBVIOUS
<1> USE DEF IInv, pairVars, driveVars, fileVars, ghostVars, boundVars
<1>1. ASSUME NEW r \in Roles, MarkQuiescing(r) \/ CancelQuiescing(r) PROVE IInv'
  <2>1. slot' \in [Roles -> States]
    <3>1. slot \in [Roles -> States] /\ {"active", "quiescing"} \subseteq States
      BY DEF TypeOK, States
    <3>2. PICK s \in {"active", "quiescing"} : slot' = [slot EXCEPT ![r] = s]
      BY <1>1 DEF MarkQuiescing, CancelQuiescing
    <3> QED
      BY <3>1, <3>2
  <2>2. UNCHANGED <<active, path, driveVars, fileVars, queue, owing, workerVars, ghostVars, boundVars>>
    BY <1>1 DEF MarkQuiescing, CancelQuiescing
  <2>3. TypeOK'
    BY <2>1, <2>2 DEF TypeOK, workerVars
  <2>4. QED
    BY <2>2, <2>3, UnchangedKeeps, WorkerStays
<1>2. ASSUME NEW r \in Roles, ConfirmFailure(r) \/ (r = active /\ EmergencyFailover) PROVE IInv'
  <2>1. GiveUp(r) /\ UNCHANGED <<path, driveVars, sum, owing, workerVars, ghostVars, boundVars>>
    BY <1>2 DEF ConfirmFailure, EmergencyFailover
  <2>2. slot' \in [Roles -> States] /\ active' \in Roles /\ mirrored' \in [Files -> BOOLEAN]
    BY <2>1, OtherIs DEF GiveUp, TypeOK, States
  <2>3. KeepsRows
    BY <2>1, FailLiveKeeps DEF GiveUp
  <2>4. TypeOK'
    BY <2>1, <2>2, <2>3 DEF TypeOK, workerVars, KeepsRows
  <2>5. QED
    BY <2>1, <2>3, <2>4, WorkerStays
<1>3. ASSUME NEW r \in Roles, NEW p \in Paths, AssignReplacement(r, p) PROVE IInv'
  <2>1. kept' \in [Files -> Contents]
    BY <1>3, KeptType, OtherIs DEF AssignReplacement, TypeOK
  <2>2. /\ slot' \in [Roles -> States] /\ path' \in [Roles -> Paths]
        /\ marker' \in [Paths -> BOOLEAN] /\ owing' \in [Roles -> SUBSET Files]
    BY <1>3 DEF AssignReplacement, TypeOK, States
  <2>3. UNCHANGED <<active, avail, disk, fileVars, queue, workerVars, version, boundVars>>
    BY <1>3 DEF AssignReplacement
  <2>4. TypeOK'
    BY <2>1, <2>2, <2>3 DEF TypeOK, workerVars
  <2>5. QED
    BY <2>3, <2>4, UnchangedKeeps, WorkerStays
<1>4. ASSUME NEW r \in Roles, NEW f \in Files, QueueRebuild(r, f) PROVE IInv'
  <2>1. KeepsRows
    BY <1>4, EnqueueKeeps DEF QueueRebuild, RebuildAction, Actions
  <2>2. owing' \in [Roles -> SUBSET Files]
    BY <1>4 DEF QueueRebuild, TypeOK
  <2>3. UNCHANGED <<pairVars, driveVars, fileVars, workerVars, ghostVars, boundVars>>
    BY <1>4 DEF QueueRebuild
  <2>4. TypeOK'
    BY <2>1, <2>2, <2>3 DEF TypeOK, workerVars, KeepsRows
  <2>5. QED
    BY <2>1, <2>3, <2>4, WorkerStays
<1>5. active \in Roles
  BY DEF TypeOK
<1>6. QED
  BY <1>1, <1>2, <1>3, <1>4, <1>5 DEF Requests, MarkRequest, CancelRequest, ConfirmRequest, AssignRequest,
                 FailoverRequest, ReplaceCommand, Queueing

\* Users, scans, lost drives and crashes keep the invariant.
LEMMA EnvironmentSteps == IInv /\ Environment => IInv'
<1> SUFFICES ASSUME IInv, Environment PROVE IInv'
  OBVIOUS
<1> USE DEF IInv, pairVars, driveVars, fileVars, ghostVars, boundVars
<1>1. ASSUME NEW f \in Files, Edit(f) PROVE IInv'
  <2>1. version' \in 1..MaxVersion /\ version' \in Contents
    <3>1. version < MaxVersion /\ version' = version + 1
      BY <1>1 DEF Edit
    <3>2. version \in 1..MaxVersion /\ MaxVersion \in Nat
      BY ConstantsOK DEF TypeOK
    <3>3. version' \in 1..MaxVersion
      BY <3>1, <3>2
    <3>4. QED
      BY <3>2, <3>3 DEF Contents, Missing
  <2>2. disk' \in [Paths -> [Files -> Contents]] /\ kept' \in [Files -> Contents]
    BY <1>1, <2>1 DEF Edit, TypeOK
  <2>3. UNCHANGED <<pairVars, avail, marker, fileVars, queue, owing, workerVars, boundVars>>
    BY <1>1 DEF Edit
  <2>4. TypeOK'
    BY <2>1, <2>2, <2>3 DEF TypeOK, workerVars
  <2>5. QED
    BY <2>3, <2>4, UnchangedKeeps, WorkerStays
<1>2. ASSUME NEW f \in Files, ScanFile(f) PROVE IInv'
  <2>1. path[active] \in Paths
    BY DEF TypeOK
  <2>2. disk[path[active]][f] \in Contents
    BY <2>1 DEF TypeOK
  <2>3. KeepsRows
    BY <1>2, UnchangedKeeps, EnqueueKeeps DEF ScanFile, Actions
  <2>4. sum' \in [Files -> Contents] /\ mirrored' \in [Files -> BOOLEAN]
    BY <1>2, <2>2 DEF ScanFile, TypeOK
  <2>5. UNCHANGED <<pairVars, driveVars, owing, workerVars, ghostVars, boundVars>>
    BY <1>2 DEF ScanFile
  <2>6. TypeOK'
    BY <2>3, <2>4, <2>5 DEF TypeOK, workerVars, KeepsRows
  <2>7. QED
    BY <2>3, <2>5, <2>6, WorkerStays
<1>3. ASSUME NEW p \in Paths, LoseDrive(p) PROVE IInv'
  <2>1. disk' \in [Paths -> [Files -> Contents]]
    BY <1>3, ContentsAre DEF LoseDrive, TypeOK
  <2>2. kept' \in [Files -> Contents]
    <3>1. kept' = KeptBy(Roles, disk')
      BY <1>3 DEF LoseDrive
    <3>2. QED
      BY <2>1, <3>1, KeptType
  <2>3. lost' \subseteq Paths /\ Cardinality(lost') <= MaxLosses
    <3>1. IsFiniteSet(lost)
      BY ConstantsOK, FS_Subset DEF TypeOK
    <3>2. Cardinality(lost \cup {p}) = Cardinality(lost) + 1
      BY <1>3, <3>1, FS_AddElement DEF LoseDrive
    <3>3. Cardinality(lost) \in Nat
      BY <3>1, FS_CardinalityType
    <3>4. QED
      BY <1>3, <3>2, <3>3, ConstantsOK DEF LoseDrive, TypeOK
  <2>4. avail' \in [Paths -> BOOLEAN] /\ marker' \in [Paths -> BOOLEAN]
    BY <1>3 DEF LoseDrive, TypeOK
  <2>5. wpc' \in Locations /\ (wpc' = wpc \/ (wpc = "copying" /\ wpc' = "broken"))
    <3>1. wpc' = wpc \/ (wpc = "copying" /\ wpc' = "broken")
      BY <1>3 DEF LoseDrive
    <3>2. wpc \in Locations /\ "broken" \in Locations
      BY DEF TypeOK, Locations
    <3>3. QED
      BY <3>1, <3>2
  <2>6. UNCHANGED <<pairVars, fileVars, queue, owing, batch, item, snap, begun, version, crashes>>
    BY <1>3 DEF LoseDrive
  <2>7. TypeOK'
    BY <2>1, <2>2, <2>3, <2>4, <2>5, <2>6 DEF TypeOK
  <2>8. WorkerOK'
    BY <2>5, <2>6 DEF WorkerOK
  <2>9. QED
    BY <2>7, <2>8
<1>4. ASSUME Crash PROVE IInv'
  <2>1. NoSnap \in [slot : [Roles -> States], active : Roles, path : [Roles -> Paths],
                    sum : Contents, file : Files \cup {NoFile}, action : Actions]
    BY ConstantsOK, ContentsAre DEF NoSnap, States, Roles, Actions
  <2>2. crashes' \in 0..MaxCrashes
    BY <1>4, ConstantsOK DEF Crash, TypeOK
  <2>3. owing' \in [Roles -> SUBSET Files]
    BY <1>4 DEF Crash
  <2>4. TypeOK'
    BY <1>4, <2>1, <2>2, <2>3, ContentsAre DEF Crash, TypeOK, Locations
  <2>5. QED
    BY <1>4, <2>4 DEF Crash, WorkerOK
<1>5. QED
  BY <1>1, <1>2, <1>3, <1>4 DEF Environment


\* The pair a worker has read, and the two roots it copies between.
LEMMA SnapTyped ==
    ASSUME TypeOK
    PROVE  /\ snap.active \in Roles /\ snap.path \in [Roles -> Paths]
           /\ SourceRole \in Roles /\ Source \in Paths /\ Target \in Paths
<1>1. /\ snap.active \in Roles /\ snap.path \in [Roles -> Paths]
      /\ snap.action \in {"mirror", "restore_master", "restore_mirror"}
  BY DEF TypeOK, Actions
<1>2. SourceRole \in Roles
  BY <1>1 DEF SourceRole, Roles
<1>3. QED
  BY <1>1, <1>2, OtherIs DEF Source, Target

\* A worker that has read nothing is typed.
LEMMA NoSnapTyped ==
    NoSnap \in [slot : [Roles -> States], active : Roles, path : [Roles -> Paths],
                sum : Contents, file : Files \cup {NoFile}, action : Actions]
  BY ConstantsOK, ContentsAre DEF NoSnap, States, Roles, Actions

\* The steps of process_item and of its copies keep the invariant.
LEMMA WorkerSteps == IInv /\ Worker => IInv'
<1> SUFFICES ASSUME IInv, Worker PROVE IInv'
  OBVIOUS
<1> USE DEF IInv, pairVars, driveVars, fileVars, ghostVars, boundVars
<1>1. CASE Requeue
  <2>1. KeepsRows
    BY <1>1, RequeueKeeps
  <2>2. UNCHANGED <<pairVars, driveVars, fileVars, owing, workerVars, ghostVars, boundVars>>
    BY <1>1 DEF Requeue
  <2>3. TypeOK'
    BY <2>1, <2>2 DEF TypeOK, workerVars, KeepsRows
  <2>4. QED
    BY <2>1, <2>2, <2>3, WorkerStays
<1>2. CASE FetchPage
  <2>1. UNCHANGED <<pairVars, driveVars, fileVars, queue, owing, wpc, item, snap, begun, ghostVars, boundVars>>
    BY <1>2 DEF FetchPage
  <2>2. batch' \subseteq RowIds
    BY <1>2 DEF FetchPage
  <2>3. \A i \in batch' : queue[i] \in Row
    BY <1>2 DEF FetchPage, TypeOK, Absent
  <2>4. TypeOK'
    BY <2>1, <2>2 DEF TypeOK
  <2>5. QED
    BY <2>1, <2>2, <2>3, <2>4, ConstantsOK, <1>2 DEF FetchPage, WorkerOK
<1>3. ASSUME NEW i \in RowIds, Load(i) PROVE IInv'
  <2>1. queue[i] \in Row /\ batch' = batch \ {i} /\ i \in batch
    BY <1>3 DEF Load, WorkerOK
  <2>2. /\ queue[i].file \in Files /\ queue[i].action \in Actions
        /\ sum[queue[i].file] \in Contents
    BY <2>1 DEF Row, TypeOK
  <2>3. UNCHANGED <<pairVars, driveVars, fileVars, queue, owing, begun, ghostVars, boundVars>>
    BY <1>3 DEF Load
  <2>4. CASE Quiescing
    <3>1. UNCHANGED <<wpc, item, snap>>
      BY <1>3, <2>4 DEF Load
    <3>2. TypeOK'
      BY <2>1, <2>3, <3>1 DEF TypeOK
    <3>3. QED
      BY <2>1, <2>3, <3>1, <3>2 DEF WorkerOK
  <2>5. CASE ~Quiescing
    <3>1. /\ wpc' = "loaded" /\ item' = i
          /\ snap' = [slot |-> slot, active |-> active, path |-> path,
                      sum |-> sum[queue[i].file],
                      file |-> queue[i].file, action |-> queue[i].action]
      BY <1>3, <2>5 DEF Load
    <3>2. snap' \in [slot : [Roles -> States], active : Roles, path : [Roles -> Paths],
                     sum : Contents, file : Files \cup {NoFile}, action : Actions]
      BY <2>2, <3>1 DEF TypeOK
    <3>3. TypeOK'
      BY <2>1, <2>3, <3>1, <3>2 DEF TypeOK, Locations
    <3>4. WorkerOK'
      BY <2>1, <2>2, <2>3, <3>1 DEF WorkerOK
    <3>5. QED
      BY <3>3, <3>4
  <2>6. QED
    BY <2>4, <2>5
<1>4. CASE MarkInProgress
  <2>1. KeepsRows
    BY <1>4, StatusKeeps DEF MarkInProgress
  <2>2. /\ wpc = "loaded" /\ wpc' = "marked"
        /\ UNCHANGED <<pairVars, driveVars, fileVars, owing, batch, item, snap, begun, ghostVars, boundVars>>
    BY <1>4 DEF MarkInProgress
  <2>3. TypeOK'
    BY <2>1, <2>2 DEF TypeOK, KeepsRows, Locations
  <2>4. WorkerOK'
    BY <2>1, <2>2 DEF WorkerOK, KeepsRows, TypeOK
  <2>5. QED
    BY <2>3, <2>4
<1>5. CASE BeginCopy
  <2>1. /\ wpc = "marked" /\ wpc' = "copying"
        /\ UNCHANGED <<pairVars, fileVars, queue, owing, batch, item, snap, ghostVars, boundVars>>
    BY <1>5 DEF BeginCopy
  <2>2. begun' \in Contents
    <3>1. snap.file \in Files
      BY <2>1 DEF WorkerOK
    <3>2. QED
      BY <1>5, <3>1, SnapTyped DEF BeginCopy, TypeOK
  <2>3. marker' \in [Paths -> BOOLEAN] /\ avail' \in [Paths -> BOOLEAN]
    BY <1>5 DEF BeginCopy, SetMarkers, TypeOK
  <2>4. disk' \in [Paths -> [Files -> Contents]]
    BY <1>5, ContentsAre DEF BeginCopy, TypeOK
  <2>5. TypeOK'
    BY <2>1, <2>2, <2>3, <2>4 DEF TypeOK, Locations
  <2>6. WorkerOK'
    BY <2>1 DEF WorkerOK
  <2>7. QED
    BY <2>5, <2>6
<1>6. CASE RefuseCopy
  <2>1. /\ wpc = "marked" /\ wpc' = "broken"
        /\ UNCHANGED <<pairVars, avail, disk, fileVars, queue, owing, batch, item, snap, begun, ghostVars, boundVars>>
    BY <1>6 DEF RefuseCopy
  <2>2. marker' \in [Paths -> BOOLEAN]
    BY <1>6 DEF RefuseCopy, SetMarkers, TypeOK
  <2>3. TypeOK'
    BY <2>1, <2>2 DEF TypeOK, Locations
  <2>4. WorkerOK'
    BY <2>1 DEF WorkerOK
  <2>5. QED
    BY <2>3, <2>4
<1>7. ASSUME NEW c \in Contents, EndCopy(c) PROVE IInv'
  <2>1. /\ wpc = "copying" /\ wpc' \in {"copied", "broken"}
        /\ UNCHANGED <<pairVars, avail, marker, fileVars, queue, owing, batch, item, snap, begun, ghostVars, boundVars>>
    BY <1>7 DEF EndCopy
  <2>2. disk' \in [Paths -> [Files -> Contents]]
    BY <1>7, ContentsAre DEF EndCopy, TypeOK
  <2>3. TypeOK'
    BY <2>1, <2>2 DEF TypeOK, Locations
  <2>4. WorkerOK'
    BY <2>1 DEF WorkerOK
  <2>5. QED
    BY <2>3, <2>4
<1>8. CASE SettleCompleted
  <2>1. /\ wpc = "copied" /\ wpc' = "finalize" /\ item' = NoRow /\ begun' = Missing
        /\ UNCHANGED <<pairVars, driveVars, sum, owing, batch, snap, ghostVars, boundVars>>
    BY <1>8 DEF SettleCompleted
  <2>2. queue' \in [RowIds -> Row \cup {Absent}] /\ mirrored' \in [Files -> BOOLEAN]
    BY <1>8 DEF SettleCompleted, TypeOK
  <2>3. \A i \in batch : i # item /\ queue'[i] = queue[i]
    BY <1>8 DEF SettleCompleted, WorkerOK, TypeOK
  <2>4. TypeOK'
    BY <2>1, <2>2, ContentsAre DEF TypeOK, Locations
  <2>5. WorkerOK'
    BY <2>1, <2>3, ConstantsOK DEF WorkerOK, TypeOK
  <2>6. QED
    BY <2>4, <2>5
<1>9. CASE SettleFailed
  <2>1. KeepsRows
    BY <1>9, StatusKeeps DEF SettleFailed
  <2>2. /\ wpc' = "idle" /\ item' = NoRow /\ snap' = NoSnap /\ begun' = Missing
        /\ UNCHANGED <<pairVars, driveVars, fileVars, owing, batch, ghostVars, boundVars>>
    BY <1>9 DEF SettleFailed
  <2>3. TypeOK'
    BY <2>1, <2>2, NoSnapTyped, ContentsAre DEF TypeOK, KeepsRows, Locations
  <2>4. WorkerOK'
    BY <1>9, <2>1, <2>2, ConstantsOK DEF SettleFailed, WorkerOK, KeepsRows, TypeOK
  <2>5. QED
    BY <2>3, <2>4
<1>10. CASE FinalizeRebuild
  <2>1. /\ wpc' = "idle" /\ snap' = NoSnap
        /\ UNCHANGED <<path, driveVars, sum, queue, owing, batch, item, begun, ghostVars, boundVars>>
    BY <1>10 DEF FinalizeRebuild
  <2>2. slot' \in [Roles -> States] /\ active' \in Roles /\ mirrored' \in [Files -> BOOLEAN]
    BY <1>10 DEF FinalizeRebuild, TypeOK, States
  <2>3. TypeOK'
    BY <2>1, <2>2, NoSnapTyped DEF TypeOK, Locations
  <2>4. WorkerOK'
    BY <1>10, <2>1, ConstantsOK DEF FinalizeRebuild, WorkerOK, TypeOK
  <2>5. QED
    BY <2>3, <2>4
<1>11. QED
  BY <1>1, <1>2, <1>3, <1>4, <1>5, <1>6, <1>7, <1>8, <1>9, <1>10 DEF Worker

-----------------------------------------------------------------------------
\* Stuttering keeps the invariant.
LEMMA StutterSteps == IInv /\ UNCHANGED vars => IInv'
<1> SUFFICES ASSUME IInv, UNCHANGED vars PROVE IInv'
  OBVIOUS
<1> USE DEF IInv, vars, pairVars, driveVars, fileVars, workerVars, ghostVars, boundVars
<1>1. TypeOK'
  BY DEF TypeOK
<1>2. WorkerOK'
  BY DEF WorkerOK
<1>3. QED
  BY <1>1, <1>2

\* The invariant holds throughout.
LEMMA IInvHolds == Spec => []IInv
<1>1. Init => IInv
  BY TypeInit
<1>2. IInv /\ [Next]_vars => IInv'
  BY RequestSteps, EnvironmentSteps, WorkerSteps, StutterSteps DEF Next
<1>3. QED
  BY <1>1, <1>2, PTL DEF Spec

\* The pair, the drives, the rows and the worker's copies of them stay typed
\* whatever the handlers, the worker, users, losses and crashes do.
THEOREM TypeCorrect == Spec => []TypeOK
  BY IInvHolds, PTL DEF IInv

\* process_item never works on a row that is gone, or on one that its page still
\* holds: what it marks and settles is the row it read.
THEOREM WorkerHoldsRow == Spec => []WorkerOK
  BY IInvHolds, PTL DEF IInv
-----------------------------------------------------------------------------
\* The requests move a slot along the lifecycle.
LEMMA RequestsMap == IInv /\ Requests => Lifecycle!Next \/ UNCHANGED <<slot, active>>
<1> SUFFICES ASSUME IInv, Requests PROVE Lifecycle!Next \/ UNCHANGED <<slot, active>>
  OBVIOUS
<1> USE DEF Lifecycle!Next, Lifecycle!Roles, Lifecycle!Other, Lifecycle!Move, Lifecycle!HandOver,
            Roles, Other
<1>1. ASSUME NEW r \in Roles, MarkQuiescing(r) PROVE Lifecycle!Quiesce(r)
  BY <1>1 DEF MarkQuiescing, Lifecycle!Quiesce
<1>2. ASSUME NEW r \in Roles, CancelQuiescing(r) PROVE Lifecycle!Cancel(r)
  BY <1>2 DEF CancelQuiescing, Lifecycle!Cancel
<1>3. ASSUME NEW r \in Roles, ConfirmFailure(r) PROVE Lifecycle!Fail(r)
  BY <1>3 DEF ConfirmFailure, GiveUp, Lifecycle!Fail
<1>4. ASSUME NEW r \in Roles, NEW p \in Paths, AssignReplacement(r, p) PROVE Lifecycle!Replace(r)
  BY <1>4 DEF AssignReplacement, Lifecycle!Replace
<1>5. ASSUME EmergencyFailover PROVE Lifecycle!FailOver
  <2>1. active \in Roles
    BY DEF IInv, TypeOK
  <2>2. slot[active] = "active" /\ slot[Other(active)] = "active"
    BY <1>5, <2>1 DEF EmergencyFailover, FailoverDue
  <2>3. /\ slot' = [slot EXCEPT ![active] = "failed"]
        /\ active' = Other(active)
    BY <1>5 DEF EmergencyFailover, GiveUp
  <2>4. QED
    BY <2>2, <2>3 DEF Lifecycle!FailOver
<1>6. QED
  BY <1>1, <1>2, <1>3, <1>4, <1>5 DEF Requests, MarkRequest, CancelRequest, ConfirmRequest, AssignRequest,
                 FailoverRequest, ReplaceCommand

\* Of the worker's steps only the finalizer moves a slot, and only to finish.
LEMMA WorkerMaps == IInv /\ Worker => Lifecycle!Next \/ UNCHANGED <<slot, active>>
<1> SUFFICES ASSUME IInv, Worker PROVE Lifecycle!Next \/ UNCHANGED <<slot, active>>
  OBVIOUS
<1>1. ASSUME NEW r \in Roles, Finalizable(r), slot' = [slot EXCEPT ![r] = "active"],
             active' = IF r = "primary" THEN r ELSE active
      PROVE  Lifecycle!Rebuilt(r)
  BY <1>1 DEF Finalizable, Lifecycle!Rebuilt, Lifecycle!Move
<1>2. CASE FinalizeRebuild
  BY <1>1, <1>2 DEF FinalizeRebuild, Lifecycle!Next, Lifecycle!Roles, Roles
<1>3. ASSUME NEW i \in RowIds, Load(i) PROVE UNCHANGED <<slot, active>>
  BY <1>3 DEF Load, pairVars
<1>4. ASSUME NEW c \in Contents, EndCopy(c) PROVE UNCHANGED <<slot, active>>
  BY <1>4 DEF EndCopy, pairVars
<1>5. CASE Requeue \/ FetchPage \/ MarkInProgress
  BY <1>5 DEF Requeue, FetchPage, MarkInProgress, pairVars
<1>6. CASE BeginCopy \/ RefuseCopy
  BY <1>6 DEF BeginCopy, RefuseCopy, pairVars
<1>7. CASE SettleCompleted \/ SettleFailed
  BY <1>7 DEF SettleCompleted, SettleFailed, pairVars
<1>8. QED
  BY <1>2, <1>3, <1>4, <1>5, <1>6, <1>7 DEF Worker

\* Nothing else touches a slot or the active role.
LEMMA OthersMap == Queueing \/ Environment \/ UNCHANGED vars => UNCHANGED <<slot, active>>
  BY DEF Queueing, QueueRebuild, Environment, Edit, ScanFile, LoseDrive, Crash, vars, pairVars

\* The two slots of a pair only ever move active -> quiescing -> failed ->
\* rebuilding -> active, a failed active slot hands over, the active role moves
\* unasked to a healthy standby only: the handlers of drive.rs and the finalizer
\* that process_item calls implement DriveLifecycle.
THEOREM LifecycleKept == Spec => LifecycleSpec
<1>1. Init => Lifecycle!Init
  BY DEF Init, Lifecycle!Init, Lifecycle!Roles, Roles
<1>2. IInv /\ [Next]_vars => [Lifecycle!Next]_<<slot, active>>
  BY RequestsMap, WorkerMaps, OthersMap DEF Next
<1>3. QED
  BY <1>1, <1>2, IInvHolds, PTL DEF Spec, LifecycleSpec, Lifecycle!Spec, Lifecycle!vars
-----------------------------------------------------------------------------
(* Versions: no copy that counts is lost, and a rebuild is complete *)

\* Requests fall between the worker's items, one drive is given up at a time
\* and users edit a healthy pair only.
Orderly == Allowed \subseteq {"scan during copy"}

\* A role's drive is not behind the kept version, or was lost with the file.
Holds(r, f) == disk[path[r]][f] >= kept[f]
Good(r, f) == Holds(r, f) \/ (disk[path[r]][f] = Missing /\ path[r] \in lost)

\* One slot at most is not active, and the other one is in charge then.
SlotsOK ==
    /\ path["primary"] # path["secondary"]
    /\ \A r \in Roles : slot[r] # "active" => slot[Other(r)] = "active"
    /\ \A r \in Roles : slot[r] \in {"failed", "rebuilding"} => active = Other(r)

\* Only a lost drive is away, and the drive in charge is behind no other.
DrivesOK ==
    /\ \A f \in Files : kept[f] = Missing \/ Whole(kept[f])
    /\ \A p \in Paths : ~avail[p] => p \in lost /\ \A f \in Files : disk[p][f] = Missing
    /\ NoVersionLost
    /\ (\A r \in Roles : slot[r] # "failed") => \A f \in Files : Good(active, f)

\* A rebuild of the file is still to be queued or has its row.
JobOf(i, r, f) == queue[i] # Absent /\ queue[i].action = RebuildAction(r) /\ queue[i].file = f
Owed(r, f) == f \in owing[r] \/ \E i \in RowIds : JobOf(i, r, f)

\* The rows the worker holds.
Held == batch \cup ({item} \ {NoRow})

\* Rebuild rows are those of a slot that is rebuilding, and what was queued
\* since a drive was given up is behind all that the worker holds.
RowsOK ==
    /\ \A r \in Roles : owing[r] # {} => slot[r] = "rebuilding"
    /\ \A r \in Roles, f \in Files, i \in RowIds : JobOf(i, r, f) => slot[r] = "rebuilding"
    /\ \A j \in batch : item # NoRow => item < j
    /\ (\E r \in Roles : slot[r] \in {"failed", "rebuilding"}) =>
          \A i \in Live \ Held, j \in Held : j < i

\* What process_item has read of the row and the pair that still counts.
ItemOK ==
    /\ wpc \notin {"idle", "finalize"} =>
          queue[item].file = snap.file /\ queue[item].action = snap.action
    /\ wpc = "marked" => item \in Live

SnapOK ==
    wpc # "idle" => \A r \in Roles :
       /\ snap.action = RebuildAction(r) => snap.slot[r] = "rebuilding"
       /\ snap.slot[r] = "rebuilding" =>
             slot[r] = "rebuilding" /\ snap.path = path /\ snap.active = active /\ owing[r] = {}
       /\ slot[r] = "rebuilding" /\ snap.slot[r] # "rebuilding" =>
             \A f \in Files : Owed(r, f)

FreshOK ==
    wpc \in {"loaded", "marked"} =>
       /\ snap.path = path /\ snap.active = active
       /\ \A r \in Roles : slot[r] \in {"failed", "rebuilding"} => snap.slot[r] = slot[r]

\* A copy under way truncates no last copy, of the old pair or of the new one.
CopyOK ==
    wpc = "copying" =>
       /\ Source # Target
       /\ avail[Target]
       /\ disk[Target][snap.file] = Torn
       /\ (\A r \in Roles : slot[r] \in {"active", "quiescing"}) =>
             snap.path = path /\ snap.active = active
       /\ \A r \in Roles : Target = path[r] => Holds(Other(r), snap.file)
       /\ \A r \in Roles : slot[r] = "failed" => snap.path = path
       /\ \A r \in Roles : slot[r] = "rebuilding" /\ Target = path[Other(r)] =>
             kept[snap.file] = Missing
       /\ \A r \in Roles : snap.slot[r] = "rebuilding" => begun = disk[Source][snap.file]

CopiedOK ==
    wpc = "copied" => \A r \in Roles : snap.slot[r] = "rebuilding" => Good(r, snap.file)

\* The row of a mirror copy that truncated a file of the new drive: it is the
\* first one, so no rebuild is finished before it is copied again.
Redo(i, f) ==
    /\ i \in Live /\ queue[i].action = "mirror" /\ queue[i].file = f
    /\ \A j \in Live : i <= j
    /\ \/ wpc = "idle" /\ (batch = {} \/ (i \in batch /\ \A j \in batch : i <= j))
       \/ wpc \in {"loaded", "marked", "copying"} /\ item = i

\* What a drive that is rebuilt lacks is still to come.
DebtOK ==
    \A r \in Roles, f \in Files : slot[r] = "rebuilding" =>
        Owed(r, f) \/ Good(r, f) \/ \E i \in RowIds : Redo(i, f)

\* The inductive invariant, beside IInv.
VInv == SlotsOK /\ DrivesOK /\ RowsOK /\ ItemOK /\ SnapOK /\ FreshOK /\ CopyOK /\ CopiedOK /\ DebtOK

\* A step after which a rebuild under way is owed as much as before.
KeepsDebts ==
    \A r \in Roles, f \in Files : slot[r] = "rebuilding" =>
        /\ Owed(r, f) => Owed(r, f)'
        /\ (\E i \in RowIds : Redo(i, f)) => (\E i \in RowIds : Redo(i, f)')
-----------------------------------------------------------------------------
(* What each part reads *)

LEMMA SlotsFrame == SlotsOK /\ UNCHANGED <<slot, active, path>> => SlotsOK'
  BY DEF SlotsOK

LEMMA DrivesFrame ==
    DrivesOK /\ UNCHANGED <<slot, active, path, avail, disk, kept, lost>> => DrivesOK'
  BY DEF DrivesOK, NoVersionLost, Good, Holds

LEMMA OwedFrame ==
    ASSUME NEW r \in Roles, NEW f \in Files, UNCHANGED <<owing, queue>>
    PROVE  Owed(r, f)' <=> Owed(r, f)
  BY DEF Owed, JobOf

LEMMA RowsFrame ==
    RowsOK /\ UNCHANGED <<slot, owing, queue, batch, item>> => RowsOK'
  BY DEF RowsOK, JobOf, Live, Held

LEMMA ItemFrame == ItemOK /\ UNCHANGED <<wpc, queue, item, snap>> => ItemOK'
  BY DEF ItemOK, Live

LEMMA SnapFrame ==
    SnapOK /\ UNCHANGED <<wpc, snap, slot, path, active, owing, queue>> => SnapOK'
  BY OwedFrame DEF SnapOK

LEMMA FreshFrame == FreshOK /\ UNCHANGED <<wpc, snap, slot, path, active>> => FreshOK'
  BY DEF FreshOK

LEMMA CopyFrame ==
    CopyOK /\ UNCHANGED <<wpc, snap, slot, path, active, avail, disk, kept, begun>> => CopyOK'
  BY DEF CopyOK, Source, Target, SourceRole, Holds

LEMMA CopiedFrame ==
    CopiedOK /\ UNCHANGED <<wpc, snap, path, disk, kept, lost>> => CopiedOK'
  BY DEF CopiedOK, Good, Holds

LEMMA GoodFrame ==
    ASSUME NEW r \in Roles, NEW f \in Files, UNCHANGED <<path, disk, kept, lost>>
    PROVE  Good(r, f)' <=> Good(r, f)
  BY DEF Good, Holds

LEMMA RedoFrame ==
    ASSUME NEW i \in RowIds, NEW f \in Files, UNCHANGED <<queue, wpc, batch, item>>
    PROVE  Redo(i, f)' <=> Redo(i, f)
  BY DEF Redo, Live

LEMMA DebtFrame ==
    DebtOK /\ UNCHANGED <<slot, owing, queue, path, disk, kept, lost, wpc, batch, item>> => DebtOK'
  BY OwedFrame, GoodFrame, RedoFrame DEF DebtOK
-----------------------------------------------------------------------------
(* Roles, contents and rows *)

\* The numbers contents are.
LEMMA MissingIs ==
    /\ Missing \in Int /\ Torn \in Int /\ Missing < Torn
    /\ ~Whole(Missing) /\ ~Whole(Torn)
    /\ \A c \in Contents : c \in Int /\ c >= Missing
    /\ \A c \in Contents : Whole(c) => c > Torn /\ c > Missing
  BY ConstantsOK DEF Contents, Missing, Torn, Whole

\* What the disks and the ghost hold are contents.
LEMMA DiskIs ==
    ASSUME TypeOK, NEW f \in Files
    PROVE  /\ \A p \in Paths : disk[p][f] \in Contents
           /\ kept[f] \in Contents
           /\ \A r \in Roles : path[r] \in Paths
  BY DEF TypeOK

\* No version to keep, nothing to fall behind.
LEMMA NothingKept ==
    ASSUME TypeOK, NEW r \in Roles, NEW f \in Files, kept[f] = Missing
    PROVE  Holds(r, f)
<1>1. path[r] \in Paths /\ disk[path[r]][f] \in Contents
  BY DiskIs
<1>2. QED
  BY <1>1, MissingIs DEF Holds

\* A write of one file on one drive.
LEMMA DiskWrite ==
    ASSUME TypeOK, NEW p \in Paths, NEW f \in Files, NEW c, disk' = [disk EXCEPT ![p][f] = c]
    PROVE  /\ disk'[p][f] = c
           /\ \A q \in Paths, g \in Files : q # p \/ g # f => disk'[q][g] = disk[q][g]
  BY DEF TypeOK

\* There are two roles, and each rebuild action names one.
LEMMA RolesAre ==
    /\ \A r \in Roles : Other(r) \in Roles /\ Other(r) # r /\ Other(Other(r)) = r
    /\ \A q, r \in Roles : q = r \/ q = Other(r)
    /\ \A q, r \in Roles : RebuildAction(q) = RebuildAction(r) => q = r
    /\ \A r \in Roles : RebuildAction(r) # "mirror" /\ RebuildAction(r) \in Actions
    /\ \A a \in Actions : a = "mirror" \/ \E r \in Roles : a = RebuildAction(r)
  BY DEF Roles, Other, RebuildAction, Actions

\* Where a copy reads from.
LEMMA SourceIs ==
    ASSUME TypeOK
    PROVE  /\ snap.action = "mirror" => SourceRole = snap.active
           /\ \A r \in Roles : snap.action = RebuildAction(r) => SourceRole = Other(r)
           /\ snap.action \in Actions
<1>1. snap.action \in Actions
  BY DEF TypeOK
<1>2. snap.action = "mirror" => SourceRole = snap.active
  BY DEF SourceRole
<1>3. ASSUME NEW r \in Roles, snap.action = RebuildAction(r) PROVE SourceRole = Other(r)
  <2>1. CASE r = "primary"
    BY <1>3, <2>1 DEF SourceRole, RebuildAction, Other
  <2>2. CASE r = "secondary"
    BY <1>3, <2>2 DEF SourceRole, RebuildAction, Other
  <2>3. QED
    BY <2>1, <2>2 DEF Roles
<1>4. QED
  BY <1>1, <1>2, <1>3

\* The two mount points differ.
LEMMA PathsApart == ASSUME SlotsOK, NEW r \in Roles PROVE path[r] # path[Other(r)]
  BY DEF SlotsOK, Roles, Other

\* A slot that is failed or rebuilding is the only one that is not active.
LEMMA OneDown ==
    ASSUME TypeOK, SlotsOK, NEW r \in Roles, slot[r] # "active", NEW q \in Roles, slot[q] # "active"
    PROVE  q = r
  BY RolesAre DEF SlotsOK

\* A live row is there.
LEMMA LiveIs == \A i \in Live : i \in RowIds /\ queue[i] # Absent
  BY DEF Live, Absent

\* The rows the worker holds are numbers.
LEMMA HeldIs == TypeOK => Held \subseteq RowIds /\ RowIds \subseteq Int
<1>1. RowIds \subseteq Int
  BY ConstantsOK
<1>2. TypeOK => Held \subseteq RowIds
  BY DEF TypeOK, Held
<1>3. QED
  BY <1>1, <1>2

\* A dedup insertion finds its row live, or writes a free one.
LEMMA EnqueueCases ==
    ASSUME TypeOK, NEW f \in Files, NEW a \in Actions, Enqueue(f, a)
    PROVE  \/ UNCHANGED queue /\ \E i \in Live : queue[i].file = f /\ queue[i].action = a
           \/ \E i \in Free :
                 /\ i \in RowIds /\ queue[i] = Absent
                 /\ queue'[i] = [file |-> f, action |-> a, status |-> "pending"]
                 /\ queue'[i] # Absent
                 /\ \A j \in RowIds : j # i => queue'[j] = queue[j]
<1> DEFINE row == [file |-> f, action |-> a, status |-> "pending"]
<1>1. CASE \E i \in Live : queue[i].file = f /\ queue[i].action = a
  BY <1>1 DEF Enqueue
<1>2. CASE ~\E i \in Live : queue[i].file = f /\ queue[i].action = a
  <2>1. PICK i \in Free : queue' = [queue EXCEPT ![i] = row]
    BY <1>2 DEF Enqueue
  <2>2. i \in RowIds /\ queue[i] = Absent
    <3>1. i \in Int /\ i >= i
      BY HeldIs DEF Free
    <3>2. QED
      BY <3>1 DEF Free
  <2>3. queue'[i] = row /\ \A j \in RowIds : j # i => queue'[j] = queue[j]
    BY <2>1, <2>2 DEF TypeOK
  <2>4. row # Absent
    <3>1. row.status # Absent.status
      BY DEF Absent
    <3>2. QED
      BY <3>1
  <2>5. QED
    BY <2>2, <2>3, <2>4
<1>3. QED
  BY <1>1, <1>2

\* It leaves the rows alone and puts a new one behind all others.
LEMMA EnqueueFacts ==
    ASSUME TypeOK, NEW f \in Files, NEW a \in Actions, Enqueue(f, a)
    PROVE  /\ \A i \in RowIds : queue[i] # Absent => queue'[i] = queue[i]
           /\ \A i \in RowIds : queue'[i] # queue[i] =>
                 queue'[i] = [file |-> f, action |-> a, status |-> "pending"] /\ i \in Free
  BY EnqueueCases

\* The row it is asked for is there.
LEMMA EnqueueFinds ==
    ASSUME TypeOK, NEW f \in Files, NEW a \in Actions, Enqueue(f, a)
    PROVE  \E i \in RowIds : queue'[i] # Absent /\ queue'[i].file = f /\ queue'[i].action = a
<1>1. CASE UNCHANGED queue /\ \E i \in Live : queue[i].file = f /\ queue[i].action = a
  BY <1>1, LiveIs
<1>2. CASE \E i \in Free : 
             /\ i \in RowIds /\ queue'[i] # Absent
             /\ queue'[i] = [file |-> f, action |-> a, status |-> "pending"]
  BY <1>2
<1>3. QED
  BY <1>1, <1>2, EnqueueCases

\* A free row is behind every row and all that the worker holds.
LEMMA FreeIs ==
    ASSUME TypeOK, NEW i \in Free
    PROVE  /\ \A j \in RowIds : queue[j] # Absent => j < i
           /\ \A j \in Held : j < i
<1>1. i \in RowIds /\ RowIds \subseteq Int
  BY HeldIs DEF Free
<1>2. QED
  BY <1>1 DEF Free, Held

\* What an insertion leaves of the worker's row and of the debts.
LEMMA InsertKeeps ==
    ASSUME TypeOK, NEW f \in Files, NEW a \in Actions, Enqueue(f, a), UNCHANGED <<wpc, batch, item>>
    PROVE  /\ \A i \in Live' : i \in Live \/ (i \in Free /\ queue'[i].action = a)
           /\ \A i \in Live : i \in Live' /\ queue'[i] = queue[i]
           /\ \A i \in RowIds, r \in Roles, g \in Files : JobOf(i, r, g) => JobOf(i, r, g)'
           /\ \A i \in RowIds, r \in Roles, g \in Files :
                 JobOf(i, r, g)' => JobOf(i, r, g) \/ (a = RebuildAction(r) /\ f = g)
           /\ \A i \in RowIds, g \in Files : Redo(i, g) => Redo(i, g)'
<1>1. \A i \in RowIds : queue[i] # Absent => queue'[i] = queue[i]
  BY EnqueueFacts
<1>2. \A i \in RowIds : queue'[i] # queue[i] =>
         queue'[i] = [file |-> f, action |-> a, status |-> "pending"] /\ i \in Free
  BY EnqueueFacts
<1>3. ASSUME NEW i \in Live' PROVE i \in Live \/ (i \in Free /\ queue'[i].action = a)
  BY <1>2 DEF Live
<1>4. ASSUME NEW i \in Live PROVE i \in Live' /\ queue'[i] = queue[i]
  BY <1>1, LiveIs DEF Live
<1>5. ASSUME NEW i \in RowIds, NEW r \in Roles, NEW g \in Files, JobOf(i, r, g)
      PROVE  JobOf(i, r, g)'
  BY <1>1, <1>5 DEF JobOf
<1>6. ASSUME NEW i \in RowIds, NEW r \in Roles, NEW g \in Files, JobOf(i, r, g)'
      PROVE  JobOf(i, r, g) \/ (a = RebuildAction(r) /\ f = g)
  BY <1>2, <1>6 DEF JobOf
<1>7. ASSUME NEW i \in RowIds, NEW g \in Files, Redo(i, g) PROVE Redo(i, g)'
  <2>1. i \in Live /\ queue[i] # Absent
    BY <1>7, LiveIs DEF Redo
  <2>2. \A j \in Live' : i <= j
    <3>1. ASSUME NEW j \in Free PROVE i <= j
      <4>1. i < j /\ i \in Int /\ j \in Int
        BY <2>1, FreeIs, HeldIs DEF Free, Live
      <4>2. QED
        BY <4>1
    <3>2. QED
      BY <1>3, <1>7, <3>1 DEF Redo
  <2>3. QED
    BY <1>4, <1>7, <2>1, <2>2 DEF Redo
<1>8. QED
  BY <1>3, <1>4, <1>5, <1>6, <1>7
-----------------------------------------------------------------------------
(* The requests *)

\* The requests wait for the worker, and one slot at a time is given up.
LEMMA OrderlyIs ==
    ASSUME Orderly
    PROVE  /\ "edit degraded" \notin Allowed /\ "give up both" \notin Allowed
           /\ "interleave" \notin Allowed
  BY DEF Orderly

\* While both slots are active or quiescing, no rebuild is owed and no row, no
\* reading of the worker's is of one.
LEMMA CalmIs ==
    ASSUME RowsOK, SnapOK, \A r \in Roles : slot[r] \notin {"failed", "rebuilding"}
    PROVE  /\ \A r \in Roles : owing[r] = {}
           /\ \A r \in Roles, f \in Files, i \in RowIds : ~JobOf(i, r, f)
           /\ wpc # "idle" => \A r \in Roles :
                 snap.slot[r] # "rebuilding" /\ snap.action # RebuildAction(r)
  BY DEF RowsOK, SnapOK

\* Marking a slot and cancelling it.
LEMMA QuiesceKeeps ==
    ASSUME IInv, VInv, NEW r \in Roles, NEW s \in {"active", "quiescing"},
           slot[r] \in {"active", "quiescing"}, slot[Other(r)] = "active",
           slot' = [slot EXCEPT ![r] = s],
           UNCHANGED <<active, path, avail, disk, queue, owing, workerVars, kept, lost>>
    PROVE  VInv'
<1> USE DEF workerVars
<1>1. /\ \A q \in Roles : slot[q] \in {"active", "quiescing"}
      /\ \A q \in Roles : slot'[q] \in {"active", "quiescing"}
      /\ slot'[r] = s /\ slot'[Other(r)] = "active"
  <2>1. slot'[r] = s /\ slot'[Other(r)] = "active"
    BY RolesAre DEF IInv, TypeOK
  <2>2. QED
    BY <2>1, RolesAre
<1>2. /\ \A q \in Roles : slot[q] \notin {"failed", "rebuilding"}
      /\ \A q \in Roles : slot'[q] \notin {"failed", "rebuilding"}
  BY <1>1
<1>3. /\ \A q \in Roles : owing[q] = {}
      /\ \A q \in Roles, f \in Files, i \in RowIds : ~JobOf(i, q, f)
      /\ wpc # "idle" => \A q \in Roles :
            snap.slot[q] # "rebuilding" /\ snap.action # RebuildAction(q)
  BY <1>2, CalmIs DEF VInv
<1>4. SlotsOK'
  BY <1>1, RolesAre DEF VInv, SlotsOK
<1>5. DrivesOK'
  BY <1>2 DEF VInv, DrivesOK, NoVersionLost, Good, Holds
<1>6. RowsOK'
  BY <1>2, <1>3 DEF VInv, RowsOK, JobOf, Live, Held
<1>7. ItemOK'
  BY ItemFrame DEF VInv
<1>8. SnapOK'
  BY <1>2, <1>3 DEF SnapOK
<1>9. FreshOK'
  BY <1>2 DEF VInv, FreshOK
<1>10. CopyOK'
  BY <1>1, <1>2 DEF VInv, CopyOK, Source, Target, SourceRole, Holds
<1>11. CopiedOK' /\ DebtOK'
  BY <1>2, CopiedFrame DEF VInv, DebtOK
<1>12. QED
  BY <1>4, <1>5, <1>6, <1>7, <1>8, <1>9, <1>10, <1>11 DEF VInv

\* Rows that fail stay, with their jobs, and none is live.
LEMMA FailLiveFacts ==
    ASSUME TypeOK, FailLiveRows
    PROVE  /\ Live' = {}
           /\ \A i \in RowIds, r \in Roles, f \in Files : JobOf(i, r, f)' => JobOf(i, r, f)
           /\ \A i \in RowIds : queue[i] \in Row =>
                 queue'[i].file = queue[i].file /\ queue'[i].action = queue[i].action
<1>1. \A i \in RowIds : i \notin Live => queue'[i] = queue[i]
  BY DEF FailLiveRows
<1>2. ASSUME NEW i \in Live
      PROVE  /\ queue[i] \in Row
             /\ queue'[i].status = "failed"
             /\ queue'[i].file = queue[i].file /\ queue'[i].action = queue[i].action
  <2>1. i \in RowIds /\ queue[i] \in Row
    BY LiveIs DEF TypeOK
  <2>2. queue'[i] = [queue[i] EXCEPT !.status = "failed"]
    BY <2>1 DEF FailLiveRows
  <2>3. QED
    BY <2>1, <2>2 DEF Row
<1>3. Live' = {}
  BY <1>1, <1>2 DEF Live
<1>4. ASSUME NEW i \in RowIds, NEW r \in Roles, NEW f \in Files, JobOf(i, r, f)'
      PROVE  JobOf(i, r, f)
  BY <1>1, <1>2, <1>4, AbsentIsNoRow DEF JobOf
<1>5. QED
  BY <1>1, <1>2, <1>3, <1>4

\* A slot fails, by confirmation or by failover: the worker has no reading of
\* the pair in hand that no write followed yet.
LEMMA GiveUpKeeps ==
    ASSUME IInv, VInv, NEW r \in Roles, slot[r] \in {"active", "quiescing"},
           slot[Other(r)] = "active", wpc \notin {"loaded", "marked"}, GiveUp(r),
           UNCHANGED <<path, driveVars, owing, workerVars, kept, lost>>
    PROVE  VInv'
<1> USE DEF workerVars, driveVars
<1>1. \A q \in Roles : slot[q] \in {"active", "quiescing"}
  BY RolesAre
<1>2. /\ slot'[r] = "failed" /\ slot'[Other(r)] = "active"
      /\ active' = Other(r)
  BY RolesAre DEF GiveUp, IInv, TypeOK
<1>3. /\ \A q \in Roles : owing[q] = {}
      /\ \A q \in Roles, f \in Files, i \in RowIds : ~JobOf(i, q, f)
      /\ wpc # "idle" => \A q \in Roles :
            snap.slot[q] # "rebuilding" /\ snap.action # RebuildAction(q)
  BY <1>1, CalmIs DEF VInv
<1>4. /\ Live' = {}
      /\ \A q \in Roles, f \in Files, i \in RowIds : ~JobOf(i, q, f)'
      /\ \A i \in RowIds : queue[i] \in Row =>
            queue'[i].file = queue[i].file /\ queue'[i].action = queue[i].action
  BY <1>3, FailLiveFacts DEF GiveUp, IInv
<1>5. \A q \in Roles : slot'[q] # "rebuilding"
  BY <1>2, RolesAre
<1>6. SlotsOK'
  BY <1>2, RolesAre DEF VInv, SlotsOK
<1>7. DrivesOK'
  BY <1>2 DEF VInv, DrivesOK, NoVersionLost, Holds
<1>8. RowsOK'
  BY <1>3, <1>4 DEF VInv, RowsOK, Held
<1>9. ItemOK'
  <2>1. wpc \notin {"idle", "finalize"} => item \in RowIds /\ queue[item] \in Row
    BY DEF IInv, WorkerOK
  <2>2. QED
    BY <2>1, <1>4 DEF VInv, ItemOK
<1>10. SnapOK' /\ FreshOK'
  BY <1>3, <1>5 DEF SnapOK, FreshOK
<1>11. CopyOK'
  <2>1. wpc = "copying" => snap.path = path
    BY <1>1 DEF VInv, CopyOK
  <2>2. QED
    BY <1>2, <1>5, <2>1 DEF VInv, CopyOK, Source, Target, SourceRole, Holds
<1>12. CopiedOK' /\ DebtOK'
  BY <1>5, CopiedFrame DEF VInv, DebtOK
<1>13. QED
  BY <1>6, <1>7, <1>8, <1>9, <1>10, <1>11, <1>12 DEF VInv

\* The administrator gives a spare drive to a failed slot: from now on only what
\* the other drive holds is to be kept.
LEMMA AssignKeeps ==
    ASSUME Orderly, IInv, VInv, NEW r \in Roles, NEW p \in Paths, AssignReplacement(r, p)
    PROVE  VInv'
<1> DEFINE o == Other(r)
<1>0. o \in Roles /\ o # r /\ Other(o) = r /\ path[o] \in Paths /\ TypeOK
  BY RolesAre, DiskIs DEF IInv, TypeOK
<1>1. /\ slot[r] = "failed" /\ p # path[o] /\ avail[p] /\ wpc \notin {"loaded", "marked"}
      /\ path' = [path EXCEPT ![r] = p] /\ slot' = [slot EXCEPT ![r] = "rebuilding"]
      /\ owing' = [owing EXCEPT ![r] = Files] /\ kept' = KeptBy({o}, disk)
      /\ UNCHANGED <<active, avail, disk, queue, wpc, batch, item, snap, begun, lost>>
  BY OrderlyIs DEF AssignReplacement, BetweenItems, workerVars, boundVars
<1>2. active = o /\ slot[o] = "active"
  BY <1>0, <1>1 DEF VInv, SlotsOK
<1>3. /\ path'[r] = p /\ path'[o] = path[o]
      /\ slot'[r] = "rebuilding" /\ slot'[o] = "active"
      /\ owing'[r] = Files /\ owing'[o] = owing[o]
  BY <1>0, <1>1, <1>2 DEF TypeOK
<1>4. \A q \in Roles : q = r \/ q = o
  BY RolesAre
<1>5. /\ \A q \in Roles : owing[q] = {}
      /\ \A q \in Roles, f \in Files, i \in RowIds : ~JobOf(i, q, f)
      /\ wpc # "idle" => \A q \in Roles :
            snap.slot[q] # "rebuilding" /\ snap.action # RebuildAction(q)
  <2>1. \A q \in Roles : slot[q] # "rebuilding"
    BY <1>1, <1>2, <1>4
  <2>2. QED
    BY <2>1 DEF VInv, RowsOK, SnapOK
<1>6. ASSUME NEW f \in Files
      PROVE  /\ kept'[f] = Missing \/ Whole(kept'[f])
             /\ disk[path[o]][f] >= kept'[f]
             /\ disk[p][f] \in Contents /\ kept'[f] \in Contents
  <2>1. kept[f] = Missing \/ Whole(kept[f])
    BY DEF VInv, DrivesOK
  <2>2. /\ kept'[f] = Missing \/ Whole(kept'[f])
        /\ kept'[f] # Missing => \E q \in {o} : disk[path[q]][f] >= kept'[f]
        /\ kept'[f] \in Contents
    <3>1. kept'[f] = KeptBy({o}, disk)[f]
      BY <1>1
    <3>2. {o} \in SUBSET Roles /\ disk \in [Paths -> [Files -> Contents]]
      BY <1>0 DEF TypeOK
    <3>3. QED
      BY <2>1, <3>1, <3>2, <1>0, KeptFacts
  <2>3. disk[path[o]][f] \in Contents /\ disk[p][f] \in Contents
    BY <1>0, DiskIs
  <2>4. QED
    BY <2>2, <2>3, MissingIs
<1>7. SlotsOK'
  <2>1. path'["primary"] # path'["secondary"]
    BY <1>1, <1>3, <1>0 DEF Roles
  <2>2. QED
    BY <2>1, <1>0, <1>1, <1>2, <1>3, <1>4 DEF SlotsOK
<1>8. DrivesOK'
  <2>1. \A f \in Files : Holds(o, f)'
    BY <1>1, <1>3, <1>6 DEF Holds
  <2>2. NoVersionLost'
    BY <1>0, <2>1 DEF NoVersionLost, Holds
  <2>3. \A q \in Paths : ~avail'[q] => q \in lost' /\ \A f \in Files : disk'[q][f] = Missing
    BY <1>1 DEF VInv, DrivesOK
  <2>4. \A f \in Files : Good(active, f)'
    BY <1>1, <1>2, <2>1 DEF Good
  <2>5. QED
    BY <1>6, <2>2, <2>3, <2>4 DEF DrivesOK
<1>9. RowsOK'
  <2>1. \A q \in Roles : owing'[q] # {} => slot'[q] = "rebuilding"
    BY <1>3, <1>4, <1>5
  <2>2. \A q \in Roles, f \in Files, i \in RowIds : ~JobOf(i, q, f)'
    BY <1>1, <1>5 DEF JobOf
  <2>3. \A i \in (Live \ Held)', j \in Held' : j < i
    BY <1>1 DEF VInv, RowsOK, Live, Held
  <2>4. \A j \in batch' : item' # NoRow => item' < j
    BY <1>1 DEF VInv, RowsOK
  <2>5. QED
    BY <2>1, <2>2, <2>3, <2>4 DEF RowsOK
<1>10. ItemOK' /\ FreshOK'
  BY <1>1, ItemFrame DEF VInv, FreshOK
<1>11. \A f \in Files : Owed(r, f)'
  BY <1>3 DEF Owed
<1>12. SnapOK'
  BY <1>1, <1>3, <1>4, <1>5, <1>11 DEF SnapOK
<1>13. CopyOK'
  <2> SUFFICES ASSUME wpc = "copying" PROVE CopyOK'
    BY <1>1 DEF CopyOK
  <2> DEFINE f == snap.file
  <2>1. f \in Files
    BY DEF IInv, WorkerOK
  <2>2. /\ UNCHANGED <<Source, Target>>
        /\ Source # Target /\ avail[Target] /\ disk[Target][f] = Torn
    BY <1>1 DEF VInv, CopyOK, Source, Target, SourceRole
  <2>3. Target = path[o] => kept'[f] = Missing
    <3>1. ~(Torn >= kept'[f]) \/ kept'[f] = Missing
      <4>1. kept'[f] \in Contents /\ (kept'[f] = Missing \/ Whole(kept'[f]))
        BY <2>1, <1>6
      <4>2. QED
        BY <4>1, MissingIs
    <3>2. QED
      BY <2>1, <2>2, <3>1, <1>6
  <2>4. Target = path[o] => disk'[path'[r]][f] >= kept'[f]
    <3>1. disk[p][f] >= Missing
      BY <2>1, <1>6, MissingIs
    <3>2. QED
      BY <2>3, <3>1, <1>1, <1>3
  <2>5. \A q \in Roles : Target' = path'[q] => Holds(Other(q), f)'
    <3>1. Holds(o, f)'
      BY <1>1, <1>3, <1>6, <2>1 DEF Holds
    <3>2. Target = path[o] => Holds(r, f)'
      BY <2>4, <1>1 DEF Holds
    <3>3. QED
      BY <3>1, <3>2, <2>2, <1>0, <1>3, <1>4
  <2>6. QED
    BY <1>0, <1>1, <1>3, <1>4, <1>5, <2>2, <2>3, <2>5 DEF CopyOK
<1>14. CopiedOK'
  BY <1>1, <1>5 DEF CopiedOK
<1>15. DebtOK'
  BY <1>3, <1>4, <1>11 DEF DebtOK
<1>16. QED
  BY <1>7, <1>8, <1>9, <1>10, <1>12, <1>13, <1>14, <1>15 DEF VInv

\* A row put behind all others, of a rebuild under way or of a changed file.
LEMMA InsertSteps ==
    ASSUME IInv, VInv, NEW f \in Files, NEW a \in Actions, Enqueue(f, a),
           \A r \in Roles : a = RebuildAction(r) => slot[r] = "rebuilding",
           \A r \in Roles, g \in Files : g \in owing[r] =>
               g \in owing'[r] \/ (a = RebuildAction(r) /\ g = f),
           \A r \in Roles : owing'[r] \subseteq owing[r],
           UNCHANGED <<pairVars, driveVars, workerVars, kept, lost>>
    PROVE  VInv' /\ KeepsDebts
<1> USE DEF workerVars, driveVars, pairVars
<1>0. TypeOK
  BY DEF IInv
<1>1. /\ \A i \in Live' : i \in Live \/ (i \in Free /\ queue'[i].action = a)
      /\ \A i \in Live : i \in Live' /\ queue'[i] = queue[i]
  BY <1>0, InsertKeeps
<1>2. /\ \A i \in RowIds, r \in Roles, g \in Files : JobOf(i, r, g) => JobOf(i, r, g)'
      /\ \A i \in RowIds, r \in Roles, g \in Files :
            JobOf(i, r, g)' => JobOf(i, r, g) \/ (a = RebuildAction(r) /\ f = g)
  BY <1>0, InsertKeeps
<1>3. \A i \in RowIds, g \in Files : Redo(i, g) => Redo(i, g)'
  BY <1>0, InsertKeeps
<1>a. \E i \in RowIds : queue'[i] # Absent /\ queue'[i].file = f /\ queue'[i].action = a
  BY <1>0, EnqueueFinds
<1>4. ASSUME NEW r \in Roles, NEW g \in Files, Owed(r, g) PROVE Owed(r, g)'
  <2>1. CASE a = RebuildAction(r) /\ g = f
    BY <2>1, <1>a DEF Owed, JobOf
  <2>2. CASE ~(a = RebuildAction(r) /\ g = f)
    BY <2>2, <1>2, <1>4 DEF Owed
  <2>3. QED
    BY <2>1, <2>2
<1>5. SlotsOK' /\ DrivesOK' /\ FreshOK' /\ CopyOK' /\ CopiedOK'
  BY SlotsFrame, DrivesFrame, FreshFrame, CopyFrame, CopiedFrame DEF VInv
<1>6. RowsOK'
  <2>1. \A r \in Roles : owing'[r] # {} => slot'[r] = "rebuilding"
    BY DEF VInv, RowsOK
  <2>2. \A r \in Roles, g \in Files, i \in RowIds : JobOf(i, r, g)' => slot'[r] = "rebuilding"
    BY <1>2 DEF VInv, RowsOK
  <2>3. \A j \in batch' : item' # NoRow => item' < j
    BY DEF VInv, RowsOK
  <2>4. ASSUME \E r \in Roles : slot'[r] \in {"failed", "rebuilding"},
               NEW i \in (Live \ Held)', NEW j \in Held'
        PROVE  j < i
    <3>1. i \in Live \/ i \in Free
      BY <1>1, <2>4
    <3>2. i \notin Held /\ j \in Held
      BY DEF Held
    <3>3. CASE i \in Live
      BY <2>4, <3>2, <3>3 DEF VInv, RowsOK
    <3>4. CASE i \in Free
      BY <1>0, <3>2, <3>4, FreeIs
    <3>5. QED
      BY <3>1, <3>3, <3>4
  <2>5. QED
    BY <2>1, <2>2, <2>3, <2>4 DEF RowsOK
<1>7. ItemOK'
  <2>1. wpc \notin {"idle", "finalize"} => item \in RowIds /\ queue[item] # Absent
    BY AbsentIsNoRow DEF IInv, WorkerOK
  <2>2. wpc \notin {"idle", "finalize"} => queue'[item] = queue[item]
    BY <1>0, <2>1, EnqueueFacts
  <2>3. QED
    BY <1>1, <2>2 DEF VInv, ItemOK
<1>8. SnapOK'
  <2>1. \A r \in Roles : owing[r] = {} => owing'[r] = {}
    OBVIOUS
  <2>2. QED
    BY <1>4, <2>1 DEF VInv, SnapOK
<1>9. DebtOK'
  BY <1>3, <1>4, GoodFrame DEF VInv, DebtOK
<1>10. QED
  BY <1>3, <1>4, <1>5, <1>6, <1>7, <1>8, <1>9 DEF VInv, KeepsDebts
-----------------------------------------------------------------------------
(* The worker and the table *)

\* An idle worker holds no row but those of its page.
LEMMA IdleIs == IInv /\ wpc \in {"idle", "finalize"} => item = NoRow /\ Held = batch
<1> SUFFICES ASSUME IInv, wpc \in {"idle", "finalize"} PROVE item = NoRow /\ Held = batch
  OBVIOUS
<1>1. item = NoRow
  BY DEF IInv, WorkerOK
<1>2. NoRow \notin batch
  BY ConstantsOK DEF IInv, TypeOK
<1>3. QED
  BY <1>1, <1>2 DEF Held

\* A new drain changes no row's job and none becomes live or settled.
LEMMA RequeueSteps == ASSUME IInv, VInv, Requeue PROVE VInv' /\ KeepsDebts
<1> USE DEF pairVars, driveVars, workerVars, ghostVars, boundVars
<1>0. /\ wpc = "idle" /\ batch = {} /\ Held = {} /\ TypeOK
      /\ UNCHANGED <<pairVars, driveVars, fileVars, owing, workerVars, ghostVars, boundVars>>
  BY IdleIs DEF Requeue, IInv
<1>1. ASSUME NEW i \in RowIds
      PROVE  /\ queue'[i] = Absent <=> queue[i] = Absent
             /\ queue[i] # Absent =>
                   queue'[i].file = queue[i].file /\ queue'[i].action = queue[i].action
             /\ i \in Live' <=> i \in Live
  <2>1. CASE queue[i].status = "in_progress"
    <3>0. queue[i] \in Row \cup {Absent}
      BY <1>0 DEF TypeOK
    <3>1. queue[i] \in Row
      BY <3>0, <2>1 DEF Absent
    <3>2. queue'[i] = [queue[i] EXCEPT !.status = "pending"]
      BY <2>1 DEF Requeue
    <3>3. queue'[i] \in Row /\ queue'[i].status = "pending"
          /\ queue'[i].file = queue[i].file /\ queue'[i].action = queue[i].action
      BY <3>1, <3>2 DEF Row
    <3>4. QED
      BY <2>1, <3>1, <3>3, AbsentIsNoRow DEF Live
  <2>2. CASE queue[i].status # "in_progress"
    <3>1. queue'[i] = queue[i]
      BY <2>2 DEF Requeue
    <3>2. QED
      BY <3>1 DEF Live
  <2>3. QED
    BY <2>1, <2>2
<1>2. \A i \in RowIds, r \in Roles, f \in Files : JobOf(i, r, f)' <=> JobOf(i, r, f)
  BY <1>1 DEF JobOf
<1>3. Live' = Live
  BY <1>1 DEF Live
<1>4. \A r \in Roles, f \in Files : Owed(r, f)' <=> Owed(r, f)
  BY <1>0, <1>2 DEF Owed
<1>5. \A i \in RowIds, f \in Files : Redo(i, f) => Redo(i, f)'
  BY <1>0, <1>1, <1>3, LiveIs DEF Redo
<1>6. SlotsOK' /\ DrivesOK' /\ FreshOK' /\ CopyOK' /\ CopiedOK'
  BY <1>0, SlotsFrame, DrivesFrame, FreshFrame, CopyFrame, CopiedFrame DEF VInv
<1>7. RowsOK'
  <2>1. Held' = {}
    BY <1>0 DEF Held
  <2>2. QED
    BY <1>0, <1>2, <2>1 DEF VInv, RowsOK
<1>8. ItemOK' /\ SnapOK'
  BY <1>0 DEF ItemOK, SnapOK
<1>9. DebtOK'
  BY <1>0, <1>4, <1>5, GoodFrame DEF VInv, DebtOK
<1>10. QED
  BY <1>4, <1>5, <1>6, <1>7, <1>8, <1>9 DEF VInv, KeepsDebts

\* The page is all that is live: whatever is queued afterwards comes behind it.
LEMMA FetchSteps == ASSUME IInv, VInv, FetchPage PROVE VInv' /\ KeepsDebts
<1> USE DEF pairVars, driveVars, workerVars, ghostVars, boundVars
<1>0. /\ wpc = "idle" /\ batch = {} /\ item = NoRow
      /\ batch' = Live
      /\ UNCHANGED <<pairVars, driveVars, fileVars, queue, owing, wpc, item, snap, begun, ghostVars, boundVars>>
  BY IdleIs DEF FetchPage, Live
<1>1. Live' = Live
  BY <1>0 DEF Live
<1>2. Held' = Live
  <2>1. NoRow \notin Live
    BY ConstantsOK DEF Live
  <2>2. QED
    BY <1>0, <2>1 DEF Held
<1>3. SlotsOK' /\ DrivesOK' /\ FreshOK' /\ CopyOK' /\ CopiedOK' /\ ItemOK' /\ SnapOK'
  BY <1>0, SlotsFrame, DrivesFrame, FreshFrame, CopyFrame, CopiedFrame, ItemFrame, SnapFrame DEF VInv
<1>4. RowsOK'
  BY <1>0, <1>1, <1>2 DEF VInv, RowsOK, JobOf
<1>5. \A i \in RowIds, f \in Files : Redo(i, f) => Redo(i, f)'
  BY <1>0, <1>1 DEF Redo
<1>6. DebtOK'
  BY <1>0, <1>5, OwedFrame, GoodFrame DEF VInv, DebtOK
<1>7. KeepsDebts
  BY <1>0, <1>5, OwedFrame DEF KeepsDebts
<1>8. QED
  BY <1>3, <1>4, <1>6, <1>7 DEF VInv

\* process_item reads the pair as it is, for the first row of its page.
LEMMA LoadSteps == ASSUME Orderly, IInv, VInv, NEW i \in RowIds, Load(i) PROVE VInv' /\ KeepsDebts
<1> USE DEF pairVars, driveVars, ghostVars, boundVars
<1>0. /\ wpc = "idle" /\ item = NoRow /\ Held = batch /\ TypeOK
      /\ i \in batch /\ \A j \in batch : i <= j
      /\ batch' = batch \ {i} /\ queue[i] \in Row
      /\ \A r \in Roles : owing[r] = {}
      /\ UNCHANGED <<pairVars, driveVars, fileVars, queue, owing, begun, ghostVars, boundVars>>
  BY IdleIs, OrderlyIs DEF Load, AssignDone, IInv, WorkerOK
<1>1. SlotsOK' /\ DrivesOK'
  BY <1>0, SlotsFrame, DrivesFrame DEF VInv
<1>2. Live' = Live
  BY <1>0 DEF Live
<1>3. CASE Quiescing
  <2>1. UNCHANGED <<wpc, item, snap>>
    BY <1>3 DEF Load
  <2>2. \A r \in Roles : slot[r] \notin {"failed", "rebuilding"}
    <3>1. PICK q \in Roles : slot[q] = "quiescing"
      BY <1>3 DEF Quiescing
    <3>2. \A r \in Roles : slot[r] # "active" => r = q
      BY <1>0, <3>1, OneDown DEF VInv
    <3>3. QED
      BY <3>1, <3>2
  <2>3. RowsOK'
    BY <1>0, <2>1, <2>2 DEF VInv, RowsOK, JobOf
  <2>4. /\ FreshOK' /\ CopyOK' /\ CopiedOK' /\ ItemOK' /\ SnapOK' /\ DebtOK'
    BY <1>0, <2>1, <2>2, FreshFrame, CopyFrame, CopiedFrame, ItemFrame, SnapFrame DEF VInv, DebtOK
  <2>5. QED
    BY <1>1, <2>2, <2>3, <2>4 DEF VInv, KeepsDebts
<1>4. CASE ~Quiescing
  <2>1. /\ wpc' = "loaded" /\ item' = i
        /\ snap'.slot = slot /\ snap'.active = active /\ snap'.path = path
        /\ snap'.file = queue[i].file /\ snap'.action = queue[i].action
    BY <1>4 DEF Load
  <2>2. Held' = Held /\ NoRow # i
    <3>1. NoRow \notin RowIds
      BY ConstantsOK
    <3>2. QED
      BY <1>0, <2>1, <3>1 DEF Held
  <2>3. RowsOK'
    <3>1. ASSUME NEW j \in batch' PROVE i < j
      <4>1. j \in Int /\ i \in Int /\ i <= j /\ i # j
        BY <1>0, HeldIs
      <4>2. QED
        BY <4>1
    <3>2. QED
      BY <1>0, <1>2, <2>1, <2>2, <3>1 DEF VInv, RowsOK, JobOf
  <2>4. ItemOK'
    BY <1>0, <2>1 DEF ItemOK
  <2>5. ASSUME NEW r \in Roles, queue[i].action = RebuildAction(r) PROVE slot[r] = "rebuilding"
    <3>1. JobOf(i, r, queue[i].file) /\ queue[i].file \in Files
      BY <1>0, <2>5, AbsentIsNoRow DEF JobOf, Row
    <3>2. QED
      BY <3>1 DEF VInv, RowsOK
  <2>6. SnapOK'
    BY <1>0, <2>1, <2>5 DEF SnapOK
  <2>7. FreshOK' /\ CopyOK' /\ CopiedOK'
    BY <1>0, <2>1 DEF FreshOK, CopyOK, CopiedOK
  <2>8. \A j \in RowIds, f \in Files : Redo(j, f) => Redo(j, f)'
    <3>1. ASSUME NEW j \in RowIds, NEW f \in Files, Redo(j, f) PROVE j = i
      <4>1. j \in batch /\ (\A k \in batch : j <= k) /\ j \in Int /\ i \in Int
        BY <1>0, <3>1, HeldIs DEF Redo
      <4>2. j <= i /\ i <= j
        BY <1>0, <4>1
      <4>3. QED
        BY <4>1, <4>2
    <3>2. QED
      BY <1>0, <1>2, <2>1, <3>1 DEF Redo
  <2>9. DebtOK'
    BY <1>0, <2>8, OwedFrame, GoodFrame DEF VInv, DebtOK
  <2>10. KeepsDebts
    BY <1>0, <2>8, OwedFrame DEF KeepsDebts
  <2>11. QED
    BY <1>1, <2>3, <2>4, <2>6, <2>7, <2>9, <2>10 DEF VInv
<1>5. QED
  BY <1>3, <1>4

\* A new status of the row in hand leaves its job.
LEMMA StatusFacts ==
    ASSUME IInv, wpc \notin {"idle", "finalize"}, NEW s \in {"in_progress", "failed"},
           queue' = [queue EXCEPT ![item].status = s]
    PROVE  /\ item \in RowIds /\ queue[item] \in Row
           /\ queue'[item].file = queue[item].file /\ queue'[item].action = queue[item].action
           /\ queue'[item].status = s
           /\ \A i \in RowIds : i # item => queue'[i] = queue[i]
           /\ \A i \in RowIds, r \in Roles, f \in Files : JobOf(i, r, f)' <=> JobOf(i, r, f)
           /\ Live' \subseteq Live \cup {item} /\ Live \subseteq Live' \cup {item}
<1>1. item \in RowIds /\ queue[item] \in Row /\ queue \in [RowIds -> Row \cup {Absent}]
  BY DEF IInv, WorkerOK, TypeOK
<1>2. queue' = [queue EXCEPT ![item] = [queue[item] EXCEPT !.status = s]]
  OBVIOUS
<1>3. /\ queue'[item] = [queue[item] EXCEPT !.status = s]
      /\ \A i \in RowIds : i # item => queue'[i] = queue[i]
  BY <1>1, <1>2
<1>4. /\ queue'[item] \in Row /\ queue'[item].status = s
      /\ queue'[item].file = queue[item].file /\ queue'[item].action = queue[item].action
  BY <1>1, <1>3 DEF Row
<1>5. \A i \in RowIds, r \in Roles, f \in Files : JobOf(i, r, f)' <=> JobOf(i, r, f)
  BY <1>1, <1>3, <1>4, AbsentIsNoRow DEF JobOf
<1>6. Live' \subseteq Live \cup {item} /\ Live \subseteq Live' \cup {item}
  BY <1>3 DEF Live
<1>7. QED
  BY <1>1, <1>3, <1>4, <1>5, <1>6

\* The row in hand becomes live again, and is the first one still.
LEMMA MarkSteps == ASSUME IInv, VInv, MarkInProgress PROVE VInv' /\ KeepsDebts
<1> USE DEF pairVars, driveVars, ghostVars, boundVars
<1>0. /\ wpc = "loaded" /\ wpc' = "marked" /\ TypeOK
      /\ queue' = [queue EXCEPT ![item].status = "in_progress"]
      /\ UNCHANGED <<pairVars, driveVars, fileVars, owing, batch, item, snap, begun, ghostVars, boundVars>>
  BY DEF MarkInProgress, IInv
<1>1. /\ item \in RowIds /\ queue[item] \in Row
      /\ queue'[item].file = queue[item].file /\ queue'[item].action = queue[item].action
      /\ queue'[item].status = "in_progress"
      /\ \A i \in RowIds : i # item => queue'[i] = queue[i]
  BY <1>0, StatusFacts
<1>2. \A i \in RowIds, r \in Roles, f \in Files : JobOf(i, r, f)' <=> JobOf(i, r, f)
  BY <1>0, StatusFacts
<1>3. Live' = Live \cup {item}
  <2>1. Live' \subseteq Live \cup {item} /\ Live \subseteq Live' \cup {item}
    BY <1>0, StatusFacts
  <2>2. item \in Live'
    BY <1>1 DEF Live
  <2>3. QED
    BY <2>1, <2>2
<1>4. \A r \in Roles, f \in Files : Owed(r, f)' <=> Owed(r, f)
  BY <1>0, <1>2 DEF Owed
<1>5. SlotsOK' /\ DrivesOK'
  BY <1>0, SlotsFrame, DrivesFrame DEF VInv
<1>6. RowsOK'
  <2>1. Held' = Held /\ item \in Held
    BY <1>0, <1>1, ConstantsOK DEF Held
  <2>2. (Live \ Held)' = Live \ Held
    BY <1>3, <2>1
  <2>3. QED
    BY <1>0, <1>2, <2>1, <2>2 DEF VInv, RowsOK
<1>7. ItemOK'
  BY <1>0, <1>1, <1>3 DEF VInv, ItemOK
<1>8. SnapOK'
  BY <1>0, <1>4 DEF VInv, SnapOK
<1>9. FreshOK' /\ CopyOK' /\ CopiedOK'
  BY <1>0 DEF VInv, FreshOK, CopyOK, CopiedOK
<1>10. \A i \in RowIds, f \in Files : Redo(i, f) => Redo(i, f)'
  <2>1. ASSUME NEW i \in RowIds, NEW f \in Files, Redo(i, f) PROVE Redo(i, f)'
    <3>1. item = i /\ i \in Int /\ i <= item
      BY <1>0, <2>1, HeldIs DEF Redo
    <3>2. QED
      BY <1>0, <1>1, <1>3, <2>1, <3>1 DEF Redo
  <2>2. QED
    BY <2>1
<1>11. DebtOK'
  BY <1>0, <1>4, <1>10, GoodFrame DEF VInv, DebtOK
<1>12. QED
  BY <1>4, <1>5, <1>6, <1>7, <1>8, <1>9, <1>10, <1>11 DEF VInv, KeepsDebts

\* A transfer that failed leaves its row, and what it owes.
LEMMA SettleFailedSteps == ASSUME IInv, VInv, SettleFailed PROVE VInv'
<1> USE DEF pairVars, driveVars, ghostVars, boundVars
<1>0. /\ wpc = "broken" /\ wpc' = "idle" /\ TypeOK /\ item' = NoRow
      /\ queue' = [queue EXCEPT ![item].status = "failed"]
      /\ UNCHANGED <<pairVars, driveVars, fileVars, owing, batch, ghostVars, boundVars>>
  BY DEF SettleFailed, IInv
<1>1. item \in RowIds /\ queue'[item].status = "failed"
  BY <1>0, StatusFacts
<1>2. \A i \in RowIds, r \in Roles, f \in Files : JobOf(i, r, f)' <=> JobOf(i, r, f)
  BY <1>0, StatusFacts
<1>3. Live' = Live \ {item}
  <2>1. Live' \subseteq Live \cup {item} /\ Live \subseteq Live' \cup {item}
    BY <1>0, StatusFacts
  <2>2. item \notin Live'
    BY <1>1 DEF Live
  <2>3. QED
    BY <2>1, <2>2
<1>4. \A r \in Roles, f \in Files : Owed(r, f)' <=> Owed(r, f)
  BY <1>0, <1>2 DEF Owed
<1>5. SlotsOK' /\ DrivesOK'
  BY <1>0, SlotsFrame, DrivesFrame DEF VInv
<1>6. RowsOK'
  <2>1. Held' \subseteq Held /\ Held \subseteq Held' \cup {item}
    BY <1>0 DEF Held
  <2>2. (Live \ Held)' \subseteq Live \ Held
    BY <1>3, <2>1
  <2>3. QED
    BY <1>0, <1>2, <2>1, <2>2 DEF VInv, RowsOK
<1>7. ItemOK' /\ SnapOK' /\ FreshOK' /\ CopyOK' /\ CopiedOK'
  BY <1>0 DEF ItemOK, SnapOK, FreshOK, CopyOK, CopiedOK
<1>8. \A i \in RowIds, f \in Files : ~Redo(i, f)
  BY <1>0 DEF Redo
<1>9. DebtOK'
  BY <1>0, <1>4, <1>8, GoodFrame DEF VInv, DebtOK
<1>10. QED
  BY <1>5, <1>6, <1>7, <1>9 DEF VInv

\* A transfer that succeeded has paid what its row owed.
LEMMA SettleCompletedSteps == ASSUME IInv, VInv, SettleCompleted PROVE VInv'
<1> USE DEF pairVars, driveVars, ghostVars, boundVars
<1>0. /\ wpc = "copied" /\ wpc' = "finalize" /\ TypeOK /\ item' = NoRow
      /\ item \in RowIds /\ queue[item] \in Row
      /\ queue' = [queue EXCEPT ![item] = Absent]
      /\ UNCHANGED <<pairVars, driveVars, sum, owing, batch, snap, ghostVars, boundVars>>
  BY DEF SettleCompleted, IInv, WorkerOK
<1>1. /\ queue'[item] = Absent
      /\ \A i \in RowIds : i # item => queue'[i] = queue[i]
  BY <1>0 DEF TypeOK
<1>2. Live' = Live \ {item}
  BY <1>0, <1>1 DEF Live, Absent
<1>3. ASSUME NEW i \in RowIds, NEW r \in Roles, NEW f \in Files
      PROVE  /\ JobOf(i, r, f)' => JobOf(i, r, f)
             /\ JobOf(i, r, f) => JobOf(i, r, f)' \/ (snap.slot[r] = "rebuilding" /\ f = snap.file)
  <2>1. JobOf(i, r, f)' => JobOf(i, r, f)
    BY <1>1 DEF JobOf
  <2>2. JobOf(item, r, f) => snap.slot[r] = "rebuilding" /\ f = snap.file
    BY <1>0 DEF VInv, ItemOK, SnapOK, JobOf
  <2>3. i # item => JobOf(i, r, f)' = JobOf(i, r, f)
    BY <1>1 DEF JobOf
  <2>4. QED
    BY <2>1, <2>2, <2>3
<1>4. SlotsOK' /\ DrivesOK'
  BY <1>0, SlotsFrame, DrivesFrame DEF VInv
<1>5. RowsOK'
  <2>1. Held' \subseteq Held /\ Held \subseteq Held' \cup {item}
    BY <1>0 DEF Held
  <2>2. (Live \ Held)' \subseteq Live \ Held
    BY <1>2, <2>1
  <2>3. \A r \in Roles, f \in Files, i \in RowIds : JobOf(i, r, f)' => slot'[r] = "rebuilding"
    BY <1>0, <1>3 DEF VInv, RowsOK
  <2>4. QED
    BY <1>0, <2>1, <2>2, <2>3 DEF VInv, RowsOK
<1>6. ASSUME NEW r \in Roles, NEW f \in Files, Owed(r, f)
      PROVE  Owed(r, f)' \/ (snap.slot[r] = "rebuilding" /\ f = snap.file)
  BY <1>0, <1>3, <1>6 DEF Owed
<1>7. SnapOK'
  BY <1>0, <1>6 DEF VInv, SnapOK
<1>8. ItemOK' /\ FreshOK' /\ CopyOK' /\ CopiedOK'
  BY <1>0 DEF ItemOK, FreshOK, CopyOK, CopiedOK
<1>9. \A i \in RowIds, f \in Files : ~Redo(i, f)
  BY <1>0 DEF Redo
<1>10. DebtOK'
  <2>1. ASSUME NEW r \in Roles, snap.slot[r] = "rebuilding" PROVE Good(r, snap.file)
    BY <1>0, <2>1 DEF VInv, CopiedOK
  <2>2. QED
    BY <1>0, <1>6, <1>9, <2>1, GoodFrame DEF VInv, DebtOK
<1>11. QED
  BY <1>4, <1>5, <1>7, <1>8, <1>10 DEF VInv

\* When the last rebuild row of a role is gone, its drive holds every file.
LEMMA RebuiltHolds ==
    ASSUME IInv, VInv, wpc = "finalize", NEW r \in Roles, Finalizable(r)
    PROVE  /\ \A f \in Files : Good(r, f)
           /\ owing[r] = {} /\ \A i \in RowIds, f \in Files : ~JobOf(i, r, f)
<1>1. snap.action = RebuildAction(r) /\ slot[r] = "rebuilding" /\ Rows(RebuildAction(r)) = {}
  BY DEF Finalizable
<1>2. owing[r] = {}
  BY <1>1 DEF VInv, SnapOK
<1>3. \A i \in RowIds, f \in Files : ~JobOf(i, r, f)
  BY <1>1 DEF JobOf, Rows
<1>4. \A i \in RowIds, f \in Files : ~Redo(i, f)
  BY DEF Redo
<1>5. \A f \in Files : Good(r, f)
  BY <1>1, <1>2, <1>3, <1>4 DEF VInv, DebtOK, Owed
<1>6. QED
  BY <1>2, <1>3, <1>5

\* The finalizer ends a rebuild, or only puts the row's reading away.
LEMMA FinalizeSteps == ASSUME IInv, VInv, FinalizeRebuild PROVE VInv'
<1> USE DEF pairVars, driveVars, ghostVars, boundVars
<1>0. /\ wpc = "finalize" /\ wpc' = "idle" /\ TypeOK /\ item = NoRow
      /\ UNCHANGED <<path, driveVars, sum, queue, owing, batch, item, begun, ghostVars, boundVars>>
  BY IdleIs DEF FinalizeRebuild, IInv
<1>1. ItemOK' /\ SnapOK' /\ FreshOK' /\ CopyOK' /\ CopiedOK'
  BY <1>0 DEF ItemOK, SnapOK, FreshOK, CopyOK, CopiedOK
<1>2. CASE UNCHANGED <<slot, active>>
  <2>1. SlotsOK' /\ DrivesOK' /\ RowsOK'
    BY <1>0, <1>2, SlotsFrame, DrivesFrame, RowsFrame DEF VInv
  <2>2. \A i \in RowIds, f \in Files : ~Redo(i, f)
    BY <1>0 DEF Redo
  <2>3. DebtOK'
    BY <1>0, <1>2, <2>2, OwedFrame, GoodFrame DEF VInv, DebtOK
  <2>4. QED
    BY <1>1, <2>1, <2>3 DEF VInv
<1>3. ASSUME NEW r \in Roles, Finalizable(r), slot' = [slot EXCEPT ![r] = "active"],
             active' = IF r = "primary" THEN r ELSE active
      PROVE  VInv'
  <2>1. slot[r] = "rebuilding" /\ active = Other(r) /\ slot[Other(r)] = "active"
    BY <1>3 DEF Finalizable, VInv, SlotsOK
  <2>2. \A q \in Roles : slot'[q] = "active"
    BY <1>0, <1>3, <2>1, RolesAre DEF TypeOK
  <2>3. /\ \A f \in Files : Good(r, f)
        /\ owing[r] = {} /\ \A i \in RowIds, f \in Files : ~JobOf(i, r, f)
    BY <1>0, <1>3, RebuiltHolds
  <2>4. SlotsOK'
    BY <1>0, <2>2 DEF VInv, SlotsOK
  <2>5. DrivesOK'
    <3>1. \A q \in Roles : slot[q] # "failed"
      BY <2>1, RolesAre
    <3>2. \A f \in Files : Good(active, f)
      BY <3>1 DEF VInv, DrivesOK
    <3>3. active' \in {active, r}
      BY <1>3
    <3>4. \A f \in Files : Good(active, f)'
      BY <1>0, <2>3, <3>2, <3>3 DEF Good, Holds
    <3>5. QED
      BY <1>0, <3>4 DEF VInv, DrivesOK, NoVersionLost
  <2>6. RowsOK'
    <3>1. \A q \in Roles : owing[q] = {} /\ \A i \in RowIds, f \in Files : ~JobOf(i, q, f)
      BY <2>1, <2>3, RolesAre DEF VInv, RowsOK
    <3>2. QED
      BY <1>0, <2>2, <3>1 DEF VInv, RowsOK, JobOf, Held
  <2>7. DebtOK'
    BY <2>2 DEF DebtOK
  <2>8. QED
    BY <1>1, <2>4, <2>5, <2>6, <2>7 DEF VInv
<1>4. QED
  BY <1>2, <1>3 DEF FinalizeRebuild
-----------------------------------------------------------------------------
(* The copies *)

\* A worker that is about to copy has read the pair as it is.  What it refuses
\* or begins to write for a slot that is rebuilt comes from the drive in charge.
LEMMA MarkedIs ==
    ASSUME IInv, VInv, wpc = "marked"
    PROVE  /\ snap.path = path /\ snap.active = active /\ item \in Live
           /\ queue[item].file = snap.file /\ queue[item].action = snap.action
           /\ snap.action # "mirror" =>
                \E r \in Roles : /\ snap.action = RebuildAction(r) /\ slot[r] = "rebuilding"
                                 /\ active = Other(r)
           /\ SourceRole = active
           /\ Source = path[active] /\ Target = path[Other(active)] /\ Source # Target
           /\ Source \in Paths /\ Target \in Paths /\ active \in Roles /\ snap.file \in Files
           /\ TargetState = snap.slot[Other(active)]
           /\ TypeOK
<1>0. TypeOK /\ active \in Roles /\ snap.file \in Files
  BY DEF IInv, TypeOK, WorkerOK
<1>1. snap.path = path /\ snap.active = active /\ item \in Live
  BY DEF VInv, FreshOK, ItemOK
<1>2. queue[item].file = snap.file /\ queue[item].action = snap.action
  BY DEF VInv, ItemOK
<1>3. ASSUME NEW r \in Roles, snap.action = RebuildAction(r)
      PROVE  slot[r] = "rebuilding" /\ active = Other(r) /\ SourceRole = active
  <2>1. slot[r] = "rebuilding"
    BY <1>3 DEF VInv, SnapOK
  <2>2. active = Other(r)
    BY <2>1 DEF VInv, SlotsOK
  <2>3. QED
    BY <1>0, <1>3, <2>1, <2>2, SourceIs
<1>4. snap.action = "mirror" \/ \E r \in Roles : snap.action = RebuildAction(r)
  BY <1>0, SourceIs, RolesAre
<1>5. SourceRole = active
  BY <1>0, <1>1, <1>3, <1>4, SourceIs
<1>6. Source = path[active] /\ Target = path[Other(active)] /\ TargetState = snap.slot[Other(active)]
  BY <1>1, <1>5 DEF Source, Target, TargetState
<1>7. Source # Target
  BY <1>0, <1>6, PathsApart DEF VInv
<1>8. Source \in Paths /\ Target \in Paths
  BY <1>0, SnapTyped
<1>9. QED
  BY <1>0, <1>1, <1>2, <1>3, <1>4, <1>5, <1>6, <1>7, <1>8

\* While a slot is down the worker's row comes before all other live rows.
LEMMA ItemIsFirst ==
    ASSUME IInv, VInv, wpc \notin {"idle", "finalize"},
           NEW r \in Roles, slot[r] \in {"failed", "rebuilding"}
    PROVE  \A j \in Live : item <= j
<1>1. item \in RowIds /\ item # NoRow /\ item \in Held /\ RowIds \subseteq Int
  BY HeldIs, ConstantsOK DEF IInv, WorkerOK, Held
<1>2. ASSUME NEW j \in Live PROVE item <= j
  <2>1. j \in Int /\ item \in Int
    BY <1>1 DEF Live
  <2>2. CASE j = item
    BY <2>1, <2>2
  <2>3. CASE j \in batch
    <3>1. item < j
      BY <1>1, <2>3 DEF VInv, RowsOK
    <3>2. QED
      BY <2>1, <3>1
  <2>4. CASE j \notin batch /\ j # item
    <3>1. j \in Live \ Held
      BY <2>4 DEF Held
    <3>2. item < j
      BY <1>1, <3>1 DEF VInv, RowsOK
    <3>3. QED
      BY <2>1, <3>2
  <2>5. QED
    BY <2>2, <2>3, <2>4
<1>3. QED
  BY <1>2

\* A copy begins only where the source has what is to be kept, on the drive in
\* charge, and truncates the other one.
LEMMA BeginIs ==
    ASSUME IInv, VInv, BeginCopy
    PROVE  /\ \A r \in Roles : slot[r] # "failed"
           /\ Holds(active, snap.file)
<1>0. wpc = "marked"
  BY DEF BeginCopy
<1>1. /\ (MirrorReady /\ SourceExists) \/ RestoreReady
      /\ SourceExists
  BY DEF BeginCopy, RestoreReady
<1>2. Source = path[active] /\ snap.file \in Files /\ active \in Roles /\ TypeOK
  BY <1>0, MarkedIs
<1>3. ASSUME NEW r \in Roles, slot[r] = "failed" PROVE FALSE
  <2>1. active = Other(r) /\ Other(active) = r
    BY <1>3, RolesAre DEF VInv, SlotsOK
  <2>2. snap.slot[r] = "failed"
    BY <1>0, <1>3 DEF VInv, FreshOK
  <2>3. TargetState = "failed"
    BY <1>0, <2>1, <2>2, MarkedIs
  <2>4. QED
    BY <1>1, <2>3 DEF MirrorReady, RestoreReady
<1>4. Good(active, snap.file)
  BY <1>2, <1>3 DEF VInv, DrivesOK
<1>5. disk[path[active]][snap.file] # Missing
  BY <1>1, <1>2 DEF SourceExists
<1>6. QED
  BY <1>3, <1>4, <1>5 DEF Good

LEMMA BeginSteps == ASSUME IInv, VInv, BeginCopy PROVE VInv'
<1> USE DEF pairVars, ghostVars, boundVars
<1>a. PICK f \in Files, a \in Roles, t \in Roles : f = snap.file /\ a = active /\ t = Other(active)
  BY OtherIs DEF IInv, TypeOK, WorkerOK, BeginCopy
<1>0. /\ wpc = "marked" /\ wpc' = "copying" /\ begun' = disk[Source][f]
      /\ avail' = [avail EXCEPT ![Target] = TRUE]
      /\ disk' = [disk EXCEPT ![Target][f] = Torn]
      /\ UNCHANGED <<pairVars, fileVars, queue, owing, batch, item, snap, ghostVars, boundVars>>
  BY <1>a DEF BeginCopy
<1>1. /\ snap.path = path /\ snap.active = active /\ item \in Live
      /\ queue[item].file = f /\ queue[item].action = snap.action
      /\ snap.action # "mirror" => \E r \in Roles : snap.action = RebuildAction(r) /\ active = Other(r)
      /\ Source = path[active] /\ Target = path[t] /\ Source # Target
      /\ Source \in Paths /\ Target \in Paths /\ f \in Files /\ TypeOK
  BY <1>0, <1>a, MarkedIs
<1>2. /\ Other(t) = a /\ Other(a) = t
      /\ \A r \in Roles : r = t \/ r = a
  BY <1>0, <1>a, MarkedIs, RolesAre
<1>3. \A r \in Roles : slot[r] # "failed"
  BY BeginIs
<1>4. Holds(a, f)
  BY <1>a, BeginIs
<1>5. /\ disk'[Target][f] = Torn
      /\ \A p \in Paths, g \in Files : p # Target \/ g # f => disk'[p][g] = disk[p][g]
  BY <1>0, <1>1 DEF TypeOK
<1>6. avail'[Target] /\ \A p \in Paths : ~avail'[p] => ~avail[p] /\ p # Target
  BY <1>0, <1>1 DEF TypeOK
<1>7. UNCHANGED <<Source, Target>>
  BY <1>0 DEF Source, Target, SourceRole
<1>8. /\ \A g \in Files : Holds(a, g) => Holds(a, g)'
      /\ \A g \in Files : Good(a, g) => Good(a, g)'
  BY <1>0, <1>1, <1>a, <1>5 DEF Holds, Good
<1>9. \A g \in Files : g # f => (Holds(t, g)' <=> Holds(t, g)) /\ (Good(t, g) => Good(t, g)')
  BY <1>0, <1>1, <1>a, <1>5 DEF Holds, Good
<1>10. SlotsOK' /\ RowsOK'
  BY <1>0, SlotsFrame, RowsFrame DEF VInv
<1>11. DrivesOK'
  <2>1. ASSUME NEW g \in Files, kept[g] # Missing PROVE \E r \in Roles : Holds(r, g)'
    <3>1. PICK r \in Roles : Holds(r, g)
      BY <2>1 DEF VInv, DrivesOK, NoVersionLost, Holds
    <3>2. CASE g = f
      BY <1>2, <1>4, <1>8, <3>2
    <3>3. CASE g # f
      BY <1>2, <1>8, <1>9, <3>1, <3>3
    <3>4. QED
      BY <3>2, <3>3
  <2>2. NoVersionLost'
    BY <1>0, <2>1 DEF NoVersionLost, Holds
  <2>3. \A p \in Paths : ~avail'[p] => p \in lost' /\ \A g \in Files : disk'[p][g] = Missing
    BY <1>0, <1>5, <1>6 DEF VInv, DrivesOK
  <2>4. \A g \in Files : Good(active, g)'
    <3>1. \A g \in Files : Good(a, g)'
      BY <1>3, <1>8, <1>a DEF VInv, DrivesOK
    <3>2. QED
      BY <1>0, <1>a, <3>1 DEF Good, Holds
  <2>5. \A g \in Files : kept'[g] = Missing \/ Whole(kept'[g])
    BY <1>0 DEF VInv, DrivesOK
  <2>6. QED
    BY <1>0, <2>2, <2>3, <2>4, <2>5 DEF DrivesOK
<1>12. ItemOK'
  BY <1>0, <1>1, <1>a DEF ItemOK
<1>13. SnapOK' /\ FreshOK' /\ CopiedOK'
  <2>1. \A r \in Roles, g \in Files : Owed(r, g)' <=> Owed(r, g)
    BY <1>0, OwedFrame
  <2>2. QED
    BY <1>0, <2>1 DEF VInv, SnapOK, FreshOK, CopiedOK
<1>14. CopyOK'
  <2>1. \A r \in Roles : Target' = path'[r] => Holds(Other(r), f)'
    <3>1. Holds(a, f)'
      BY <1>4, <1>8
    <3>2. ASSUME NEW r \in Roles, Target' = path'[r] PROVE r = t
      BY <1>0, <1>1, <1>2, <1>7, <1>a, <3>2
    <3>3. QED
      BY <1>2, <3>1, <3>2
  <2>2. ASSUME NEW r \in Roles, slot'[r] = "rebuilding" PROVE Target' # path'[Other(r)]
    <3>1. active = Other(r)
      BY <1>0, <2>2 DEF VInv, SlotsOK
    <3>2. QED
      BY <1>0, <1>1, <1>7, <3>1
  <2>3. begun' = disk'[Source][f]
    BY <1>0, <1>1, <1>5
  <2>4. QED
    BY <1>0, <1>1, <1>3, <1>5, <1>6, <1>7, <1>a, <2>1, <2>2, <2>3 DEF CopyOK
<1>15. DebtOK'
  <2>1. ASSUME NEW r \in Roles, NEW g \in Files, slot[r] = "rebuilding"
        PROVE  Owed(r, g)' \/ Good(r, g)' \/ \E i \in RowIds : Redo(i, g)'
    <3>1. active = Other(r) /\ r = t
      BY <2>1, <1>2, <1>a, RolesAre DEF VInv, SlotsOK
    <3>2. CASE g = f
      <4>1. PICK i \in RowIds : i = item /\ i \in Live /\ queue[i] # Absent
        BY <1>1, LiveIs
      <4>2. CASE snap.action = "mirror"
        <5>1. \A j \in Live : i <= j
          BY <1>0, <2>1, <4>1, ItemIsFirst
        <5>2. Redo(i, f)'
          BY <1>0, <1>1, <4>1, <4>2, <5>1 DEF Redo, Live
        <5>3. QED
          BY <3>2, <4>1, <5>2
      <4>3. CASE snap.action # "mirror"
        <5>1. PICK q \in Roles : snap.action = RebuildAction(q) /\ active = Other(q)
          BY <1>1, <4>3
        <5>2. q = r
          BY <3>1, <5>1, RolesAre
        <5>3. JobOf(i, r, f)'
          BY <1>0, <1>1, <4>1, <5>1, <5>2 DEF JobOf
        <5>4. QED
          BY <3>2, <4>1, <5>3 DEF Owed
      <4>4. QED
        BY <4>2, <4>3
    <3>3. CASE g # f
      <4>1. Owed(r, g) \/ Good(r, g) \/ \E i \in RowIds : Redo(i, g)
        BY <2>1 DEF VInv, DebtOK
      <4>2. Owed(r, g)' <=> Owed(r, g)
        BY <1>0, OwedFrame
      <4>3. Good(r, g) => Good(r, g)'
        BY <1>9, <3>1, <3>3
      <4>4. \A i \in RowIds : Redo(i, g) => Redo(i, g)'
        BY <1>0 DEF Redo, Live
      <4>5. QED
        BY <4>1, <4>2, <4>3, <4>4
    <3>4. QED
      BY <3>2, <3>3
  <2>2. QED
    BY <1>0, <2>1 DEF DebtOK
<1>16. QED
  BY <1>10, <1>11, <1>12, <1>13, <1>14, <1>15 DEF VInv

\* A copy for a slot that is rebuilt is refused only where the drive in charge
\* lacks the file, or the new drive is lost.
LEMMA RefuseSteps == ASSUME IInv, VInv, RefuseCopy PROVE VInv'
<1> USE DEF pairVars, ghostVars, boundVars
<1> DEFINE f == snap.file
           t == Other(active)
<1>0. /\ wpc = "marked" /\ wpc' = "broken"
      /\ UNCHANGED <<pairVars, avail, disk, fileVars, queue, owing, batch, item, snap, begun, ghostVars, boundVars>>
  BY DEF RefuseCopy
<1>1. SlotsOK' /\ RowsOK' /\ DrivesOK'
  BY <1>0, SlotsFrame, RowsFrame, DrivesFrame DEF VInv
<1>2. ItemOK' /\ FreshOK' /\ CopyOK' /\ CopiedOK'
  BY <1>0 DEF VInv, ItemOK, FreshOK, CopyOK, CopiedOK
<1>3. \A r \in Roles, g \in Files : Owed(r, g)' <=> Owed(r, g)
  BY <1>0, OwedFrame
<1>4. SnapOK'
  BY <1>0, <1>3 DEF VInv, SnapOK
<1>5. ASSUME NEW r \in Roles, NEW g \in Files, slot[r] = "rebuilding",
             NEW i \in RowIds, Redo(i, g)
      PROVE  Good(r, g)
  <2>1. /\ item = i /\ snap.action = "mirror" /\ g = f
        /\ Source = path[active] /\ Target = path[t] /\ TypeOK
        /\ TargetState = snap.slot[t] /\ Source \in Paths /\ Target \in Paths
    BY <1>0, <1>5, MarkedIs DEF Redo
  <2>2. active = Other(r) /\ t = r /\ \A q \in Roles : slot[q] # "failed"
    BY <1>5, RolesAre DEF VInv, SlotsOK
  <2>3. TargetState = "rebuilding"
    BY <1>0, <1>5, <2>1, <2>2 DEF VInv, FreshOK
  <2>4. ~avail[Source] \/ ~avail[Target] \/ disk[Source][f] = Missing
    BY <2>1, <2>3 DEF RefuseCopy, MirrorReady, SourceExists
  <2>5. CASE ~avail[Target]
    BY <2>1, <2>2, <2>5 DEF VInv, DrivesOK, Good
  <2>6. CASE ~avail[Source] \/ disk[Source][f] = Missing
    <3>1. disk[path[active]][g] = Missing
      BY <2>1, <2>6 DEF VInv, DrivesOK
    <3>2. CASE kept[g] = Missing
      BY <2>1, <3>2, NothingKept DEF Good
    <3>3. CASE kept[g] # Missing
      <4>1. PICK q \in Roles : disk[path[q]][g] >= kept[g]
        BY <3>3 DEF VInv, DrivesOK, NoVersionLost
      <4>2. q # active
        <5>1. kept[g] \in Contents /\ Whole(kept[g])
          BY <2>1, <3>3, DiskIs DEF VInv, DrivesOK
        <5>2. ~(Missing >= kept[g])
          BY <5>1, MissingIs
        <5>3. QED
          BY <3>1, <4>1, <5>2
      <4>3. q = r
        BY <4>2, <2>2, RolesAre
      <4>4. QED
        BY <4>1, <4>3 DEF Good, Holds
    <3>4. QED
      BY <3>2, <3>3
  <2>7. QED
    BY <2>4, <2>5, <2>6
<1>6. DebtOK'
  BY <1>0, <1>3, <1>5, GoodFrame DEF VInv, DebtOK
<1>7. QED
  BY <1>1, <1>2, <1>4, <1>6 DEF VInv

\* A copy for a slot that is rebuilt reads from the drive in charge and writes
\* the new one.
LEMMA RebuildCopyIs ==
    ASSUME IInv, VInv, wpc = "copying", NEW r \in Roles, snap.slot[r] = "rebuilding"
    PROVE  /\ slot[r] = "rebuilding" /\ active = Other(r)
           /\ Source = path[Other(r)] /\ Target = path[r]
           /\ snap.action # "mirror" => snap.action = RebuildAction(r)
<1>0. TypeOK
  BY DEF IInv
<1>1. slot[r] = "rebuilding" /\ snap.path = path /\ snap.active = active
  BY DEF VInv, SnapOK
<1>2. active = Other(r)
  BY <1>1 DEF VInv, SlotsOK
<1>3. ASSUME NEW q \in Roles, snap.action = RebuildAction(q) PROVE q = r
  <2>1. slot[q] = "rebuilding"
    BY <1>3 DEF VInv, SnapOK
  <2>2. QED
    BY <1>0, <1>1, <2>1, OneDown DEF VInv
<1>4. snap.action # "mirror" => snap.action = RebuildAction(r)
  BY <1>0, <1>3, SourceIs, RolesAre
<1>5. SourceRole = Other(r)
  BY <1>0, <1>1, <1>2, <1>4, SourceIs
<1>6. QED
  BY <1>1, <1>2, <1>4, <1>5, RolesAre DEF Source, Target

\* A copy ends with what it read, or with no target.
LEMMA EndIs ==
    ASSUME NEW c, EndCopy(c)
    PROVE  /\ wpc = "copying" /\ wpc' \in {"copied", "broken"}
           /\ \E w \in {c, Missing} : disk' = [disk EXCEPT ![Target][snap.file] = w]
           /\ wpc' = "copied" \/ snap.action = "mirror" =>
                 wpc' = "copied" /\ disk' = [disk EXCEPT ![Target][snap.file] = c]
           /\ begun = disk[Source][snap.file] => c = begun
           /\ UNCHANGED <<pairVars, avail, marker, fileVars, queue, owing, batch, item, snap, begun, ghostVars, boundVars>>
  BY DEF EndCopy, ReadBy

LEMMA EndSteps == ASSUME IInv, VInv, NEW c \in Contents, EndCopy(c) PROVE VInv'
<1> USE DEF pairVars, ghostVars, boundVars
<1>a. PICK f \in Files, a \in Roles : f = snap.file /\ a = active
  BY DEF IInv, TypeOK, WorkerOK, EndCopy
<1>0. /\ wpc = "copying" /\ wpc' \in {"copied", "broken"} /\ TypeOK
      /\ UNCHANGED <<pairVars, avail, marker, fileVars, queue, owing, batch, item, snap, begun, ghostVars, boundVars>>
  BY EndIs DEF IInv
<1>1. PICK w : disk' = [disk EXCEPT ![Target][f] = w]
  BY EndIs, <1>a
<1>2. Source \in Paths /\ Target \in Paths /\ Source # Target /\ avail[Target]
  BY <1>0, SnapTyped DEF VInv, CopyOK
<1>3. \A p \in Paths, g \in Files : p # Target \/ g # f => disk'[p][g] = disk[p][g]
  BY <1>0, <1>1, <1>2 DEF TypeOK
<1>4. \A r \in Roles : path[r] \in Paths
  BY <1>0 DEF TypeOK
<1>5. ASSUME NEW r \in Roles, NEW g \in Files, path[r] # Target \/ g # f
      PROVE  (Holds(r, g) => Holds(r, g)') /\ (Good(r, g) => Good(r, g)')
  BY <1>0, <1>3, <1>4, <1>5 DEF Holds, Good
<1>6. SlotsOK' /\ RowsOK'
  BY <1>0, SlotsFrame, RowsFrame DEF VInv
<1>7. ASSUME NEW r \in Roles, snap.slot[r] = "rebuilding", snap.action = "mirror" \/ wpc' = "copied"
      PROVE  Good(r, f)'
  <2>1. /\ Source = path[Other(r)] /\ Target = path[r]
        /\ begun = disk[Source][f] /\ Holds(Other(r), f)
    BY <1>0, <1>7, <1>a, RebuildCopyIs DEF VInv, CopyOK
  <2>2. c = begun /\ disk' = [disk EXCEPT ![Target][f] = c]
    BY <1>7, <1>a, <2>1, EndIs
  <2>3. disk'[Target][f] = c
    BY <1>0, <1>2, <2>2 DEF TypeOK
  <2>4. c >= kept[f]
    BY <2>1, <2>2 DEF Holds
  <2>5. QED
    BY <1>0, <2>1, <2>3, <2>4 DEF Good, Holds
<1>8. DrivesOK'
  <2>1. ASSUME NEW g \in Files, kept[g] # Missing PROVE \E r \in Roles : Holds(r, g)'
    <3>1. PICK r \in Roles : Holds(r, g)
      BY <2>1 DEF VInv, DrivesOK, NoVersionLost, Holds
    <3>2. CASE path[r] # Target \/ g # f
      BY <1>5, <3>1, <3>2
    <3>3. CASE path[r] = Target /\ g = f
      <4>1. Holds(Other(r), g) /\ Other(r) \in Roles /\ path[Other(r)] # Target
        BY <1>0, <1>a, <3>3, RolesAre, PathsApart DEF VInv, CopyOK
      <4>2. QED
        BY <1>5, <4>1
    <3>4. QED
      BY <3>2, <3>3
  <2>2. NoVersionLost'
    BY <1>0, <2>1 DEF NoVersionLost, Holds
  <2>3. \A p \in Paths : ~avail'[p] => p \in lost' /\ \A g \in Files : disk'[p][g] = Missing
    BY <1>0, <1>2, <1>3 DEF VInv, DrivesOK
  <2>4. ASSUME \A r \in Roles : slot'[r] # "failed", NEW g \in Files PROVE Good(active, g)'
    <3>1. Good(a, g)
      BY <1>0, <1>a, <2>4 DEF VInv, DrivesOK
    <3>2. CASE path[a] # Target \/ g # f
      <4>1. Good(a, g)'
        BY <1>5, <3>1, <3>2
      <4>2. QED
        BY <4>1, <1>0, <1>a DEF Good, Holds
    <3>3. CASE path[a] = Target /\ g = f
      <4>1. CASE \A r \in Roles : slot[r] \in {"active", "quiescing"}
        <5>1. snap.path = path /\ snap.active = active
          BY <1>0, <4>1 DEF VInv, CopyOK
        <5>2. \A r \in Roles : snap.action # RebuildAction(r)
          BY <1>0, <4>1 DEF VInv, SnapOK
        <5>3. SourceRole = active
          BY <1>0, <5>1, <5>2, SourceIs, RolesAre
        <5>4. Source = path[a]
          BY <5>1, <5>3, <1>a DEF Source
        <5>5. QED
          BY <1>2, <3>3, <5>4
      <4>2. CASE \E r \in Roles : slot[r] \notin {"active", "quiescing"}
        <5>1. PICK r \in Roles : slot[r] = "rebuilding"
          BY <1>0, <2>4, <4>2 DEF TypeOK, States
        <5>2. active = Other(r)
          BY <5>1 DEF VInv, SlotsOK
        <5>3. kept[g] = Missing
          BY <1>0, <1>a, <3>3, <5>1, <5>2 DEF VInv, CopyOK
        <5>4. kept'[g] = Missing /\ disk'[path'[a]][g] \in Contents
          <6>1. IInv'
            BY WorkerSteps DEF Worker
          <6>2. QED
            BY <6>1, <1>0, <1>4, <5>3 DEF IInv, TypeOK
        <5>5. disk'[path'[a]][g] >= kept'[g]
          BY <5>4, MissingIs
        <5>6. QED
          BY <5>5, <1>0, <1>a DEF Good, Holds
      <4>3. QED
        BY <4>1, <4>2
    <3>4. QED
      BY <3>2, <3>3
  <2>5. \A g \in Files : kept'[g] = Missing \/ Whole(kept'[g])
    BY <1>0 DEF VInv, DrivesOK
  <2>6. QED
    BY <2>2, <2>3, <2>4, <2>5 DEF DrivesOK
<1>9. \A r \in Roles, g \in Files : Owed(r, g)' <=> Owed(r, g)
  BY <1>0, OwedFrame
<1>10. ItemOK' /\ SnapOK' /\ FreshOK' /\ CopyOK'
  BY <1>0, <1>9 DEF VInv, ItemOK, SnapOK, FreshOK, CopyOK
<1>11. CopiedOK'
  <2>1. ASSUME wpc' = "copied", NEW r \in Roles, snap'.slot[r] = "rebuilding"
        PROVE  Good(r, snap.file)'
    <3>1. Good(r, f)'
      BY <1>0, <1>7, <2>1
    <3>2. QED
      BY <1>0, <1>a, <3>1 DEF Good, Holds
  <2>2. QED
    BY <2>1 DEF CopiedOK
<1>12. DebtOK'
  <2>1. ASSUME NEW r \in Roles, NEW g \in Files, slot[r] = "rebuilding"
        PROVE  Owed(r, g)' \/ Good(r, g)'
    <3>1. CASE snap.slot[r] # "rebuilding"
      BY <1>0, <1>9, <2>1, <3>1 DEF VInv, SnapOK
    <3>2. CASE snap.slot[r] = "rebuilding" /\ g = f
      <4>1. CASE snap.action = "mirror"
        BY <1>7, <3>2, <4>1
      <4>2. CASE snap.action # "mirror"
        <5>1. snap.action = RebuildAction(r)
          BY <1>0, <3>2, <4>2, RebuildCopyIs
        <5>2. /\ item \in RowIds /\ queue[item] # Absent
              /\ queue[item].file = f /\ queue[item].action = RebuildAction(r)
          BY <1>0, <1>a, <5>1, AbsentIsNoRow DEF VInv, ItemOK, IInv, WorkerOK
        <5>3. Owed(r, f)
          BY <5>2 DEF Owed, JobOf
        <5>4. QED
          BY <1>9, <3>2, <5>3
      <4>3. QED
        BY <4>1, <4>2
    <3>3. CASE g # f
      <4>1. \A i \in RowIds : ~Redo(i, g)
        BY <1>0, <1>a, <3>3 DEF VInv, ItemOK, Redo
      <4>2. Owed(r, g) \/ Good(r, g)
        BY <2>1, <4>1 DEF VInv, DebtOK
      <4>3. QED
        BY <1>5, <1>9, <3>3, <4>2
    <3>4. QED
      BY <3>1, <3>2, <3>3
  <2>2. QED
    BY <1>0, <2>1 DEF DebtOK
<1>13. QED
  BY <1>6, <1>8, <1>10, <1>11, <1>12 DEF VInv
-----------------------------------------------------------------------------
(* Users, change detection, drives and the process *)

\* A user writes a newer version into the drive in charge of a healthy pair.
LEMMA EditSteps == ASSUME Orderly, IInv, VInv, NEW f \in Files, Edit(f) PROVE VInv'
<1> USE DEF pairVars, workerVars, boundVars
<1>a. PICK a \in Roles : a = active
  BY DEF IInv, TypeOK
<1>0. /\ TypeOK /\ avail[path[a]] /\ \A r \in Roles : slot[r] = "active"
      /\ version \in Nat \ {0} /\ version' = version + 1
      /\ disk' = [disk EXCEPT ![path[a]][f] = version'] /\ kept' = [kept EXCEPT ![f] = version']
      /\ UNCHANGED <<pairVars, avail, marker, fileVars, queue, owing, workerVars, boundVars>>
  <2>1. version \in Nat \ {0}
    BY ConstantsOK DEF IInv, TypeOK
  <2>2. QED
    BY <1>a, <2>1, OrderlyIs DEF Edit, IInv
<1>1. \A r \in Roles : slot[r] \notin {"failed", "rebuilding"}
  BY <1>0
<1>2. /\ \A r \in Roles : path[r] \in Paths
      /\ kept'[f] = version' /\ disk'[path[a]][f] = version'
      /\ \A g \in Files : g # f => kept'[g] = kept[g]
      /\ \A p \in Paths, g \in Files : p # path[a] \/ g # f => disk'[p][g] = disk[p][g]
  BY <1>0 DEF TypeOK
<1>3. version' > Torn /\ version' >= version'
  <2>1. version' \in Nat \ {0}
    BY <1>0
  <2>2. QED
    BY <2>1 DEF Torn
<1>4. Holds(a, f)'
  BY <1>0, <1>2, <1>3 DEF Holds
<1>5. ASSUME NEW g \in Files, g # f, NEW r \in Roles
      PROVE  (Holds(r, g)' <=> Holds(r, g)) /\ (Good(r, g)' <=> Good(r, g))
  BY <1>0, <1>2, <1>5 DEF Holds, Good
<1>6. SlotsOK' /\ RowsOK'
  BY <1>0, SlotsFrame, RowsFrame DEF VInv
<1>7. DrivesOK'
  <2>1. ASSUME NEW g \in Files PROVE kept'[g] = Missing \/ Whole(kept'[g])
    BY <1>2, <1>3 DEF VInv, DrivesOK, Whole
  <2>2. ASSUME NEW g \in Files, kept'[g] # Missing PROVE \E r \in Roles : Holds(r, g)'
    <3>1. CASE g = f
      BY <1>4, <3>1
    <3>2. CASE g # f
      <4>1. \E r \in Roles : Holds(r, g)
        BY <1>2, <2>2, <3>2 DEF VInv, DrivesOK, NoVersionLost, Holds
      <4>2. QED
        BY <1>5, <3>2, <4>1
    <3>3. QED
      BY <3>1, <3>2
  <2>3. NoVersionLost'
    BY <2>2 DEF NoVersionLost, Holds
  <2>4. \A p \in Paths : ~avail'[p] => p \in lost' /\ \A g \in Files : disk'[p][g] = Missing
    BY <1>0, <1>2 DEF VInv, DrivesOK
  <2>5. ASSUME NEW g \in Files PROVE Good(a, g)'
    <3>1. CASE g = f
      BY <1>4, <3>1 DEF Good
    <3>2. CASE g # f
      BY <1>1, <1>5, <1>a, <3>2 DEF VInv, DrivesOK
    <3>3. QED
      BY <3>1, <3>2
  <2>6. \A g \in Files : Good(active, g)'
    BY <2>5, <1>a, <1>0 DEF Good, Holds
  <2>7. QED
    BY <2>1, <2>3, <2>4, <2>6 DEF DrivesOK
<1>8. ItemOK' /\ SnapOK' /\ FreshOK'
  BY <1>0, ItemFrame, SnapFrame, FreshFrame DEF VInv
<1>9. /\ \A r \in Roles : owing[r] = {}
      /\ wpc # "idle" => \A r \in Roles :
            snap.slot[r] # "rebuilding" /\ snap.action # RebuildAction(r)
  BY <1>1, CalmIs DEF VInv
<1>10. CopyOK'
  <2> SUFFICES ASSUME wpc = "copying" PROVE CopyOK'
    BY <1>0 DEF CopyOK
  <2>a. PICK g \in Files : g = snap.file
    BY DEF IInv, WorkerOK
  <2>1. /\ Source # Target /\ avail[Target] /\ disk[Target][g] = Torn
        /\ snap.path = path /\ snap.active = active /\ Target \in Paths
        /\ \A r \in Roles : Target = path[r] => Holds(Other(r), g)
    BY <1>0, <2>a, SnapTyped DEF VInv, CopyOK
  <2>2. SourceRole = active
    BY <1>0, <1>9, <2>1, SourceIs, RolesAre
  <2>3. Source = path[a] /\ Target = path[Other(a)]
    BY <1>a, <2>1, <2>2 DEF Source, Target
  <2>4. UNCHANGED <<Source, Target>>
    BY <1>0 DEF Source, Target, SourceRole
  <2>5. disk'[Target][g] = Torn
    BY <1>2, <2>1, <2>3
  <2>6. Holds(a, g)'
    <3>1. CASE g = f
      BY <1>4, <3>1
    <3>2. CASE g # f
      <4>1. Holds(a, g)
        BY <2>1, <2>3, RolesAre
      <4>2. QED
        BY <1>5, <3>2, <4>1
    <3>3. QED
      BY <3>1, <3>2
  <2>7. ASSUME NEW r \in Roles, Target' = path'[r] PROVE Holds(Other(r), g)'
    <3>1. r # a
      BY <1>0, <2>1, <2>3, <2>4, <2>7
    <3>2. Other(r) = a
      BY <3>1, RolesAre
    <3>3. QED
      BY <2>6, <3>2
  <2>8. QED
    BY <1>0, <1>9, <2>a, <2>1, <2>4, <2>5, <2>7 DEF CopyOK
<1>11. CopiedOK' /\ DebtOK'
  BY <1>0, <1>9 DEF CopiedOK, DebtOK
<1>12. QED
  BY <1>6, <1>7, <1>8, <1>10, <1>11 DEF VInv

\* A lost drive takes its files, and from the ghost what only it held.
LEMMA LoseFacts ==
    ASSUME IInv, VInv, NEW p \in Paths, LoseDrive(p)
    PROVE  /\ \A g \in Files : disk'[p][g] = Missing
           /\ \A q \in Paths : q # p => disk'[q] = disk[q]
           /\ p \in lost' /\ lost \subseteq lost'
           /\ \A q \in Paths : q # p => avail'[q] = avail[q]
           /\ \A g \in Files : kept'[g] <= kept[g] /\ (kept'[g] = Missing \/ Whole(kept'[g]))
           /\ \A g \in Files : kept'[g] # Missing =>
                 \E r \in Roles : disk'[path[r]][g] >= kept'[g]
           /\ \A g \in Files : disk[p][g] \in Contents /\ kept[g] \in Contents
           /\ \A q \in Paths, g \in Files : disk'[q][g] \in Contents /\ kept'[g] \in Contents
<1>0. TypeOK /\ disk \in [Paths -> [Files -> Contents]] /\ avail \in [Paths -> BOOLEAN]
  BY DEF IInv, TypeOK
<1>1. disk' = [disk EXCEPT ![p] = [f \in Files |-> Missing]] /\ kept' = KeptBy(Roles, disk')
  BY DEF LoseDrive
<1>2. disk' \in [Paths -> [Files -> Contents]]
  BY <1>0, <1>1, ContentsAre
<1>3. (\A g \in Files : disk'[p][g] = Missing) /\ \A q \in Paths : q # p => disk'[q] = disk[q]
  BY <1>0, <1>1
<1>4. \A q \in Paths : q # p => avail'[q] = avail[q]
  BY <1>0 DEF LoseDrive
<1>5. p \in lost' /\ lost \subseteq lost'
  BY DEF LoseDrive
<1>6. ASSUME NEW g \in Files
      PROVE  /\ kept'[g] <= kept[g] /\ (kept'[g] = Missing \/ Whole(kept'[g]))
             /\ kept'[g] # Missing => \E r \in Roles : disk'[path[r]][g] >= kept'[g]
             /\ kept'[g] \in Contents
  <2>1. kept[g] = Missing \/ Whole(kept[g])
    BY DEF VInv, DrivesOK
  <2>2. PICK d \in [Paths -> [Files -> Contents]] : d = disk'
    BY <1>2
  <2>a. PICK k : k = kept'[g]
    OBVIOUS
  <2>3. k = KeptBy(Roles, d)[g] /\ Roles \in SUBSET Roles
    BY <1>1, <2>2, <2>a
  <2>4. /\ k \in Contents /\ k <= kept[g] /\ (k = Missing \/ Whole(k))
        /\ k # Missing => \E r \in Roles : d[path[r]][g] >= k
    BY <1>0, <2>1, <2>3, KeptFacts
  <2>5. QED
    BY <2>2, <2>a, <2>4
<1>7. \A g \in Files : disk[p][g] \in Contents /\ kept[g] \in Contents
  BY <1>0 DEF TypeOK
<1>8. QED
  BY <1>2, <1>3, <1>4, <1>5, <1>6, <1>7

\* Where the other drive is torn, nothing of a file is left to keep.
LEMMA LoseTorn ==
    ASSUME IInv, VInv, NEW p \in Paths, LoseDrive(p), NEW g \in Files, NEW r \in Roles,
           path[Other(r)] = p, disk'[path[r]][g] = Torn
    PROVE  kept'[g] = Missing
<1>0. Other(r) \in Roles /\ \A q \in Roles : q = r \/ q = Other(r)
  BY RolesAre
<1>1. disk'[path[Other(r)]][g] = Missing
  BY LoseFacts
<1>2. /\ kept'[g] \in Contents /\ (kept'[g] = Missing \/ Whole(kept'[g]))
      /\ kept'[g] # Missing => \E q \in Roles : disk'[path[q]][g] >= kept'[g]
  BY LoseFacts
<1>3. Whole(kept'[g]) => ~(Torn >= kept'[g]) /\ ~(Missing >= kept'[g])
  BY <1>2, MissingIs
<1>4. QED
  BY <1>0, <1>1, <1>2, <1>3

LEMMA LoseSteps == ASSUME IInv, VInv, NEW p \in Paths, LoseDrive(p) PROVE VInv'
<1> USE DEF pairVars
<1>0. /\ TypeOK
      /\ wpc' = IF wpc = "copying" /\ p \in {Source, Target} THEN "broken" ELSE wpc
      /\ UNCHANGED <<pairVars, fileVars, queue, owing, batch, item, snap, begun, version, crashes>>
  BY DEF LoseDrive, IInv
<1>1. /\ \A g \in Files : disk'[p][g] = Missing
      /\ \A q \in Paths : q # p => disk'[q] = disk[q] /\ avail'[q] = avail[q]
      /\ p \in lost' /\ lost \subseteq lost'
      /\ \A g \in Files : kept'[g] <= kept[g] /\ (kept'[g] = Missing \/ Whole(kept'[g]))
      /\ \A g \in Files : kept'[g] # Missing => \E r \in Roles : disk'[path[r]][g] >= kept'[g]
  BY LoseFacts
<1>2. \A r \in Roles : path[r] \in Paths
  BY <1>0 DEF TypeOK
<1>3. ASSUME NEW r \in Roles, NEW g \in Files
      PROVE  /\ path[r] = p => Good(r, g)'
             /\ path[r] # p /\ Holds(r, g) => Holds(r, g)'
             /\ Good(r, g) => Good(r, g)'
             /\ kept'[g] = Missing => Holds(r, g)'
             /\ kept[g] = Missing => kept'[g] = Missing
  <2>1. kept'[g] \in Int /\ kept[g] \in Int /\ disk[path[r]][g] \in Int
    BY <1>0, <1>2, LoseFacts, MissingIs DEF TypeOK
  <2>2. path[r] = p => Good(r, g)'
    BY <1>0, <1>1 DEF Good
  <2>3. path[r] # p /\ Holds(r, g) => Holds(r, g)'
    BY <1>0, <1>1, <1>2, <2>1 DEF Holds
  <2>4. Good(r, g) => Good(r, g)'
    BY <1>0, <1>1, <1>2, <2>2, <2>3 DEF Good
  <2>5. kept'[g] = Missing => Holds(r, g)'
    BY <1>0, <1>2, LoseFacts, MissingIs DEF Holds
  <2>6. kept[g] = Missing => kept'[g] = Missing
    <3>1. kept'[g] >= Missing /\ kept'[g] <= kept[g] /\ Missing \in Int
      BY LoseFacts, MissingIs
    <3>2. QED
      BY <2>1, <3>1
  <2>7. QED
    BY <2>2, <2>3, <2>4, <2>5, <2>6
<1>4. SlotsOK' /\ RowsOK'
  BY <1>0, SlotsFrame, RowsFrame DEF VInv
<1>5. DrivesOK'
  <2>1. NoVersionLost'
    BY <1>0, <1>1 DEF NoVersionLost
  <2>2. \A q \in Paths : ~avail'[q] => q \in lost' /\ \A g \in Files : disk'[q][g] = Missing
    BY <1>1 DEF VInv, DrivesOK
  <2>3. ASSUME \A r \in Roles : slot'[r] # "failed", NEW g \in Files PROVE Good(active, g)'
    <3>1. PICK a \in Roles : a = active
      BY <1>0 DEF TypeOK
    <3>2. Good(a, g)
      BY <1>0, <2>3, <3>1 DEF VInv, DrivesOK
    <3>3. Good(a, g)'
      BY <1>3, <3>2
    <3>4. QED
      BY <1>0, <3>1, <3>3 DEF Good, Holds
  <2>4. QED
    BY <1>1, <2>1, <2>2, <2>3 DEF DrivesOK
<1>6. ItemOK' /\ SnapOK' /\ FreshOK'
  <2>1. \A r \in Roles, g \in Files : Owed(r, g)' <=> Owed(r, g)
    BY <1>0, OwedFrame
  <2>2. Live' = Live
    BY <1>0 DEF Live
  <2>3. QED
    BY <1>0, <2>1, <2>2 DEF VInv, ItemOK, SnapOK, FreshOK
<1>7. CopyOK'
  <2> SUFFICES ASSUME wpc = "copying", p # Source, p # Target PROVE CopyOK'
    BY <1>0 DEF CopyOK
  <2>a. PICK g \in Files : g = snap.file
    BY DEF IInv, WorkerOK
  <2>1. UNCHANGED <<Source, Target>> /\ Source \in Paths /\ Target \in Paths
    BY <1>0, SnapTyped DEF Source, Target, SourceRole
  <2>2. disk'[Source] = disk[Source] /\ disk'[Target] = disk[Target] /\ avail'[Target] = avail[Target]
    BY <1>1, <2>1
  <2>3. disk[Target][g] = Torn
    BY <2>a DEF VInv, CopyOK
  <2>4. ASSUME NEW r \in Roles, Target' = path'[r] PROVE Holds(Other(r), g)'
    <3>1. Target = path[r] /\ Other(r) \in Roles
      BY <1>0, <2>1, <2>4, RolesAre
    <3>2. CASE path[Other(r)] = p
      <4>1. kept'[g] = Missing
        BY <2>2, <2>3, <3>1, <3>2, LoseTorn
      <4>2. QED
        BY <1>3, <3>1, <4>1
    <3>3. CASE path[Other(r)] # p
      <4>1. Holds(Other(r), g)
        BY <2>a, <3>1 DEF VInv, CopyOK
      <4>2. QED
        BY <1>3, <3>1, <3>3, <4>1
    <3>4. QED
      BY <3>2, <3>3
  <2>5. ASSUME NEW r \in Roles, slot[r] = "rebuilding", Target = path[Other(r)]
        PROVE  kept'[g] = Missing
    <3>1. kept[g] = Missing
      BY <2>a, <2>5 DEF VInv, CopyOK
    <3>2. QED
      BY <1>3, <3>1
  <2>6. QED
    BY <1>0, <2>a, <2>1, <2>2, <2>4, <2>5 DEF VInv, CopyOK
<1>8. CopiedOK'
  <2>1. ASSUME wpc' = "copied", NEW r \in Roles, snap'.slot[r] = "rebuilding"
        PROVE  Good(r, snap.file)'
    <3>1. PICK g \in Files : g = snap.file
      BY <1>0, <2>1 DEF IInv, WorkerOK
    <3>2. Good(r, g)
      BY <1>0, <2>1, <3>1 DEF VInv, CopiedOK
    <3>3. Good(r, g)'
      BY <1>3, <3>2
    <3>4. QED
      BY <1>0, <3>1, <3>3 DEF Good, Holds
  <2>2. QED
    BY <2>1 DEF CopiedOK
<1>9. DebtOK'
  <2>1. ASSUME NEW r \in Roles, NEW g \in Files, slot[r] = "rebuilding"
        PROVE  Owed(r, g)' \/ Good(r, g)' \/ \E i \in RowIds : Redo(i, g)'
    <3>1. Owed(r, g)' <=> Owed(r, g)
      BY <1>0, OwedFrame
    <3>2. Owed(r, g) \/ Good(r, g) \/ \E i \in RowIds : Redo(i, g)
      BY <2>1 DEF VInv, DebtOK
    <3>3. CASE Owed(r, g) \/ Good(r, g)
      BY <1>3, <3>1, <3>3
    <3>4. CASE wpc' = wpc
      <4>1. \A i \in RowIds : Redo(i, g)' <=> Redo(i, g)
        BY <1>0, <3>4, RedoFrame
      <4>2. QED
        BY <3>2, <3>3, <4>1
    <3>5. ASSUME wpc' # wpc, NEW i \in RowIds, Redo(i, g) PROVE Owed(r, g)' \/ Good(r, g)'
      <4>1. wpc = "copying" /\ p \in {Source, Target} /\ item = i /\ snap.file = g
        BY <1>0, <3>5 DEF Redo, VInv, ItemOK
      <4>2. CASE snap.slot[r] # "rebuilding"
        BY <2>1, <3>1, <4>1, <4>2 DEF VInv, SnapOK
      <4>3. CASE snap.slot[r] = "rebuilding"
        <5>1. Source = path[Other(r)] /\ Target = path[r] /\ Source # Target
              /\ disk[Target][g] = Torn
          BY <4>1, <4>3, RebuildCopyIs DEF VInv, CopyOK
        <5>2. CASE p = Target
          BY <1>3, <5>1, <5>2
        <5>3. CASE p = Source
          <6>1. disk'[path[r]][g] = Torn
            BY <1>1, <1>2, <5>1, <5>3
          <6>2. kept'[g] = Missing
            BY <5>1, <5>3, <6>1, LoseTorn
          <6>3. QED
            BY <1>3, <6>2 DEF Good
        <5>4. QED
          BY <4>1, <5>2, <5>3
      <4>4. QED
        BY <4>2, <4>3
    <3>6. QED
      BY <3>2, <3>3, <3>4, <3>5
  <2>2. QED
    BY <1>0, <2>1 DEF DebtOK
<1>10. QED
  BY <1>4, <1>5, <1>6, <1>7, <1>8, <1>9 DEF VInv

\* A crash leaves the drives and the table: a new drain begins with the first row.
LEMMA CrashSteps == ASSUME Orderly, IInv, VInv, Crash PROVE VInv' /\ KeepsDebts
<1> USE DEF pairVars, driveVars, ghostVars
<1>0. /\ \A r \in Roles : owing[r] = {} /\ owing'[r] = {}
      /\ wpc' = "idle" /\ batch' = {} /\ item' = NoRow
      /\ UNCHANGED <<pairVars, driveVars, fileVars, queue, ghostVars, lost>>
  BY OrderlyIs DEF Crash, AssignDone
<1>1. SlotsOK' /\ DrivesOK'
  BY <1>0, SlotsFrame, DrivesFrame DEF VInv
<1>2. RowsOK'
  <2>1. Held' = {}
    BY <1>0 DEF Held
  <2>2. QED
    BY <1>0, <2>1 DEF VInv, RowsOK, JobOf
<1>3. ItemOK' /\ SnapOK' /\ FreshOK' /\ CopyOK' /\ CopiedOK'
  BY <1>0 DEF ItemOK, SnapOK, FreshOK, CopyOK, CopiedOK
<1>4. \A r \in Roles, f \in Files : Owed(r, f) => Owed(r, f)'
  BY <1>0 DEF Owed, JobOf
<1>5. \A i \in RowIds, f \in Files : Redo(i, f) => Redo(i, f)'
  BY <1>0 DEF Redo, Live
<1>6. DebtOK'
  BY <1>0, <1>4, <1>5, GoodFrame DEF VInv, DebtOK
<1>7. QED
  BY <1>1, <1>2, <1>3, <1>4, <1>5, <1>6 DEF VInv, KeepsDebts

\* What changes no mount point, no drive, no row and nothing of the worker's
\* changes nothing.
LEMMA StillSteps ==
    ASSUME VInv, UNCHANGED <<pairVars, driveVars, queue, owing, workerVars, kept, lost>>
    PROVE  VInv'
<1> USE DEF pairVars, driveVars, workerVars
<1>1. SlotsOK' /\ DrivesOK' /\ RowsOK' /\ ItemOK'
  BY SlotsFrame, DrivesFrame, RowsFrame, ItemFrame DEF VInv
<1>2. SnapOK' /\ FreshOK' /\ CopyOK' /\ CopiedOK' /\ DebtOK'
  BY SnapFrame, FreshFrame, CopyFrame, CopiedFrame, DebtFrame DEF VInv
<1>3. QED
  BY <1>1, <1>2 DEF VInv
-----------------------------------------------------------------------------
(* The invariant and what it shows *)

\* A new pair owes nothing.
LEMMA VersionsInit == Init => VInv
<1> SUFFICES ASSUME Init PROVE VInv
  OBVIOUS
<1>0. /\ \A r \in Roles : slot[r] = "active" /\ owing[r] = {} /\ path[r] = Home[r]
      /\ active = "primary" /\ wpc = "idle" /\ batch = {} /\ item = NoRow
      /\ \A i \in RowIds : queue[i] = Absent
      /\ \A f \in Files : kept[f] = 1
      /\ \A p \in Paths : avail[p]
  BY DEF Init
<1>1. \A r \in Roles, f \in Files : Holds(r, f)
  <2>1. \A r \in Roles : Home[r] \in Paths
    BY ConstantsOK
  <2>2. \A r \in Roles, f \in Files : disk[path[r]][f] = 1
    BY <1>0, <2>1 DEF Init
  <2>3. QED
    BY <1>0, <2>2 DEF Holds
<1>2. active \in Roles /\ "primary" \in Roles /\ "secondary" \in Roles
  BY <1>0 DEF Roles
<1>3. SlotsOK
  BY <1>0, <1>2, ConstantsOK DEF SlotsOK
<1>4. DrivesOK
  <2>1. \A f \in Files : kept[f] = Missing \/ Whole(kept[f])
    BY <1>0 DEF Whole, Torn
  <2>2. NoVersionLost
    BY <1>1, <1>2 DEF NoVersionLost, Holds
  <2>3. \A f \in Files : Good(active, f)
    BY <1>1, <1>2 DEF Good
  <2>4. QED
    BY <1>0, <2>1, <2>2, <2>3 DEF DrivesOK
<1>5. RowsOK
  <2>1. Held = {}
    BY <1>0 DEF Held
  <2>2. QED
    BY <1>0, <2>1 DEF RowsOK, JobOf
<1>6. ItemOK /\ SnapOK /\ FreshOK /\ CopyOK /\ CopiedOK /\ DebtOK
  BY <1>0 DEF ItemOK, SnapOK, FreshOK, CopyOK, CopiedOK, DebtOK
<1>7. QED
  BY <1>3, <1>4, <1>5, <1>6 DEF VInv

\* The requests keep the invariant.
LEMMA VersionsRequests == ASSUME Orderly, IInv, VInv, Requests \/ Queueing PROVE VInv'
<1>1. ASSUME NEW r \in Roles, MarkQuiescing(r) PROVE VInv'
  <2>1. slot[r] = "active" /\ slot[Other(r)] = "active" /\ slot' = [slot EXCEPT ![r] = "quiescing"]
        /\ UNCHANGED <<active, path, avail, disk, queue, owing, workerVars, kept, lost>>
    BY <1>1, OrderlyIs DEF MarkQuiescing, driveVars, ghostVars, boundVars
  <2>2. QED
    BY <2>1, QuiesceKeeps
<1>2. ASSUME NEW r \in Roles, CancelQuiescing(r) PROVE VInv'
  <2>1. slot[r] = "quiescing" /\ slot' = [slot EXCEPT ![r] = "active"]
        /\ UNCHANGED <<active, path, avail, disk, queue, owing, workerVars, kept, lost>>
    BY <1>2 DEF CancelQuiescing, driveVars, ghostVars, boundVars
  <2>2. slot[Other(r)] = "active"
    BY <2>1 DEF VInv, SlotsOK
  <2>3. QED
    BY <2>1, <2>2, QuiesceKeeps
<1>3. ASSUME NEW r \in Roles, ConfirmFailure(r) PROVE VInv'
  <2>1. slot[r] = "quiescing" /\ wpc \notin {"loaded", "marked"} /\ GiveUp(r)
        /\ UNCHANGED <<path, driveVars, owing, workerVars, kept, lost>>
    BY <1>3, OrderlyIs DEF ConfirmFailure, BetweenItems, ghostVars, boundVars
  <2>2. slot[Other(r)] = "active"
    BY <2>1 DEF VInv, SlotsOK
  <2>3. QED
    BY <2>1, <2>2, GiveUpKeeps
<1>4. ASSUME EmergencyFailover PROVE VInv'
  <2>1. PICK r \in Roles : r = active
    BY DEF IInv, TypeOK
  <2>2. slot[r] = "active" /\ slot[Other(r)] = "active" /\ wpc \notin {"loaded", "marked"}
        /\ GiveUp(r) /\ UNCHANGED <<path, driveVars, owing, workerVars, kept, lost>>
    BY <1>4, <2>1, OrderlyIs, RolesAre
       DEF EmergencyFailover, FailoverDue, BetweenItems, ghostVars, boundVars
  <2>3. QED
    BY <2>2, GiveUpKeeps
<1>5. ASSUME NEW r \in Roles, NEW p \in Paths, AssignReplacement(r, p) PROVE VInv'
  BY <1>5, AssignKeeps
<1>6. ASSUME NEW r \in Roles, NEW f \in Files, QueueRebuild(r, f) PROVE VInv'
  <2>1. /\ f \in owing[r] /\ Enqueue(f, RebuildAction(r)) /\ RebuildAction(r) \in Actions
        /\ owing' = [owing EXCEPT ![r] = @ \ {f}]
        /\ UNCHANGED <<pairVars, driveVars, workerVars, kept, lost>>
    BY <1>6, RolesAre DEF QueueRebuild, ghostVars, boundVars
  <2>2. \A q \in Roles : RebuildAction(r) = RebuildAction(q) => slot[q] = "rebuilding"
    BY <2>1, RolesAre DEF VInv, RowsOK
  <2>3. owing \in [Roles -> SUBSET Files]
    BY DEF IInv, TypeOK
  <2>4. /\ \A q \in Roles, g \in Files : g \in owing[q] =>
              g \in owing'[q] \/ (RebuildAction(r) = RebuildAction(q) /\ g = f)
        /\ \A q \in Roles : owing'[q] \subseteq owing[q]
    BY <2>1, <2>3
  <2>5. QED
    BY <2>1, <2>2, <2>4, InsertSteps
<1>7. QED
  BY <1>1, <1>2, <1>3, <1>4, <1>5, <1>6 DEF Requests, MarkRequest, CancelRequest,
     ConfirmRequest, AssignRequest, FailoverRequest, ReplaceCommand, Queueing

\* The worker keeps it.
LEMMA VersionsWorker == ASSUME Orderly, IInv, VInv, Worker PROVE VInv'
  BY RequeueSteps, FetchSteps, LoadSteps, MarkSteps, BeginSteps, RefuseSteps, EndSteps,
     SettleCompletedSteps, SettleFailedSteps, FinalizeSteps DEF Worker

\* Users, scans, lost drives and crashes keep it.
LEMMA VersionsEnvironment == ASSUME Orderly, IInv, VInv, Environment PROVE VInv'
<1>1. ASSUME NEW f \in Files, ScanFile(f) PROVE VInv'
  <2>1. UNCHANGED <<pairVars, driveVars, owing, workerVars, kept, lost>>
    BY <1>1 DEF ScanFile, ghostVars, boundVars
  <2>2. CASE UNCHANGED queue
    BY <2>1, <2>2, StillSteps
  <2>3. CASE Enqueue(f, "mirror")
    <3>1. "mirror" \in Actions /\ \A r \in Roles : "mirror" # RebuildAction(r)
      BY RolesAre DEF Actions
    <3>2. QED
      BY <2>1, <2>3, <3>1, InsertSteps
  <2>4. QED
    BY <1>1, <2>2, <2>3 DEF ScanFile
<1>2. QED
  BY <1>1, EditSteps, LoseSteps, CrashSteps DEF Environment

\* The invariant holds throughout.
LEMMA VInvHolds == ASSUME Orderly PROVE Spec => []VInv
<1>1. Init => VInv
  BY VersionsInit
<1>2. IInv /\ VInv /\ [Next]_vars => VInv'
  <2>1. UNCHANGED vars => UNCHANGED <<pairVars, driveVars, queue, owing, workerVars, kept, lost>>
    BY DEF vars, ghostVars, boundVars
  <2>2. QED
    BY <2>1, VersionsRequests, VersionsWorker, VersionsEnvironment, StillSteps DEF Next
<1>3. QED
  BY <1>1, <1>2, IInvHolds, PTL DEF Spec

\* No handler and no transfer destroys the last copy of a version: a copy that
\* truncates a file does so only while the drive in charge holds what is kept,
\* through failovers, replacements, scans during a copy, lost drives and crashes.
THEOREM VersionsSafe == ASSUME Orderly PROVE Spec => []NoVersionLost
<1>1. VInv => NoVersionLost
  BY DEF VInv, DrivesOK
<1>2. QED
  BY <1>1, VInvHolds, PTL

\* Only the finalizer ends a rebuild.
LEMMA OnlyFinalizes ==
    ASSUME IInv, VInv, [Next]_vars, NEW r \in Roles, slot[r] = "rebuilding", slot'[r] = "active"
    PROVE  FinalizeRebuild
<1>0. slot \in [Roles -> States]
  BY DEF IInv, TypeOK
<1> SUFFICES ASSUME ~FinalizeRebuild PROVE FALSE
  OBVIOUS
<1>1. ASSUME NEW q \in Roles, MarkQuiescing(q) \/ CancelQuiescing(q) PROVE FALSE
  BY <1>0, <1>1 DEF MarkQuiescing, CancelQuiescing
<1>2. ASSUME NEW q \in Roles, ConfirmFailure(q) PROVE FALSE
  BY <1>0, <1>2 DEF ConfirmFailure, GiveUp
<1>3. ASSUME EmergencyFailover PROVE FALSE
  BY <1>0, <1>3 DEF EmergencyFailover, FailoverDue
<1>4. ASSUME NEW q \in Roles, NEW p \in Paths, AssignReplacement(q, p) PROVE FALSE
  BY <1>0, <1>4 DEF AssignReplacement
<1>5. ASSUME UNCHANGED slot PROVE FALSE
  BY <1>5
<1>6. CASE Requests
  BY <1>1, <1>2, <1>3, <1>4, <1>6 DEF Requests, MarkRequest, CancelRequest,
     ConfirmRequest, AssignRequest, FailoverRequest, ReplaceCommand
<1>7. CASE Queueing \/ Environment \/ UNCHANGED vars
  BY <1>5, <1>7, OthersMap
<1>8. ASSUME Worker PROVE FALSE
  <2>1. ASSUME NEW i \in RowIds, Load(i) PROVE UNCHANGED slot
    BY <2>1 DEF Load, pairVars
  <2>2. ASSUME NEW c \in Contents, EndCopy(c) PROVE UNCHANGED slot
    BY <2>2 DEF EndCopy, pairVars
  <2>3. CASE Requeue \/ FetchPage \/ MarkInProgress
    BY <1>5, <2>3 DEF Requeue, FetchPage, MarkInProgress, pairVars
  <2>4. CASE BeginCopy \/ RefuseCopy
    BY <1>5, <2>4 DEF BeginCopy, RefuseCopy, pairVars
  <2>5. CASE SettleCompleted \/ SettleFailed
    BY <1>5, <2>5 DEF SettleCompleted, SettleFailed, pairVars
  <2>6. QED
    BY <1>5, <1>8, <2>1, <2>2, <2>3, <2>4, <2>5 DEF Worker
<1>9. QED
  BY <1>6, <1>7, <1>8 DEF Next

\* maybe_finalize_rebuild_for_action makes a slot active again only when its drive
\* holds every file, although it looks at the rows of the rebuild alone and mirror
\* copies of the worker write the same drive.
THEOREM RebuildsPaid == ASSUME Orderly PROVE Spec => RebuildPaid
<1> DEFINE Paid == \A r \in Roles :
                      slot[r] = "rebuilding" /\ slot'[r] = "active" /\ path[r] \notin lost =>
                      \A f \in Files : disk[path[r]][f] >= kept[f]
<1>1. IInv /\ VInv /\ [Next]_vars => Paid
  <2> SUFFICES ASSUME IInv, VInv, [Next]_vars, NEW r \in Roles,
                      slot[r] = "rebuilding", slot'[r] = "active", path[r] \notin lost
               PROVE  \A f \in Files : disk[path[r]][f] >= kept[f]
    OBVIOUS
  <2>1. FinalizeRebuild
    BY OnlyFinalizes
  <2>2. PICK q \in Roles : Finalizable(q) /\ slot' = [slot EXCEPT ![q] = "active"]
    BY <2>1 DEF FinalizeRebuild
  <2>3. q = r
    BY <2>2 DEF IInv, TypeOK
  <2>4. \A f \in Files : Good(r, f)
    BY <2>1, <2>2, <2>3, RebuiltHolds DEF FinalizeRebuild
  <2>5. QED
    BY <2>4 DEF Good, Holds
<1>2. QED
  BY <1>1, IInvHolds, VInvHolds, PTL DEF Spec, RebuildPaid
-----------------------------------------------------------------------------
(* What is marked mirrored is the same on both drives *)

\* No slot is failed or rebuilding, and neither drive of the pair was lost.
Calm == \A r \in Roles : slot[r] \in {"active", "quiescing"}
Intact == \A r \in Roles : path[r] \notin lost

\* A role's drive has what the checksum says, and the standby has it if the drive
\* in charge has it.
Same(r, f) == disk[path[r]][f] = sum[f]
Settled(f) == \A r \in Roles : r = active /\ Same(r, f) => Same(Other(r), f)

\* What a user writes is newer than every checksum.
SumsOK ==
    /\ begun <= version
    /\ \A f \in Files :
          /\ sum[f] # Missing /\ sum[f] <= version
          /\ \A p \in Paths : disk[p][f] <= version

\* The checksum process_item has read is still that of its file.
ReadOK ==
    /\ wpc # "idle" => snap.sum = sum[snap.file]
    /\ wpc \in {"loaded", "marked"} => \A r \in Roles :
          snap.slot[r] # "quiescing" /\ (snap.slot[r] = "failed" => slot[r] = "failed")

\* A transfer between the drives of a calm pair has a live row, and ends with the
\* same file on both or with a change that is still to be found.
FlightOK ==
    Calm /\ Intact => \A f \in Files : f = snap.file =>
       /\ wpc \in {"copying", "copied"} => item \in Live
       /\ wpc = "copying" /\ disk[Source][f] = sum[f] => begun = sum[f]
       /\ wpc = "copied" => Settled(f)
       /\ wpc = "broken" => \A r \in Roles : r = active => ~Same(r, f)

RestoredOK ==
    Intact /\ wpc = "copied" /\ snap.action # "mirror" =>
       \A r \in Roles, f \in Files : f = snap.file => Same(r, f)

SyncOK ==
    Calm /\ Intact => \A f \in Files :
       mirrored[f] /\ (\A i \in Live : queue[i].file # f) => Settled(f)

\* What a rebuild has done is the same on both drives, unless a mirror copy is
\* writing it again.
SameOK ==
    Intact => \A r \in Roles, f \in Files : slot[r] = "rebuilding" =>
       Owed(r, f) \/ (Same(Other(r), f) /\ (Same(r, f) \/ \E i \in RowIds : Redo(i, f)))

\* The inductive invariant, beside IInv and VInv.
MInv == SumsOK /\ ReadOK /\ FlightOK /\ RestoredOK /\ SyncOK /\ SameOK

LEMMA SumsFrame == SumsOK /\ UNCHANGED <<sum, disk, version, begun>> => SumsOK'
  BY DEF SumsOK

LEMMA SameFrame ==
    ASSUME UNCHANGED <<path, disk, sum>>
    PROVE  \A r \in Roles, f \in Files : Same(r, f)' <=> Same(r, f)
  BY DEF Same

LEMMA SettledFrame ==
    ASSUME UNCHANGED <<active, path, disk, sum>>
    PROVE  \A f \in Files : Settled(f)' <=> Settled(f)
  BY DEF Settled, Same

LEMMA FlightFrame ==
    FlightOK /\ UNCHANGED <<slot, active, path, lost, wpc, item, snap, begun, disk, sum, queue>>
    => FlightOK'
<1> SUFFICES ASSUME FlightOK,
                    UNCHANGED <<slot, active, path, lost, wpc, item, snap, begun, disk, sum, queue>>
             PROVE  FlightOK'
  OBVIOUS
<1>1. UNCHANGED <<Source, Live, Calm, Intact>>
  BY DEF Source, SourceRole, Live, Calm, Intact
<1>2. QED
  BY <1>1, SettledFrame, SameFrame DEF FlightOK

LEMMA RestoredFrame ==
    RestoredOK /\ UNCHANGED <<path, lost, wpc, snap, disk, sum>> => RestoredOK'
  BY SameFrame DEF RestoredOK, Intact

\* Steps of the queue alone: no row stops to be live, and no debt is forgotten.
LEMMA QueueOnly ==
    ASSUME MInv, KeepsDebts, UNCHANGED <<slot, active, path, lost, disk, sum, version, mirrored>>,
           wpc' \in {"idle", "loaded", "marked"}, begun' \in {begun, Missing}, TypeOK, ReadOK',
           \A i \in Live : i \in Live' /\ queue'[i].file = queue[i].file
    PROVE  MInv'
<1>1. SumsOK'
  <2>1. Missing <= version
    BY ConstantsOK DEF TypeOK, Missing
  <2>2. QED
    BY <2>1 DEF MInv, SumsOK
<1>2. FlightOK' /\ RestoredOK'
  BY DEF FlightOK, RestoredOK
<1>3. SyncOK'
  BY SettledFrame DEF MInv, SyncOK, Calm, Intact
<1>4. SameOK'
  BY SameFrame, OtherIs DEF MInv, SameOK, Intact, KeepsDebts
<1>5. QED
  BY <1>1, <1>2, <1>3, <1>4 DEF MInv

\* A new drain, its page, the reading of a row and its mark.
LEMMA MirrorQueueSteps ==
    ASSUME Orderly, IInv, VInv, MInv,
           Requeue \/ FetchPage \/ MarkInProgress \/ Crash \/ \E i \in RowIds : Load(i)
    PROVE  MInv'
<1> USE DEF pairVars, driveVars, fileVars, workerVars, ghostVars, boundVars
<1>0. TypeOK
  BY DEF IInv
<1>1. CASE Requeue
  <2>1. KeepsDebts
    BY <1>1, RequeueSteps
  <2>2. ASSUME NEW i \in Live PROVE i \in Live' /\ queue'[i].file = queue[i].file
    <3>1. queue[i] \in Row
      BY <1>0, LiveIs DEF TypeOK
    <3>2. queue'[i] = queue[i] \/ queue'[i] = [queue[i] EXCEPT !.status = "pending"]
      BY <1>1 DEF Requeue, Live
    <3>3. CASE queue'[i] = queue[i]
      BY <3>3 DEF Live
    <3>4. CASE queue'[i] = [queue[i] EXCEPT !.status = "pending"]
      <4>1. queue'[i].status = "pending" /\ queue'[i].file = queue[i].file
        BY <3>1, <3>4 DEF Row
      <4>2. QED
        BY <4>1 DEF Live
    <3>5. QED
      BY <3>2, <3>3, <3>4
  <2>3. wpc' = "idle" /\ UNCHANGED <<slot, active, path, lost, disk, sum, version, mirrored, begun>>
    BY <1>1 DEF Requeue
  <2>4. ReadOK'
    BY <2>3 DEF ReadOK
  <2>5. QED
    BY <1>0, <2>1, <2>2, <2>3, <2>4, QueueOnly
<1>2. CASE FetchPage
  <2>1. KeepsDebts
    BY <1>2, FetchSteps
  <2>2. wpc' = "idle" /\ UNCHANGED <<slot, active, path, lost, disk, sum, version, mirrored, begun, queue>>
    BY <1>2 DEF FetchPage
  <2>3. ReadOK'
    BY <2>2 DEF ReadOK
  <2>4. QED
    BY <1>0, <2>1, <2>2, <2>3, QueueOnly DEF Live
<1>3. CASE MarkInProgress
  <2>1. KeepsDebts
    BY <1>3, MarkSteps
  <2>2. /\ wpc = "loaded" /\ wpc' = "marked" /\ queue' = [queue EXCEPT ![item].status = "in_progress"]
        /\ UNCHANGED <<slot, active, path, lost, disk, sum, version, mirrored, begun, snap>>
    BY <1>3 DEF MarkInProgress
  <2>3. ReadOK'
    BY <2>2 DEF MInv, ReadOK
  <2>4. ASSUME NEW i \in Live PROVE i \in Live' /\ queue'[i].file = queue[i].file
    <3>1. CASE i = item
      BY <2>2, <3>1, StatusFacts DEF Live
    <3>2. CASE i # item
      <4>1. queue'[i] = queue[i]
        BY <2>2, <3>2, StatusFacts DEF Live
      <4>2. QED
        BY <4>1 DEF Live
    <3>3. QED
      BY <3>1, <3>2
  <2>5. QED
    BY <1>0, <2>1, <2>2, <2>3, <2>4, QueueOnly
<1>4. CASE Crash
  <2>1. KeepsDebts
    BY <1>4, CrashSteps
  <2>2. wpc' = "idle" /\ begun' = Missing
        /\ UNCHANGED <<slot, active, path, lost, disk, sum, version, mirrored, queue>>
    BY <1>4 DEF Crash
  <2>3. ReadOK'
    BY <2>2 DEF ReadOK
  <2>4. QED
    BY <1>0, <2>1, <2>2, <2>3, QueueOnly DEF Live
<1>5. ASSUME NEW i \in RowIds, Load(i) PROVE MInv'
  <2>1. KeepsDebts
    BY <1>5, LoadSteps
  <2>2. UNCHANGED <<slot, active, path, lost, disk, sum, version, mirrored, queue, begun>> /\ wpc = "idle"
    BY <1>5 DEF Load
  <2>3. wpc' \in {"idle", "loaded"} /\ ReadOK'
    <3>1. CASE Quiescing
      BY <1>5, <2>2, <3>1 DEF Load, ReadOK
    <3>2. CASE ~Quiescing
      <4>1. wpc' = "loaded" /\ snap'.slot = slot /\ snap'.file = queue[i].file
            /\ snap'.sum = sum[queue[i].file]
        BY <1>5, <3>2 DEF Load
      <4>2. QED
        BY <2>2, <3>2, <4>1 DEF ReadOK, Quiescing
    <3>3. QED
      BY <3>1, <3>2
  <2>4. QED
    BY <1>0, <2>1, <2>2, <2>3, QueueOnly DEF Live
<1>6. QED
  BY <1>1, <1>2, <1>3, <1>4, <1>5

\* While the pair is calm the worker restores nothing.
LEMMA CalmMirrors ==
    ASSUME IInv, VInv, Calm, wpc # "idle"
    PROVE  snap.action = "mirror" /\ \A r \in Roles : snap.slot[r] # "rebuilding"
<1>1. /\ \A r \in Roles : snap.slot[r] # "rebuilding" /\ snap.action # RebuildAction(r)
  BY CalmIs DEF VInv, Calm
<1>2. QED
  BY <1>1, SourceIs, RolesAre DEF IInv

\* The requests: a slot that is given up or rebuilt ends the calm.
LEMMA MirrorRequests ==
    ASSUME Orderly, IInv, VInv, MInv, Requests \/ Queueing
    PROVE  MInv'
<1> USE DEF driveVars, fileVars, workerVars, ghostVars, boundVars
<1>0. TypeOK /\ slot \in [Roles -> States]
  BY DEF IInv, TypeOK
<1>1. ASSUME NEW r \in Roles, MarkQuiescing(r) \/ CancelQuiescing(r) PROVE MInv'
  <2>1. /\ slot[r] \in {"active", "quiescing"} /\ slot[Other(r)] = "active"
        /\ \E s \in {"active", "quiescing"} : slot' = [slot EXCEPT ![r] = s]
        /\ UNCHANGED <<active, path, lost, disk, sum, version, mirrored, queue, wpc, item, snap, begun>>
    BY <1>1, OrderlyIs DEF MarkQuiescing, CancelQuiescing, VInv, SlotsOK
  <2>2. Calm /\ Calm' /\ (Intact' <=> Intact)
    BY <1>0, <2>1, RolesAre DEF Calm, Intact
  <2>3. SumsOK' /\ RestoredOK'
    BY <2>1, SumsFrame, RestoredFrame DEF MInv
  <2>4. ReadOK'
    BY <1>0, <2>1 DEF MInv, ReadOK
  <2>5. FlightOK' /\ SyncOK'
    BY <2>1, <2>2, SettledFrame DEF MInv, FlightOK, SyncOK, Live, Same, Source, SourceRole
  <2>6. SameOK'
    BY <2>2 DEF SameOK, Calm
  <2>7. QED
    BY <2>3, <2>4, <2>5, <2>6 DEF MInv
<1>2. ASSUME NEW r \in Roles, slot[r] \in {"active", "quiescing"}, slot[Other(r)] = "active",
             wpc \notin {"loaded", "marked"}, GiveUp(r),
             UNCHANGED <<path, driveVars, sum, owing, workerVars, ghostVars, boundVars>>
      PROVE  MInv'
  <2>1. slot'[r] = "failed" /\ slot'[Other(r)] = "active" /\ Calm
    BY <1>0, <1>2, RolesAre DEF GiveUp, Calm
  <2>2. ~Calm' /\ \A q \in Roles : slot'[q] # "rebuilding"
    BY <2>1, RolesAre DEF Calm
  <2>3. SumsOK' /\ RestoredOK'
    BY <1>2, SumsFrame, RestoredFrame DEF MInv
  <2>4. ReadOK'
    BY <1>2 DEF MInv, ReadOK
  <2>5. QED
    BY <2>2, <2>3, <2>4 DEF MInv, FlightOK, SyncOK, SameOK
<1>3. ASSUME NEW r \in Roles, ConfirmFailure(r) PROVE MInv'
  <2>1. slot[r] = "quiescing" /\ wpc \notin {"loaded", "marked"} /\ GiveUp(r)
        /\ UNCHANGED <<path, driveVars, sum, owing, workerVars, ghostVars, boundVars>>
    BY <1>3, OrderlyIs DEF ConfirmFailure, BetweenItems
  <2>2. slot[Other(r)] = "active"
    BY <2>1 DEF VInv, SlotsOK
  <2>3. QED
    BY <2>1, <2>2, <1>2
<1>4. ASSUME EmergencyFailover PROVE MInv'
  <2>1. PICK r \in Roles : r = active
    BY DEF IInv, TypeOK
  <2>2. slot[r] = "active" /\ slot[Other(r)] = "active" /\ wpc \notin {"loaded", "marked"}
        /\ GiveUp(r) /\ UNCHANGED <<path, driveVars, sum, owing, workerVars, ghostVars, boundVars>>
    BY <1>4, <2>1, OrderlyIs, RolesAre DEF EmergencyFailover, FailoverDue, BetweenItems
  <2>3. QED
    BY <2>2, <1>2
<1>5. ASSUME NEW r \in Roles, NEW p \in Paths, AssignReplacement(r, p) PROVE MInv'
  <2>1. /\ slot[r] = "failed" /\ wpc \notin {"loaded", "marked"}
        /\ slot' = [slot EXCEPT ![r] = "rebuilding"] /\ owing' = [owing EXCEPT ![r] = Files]
        /\ UNCHANGED <<active, disk, sum, mirrored, version, queue, wpc, item, snap, begun, lost>>
    BY <1>5, OrderlyIs DEF AssignReplacement, BetweenItems
  <2>2. slot'[r] = "rebuilding" /\ slot'[Other(r)] = "active" /\ slot[Other(r)] = "active"
    BY <1>0, <2>1, RolesAre DEF VInv, SlotsOK
  <2>3. ~Calm' /\ \A q \in Roles : slot'[q] = "rebuilding" => q = r
    BY <2>2, RolesAre DEF Calm
  <2>4. \A q \in Roles : slot[q] # "rebuilding"
    BY <2>1, <2>2, RolesAre
  <2>5. SumsOK'
    BY <2>1, SumsFrame DEF MInv
  <2>6. RestoredOK'
    <3>1. wpc # "idle" => \A q \in Roles : snap.action # RebuildAction(q)
      BY <2>4 DEF VInv, SnapOK
    <3>2. wpc # "idle" => snap.action = "mirror"
      BY <1>0, <3>1, SourceIs, RolesAre
    <3>3. QED
      BY <2>1, <3>2 DEF RestoredOK
  <2>7. ReadOK'
    BY <2>1 DEF MInv, ReadOK
  <2>8. SameOK'
    <3>1. \A f \in Files : Owed(r, f)'
      <4>1. owing'[r] = Files
        BY <2>1, <1>0 DEF TypeOK
      <4>2. QED
        BY <4>1 DEF Owed
    <3>2. QED
      BY <2>3, <3>1 DEF SameOK
  <2>9. QED
    BY <2>3, <2>5, <2>6, <2>7, <2>8 DEF MInv, FlightOK, SyncOK
<1>6. ASSUME NEW r \in Roles, NEW f \in Files, QueueRebuild(r, f) PROVE MInv'
  <2>1. /\ f \in owing[r] /\ Enqueue(f, RebuildAction(r)) /\ RebuildAction(r) \in Actions
        /\ owing' = [owing EXCEPT ![r] = @ \ {f}]
        /\ UNCHANGED <<pairVars, driveVars, fileVars, workerVars, version, kept, lost>>
    BY <1>6, RolesAre DEF QueueRebuild
  <2>2. slot[r] = "rebuilding"
    BY <2>1 DEF VInv, RowsOK
  <2>3. KeepsDebts
    <3>1. \A q \in Roles : RebuildAction(r) = RebuildAction(q) => slot[q] = "rebuilding"
      BY <2>2, RolesAre
    <3>2. owing \in [Roles -> SUBSET Files]
      BY DEF IInv, TypeOK
    <3>3. /\ \A q \in Roles, g \in Files : g \in owing[q] =>
                g \in owing'[q] \/ (RebuildAction(r) = RebuildAction(q) /\ g = f)
          /\ \A q \in Roles : owing'[q] \subseteq owing[q]
      BY <2>1, <3>2
    <3>4. UNCHANGED <<pairVars, driveVars, workerVars, kept, lost>>
      BY <2>1
    <3>5. QED
      BY <2>1, <3>1, <3>3, <3>4, InsertSteps
  <2>4. ~Calm'
    BY <2>1, <2>2 DEF Calm, pairVars
  <2>5. SumsOK' /\ RestoredOK' /\ ReadOK'
    BY <2>1, SumsFrame, RestoredFrame DEF MInv, ReadOK, pairVars
  <2>6. SameOK'
    BY <2>1, <2>3, SameFrame, OtherIs DEF MInv, SameOK, Intact, KeepsDebts, pairVars
  <2>7. QED
    BY <2>4, <2>5, <2>6 DEF MInv, FlightOK, SyncOK
<1>7. QED
  BY <1>1, <1>3, <1>4, <1>5, <1>6 DEF Requests, MarkRequest, CancelRequest,
     ConfirmRequest, AssignRequest, FailoverRequest, ReplaceCommand, Queueing

\* A copy begins: its file has a live row, or a rebuild row.
LEMMA MirrorBegins == ASSUME IInv, VInv, MInv, BeginCopy PROVE MInv'
<1> USE DEF pairVars, ghostVars, boundVars, fileVars
<1>a. PICK f \in Files, a \in Roles, t \in Roles : f = snap.file /\ a = active /\ t = Other(active)
  BY OtherIs DEF IInv, TypeOK, WorkerOK, BeginCopy
<1>0. /\ wpc = "marked" /\ wpc' = "copying" /\ begun' = disk[Source][f]
      /\ disk' = [disk EXCEPT ![Target][f] = Torn]
      /\ UNCHANGED <<pairVars, fileVars, queue, owing, batch, item, snap, ghostVars, boundVars>>
  BY <1>a DEF BeginCopy
<1>1. /\ item \in Live /\ queue[item].file = f /\ queue[item].action = snap.action
      /\ snap.action # "mirror" => \E r \in Roles : snap.action = RebuildAction(r) /\ active = Other(r)
      /\ Source = path[active] /\ Target = path[t] /\ Source # Target
      /\ Source \in Paths /\ Target \in Paths /\ TypeOK
  BY <1>0, <1>a, MarkedIs
<1>2. Other(t) = a /\ Other(a) = t /\ \A r \in Roles : r = t \/ r = a
  BY <1>a, RolesAre
<1>3. /\ disk'[Target][f] = Torn
      /\ \A p \in Paths, g \in Files : p # Target \/ g # f => disk'[p][g] = disk[p][g]
  BY <1>0, <1>1 DEF TypeOK
<1>4. UNCHANGED <<Source, Live, Calm, Intact>>
  BY <1>0 DEF Source, SourceRole, Live, Calm, Intact
<1>5. /\ \A r \in Roles, g \in Files : g # f => (Same(r, g)' <=> Same(r, g))
      /\ \A g \in Files : Same(a, g)' <=> Same(a, g)
  BY <1>0, <1>1, <1>3, <1>a DEF Same, TypeOK
<1>6. \A g \in Files : g # f /\ Settled(g) => Settled(g)'
  BY <1>0, <1>5, RolesAre DEF Settled
<1>7. SumsOK'
  <2>1. Torn <= version
    BY <1>1, ConstantsOK DEF TypeOK, Torn
  <2>2. QED
    BY <1>0, <1>1, <1>3, <1>a, <2>1 DEF MInv, SumsOK
<1>8. ReadOK'
  BY <1>0 DEF MInv, ReadOK
<1>9. FlightOK'
  <2>1. disk'[Source][f] = disk[Source][f]
    BY <1>1, <1>3
  <2>2. QED
    BY <1>0, <1>1, <1>4, <1>a, <2>1 DEF FlightOK
<1>10. RestoredOK'
  BY <1>0 DEF RestoredOK
<1>11. SyncOK'
  <2>1. ASSUME Calm, Intact, NEW g \in Files, mirrored[g], \A i \in Live : queue[i].file # g
        PROVE  Settled(g)'
    BY <1>1, <1>6, <2>1 DEF MInv, SyncOK
  <2>2. QED
    BY <1>0, <1>4, <2>1 DEF SyncOK
<1>12. SameOK'
  <2>1. ASSUME Intact, NEW r \in Roles, NEW g \in Files, slot[r] = "rebuilding", ~Owed(r, g)'
        PROVE  Same(Other(r), g)' /\ (Same(r, g)' \/ \E i \in RowIds : Redo(i, g)')
    <3>1. active = Other(r) /\ r = t /\ Other(r) = a
      BY <2>1, <1>2, <1>a, RolesAre DEF VInv, SlotsOK
    <3>2. ~Owed(r, g)
      BY <1>0, <2>1, OwedFrame
    <3>3. Same(Other(r), g) /\ (Same(r, g) \/ \E i \in RowIds : Redo(i, g))
      BY <2>1, <3>2 DEF MInv, SameOK
    <3>4. Same(Other(r), g)'
      BY <1>5, <3>1, <3>3
    <3>5. CASE g # f
      <4>1. \A i \in RowIds : Redo(i, g) => Redo(i, g)'
        BY <1>0 DEF Redo, Live
      <4>2. QED
        BY <1>5, <3>3, <3>4, <3>5, <4>1
    <3>6. CASE g = f
      <4>1. PICK i \in RowIds : i = item /\ i \in Live /\ queue[i] # Absent
        BY <1>1, LiveIs
      <4>2. snap.action = "mirror"
        <5> SUFFICES ASSUME snap.action # "mirror" PROVE FALSE
          OBVIOUS
        <5>1. PICK q \in Roles : snap.action = RebuildAction(q) /\ active = Other(q)
          BY <1>1
        <5>2. q = r
          BY <3>1, <5>1, RolesAre
        <5>3. Owed(r, f)
          BY <1>1, <4>1, <5>1, <5>2 DEF Owed, JobOf
        <5>4. QED
          BY <3>2, <3>6, <5>3
      <4>3. \A j \in Live : i <= j
        BY <1>0, <2>1, <4>1, ItemIsFirst
      <4>4. Redo(i, f)'
        BY <1>0, <1>1, <4>1, <4>2, <4>3 DEF Redo, Live
      <4>5. QED
        BY <3>4, <3>6, <4>4
    <3>7. QED
      BY <3>5, <3>6
  <2>2. QED
    BY <1>0, <1>4, <2>1 DEF SameOK
<1>13. QED
  BY <1>7, <1>8, <1>9, <1>10, <1>11, <1>12 DEF MInv

\* A mirror copy onto a slot that accepts it is refused only where a drive is away
\* or the drive in charge lacks the file.
LEMMA RefusedFor ==
    ASSUME IInv, VInv, MInv, RefuseCopy, Intact, snap.action = "mirror",
           TargetState \in {"active", "rebuilding"}, NEW f \in Files, f = snap.file,
           NEW a \in Roles, a = active
    PROVE  ~Same(a, f)
<1>0. wpc = "marked"
  BY DEF RefuseCopy
<1>1. Source = path[a] /\ Target = path[Other(a)] /\ Source \in Paths /\ Target \in Paths
  BY <1>0, MarkedIs
<1>2. avail[Source] /\ avail[Target]
  BY <1>1, RolesAre DEF VInv, DrivesOK, Intact
<1>3. disk[Source][f] = Missing
  BY <1>2 DEF RefuseCopy, MirrorReady, SourceExists
<1>4. QED
  BY <1>1, <1>3 DEF Same, MInv, SumsOK

LEMMA MirrorRefused == ASSUME IInv, VInv, MInv, RefuseCopy PROVE MInv'
<1> USE DEF pairVars, ghostVars, boundVars, fileVars
<1>a. PICK f \in Files, a \in Roles : f = snap.file /\ a = active
  BY DEF IInv, TypeOK, WorkerOK, RefuseCopy
<1>0. /\ wpc = "marked" /\ wpc' = "broken" /\ TypeOK
      /\ UNCHANGED <<pairVars, avail, disk, fileVars, queue, owing, batch, item, snap, begun, ghostVars, boundVars>>
  BY DEF RefuseCopy, IInv
<1>1. UNCHANGED <<Live, Calm, Intact>>
  BY <1>0 DEF Live, Calm, Intact
<1>2. SumsOK' /\ RestoredOK' /\ ReadOK'
  BY <1>0, SumsFrame DEF MInv, RestoredOK, ReadOK
<1>3. FlightOK'
  <2>1. ASSUME Calm, Intact PROVE ~Same(a, f)
    <3>1. snap.action = "mirror" /\ \A r \in Roles : snap.slot[r] # "rebuilding"
      BY <1>0, <2>1, CalmMirrors
    <3>2. TargetState = snap.slot[Other(a)] /\ Other(a) \in Roles
      BY <1>0, <1>a, MarkedIs, RolesAre
    <3>3. TargetState \in States
      BY <1>0, <3>2 DEF TypeOK
    <3>4. TargetState \notin {"quiescing", "failed"}
      BY <1>0, <2>1, <3>2 DEF MInv, ReadOK, Calm
    <3>5. TargetState \in {"active", "rebuilding"}
      BY <3>3, <3>4 DEF States
    <3>6. QED
      BY <1>a, <2>1, <3>1, <3>5, RefusedFor
  <2>2. \A r \in Roles, g \in Files : Same(r, g)' <=> Same(r, g)
    BY <1>0, SameFrame
  <2>3. QED
    BY <1>0, <1>1, <1>a, <2>1, <2>2 DEF FlightOK
<1>4. SyncOK'
  BY <1>0, <1>1, SettledFrame DEF MInv, SyncOK
<1>5. SameOK'
  <2>1. ASSUME Intact, NEW r \in Roles, slot[r] = "rebuilding", NEW g \in Files,
               NEW i \in RowIds, Redo(i, g)
        PROVE  ~Same(Other(r), g)
    <3>1. item = i /\ snap.action = "mirror" /\ g = f /\ TargetState = snap.slot[Other(a)]
      BY <1>0, <1>a, <2>1, MarkedIs DEF Redo
    <3>2. a = Other(r) /\ Other(a) = r
      BY <1>a, <2>1, RolesAre DEF VInv, SlotsOK
    <3>3. TargetState = "rebuilding"
      BY <1>0, <2>1, <3>1, <3>2 DEF VInv, FreshOK
    <3>4. QED
      BY <1>a, <2>1, <3>1, <3>2, <3>3, RefusedFor
  <2>2. \A r \in Roles, g \in Files : (Owed(r, g)' <=> Owed(r, g)) /\ (Same(r, g)' <=> Same(r, g))
    BY <1>0, OwedFrame, SameFrame
  <2>3. QED
    BY <1>0, <1>1, <2>1, <2>2, OtherIs DEF MInv, SameOK
<1>6. QED
  BY <1>2, <1>3, <1>4, <1>5 DEF MInv

\* A copy ends: a mirror copy wrote what the drive in charge has unless that
\* changed, a restore copy what the checksum says.
LEMMA MirrorEnds == ASSUME IInv, VInv, MInv, NEW c \in Contents, EndCopy(c) PROVE MInv'
<1> USE DEF pairVars, ghostVars, boundVars, fileVars
<1>a. PICK f \in Files, a \in Roles : f = snap.file /\ a = active
  BY DEF IInv, TypeOK, WorkerOK, EndCopy
<1>0. /\ wpc = "copying" /\ wpc' \in {"copied", "broken"} /\ TypeOK
      /\ UNCHANGED <<pairVars, avail, marker, fileVars, queue, owing, batch, item, snap, begun, ghostVars, boundVars>>
  BY EndIs DEF IInv
<1>1. PICK w \in {c, Missing} : disk' = [disk EXCEPT ![Target][f] = w]
  BY EndIs, <1>a
<1>2. Source \in Paths /\ Target \in Paths /\ Source # Target /\ \A r \in Roles : path[r] \in Paths
  BY <1>0, SnapTyped DEF VInv, CopyOK, TypeOK
<1>3. /\ disk'[Target][f] = w
      /\ \A p \in Paths, g \in Files : p # Target \/ g # f => disk'[p][g] = disk[p][g]
  BY <1>0, <1>1, <1>2 DEF TypeOK
<1>4. UNCHANGED <<Source, Target, Live, Calm, Intact>>
  BY <1>0 DEF Source, Target, SourceRole, Live, Calm, Intact
<1>5. \A r \in Roles, g \in Files : path[r] # Target \/ g # f => (Same(r, g)' <=> Same(r, g))
  BY <1>0, <1>2, <1>3 DEF Same
<1>6. \A g \in Files : g # f /\ Settled(g) => Settled(g)'
  BY <1>0, <1>5, RolesAre DEF Settled
<1>7. SumsOK'
  <2>1. Torn <= version /\ Missing <= version
    BY <1>0, ConstantsOK DEF TypeOK, Torn, Missing
  <2>2. c <= version
    BY <1>0, <1>2, <1>a, <2>1 DEF EndCopy, ReadBy, MInv, SumsOK
  <2>3. QED
    BY <1>0, <1>2, <1>3, <2>1, <2>2 DEF MInv, SumsOK
<1>8. ReadOK'
  BY <1>0 DEF MInv, ReadOK
<1>9. ASSUME wpc' = "copied" \/ snap.action = "mirror" PROVE disk'[Target][f] = c /\ wpc' = "copied"
  BY <1>0, <1>2, <1>9, <1>a, EndIs DEF TypeOK
<1>10. FlightOK'
  <2> SUFFICES ASSUME Calm, Intact PROVE FlightOK'
    BY <1>4 DEF FlightOK
  <2>1. snap.action = "mirror"
    BY <1>0, CalmMirrors
  <2>2. item \in Live /\ (disk[Source][f] = sum[f] => begun = sum[f])
    BY <1>0, <1>a DEF MInv, FlightOK
  <2>3. snap.path = path /\ snap.active = active
    BY <1>0 DEF VInv, CopyOK, Calm
  <2>4. Source = path[a] /\ Target = path[Other(a)]
    BY <1>0, <1>a, <2>1, <2>3, SourceIs DEF Source, Target
  <2>5. Same(a, f) => Same(Other(a), f)'
    <3>1. ASSUME Same(a, f) PROVE c = sum[f]
      <4>1. begun = disk[Source][f] /\ begun = sum[f]
        BY <2>2, <2>4, <3>1 DEF Same
      <4>2. QED
        BY <1>a, <4>1, EndIs
    <3>2. QED
      BY <1>0, <1>9, <2>1, <2>4, <3>1 DEF Same
  <2>6. Same(a, f)' <=> Same(a, f)
    BY <1>2, <1>5, <2>4
  <2>7. Settled(f)'
    BY <1>0, <1>a, <2>5, <2>6 DEF Settled
  <2>8. wpc' = "copied"
    BY <1>9, <2>1
  <2>9. QED
    BY <1>0, <1>4, <1>a, <2>2, <2>7, <2>8 DEF FlightOK
<1>11. ASSUME NEW r \in Roles, snap.slot[r] = "rebuilding"
       PROVE  /\ Same(Other(r), f)' <=> Same(Other(r), f)
              /\ snap.action = "mirror" \/ wpc' = "copied" => (Same(r, f)' <=> Same(Other(r), f))
  <2>1. Source = path[Other(r)] /\ Target = path[r] /\ begun = disk[Source][f] /\ Other(r) \in Roles
    BY <1>0, <1>11, <1>a, RebuildCopyIs, RolesAre DEF VInv, CopyOK
  <2>2. c = disk[Source][f]
    BY <1>a, <2>1, EndIs
  <2>3. QED
    BY <1>0, <1>2, <1>5, <1>9, <2>1, <2>2 DEF Same
<1>12. RestoredOK'
  <2> SUFFICES ASSUME Intact, wpc' = "copied", snap.action # "mirror"
               PROVE  \A r \in Roles : Same(r, f)'
    BY <1>0, <1>4, <1>a DEF RestoredOK
  <2>1. PICK r \in Roles : snap.action = RebuildAction(r)
    BY <1>0, SourceIs, RolesAre
  <2>2. snap.slot[r] = "rebuilding"
    BY <1>0, <2>1 DEF VInv, SnapOK
  <2>3. Source = path[Other(r)] /\ begun = disk[Source][f]
    BY <1>0, <1>a, <2>2, RebuildCopyIs DEF VInv, CopyOK
  <2>4. c = snap.sum /\ c = begun
    BY <1>a, <2>3, EndIs DEF EndCopy
  <2>5. snap.sum = sum[f]
    BY <1>0, <1>a DEF MInv, ReadOK
  <2>6. Same(Other(r), f)
    BY <2>3, <2>4, <2>5 DEF Same
  <2>7. Same(Other(r), f)' /\ Same(r, f)'
    BY <1>11, <2>2, <2>6
  <2>8. QED
    BY <2>7, RolesAre
<1>13. SyncOK'
  <2>1. ASSUME Calm, Intact, NEW g \in Files, mirrored[g], \A i \in Live : queue[i].file # g
        PROVE  Settled(g)'
    <3>1. item \in Live /\ queue[item].file = f
      BY <1>0, <1>a, <2>1 DEF MInv, FlightOK, VInv, ItemOK
    <3>2. QED
      BY <1>6, <2>1, <3>1 DEF MInv, SyncOK
  <2>2. QED
    BY <1>0, <1>4, <2>1 DEF SyncOK
<1>14. SameOK'
  <2>1. ASSUME Intact, NEW r \in Roles, NEW g \in Files, slot[r] = "rebuilding", ~Owed(r, g)'
        PROVE  Same(Other(r), g)' /\ Same(r, g)'
    <3>1. ~Owed(r, g)
      BY <1>0, <2>1, OwedFrame
    <3>2. Same(Other(r), g) /\ (Same(r, g) \/ \E i \in RowIds : Redo(i, g))
      BY <2>1, <3>1 DEF MInv, SameOK
    <3>3. snap.slot[r] = "rebuilding"
      BY <1>0, <2>1, <3>1 DEF VInv, SnapOK
    <3>4. CASE g # f
      <4>1. \A i \in RowIds : ~Redo(i, g)
        BY <1>0, <1>a, <3>4 DEF VInv, ItemOK, Redo
      <4>2. QED
        BY <1>5, <3>2, <3>4, <4>1, OtherIs
    <3>5. CASE g = f
      <4>1. snap.action = "mirror"
        <5> SUFFICES ASSUME snap.action # "mirror" PROVE FALSE
          OBVIOUS
        <5>1. snap.action = RebuildAction(r)
          BY <1>0, <3>3, RebuildCopyIs
        <5>2. /\ item \in RowIds /\ queue[item] # Absent
              /\ queue[item].file = f /\ queue[item].action = RebuildAction(r)
          BY <1>0, <1>a, <5>1, AbsentIsNoRow DEF VInv, ItemOK, IInv, WorkerOK
        <5>3. QED
          BY <3>1, <3>5, <5>2 DEF Owed, JobOf
      <4>2. QED
        BY <1>11, <3>2, <3>3, <3>5, <4>1
    <3>6. QED
      BY <3>4, <3>5
  <2>2. QED
    BY <1>0, <1>4, <2>1 DEF SameOK
<1>15. QED
  BY <1>7, <1>8, <1>10, <1>12, <1>13, <1>14 DEF MInv

\* A transfer is settled: the standby has what it copied, or the row has failed
\* with a change still to be found.
LEMMA MirrorCompleted == ASSUME IInv, VInv, MInv, SettleCompleted PROVE MInv'
<1> USE DEF pairVars, driveVars, ghostVars, boundVars
<1>a. PICK f \in Files : f = snap.file
  BY DEF IInv, WorkerOK, SettleCompleted
<1>0. /\ wpc = "copied" /\ wpc' = "finalize" /\ TypeOK /\ item' = NoRow /\ begun' = Missing
      /\ item \in RowIds /\ queue[item] \in Row
      /\ queue' = [queue EXCEPT ![item] = Absent]
      /\ mirrored' = [mirrored EXCEPT ![f] = TRUE]
      /\ UNCHANGED <<pairVars, driveVars, sum, owing, batch, snap, ghostVars, boundVars>>
  BY <1>a DEF SettleCompleted, IInv, WorkerOK
<1>1. /\ queue'[item] = Absent
      /\ \A i \in RowIds : i # item => queue'[i] = queue[i]
  BY <1>0 DEF TypeOK
<1>2. queue[item].file = f /\ queue[item].action = snap.action
  BY <1>0, <1>a DEF VInv, ItemOK
<1>3. Calm' = Calm /\ Intact' = Intact
  BY <1>0 DEF Calm, Intact
<1>4. \A r \in Roles, g \in Files : Same(r, g)' <=> Same(r, g)
  BY <1>0, SameFrame
<1>5. \A g \in Files : Settled(g)' <=> Settled(g)
  BY <1>0, SettledFrame
<1>6. SumsOK'
  <2>1. Missing <= version
    BY <1>0, ConstantsOK DEF TypeOK, Missing
  <2>2. QED
    BY <1>0, <2>1 DEF MInv, SumsOK
<1>7. ReadOK' /\ FlightOK' /\ RestoredOK'
  BY <1>0 DEF MInv, ReadOK, FlightOK, RestoredOK
<1>8. SyncOK'
  <2>1. ASSUME Calm, Intact, NEW g \in Files, mirrored'[g], \A i \in Live' : queue'[i].file # g
        PROVE  Settled(g)
    <3>1. CASE g = f
      BY <1>0, <1>a, <2>1, <3>1 DEF MInv, FlightOK
    <3>2. CASE g # f
      <4>1. mirrored[g]
        BY <1>0, <2>1, <3>2 DEF TypeOK
      <4>2. \A i \in Live : queue[i].file # g
        BY <1>1, <1>2, <2>1, <3>2 DEF Live
      <4>3. QED
        BY <2>1, <4>1, <4>2 DEF MInv, SyncOK
    <3>3. QED
      BY <3>1, <3>2
  <2>2. QED
    BY <1>3, <1>5, <2>1 DEF SyncOK
<1>9. SameOK'
  <2>1. ASSUME Intact, NEW r \in Roles, NEW g \in Files, slot[r] = "rebuilding", ~Owed(r, g)'
        PROVE  Same(Other(r), g) /\ Same(r, g)
    <3>1. CASE Owed(r, g)
      <4>1. PICK i \in RowIds : JobOf(i, r, g) /\ ~JobOf(i, r, g)'
        BY <1>0, <2>1, <3>1 DEF Owed
      <4>2. i = item
        BY <1>1, <4>1 DEF JobOf
      <4>3. g = f /\ snap.action = RebuildAction(r)
        BY <1>2, <4>1, <4>2 DEF JobOf
      <4>4. QED
        BY <1>0, <1>a, <2>1, <4>3, RolesAre DEF MInv, RestoredOK
    <3>2. CASE ~Owed(r, g)
      <4>1. \A i \in RowIds : ~Redo(i, g)
        BY <1>0 DEF Redo
      <4>2. QED
        BY <2>1, <3>2, <4>1 DEF MInv, SameOK
    <3>3. QED
      BY <3>1, <3>2
  <2>2. QED
    BY <1>0, <1>3, <1>4, <2>1, OtherIs DEF SameOK
<1>10. QED
  BY <1>6, <1>7, <1>8, <1>9 DEF MInv

LEMMA MirrorFailed == ASSUME IInv, VInv, MInv, SettleFailed PROVE MInv'
<1> USE DEF pairVars, driveVars, fileVars, ghostVars, boundVars
<1>a. PICK f \in Files, a \in Roles : f = snap.file /\ a = active
  BY DEF IInv, TypeOK, WorkerOK, SettleFailed
<1>0. /\ wpc = "broken" /\ wpc' = "idle" /\ TypeOK /\ item' = NoRow /\ begun' = Missing
      /\ queue' = [queue EXCEPT ![item].status = "failed"]
      /\ UNCHANGED <<pairVars, driveVars, fileVars, owing, batch, ghostVars, boundVars>>
  BY DEF SettleFailed, IInv
<1>1. item \in RowIds /\ queue[item].file = f /\ queue'[item].status = "failed"
      /\ \A i \in RowIds : i # item => queue'[i] = queue[i]
  BY <1>0, <1>a, StatusFacts DEF VInv, ItemOK
<1>2. Calm' = Calm /\ Intact' = Intact
  BY <1>0 DEF Calm, Intact
<1>3. \A r \in Roles, g \in Files : (Same(r, g)' <=> Same(r, g)) /\ (Owed(r, g)' <=> Owed(r, g))
  <2>1. \A i \in RowIds, r \in Roles, g \in Files : JobOf(i, r, g)' <=> JobOf(i, r, g)
    BY <1>0, StatusFacts
  <2>2. \A r \in Roles, g \in Files : Same(r, g)' <=> Same(r, g)
    BY <1>0, SameFrame
  <2>3. QED
    BY <1>0, <2>1, <2>2 DEF Owed
<1>4. \A g \in Files : Settled(g)' <=> Settled(g)
  BY <1>0, SettledFrame
<1>5. SumsOK'
  <2>1. Missing <= version
    BY <1>0, ConstantsOK DEF TypeOK, Missing
  <2>2. QED
    BY <1>0, <2>1 DEF MInv, SumsOK
<1>6. ReadOK' /\ FlightOK' /\ RestoredOK'
  BY <1>0 DEF ReadOK, FlightOK, RestoredOK
<1>7. SyncOK'
  <2>1. ASSUME Calm, Intact, NEW g \in Files, mirrored[g], \A i \in Live' : queue'[i].file # g
        PROVE  Settled(g)
    <3>1. CASE g = f
      <4>1. ~Same(a, f)
        BY <1>0, <1>a, <2>1 DEF MInv, FlightOK
      <4>2. QED
        BY <1>a, <3>1, <4>1 DEF Settled
    <3>2. CASE g # f
      <4>1. \A i \in Live : queue[i].file # g
        BY <1>1, <2>1, <3>2 DEF Live
      <4>2. QED
        BY <2>1, <4>1 DEF MInv, SyncOK
    <3>3. QED
      BY <3>1, <3>2
  <2>2. QED
    BY <1>0, <1>2, <1>4, <2>1 DEF SyncOK
<1>8. SameOK'
  <2>1. \A i \in RowIds, g \in Files : ~Redo(i, g)
    BY <1>0 DEF Redo
  <2>2. QED
    BY <1>0, <1>2, <1>3, <2>1, OtherIs DEF MInv, SameOK
<1>9. QED
  BY <1>5, <1>6, <1>7, <1>8 DEF MInv

\* A rebuild that is finished leaves the same files on both drives.
LEMMA MirrorFinalized == ASSUME IInv, VInv, MInv, FinalizeRebuild PROVE MInv'
<1> USE DEF pairVars, driveVars, ghostVars, boundVars
<1>0. /\ wpc = "finalize" /\ wpc' = "idle" /\ TypeOK
      /\ UNCHANGED <<path, driveVars, sum, queue, owing, batch, item, begun, ghostVars, boundVars>>
  BY DEF FinalizeRebuild, IInv
<1>1. Intact' = Intact /\ \A r \in Roles, g \in Files : Same(r, g)' <=> Same(r, g)
  BY <1>0, SameFrame DEF Intact
<1>2. SumsOK' /\ ReadOK' /\ FlightOK' /\ RestoredOK'
  BY <1>0, SumsFrame DEF MInv, ReadOK, FlightOK, RestoredOK
<1>3. \A i \in RowIds, g \in Files : ~Redo(i, g)
  BY <1>0 DEF Redo
<1>4. CASE UNCHANGED <<slot, active, mirrored>>
  <2>1. SyncOK'
    BY <1>0, <1>1, <1>4, SettledFrame DEF MInv, SyncOK, Calm, Live
  <2>2. \A r \in Roles, g \in Files : Owed(r, g)' <=> Owed(r, g)
    BY <1>0, OwedFrame
  <2>3. SameOK'
    BY <1>0, <1>1, <1>3, <1>4, <2>2, OtherIs DEF MInv, SameOK
  <2>4. QED
    BY <1>2, <2>1, <2>3 DEF MInv
<1>5. ASSUME NEW r \in Roles, Finalizable(r), slot' = [slot EXCEPT ![r] = "active"]
      PROVE  MInv'
  <2>1. slot[r] = "rebuilding" /\ slot[Other(r)] = "active"
    BY <1>5 DEF Finalizable, VInv, SlotsOK
  <2>2. \A q \in Roles : slot'[q] = "active"
    BY <1>0, <1>5, <2>1, RolesAre DEF TypeOK
  <2>3. \A g \in Files : ~Owed(r, g)
    BY <1>0, <1>5, RebuiltHolds DEF Owed
  <2>4. Intact => \A q \in Roles, g \in Files : Same(q, g)
    <3>1. Intact => \A g \in Files : Same(Other(r), g) /\ Same(r, g)
      BY <1>3, <2>1, <2>3 DEF MInv, SameOK
    <3>2. QED
      BY <3>1, RolesAre
  <2>5. SyncOK'
    <3>1. Intact' => \A q \in Roles, g \in Files : Same(q, g)'
      BY <1>1, <2>4
    <3>2. QED
      BY <3>1, OtherIs DEF SyncOK, Settled
  <2>6. SameOK'
    BY <2>2 DEF SameOK
  <2>7. QED
    BY <1>2, <2>5, <2>6 DEF MInv
<1>6. QED
  BY <1>4, <1>5 DEF FinalizeRebuild

\* What a user writes is newer than the checksum, so the change can be found.
LEMMA MirrorEdited == ASSUME Orderly, IInv, VInv, MInv, NEW f \in Files, Edit(f) PROVE MInv'
<1> USE DEF pairVars, workerVars, fileVars, boundVars
<1>a. PICK a \in Roles : a = active
  BY DEF IInv, TypeOK
<1>0. /\ TypeOK /\ \A r \in Roles : slot[r] = "active"
      /\ version \in Nat \ {0} /\ version' = version + 1
      /\ disk' = [disk EXCEPT ![path[a]][f] = version']
      /\ UNCHANGED <<pairVars, fileVars, queue, owing, workerVars, boundVars>>
  <2>1. version \in Nat \ {0}
    BY ConstantsOK DEF IInv, TypeOK
  <2>2. QED
    BY <1>a, <2>1, OrderlyIs DEF Edit, IInv
<1>1. /\ \A r \in Roles : path[r] \in Paths
      /\ disk'[path[a]][f] = version'
      /\ \A p \in Paths, g \in Files : p # path[a] \/ g # f => disk'[p][g] = disk[p][g]
  BY <1>0 DEF TypeOK
<1>2. /\ begun \in Int /\ \A g \in Files : sum[g] \in Int
      /\ \A p \in Paths, g \in Files : disk[p][g] \in Int
  BY <1>0, MissingIs DEF TypeOK
<1>3. Calm /\ Calm' = Calm /\ Intact' = Intact /\ Live' = Live /\ Source' = Source
  BY <1>0 DEF Calm, Intact, Live, Source, SourceRole
<1>4. SumsOK'
  <2>1. begun' <= version' /\ \A g \in Files : sum'[g] # Missing /\ sum'[g] <= version'
    BY <1>0, <1>2 DEF MInv, SumsOK
  <2>2. ASSUME NEW p \in Paths, NEW g \in Files PROVE disk'[p][g] <= version'
    <3>1. CASE p = path[a] /\ g = f
      BY <1>0, <1>1, <3>1
    <3>2. CASE p # path[a] \/ g # f
      BY <1>0, <1>1, <1>2, <3>2 DEF MInv, SumsOK
    <3>3. QED
      BY <3>1, <3>2
  <2>3. QED
    BY <2>1, <2>2 DEF SumsOK
<1>5. version' # sum[f]
  BY <1>0, <1>2 DEF MInv, SumsOK
<1>6. ~Same(a, f)' /\ \A r \in Roles, g \in Files : g # f => (Same(r, g)' <=> Same(r, g))
  BY <1>0, <1>1, <1>5 DEF Same
<1>7. \A g \in Files : Settled(g) => Settled(g)'
  BY <1>0, <1>6, <1>a, OtherIs DEF Settled
<1>8. ReadOK'
  BY <1>0 DEF MInv, ReadOK
<1>9. FlightOK'
  <2> SUFFICES ASSUME Intact, NEW g \in Files, g = snap.file
               PROVE  /\ wpc \in {"copying", "copied"} => item \in Live
                      /\ wpc = "copying" /\ disk'[Source][g] = sum[g] => begun = sum[g]
                      /\ wpc = "copied" => Settled(g)'
                      /\ wpc = "broken" => \A r \in Roles : r = active => ~Same(r, g)'
    BY <1>0, <1>3 DEF FlightOK
  <2>1. /\ wpc \in {"copying", "copied"} => item \in Live
        /\ wpc = "copying" /\ disk[Source][g] = sum[g] => begun = sum[g]
        /\ wpc = "copied" => Settled(g)
        /\ wpc = "broken" => ~Same(a, g)
    BY <1>3, <1>a DEF MInv, FlightOK
  <2>2. wpc = "copying" => Source = path[a]
    <3>1. wpc = "copying" => snap.action = "mirror" /\ snap.path = path /\ snap.active = active
      BY <1>3, CalmMirrors DEF VInv, CopyOK, Calm
    <3>2. QED
      BY <1>0, <1>a, <3>1, SourceIs DEF Source
  <2>3. wpc = "copying" /\ disk'[Source][g] = sum[g] => begun = sum[g]
    BY <1>1, <1>5, <2>1, <2>2
  <2>4. wpc = "broken" => ~Same(a, g)'
    BY <1>6, <2>1
  <2>5. QED
    BY <1>7, <1>a, <2>1, <2>3, <2>4
<1>10. RestoredOK'
  <2>1. wpc # "idle" => snap.action = "mirror"
    BY <1>3, CalmMirrors
  <2>2. QED
    BY <1>0, <2>1 DEF RestoredOK
<1>11. SyncOK' /\ SameOK'
  BY <1>0, <1>3, <1>7 DEF MInv, SyncOK, SameOK
<1>12. QED
  BY <1>4, <1>8, <1>9, <1>10, <1>11 DEF MInv

\* A scan that finds a change of a file the worker is not working on takes the
\* mark from it.
LEMMA MirrorScanned ==
    ASSUME Allowed = {}, IInv, VInv, MInv, NEW f \in Files, ScanFile(f)
    PROVE  MInv'
<1> USE DEF pairVars, driveVars, workerVars, ghostVars, boundVars
<1>a. PICK a \in Roles : a = active
  BY DEF IInv, TypeOK
<1>0. /\ TypeOK /\ snap.file # f /\ disk[path[a]][f] \notin {Missing, sum[f]}
      /\ sum' = [sum EXCEPT ![f] = disk[path[a]][f]]
      /\ mirrored' = [mirrored EXCEPT ![f] = FALSE]
      /\ Enqueue(f, "mirror") \/ UNCHANGED queue
      /\ UNCHANGED <<pairVars, driveVars, owing, workerVars, ghostVars, boundVars>>
  BY <1>a DEF ScanFile, IInv
<1>1. /\ path[a] \in Paths /\ sum'[f] = disk[path[a]][f] /\ ~mirrored'[f]
      /\ \A g \in Files : g # f => sum'[g] = sum[g] /\ mirrored'[g] = mirrored[g]
  BY <1>0 DEF TypeOK
<1>2. KeepsDebts /\ \A i \in Live : i \in Live' /\ queue'[i] = queue[i]
  <2>1. CASE UNCHANGED queue
    BY <1>0, <2>1, OwedFrame, RedoFrame DEF KeepsDebts, Live
  <2>2. CASE Enqueue(f, "mirror")
    <3>1. "mirror" \in Actions /\ \A r \in Roles : "mirror" # RebuildAction(r)
      BY RolesAre DEF Actions
    <3>2. UNCHANGED <<pairVars, driveVars, workerVars, kept, lost>> /\ UNCHANGED owing
      BY <1>0
    <3>3. KeepsDebts
      BY <2>2, <3>1, <3>2, InsertSteps
    <3>4. \A i \in Live : i \in Live' /\ queue'[i] = queue[i]
      BY <1>0, <2>2, <3>1, InsertKeeps
    <3>5. QED
      BY <3>3, <3>4
  <2>3. QED
    BY <1>0, <2>1, <2>2
<1>3. Calm' = Calm /\ Intact' = Intact /\ Source' = Source
  BY <1>0 DEF Calm, Intact, Source, SourceRole
<1>4. \A r \in Roles, g \in Files : g # f => (Same(r, g)' <=> Same(r, g))
  BY <1>0, <1>1 DEF Same
<1>5. \A g \in Files : g # f => (Settled(g)' <=> Settled(g))
  BY <1>0, <1>4, OtherIs DEF Settled
<1>6. SumsOK'
  BY <1>0, <1>1 DEF MInv, SumsOK
<1>7. ReadOK'
  <2>1. wpc # "idle" => sum'[snap.file] = sum[snap.file]
    BY <1>0, <1>1 DEF IInv, WorkerOK
  <2>2. QED
    BY <1>0, <2>1 DEF MInv, ReadOK
<1>8. FlightOK'
  BY <1>0, <1>1, <1>2, <1>3, <1>4, <1>5 DEF MInv, FlightOK
<1>9. RestoredOK'
  BY <1>0, <1>3, <1>4 DEF MInv, RestoredOK
<1>10. SyncOK'
  <2>1. ASSUME Calm, Intact, NEW g \in Files, mirrored'[g], \A i \in Live' : queue'[i].file # g
        PROVE  Settled(g)'
    <3>1. g # f
      BY <1>1, <2>1
    <3>2. mirrored[g] /\ \A i \in Live : queue[i].file # g
      BY <1>1, <1>2, <2>1, <3>1
    <3>3. QED
      BY <1>5, <2>1, <3>1, <3>2 DEF MInv, SyncOK
  <2>2. QED
    BY <1>3, <2>1 DEF SyncOK
<1>11. SameOK'
  <2>1. ASSUME Intact, NEW r \in Roles, NEW g \in Files, slot[r] = "rebuilding", ~Owed(r, g)'
        PROVE  Same(Other(r), g)' /\ (Same(r, g)' \/ \E i \in RowIds : Redo(i, g)')
    <3>1. ~Owed(r, g)
      BY <1>2, <2>1 DEF KeepsDebts
    <3>2. Same(Other(r), g) /\ (Same(r, g) \/ \E i \in RowIds : Redo(i, g))
      BY <2>1, <3>1 DEF MInv, SameOK
    <3>3. g # f
      <4>1. a = Other(r)
        BY <1>a, <2>1 DEF VInv, SlotsOK
      <4>2. ~Same(a, f)
        BY <1>0 DEF Same
      <4>3. QED
        BY <3>2, <4>1, <4>2
    <3>4. (\E i \in RowIds : Redo(i, g)) => (\E i \in RowIds : Redo(i, g)')
      BY <1>2, <2>1 DEF KeepsDebts
    <3>5. QED
      BY <1>4, <3>2, <3>3, <3>4, OtherIs
  <2>2. QED
    BY <1>0, <1>3, <2>1 DEF SameOK
<1>12. QED
  BY <1>6, <1>7, <1>8, <1>9, <1>10, <1>11 DEF MInv

\* A lost drive is not one of an intact pair.
LEMMA MirrorLost == ASSUME IInv, VInv, MInv, NEW p \in Paths, LoseDrive(p) PROVE MInv'
<1> USE DEF pairVars, fileVars
<1>0. /\ TypeOK /\ \A r \in Roles : path[r] \in Paths
      /\ wpc' = IF wpc = "copying" /\ p \in {Source, Target} THEN "broken" ELSE wpc
      /\ UNCHANGED <<pairVars, fileVars, queue, owing, batch, item, snap, begun, version, crashes>>
  BY DEF LoseDrive, IInv, TypeOK
<1>1. /\ \A g \in Files : disk'[p][g] = Missing
      /\ \A q \in Paths : q # p => disk'[q] = disk[q]
      /\ p \in lost' /\ lost \subseteq lost'
  BY LoseFacts
<1>2. Calm' = Calm /\ Live' = Live /\ Source' = Source
      /\ (Intact' => Intact /\ \A r \in Roles : path[r] # p)
  BY <1>0, <1>1 DEF Calm, Live, Source, SourceRole, Intact
<1>3. Intact' => \A r \in Roles, g \in Files : Same(r, g)' <=> Same(r, g)
  BY <1>0, <1>1, <1>2 DEF Same
<1>4. Intact' => \A g \in Files : Settled(g)' <=> Settled(g)
  BY <1>0, <1>3, OtherIs DEF Settled
<1>5. SumsOK'
  <2>1. Missing <= version
    BY <1>0, ConstantsOK DEF TypeOK, Missing
  <2>2. ASSUME NEW q \in Paths, NEW g \in Files PROVE disk'[q][g] <= version
    <3>1. CASE q = p
      BY <1>1, <2>1, <3>1
    <3>2. CASE q # p
      BY <1>1, <3>2 DEF MInv, SumsOK
    <3>3. QED
      BY <3>1, <3>2
  <2>3. QED
    BY <1>0, <2>2 DEF MInv, SumsOK
<1>6. ReadOK'
  BY <1>0 DEF MInv, ReadOK
<1>7. Source \in Paths
  BY <1>0, SnapTyped
<1>8. FlightOK'
  <2> SUFFICES ASSUME Calm, Intact', NEW g \in Files, g = snap.file
               PROVE  /\ wpc' \in {"copying", "copied"} => item \in Live
                      /\ wpc' = "copying" /\ disk'[Source][g] = sum[g] => begun = sum[g]
                      /\ wpc' = "copied" => Settled(g)'
                      /\ wpc' = "broken" => \A r \in Roles : r = active => ~Same(r, g)'
    BY <1>0, <1>2 DEF FlightOK
  <2>1. wpc = "copying" => p # Source /\ p # Target
    <3>1. wpc = "copying" => snap.path = path
      BY DEF VInv, CopyOK, Calm
    <3>2. snap.action \in Actions /\ snap.active \in Roles
      BY <1>0 DEF TypeOK
    <3>3. SourceRole \in Roles /\ Other(SourceRole) \in Roles
      BY <1>0, <3>2, SourceIs, RolesAre
    <3>4. QED
      BY <1>2, <3>1, <3>3 DEF Source, Target
  <2>2. wpc' = wpc
    BY <1>0, <2>1
  <2>3. /\ wpc \in {"copying", "copied"} => item \in Live
        /\ wpc = "copying" /\ disk[Source][g] = sum[g] => begun = sum[g]
        /\ wpc = "copied" => Settled(g)
        /\ wpc = "broken" => \A r \in Roles : r = active => ~Same(r, g)
    BY <1>2 DEF MInv, FlightOK
  <2>4. wpc = "copying" => disk'[Source] = disk[Source]
    BY <1>1, <1>7, <2>1
  <2>5. QED
    BY <1>3, <1>4, <2>2, <2>3, <2>4
<1>9. RestoredOK'
  BY <1>0, <1>2, <1>3 DEF MInv, RestoredOK
<1>10. SyncOK'
  BY <1>0, <1>2, <1>4 DEF MInv, SyncOK
<1>11. SameOK'
  <2>1. ASSUME Intact', NEW r \in Roles, NEW g \in Files, slot[r] = "rebuilding", ~Owed(r, g)'
        PROVE  Same(Other(r), g)' /\ (Same(r, g)' \/ \E i \in RowIds : Redo(i, g)')
    <3>1. ~Owed(r, g)
      BY <1>0, <2>1, OwedFrame
    <3>2. Same(Other(r), g) /\ (Same(r, g) \/ \E i \in RowIds : Redo(i, g))
      BY <1>2, <2>1, <3>1 DEF MInv, SameOK
    <3>3. wpc' = wpc
      <4> SUFFICES ASSUME wpc = "copying" PROVE p \notin {Source, Target}
        BY <1>0
      <4>1. snap.slot[r] = "rebuilding"
        BY <2>1, <3>1 DEF VInv, SnapOK
      <4>2. Source = path[Other(r)] /\ Target = path[r]
        BY <4>1, RebuildCopyIs
      <4>3. QED
        BY <1>2, <2>1, <4>2, OtherIs
    <3>4. \A i \in RowIds : Redo(i, g)' <=> Redo(i, g)
      BY <1>0, <3>3, RedoFrame
    <3>5. QED
      BY <1>3, <2>1, <3>2, <3>4, OtherIs
  <2>2. QED
    BY <1>0, <2>1 DEF SameOK
<1>12. QED
  BY <1>5, <1>6, <1>8, <1>9, <1>10, <1>11 DEF MInv

LEMMA MirrorStill == ASSUME MInv, UNCHANGED vars PROVE MInv'
<1> USE DEF vars, pairVars, driveVars, fileVars, workerVars, ghostVars, boundVars
<1>1. SumsOK' /\ ReadOK' /\ FlightOK' /\ RestoredOK'
  BY SumsFrame, FlightFrame, RestoredFrame DEF MInv, ReadOK
<1>2. SyncOK'
  BY SettledFrame DEF MInv, SyncOK, Calm, Intact, Live
<1>3. SameOK'
  BY SameFrame, OwedFrame, RedoFrame, OtherIs DEF MInv, SameOK, Intact
<1>4. QED
  BY <1>1, <1>2, <1>3 DEF MInv

\* A new pair has the first version of each file on both drives.
LEMMA MirrorInit == Init => MInv
<1> SUFFICES ASSUME Init PROVE MInv
  OBVIOUS
<1>0. /\ \A r \in Roles : slot[r] = "active" /\ path[r] = Home[r]
      /\ wpc = "idle" /\ begun = Missing /\ version = 1
      /\ \A f \in Files : sum[f] = 1
  BY DEF Init
<1>1. \A p \in Paths, f \in Files : disk[p][f] \in {1, Missing}
  BY DEF Init
<1>2. SumsOK
  BY <1>0, <1>1 DEF SumsOK, Missing
<1>3. \A r \in Roles, f \in Files : Same(r, f)
  <2>1. \A r \in Roles : Home[r] \in Paths
    BY ConstantsOK
  <2>2. \A r \in Roles, f \in Files : disk[Home[r]][f] = 1
    BY <2>1 DEF Init
  <2>3. QED
    BY <1>0, <2>2 DEF Same
<1>4. ReadOK /\ FlightOK /\ RestoredOK
  BY <1>0 DEF ReadOK, FlightOK, RestoredOK
<1>5. SyncOK /\ SameOK
  BY <1>0, <1>3, OtherIs DEF SyncOK, SameOK, Settled
<1>6. QED
  BY <1>2, <1>4, <1>5 DEF MInv

\* The invariant holds throughout when no scan meets the file that is copied.
LEMMA MInvHolds == ASSUME Allowed = {} PROVE Spec => []MInv
<1>0. Orderly
  BY DEF Orderly
<1>1. Init => MInv
  BY MirrorInit
<1>2. IInv /\ VInv /\ MInv /\ [Next]_vars => MInv'
  <2> SUFFICES ASSUME IInv, VInv, MInv, [Next]_vars PROVE MInv'
    OBVIOUS
  <2>1. CASE Worker \/ Crash
    BY <1>0, <2>1, MirrorQueueSteps, MirrorBegins, MirrorRefused, MirrorEnds, MirrorCompleted,
       MirrorFailed, MirrorFinalized DEF Worker
  <2>2. CASE Requests \/ Queueing
    BY <1>0, <2>2, MirrorRequests
  <2>3. CASE Environment /\ ~Crash
    BY <1>0, <2>3, MirrorEdited, MirrorScanned, MirrorLost DEF Environment
  <2>4. CASE UNCHANGED vars
    BY <2>4, MirrorStill
  <2>5. QED
    BY <2>1, <2>2, <2>3, <2>4 DEF Next, Environment
<1>3. QED
  BY <1>0, <1>1, <1>2, IInvHolds, VInvHolds, PTL DEF Spec

\* is_mirrored tells the truth: a file that carries the mark, has no row to come
\* and no change to be found is the same on both drives, although the mark is set
\* after a transfer from what was read before it, and reset by the finalizer for
\* every file of the pair at once.
THEOREM MirrorsCurrent == ASSUME Allowed = {} PROVE Spec => []MirroredIsCurrent
<1>1. IInv /\ MInv => MirroredIsCurrent
  <2> SUFFICES ASSUME IInv, MInv, NEW f \in Files, mirrored[f],
                      \A r \in Roles : slot[r] = "active" /\ path[r] \notin lost,
                      \A i \in Live : queue[i].file # f,
                      disk[path[active]][f] = sum[f]
               PROVE  disk[path[Other(active)]][f] = sum[f]
    BY DEF MirroredIsCurrent
  <2>1. PICK a \in Roles : a = active
    BY DEF IInv, TypeOK
  <2>2. Calm /\ Intact
    BY DEF Calm, Intact
  <2>3. Settled(f)
    BY <2>2 DEF MInv, SyncOK
  <2>4. QED
    BY <2>1, <2>3 DEF Settled, Same
<1>2. QED
  BY <1>1, IInvHolds, MInvHolds, PTL
=============================================================================
