-------------------------- MODULE FolderOpsProofs --------------------------
(***************************************************************************)
(* Theorems of FolderOps, for every set of files, folders and threads and  *)
(* every choice of Allowed.                                                *)
(***************************************************************************)
EXTENDS FolderOps, TLAPS

(* Types *)

\* A thread that takes a file in hand is at work on a well formed operation.
LEMMA InHandType ==
  ASSUME op \in [Threads -> Op], NEW t \in Threads, NEW f \in Files, NEW action \in RowActions,
         InHand(t, f, action)
  PROVE  op' \in [Threads -> Op]
<1> DEFINE o == [op[t] EXCEPT !.at = "hold", !.hand = f, !.todo = @ \ {f}, !.action = action]
<1>1. op[t] \in Op
  OBVIOUS
<1>2. o \in Op
  BY <1>1 DEF Op, Places
<1> QED
  BY <1>2 DEF InHand, Become

\* A thread that goes to another place, and takes or gives away files, is still a well
\* formed operation.
LEMMA OpChange ==
  ASSUME NEW o \in Op, NEW place \in Places, NEW hand \in Files \cup {NoFile, Gone},
         NEW todo \in SUBSET Files
  PROVE  /\ [o EXCEPT !.at = place] \in Op
         /\ [o EXCEPT !.todo = todo] \in Op
         /\ [o EXCEPT !.at = place, !.hand = hand] \in Op
         /\ [o EXCEPT !.at = place, !.todo = todo] \in Op
         /\ [o EXCEPT !.at = place, !.hand = hand, !.todo = todo] \in Op
<1>1. [o EXCEPT !.at = place] \in Op
  BY DEF Op
<1>2. [o EXCEPT !.todo = todo] \in Op
  BY DEF Op
<1>3. [o EXCEPT !.at = place, !.hand = hand] \in Op
  BY DEF Op
<1>4. [o EXCEPT !.at = place, !.todo = todo] \in Op
  BY DEF Op
<1>5. [o EXCEPT !.at = place, !.hand = hand, !.todo = todo] \in Op
  BY DEF Op
<1> QED
  BY <1>1, <1>2, <1>3, <1>4, <1>5

\* A thread with nothing to do is one of the operations.
LEMMA NoOpType == NoOp \in Op
  BY ConstantsOK DEF NoOp, Op, Kinds, FolderKinds, Commands, Places, RowActions

\* What a thread begins with is one of the operations.
LEMMA NewOpType ==
  ASSUME NEW kind \in Kinds, NEW place \in Places
  PROVE  /\ [NoOp EXCEPT !.kind = kind, !.at = place] \in Op
         /\ \A f \in Files : [NoOp EXCEPT !.kind = kind, !.at = place, !.hand = f] \in Op
         /\ \A todo \in SUBSET Files : [NoOp EXCEPT !.kind = kind, !.at = place, !.todo = todo] \in Op
         /\ \A f \in Files, a \in RowActions :
               [NoOp EXCEPT !.kind = kind, !.at = place, !.hand = f, !.action = a] \in Op
         /\ \A d \in Folders, todo \in SUBSET Files :
               [NoOp EXCEPT !.kind = kind, !.at = place, !.folder = d, !.todo = todo] \in Op
<1> USE NoOpType DEF Op
<1>1. [NoOp EXCEPT !.kind = kind, !.at = place] \in Op
  OBVIOUS
<1>2. ASSUME NEW f \in Files
      PROVE  [NoOp EXCEPT !.kind = kind, !.at = place, !.hand = f] \in Op
  OBVIOUS
<1>3. ASSUME NEW todo \in SUBSET Files
      PROVE  [NoOp EXCEPT !.kind = kind, !.at = place, !.todo = todo] \in Op
  OBVIOUS
<1>4. ASSUME NEW f \in Files, NEW a \in RowActions
      PROVE  [NoOp EXCEPT !.kind = kind, !.at = place, !.hand = f, !.action = a] \in Op
  OBVIOUS
<1>5. ASSUME NEW d \in Folders, NEW todo \in SUBSET Files
      PROVE  [NoOp EXCEPT !.kind = kind, !.at = place, !.folder = d, !.todo = todo] \in Op
  OBVIOUS
<1> QED
  BY <1>1, <1>2, <1>3, <1>4, <1>5

\* A thread whose files were untracked is still a well formed operation.
LEMMA WithoutType ==
  ASSUME op \in [Threads -> Op], NEW t \in Threads, NEW gone
  PROVE  Without(t, gone) \in Op
<1>1. op[t] \in Op
  OBVIOUS
<1>2. op[t].todo \ gone \subseteq Files
  BY <1>1 DEF Op
<1> QED
  BY <1>1, <1>2 DEF Without, Op

\* Untracking files leaves every variable it changes well formed.
LEMMA UntrackType ==
  ASSUME TypeOK, NEW gone, Untrack(gone)
  PROVE  /\ tracked' \subseteq Files
         /\ direct' \subseteq tracked' /\ via' \subseteq tracked' /\ direct' \cap via' = {}
         /\ mirrored' \subseteq tracked' /\ edited' \subseteq tracked'
         /\ rows' \in [Rows -> Statuses]
         /\ page' \subseteq Rows
         /\ row' \in Rows \cup {NoRow} /\ marking' \in Files \cup {NoFile}
<1>1. rows' \in [Rows -> Statuses]
  BY DEF TypeOK, Untrack, Statuses
<1> QED
  BY <1>1 DEF TypeOK, Untrack

\* A change to one thread keeps the others' operations.
LEMMA BecomeType ==
  ASSUME op \in [Threads -> Op], NEW t \in Threads, NEW o \in Op, Become(t, o)
  PROVE  op' \in [Threads -> Op]
  BY DEF Become

FileTypes ==
    /\ tracked \subseteq Files
    /\ direct \subseteq tracked /\ via \subseteq tracked /\ direct \cap via = {}
    /\ mirrored \subseteq tracked
    /\ edited \subseteq tracked /\ asked \subseteq Files
FolderTypes ==
    /\ folders \subseteq Folders
    /\ flags \in [Folders -> SUBSET {"scanning", "mirroring", "deleting"}]
DrainTypes ==
    /\ page \subseteq Rows
    /\ row \in Rows \cup {NoRow}
    /\ marking \in Files \cup {NoFile}

\* TypeOK, by parts.
LEMMA TypeParts ==
  TypeOK <=> /\ FileTypes /\ rows \in [Rows -> Statuses] /\ FolderTypes
             /\ op \in [Threads -> Op] /\ DrainTypes /\ up \in BOOLEAN
  BY DEF TypeOK, FileTypes, FolderTypes, DrainTypes

\* A thread that gives up is a well formed operation.
LEMMA GiveUpType ==
  ASSUME op \in [Threads -> Op], NEW t \in Threads
  PROVE  GiveUp(t) \in Op
<1>1. op[t] \in Op
  OBVIOUS
<1> QED
  BY <1>1, NoOpType, OpChange DEF GiveUp, Places

\* What a request or a thread leaves in op is an operation.
LEMMA OpType ==
  ASSUME TypeOK, Next
  PROVE  op' \in [Threads -> Op]
<1> USE NoOpType, BecomeType DEF TypeOK
<1>1. ASSUME NEW t \in Threads, NEW f \in Files, TrackFile(t, f)
      PROVE  op' \in [Threads -> Op]
  <2>1. [NoOp EXCEPT !.kind = "track", !.at = "hold", !.hand = f, !.action = "adopt_mirror"] \in Op
    BY NewOpType DEF Kinds, Places, RowActions
  <2> QED
    BY <1>1, <2>1 DEF TrackFile
<1>2. ASSUME NEW t \in Threads, NEW f \in Files, DeleteFile(t, f)
      PROVE  op' \in [Threads -> Op]
  <2>1. [NoOp EXCEPT !.kind = "untrack", !.at = "commit", !.hand = f] \in Op
    BY NewOpType DEF Kinds, Places, RowActions
  <2> QED
    BY <1>2, <2>1 DEF DeleteFile
<1>3. ASSUME NEW t \in Threads, NEW d \in Folders, AddFolder(t, d)
      PROVE  op' \in [Threads -> Op]
  <2>1. [NoOp EXCEPT !.kind = "add", !.at = "clear"] \in Op
    BY NewOpType DEF Kinds, Places, RowActions
  <2> QED
    BY <1>3, <2>1 DEF AddFolder
<1>4. ASSUME NEW t \in Threads, NEW d \in Folders, StartScan(t, d)
      PROVE  op' \in [Threads -> Op]
  <2>1. [NoOp EXCEPT !.kind = "scan", !.at = "visit", !.folder = d, !.todo = Under[d]] \in Op
    BY ConstantsOK, NewOpType DEF Kinds, FolderKinds, Places, RowActions
  <2> QED
    BY <1>4, <2>1 DEF StartScan, Start
<1>5. ASSUME NEW t \in Threads, NEW d \in Folders, StartMirror(t, d)
      PROVE  op' \in [Threads -> Op]
  <2>1. [NoOp EXCEPT !.kind = "mirror", !.at = "visit", !.folder = d, !.todo = ToMirror(d)] \in Op
    BY NewOpType DEF Kinds, FolderKinds, Places, RowActions, ToMirror
  <2> QED
    BY <1>5, <2>1 DEF StartMirror, Start
<1>6. ASSUME NEW t \in Threads, NEW d \in Folders, StartDelete(t, d)
      PROVE  op' \in [Threads -> Op]
  <2>1. [NoOp EXCEPT !.kind = "delete", !.at = "list", !.folder = d, !.todo = {}] \in Op
    BY NewOpType DEF Kinds, FolderKinds, Places, RowActions
  <2> QED
    BY <1>6, <2>1 DEF StartDelete, Start
<1>7. ASSUME NEW t \in Threads, RemoveFile(t)
      PROVE  op' \in [Threads -> Op]
  <2> DEFINE gone == {op[t].hand} \cap Files
  <2>1. op' = [s \in Threads |-> IF s = t THEN NoOp ELSE Without(s, gone)]
    BY <1>7 DEF RemoveFile
  <2>2. \A s \in Threads : Without(s, gone) \in Op
    BY WithoutType
  <2> QED
    BY <2>1, <2>2
<1>8. ASSUME NEW t \in Threads, Finish(t)
      PROVE  op' \in [Threads -> Op]
  BY <1>8 DEF Finish, End
<1>9. ASSUME NEW t \in Threads, NEW f \in Files, ScanNew(t, f)
      PROVE  op' \in [Threads -> Op]
  BY <1>9, InHandType DEF ScanNew, ScanTrack, AutoTrack, TrackNew, RowActions
<1>10. ASSUME NEW t \in Threads, NEW f \in Files, ScanChanged(t, f)
      PROVE  op' \in [Threads -> Op]
  BY <1>10, InHandType DEF ScanChanged, ScanChange, CommandChange, Record, RowActions
<1>11. ASSUME NEW t \in Threads, NEW f \in Files, ScanSame(t, f)
      PROVE  op' \in [Threads -> Op]
  <2>1. op[t] \in Op
    OBVIOUS
  <2>2. [op[t] EXCEPT !.todo = @ \ {f}] \in Op
    BY <2>1 DEF Op
  <2> QED
    BY <1>11, <2>2 DEF ScanSame
<1>12. ASSUME NEW t \in Threads, NEW f \in Files, MirrorFile(t, f)
      PROVE  op' \in [Threads -> Op]
  BY <1>12, InHandType DEF MirrorFile, RowActions
<1>13. ASSUME NEW t \in Threads, Queue(t)
      PROVE  op' \in [Threads -> Op]
  <2>1. op[t] \in Op
    OBVIOUS
  <2>2. AfterQueue(t) \in Op
    BY <2>1, OpChange DEF AfterQueue, Places
  <2> QED
    BY <1>13, <2>2 DEF Queue
<1>14. ASSUME NEW t \in Threads, QueueFails(t)
      PROVE  op' \in [Threads -> Op]
  BY <1>14, GiveUpType DEF QueueFails
<1>15. ASSUME NEW t \in Threads, ScanFails(t)
      PROVE  op' \in [Threads -> Op]
  BY <1>15, GiveUpType DEF ScanFails
<1>16. ASSUME NEW t \in Threads, AllVisited(t)
      PROVE  op' \in [Threads -> Op]
  <2>1. op[t] \in Op
    OBVIOUS
  <2>2. [op[t] EXCEPT !.at = "clear"] \in Op /\ [op[t] EXCEPT !.at = "finish"] \in Op
    BY <2>1, OpChange DEF Places
  <2> QED
    BY <1>16, <2>2 DEF AllVisited
<1>17. ASSUME NEW t \in Threads, Clear(t)
      PROVE  op' \in [Threads -> Op]
  <2>1. op[t] \in Op
    OBVIOUS
  <2>2. [op[t] EXCEPT !.at = "cover"] \in Op
    BY <2>1, OpChange DEF Places
  <2> QED
    BY <1>17, <2>2 DEF Clear
<1>18. ASSUME NEW t \in Threads, Cover(t)
      PROVE  op' \in [Threads -> Op]
  <2>1. op[t] \in Op
    OBVIOUS
  <2>2. [op[t] EXCEPT !.at = "settle"] \in Op
    BY <2>1, OpChange DEF Places
  <2> QED
    BY <1>18, <2>2 DEF Cover
<1>19. ASSUME NEW t \in Threads, Settle(t)
      PROVE  op' \in [Threads -> Op]
  <2>1. op[t] \in Op /\ edited \subseteq Files
    BY <1>19
  <2>2. ListChanges(t) \in Op
    BY <2>1 DEF ListChanges, Op, Kinds, Commands, Places
  <2>3. [op[t] EXCEPT !.at = "finish"] \in Op
    BY <2>1 DEF Op, Places
  <2> QED
    BY <1>19, <2>2, <2>3 DEF Settle, Become
<1>20. ASSUME NEW t \in Threads, ListOrigins(t)
      PROVE  op' \in [Threads -> Op]
  <2>1. op[t] \in Op
    OBVIOUS
  <2>2. [op[t] EXCEPT !.at = "commit", !.todo = Origins(op[t].folder)] \in Op
    BY <2>1, OpChange DEF Places, Origins
  <2> QED
    BY <1>20, <2>2 DEF ListOrigins
<1>21. ASSUME NEW t \in Threads, CommitDelete(t)
      PROVE  op' \in [Threads -> Op]
  <2>1. op' = [s \in Threads |-> IF s = t THEN [NoOp EXCEPT !.kind = "add", !.at = "clear"]
                                          ELSE Without(s, op[t].todo)]
    BY <1>21 DEF CommitDelete
  <2>2. \A s \in Threads : Without(s, op[t].todo) \in Op
    BY WithoutType
  <2>3. [NoOp EXCEPT !.kind = "add", !.at = "clear"] \in Op
    BY NewOpType DEF Kinds, Places
  <2> QED
    BY <2>1, <2>2, <2>3
<1>22. ASSUME NEW t \in Threads, DeleteFails(t)
      PROVE  op' \in [Threads -> Op]
  BY <1>22 DEF DeleteFails, End
<1>23. ASSUME NEW t \in Threads, FileFailed(t)
      PROVE  op' \in [Threads -> Op]
  <2>1. op[t] \in Op
    OBVIOUS
  <2>2. [op[t] EXCEPT !.at = "visit", !.hand = NoFile] \in Op
    BY <2>1, OpChange DEF Places
  <2> QED
    BY <1>23, <2>2 DEF FileFailed
<1>24. ASSUME NEW t \in Threads, FileMirrored(t)
      PROVE  op' \in [Threads -> Op]
  <2>1. op[t] \in Op
    OBVIOUS
  <2>2. [op[t] EXCEPT !.at = "done"] \in Op
    BY <2>1, OpChange DEF Places
  <2> QED
    BY <1>24, <2>2 DEF FileMirrored
<1>30. ASSUME NEW t \in Threads, CompleteRows(t)
      PROVE  op' \in [Threads -> Op]
  <2>1. op[t] \in Op
    OBVIOUS
  <2>2. [op[t] EXCEPT !.at = "visit", !.hand = NoFile] \in Op
    BY <2>1, OpChange DEF Places
  <2> QED
    BY <1>30, <2>2 DEF CompleteRows
<1>41. ASSUME NEW t \in Threads, NEW f \in Files, UntrackCommand(t, f)
      PROVE  op' \in [Threads -> Op]
  <2>1. [NoOp EXCEPT !.kind = "untrack", !.at = "commit", !.hand = f] \in Op
    BY NewOpType DEF Kinds, Places, RowActions
  <2> QED
    BY <1>41, <2>1 DEF UntrackCommand
<1>42. ASSUME NEW t \in Threads, NEW f \in Files, CopyCommand(t, f)
      PROVE  op' \in [Threads -> Op]
  <2>1. [NoOp EXCEPT !.kind = "copy", !.at = "visit", !.todo = {f}] \in Op
    <3>1. "copy" \in Kinds /\ "visit" \in Places /\ {f} \in SUBSET Files
      BY DEF Kinds, Commands, Places
    <3> QED
      BY <3>1, NewOpType
  <2> QED
    BY <1>42, <2>1 DEF CopyCommand
<1>43. ASSUME NEW t \in Threads, NEW d \in Folders, FolderCommand(t, d)
      PROVE  op' \in [Threads -> Op]
  <2>1. \A k \in Commands, p \in Places, todo \in SUBSET Files :
          [NoOp EXCEPT !.kind = k, !.at = p, !.folder = d, !.todo = todo] \in Op
    BY NoOpType DEF Op, NoOp, Kinds
  <2>2. Under[d] \in SUBSET Files /\ ToMirror(d) \in SUBSET Files /\ {} \in SUBSET Files
    BY ConstantsOK DEF ToMirror
  <2>3. {"auto", "copy", "remove"} \subseteq Commands /\ {"visit", "list"} \subseteq Places
    BY DEF Commands, Places
  <2> QED
    BY <1>43, <2>1, <2>2, <2>3 DEF FolderCommand, Command, Become
<1>44. ASSUME NEW t \in Threads, CopyFailed(t)
      PROVE  op' \in [Threads -> Op]
  BY <1>44 DEF CopyFailed, End
<1>45. ASSUME NEW t \in Threads, Interrupt(t)
      PROVE  op' \in [Threads -> Op]
  BY <1>45 DEF Interrupt, Die, Op, NoOp, Kinds, FolderKinds, Commands, Places, RowActions
<1>25. ASSUME Worker \/ Users \/ Restart
       PROVE  op' \in [Threads -> Op]
  BY <1>25 DEF Worker, RequeueAndFetch, TakeRow, RowCompleted, RowFailed, MarkMirrored, Users, TrackAgain,
               Edit, Restart
<1>26. ASSUME Kill
       PROVE  op' \in [Threads -> Op]
  BY <1>26 DEF Kill, Die
<1> HIDE DEF TypeOK
<1>27. ASSUME Requests
       PROVE  op' \in [Threads -> Op]
  BY <1>1, <1>2, <1>3, <1>4, <1>5, <1>6, <1>41, <1>42, <1>43, <1>27, ConstantsOK DEF Requests, MirrorRequest
<1>28. ASSUME NEW t \in Threads, Work(t)
       PROVE  op' \in [Threads -> Op]
  BY <1>7, <1>8, <1>9, <1>10, <1>11, <1>12, <1>13, <1>14, <1>15, <1>16, <1>17, <1>18, <1>19,
     <1>20, <1>21, <1>22, <1>23, <1>24, <1>30, <1>44, <1>45, <1>28 DEF Work
<1>29. CASE \E t \in Threads : Work(t)
  BY <1>28, <1>29
<1> QED
  BY <1>25, <1>26, <1>27, <1>29 DEF Next

(* Ids *)

\* Every id that a row, a thread or the worker holds is that of a tracked file,
\* except that a thread may have lost its file; a scan goes by paths.
IdsValid ==
    /\ \A t \in Threads :
          /\ op[t].hand \in tracked \cup {NoFile, Gone}
          /\ op[t].at = "hold" => op[t].hand # NoFile
          /\ op[t].kind \notin Walks => op[t].todo \subseteq tracked
    /\ \A r \in Rows : rows[r] # "absent" => r[1] \in tracked
    /\ page \subseteq tracked \X RowActions
    /\ row = NoRow \/ row[1] \in tracked
    /\ marking \in tracked \cup {NoFile}

\* Every step keeps the files, rows and flags well formed.
LEMMA DataTypes ==
  ASSUME TypeOK, IdsValid, Next
  PROVE  /\ FileTypes' /\ rows' \in [Rows -> Statuses] /\ FolderTypes' /\ DrainTypes'
         /\ up' \in BOOLEAN
<1> DEFINE Goal == /\ FileTypes' /\ rows' \in [Rows -> Statuses] /\ FolderTypes' /\ DrainTypes'
                   /\ up' \in BOOLEAN
<1> USE TypeParts DEF FileTypes, FolderTypes, DrainTypes, fileVars, folderVars, drainVars
<1>1. ASSUME NEW t \in Threads, NEW f \in Files, TrackFile(t, f)
      PROVE  Goal
  BY <1>1 DEF TrackFile, Track, Rows, Statuses
<1>2. ASSUME NEW t \in Threads, NEW f \in Files, DeleteFile(t, f)
      PROVE  Goal
  BY <1>2 DEF DeleteFile, Rows, Statuses
<1>3. ASSUME NEW t \in Threads, NEW d \in Folders, AddFolder(t, d)
      PROVE  Goal
  BY <1>3 DEF AddFolder, Rows, Statuses
<1>4. ASSUME NEW t \in Threads, NEW d \in Folders, StartScan(t, d)
      PROVE  Goal
  BY <1>4 DEF StartScan, Start, FlagOf, Rows, Statuses
<1>5. ASSUME NEW t \in Threads, NEW d \in Folders, StartMirror(t, d)
      PROVE  Goal
  BY <1>5 DEF StartMirror, Start, FlagOf, Rows, Statuses
<1>6. ASSUME NEW t \in Threads, NEW d \in Folders, StartDelete(t, d)
      PROVE  Goal
  BY <1>6 DEF StartDelete, Start, FlagOf, Rows, Statuses
<1>7. ASSUME NEW t \in Threads, RemoveFile(t)
      PROVE  Goal
  BY <1>7, UntrackType DEF RemoveFile, Rows, Statuses
<1>8. ASSUME NEW t \in Threads, Finish(t)
      PROVE  Goal
  BY <1>8 DEF Finish, FlagOf, Rows, Statuses
<1>9. ASSUME NEW t \in Threads, NEW f \in Files, ScanNew(t, f)
      PROVE  Goal
  BY <1>9 DEF ScanNew, ScanTrack, AutoTrack, TrackNew, Track, Visiting, Rows, Statuses
<1>10. ASSUME NEW t \in Threads, NEW f \in Files, ScanChanged(t, f)
      PROVE  Goal
  BY <1>10 DEF ScanChanged, ScanChange, CommandChange, Record, Visiting, Rows, Statuses
<1>11. ASSUME NEW t \in Threads, NEW f \in Files, ScanSame(t, f)
      PROVE  Goal
  BY <1>11 DEF ScanSame, Visiting, Rows, Statuses
<1>12. ASSUME NEW t \in Threads, NEW f \in Files, MirrorFile(t, f)
      PROVE  Goal
  BY <1>12 DEF MirrorFile, Visiting, Rows, Statuses
<1>13. ASSUME NEW t \in Threads, Queue(t)
      PROVE  Goal
  BY <1>13 DEF Queue, Queued, Rows, Statuses
<1>14. ASSUME NEW t \in Threads, QueueFails(t)
      PROVE  Goal
  BY <1>14 DEF QueueFails, Rows, Statuses
<1>15. ASSUME NEW t \in Threads, ScanFails(t)
      PROVE  Goal
  BY <1>15 DEF ScanFails, Rows, Statuses
<1>16. ASSUME NEW t \in Threads, AllVisited(t)
      PROVE  Goal
  BY <1>16 DEF AllVisited, Rows, Statuses
<1>17. ASSUME NEW t \in Threads, Clear(t)
      PROVE  Goal
  BY <1>17 DEF Clear, Rows, Statuses
<1>18. ASSUME NEW t \in Threads, Cover(t)
      PROVE  Goal
  BY <1>18 DEF Cover, Rows, Statuses
<1>19. ASSUME NEW t \in Threads, Settle(t)
      PROVE  Goal
  BY <1>19 DEF Settle, Rows, Statuses
<1>20. ASSUME NEW t \in Threads, ListOrigins(t)
      PROVE  Goal
  BY <1>20 DEF ListOrigins, Rows, Statuses
<1>21. ASSUME NEW t \in Threads, CommitDelete(t)
      PROVE  Goal
  BY <1>21, UntrackType DEF CommitDelete, Rows, Statuses
<1>22. ASSUME NEW t \in Threads, DeleteFails(t)
      PROVE  Goal
  BY <1>22 DEF DeleteFails, Rows, Statuses
<1>23. ASSUME NEW t \in Threads, FileFailed(t)
      PROVE  Goal
  BY <1>23 DEF FileFailed, SettleRows, Rows, Statuses
<1>24. ASSUME NEW t \in Threads, FileMirrored(t)
      PROVE  Goal
  BY <1>24, ConstantsOK DEF FileMirrored, IdsValid, SettleRows, Rows, Statuses
<1>37. ASSUME NEW t \in Threads, CompleteRows(t)
      PROVE  Goal
  BY <1>37 DEF CompleteRows, SettleRows, Rows, Statuses
<1>41. ASSUME NEW t \in Threads, NEW f \in Files, UntrackCommand(t, f)
      PROVE  Goal
  BY <1>41 DEF UntrackCommand, Rows, Statuses
<1>42. ASSUME NEW t \in Threads, NEW f \in Files, CopyCommand(t, f)
      PROVE  Goal
  BY <1>42 DEF CopyCommand, Rows, Statuses
<1>43. ASSUME NEW t \in Threads, NEW d \in Folders, FolderCommand(t, d)
      PROVE  Goal
  BY <1>43 DEF FolderCommand, Command, Rows, Statuses
<1>44. ASSUME NEW t \in Threads, CopyFailed(t)
      PROVE  Goal
  BY <1>44 DEF CopyFailed, Rows, Statuses
<1>45. ASSUME NEW t \in Threads, Interrupt(t)
      PROVE  Goal
  BY <1>45 DEF Interrupt, Rows, Statuses
<1>25. ASSUME RequeueAndFetch
      PROVE  Goal
  BY <1>25 DEF RequeueAndFetch, Rows, Statuses
<1>26. ASSUME NEW r \in Rows, TakeRow(r)
      PROVE  Goal
  BY <1>26 DEF TakeRow, Rows, Statuses
<1>27. ASSUME RowCompleted
      PROVE  Goal
  BY <1>27, ConstantsOK DEF RowCompleted, IdsValid, Rows, Statuses, NoRow
<1>38. ASSUME MarkMirrored
      PROVE  Goal
  BY <1>38 DEF MarkMirrored, IdsValid, Rows, Statuses
<1>28. ASSUME RowFailed
      PROVE  Goal
  BY <1>28 DEF RowFailed, Rows, Statuses
<1>29. ASSUME NEW f \in Files, TrackAgain(f)
      PROVE  Goal
  BY <1>29 DEF TrackAgain, Rows, Statuses
<1>30. ASSUME NEW f \in Files, Edit(f)
      PROVE  Goal
  BY <1>30 DEF Edit, Rows, Statuses
<1>31. ASSUME Kill
      PROVE  Goal
  BY <1>31 DEF Kill, Rows, Statuses
<1>32. ASSUME Restart
      PROVE  Goal
  BY <1>32 DEF Restart, ResetFlags, Rows, Statuses
<1> HIDE DEF Goal
<1>33. ASSUME Requests
       PROVE  Goal
  BY <1>1, <1>2, <1>3, <1>4, <1>5, <1>6, <1>41, <1>42, <1>43, <1>33, ConstantsOK DEF Requests, MirrorRequest
<1>34. ASSUME NEW t \in Threads, Work(t)
       PROVE  Goal
  BY <1>7, <1>8, <1>9, <1>10, <1>11, <1>12, <1>13, <1>14, <1>15, <1>16, <1>17, <1>18, <1>19, <1>20, <1>21, <1>22, <1>23, <1>24, <1>37, <1>44, <1>45, <1>34 DEF Work
<1>35. ASSUME Worker \/ Users \/ Kill \/ Restart
       PROVE  Goal
  BY <1>25, <1>26, <1>27, <1>28, <1>29, <1>30, <1>31, <1>32, <1>38, <1>35, ConstantsOK DEF Worker, Users
<1>36. Goal
  BY <1>33, <1>34, <1>35 DEF Next
<1> QED
  BY <1>36 DEF Goal

ThreadIds ==
    \A t \in Threads :
        /\ op[t].hand \in tracked \cup {NoFile, Gone}
        /\ op[t].at = "hold" => op[t].hand # NoFile
        /\ op[t].kind \notin Walks => op[t].todo \subseteq tracked
RowIds ==
    /\ \A r \in Rows : rows[r] # "absent" => r[1] \in tracked
    /\ page \subseteq tracked \X RowActions
    /\ row = NoRow \/ row[1] \in tracked
    /\ marking \in tracked \cup {NoFile}

\* A thread whose files were untracked has lost them.
LEMMA WithoutIds ==
  ASSUME TypeOK, ThreadIds, NEW t \in Threads, NEW o, NEW gone, tracked' = tracked \ gone,
         o.hand = NoFile, o.todo = {}, o.at # "hold",
         op' = [s \in Threads |-> IF s = t THEN o ELSE Without(s, gone)]
  PROVE  ThreadIds'
<1> SUFFICES ASSUME NEW s \in Threads
             PROVE  /\ op'[s].hand \in tracked' \cup {NoFile, Gone}
                    /\ op'[s].at = "hold" => op'[s].hand # NoFile
                    /\ op'[s].kind \notin Walks => op'[s].todo \subseteq tracked'
  BY DEF ThreadIds
<1>1. CASE s = t
  BY <1>1
<1>2. CASE s # t
  <2>1. op[s] \in Op /\ op'[s] = Without(s, gone)
    BY <1>2 DEF TypeOK
  <2>2. /\ op'[s].hand = IF op[s].hand \in gone THEN Gone ELSE op[s].hand
        /\ op'[s].todo = IF op[s].kind \in Walks THEN op[s].todo ELSE op[s].todo \ gone
        /\ op'[s].at = op[s].at /\ op'[s].kind = op[s].kind
    BY <2>1 DEF Without, Op
  <2> QED
    BY <2>2, ConstantsOK DEF ThreadIds
<1> QED
  BY <1>1, <1>2

\* IdsValid, by parts.
LEMMA IdsParts == IdsValid <=> ThreadIds /\ RowIds
  BY DEF IdsValid, ThreadIds, RowIds

\* Every step keeps the ids of threads valid.
LEMMA ThreadIdsStep ==
  ASSUME TypeOK, IdsValid, Next
  PROVE  ThreadIds'
<1> USE TypeParts, IdsParts DEF FileTypes, FolderTypes, DrainTypes, fileVars, folderVars, drainVars
<1>1. ASSUME NEW t \in Threads, NEW f \in Files, TrackFile(t, f)
      PROVE  ThreadIds'
  BY <1>1, ConstantsOK DEF TrackFile, Track, Become, NoOp, Op, ThreadIds
<1>2. ASSUME NEW t \in Threads, NEW f \in Files, DeleteFile(t, f)
      PROVE  ThreadIds'
  BY <1>2 DEF DeleteFile, Free, Become, NoOp, Op, ThreadIds
<1>3. ASSUME NEW t \in Threads, NEW d \in Folders, AddFolder(t, d)
      PROVE  ThreadIds'
  BY <1>3 DEF AddFolder, Become, NoOp, Op, ThreadIds
<1>4. ASSUME NEW t \in Threads, NEW d \in Folders, StartScan(t, d)
      PROVE  ThreadIds'
  BY <1>4 DEF StartScan, Start, Become, NoOp, Op, Walks, ThreadIds
<1>5. ASSUME NEW t \in Threads, NEW d \in Folders, StartMirror(t, d)
      PROVE  ThreadIds'
  BY <1>5 DEF StartMirror, Start, ToMirror, Become, NoOp, Op, Walks, ThreadIds
<1>6. ASSUME NEW t \in Threads, NEW d \in Folders, StartDelete(t, d)
      PROVE  ThreadIds'
  BY <1>6 DEF StartDelete, Start, Become, NoOp, Op, ThreadIds
<1>7. ASSUME NEW t \in Threads, RemoveFile(t)
      PROVE  ThreadIds'
  <2> DEFINE gone == {op[t].hand} \cap Files
  <2>1. /\ tracked' = tracked \ gone
        /\ op' = [s \in Threads |-> IF s = t THEN NoOp ELSE Without(s, gone)]
    BY <1>7 DEF RemoveFile, Untrack
  <2>2. NoOp.hand = NoFile /\ NoOp.todo = {} /\ NoOp.at # "hold"
    BY DEF NoOp
  <2> QED
    BY <2>1, <2>2, WithoutIds
<1>8. ASSUME NEW t \in Threads, Finish(t)
      PROVE  ThreadIds'
  BY <1>8 DEF Finish, End, Become, NoOp, Op, ThreadIds
<1>9. ASSUME NEW t \in Threads, NEW f \in Files, ScanNew(t, f)
      PROVE  ThreadIds'
  <2> DEFINE o == [op[t] EXCEPT !.at = "hold", !.hand = f, !.todo = @ \ {f}, !.action = "adopt_mirror"]
  <2>1. op[t].kind \in Walks /\ tracked' = tracked \cup {f} /\ op' = [op EXCEPT ![t] = o]
    BY <1>9 DEF ScanNew, ScanTrack, AutoTrack, TrackNew, Track, Visiting, At, InHand, Become, Walks
  <2>2. o.kind = op[t].kind /\ o.hand = f /\ o.at = "hold"
    BY DEF Op
  <2> HIDE DEF o
  <2>3. op'[t] = o /\ \A s \in Threads : s # t => op'[s] = op[s]
    BY <2>1
  <2> QED
    <3>1. \A s \in Threads : op'[s].hand \in tracked' \cup {NoFile, Gone}
      BY <2>1, <2>2, <2>3 DEF ThreadIds
    <3>2. \A s \in Threads : op'[s].at = "hold" => op'[s].hand # NoFile
      BY <2>2, <2>3, ConstantsOK DEF ThreadIds
    <3>3. \A s \in Threads : op'[s].kind \notin Walks => op'[s].todo \subseteq tracked'
      BY <2>1, <2>2, <2>3 DEF ThreadIds
    <3> QED
      BY <3>1, <3>2, <3>3 DEF ThreadIds
<1>10. ASSUME NEW t \in Threads, NEW f \in Files, ScanChanged(t, f)
      PROVE  ThreadIds'
  <2> DEFINE o == [op[t] EXCEPT !.at = "hold", !.hand = f, !.todo = @ \ {f}, !.action = "mirror"]
  <2>1. f \in tracked /\ op' = [op EXCEPT ![t] = o] /\ UNCHANGED tracked
    BY <1>10 DEF ScanChanged, ScanChange, CommandChange, Record, InHand, Become
  <2>2. /\ o.hand = f /\ o.kind = op[t].kind /\ f # NoFile
        /\ o.todo = op[t].todo \ {f}
    BY <2>1, ConstantsOK DEF Op
  <2> HIDE DEF o
  <2> QED
    BY <2>1, <2>2 DEF ThreadIds
<1>11. ASSUME NEW t \in Threads, NEW f \in Files, ScanSame(t, f)
      PROVE  ThreadIds'
  BY <1>11 DEF ScanSame, Visiting, Become, NoOp, Op, ThreadIds
<1>12. ASSUME NEW t \in Threads, NEW f \in Files, MirrorFile(t, f)
      PROVE  ThreadIds'
  BY <1>12, ConstantsOK DEF MirrorFile, Mirrors, Walks, Visiting, At, InHand, Become, Op, ThreadIds
<1>13. ASSUME NEW t \in Threads, Queue(t)
      PROVE  ThreadIds'
  BY <1>13 DEF Queue, AfterQueue, At, Become, NoOp, Op, ThreadIds
<1>14. ASSUME NEW t \in Threads, QueueFails(t)
      PROVE  ThreadIds'
  <2>1. op' = [op EXCEPT ![t] = GiveUp(t)] /\ tracked' = tracked
    BY <1>14 DEF QueueFails, Become
  <2>2. CASE op[t].kind = "scan"
    BY <2>1, <2>2 DEF GiveUp, Op, ThreadIds
  <2>3. CASE op[t].kind # "scan"
    BY <2>1, <2>3 DEF GiveUp, NoOp, ThreadIds
  <2> QED
    BY <2>2, <2>3
<1>15. ASSUME NEW t \in Threads, ScanFails(t)
      PROVE  ThreadIds'
  BY <1>15 DEF ScanFails, GiveUp, At, Become, NoOp, Op, ThreadIds
<1>16. ASSUME NEW t \in Threads, AllVisited(t)
      PROVE  ThreadIds'
  BY <1>16 DEF AllVisited, At, Become, NoOp, Op, ThreadIds
<1>17. ASSUME NEW t \in Threads, Clear(t)
      PROVE  ThreadIds'
  BY <1>17 DEF Clear, Become, NoOp, Op, ThreadIds
<1>18. ASSUME NEW t \in Threads, Cover(t)
      PROVE  ThreadIds'
  BY <1>18 DEF Cover, Become, NoOp, Op, ThreadIds
<1>19. ASSUME NEW t \in Threads, Settle(t)
      PROVE  ThreadIds'
  BY <1>19 DEF Settle, ListChanges, Become, NoOp, Op, ThreadIds
<1>20. ASSUME NEW t \in Threads, ListOrigins(t)
      PROVE  ThreadIds'
  BY <1>20 DEF ListOrigins, Origins, At, Become, NoOp, Op, ThreadIds
<1>21. ASSUME NEW t \in Threads, CommitDelete(t)
      PROVE  ThreadIds'
  <2> DEFINE o == [NoOp EXCEPT !.kind = "add", !.at = "clear"]
  <2>1. /\ tracked' = tracked \ op[t].todo
        /\ op' = [s \in Threads |-> IF s = t THEN o ELSE Without(s, op[t].todo)]
    BY <1>21 DEF CommitDelete, Untrack
  <2>2. o.hand = NoFile /\ o.todo = {} /\ o.at # "hold"
    BY DEF NoOp
  <2> HIDE DEF o
  <2> QED
    BY <2>1, <2>2, WithoutIds
<1>22. ASSUME NEW t \in Threads, DeleteFails(t)
      PROVE  ThreadIds'
  BY <1>22 DEF DeleteFails, End, Become, NoOp, Op, ThreadIds
<1>23. ASSUME NEW t \in Threads, FileFailed(t)
      PROVE  ThreadIds'
  BY <1>23 DEF FileFailed, At, Become, NoOp, Op, ThreadIds
<1>24. ASSUME NEW t \in Threads, FileMirrored(t)
      PROVE  ThreadIds'
  BY <1>24 DEF FileMirrored, At, Become, NoOp, Op, ThreadIds
<1>37. ASSUME NEW t \in Threads, CompleteRows(t)
      PROVE  ThreadIds'
  BY <1>37 DEF CompleteRows, At, Become, NoOp, Op, ThreadIds
<1>41. ASSUME NEW t \in Threads, NEW f \in Files, UntrackCommand(t, f)
      PROVE  ThreadIds'
  BY <1>41 DEF UntrackCommand, Become, NoOp, Op, ThreadIds
<1>42. ASSUME NEW t \in Threads, NEW f \in Files, CopyCommand(t, f)
      PROVE  ThreadIds'
  BY <1>42 DEF CopyCommand, Become, NoOp, Op, ThreadIds
<1>43. ASSUME NEW t \in Threads, NEW d \in Folders, FolderCommand(t, d)
      PROVE  ThreadIds'
  <2>1. ASSUME NEW k, NEW p, p # "hold", NEW todo, k \notin Walks => todo \subseteq tracked,
               Command(t, d, k, p, todo)
        PROVE  ThreadIds'
    <3> DEFINE o == [NoOp EXCEPT !.kind = k, !.at = p, !.folder = d, !.todo = todo]
    <3>1. op' = [op EXCEPT ![t] = o] /\ UNCHANGED tracked
      BY <2>1 DEF Command, Become
    <3>2. o.kind = k /\ o.at = p /\ o.todo = todo /\ o.hand = NoFile
      BY DEF NoOp
    <3> HIDE DEF o
    <3> QED
      BY <2>1, <3>1, <3>2 DEF ThreadIds
  <2>2. "auto" \in Walks /\ ToMirror(d) \subseteq tracked /\ {} \subseteq tracked
    BY DEF Walks, ToMirror
  <2> QED
    BY <1>43, <2>1, <2>2 DEF FolderCommand
<1>44. ASSUME NEW t \in Threads, CopyFailed(t)
      PROVE  ThreadIds'
  BY <1>44 DEF CopyFailed, End, Become, NoOp, Op, ThreadIds
<1>45. ASSUME NEW t \in Threads, Interrupt(t)
      PROVE  ThreadIds'
  BY <1>45 DEF Interrupt, Die, NoOp, Op, ThreadIds
<1>25. ASSUME RequeueAndFetch
      PROVE  ThreadIds'
  BY <1>25 DEF RequeueAndFetch, ThreadIds
<1>26. ASSUME NEW r \in Rows, TakeRow(r)
      PROVE  ThreadIds'
  BY <1>26 DEF TakeRow, ThreadIds
<1>27. ASSUME RowCompleted
      PROVE  ThreadIds'
  BY <1>27 DEF RowCompleted, ThreadIds
<1>38. ASSUME MarkMirrored
      PROVE  ThreadIds'
  BY <1>38 DEF MarkMirrored, ThreadIds
<1>28. ASSUME RowFailed
      PROVE  ThreadIds'
  BY <1>28 DEF RowFailed, ThreadIds
<1>29. ASSUME NEW f \in Files, TrackAgain(f)
      PROVE  ThreadIds'
  BY <1>29 DEF TrackAgain, ThreadIds
<1>30. ASSUME NEW f \in Files, Edit(f)
      PROVE  ThreadIds'
  BY <1>30 DEF Edit, ThreadIds
<1>31. ASSUME Kill
      PROVE  ThreadIds'
  <2>1. UNCHANGED tracked /\ \A s \in Threads : op'[s] = NoOp \/ op'[s] = op[s]
    BY <1>31 DEF Kill, Die
  <2>2. NoOp.hand = NoFile /\ NoOp.todo = {} /\ NoOp.at # "hold"
    BY DEF NoOp
  <2> QED
    BY <2>1, <2>2 DEF ThreadIds
<1>32. ASSUME Restart
      PROVE  ThreadIds'
  BY <1>32 DEF Restart, ThreadIds
<1>33. ASSUME Requests
       PROVE  ThreadIds'
  BY <1>1, <1>2, <1>3, <1>4, <1>5, <1>6, <1>41, <1>42, <1>43, <1>33, ConstantsOK DEF Requests, MirrorRequest
<1>34. ASSUME NEW t \in Threads, Work(t)
       PROVE  ThreadIds'
  BY <1>7, <1>8, <1>9, <1>10, <1>11, <1>12, <1>13, <1>14, <1>15, <1>16, <1>17, <1>18, <1>19, <1>20, <1>21, <1>22, <1>23, <1>24, <1>37, <1>44, <1>45, <1>34 DEF Work
<1>35. ASSUME Worker \/ Users \/ Kill \/ Restart
       PROVE  ThreadIds'
  BY <1>25, <1>26, <1>27, <1>28, <1>29, <1>30, <1>31, <1>32, <1>38, <1>35, ConstantsOK DEF Worker, Users
<1> QED
  BY <1>33, <1>34, <1>35 DEF Next

\* Every step keeps the ids of rows valid.
LEMMA RowIdsStep ==
  ASSUME TypeOK, IdsValid, Next
  PROVE  RowIds'
<1> USE TypeParts, IdsParts DEF FileTypes, FolderTypes, DrainTypes, fileVars, folderVars, drainVars
<1>1. ASSUME NEW t \in Threads, NEW f \in Files, TrackFile(t, f)
      PROVE  RowIds'
  BY <1>1 DEF TrackFile, Track, RowIds, Rows, RowActions
<1>2. ASSUME NEW t \in Threads, NEW f \in Files, DeleteFile(t, f)
      PROVE  RowIds'
  BY <1>2 DEF DeleteFile, RowIds, Rows, RowActions
<1>3. ASSUME NEW t \in Threads, NEW d \in Folders, AddFolder(t, d)
      PROVE  RowIds'
  BY <1>3 DEF AddFolder, RowIds, Rows, RowActions
<1>4. ASSUME NEW t \in Threads, NEW d \in Folders, StartScan(t, d)
      PROVE  RowIds'
  BY <1>4 DEF StartScan, Start, RowIds, Rows, RowActions
<1>5. ASSUME NEW t \in Threads, NEW d \in Folders, StartMirror(t, d)
      PROVE  RowIds'
  BY <1>5 DEF StartMirror, Start, RowIds, Rows, RowActions
<1>6. ASSUME NEW t \in Threads, NEW d \in Folders, StartDelete(t, d)
      PROVE  RowIds'
  BY <1>6 DEF StartDelete, Start, RowIds, Rows, RowActions
<1>7. ASSUME NEW t \in Threads, RemoveFile(t)
      PROVE  RowIds'
  BY <1>7 DEF RemoveFile, Untrack, RowIds, Rows, RowActions
<1>8. ASSUME NEW t \in Threads, Finish(t)
      PROVE  RowIds'
  BY <1>8 DEF Finish, RowIds, Rows, RowActions
<1>9. ASSUME NEW t \in Threads, NEW f \in Files, ScanNew(t, f)
      PROVE  RowIds'
  BY <1>9 DEF ScanNew, ScanTrack, AutoTrack, TrackNew, Track, Visiting, RowIds, Rows, RowActions
<1>10. ASSUME NEW t \in Threads, NEW f \in Files, ScanChanged(t, f)
      PROVE  RowIds'
  BY <1>10 DEF ScanChanged, ScanChange, CommandChange, Record, Visiting, RowIds, Rows, RowActions
<1>11. ASSUME NEW t \in Threads, NEW f \in Files, ScanSame(t, f)
      PROVE  RowIds'
  BY <1>11 DEF ScanSame, Visiting, RowIds, Rows, RowActions
<1>12. ASSUME NEW t \in Threads, NEW f \in Files, MirrorFile(t, f)
      PROVE  RowIds'
  BY <1>12 DEF MirrorFile, Visiting, RowIds, Rows, RowActions
<1>13. ASSUME NEW t \in Threads, Queue(t)
      PROVE  RowIds'
  BY <1>13 DEF Queue, At, ThreadIds, Open, RowIds, Rows, RowActions
<1>14. ASSUME NEW t \in Threads, QueueFails(t)
      PROVE  RowIds'
  BY <1>14 DEF QueueFails, RowIds, Rows, RowActions
<1>15. ASSUME NEW t \in Threads, ScanFails(t)
      PROVE  RowIds'
  BY <1>15 DEF ScanFails, RowIds, Rows, RowActions
<1>16. ASSUME NEW t \in Threads, AllVisited(t)
      PROVE  RowIds'
  BY <1>16 DEF AllVisited, RowIds, Rows, RowActions
<1>17. ASSUME NEW t \in Threads, Clear(t)
      PROVE  RowIds'
  BY <1>17 DEF Clear, RowIds, Rows, RowActions
<1>18. ASSUME NEW t \in Threads, Cover(t)
      PROVE  RowIds'
  BY <1>18 DEF Cover, RowIds, Rows, RowActions
<1>19. ASSUME NEW t \in Threads, Settle(t)
      PROVE  RowIds'
  BY <1>19 DEF Settle, RowIds, Rows, RowActions
<1>20. ASSUME NEW t \in Threads, ListOrigins(t)
      PROVE  RowIds'
  BY <1>20 DEF ListOrigins, RowIds, Rows, RowActions
<1>21. ASSUME NEW t \in Threads, CommitDelete(t)
      PROVE  RowIds'
  BY <1>21 DEF CommitDelete, Untrack, RowIds, Rows, RowActions
<1>22. ASSUME NEW t \in Threads, DeleteFails(t)
      PROVE  RowIds'
  BY <1>22 DEF DeleteFails, RowIds, Rows, RowActions
<1>23. ASSUME NEW t \in Threads, FileFailed(t)
      PROVE  RowIds'
  BY <1>23 DEF FileFailed, SettleRows, Open, RowIds, Rows, RowActions
<1>24. ASSUME NEW t \in Threads, FileMirrored(t)
      PROVE  RowIds'
  BY <1>24 DEF FileMirrored, SettleRows, RowIds, Rows, RowActions
<1>37. ASSUME NEW t \in Threads, CompleteRows(t)
      PROVE  RowIds'
  BY <1>37 DEF CompleteRows, SettleRows, Open, RowIds, Rows, RowActions
<1>41. ASSUME NEW t \in Threads, NEW f \in Files, UntrackCommand(t, f)
      PROVE  RowIds'
  BY <1>41 DEF UntrackCommand, RowIds, Rows, RowActions
<1>42. ASSUME NEW t \in Threads, NEW f \in Files, CopyCommand(t, f)
      PROVE  RowIds'
  BY <1>42 DEF CopyCommand, RowIds, Rows, RowActions
<1>43. ASSUME NEW t \in Threads, NEW d \in Folders, FolderCommand(t, d)
      PROVE  RowIds'
  BY <1>43 DEF FolderCommand, Command, RowIds, Rows, RowActions
<1>44. ASSUME NEW t \in Threads, CopyFailed(t)
      PROVE  RowIds'
  BY <1>44 DEF CopyFailed, RowIds, Rows, RowActions
<1>45. ASSUME NEW t \in Threads, Interrupt(t)
      PROVE  RowIds'
  BY <1>45 DEF Interrupt, RowIds, Rows, RowActions
<1>25. ASSUME RequeueAndFetch
      PROVE  RowIds'
  BY <1>25 DEF RequeueAndFetch, RowIds, Rows, RowActions
<1>26. ASSUME NEW r \in Rows, TakeRow(r)
      PROVE  RowIds'
  BY <1>26 DEF TakeRow, RowIds, Rows, RowActions
<1>27. ASSUME RowCompleted
      PROVE  RowIds'
  BY <1>27, ConstantsOK DEF RowCompleted, RowIds, Rows, RowActions, NoRow
<1>38. ASSUME MarkMirrored
      PROVE  RowIds'
  BY <1>38 DEF MarkMirrored, RowIds, Rows, RowActions
<1>28. ASSUME RowFailed
      PROVE  RowIds'
  BY <1>28 DEF RowFailed, RowIds, Rows, RowActions
<1>29. ASSUME NEW f \in Files, TrackAgain(f)
      PROVE  RowIds'
  BY <1>29 DEF TrackAgain, RowIds, Rows, RowActions
<1>30. ASSUME NEW f \in Files, Edit(f)
      PROVE  RowIds'
  BY <1>30 DEF Edit, RowIds, Rows, RowActions
<1>31. ASSUME Kill
      PROVE  RowIds'
  BY <1>31 DEF Kill, NoRow, RowIds, Rows, RowActions
<1>32. ASSUME Restart
      PROVE  RowIds'
  BY <1>32 DEF Restart, NoRow, RowIds, Rows, RowActions
<1>33. ASSUME Requests
       PROVE  RowIds'
  BY <1>1, <1>2, <1>3, <1>4, <1>5, <1>6, <1>41, <1>42, <1>43, <1>33, ConstantsOK DEF Requests, MirrorRequest
<1>34. ASSUME NEW t \in Threads, Work(t)
       PROVE  RowIds'
  BY <1>7, <1>8, <1>9, <1>10, <1>11, <1>12, <1>13, <1>14, <1>15, <1>16, <1>17, <1>18, <1>19, <1>20, <1>21, <1>22, <1>23, <1>24, <1>37, <1>44, <1>45, <1>34 DEF Work
<1>35. ASSUME Worker \/ Users \/ Kill \/ Restart
       PROVE  RowIds'
  BY <1>25, <1>26, <1>27, <1>28, <1>29, <1>30, <1>31, <1>32, <1>38, <1>35, ConstantsOK DEF Worker, Users
<1> QED
  BY <1>33, <1>34, <1>35 DEF Next

(* Theorems *)

Inv == TypeOK /\ IdsValid

\* The service starts with well formed state and valid ids.
LEMMA InvInit == Init => Inv
  BY NoOpType, ConstantsOK DEF Init, Inv, TypeOK, IdsValid, Statuses, NoOp, Rows, RowActions, NoRow

\* Every step keeps types and ids.
LEMMA InvStep == Inv /\ [Next]_vars => Inv'
<1>1. ASSUME Inv, Next
      PROVE  Inv'
  <2>1. /\ FileTypes' /\ rows' \in [Rows -> Statuses] /\ FolderTypes' /\ DrainTypes'
        /\ up' \in BOOLEAN
    BY <1>1, DataTypes DEF Inv
  <2>2. TypeOK'
    BY <1>1, <2>1, OpType DEF Inv, TypeOK, FileTypes, FolderTypes, DrainTypes
  <2>3. ThreadIds' /\ RowIds'
    BY <1>1, ThreadIdsStep, RowIdsStep DEF Inv
  <2> QED
    BY <2>2, <2>3 DEF Inv, IdsValid, ThreadIds, RowIds
<1>2. ASSUME Inv, UNCHANGED vars
      PROVE  Inv'
  BY <1>2 DEF Inv, TypeOK, IdsValid, vars, fileVars, folderVars, drainVars
<1> QED
  BY <1>1, <1>2

\* Files, rows, flags and operations are well formed, an untracked file has no
\* source and no file has two (docs/ARCHITECTURE.md: "mutually exclusive").
THEOREM TypeCorrect == Spec => []TypeOK
<1>1. Inv => TypeOK
  BY DEF Inv
<1> QED
  BY InvInit, InvStep, <1>1, PTL DEF Spec

\* No row outlives its file, whoever untracks it and whatever is queued meanwhile
\* (delete_tracked_file, delete_folder_cascade_tx).
THEOREM RowsHaveFiles == Spec => []IdsValid
<1>1. Inv => IdsValid
  BY DEF Inv
<1> QED
  BY InvInit, InvStep, <1>1, PTL DEF Spec

(* One operation on a folder at a time *)

\* Without commands beside other operations, a thread at work on a folder is alone; one of
\* the service has its flag, and that flag only; a flag has a thread, and no thread of the
\* service outlives it.
Held ==
    /\ \A t \in Threads : op[t].kind \in FolderKinds => op[t].folder # NoFolder
    /\ \A t \in Threads : op[t].kind \notin FolderKinds \cup Commands => op[t].folder = NoFolder
    /\ \A t \in Threads : op[t].kind \in {"delete", "remove"} => op[t].folder \in Folders
    /\ \A t \in Threads : op[t].at \in {"clear", "cover", "settle"} => op[t].kind \in Walks \cup {"add"}
    /\ \A t \in Threads : op[t].kind \in FolderKinds =>
          op[t].folder \in folders /\ flags[op[t].folder] = {FlagOf(op[t].kind)}
    /\ \A s, t \in Threads : op[s].folder = op[t].folder /\ op[s].folder # NoFolder => s = t
    /\ \A d \in Folders : up /\ flags[d] # {} =>
          \E t \in Threads : op[t].folder = d /\ op[t].kind \in FolderKinds
    /\ ~up => \A t \in Threads : op[t].kind \notin FolderKinds

HInv == Inv /\ Held

H == [d \in Folders |-> Holders(d)]

\* Steps that leave every thread with the folder it is at work on, if any.
Keeps ==
    /\ UNCHANGED <<folders, flags, up>>
    /\ \A t \in Threads :
          /\ op'[t].folder = op[t].folder
          /\ op'[t].kind # op[t].kind =>
                /\ op[t].kind \notin FolderKinds /\ op'[t].kind \notin FolderKinds \cup {"remove"}
                /\ op'[t].kind \notin Commands => op'[t].folder = NoFolder
          /\ op'[t].at \in {"clear", "cover", "settle"} => op'[t].kind \in Walks \cup {"add"}

\* A thread without a flag ends.
Ends(t) ==
    /\ op' = [op EXCEPT ![t] = NoOp]
    /\ op[t].kind \notin FolderKinds
    /\ UNCHANGED <<folders, flags, up>>

\* A step for Held and FolderExclusion.
Excludes == Held' /\ [Exclusion!Next]_(Exclusion!vars)

\* What the parts of Held are about.
LEMMA KindsApart ==
  /\ FolderKinds \cap Commands = {} /\ {"add", "none", "track", "untrack"} \cap (FolderKinds \cup Commands) = {}
  /\ {"delete", "scan", "mirror"} = FolderKinds /\ {"auto", "changes", "copy", "remove"} = Commands
  /\ NoOp.kind = "none" /\ NoOp.folder = NoFolder /\ NoOp.at = "finish"
  BY DEF FolderKinds, Commands, NoOp

\* Such steps keep Held, and are no steps of FolderExclusion.
LEMMA KeepsHeld ==
  ASSUME HInv, Keeps
  PROVE  Excludes
<1>1. \A t \in Threads : op'[t].folder = op[t].folder
  BY DEF Keeps
<1>2. \A t \in Threads : op'[t].kind \in FolderKinds \/ op[t].kind \in FolderKinds => op'[t].kind = op[t].kind
  BY DEF Keeps
<1>3. /\ \A t \in Threads : op'[t].kind \in FolderKinds => op'[t].folder # NoFolder
      /\ \A t \in Threads : op'[t].kind \notin FolderKinds \cup Commands => op'[t].folder = NoFolder
      /\ \A t \in Threads : op'[t].kind \in {"delete", "remove"} => op'[t].folder \in Folders
      /\ \A t \in Threads : op'[t].at \in {"clear", "cover", "settle"} => op'[t].kind \in Walks \cup {"add"}
  BY <1>1, <1>2, KindsApart DEF HInv, Held, Keeps
<1>4. \A t \in Threads : op'[t].kind \in FolderKinds =>
          op'[t].folder \in folders' /\ flags'[op'[t].folder] = {FlagOf(op'[t].kind)}
  BY <1>1, <1>2 DEF HInv, Held, Keeps
<1>5. \A r, t \in Threads : op'[r].folder = op'[t].folder /\ op'[r].folder # NoFolder => r = t
  BY <1>1 DEF HInv, Held
<1>6. \A d \in Folders : up' /\ flags'[d] # {} =>
          \E t \in Threads : op'[t].folder = d /\ op'[t].kind \in FolderKinds
  BY <1>1, <1>2 DEF HInv, Held, Keeps
<1>7. ~up' => \A t \in Threads : op'[t].kind \notin FolderKinds
  BY <1>2 DEF HInv, Held, Keeps
<1>8. Held'
  BY <1>3, <1>4, <1>5, <1>6, <1>7 DEF Held, FlagOf
<1>9. \A d \in Folders : Holders(d)' = Holders(d)
  BY <1>1 DEF Holders
<1> QED
  BY <1>8, <1>9 DEF Excludes, Keeps, Exclusion!vars

\* A command that ends leaves its folder, if it has one, to others.
LEMMA EndsHeld ==
  ASSUME HInv, NEW t \in Threads, Ends(t)
  PROVE  Excludes
<1>1. op \in [Threads -> Op] /\ folders \subseteq Folders
  BY DEF HInv, Inv, TypeOK
<1>2. op'[t] = NoOp /\ \A s \in Threads : s # t => op'[s] = op[s]
  BY <1>1 DEF Ends
<1>3. Held'
  BY <1>2, KindsApart, ConstantsOK DEF HInv, Held, Ends, FlagOf
<1>4. CASE op[t].folder \notin Folders
  <2>1. \A d \in Folders : Holders(d)' = Holders(d)
    BY <1>2, <1>4, KindsApart, ConstantsOK DEF Holders
  <2> QED
    BY <1>3, <2>1 DEF Excludes, Ends, Exclusion!vars
<1>5. ASSUME NEW d \in Folders, op[t].folder = d
      PROVE  Exclusion!End(d, t)
  <2>1. \A s \in Threads : s # t => op[s].folder # d
    BY <1>5, ConstantsOK DEF HInv, Held
  <2>2. Holders(d) = {t} /\ Holders(d)' = {}
    BY <1>2, <1>5, <2>1, KindsApart, ConstantsOK DEF Holders
  <2>3. \A e \in Folders : e # d => Holders(e)' = Holders(e)
    BY <1>2, <1>5, KindsApart, ConstantsOK DEF Holders
  <2> QED
    BY <2>2, <2>3 DEF Ends, Exclusion!End
<1> QED
  BY <1>3, <1>4, <1>5 DEF Excludes, Exclusion!Next

\* Losing its files changes nothing else of a thread.
LEMMA WithoutSame ==
  ASSUME op \in [Threads -> Op], NEW s \in Threads, NEW gone
  PROVE  /\ Without(s, gone).kind = op[s].kind /\ Without(s, gone).folder = op[s].folder
         /\ Without(s, gone).at = op[s].at
<1>1. op[s] \in Op
  OBVIOUS
<1> QED
  BY <1>1 DEF Without, Op

\* All steps of threads but the ones that set or clear a flag, take up or remove a folder.
LEMMA ThreadKeeps ==
  ASSUME HInv, NEW t \in Threads, NEW f,
         \/ TrackFile(t, f) \/ DeleteFile(t, f) \/ UntrackCommand(t, f) \/ CopyCommand(t, f)
         \/ RemoveFile(t)
         \/ ScanNew(t, f) \/ ScanChanged(t, f) \/ ScanSame(t, f) \/ MirrorFile(t, f)
         \/ Queue(t) \/ QueueFails(t) \/ ScanFails(t) \/ AllVisited(t)
         \/ Clear(t) \/ Cover(t) \/ Settle(t) \/ ListOrigins(t)
         \/ FileFailed(t) \/ FileMirrored(t) \/ CompleteRows(t) \/ CopyFailed(t) \/ Interrupt(t)
  PROVE  Keeps \/ Ends(t)
<1>0. op \in [Threads -> Op] /\ op[t] \in Op
  BY DEF HInv, Inv, TypeOK
<1>a. ASSUME NEW o, op' = [op EXCEPT ![t] = o], UNCHANGED <<folders, flags, up>>,
             o.folder = op[t].folder, o.kind = op[t].kind,
             o.at \in {"clear", "cover", "settle"} => o.kind \in Walks \cup {"add"}
      PROVE  Keeps
  BY <1>a, <1>0 DEF Keeps, HInv, Held
<1>b. ASSUME NEW o, op' = [op EXCEPT ![t] = o], UNCHANGED <<folders, flags, up>>,
             op[t].kind = "none", o.folder = NoFolder, o.at \notin {"clear", "cover", "settle"},
             o.kind \in {"track", "untrack", "copy"}
      PROVE  Keeps
  BY <1>b, <1>0, KindsApart DEF Keeps, HInv, Held
<1> USE <1>0 DEF folderVars, Become, Op, At
<1>1. CASE TrackFile(t, f)
  <2> DEFINE o == [NoOp EXCEPT !.kind = "track", !.at = "hold", !.hand = f,
                                  !.action = "adopt_mirror"]
  <2>1. op[t].kind = "none" /\ op' = [op EXCEPT ![t] = o] /\ UNCHANGED <<folders, flags, up>>
    BY <1>1 DEF TrackFile, Free
  <2>2. o.kind = "track" /\ o.folder = NoFolder /\ o.at = "hold"
    BY DEF NoOp
  <2> HIDE DEF o
  <2> QED
    BY <2>1, <2>2, <1>b
<1>2. CASE DeleteFile(t, f)
  <2> DEFINE o == [NoOp EXCEPT !.kind = "untrack", !.at = "commit", !.hand = f]
  <2>1. op[t].kind = "none" /\ op' = [op EXCEPT ![t] = o] /\ UNCHANGED <<folders, flags, up>>
    BY <1>2 DEF DeleteFile, Free
  <2>2. o.kind = "untrack" /\ o.folder = NoFolder /\ o.at = "commit"
    BY DEF NoOp
  <2> HIDE DEF o
  <2> QED
    BY <2>1, <2>2, <1>b
<1>3. CASE RemoveFile(t)
  <2> DEFINE gone == {op[t].hand} \cap Files
  <2>1. /\ op[t].kind = "untrack" /\ op[t].folder = NoFolder
        /\ op' = [s \in Threads |-> IF s = t THEN NoOp ELSE Without(s, gone)]
        /\ UNCHANGED <<folders, flags, up>>
    BY <1>3, KindsApart DEF RemoveFile, HInv, Held
  <2>2. \A s \in Threads : s # t => /\ op'[s].kind = op[s].kind /\ op'[s].folder = op[s].folder
                                    /\ op'[s].at = op[s].at
    BY <2>1, WithoutSame
  <2>3. op'[t] = NoOp
    BY <2>1
  <2> QED
    BY <2>1, <2>2, <2>3, KindsApart DEF Keeps, HInv, Held
<1>4. CASE ScanNew(t, f)
  BY <1>4, <1>a DEF ScanNew, ScanTrack, AutoTrack, TrackNew, Visiting, InHand
<1>5. CASE ScanChanged(t, f)
  <2> DEFINE o == [op[t] EXCEPT !.at = "hold", !.hand = f, !.todo = @ \ {f}, !.action = "mirror"]
  <2>1. op' = [op EXCEPT ![t] = o] /\ UNCHANGED <<folders, flags, up>>
    BY <1>5 DEF ScanChanged, ScanChange, CommandChange, Record, InHand
  <2>2. o.kind = op[t].kind /\ o.folder = op[t].folder /\ o.at = "hold"
    OBVIOUS
  <2> HIDE DEF o
  <2> QED
    BY <2>1, <2>2, <1>a
<1>6. CASE ScanSame(t, f)
  BY <1>6, <1>a DEF ScanSame, Visiting
<1>7. CASE MirrorFile(t, f)
  BY <1>7, <1>a DEF MirrorFile, Visiting, InHand
<1>8. CASE Queue(t)
  <2>1. CASE op[t].kind \in Scans
    BY <1>8, <2>1, <1>a DEF Queue, AfterQueue
  <2>2. CASE op[t].kind \notin Scans
    BY <1>8, <2>2 DEF Queue, AfterQueue, Ends, FolderKinds
  <2> QED
    BY <2>1, <2>2
<1>9. CASE QueueFails(t)
  <2>1. CASE op[t].kind = "scan"
    BY <1>9, <2>1, <1>a DEF QueueFails, GiveUp
  <2>2. CASE op[t].kind # "scan"
    BY <1>9, <2>2 DEF QueueFails, GiveUp, Scans, Ends, FolderKinds
  <2> QED
    BY <2>1, <2>2
<1>10. CASE ScanFails(t)
  <2>1. CASE op[t].kind = "scan"
    BY <1>10, <2>1, <1>a DEF ScanFails, GiveUp
  <2>2. CASE op[t].kind # "scan"
    BY <1>10, <2>2 DEF ScanFails, GiveUp, Scans, Ends, FolderKinds
  <2> QED
    BY <2>1, <2>2
<1>11. CASE AllVisited(t)
  <2>1. CASE op[t].kind \in Walks
    BY <1>11, <2>1, <1>a DEF AllVisited
  <2>2. CASE op[t].kind = "mirror"
    BY <1>11, <2>2, <1>a DEF AllVisited, Walks
  <2>3. CASE op[t].kind \notin Walks \cup {"mirror"}
    BY <1>11, <2>3 DEF AllVisited, Walks, Ends, FolderKinds
  <2> QED
    BY <2>1, <2>2, <2>3
<1>12. CASE Clear(t)
  <2>1. /\ op[t].at = "clear" /\ op' = [op EXCEPT ![t] = [op[t] EXCEPT !.at = "cover"]]
        /\ UNCHANGED <<folders, flags, up>>
    BY <1>12 DEF Clear
  <2>2. op[t].kind \in Walks \cup {"add"}
    BY <2>1 DEF HInv, Held
  <2> QED
    BY <2>1, <2>2, <1>a
<1>13. CASE Cover(t)
  <2>1. op[t].kind \in Walks \cup {"add"}
    BY <1>13 DEF Cover, HInv, Held
  <2> QED
    BY <1>13, <2>1, <1>a DEF Cover
<1>14. CASE Settle(t)
  <2>1. op[t].kind \in Walks \cup {"add"} /\ UNCHANGED <<folders, flags, up>>
    BY <1>14 DEF Settle, HInv, Held
  <2>2. CASE op[t].kind = "scan"
    BY <1>14, <2>1, <2>2, <1>a DEF Settle
  <2>3. CASE op[t].kind = "auto"
    <3> DEFINE o == ListChanges(t)
    <3>1. op' = [op EXCEPT ![t] = o]
      BY <1>14, <2>3 DEF Settle
    <3>2. o.folder = op[t].folder /\ o.kind = "changes" /\ o.at = "visit"
      BY DEF ListChanges
    <3> HIDE DEF o
    <3> QED
      BY <2>1, <2>3, <3>1, <3>2, KindsApart DEF Keeps, HInv, Held
  <2>4. CASE op[t].kind = "add"
    BY <1>14, <2>1, <2>4 DEF Settle, Ends, FolderKinds
  <2> QED
    BY <2>1, <2>2, <2>3, <2>4 DEF Walks
<1>15. CASE ListOrigins(t)
  <2> DEFINE o == [op[t] EXCEPT !.at = "commit", !.todo = Origins(op[t].folder)]
  <2>1. op' = [op EXCEPT ![t] = o] /\ UNCHANGED <<folders, flags, up>>
    BY <1>15 DEF ListOrigins
  <2>2. o.kind = op[t].kind /\ o.folder = op[t].folder /\ o.at = "commit"
    OBVIOUS
  <2> HIDE DEF o
  <2> QED
    BY <2>1, <2>2, <1>a
<1>16. CASE FileFailed(t)
  BY <1>16, <1>a DEF FileFailed
<1>17. CASE FileMirrored(t)
  BY <1>17, <1>a DEF FileMirrored
<1>18. CASE CompleteRows(t)
  BY <1>18, <1>a DEF CompleteRows
<1>19. CASE CopyFailed(t)
  BY <1>19 DEF CopyFailed, End, Ends, FolderKinds
<1>20. CASE Interrupt(t)
  <2>1. op' = [op EXCEPT ![t] = NoOp]
    BY <1>20 DEF Interrupt, Die
  <2> QED
    BY <1>20, <2>1 DEF Interrupt, Ends, OfService
<1>21. CASE UntrackCommand(t, f)
  <2> DEFINE o == [NoOp EXCEPT !.kind = "untrack", !.at = "commit", !.hand = f]
  <2>1. op[t].kind = "none" /\ op' = [op EXCEPT ![t] = o] /\ UNCHANGED <<folders, flags, up>>
    BY <1>21 DEF UntrackCommand, Free
  <2>2. o.kind = "untrack" /\ o.folder = NoFolder /\ o.at = "commit"
    BY DEF NoOp
  <2> HIDE DEF o
  <2> QED
    BY <2>1, <2>2, <1>b
<1>22. CASE CopyCommand(t, f)
  <2> DEFINE o == [NoOp EXCEPT !.kind = "copy", !.at = "visit", !.todo = {f}]
  <2>1. op[t].kind = "none" /\ op' = [op EXCEPT ![t] = o] /\ UNCHANGED <<folders, flags, up>>
    BY <1>22 DEF CopyCommand, Free
  <2>2. o.kind = "copy" /\ o.folder = NoFolder /\ o.at = "visit"
    BY DEF NoOp
  <2> HIDE DEF o
  <2> QED
    BY <2>1, <2>2, <1>b
<1> QED
  BY <1>1, <1>2, <1>3, <1>4, <1>5, <1>6, <1>7, <1>8, <1>9, <1>10, <1>11, <1>12, <1>13, <1>14, <1>15,
     <1>16, <1>17, <1>18, <1>19, <1>20, <1>21, <1>22

\* A thread takes up an operation on a folder nobody is at work on.
LEMMA Taking ==
  ASSUME HInv, NEW t \in Threads, NEW d \in Folders, NEW o, d \in folders,
         op[t].kind = "none", Holders(d) = {}, op' = [op EXCEPT ![t] = o],
         o.folder = d, o.at \in {"visit", "list"}, UNCHANGED <<folders, up>>,
         \/ o.kind \in Commands /\ UNCHANGED flags
         \/ o.kind \in FolderKinds /\ up /\ flags[d] = {} /\ flags' = [flags EXCEPT ![d] = {FlagOf(o.kind)}]
  PROVE  Excludes
<1>1. /\ op \in [Threads -> Op] /\ folders \subseteq Folders
      /\ flags \in [Folders -> SUBSET {"scanning", "mirroring", "deleting"}]
  BY DEF HInv, Inv, TypeOK
<1>2. op'[t] = o /\ \A s \in Threads : s # t => op'[s] = op[s]
  BY <1>1
<1>3. op[t].folder = NoFolder /\ \A s \in Threads : op[s].folder # d
  BY KindsApart DEF HInv, Held, Holders
<1>4. d # NoFolder
  BY ConstantsOK
<1>5. \A s \in Threads : op'[s].kind \in FolderKinds =>
          op'[s].folder \in folders' /\ flags'[op'[s].folder] = {FlagOf(op'[s].kind)}
  <2> SUFFICES ASSUME NEW s \in Threads, op'[s].kind \in FolderKinds
               PROVE  op'[s].folder \in folders' /\ flags'[op'[s].folder] = {FlagOf(op'[s].kind)}
    OBVIOUS
  <2>1. CASE s = t
    BY <2>1, <1>1, <1>2, KindsApart
  <2>2. CASE s # t
    <3>1. op'[s] = op[s] /\ op[s].folder \in folders /\ op[s].folder # d
          /\ flags[op[s].folder] = {FlagOf(op[s].kind)}
      BY <2>2, <1>2, <1>3 DEF HInv, Held
    <3> QED
      BY <3>1, <1>1
  <2> QED
    BY <2>1, <2>2
<1>6. \A r, s \in Threads : op'[r].folder = op'[s].folder /\ op'[r].folder # NoFolder => r = s
  BY <1>2, <1>3 DEF HInv, Held
<1>7. \A e \in Folders : up' /\ flags'[e] # {} =>
          \E s \in Threads : op'[s].folder = e /\ op'[s].kind \in FolderKinds
  <2> SUFFICES ASSUME NEW e \in Folders, up', flags'[e] # {}
               PROVE  \E s \in Threads : op'[s].folder = e /\ op'[s].kind \in FolderKinds
    OBVIOUS
  <2>1. CASE e = d /\ o.kind \in FolderKinds
    BY <2>1, <1>2
  <2>2. CASE ~(e = d /\ o.kind \in FolderKinds)
    <3>1. up /\ flags[e] # {}
      BY <2>2, <1>1, KindsApart
    <3>2. PICK s \in Threads : op[s].folder = e /\ op[s].kind \in FolderKinds
      BY <3>1 DEF HInv, Held
    <3>3. s # t
      BY <3>2, KindsApart
    <3> QED
      BY <3>2, <3>3, <1>2
  <2> QED
    BY <2>1, <2>2
<1>8. /\ \A s \in Threads : op'[s].kind \in FolderKinds => op'[s].folder # NoFolder
      /\ \A s \in Threads : op'[s].kind \notin FolderKinds \cup Commands => op'[s].folder = NoFolder
      /\ \A s \in Threads : op'[s].kind \in {"delete", "remove"} => op'[s].folder \in Folders
      /\ \A s \in Threads : op'[s].at \in {"clear", "cover", "settle"} => op'[s].kind \in Walks \cup {"add"}
      /\ ~up' => \A s \in Threads : op'[s].kind \notin FolderKinds
  BY <1>2, <1>4, KindsApart DEF HInv, Held
<1>9. Held'
  BY <1>5, <1>6, <1>7, <1>8 DEF Held, FlagOf
<1>10. Holders(d)' = {t} /\ \A e \in Folders : e # d => Holders(e)' = Holders(e)
  BY <1>2, <1>3, <1>4, ConstantsOK DEF Holders
<1>11. Exclusion!Begin(d, t)
  BY <1>10 DEF Exclusion!Begin
<1> QED
  BY <1>9, <1>11 DEF Excludes, Exclusion!Next

\* A started operation finds nobody at work on its folder.
LEMMA Starting ==
  ASSUME "command beside operation" \notin Allowed, HInv, NEW t \in Threads, NEW d \in Folders,
         NEW kind \in FolderKinds, NEW place \in {"visit", "list"}, NEW todo,
         Start(t, d, kind, place, todo)
  PROVE  Excludes
<1> DEFINE o == [NoOp EXCEPT !.kind = kind, !.at = place, !.folder = d, !.todo = todo]
<1>1. flags \in [Folders -> SUBSET {"scanning", "mirroring", "deleting"}]
  BY DEF HInv, Inv, TypeOK
<1>2. /\ up /\ op[t].kind = "none" /\ d \in folders /\ flags[d] = {}
      /\ flags' = [flags EXCEPT ![d] = @ \cup {FlagOf(kind)}]
      /\ op' = [op EXCEPT ![t] = o]
      /\ UNCHANGED <<folders, up>>
  BY DEF Start, Free, Unflagged, Become
<1>3. o.kind = kind /\ o.at = place /\ o.folder = d
  BY DEF NoOp
<1> HIDE DEF o
<1>4. flags' = [flags EXCEPT ![d] = {FlagOf(kind)}]
  BY <1>1, <1>2
<1>5. {s \in Holders(d) : op[s].kind \in Commands} = {}
  BY DEF Start, Alone
<1>6. \A s \in Threads : op[s].folder # d
  <2> SUFFICES ASSUME NEW s \in Threads, op[s].folder = d
               PROVE  FALSE
    OBVIOUS
  <2>1. op[s].kind \notin Commands
    BY <1>5 DEF Holders
  <2>2. op[s].kind \in FolderKinds
    BY <2>1, ConstantsOK DEF HInv, Held
  <2>3. flags[d] = {FlagOf(op[s].kind)}
    BY <2>2 DEF HInv, Held
  <2> QED
    BY <1>2, <2>3
<1>7. Holders(d) = {}
  BY <1>6 DEF Holders
<1> QED
  BY <1>2, <1>3, <1>4, <1>7, Taking

\* So does a command.
LEMMA Commanding ==
  ASSUME "command beside operation" \notin Allowed, HInv, NEW t \in Threads, NEW d \in Folders,
         FolderCommand(t, d)
  PROVE  Excludes
<1>1. PICK k \in {"auto", "copy", "remove"}, p \in {"visit", "list"}, todo \in {Under[d], ToMirror(d), {}} :
           Command(t, d, k, p, todo)
  BY DEF FolderCommand
<1> DEFINE o == [NoOp EXCEPT !.kind = k, !.at = p, !.folder = d, !.todo = todo]
<1>2. /\ op[t].kind = "none" /\ d \in folders /\ Holders(d) = {} /\ op' = [op EXCEPT ![t] = o]
      /\ UNCHANGED <<folders, flags, up>>
  BY <1>1 DEF Command, Free, Alone, Become, folderVars
<1>3. o.kind \in Commands /\ o.at = p /\ o.folder = d
  BY KindsApart DEF NoOp
<1> HIDE DEF o
<1> QED
  BY <1>2, <1>3, Taking

\* An operation of the service that ends leaves its folder to others, and so does one that
\* removes it.
LEMMA Ending ==
  ASSUME HInv, NEW t \in Threads, NEW d \in Folders, NEW o, op[t].folder = d,
         \A s \in Threads : s # t => /\ op'[s].kind = op[s].kind
                                    /\ op'[s].folder = op[s].folder
                                    /\ op'[s].at = op[s].at,
         op'[t] = o, o.kind \in {"none", "add"}, o.folder = NoFolder,
         o.at \in {"clear", "cover", "settle"} => o.kind = "add",
         flags' = [flags EXCEPT ![d] = {}],
         folders' = folders \/ folders' = folders \ {d},
         UNCHANGED up
  PROVE  Excludes
<1>1. /\ flags \in [Folders -> SUBSET {"scanning", "mirroring", "deleting"}]
      /\ folders \subseteq Folders
  BY DEF HInv, Inv, TypeOK
<1>2. \A s \in Threads : s # t => op[s].folder # d
  BY ConstantsOK DEF HInv, Held
<1>3. o.kind \notin FolderKinds \cup Commands
  BY KindsApart
<1>4. \A s \in Threads : op'[s].kind \in FolderKinds =>
          op'[s].folder \in folders' /\ flags'[op'[s].folder] = {FlagOf(op'[s].kind)}
  <2> SUFFICES ASSUME NEW s \in Threads, op'[s].kind \in FolderKinds
               PROVE  op'[s].folder \in folders' /\ flags'[op'[s].folder] = {FlagOf(op'[s].kind)}
    OBVIOUS
  <2>1. s # t /\ op'[s].folder = op[s].folder /\ op'[s].kind = op[s].kind
    BY <1>3
  <2>2. op[s].folder \in folders /\ flags[op[s].folder] = {FlagOf(op[s].kind)} /\ op[s].folder # d
    BY <2>1, <1>2 DEF HInv, Held
  <2> QED
    BY <1>1, <2>1, <2>2
<1>5. \A r, s \in Threads : op'[r].folder = op'[s].folder /\ op'[r].folder # NoFolder => r = s
  BY DEF HInv, Held
<1>6. \A e \in Folders : up' /\ flags'[e] # {} =>
          \E s \in Threads : op'[s].folder = e /\ op'[s].kind \in FolderKinds
  <2> SUFFICES ASSUME NEW e \in Folders, up', flags'[e] # {}
               PROVE  \E s \in Threads : op'[s].folder = e /\ op'[s].kind \in FolderKinds
    OBVIOUS
  <2>1. e # d /\ flags[e] # {} /\ up
    BY <1>1
  <2>2. PICK s \in Threads : op[s].folder = e /\ op[s].kind \in FolderKinds
    BY <2>1 DEF HInv, Held
  <2>3. s # t
    BY <2>1, <2>2
  <2> QED
    BY <2>2, <2>3
<1>7. /\ \A s \in Threads : op'[s].kind \in FolderKinds => op'[s].folder # NoFolder
      /\ \A s \in Threads : op'[s].kind \notin FolderKinds \cup Commands => op'[s].folder = NoFolder
      /\ \A s \in Threads : op'[s].kind \in {"delete", "remove"} => op'[s].folder \in Folders
      /\ \A s \in Threads : op'[s].at \in {"clear", "cover", "settle"} => op'[s].kind \in Walks \cup {"add"}
      /\ ~up' => \A s \in Threads : op'[s].kind \notin FolderKinds
  BY <1>3, KindsApart DEF HInv, Held
<1>8. Held'
  BY <1>4, <1>5, <1>6, <1>7 DEF Held, FlagOf
<1>9. /\ Holders(d) = {t} /\ Holders(d)' = {}
      /\ \A e \in Folders : e # d => Holders(e)' = Holders(e)
  BY <1>2, ConstantsOK DEF Holders
<1>10. Exclusion!End(d, t) \/ Exclusion!Remove(d, t)
  BY <1>9 DEF Exclusion!End, Exclusion!Remove
<1> QED
  BY <1>8, <1>10 DEF Excludes, Exclusion!Next

\* Every step of FolderOps is a step of FolderExclusion or none.
LEMMA HeldStep ==
  ASSUME "command beside operation" \notin Allowed, HInv, Next
  PROVE  Excludes
<1>a. /\ op \in [Threads -> Op] /\ folders \subseteq Folders
      /\ flags \in [Folders -> SUBSET {"scanning", "mirroring", "deleting"}]
  BY DEF HInv, Inv, TypeOK
<1>1. ASSUME NEW t \in Threads, NEW d \in Folders, AddFolder(t, d)
      PROVE  Excludes
  <2> DEFINE o == [NoOp EXCEPT !.kind = "add", !.at = "clear"]
  <2>1. /\ op[t].kind = "none" /\ d \notin folders
        /\ folders' = folders \cup {d} /\ flags' = [flags EXCEPT ![d] = {}]
        /\ op' = [op EXCEPT ![t] = o] /\ UNCHANGED up
    BY <1>1 DEF AddFolder, Free, Become
  <2>2. o.kind = "add" /\ o.at = "clear" /\ o.folder = NoFolder
    BY DEF NoOp
  <2> HIDE DEF o
  <2>3. op[t].folder = NoFolder
    BY <2>1, KindsApart DEF HInv, Held
  <2>4. \A s \in Threads : op'[s].folder = op[s].folder /\ (s # t => op'[s] = op[s])
    BY <2>1, <2>2, <2>3, <1>a
  <2>5. op'[t] = o
    BY <2>1, <1>a
  <2>6. \A s \in Threads : op'[s].kind \in FolderKinds => s # t
    BY <2>2, <2>5, KindsApart
  <2>7. \A s \in Threads : op'[s].kind \in FolderKinds =>
          op'[s].folder \in folders' /\ flags'[op'[s].folder] = {FlagOf(op'[s].kind)}
    <3> SUFFICES ASSUME NEW s \in Threads, op'[s].kind \in FolderKinds
                 PROVE  op'[s].folder \in folders' /\ flags'[op'[s].folder] = {FlagOf(op'[s].kind)}
      OBVIOUS
    <3>1. op'[s] = op[s] /\ op[s].folder \in folders /\ flags[op[s].folder] = {FlagOf(op[s].kind)}
      BY <2>4, <2>6 DEF HInv, Held
    <3> QED
      BY <3>1, <2>1, <1>a
  <2>8. \A e \in Folders : up' /\ flags'[e] # {} =>
          \E s \in Threads : op'[s].folder = e /\ op'[s].kind \in FolderKinds
    <3> SUFFICES ASSUME NEW e \in Folders, up', flags'[e] # {}
                 PROVE  \E s \in Threads : op'[s].folder = e /\ op'[s].kind \in FolderKinds
      OBVIOUS
    <3>1. up /\ flags[e] # {}
      BY <2>1, <1>a
    <3>2. PICK s \in Threads : op[s].folder = e /\ op[s].kind \in FolderKinds
      BY <3>1 DEF HInv, Held
    <3>3. s # t
      BY <3>2, <2>1, KindsApart
    <3> QED
      BY <3>2, <3>3, <2>4
  <2>12. /\ \A s \in Threads : op'[s].kind \in FolderKinds => op'[s].folder # NoFolder
         /\ \A s \in Threads : op'[s].kind \notin FolderKinds \cup Commands => op'[s].folder = NoFolder
         /\ \A s \in Threads : op'[s].kind \in {"delete", "remove"} => op'[s].folder \in Folders
         /\ \A s \in Threads : op'[s].at \in {"clear", "cover", "settle"} => op'[s].kind \in Walks \cup {"add"}
         /\ ~up' => \A s \in Threads : op'[s].kind \notin FolderKinds
    <3>1. \A s \in Threads :
             (s = t /\ op'[s] = o /\ op'[s].folder = NoFolder) \/ (s # t /\ op'[s] = op[s])
      BY <2>2, <2>4, <2>5
    <3>2. o.kind \notin FolderKinds \cup Commands /\ o.kind \notin {"delete", "remove"}
      BY <2>2, KindsApart
    <3>3. CASE up'
      <4>1. \A s \in Threads : s # t =>
              /\ op[s].kind \in FolderKinds => op[s].folder # NoFolder
              /\ op[s].kind \notin FolderKinds \cup Commands => op[s].folder = NoFolder
              /\ op[s].kind \in {"delete", "remove"} => op[s].folder \in Folders
              /\ op[s].at \in {"clear", "cover", "settle"} => op[s].kind \in Walks \cup {"add"}
        BY DEF HInv, Held
      <4> QED
        BY <2>2, <3>1, <3>2, <3>3, <4>1
    <3>4. CASE ~up'
      <4>1. \A s \in Threads : s # t =>
              /\ op[s].kind \in FolderKinds => op[s].folder # NoFolder
              /\ op[s].kind \notin FolderKinds \cup Commands => op[s].folder = NoFolder
              /\ op[s].kind \in {"delete", "remove"} => op[s].folder \in Folders
              /\ op[s].at \in {"clear", "cover", "settle"} => op[s].kind \in Walks \cup {"add"}
              /\ op[s].kind \notin FolderKinds
        BY <2>1, <3>4 DEF HInv, Held
      <4> QED
        BY <2>2, <3>1, <3>2, <3>4, <4>1
    <3> QED
      BY <3>3, <3>4
  <2>13. \A r, s \in Threads : op'[r].folder = op'[s].folder /\ op'[r].folder # NoFolder => r = s
    <3>1. \A r, s \in Threads : op[r].folder = op[s].folder /\ op[r].folder # NoFolder => r = s
      BY DEF HInv, Held
    <3> QED
      BY <3>1, <2>4
  <2>9. Held'
    BY <2>7, <2>8, <2>12, <2>13 DEF Held, FlagOf
  <2>10. \A e \in Folders : Holders(e)' = Holders(e)
    BY <2>4 DEF Holders
  <2>11. Exclusion!Add(d)
    BY <2>1, <2>10 DEF Exclusion!Add
  <2> QED
    BY <2>9, <2>11 DEF Excludes, Exclusion!Next
<1>2. ASSUME NEW t \in Threads, NEW d \in Folders,
             StartScan(t, d) \/ StartMirror(t, d) \/ StartDelete(t, d)
      PROVE  Excludes
  BY <1>2, Starting DEF StartScan, StartMirror, StartDelete, FolderKinds
<1>3. ASSUME NEW t \in Threads, Finish(t) \/ DeleteFails(t), op[t].kind \in FolderKinds
      PROVE  Excludes
  <2>1. PICK d \in Folders : op[t].folder = d /\ flags[d] = {FlagOf(op[t].kind)}
    BY <1>3, <1>a DEF HInv, Held
  <2>2. flags' = [flags EXCEPT ![d] = {}]
    <3>1. op[t].kind # "remove"
      BY <1>3, KindsApart
    <3>2. flags' = [flags EXCEPT ![d] = @ \ {FlagOf(op[t].kind)}]
      BY <1>3, <2>1, <3>1 DEF Finish, DeleteFails, At, FlagOf
    <3> QED
      BY <3>2, <2>1, <1>a
  <2>3. op' = [op EXCEPT ![t] = NoOp] /\ UNCHANGED <<folders, up>>
    BY <1>3 DEF Finish, DeleteFails, End, Become
  <2>4. op'[t] = NoOp /\ \A s \in Threads : s # t =>
          op'[s].kind = op[s].kind /\ op'[s].folder = op[s].folder /\ op'[s].at = op[s].at
    BY <2>3, <1>a
  <2> QED
    BY <2>1, <2>2, <2>3, <2>4, KindsApart, Ending
<1>4. ASSUME NEW t \in Threads, DeleteFails(t), op[t].kind \notin FolderKinds
      PROVE  Excludes
  <2>1. op[t].kind = "remove"
    BY <1>4, KindsApart DEF DeleteFails
  <2>2. Ends(t)
    BY <1>4, <2>1 DEF DeleteFails, End, Become, Ends
  <2> QED
    BY <2>2, EndsHeld
<1>5. ASSUME NEW t \in Threads, CommitDelete(t)
      PROVE  Excludes
  <2> DEFINE o == [NoOp EXCEPT !.kind = "add", !.at = "clear"]
             gone == op[t].todo
  <2>1. PICK d \in Folders : op[t].folder = d
    BY <1>5 DEF HInv, Held, CommitDelete, At
  <2>2. /\ folders' = folders \ {d} /\ flags' = [flags EXCEPT ![d] = {}]
        /\ op' = [s \in Threads |-> IF s = t THEN o ELSE Without(s, gone)]
        /\ UNCHANGED up
    BY <1>5, <2>1 DEF CommitDelete
  <2>3. o.kind = "add" /\ o.folder = NoFolder /\ o.at = "clear"
    BY DEF NoOp
  <2> HIDE DEF o
  <2>4. op'[t] = o
    BY <2>2
  <2>5. \A s \in Threads : s # t => /\ op'[s].kind = op[s].kind /\ op'[s].folder = op[s].folder
                                    /\ op'[s].at = op[s].at
    BY <2>2, <1>a, WithoutSame
  <2> QED
    BY <2>1, <2>2, <2>3, <2>4, <2>5, Ending
<1>6. ASSUME Kill
      PROVE  Excludes
  <2>1. PICK dead \in SUBSET (Threads \ OfCommands) :
          OfService \subseteq dead /\ op' = [t \in Threads |-> IF t \in dead THEN NoOp ELSE op[t]]
    BY <1>6 DEF Kill, Die
  <2>2. ~up' /\ UNCHANGED <<folders, flags>>
    BY <1>6 DEF Kill, folderVars
  <2>3. \A s \in Threads : op'[s].kind \notin FolderKinds /\ (s \in dead => op'[s] = NoOp)
                           /\ (s \notin dead => op'[s] = op[s])
    BY <2>1, KindsApart DEF OfService
  <2>10. /\ \A s \in Threads : op'[s].kind \notin FolderKinds \cup Commands => op'[s].folder = NoFolder
         /\ \A s \in Threads : op'[s].kind \in {"delete", "remove"} => op'[s].folder \in Folders
         /\ \A s \in Threads : op'[s].at \in {"clear", "cover", "settle"} => op'[s].kind \in Walks \cup {"add"}
    BY <2>3, KindsApart DEF HInv, Held
  <2>11. \A r, s \in Threads : op'[r].folder = op'[s].folder /\ op'[r].folder # NoFolder => r = s
    <3>1. \A r, s \in Threads : op[r].folder = op[s].folder /\ op[r].folder # NoFolder => r = s
      BY DEF HInv, Held
    <3> QED
      BY <3>1, <2>3, KindsApart
  <2>4. Held'
    BY <2>2, <2>3, <2>10, <2>11 DEF Held
  <2> DEFINE gone == {d \in Folders : Holders(d) \cap dead # {}}
  <2>5. ASSUME NEW d \in gone
        PROVE  Holders(d)' = {}
    <3>1. PICK t \in dead : t \in Threads /\ op[t].folder = d
      BY DEF Holders
    <3>2. \A s \in Threads : op[s].folder = d => s = t
      BY <3>1, ConstantsOK DEF HInv, Held
    <3> QED
      BY <3>1, <3>2, <2>3, KindsApart, ConstantsOK DEF Holders
  <2>6. ASSUME NEW d \in Folders \ gone
        PROVE  Holders(d)' = Holders(d)
    <3>1. \A t \in Threads : op[t].folder = d => t \notin dead
      BY DEF Holders
    <3> QED
      BY <3>1, <2>3, KindsApart, ConstantsOK DEF Holders
  <2>7. H' = [d \in Folders |-> IF d \in gone THEN {} ELSE H[d]]
    BY <2>5, <2>6 DEF H
  <2>8. gone \in SUBSET Folders
    OBVIOUS
  <2> HIDE DEF gone
  <2>9. Exclusion!Crash
    BY <2>2, <2>7, <2>8 DEF Exclusion!Crash, H
  <2> QED
    BY <2>4, <2>9 DEF Excludes, Exclusion!Next
<1>7. ASSUME Restart
      PROVE  Excludes
  <2>1. /\ up' /\ (\A d \in Folders : flags'[d] = {}) /\ UNCHANGED <<folders, op>>
        /\ \A s \in Threads : op[s].kind \notin FolderKinds
    BY <1>7 DEF Restart, ResetFlags, HInv, Held
  <2>2. Held'
    BY <2>1 DEF HInv, Held, FlagOf
  <2>3. \A e \in Folders : Holders(e)' = Holders(e)
    BY <2>1 DEF Holders
  <2> QED
    BY <2>1, <2>2, <2>3 DEF Excludes, Exclusion!vars
<1>8. ASSUME Worker \/ Users
      PROVE  Excludes
  <2>1. Keeps
    BY <1>8 DEF Worker, RequeueAndFetch, TakeRow, RowCompleted, RowFailed, MarkMirrored, Users, TrackAgain,
                Edit, folderVars, Keeps, HInv, Held
  <2> QED
    BY <2>1, KeepsHeld
<1>9. ASSUME Requests
      PROVE  Excludes
  <2>1. CASE \E t \in Threads, f \in Files :
               TrackFile(t, f) \/ DeleteFile(t, f) \/ UntrackCommand(t, f) \/ CopyCommand(t, f)
    BY <2>1, ThreadKeeps, KeepsHeld, EndsHeld
  <2>2. CASE \E t \in Threads, d \in Folders : FolderCommand(t, d)
    BY <2>2, Commanding
  <2> QED
    BY <1>9, <2>1, <2>2, <1>1, <1>2, ConstantsOK DEF Requests, MirrorRequest
<1>10. ASSUME NEW t \in Threads, Work(t)
       PROVE  Excludes
  <2>1. CASE \/ RemoveFile(t)
             \/ \E f \in Files : ScanNew(t, f) \/ ScanChanged(t, f) \/ ScanSame(t, f) \/ MirrorFile(t, f)
             \/ Queue(t) \/ QueueFails(t) \/ ScanFails(t) \/ AllVisited(t)
             \/ Clear(t) \/ Cover(t) \/ Settle(t) \/ ListOrigins(t)
             \/ FileFailed(t) \/ FileMirrored(t) \/ CompleteRows(t) \/ CopyFailed(t) \/ Interrupt(t)
    BY <2>1, ThreadKeeps, KeepsHeld, EndsHeld
  <2>2. CASE Finish(t)
    <3>1. op[t].kind \in FolderKinds
      BY <2>2 DEF Finish, At, FolderKinds
    <3> QED
      BY <2>2, <3>1, <1>3
  <2> QED
    BY <1>10, <2>1, <2>2, <1>3, <1>4, <1>5 DEF Work
<1> QED
  BY <1>6, <1>7, <1>8, <1>9, <1>10 DEF Next

\* The service starts with no operation at work.
LEMMA HeldInit == Init => HInv /\ Exclusion!Init
<1>1. Init => Held
  BY KindsApart DEF Init, Held
<1>2. Init => Exclusion!Init
  BY ConstantsOK DEF Init, NoOp, Holders, Exclusion!Init, Exclusion!Idle
<1> QED
  BY <1>1, <1>2, InvInit DEF HInv

\* Every step keeps the flags in step with the threads, as FolderExclusion wants.
LEMMA HInvStep ==
  ASSUME "command beside operation" \notin Allowed
  PROVE  HInv /\ [Next]_vars => HInv' /\ [Exclusion!Next]_(Exclusion!vars)
<1>1. ASSUME HInv, Next
      PROVE  HInv' /\ [Exclusion!Next]_(Exclusion!vars)
  BY <1>1, HeldStep, InvStep DEF HInv, Excludes
<1>2. ASSUME HInv, UNCHANGED vars
      PROVE  HInv' /\ [Exclusion!Next]_(Exclusion!vars)
  <2>1. Keeps
    BY <1>2 DEF Keeps, vars, folderVars, HInv, Held
  <2>2. Inv'
    BY <1>2, InvStep DEF HInv
  <2> QED
    BY <1>2, <2>1, <2>2, KeepsHeld DEF HInv, Excludes
<1> QED
  BY <1>1, <1>2

\* Unless a command works on a folder beside another operation, scans, mirrors and deletions
\* of a folder exclude each other, and a folder is removed under nobody but its deletion
\* (start_folder_scan, _mirror, _delete).
THEOREM OneOperationPerFolder ==
  ASSUME "command beside operation" \notin Allowed
  PROVE  Spec => ExclusionSpec
  BY HeldInit, HInvStep, PTL DEF Spec, ExclusionSpec, Exclusion!Spec

\* No flag of a running service is left behind, so that no folder refuses its
\* operations for good (finish_folder_scan, clear_folder_delete,
\* reset_stale_folder_flags), unless a command removes a folder that an operation has.
THEOREM FlagsHaveThreads ==
  ASSUME "command beside operation" \notin Allowed
  PROVE  Spec => []FlagHasThread
<1>1. HInv => FlagHasThread
  BY DEF HInv, Held, FlagHasThread, Holders, OfService
<1> QED
  BY HeldInit, HInvStep, <1>1, PTL DEF Spec

(* Files the user tracked *)

\* A deletion has listed no file that the user tracked directly.
SparesAsked == \A t \in Threads : At(t, {"delete", "remove"}, "commit") => op[t].todo \cap asked = {}

EInv == Inv /\ ExplicitStaysTracked /\ SparesAsked

\* A thread that lists no files for a deletion leaves the lists as they are.
LEMMA ListsKept ==
  ASSUME EInv, NEW t \in Threads, NEW o, op' = [op EXCEPT ![t] = o],
         o.kind \notin {"delete", "remove"} \/ o.at # "commit", asked' \subseteq asked
  PROVE  SparesAsked'
  BY DEF EInv, Inv, TypeOK, SparesAsked, At

\* Untracking files shortens the lists.
LEMMA ListsShortened ==
  ASSUME EInv, NEW t \in Threads, NEW o, NEW gone,
         op' = [s \in Threads |-> IF s = t THEN o ELSE Without(s, gone)],
         o.kind \notin {"delete", "remove"}, asked' \subseteq asked
  PROVE  SparesAsked'
<1> SUFFICES ASSUME NEW s \in Threads, op'[s].kind \in {"delete", "remove"}, op'[s].at = "commit"
             PROVE  op'[s].todo \cap asked' = {}
  BY DEF SparesAsked, At
<1>1. s # t /\ op'[s] = Without(s, gone) /\ op[s] \in Op
  BY DEF EInv, Inv, TypeOK
<1>2. /\ op[s].kind \in {"delete", "remove"} /\ op[s].at = "commit"
      /\ op'[s].todo \subseteq op[s].todo
  BY <1>1 DEF Without, Op
<1>3. op[s].todo \cap asked = {}
  BY <1>2 DEF EInv, SparesAsked, At
<1> QED
  BY <1>2, <1>3

\* Every step keeps the files that the user tracked, and keeps them off the lists
\* of deletions: those hold files of folders only, and no user tracks one of them.
LEMMA ExplicitStep ==
  ASSUME "track during delete" \notin Allowed, EInv, Next
  PROVE  ExplicitStaysTracked' /\ SparesAsked'
<1> DEFINE Goal == ExplicitStaysTracked' /\ SparesAsked'
<1>a. op \in [Threads -> Op]
  BY DEF EInv, Inv, TypeOK
<1> USE DEF fileVars, Become, NoOp, At, ExplicitStaysTracked
<1>1. ASSUME NEW t \in Threads, NEW f \in Files, TrackFile(t, f)
      PROVE  Goal
  <2>1. op[t].kind = "none" /\ f \notin tracked /\ asked' = asked \cup {f}
    BY <1>1 DEF TrackFile, Free
  <2>2. \A s \in Threads : At(s, {"delete", "remove"}, "commit") => f \notin op[s].todo
    BY <2>1 DEF EInv, Inv, IdsValid, Walks
  <2>3. \A s \in Threads : op'[s].kind \in {"delete", "remove"} => op'[s] = op[s]
    BY <1>1, <1>a DEF TrackFile
  <2>4. SparesAsked'
    BY <2>1, <2>2, <2>3 DEF SparesAsked, EInv
  <2> QED
    BY <1>1, <2>4 DEF TrackFile, Track, EInv
<1>2. ASSUME NEW t \in Threads, NEW f \in Files, DeleteFile(t, f)
      PROVE  Goal
  BY <1>2, <1>a, ListsKept DEF DeleteFile, EInv, Op
<1>3. ASSUME NEW t \in Threads, NEW d \in Folders, AddFolder(t, d)
      PROVE  Goal
  BY <1>3, <1>a, ListsKept DEF AddFolder, EInv, Op
<1>4. ASSUME NEW t \in Threads, NEW d \in Folders, StartScan(t, d)
      PROVE  Goal
  BY <1>4, <1>a, ListsKept DEF StartScan, Start, EInv, Op
<1>5. ASSUME NEW t \in Threads, NEW d \in Folders, StartMirror(t, d)
      PROVE  Goal
  BY <1>5, <1>a, ListsKept DEF StartMirror, Start, EInv, Op
<1>6. ASSUME NEW t \in Threads, NEW d \in Folders, StartDelete(t, d)
      PROVE  Goal
  BY <1>6, <1>a, ListsKept DEF StartDelete, Start, EInv, Op
<1>7. ASSUME NEW t \in Threads, RemoveFile(t)
      PROVE  Goal
  <2> DEFINE gone == {op[t].hand} \cap Files
             o == NoOp
  <2>1. /\ tracked' = tracked \ gone /\ direct' = direct \ gone /\ asked' = asked \ gone
        /\ op' = [s \in Threads |-> IF s = t THEN o ELSE Without(s, gone)]
    BY <1>7 DEF RemoveFile, Untrack
  <2>2. o.kind \notin {"delete", "remove"}
    OBVIOUS
  <2> HIDE DEF o
  <2>4. SparesAsked'
    BY <2>1, <2>2, ListsShortened
  <2> QED
    BY <2>1, <2>4 DEF EInv
<1>8. ASSUME NEW t \in Threads, Finish(t)
      PROVE  Goal
  BY <1>8, <1>a, ListsKept DEF Finish, End, EInv, Op
<1>9. ASSUME NEW t \in Threads, NEW f \in Files, ScanNew(t, f)
      PROVE  Goal
  <2> DEFINE o == [op[t] EXCEPT !.at = "hold", !.hand = f, !.todo = @ \ {f}, !.action = "adopt_mirror"]
  <2>1. op' = [op EXCEPT ![t] = o]
    BY <1>9 DEF ScanNew, ScanTrack, AutoTrack, TrackNew, InHand, Become
  <2>2. o.at # "commit"
    BY <1>a DEF EInv, Op
  <2>3. asked' = asked /\ direct' = direct
    BY <1>9 DEF ScanNew, ScanTrack, AutoTrack, TrackNew, Track
  <2> HIDE DEF o
  <2>4. SparesAsked'
    BY <2>1, <2>2, <2>3, ListsKept
  <2> QED
    BY <2>3, <2>4 DEF EInv
<1>10. ASSUME NEW t \in Threads, NEW f \in Files, ScanChanged(t, f)
      PROVE  Goal
  BY <1>10, <1>a, ListsKept DEF ScanChanged, ScanChange, CommandChange, Record, Visiting, InHand, EInv, Op
<1>11. ASSUME NEW t \in Threads, NEW f \in Files, ScanSame(t, f)
      PROVE  Goal
  BY <1>11, <1>a, ListsKept DEF ScanSame, Visiting, EInv, Op
<1>12. ASSUME NEW t \in Threads, NEW f \in Files, MirrorFile(t, f)
      PROVE  Goal
  BY <1>12, <1>a, ListsKept DEF MirrorFile, Visiting, InHand, EInv, Op
<1>13. ASSUME NEW t \in Threads, Queue(t)
      PROVE  Goal
  BY <1>13, <1>a, ListsKept DEF Queue, AfterQueue, EInv, Op
<1>14. ASSUME NEW t \in Threads, QueueFails(t)
      PROVE  Goal
  BY <1>14, <1>a, ListsKept DEF QueueFails, GiveUp, EInv, Op
<1>15. ASSUME NEW t \in Threads, ScanFails(t)
      PROVE  Goal
  BY <1>15, <1>a, ListsKept DEF ScanFails, GiveUp, EInv, Op
<1>16. ASSUME NEW t \in Threads, AllVisited(t)
      PROVE  Goal
  BY <1>16, <1>a, ListsKept DEF AllVisited, EInv, Op
<1>17. ASSUME NEW t \in Threads, Clear(t)
      PROVE  Goal
  BY <1>17, <1>a, ListsKept DEF Clear, EInv, Op
<1>18. ASSUME NEW t \in Threads, Cover(t)
      PROVE  Goal
  BY <1>18, <1>a, ListsKept DEF Cover, EInv, Op
<1>19. ASSUME NEW t \in Threads, Settle(t)
      PROVE  Goal
  BY <1>19, <1>a, ListsKept DEF Settle, ListChanges, EInv, Op
<1>20. ASSUME NEW t \in Threads, ListOrigins(t)
      PROVE  Goal
  <2> DEFINE o == [op[t] EXCEPT !.at = "commit", !.todo = Origins(op[t].folder)]
  <2>1. op' = [op EXCEPT ![t] = o] /\ UNCHANGED <<tracked, direct, asked>>
    BY <1>20 DEF ListOrigins
  <2>2. o.todo \cap asked = {}
    BY <1>a DEF Origins, EInv, Op
  <2> HIDE DEF o
  <2>3. SparesAsked'
    BY <2>1, <2>2, <1>a DEF SparesAsked, EInv
  <2> QED
    BY <2>1, <2>3 DEF EInv
<1>21. ASSUME NEW t \in Threads, CommitDelete(t)
      PROVE  Goal
  <2> DEFINE gone == op[t].todo
             o == [NoOp EXCEPT !.kind = "add", !.at = "clear"]
  <2>1. /\ tracked' = tracked \ gone /\ direct' = direct \ gone /\ asked' = asked
        /\ op' = [s \in Threads |-> IF s = t THEN o ELSE Without(s, gone)]
    BY <1>21 DEF CommitDelete, Untrack
  <2>2. o.kind \notin {"delete", "remove"}
    OBVIOUS
  <2>3. gone \cap asked = {}
    BY <1>21 DEF CommitDelete, EInv, SparesAsked
  <2> HIDE DEF o
  <2>4. SparesAsked'
    BY <2>1, <2>2, ListsShortened
  <2> QED
    BY <2>1, <2>3, <2>4 DEF EInv
<1>22. ASSUME NEW t \in Threads, DeleteFails(t)
      PROVE  Goal
  BY <1>22, <1>a, ListsKept DEF DeleteFails, End, EInv, Op
<1>23. ASSUME NEW t \in Threads, FileFailed(t)
      PROVE  Goal
  BY <1>23, <1>a, ListsKept DEF FileFailed, EInv, Op
<1>24. ASSUME NEW t \in Threads, FileMirrored(t)
      PROVE  Goal
  BY <1>24, <1>a, ListsKept DEF FileMirrored, EInv, Op
<1>37. ASSUME NEW t \in Threads, CompleteRows(t)
      PROVE  Goal
  BY <1>37, <1>a, ListsKept DEF CompleteRows, EInv, Op
<1>41. ASSUME NEW t \in Threads, NEW f \in Files, UntrackCommand(t, f)
      PROVE  Goal
  BY <1>41, <1>a, ListsKept DEF UntrackCommand, EInv, Op
<1>42. ASSUME NEW t \in Threads, NEW f \in Files, CopyCommand(t, f)
      PROVE  Goal
  BY <1>42, <1>a, ListsKept DEF CopyCommand, EInv, Op
<1>43. ASSUME NEW t \in Threads, NEW d \in Folders, FolderCommand(t, d)
      PROVE  Goal
  BY <1>43, <1>a, ListsKept DEF FolderCommand, Command, EInv, Op
<1>44. ASSUME NEW t \in Threads, CopyFailed(t)
      PROVE  Goal
  BY <1>44, <1>a, ListsKept DEF CopyFailed, End, EInv, Op
<1>45. ASSUME NEW t \in Threads, Interrupt(t)
      PROVE  Goal
  BY <1>45, <1>a DEF Interrupt, Die, SparesAsked, EInv, Op
<1>25. ASSUME RequeueAndFetch
      PROVE  Goal
  BY <1>25 DEF RequeueAndFetch, SparesAsked, EInv
<1>26. ASSUME NEW r \in Rows, TakeRow(r)
      PROVE  Goal
  BY <1>26 DEF TakeRow, SparesAsked, EInv
<1>27. ASSUME RowCompleted
      PROVE  Goal
  BY <1>27 DEF RowCompleted, SparesAsked, EInv
<1>38. ASSUME MarkMirrored
      PROVE  Goal
  BY <1>38 DEF MarkMirrored, SparesAsked, EInv
<1>28. ASSUME RowFailed
      PROVE  Goal
  BY <1>28 DEF RowFailed, SparesAsked, EInv
<1>29. ASSUME NEW f \in Files, TrackAgain(f)
      PROVE  Goal
  <2>1. \A s \in Threads : ~At(s, {"delete", "remove"}, "commit")
    BY <1>29 DEF TrackAgain, Alone, Listed
  <2> QED
    BY <1>29, <2>1 DEF TrackAgain, SparesAsked, EInv
<1>30. ASSUME NEW f \in Files, Edit(f)
      PROVE  Goal
  BY <1>30 DEF Edit, SparesAsked, EInv
<1>31. ASSUME Kill
      PROVE  Goal
  <2>1. /\ UNCHANGED fileVars /\ UNCHANGED folders
        /\ \A s \in Threads : op'[s] = NoOp \/ op'[s] = op[s]
    BY <1>31 DEF Kill, Die, folderVars
  <2>2. NoOp.kind = "none"
    BY DEF NoOp
  <2> QED
    BY <2>1, <2>2 DEF SparesAsked, EInv, At, fileVars
<1>32. ASSUME Restart
      PROVE  Goal
  BY <1>32 DEF Restart, SparesAsked, EInv
<1> HIDE DEF Goal
<1>33. ASSUME Requests
       PROVE  Goal
  BY <1>1, <1>2, <1>3, <1>4, <1>5, <1>6, <1>41, <1>42, <1>43, <1>33, ConstantsOK DEF Requests, MirrorRequest
<1>34. ASSUME NEW t \in Threads, Work(t)
       PROVE  Goal
  BY <1>7, <1>8, <1>9, <1>10, <1>11, <1>12, <1>13, <1>14, <1>15, <1>16, <1>17, <1>18, <1>19, <1>20, <1>21, <1>22, <1>23, <1>24, <1>37, <1>44, <1>45, <1>34 DEF Work
<1>35. ASSUME Worker \/ Users \/ Kill \/ Restart
       PROVE  Goal
  BY <1>25, <1>26, <1>27, <1>28, <1>29, <1>30, <1>31, <1>32, <1>38, <1>35, ConstantsOK DEF Worker, Users
<1>36. Goal
  BY <1>33, <1>34, <1>35 DEF Next
<1> QED
  BY <1>36 DEF Goal

\* Unless the user tracks a file between the two halves of a deletion that has
\* listed it, no folder takes a file with it that the user tracked
\* (untrack_folder_cascade; docs/API.md, DELETE /folders/{id}).
THEOREM ExplicitFilesStay ==
  ASSUME "track during delete" \notin Allowed
  PROVE  Spec => []ExplicitStaysTracked
<1>1. Init => EInv
  BY InvInit DEF EInv, Init, ExplicitStaysTracked, SparesAsked, At, NoOp
<1>2. EInv /\ [Next]_vars => EInv'
  <2>1. ASSUME EInv, Next
        PROVE  EInv'
    BY <2>1, ExplicitStep, InvStep DEF EInv
  <2>2. ASSUME EInv, UNCHANGED vars
        PROVE  EInv'
    <3>1. Inv'
      BY <2>2, InvStep DEF EInv
    <3> QED
      BY <2>2, <3>1 DEF EInv, vars, fileVars, ExplicitStaysTracked, SparesAsked, At
  <2> QED
    BY <2>1, <2>2
<1>3. EInv => ExplicitStaysTracked
  BY DEF EInv
<1> QED
  BY <1>1, <1>2, <1>3, PTL DEF Spec

(* Files that are not mirrored *)

\* Scans and requests that have a file in hand for which they will insert a row.
Writers(f) == {t \in Threads : At(t, Scans \cup {"track"}, "hold") /\ op[t].hand = f}

\* A file that is not mirrored has a row, or somebody who is about to insert one or to
\* mark it; a folder mirror that has it in hand will not do, since a copy may fail.
Written ==
    \A f \in tracked \ mirrored :
        Writers(f) # {} \/ marking = f \/ \E a \in RowActions : rows[<<f, a>>] # "absent"

\* Whoever is about to complete the rows of a file has marked it, and it still is.
DoneIsMirrored == \A t \in Threads : op[t].at = "done" /\ op[t].hand \in Files => op[t].hand \in mirrored

\* The worker marks a file before it takes the next row.
MarksFirst == row = NoRow \/ marking = NoFile

WInv == Inv /\ Written /\ DoneIsMirrored /\ MarksFirst
Rowed == Written /\ DoneIsMirrored /\ MarksFirst

\* Nobody is killed between the writes that belong together, and no scan finds a
\* change of a file whose rows a mirror is about to complete.
Steady == Allowed \cap {"crash between writes", "change during completion"} = {}

\* Whatever a step does to thread t, the others go on as they were.
Only(t) == \A s \in Threads : s # t => op'[s] = op[s]

\* A thread that is not about to insert a row may do what it likes with its own place,
\* as long as files and marks stay and rows stay rows.
LEMMA OthersWrite ==
  ASSUME WInv, NEW t \in Threads, Only(t),
         ~At(t, Scans \cup {"track"}, "hold") \/ op[t].hand \notin Files,
         op'[t].at # "done",
         UNCHANGED <<tracked, mirrored, row, marking>>,
         \A r \in Rows : rows[r] # "absent" => rows'[r] # "absent"
  PROVE  Rowed'
<1>a. tracked \subseteq Files
  BY DEF WInv, Inv, TypeOK
<1>1. ASSUME NEW f \in tracked' \ mirrored'
      PROVE  Writers(f)' # {} \/ marking' = f \/ \E a \in RowActions : rows'[<<f, a>>] # "absent"
  <2>1. f \in tracked \ mirrored /\ f \in Files
    BY <1>a
  <2>2. CASE Writers(f) # {}
    <3>1. PICK s \in Writers(f) : TRUE
      BY <2>2
    <3>2. s # t /\ s \in Threads /\ At(s, Scans \cup {"track"}, "hold") /\ op[s].hand = f
      BY <3>1, <2>1 DEF Writers
    <3>3. op'[s] = op[s]
      BY <3>2 DEF Only
    <3>4. s \in Writers(f)'
      BY <3>2, <3>3 DEF Writers, At
    <3> QED
      BY <3>4
  <2>3. CASE \E a \in RowActions : rows[<<f, a>>] # "absent"
    <3>1. PICK a \in RowActions : rows[<<f, a>>] # "absent"
      BY <2>3
    <3>2. <<f, a>> \in Rows
      BY <2>1 DEF Rows
    <3> QED
      BY <3>1, <3>2
  <2> QED
    BY <2>1, <2>2, <2>3 DEF WInv, Written
<1>2. Written'
  BY <1>1 DEF Written
<1>3. DoneIsMirrored'
  BY DEF DoneIsMirrored, WInv, Only
<1>4. MarksFirst'
  BY DEF MarksFirst, WInv
<1> QED
  BY <1>2, <1>3, <1>4 DEF Rowed

\* A thread that takes a file in hand, whether it is a new one or one that has changed,
\* is about to insert its row.
LEMMA TakesInHand ==
  ASSUME WInv, NEW t \in Threads, Only(t), NEW f \in Files,
         ~At(t, Scans \cup {"track"}, "hold"),
         op'[t].kind \in Scans \cup {"track"}, op'[t].at = "hold", op'[t].hand = f,
         tracked' \subseteq tracked \cup {f}, mirrored' = mirrored \/ (mirrored' = mirrored \ {f} /\ Completing(f) = {}),
         UNCHANGED <<rows, row, marking>>
  PROVE  Rowed'
<1>a. op \in [Threads -> Op] /\ tracked \subseteq Files
  BY DEF WInv, Inv, TypeOK
<1>1. t \in Writers(f)'
  BY <1>a DEF Writers, At
<1>2. ASSUME NEW g \in tracked' \ mirrored', g # f
      PROVE  Writers(g)' # {} \/ marking' = g \/ \E a \in RowActions : rows'[<<g, a>>] # "absent"
  <2>1. g \in tracked \ mirrored
    BY <1>2
  <2>2. CASE Writers(g) # {}
    <3>1. PICK s \in Writers(g) : TRUE
      BY <2>2
    <3>2. s # t /\ s \in Threads /\ At(s, Scans \cup {"track"}, "hold") /\ op[s].hand = g
      BY <3>1 DEF Writers
    <3>3. op'[s] = op[s]
      BY <3>2 DEF Only
    <3>4. s \in Writers(g)'
      BY <3>2, <3>3 DEF Writers, At
    <3> QED
      BY <3>4
  <2> QED
    BY <2>1, <2>2 DEF WInv, Written
<1>3. Written'
  BY <1>1, <1>2 DEF Written
<1>4. ASSUME NEW s \in Threads, op'[s].at = "done", op'[s].hand \in Files
      PROVE  op'[s].hand \in mirrored'
  <2>1. s # t /\ op'[s] = op[s]
    BY <1>4 DEF Only
  <2>2. op[s].hand \in mirrored
    BY <1>4, <2>1 DEF WInv, DoneIsMirrored
  <2>3. CASE mirrored' = mirrored \ {f} /\ Completing(f) = {}
    <3>1. op[s].hand # f
      BY <1>4, <2>1, <2>3 DEF Completing
    <3> QED
      BY <2>1, <2>2, <2>3, <3>1
  <2> QED
    BY <2>1, <2>2, <2>3
<1>5. DoneIsMirrored'
  BY <1>4 DEF DoneIsMirrored
<1>6. MarksFirst'
  BY DEF MarksFirst, WInv
<1> QED
  BY <1>3, <1>5, <1>6 DEF Rowed

\* When files are untracked, their rows go with them and what stands for others stays.
LEMMA UntrackRowed ==
  ASSUME WInv, NEW gone \in SUBSET Files, Untrack(gone), NEW t \in Threads, NEW o,
         ~At(t, Scans \cup {"track"}, "hold"), o.at # "done",
         op' = [s \in Threads |-> IF s = t THEN o ELSE Without(s, gone)]
  PROVE  Rowed'
<1>a. op \in [Threads -> Op] /\ tracked \subseteq Files
  BY DEF WInv, Inv, TypeOK
<1>b. \A s \in Threads : s # t =>
        /\ op'[s].kind = op[s].kind /\ op'[s].at = op[s].at
        /\ op'[s].hand = IF op[s].hand \in gone THEN Gone ELSE op[s].hand
  <2>1. \A s \in Threads : op[s] \in Op
    BY <1>a
  <2> QED
    BY <2>1 DEF Without, Op
<1>1. ASSUME NEW f \in tracked' \ mirrored'
      PROVE  Writers(f)' # {} \/ marking' = f \/ \E a \in RowActions : rows'[<<f, a>>] # "absent"
  <2>1. f \in tracked \ mirrored /\ f \in Files /\ f \notin gone
    BY <1>a DEF Untrack
  <2>2. CASE Writers(f) # {}
    <3>1. PICK s \in Writers(f) : TRUE
      BY <2>2
    <3>2. s # t /\ s \in Threads /\ At(s, Scans \cup {"track"}, "hold") /\ op[s].hand = f
      BY <3>1 DEF Writers
    <3>3. s \in Writers(f)'
      BY <3>2, <1>b, <2>1 DEF Writers, At
    <3> QED
      BY <3>3
  <2>3. CASE \E a \in RowActions : rows[<<f, a>>] # "absent"
    <3>1. PICK a \in RowActions : rows[<<f, a>>] # "absent"
      BY <2>3
    <3>2. <<f, a>> \in Rows
      BY <2>1 DEF Rows
    <3>3. rows'[<<f, a>>] = rows[<<f, a>>]
      BY <3>2, <2>1 DEF Untrack
    <3> QED
      BY <3>1, <3>3
  <2>4. CASE marking = f
    BY <2>4, <2>1 DEF Untrack
  <2> QED
    BY <2>1, <2>2, <2>3, <2>4 DEF WInv, Written
<1>2. Written'
  BY <1>1 DEF Written
<1>3. ASSUME NEW s \in Threads, op'[s].at = "done", op'[s].hand \in Files
      PROVE  op'[s].hand \in mirrored'
  <2>1. s # t
    BY <1>3
  <2>2. op[s].at = "done" /\ op[s].hand \notin gone /\ op'[s].hand = op[s].hand
    BY <2>1, <1>3, <1>b, ConstantsOK
  <2> QED
    BY <2>2, <1>3 DEF WInv, DoneIsMirrored, Untrack
<1>4. DoneIsMirrored'
  BY <1>3 DEF DoneIsMirrored
<1>5. MarksFirst'
  BY DEF MarksFirst, WInv, Untrack
<1> QED
  BY <1>2, <1>4, <1>5 DEF Rowed

\* What the threads and requests do to the rows of files that are not mirrored.
LEMMA ThreadsRowed ==
  ASSUME Steady, WInv, NEW t \in Threads, Work(t)
  PROVE  Rowed'
<1>a. op \in [Threads -> Op] /\ op[t] \in Op /\ tracked \subseteq Files /\ rows \in [Rows -> Statuses]
  BY DEF WInv, Inv, TypeOK
<1> USE DEF At, Only, Become, fileVars, folderVars, drainVars, NoOp
<1>1. CASE RemoveFile(t)
  <2>1. ~At(t, Scans \cup {"track"}, "hold") /\ NoOp.at # "done"
    BY <1>1 DEF RemoveFile
  <2>2. {op[t].hand} \cap Files \in SUBSET Files
    OBVIOUS
  <2> QED
    BY <1>1, <2>1, <2>2, UntrackRowed DEF RemoveFile
<1>2. CASE CommitDelete(t)
  <2> DEFINE o == [NoOp EXCEPT !.kind = "add", !.at = "clear"]
  <2>1. ~At(t, Scans \cup {"track"}, "hold") /\ o.at # "done"
    BY <1>2 DEF CommitDelete
  <2>2. op[t].todo \in SUBSET Files
    BY <1>a DEF Op
  <2>3. op' = [s \in Threads |-> IF s = t THEN o ELSE Without(s, op[t].todo)]
    BY <1>2 DEF CommitDelete
  <2> HIDE DEF o
  <2> QED
    BY <1>2, <2>1, <2>2, <2>3, UntrackRowed DEF CommitDelete
<1>3. CASE Finish(t) \/ ListOrigins(t) \/ DeleteFails(t) \/ CopyFailed(t)
  <2>1. Only(t) /\ op'[t].at # "done"
    <3>1. CASE ListOrigins(t)
      BY <1>a, <3>1 DEF ListOrigins, Op
    <3> QED
      BY <1>3, <1>a, <3>1 DEF Finish, End, DeleteFails, CopyFailed
  <2>2. ~At(t, Scans \cup {"track"}, "hold")
    BY <1>3 DEF Finish, ListOrigins, DeleteFails, CopyFailed, Scans
  <2>3. UNCHANGED <<tracked, mirrored, row, marking, rows>>
    BY <1>3 DEF Finish, ListOrigins, DeleteFails, CopyFailed
  <2> QED
    BY <2>1, <2>2, <2>3, OthersWrite
<1>4. CASE QueueFails(t) \/ ScanFails(t) \/ AllVisited(t)
  <2>1. Only(t) /\ op'[t].at # "done"
    <3>1. GiveUp(t).at # "done"
      BY <1>a DEF GiveUp, Op
    <3>2. CASE AllVisited(t)
      BY <1>a, <3>2 DEF AllVisited, Op
    <3> QED
      BY <1>4, <1>a, <3>1, <3>2 DEF QueueFails, ScanFails
  <2>2. ~At(t, Scans \cup {"track"}, "hold") \/ op[t].hand \notin Files
    BY <1>4, ConstantsOK DEF QueueFails, ScanFails, AllVisited
  <2>3. UNCHANGED <<tracked, mirrored, row, marking, rows>>
    BY <1>4 DEF QueueFails, ScanFails, AllVisited
  <2> QED
    BY <2>1, <2>2, <2>3, OthersWrite
<1>5. CASE Clear(t) \/ Cover(t) \/ Settle(t)
  <2>1. Only(t) /\ op'[t].at # "done"
    <3>1. CASE Clear(t) \/ Cover(t)
      BY <1>a, <3>1 DEF Clear, Cover, Op
    <3>2. CASE Settle(t)
      BY <1>a, <3>2 DEF Settle, ListChanges, Op
    <3> QED
      BY <1>5, <3>1, <3>2
  <2>2. ~At(t, Scans \cup {"track"}, "hold")
    BY <1>5 DEF Clear, Cover, Settle
  <2>3. UNCHANGED <<tracked, mirrored, row, marking, rows>>
    BY <1>5 DEF Clear, Cover, Settle
  <2> QED
    BY <2>1, <2>2, <2>3, OthersWrite
<1>6. ASSUME NEW f \in Files, ScanNew(t, f) \/ ScanChanged(t, f)
      PROVE  Rowed'
  <2>1. Only(t) /\ op'[t].kind \in Scans /\ op'[t].at = "hold" /\ op'[t].hand = f
    <3>1. op[t].kind \in Scans
      BY <1>6 DEF ScanNew, ScanTrack, AutoTrack, ScanChanged, ScanChange, CommandChange, Visiting, Scans
    <3>2. PICK action : InHand(t, f, action)
      BY <1>6 DEF ScanNew, ScanTrack, AutoTrack, TrackNew, ScanChanged, ScanChange, CommandChange, Record
    <3> QED
      BY <1>a, <3>1, <3>2 DEF InHand, Op
  <2>2. ~At(t, Scans \cup {"track"}, "hold")
    BY <1>6 DEF ScanNew, ScanTrack, AutoTrack, ScanChanged, ScanChange, CommandChange, Visiting
  <2>3. CASE ScanNew(t, f)
    <3>1. /\ tracked' \subseteq tracked \cup {f} /\ mirrored' = mirrored
          /\ UNCHANGED <<rows, row, marking>>
      BY <2>3 DEF ScanNew, ScanTrack, AutoTrack, TrackNew, Track
    <3> QED
      BY <2>1, <2>2, <3>1, TakesInHand
  <2>4. CASE ScanChanged(t, f)
    <3>1. /\ tracked' \subseteq tracked \cup {f} /\ mirrored' = mirrored \ {f} /\ Completing(f) = {}
          /\ UNCHANGED <<rows, row, marking>>
      BY <2>4 DEF ScanChanged, ScanChange, CommandChange, Record, Alone, Steady
    <3> QED
      BY <2>1, <2>2, <3>1, TakesInHand
  <2> QED
    BY <1>6, <2>3, <2>4
<1>7. ASSUME NEW f \in Files, ScanSame(t, f) \/ MirrorFile(t, f)
      PROVE  Rowed'
  <2>1. Only(t) /\ op'[t].at # "done"
    <3>1. CASE ScanSame(t, f)
      BY <3>1, <1>a DEF ScanSame, Visiting, Op
    <3>2. CASE MirrorFile(t, f)
      BY <3>2, <1>a DEF MirrorFile, InHand, Op
    <3> QED
      BY <1>7, <3>1, <3>2
  <2>2. ~At(t, Scans \cup {"track"}, "hold")
    BY <1>7 DEF ScanSame, MirrorFile, Visiting
  <2>3. UNCHANGED <<tracked, mirrored, row, marking>>
    BY <1>7 DEF ScanSame, MirrorFile
  <2>4. \A r \in Rows : rows[r] # "absent" => rows'[r] # "absent"
    BY <1>7 DEF ScanSame, MirrorFile
  <2> QED
    BY <2>1, <2>2, <2>3, <2>4, OthersWrite
<1>8. CASE FileFailed(t)
  <2>1. Only(t) /\ op'[t].at # "done"
    BY <1>8, <1>a DEF FileFailed, Op
  <2>2. ~At(t, Scans \cup {"track"}, "hold")
    BY <1>8 DEF FileFailed, Scans
  <2>3. UNCHANGED <<tracked, mirrored, row, marking>>
    BY <1>8 DEF FileFailed
  <2>4. \A r \in Rows : rows[r] # "absent" => rows'[r] # "absent"
    BY <1>8 DEF FileFailed, SettleRows
  <2> QED
    BY <2>1, <2>2, <2>3, <2>4, OthersWrite
<1>9. CASE Interrupt(t)
  <2>1. Only(t) /\ op'[t].at # "done"
    BY <1>9, <1>a DEF Interrupt, Die
  <2>2. ~At(t, Scans \cup {"track"}, "hold")
    BY <1>9 DEF Interrupt, Die, Alone, Steady, HalfDone
  <2>3. UNCHANGED <<tracked, mirrored, row, marking, rows>>
    BY <1>9 DEF Interrupt
  <2> QED
    BY <2>1, <2>2, <2>3, OthersWrite
<1>10. CASE Queue(t)
  <2>1. Only(t) /\ op'[t].at # "done"
    BY <1>10, <1>a DEF Queue, AfterQueue, Op
  <2>2. op[t].hand \in Files /\ <<op[t].hand, op[t].action>> \in Rows
    <3>1. op[t].hand \in Files
      BY <1>10, <1>a DEF Queue, WInv, Inv, IdsValid
    <3> QED
      BY <3>1, <1>a DEF Rows, Op
  <2>3. /\ UNCHANGED <<tracked, mirrored, row, marking>>
        /\ rows' = [rows EXCEPT ![<<op[t].hand, op[t].action>>] = Queued(@)]
    BY <1>10 DEF Queue
  <2>4. /\ rows'[<<op[t].hand, op[t].action>>] # "absent"
        /\ \A r \in Rows : rows[r] # "absent" => rows'[r] # "absent"
    BY <2>2, <2>3, <1>a DEF Queued, Open
  <2>5. ASSUME NEW f \in tracked' \ mirrored'
        PROVE  Writers(f)' # {} \/ marking' = f \/ \E a \in RowActions : rows'[<<f, a>>] # "absent"
    <3>1. CASE f = op[t].hand
      BY <3>1, <2>4, <1>a DEF Op
    <3>2. CASE f # op[t].hand /\ Writers(f) # {}
      <4>1. PICK s \in Writers(f) : TRUE
        BY <3>2
      <4>2. s # t /\ s \in Threads /\ At(s, Scans \cup {"track"}, "hold") /\ op[s].hand = f
        BY <4>1, <3>2 DEF Writers
      <4>3. op'[s] = op[s]
        BY <4>2, <2>1
      <4>4. s \in Writers(f)'
        BY <4>2, <4>3 DEF Writers
      <4> QED
        BY <4>4
    <3>3. CASE \E a \in RowActions : rows[<<f, a>>] # "absent"
      <4>1. PICK a \in RowActions : rows[<<f, a>>] # "absent"
        BY <3>3
      <4>2. <<f, a>> \in Rows
        BY <2>3, <1>a DEF Rows
      <4> QED
        BY <4>1, <4>2, <2>4
    <3>4. CASE marking = f
      BY <3>4, <2>3
    <3> QED
      BY <3>1, <3>2, <3>3, <3>4, <2>3 DEF WInv, Written
  <2>6. Written'
    BY <2>5 DEF Written
  <2>7. DoneIsMirrored'
    BY <2>1, <2>3, <1>a DEF WInv, DoneIsMirrored
  <2>8. MarksFirst'
    BY <2>3 DEF WInv, MarksFirst
  <2> QED
    BY <2>6, <2>7, <2>8 DEF Rowed
<1>11. CASE FileMirrored(t)
  <2>1. /\ op' = [op EXCEPT ![t] = [op[t] EXCEPT !.at = "done"]]
        /\ mirrored' = mirrored \cup ({op[t].hand} \cap Files)
        /\ UNCHANGED <<tracked, rows, row, marking>> /\ op[t].kind \in Mirrors
    BY <1>11 DEF FileMirrored
  <2>2. \A s \in Threads : s # t => op'[s] = op[s]
    BY <2>1, <1>a
  <2>3. op'[t].hand = op[t].hand
    BY <2>1, <1>a DEF Op
  <2>4. DoneIsMirrored'
    BY <2>1, <2>2, <2>3 DEF WInv, DoneIsMirrored
  <2>5. ASSUME NEW f \in tracked' \ mirrored', Writers(f) # {}
        PROVE  Writers(f)' # {}
    <3>1. PICK s \in Writers(f) : TRUE
      BY <2>5
    <3>2. s \in Threads /\ op[s].kind \in Scans \cup {"track"} /\ op[s].at = "hold" /\ op[s].hand = f
      BY <3>1 DEF Writers
    <3>3. s # t
      BY <3>2, <2>1 DEF Mirrors, Scans
    <3>4. s \in Writers(f)'
      BY <3>2, <3>3, <2>2 DEF Writers
    <3> QED
      BY <3>4
  <2>6. Written'
    BY <2>1, <2>5 DEF WInv, Written
  <2>7. MarksFirst'
    BY <2>1 DEF WInv, MarksFirst
  <2> QED
    BY <2>4, <2>6, <2>7 DEF Rowed
<1>12. CASE CompleteRows(t)
  <2>1. /\ op' = [op EXCEPT ![t] = [op[t] EXCEPT !.at = "visit", !.hand = NoFile]]
        /\ UNCHANGED <<tracked, mirrored, row, marking>> /\ op[t].at = "done"
        /\ SettleRows(op[t].hand, "absent")
    BY <1>12 DEF CompleteRows
  <2>2. \A s \in Threads : s # t => op'[s] = op[s]
    BY <2>1, <1>a
  <2>3. op'[t].at = "visit"
    BY <2>1, <1>a DEF Op
  <2>4. DoneIsMirrored'
    BY <2>1, <2>2, <2>3 DEF WInv, DoneIsMirrored
  <2>5. ASSUME NEW f \in tracked' \ mirrored'
        PROVE  Writers(f)' # {} \/ marking' = f \/ \E a \in RowActions : rows'[<<f, a>>] # "absent"
    <3>1. f \in Files /\ f \in tracked \ mirrored /\ f # op[t].hand
      BY <2>1, <1>a DEF WInv, DoneIsMirrored
    <3>2. CASE Writers(f) # {}
      <4>1. PICK s \in Writers(f) : TRUE
        BY <3>2
      <4>2. s # t /\ s \in Threads /\ At(s, Scans \cup {"track"}, "hold") /\ op[s].hand = f
        BY <4>1, <2>1 DEF Writers
      <4>3. s \in Writers(f)'
        BY <4>2, <2>2 DEF Writers
      <4> QED
        BY <4>3
    <3>3. CASE \E a \in RowActions : rows[<<f, a>>] # "absent"
      <4>1. PICK a \in RowActions : rows[<<f, a>>] # "absent"
        BY <3>3
      <4>2. <<f, a>> \in Rows
        BY <3>1 DEF Rows
      <4>3. rows'[<<f, a>>] = rows[<<f, a>>]
        BY <4>2, <3>1, <2>1 DEF SettleRows
      <4> QED
        BY <4>1, <4>3
    <3> QED
      BY <2>1, <3>1, <3>2, <3>3 DEF WInv, Written
  <2>6. Written'
    BY <2>5 DEF Written
  <2>7. MarksFirst'
    BY <2>1 DEF WInv, MarksFirst
  <2> QED
    BY <2>4, <2>6, <2>7 DEF Rowed
<1> QED
  BY <1>1, <1>2, <1>3, <1>4, <1>5, <1>6, <1>7, <1>8, <1>9, <1>10, <1>11, <1>12 DEF Work

\* What requests and commands do that begin.
LEMMA RequestsRowed ==
  ASSUME WInv, Requests
  PROVE  Rowed'
<1>a. op \in [Threads -> Op]
  BY DEF WInv, Inv, TypeOK
<1> USE DEF At, Only, Become, fileVars, folderVars, drainVars, NoOp, Free
<1>1. ASSUME NEW t \in Threads, NEW f \in Files, TrackFile(t, f)
      PROVE  Rowed'
  <2>1. /\ Only(t) /\ op'[t].kind = "track" /\ op'[t].at = "hold" /\ op'[t].hand = f
        /\ ~At(t, Scans \cup {"track"}, "hold")
    BY <1>1, <1>a DEF TrackFile, Scans
  <2>2. /\ tracked' \subseteq tracked \cup {f} /\ mirrored' = mirrored
        /\ UNCHANGED <<rows, row, marking>>
    BY <1>1 DEF TrackFile, Track
  <2> QED
    BY <2>1, <2>2, TakesInHand
<1>2. ASSUME NEW t \in Threads, NEW f \in Files,
             DeleteFile(t, f) \/ UntrackCommand(t, f) \/ CopyCommand(t, f)
      PROVE  Rowed'
  <2>1. Only(t) /\ op'[t].at # "done" /\ ~At(t, Scans \cup {"track"}, "hold")
    BY <1>2, <1>a DEF DeleteFile, UntrackCommand, CopyCommand, Scans
  <2>2. UNCHANGED <<tracked, mirrored, row, marking, rows>>
    BY <1>2 DEF DeleteFile, UntrackCommand, CopyCommand
  <2> QED
    BY <2>1, <2>2, OthersWrite
<1>3. ASSUME NEW t \in Threads, NEW d \in Folders,
             AddFolder(t, d) \/ StartScan(t, d) \/ StartMirror(t, d) \/ StartDelete(t, d)
      PROVE  Rowed'
  <2>1. op[t].kind = "none" /\ ~At(t, Scans \cup {"track"}, "hold")
    BY <1>3 DEF AddFolder, StartScan, StartMirror, StartDelete, Start, Scans
  <2>3. Only(t) /\ op'[t].at # "done"
    <3>1. CASE AddFolder(t, d)
      BY <3>1, <1>a DEF AddFolder
    <3>2. CASE StartScan(t, d)
      BY <3>2, <1>a DEF StartScan, Start
    <3>3. CASE StartMirror(t, d)
      BY <3>3, <1>a DEF StartMirror, Start
    <3>4. CASE StartDelete(t, d)
      BY <3>4, <1>a DEF StartDelete, Start
    <3> QED
      BY <1>3, <3>1, <3>2, <3>3, <3>4
  <2>2. UNCHANGED <<tracked, mirrored, row, marking, rows>>
    BY <1>3 DEF AddFolder, StartScan, StartMirror, StartDelete, Start
  <2> QED
    BY <2>1, <2>2, <2>3, OthersWrite
<1>4. ASSUME NEW t \in Threads, NEW d \in Folders, FolderCommand(t, d)
      PROVE  Rowed'
  <2>1. Only(t) /\ op'[t].at # "done" /\ ~At(t, Scans \cup {"track"}, "hold")
    BY <1>4, <1>a DEF FolderCommand, Command, Scans
  <2>2. UNCHANGED <<tracked, mirrored, row, marking, rows>>
    BY <1>4 DEF FolderCommand, Command
  <2> QED
    BY <2>1, <2>2, OthersWrite
<1> QED
  BY <1>1, <1>2, <1>3, <1>4, ConstantsOK DEF Requests, MirrorRequest

\* The worker settles a row and marks its file, users edit, and the service dies and
\* comes back.
LEMMA WorkerRowed ==
  ASSUME Steady, WInv, Worker \/ Users \/ Kill \/ Restart
  PROVE  Rowed'
<1>a. op \in [Threads -> Op] /\ tracked \subseteq Files /\ rows \in [Rows -> Statuses]
  BY DEF WInv, Inv, TypeOK
<1> USE DEF At, fileVars, folderVars, drainVars, NoOp
<1>1. ASSUME UNCHANGED <<tracked, mirrored, op>>,
             \A r \in Rows : rows[r] # "absent" => rows'[r] # "absent" \/ r[1] = marking',
             marking = NoFile \/ marking' = marking, MarksFirst'
      PROVE  Rowed'
  <2>1. ASSUME NEW f \in tracked' \ mirrored'
        PROVE  Writers(f)' # {} \/ marking' = f \/ \E a \in RowActions : rows'[<<f, a>>] # "absent"
    <3>1. Writers(f)' = Writers(f) /\ f \in tracked \ mirrored /\ f # NoFile
      BY <1>1, <1>a, ConstantsOK DEF Writers
    <3>2. CASE \E a \in RowActions : rows[<<f, a>>] # "absent"
      <4>1. PICK a \in RowActions : rows[<<f, a>>] # "absent"
        BY <3>2
      <4>2. <<f, a>> \in Rows /\ <<f, a>>[1] = f
        BY <3>1, <1>a DEF Rows
      <4> QED
        BY <4>1, <4>2, <1>1
    <3> QED
      BY <1>1, <3>1, <3>2 DEF WInv, Written
  <2>2. Written'
    BY <2>1 DEF Written
  <2>3. DoneIsMirrored'
    BY <1>1 DEF WInv, DoneIsMirrored
  <2> QED
    BY <1>1, <2>2, <2>3 DEF Rowed
<1>2. CASE RequeueAndFetch
  <2>1. MarksFirst' /\ marking' = marking /\ UNCHANGED <<tracked, mirrored, op>>
    BY <1>2 DEF RequeueAndFetch, MarksFirst
  <2>2. \A r \in Rows : rows[r] # "absent" => rows'[r] # "absent"
    BY <1>2 DEF RequeueAndFetch
  <2> QED
    BY <1>1, <2>1, <2>2
<1>3. ASSUME NEW r \in Rows, TakeRow(r)
      PROVE  Rowed'
  <2>1. MarksFirst' /\ marking' = marking /\ UNCHANGED <<tracked, mirrored, op>>
    BY <1>3 DEF TakeRow, MarksFirst
  <2>2. \A q \in Rows : rows[q] # "absent" => rows'[q] # "absent"
    BY <1>3, <1>a DEF TakeRow
  <2> QED
    BY <1>1, <2>1, <2>2
<1>4. CASE RowCompleted
  <2>1. MarksFirst' /\ marking = NoFile /\ UNCHANGED <<tracked, mirrored, op>>
    BY <1>4 DEF RowCompleted, MarksFirst, WInv
  <2>2. \A q \in Rows : rows[q] # "absent" => rows'[q] # "absent" \/ q[1] = marking'
    BY <1>4, <1>a DEF RowCompleted
  <2> QED
    BY <1>1, <2>1, <2>2
<1>5. CASE RowFailed
  <2>1. MarksFirst' /\ marking' = marking /\ UNCHANGED <<tracked, mirrored, op>>
    BY <1>5 DEF RowFailed, MarksFirst
  <2>2. \A q \in Rows : rows[q] # "absent" => rows'[q] # "absent"
    BY <1>5, <1>a DEF RowFailed
  <2> QED
    BY <1>1, <2>1, <2>2
<1>6. CASE MarkMirrored
  <2>1. \A f : Writers(f)' = Writers(f)
    BY <1>6 DEF MarkMirrored, Writers
  <2> QED
    BY <1>6, <2>1 DEF MarkMirrored, WInv, Written, DoneIsMirrored, MarksFirst, Rowed
<1>7. ASSUME NEW f \in Files, TrackAgain(f) \/ Edit(f)
      PROVE  Rowed'
  <2>1. MarksFirst' /\ UNCHANGED <<tracked, mirrored, op, rows, marking>>
    BY <1>7 DEF TrackAgain, Edit, MarksFirst, WInv
  <2> QED
    BY <1>1, <2>1
<1>8. CASE Restart
  <2>1. MarksFirst' /\ UNCHANGED <<tracked, mirrored, op, rows, marking>>
    BY <1>8 DEF Restart, MarksFirst, WInv
  <2> QED
    BY <1>1, <2>1
<1>9. CASE Kill
  <2>1. /\ marking = NoFile /\ marking' = NoFile /\ UNCHANGED <<tracked, mirrored, rows>>
        /\ \A t \in Threads : op'[t] = op[t] \/ (op'[t] = NoOp /\ t \notin HalfDone)
    BY <1>9 DEF Kill, Die, Alone, Steady
  <2>2. ASSUME NEW f
        PROVE  Writers(f) \subseteq Writers(f)'
    BY <2>1 DEF Writers, HalfDone
  <2>3. Written'
    <3>1. ASSUME NEW f \in tracked' \ mirrored'
          PROVE  Writers(f)' # {} \/ marking' = f \/ \E a \in RowActions : rows'[<<f, a>>] # "absent"
      BY <2>1, <2>2 DEF WInv, Written
    <3> QED
      BY <3>1 DEF Written
  <2>4. DoneIsMirrored'
    BY <2>1, ConstantsOK DEF WInv, DoneIsMirrored
  <2> QED
    BY <2>1, <2>3, <2>4 DEF MarksFirst, Rowed
<1> QED
  BY <1>2, <1>3, <1>4, <1>5, <1>6, <1>7, <1>8, <1>9, ConstantsOK DEF Worker, Users

\* Unless a kill falls between the writes that belong together, or a scan finds a change just
\* when a mirror completes the rows of the file, no file is left without its mirror and without
\* a row: scan_tracked_folder, mirror_folder and process_item settle the rows of one
\* another's files and lose none.
THEOREM UnmirroredAreQueued ==
  ASSUME Steady
  PROVE  Spec => []UnmirroredIsQueued
<1>1. Init => WInv
  BY InvInit DEF WInv, Init, Written, DoneIsMirrored, MarksFirst, NoOp
<1>2. WInv /\ [Next]_vars => WInv'
  <2>1. ASSUME WInv, Next
        PROVE  WInv'
    <3>1. Inv'
      BY <2>1, InvStep DEF WInv
    <3>2. Rowed'
      BY <2>1, ThreadsRowed, RequestsRowed, WorkerRowed DEF Next
    <3> QED
      BY <3>1, <3>2 DEF WInv, Rowed
  <2>2. ASSUME WInv, UNCHANGED vars
        PROVE  WInv'
    <3>1. Inv'
      BY <2>2, InvStep DEF WInv
    <3>2. UNCHANGED <<tracked, mirrored, rows, row, marking, op>>
      BY <2>2 DEF vars, fileVars, drainVars
    <3>3. Written'
      <4>1. \A f : Writers(f)' = Writers(f)
        BY <3>2 DEF Writers, At
      <4> QED
        BY <2>2, <3>2, <4>1 DEF WInv, Written
    <3> QED
      BY <2>2, <3>1, <3>2, <3>3 DEF WInv, DoneIsMirrored, MarksFirst
  <2> QED
    BY <2>1, <2>2
<1>3. WInv => UnmirroredIsQueued
  <2>1. ASSUME NEW f
        PROVE  Writers(f) \subseteq InHandOf(f)
    BY DEF Writers, InHandOf, At
  <2>2. ASSUME Written, NEW f \in tracked \ mirrored
        PROVE  InHandOf(f) # {} \/ marking = f \/ \E a \in RowActions : rows[<<f, a>>] # "absent"
    BY <2>1, <2>2 DEF Written
  <2> QED
    BY <2>2 DEF WInv, UnmirroredIsQueued
<1> QED
  BY <1>1, <1>2, <1>3, PTL DEF Spec

(* Sources *)

\* Recomputations come one after the other, and so do deletions that have listed their files.
OneAtATime ==
    /\ \A s, t \in Threads : s \in Recomputing /\ t \in Recomputing => s = t
    /\ \A s, t \in Threads : s \in Listed /\ t \in Listed => s = t

\* Whoever tracks the files of a folder works on a folder that is tracked.
WalksCovered ==
    \A t \in Threads : op[t].kind \in Walks => op[t].folder \in folders /\ op[t].todo \subseteq Under[op[t].folder]

\* A file that is not directly tracked is in a tracked folder, whatever its source is noted as.
SourcesCovered == \A f \in tracked \ direct : Covered(f, folders)

\* Every file has a source, but for the time between the first two statements of a recomputation.
SourcesKnown == (\E t \in Threads : op[t].at = "cover") \/ tracked \subseteq direct \cup via

\* A deletion has listed every file that no other folder will cover.
ListsWhole ==
    \A t \in Threads : t \in Listed =>
        \A f \in tracked \ direct : f \in op[t].todo \/ Covered(f, folders \ {op[t].folder})

Sourced ==
    /\ DirectWasAsked
    /\ OneAtATime
    /\ WalksCovered
    /\ SourcesCovered
    /\ SourcesKnown
    /\ ListsWhole

SInv == HInv /\ Sourced

\* Recomputations do not overlap, nor do deletions, nor operations on one folder, and no
\* recomputation is killed.
OneByOne == Allowed \cap {"overlapping recomputes", "deletes together", "crash between writes",
                          "command beside operation"} = {}

\* What a step leaves as it is of thread s: where it is within a recomputation, what it has
\* listed for a deletion, and that it walks over a tracked folder.
Quiet(s) ==
    /\ s \in Recomputing \/ op'[s].at \in {"cover", "settle"} => op'[s].at = op[s].at
    /\ op'[s].kind \in {"delete", "remove"} /\ op'[s].at = "commit" =>
          /\ s \in Listed /\ op'[s].folder = op[s].folder
          /\ \A f \in tracked' \ direct' : f \in op[s].todo => f \in op'[s].todo
    /\ op'[s].kind \in Walks => op'[s].folder \in folders' /\ op'[s].todo \subseteq Under[op'[s].folder]

\* A thread that does nothing is quiet.
LEMMA IdleQuiet ==
  ASSUME SInv, NEW s \in Threads, op'[s] = op[s], folders \subseteq folders'
  PROVE  Quiet(s)
  BY DEF Quiet, Listed, At, SInv, Sourced, WalksCovered, Recomputing

\* Steps of quiet threads, which add neither a file of a folder nor an unknown source.
LEMMA QuietSourced ==
  ASSUME SInv, \A s \in Threads : Quiet(s), folders \subseteq folders',
         tracked' \ direct' \subseteq tracked \ direct, direct' \subseteq asked',
         tracked \subseteq direct \cup via => tracked' \subseteq direct' \cup via'
  PROVE  Sourced'
<1>1. DirectWasAsked'
  BY DEF DirectWasAsked
<1>2. /\ \A s \in Threads : s \in Recomputing' => s \in Recomputing
      /\ \A s \in Threads : s \in Listed' => s \in Listed
      /\ \A s \in Threads : op[s].at = "cover" => op'[s].at = "cover"
  BY DEF Quiet, Recomputing, Listed, At
<1>3. OneAtATime'
  BY <1>2 DEF OneAtATime, SInv, Sourced
<1>4. WalksCovered'
  BY DEF WalksCovered, Quiet
<1>5. SourcesCovered'
  <2>1. ASSUME NEW f \in tracked' \ direct'
        PROVE  Covered(f, folders')
    <3>1. Covered(f, folders)
      BY DEF SInv, Sourced, SourcesCovered
    <3> QED
      BY <3>1 DEF Covered
  <2> QED
    BY <2>1 DEF SourcesCovered, Covered
<1>6. SourcesKnown'
  BY <1>2 DEF SourcesKnown, SInv, Sourced
<1>7. ListsWhole'
  <2>1. ASSUME NEW t \in Threads, t \in Listed', NEW f \in tracked' \ direct'
        PROVE  f \in op'[t].todo \/ Covered(f, folders' \ {op'[t].folder})
    <3>1. /\ t \in Listed /\ op'[t].folder = op[t].folder
          /\ f \in op[t].todo => f \in op'[t].todo
      BY <2>1 DEF Quiet, Listed, At
    <3>2. f \in op[t].todo \/ Covered(f, folders \ {op[t].folder})
      BY <3>1, <2>1 DEF SInv, Sourced, ListsWhole
    <3> QED
      BY <3>1, <3>2 DEF Covered
  <2> QED
    BY <2>1 DEF ListsWhole, Covered
<1> QED
  BY <1>1, <1>3, <1>4, <1>5, <1>6, <1>7 DEF Sourced

\* The same, when one thread moves and files and folders stay.
LEMMA MovesSourced ==
  ASSUME SInv, NEW t \in Threads, Only(t), Quiet(t), folders \subseteq folders',
         UNCHANGED <<tracked, direct, via, asked>>
  PROVE  Sourced'
<1>1. \A s \in Threads : Quiet(s)
  BY IdleQuiet DEF Only
<1> QED
  BY <1>1, QuietSourced DEF SInv, Sourced, DirectWasAsked

\* Requests and commands that begin.
LEMMA RequestsSourced ==
  ASSUME SInv, Requests
  PROVE  Sourced'
<1>a. op \in [Threads -> Op]
  BY DEF SInv, HInv, Inv, TypeOK
<1> USE DEF At, Only, Become, fileVars, folderVars, drainVars, NoOp, Free
<1>1. ASSUME NEW t \in Threads, NEW f \in Files, TrackFile(t, f)
      PROVE  Sourced'
  <2>1. Only(t) /\ op'[t].kind = "track" /\ op'[t].at = "hold" /\ op[t].kind = "none"
    BY <1>1, <1>a DEF TrackFile
  <2>2. Quiet(t)
    BY <2>1 DEF Quiet, Recomputing, Walks, SInv, HInv, Held
  <2>3. /\ tracked' = tracked \cup {f} /\ direct' = direct \cup {f} /\ asked' = asked \cup {f}
        /\ via' = via /\ folders' = folders
    BY <1>1 DEF TrackFile, Track
  <2>4. \A s \in Threads : Quiet(s)
    BY <2>1, <2>2, <2>3, IdleQuiet
  <2> QED
    BY <2>3, <2>4, QuietSourced DEF SInv, Sourced, DirectWasAsked
<1>2. ASSUME NEW t \in Threads, NEW f \in Files,
             DeleteFile(t, f) \/ UntrackCommand(t, f) \/ CopyCommand(t, f)
      PROVE  Sourced'
  <2>1. /\ Only(t) /\ op'[t].kind \in {"untrack", "copy"} /\ op'[t].at \in {"commit", "visit"}
        /\ op[t].kind = "none"
    BY <1>2, <1>a DEF DeleteFile, UntrackCommand, CopyCommand
  <2>2. Quiet(t)
    BY <2>1 DEF Quiet, Recomputing, Walks, SInv, HInv, Held
  <2>3. UNCHANGED <<tracked, direct, via, asked, folders>>
    BY <1>2 DEF DeleteFile, UntrackCommand, CopyCommand
  <2> QED
    BY <2>1, <2>2, <2>3, MovesSourced
<1>3. ASSUME NEW t \in Threads, NEW d \in Folders, AddFolder(t, d)
      PROVE  Sourced'
  <2>1. Only(t) /\ op'[t].kind = "add" /\ op'[t].at = "clear" /\ op[t].kind = "none"
    BY <1>3, <1>a DEF AddFolder
  <2>2. Quiet(t)
    BY <2>1 DEF Quiet, Recomputing, Walks, SInv, HInv, Held
  <2>3. UNCHANGED <<tracked, direct, via, asked>> /\ folders \subseteq folders'
    BY <1>3 DEF AddFolder
  <2> QED
    BY <2>1, <2>2, <2>3, MovesSourced
<1>4. ASSUME NEW t \in Threads, NEW d \in Folders, NEW kind \in Kinds, NEW place \in {"visit", "list"},
             NEW todo, d \in folders, kind \in Walks => todo = Under[d], Free(t),
             Become(t, [NoOp EXCEPT !.kind = kind, !.at = place, !.folder = d, !.todo = todo]),
             UNCHANGED <<tracked, direct, via, asked, folders>>
      PROVE  Sourced'
  <2>1. /\ Only(t) /\ op'[t].kind = kind /\ op'[t].at = place /\ op'[t].folder = d /\ op'[t].todo = todo
        /\ op[t].kind = "none"
    BY <1>4, <1>a
  <2>2. Quiet(t)
    BY <2>1, <1>4 DEF Quiet, Recomputing, Walks, SInv, HInv, Held
  <2> QED
    BY <2>1, <2>2, <1>4, MovesSourced
<1>5. ASSUME NEW t \in Threads, NEW d \in Folders,
             StartScan(t, d) \/ StartMirror(t, d) \/ StartDelete(t, d)
      PROVE  Sourced'
  <2>1. /\ d \in folders /\ Free(t) /\ UNCHANGED <<tracked, direct, via, asked, folders>>
        /\ {"scan", "mirror", "delete"} \subseteq Kinds
        /\ "mirror" \notin Walks /\ "delete" \notin Walks
    BY <1>5 DEF StartScan, StartMirror, StartDelete, Start, Kinds, FolderKinds, Walks
  <2>2. \/ Become(t, [NoOp EXCEPT !.kind = "scan", !.at = "visit", !.folder = d, !.todo = Under[d]])
        \/ Become(t, [NoOp EXCEPT !.kind = "mirror", !.at = "visit", !.folder = d, !.todo = ToMirror(d)])
        \/ Become(t, [NoOp EXCEPT !.kind = "delete", !.at = "list", !.folder = d, !.todo = {}])
    BY <1>5 DEF StartScan, StartMirror, StartDelete, Start
  <2> HIDE DEF Become, Free
  <2> QED
    BY <2>1, <2>2, <1>4
<1>6. ASSUME NEW t \in Threads, NEW d \in Folders, FolderCommand(t, d)
      PROVE  Sourced'
  <2>1. /\ d \in folders /\ Free(t) /\ UNCHANGED <<tracked, direct, via, asked, folders>>
        /\ {"auto", "copy", "remove"} \subseteq Kinds
        /\ "copy" \notin Walks /\ "remove" \notin Walks
    BY <1>6 DEF FolderCommand, Command, Kinds, Commands, Walks
  <2>2. \/ Become(t, [NoOp EXCEPT !.kind = "auto", !.at = "visit", !.folder = d, !.todo = Under[d]])
        \/ Become(t, [NoOp EXCEPT !.kind = "copy", !.at = "visit", !.folder = d, !.todo = ToMirror(d)])
        \/ Become(t, [NoOp EXCEPT !.kind = "remove", !.at = "list", !.folder = d, !.todo = {}])
    BY <1>6 DEF FolderCommand, Command
  <2> HIDE DEF Become, Free
  <2> QED
    BY <2>1, <2>2, <1>4
<1> QED
  BY <1>1, <1>2, <1>3, <1>5, <1>6, ConstantsOK DEF Requests, MirrorRequest

\* The worker, users and the end of the service leave the sources alone.
LEMMA WorkerSourced ==
  ASSUME OneByOne, SInv, Worker \/ Users \/ Kill \/ Restart
  PROVE  Sourced'
<1> USE DEF fileVars, folderVars, drainVars
<1>1. CASE Worker \/ Restart
  <2>1. UNCHANGED <<tracked, direct, via, asked, folders, op>>
    BY <1>1 DEF Worker, RequeueAndFetch, TakeRow, RowCompleted, MarkMirrored, RowFailed, Restart
  <2>2. \A s \in Threads : Quiet(s)
    BY <2>1, IdleQuiet
  <2> QED
    BY <2>1, <2>2, QuietSourced DEF SInv, Sourced, DirectWasAsked
<1>2. ASSUME NEW f \in Files, TrackAgain(f) \/ Edit(f)
      PROVE  Sourced'
  <2>1. /\ UNCHANGED <<tracked, folders, op>> /\ tracked' \ direct' \subseteq tracked \ direct
        /\ tracked \subseteq direct \cup via => tracked' \subseteq direct' \cup via'
        /\ direct \subseteq asked => direct' \subseteq asked'
    BY <1>2 DEF TrackAgain, Edit
  <2>2. \A s \in Threads : Quiet(s)
    BY <2>1, IdleQuiet
  <2> QED
    BY <2>1, <2>2, QuietSourced DEF SInv, Sourced, DirectWasAsked
<1>3. CASE Kill
  <2>1. UNCHANGED <<tracked, direct, via, asked, folders>>
    BY <1>3 DEF Kill
  <2>2. \A s \in Threads : op'[s] = op[s] \/ (op'[s] = NoOp /\ s \notin Recomputing)
    BY <1>3 DEF Kill, Die, Alone, OneByOne, HalfDone
  <2>3. ASSUME NEW s \in Threads
        PROVE  Quiet(s)
    <3>1. CASE op'[s] = NoOp /\ s \notin Recomputing
      BY <3>1 DEF Quiet, NoOp, Walks
    <3>2. CASE op'[s] = op[s]
      BY <3>2, <2>1, IdleQuiet
    <3> QED
      BY <2>2, <3>1, <3>2
  <2> QED
    BY <2>1, <2>3, QuietSourced DEF SInv, Sourced, DirectWasAsked
<1> QED
  BY <1>1, <1>2, <1>3, ConstantsOK DEF Users

\* The three statements of a recomputation.
LEMMA RecomputeSourced ==
  ASSUME OneByOne, SInv, NEW t \in Threads, Clear(t) \/ Cover(t) \/ Settle(t)
  PROVE  Sourced'
<1>a. op \in [Threads -> Op] /\ op[t] \in Op /\ direct \subseteq tracked /\ via \subseteq tracked
  BY DEF SInv, HInv, Inv, TypeOK
<1>b. op[t].kind \in Walks \cup {"add"}
  BY DEF Clear, Cover, Settle, SInv, HInv, Held
<1>c. UNCHANGED <<tracked, folders, asked>>
  BY DEF Clear, Cover, Settle, folderVars
<1>1. /\ Only(t)
      /\ op'[t].kind \in Walks => op'[t].kind = op[t].kind /\ op'[t].folder = op[t].folder /\ op'[t].todo = op[t].todo
      /\ op'[t].kind \notin {"delete", "remove"}
      /\ op'[t].at = IF op[t].at = "clear" THEN "cover" ELSE IF op[t].at = "cover" THEN "settle" ELSE op'[t].at
      /\ op[t].at = "settle" => op'[t].at \notin {"cover", "settle"}
  <2>1. CASE Clear(t)
    BY <1>a, <1>b, <2>1 DEF Clear, Become, Only, Op, Walks
  <2>3. CASE Cover(t)
    BY <1>a, <1>b, <2>3 DEF Cover, Become, Only, Op, Walks
  <2>2. CASE Settle(t)
    BY <1>a, <1>b, <2>2 DEF Settle, Become, Only, Op, Walks, ListChanges, NoOp
  <2> QED
    BY <2>1, <2>2, <2>3
<1>2. WalksCovered'
  BY <1>1, <1>c DEF WalksCovered, SInv, Sourced, Only
<1>3. \A s \in Threads : s \in Listed' => s # t /\ s \in Listed /\ op'[s] = op[s]
  BY <1>1 DEF Listed, At, Only
<1>4. CASE Clear(t)
  <2>1. Recomputing = {} /\ via' = {} /\ direct' = direct /\ op[t].at = "clear"
    BY <1>4 DEF Clear, Alone, OneByOne
  <2>2. \A s \in Threads : s \in Recomputing' => s = t
    BY <1>1, <2>1 DEF Recomputing, Only
  <2>3. OneAtATime'
    BY <2>2, <1>3 DEF OneAtATime, SInv, Sourced
  <2>4. SourcesKnown'
    BY <1>1, <2>1 DEF SourcesKnown
  <2>5. SourcesCovered' /\ DirectWasAsked'
    BY <2>1, <1>c DEF SourcesCovered, DirectWasAsked, SInv, Sourced, Covered
  <2>6. ListsWhole'
    BY <2>1, <1>c, <1>3 DEF ListsWhole, SInv, Sourced, Covered
  <2> QED
    BY <1>2, <2>3, <2>4, <2>5, <2>6 DEF Sourced
<1>5. CASE Cover(t)
  <2>1. direct' = direct /\ via' = via \cup {f \in tracked \ direct : Covered(f, folders)} /\ op[t].at = "cover"
    BY <1>5 DEF Cover
  <2>2. \A s \in Threads : s \in Recomputing' => s \in Recomputing
    BY <1>1, <2>1 DEF Recomputing, Only
  <2>3. OneAtATime'
    BY <2>2, <1>3 DEF OneAtATime, SInv, Sourced
  <2>4. SourcesKnown'
    <3>1. \A f \in tracked : f \in direct \/ f \in via'
      BY <2>1 DEF SInv, Sourced, SourcesCovered
    <3> QED
      BY <3>1, <2>1, <1>c DEF SourcesKnown
  <2>5. SourcesCovered' /\ DirectWasAsked'
    BY <2>1, <1>c DEF SourcesCovered, DirectWasAsked, SInv, Sourced, Covered
  <2>6. ListsWhole'
    BY <2>1, <1>c, <1>3 DEF ListsWhole, SInv, Sourced, Covered
  <2> QED
    BY <1>2, <2>3, <2>4, <2>5, <2>6 DEF Sourced
<1>6. CASE Settle(t)
  <2>1. direct' = direct \cup (tracked \ via) /\ via' = via /\ op[t].at = "settle"
    BY <1>6 DEF Settle
  <2>2. \A s \in Threads : s \in Recomputing => s = t
    BY <2>1 DEF OneAtATime, SInv, Sourced, Recomputing
  <2>3. direct' = direct /\ tracked \subseteq direct \cup via
    <3>1. \A s \in Threads : op[s].at # "cover"
      BY <2>1, <2>2 DEF Recomputing
    <3> QED
      BY <3>1, <2>1, <1>a DEF SourcesKnown, SInv, Sourced
  <2>4. \A s \in Threads : s \in Recomputing' => FALSE
    BY <1>1, <2>1, <2>2 DEF Recomputing, Only
  <2>5. OneAtATime'
    BY <2>4, <1>3 DEF OneAtATime, SInv, Sourced
  <2>6. SourcesKnown'
    BY <2>1, <2>3, <1>c DEF SourcesKnown
  <2>7. SourcesCovered' /\ DirectWasAsked'
    BY <2>3, <1>c DEF SourcesCovered, DirectWasAsked, SInv, Sourced, Covered
  <2>8. ListsWhole'
    BY <2>3, <1>c, <1>3 DEF ListsWhole, SInv, Sourced, Covered
  <2> QED
    BY <1>2, <2>5, <2>6, <2>7, <2>8 DEF Sourced
<1> QED
  BY <1>4, <1>5, <1>6

\* A scan tracks a file of its folder, which no deletion is about to remove.
LEMMA NewSourced ==
  ASSUME SInv, NEW t \in Threads, NEW f \in Files, ScanNew(t, f)
  PROVE  Sourced'
<1>a. op \in [Threads -> Op] /\ op[t] \in Op /\ direct \subseteq tracked /\ folders \subseteq Folders
  BY DEF SInv, HInv, Inv, TypeOK
<1>1. /\ op[t].kind \in Walks /\ op[t].at = "visit" /\ f \in op[t].todo
      /\ tracked' = tracked \cup {f} /\ direct' = direct /\ via' = via \cup {f}
      /\ UNCHANGED <<asked, folders>>
      /\ op' = [op EXCEPT ![t] = [op[t] EXCEPT !.at = "hold", !.hand = f, !.todo = @ \ {f}, !.action = "adopt_mirror"]]
  BY DEF ScanNew, ScanTrack, AutoTrack, TrackNew, Track, InHand, Become, Visiting, At, folderVars, Walks
<1>2. /\ op'[t].kind = op[t].kind /\ op'[t].at = "hold" /\ op'[t].folder = op[t].folder
      /\ op'[t].todo \subseteq op[t].todo /\ \A s \in Threads : s # t => op'[s] = op[s]
  BY <1>1, <1>a DEF Op
<1>3. op[t].folder \in folders /\ f \in Under[op[t].folder]
  BY <1>1 DEF SInv, Sourced, WalksCovered
<1>4. Covered(f, folders')
  BY <1>1, <1>3 DEF Covered
<1>5. WalksCovered'
  BY <1>1, <1>2 DEF SInv, Sourced, WalksCovered
<1>6. SourcesCovered' /\ DirectWasAsked'
  BY <1>1, <1>4 DEF SInv, Sourced, SourcesCovered, DirectWasAsked, Covered
<1>7. /\ \A s \in Threads : s \in Recomputing' => s \in Recomputing
      /\ \A s \in Threads : s \in Listed' => s \in Listed /\ op'[s] = op[s] /\ s # t
      /\ \A s \in Threads : op[s].at = "cover" => op'[s].at = "cover"
  BY <1>1, <1>2 DEF Recomputing, Listed, At
<1>8. OneAtATime' /\ SourcesKnown'
  BY <1>1, <1>7 DEF OneAtATime, SourcesKnown, SInv, Sourced
<1>9. ListsWhole'
  <2>1. ASSUME NEW s \in Threads, s \in Listed', NEW g \in tracked' \ direct'
        PROVE  g \in op'[s].todo \/ Covered(g, folders' \ {op'[s].folder})
    <3>1. s \in Listed /\ op'[s] = op[s] /\ s # t
      BY <2>1, <1>7
    <3>2. CASE g = f
      <4>1. op[s].folder # op[t].folder
        BY <3>1, <1>3, <1>a, ConstantsOK DEF SInv, HInv, Held
      <4> QED
        BY <4>1, <3>1, <3>2, <1>1, <1>3 DEF Covered
    <3>3. CASE g # f
      <4>1. g \in tracked \ direct
        BY <2>1, <3>3, <1>1
      <4>2. g \in op[s].todo \/ Covered(g, folders \ {op[s].folder})
        BY <4>1, <3>1 DEF SInv, Sourced, ListsWhole
      <4> QED
        BY <4>2, <3>1, <1>1 DEF Covered
    <3> QED
      BY <3>2, <3>3
  <2> QED
    BY <2>1 DEF ListsWhole, Covered
<1> QED
  BY <1>5, <1>6, <1>8, <1>9 DEF Sourced

\* A deletion lists its files when every source is known.
LEMMA ListSourced ==
  ASSUME OneByOne, SInv, NEW t \in Threads, ListOrigins(t)
  PROVE  Sourced'
<1>a. op \in [Threads -> Op] /\ op[t] \in Op
  BY DEF SInv, HInv, Inv, TypeOK
<1>1. /\ op[t].kind \in {"delete", "remove"} /\ op[t].at = "list"
      /\ Listed = {} /\ Recomputing = {}
      /\ UNCHANGED <<tracked, direct, via, asked, folders>>
      /\ op' = [op EXCEPT ![t] = [op[t] EXCEPT !.at = "commit", !.todo = Origins(op[t].folder)]]
  BY DEF ListOrigins, At, Alone, OneByOne, Become, fileVars, folderVars
<1>2. /\ op'[t].kind = op[t].kind /\ op'[t].at = "commit" /\ op'[t].folder = op[t].folder
      /\ op'[t].todo = Origins(op[t].folder) /\ \A s \in Threads : s # t => op'[s] = op[s]
  BY <1>1, <1>a DEF Op
<1>3. /\ \A s \in Threads : s \notin Recomputing'
      /\ \A s \in Threads : s \in Listed' => s = t
  BY <1>1, <1>2 DEF Recomputing, Listed, At
<1>4. OneAtATime'
  BY <1>3 DEF OneAtATime
<1>5. tracked \subseteq direct \cup via
  BY <1>1 DEF SInv, Sourced, SourcesKnown, Recomputing
<1>6. SourcesKnown' /\ SourcesCovered' /\ DirectWasAsked'
  BY <1>1, <1>5 DEF SInv, Sourced, SourcesKnown, SourcesCovered, DirectWasAsked, Covered
<1>7. WalksCovered'
  BY <1>1, <1>2 DEF SInv, Sourced, WalksCovered, Walks
<1>8. ListsWhole'
  <2>1. ASSUME NEW f \in tracked \ direct
        PROVE  f \in Origins(op[t].folder) \/ Covered(f, folders \ {op[t].folder})
    BY <1>5 DEF Origins, Covered, SInv, Sourced, SourcesCovered
  <2> QED
    BY <2>1, <1>1, <1>2, <1>3 DEF ListsWhole, Covered
<1> QED
  BY <1>4, <1>6, <1>7, <1>8 DEF Sourced

\* A folder goes, and with it the files that no other folder covers.
LEMMA DeleteSourced ==
  ASSUME OneByOne, SInv, NEW t \in Threads, CommitDelete(t)
  PROVE  Sourced'
<1> DEFINE d == op[t].folder
           gone == op[t].todo
<1>a. op \in [Threads -> Op] /\ op[t] \in Op
  BY DEF SInv, HInv, Inv, TypeOK
<1>1. /\ t \in Listed /\ asked' = asked /\ folders' = folders \ {d}
      /\ tracked' = tracked \ gone /\ direct' = direct \ gone /\ via' = via \ gone
      /\ op' = [s \in Threads |-> IF s = t THEN [NoOp EXCEPT !.kind = "add", !.at = "clear"] ELSE Without(s, gone)]
  BY DEF CommitDelete, Untrack, Listed
<1>2. op'[t].kind = "add" /\ op'[t].at = "clear"
  BY <1>1 DEF NoOp
<1>3. \A s \in Threads : s # t =>
        /\ op'[s].kind = op[s].kind /\ op'[s].at = op[s].at /\ op'[s].folder = op[s].folder
        /\ op'[s].kind \in Walks => op'[s].todo = op[s].todo
  <2>1. \A s \in Threads : op[s] \in Op
    BY <1>a
  <2> QED
    BY <1>1, <2>1 DEF Without, Op
<1> HIDE DEF gone
<1>4. \A s \in Threads : s \notin Listed'
  <2>1. \A s \in Threads : s \in Listed => s = t
    BY <1>1 DEF SInv, Sourced, OneAtATime
  <2> QED
    BY <2>1, <1>2, <1>3 DEF Listed, At
<1>5. ListsWhole'
  BY <1>4 DEF ListsWhole
<1>6. \A s \in Threads : s \in Recomputing' => s \in Recomputing
  BY <1>2, <1>3 DEF Recomputing
<1>7. OneAtATime'
  BY <1>4, <1>6 DEF OneAtATime, SInv, Sourced
<1>8. SourcesCovered'
  <2>1. ASSUME NEW f \in tracked' \ direct'
        PROVE  Covered(f, folders')
    <3>1. f \in tracked \ direct /\ f \notin gone
      BY <2>1, <1>1
    <3> QED
      BY <3>1, <1>1 DEF gone, SInv, Sourced, ListsWhole
  <2> QED
    BY <2>1 DEF SourcesCovered, Covered
<1>9. DirectWasAsked'
  BY <1>1 DEF SInv, Sourced, DirectWasAsked
<1>10. SourcesKnown'
  <2>1. \A s \in Threads : op[s].at = "cover" => op'[s].at = "cover"
    BY <1>1, <1>3 DEF Listed, At
  <2> QED
    BY <2>1, <1>1 DEF SInv, Sourced, SourcesKnown
<1>11. WalksCovered'
  <2>1. ASSUME NEW s \in Threads, op'[s].kind \in Walks
        PROVE  op'[s].folder \in folders' /\ op'[s].todo \subseteq Under[op'[s].folder]
    <3>1. s # t
      BY <2>1, <1>2 DEF Walks
    <3>2. op[s].folder \in folders /\ op[s].todo \subseteq Under[op[s].folder]
      BY <3>1, <2>1, <1>3 DEF SInv, Sourced, WalksCovered
    <3>3. op[s].folder # d
      <4>1. d \in Folders
        BY <1>1 DEF Listed, At, SInv, HInv, Held
      <4> QED
        BY <4>1, <3>1, ConstantsOK DEF SInv, HInv, Held
    <3> QED
      BY <3>1, <3>2, <3>3, <2>1, <1>1, <1>3
  <2> QED
    BY <2>1 DEF WalksCovered
<1> QED
  BY <1>5, <1>7, <1>8, <1>9, <1>10, <1>11 DEF Sourced

\* A file is untracked: its sources and its place in the lists of deletions go with it.
LEMMA RemoveSourced ==
  ASSUME SInv, NEW t \in Threads, RemoveFile(t)
  PROVE  Sourced'
<1> DEFINE gone == {op[t].hand} \cap Files
<1>a. op \in [Threads -> Op]
  BY DEF SInv, HInv, Inv, TypeOK
<1>1. /\ op[t].kind = "untrack" /\ op[t].at = "commit" /\ folders' = folders
      /\ asked' = asked \ gone /\ tracked' = tracked \ gone /\ direct' = direct \ gone /\ via' = via \ gone
      /\ op' = [s \in Threads |-> IF s = t THEN NoOp ELSE Without(s, gone)]
  BY DEF RemoveFile, At, Untrack, folderVars
<1> HIDE DEF gone
<1>2. Quiet(t)
  <2>1. op'[t].kind = "none" /\ op'[t].at = "finish"
    BY <1>1 DEF NoOp
  <2> QED
    BY <1>1, <2>1 DEF Quiet, Recomputing, Walks
<1>3. ASSUME NEW s \in Threads, s # t
      PROVE  Quiet(s)
  <2>1. /\ op'[s].kind = op[s].kind /\ op'[s].at = op[s].at /\ op'[s].folder = op[s].folder
        /\ op'[s].todo = IF op[s].kind \in Walks THEN op[s].todo ELSE op[s].todo \ gone
    <3>1. op[s] \in Op
      BY <1>a
    <3> QED
      BY <1>1, <1>3, <3>1 DEF Without, Op
  <2>2. op'[s].kind \in {"delete", "remove"} /\ op'[s].at = "commit" => s \in Listed
    BY <2>1 DEF Listed, At
  <2>3. \A f \in tracked' \ direct' : f \in op[s].todo => f \in op'[s].todo
    BY <1>1, <2>1
  <2>4. op'[s].kind \in Walks => op'[s].folder \in folders' /\ op'[s].todo \subseteq Under[op'[s].folder]
    BY <1>1, <2>1 DEF SInv, Sourced, WalksCovered
  <2> QED
    BY <2>1, <2>2, <2>3, <2>4 DEF Quiet
<1>4. \A s \in Threads : Quiet(s)
  BY <1>2, <1>3
<1> QED
  BY <1>1, <1>4, QuietSourced DEF SInv, Sourced, DirectWasAsked

\* A thread that goes on with its work, outside a recomputation and a deletion.
LEMMA GoesOn ==
  ASSUME SInv, NEW t \in Threads, op[t].at \notin {"cover", "settle"}, op'[t].at \notin {"cover", "settle", "commit"},
         \/ op'[t].kind \notin Walks
         \/ op'[t].kind = op[t].kind /\ op'[t].folder = op[t].folder /\ op'[t].todo \subseteq op[t].todo,
         folders' = folders
  PROVE  Quiet(t)
  BY DEF Quiet, Recomputing, SInv, Sourced, WalksCovered

\* The other steps of threads.
LEMMA WorkSourced ==
  ASSUME OneByOne, SInv, NEW t \in Threads, Work(t)
  PROVE  Sourced'
<1>a. op \in [Threads -> Op] /\ op[t] \in Op
  BY DEF SInv, HInv, Inv, TypeOK
<1>b. op[t].kind \in {"delete", "remove"} => op[t].at \notin {"cover", "settle"}
  BY DEF SInv, HInv, Held, Walks
<1>q. ASSUME Only(t), op[t].at \notin {"cover", "settle"}, op'[t].at \notin {"cover", "settle", "commit"},
             \/ op'[t].kind \notin Walks
             \/ op'[t].kind = op[t].kind /\ op'[t].folder = op[t].folder /\ op'[t].todo \subseteq op[t].todo,
             UNCHANGED <<tracked, direct, via, asked, folders>>
      PROVE  Sourced'
  BY <1>q, GoesOn, MovesSourced
<1> USE DEF At, Only, Become, fileVars, folderVars, drainVars, NoOp
<1>1. CASE Finish(t) \/ CopyFailed(t) \/ DeleteFails(t)
  <2>1. Only(t) /\ op'[t].kind = "none" /\ op'[t].at = "finish" /\ op[t].at \notin {"cover", "settle"}
    BY <1>1, <1>a, <1>b DEF Finish, CopyFailed, DeleteFails, End
  <2>2. UNCHANGED <<tracked, direct, via, asked, folders>>
    BY <1>1 DEF Finish, CopyFailed, DeleteFails
  <2> QED
    BY <2>1, <2>2, <1>q DEF Walks
<1>2. CASE Interrupt(t)
  <2>1. Only(t) /\ op'[t].kind = "none" /\ op'[t].at = "finish" /\ op[t].at \notin {"cover", "settle"}
    BY <1>2, <1>a DEF Interrupt, Die, Alone, OneByOne, HalfDone, Recomputing
  <2>2. UNCHANGED <<tracked, direct, via, asked, folders>>
    BY <1>2 DEF Interrupt
  <2> QED
    BY <2>1, <2>2, <1>q DEF Walks
<1>3. ASSUME NEW f \in Files, ScanChanged(t, f) \/ ScanSame(t, f) \/ MirrorFile(t, f)
      PROVE  Sourced'
  <2>1. op[t].at = "visit"
    BY <1>3 DEF ScanChanged, ScanChange, CommandChange, ScanSame, MirrorFile, Visiting
  <2>2. /\ Only(t) /\ op'[t].at \in {"visit", "hold"} /\ op'[t].kind = op[t].kind
        /\ op'[t].folder = op[t].folder /\ op'[t].todo \subseteq op[t].todo
    <3>1. CASE ScanSame(t, f)
      BY <3>1, <2>1, <1>a DEF ScanSame, Op
    <3>2. CASE ScanChanged(t, f) \/ MirrorFile(t, f)
      <4>1. PICK action : InHand(t, f, action)
        BY <3>2 DEF ScanChanged, ScanChange, CommandChange, Record, MirrorFile
      <4> QED
        BY <4>1, <1>a DEF InHand, Op
    <3> QED
      BY <1>3, <3>1, <3>2
  <2>3. UNCHANGED <<tracked, direct, via, asked, folders>>
    BY <1>3 DEF ScanChanged, ScanChange, CommandChange, Record, ScanSame, MirrorFile
  <2> QED
    BY <2>1, <2>2, <2>3, <1>q
<1>4. CASE Queue(t)
  <2>1. /\ Only(t) /\ op[t].at = "hold" /\ op'[t].at \in {"visit", "finish"}
        /\ \/ op'[t].kind = "none"
           \/ op'[t].kind = op[t].kind /\ op'[t].folder = op[t].folder /\ op'[t].todo = op[t].todo
    BY <1>4, <1>a DEF Queue, AfterQueue, Op
  <2>2. UNCHANGED <<tracked, direct, via, asked, folders>>
    BY <1>4 DEF Queue
  <2> QED
    BY <2>1, <2>2, <1>q DEF Walks
<1>5. CASE QueueFails(t) \/ ScanFails(t)
  <2>1. /\ Only(t) /\ op[t].at \in {"visit", "hold"} /\ op'[t].at = "finish"
        /\ \/ op'[t].kind = "none"
           \/ op'[t].kind = op[t].kind /\ op'[t].folder = op[t].folder /\ op'[t].todo = {}
    <3>1. op[t].at \in {"visit", "hold"} /\ op' = [op EXCEPT ![t] = GiveUp(t)]
      BY <1>5 DEF QueueFails, ScanFails
    <3>2. CASE op[t].kind = "scan"
      BY <3>1, <3>2, <1>a DEF GiveUp, Op
    <3>3. CASE op[t].kind # "scan"
      BY <3>1, <3>3, <1>a DEF GiveUp
    <3> QED
      BY <3>2, <3>3
  <2>2. UNCHANGED <<tracked, direct, via, asked, folders>>
    BY <1>5 DEF QueueFails, ScanFails
  <2> QED
    BY <2>1, <2>2, <1>q DEF Walks
<1>6. CASE AllVisited(t)
  <2>1. /\ Only(t) /\ op[t].at = "visit" /\ op'[t].at \in {"clear", "finish"}
        /\ \/ op'[t].kind = "none"
           \/ op'[t].kind = op[t].kind /\ op'[t].folder = op[t].folder /\ op'[t].todo = op[t].todo
    BY <1>6, <1>a DEF AllVisited, Op
  <2>2. UNCHANGED <<tracked, direct, via, asked, folders>>
    BY <1>6 DEF AllVisited
  <2> QED
    BY <2>1, <2>2, <1>q DEF Walks
<1>7. CASE FileFailed(t) \/ FileMirrored(t) \/ CompleteRows(t)
  <2>1. /\ Only(t) /\ op[t].at \in {"hold", "done"} /\ op'[t].at \in {"visit", "done"}
        /\ op'[t].kind = op[t].kind /\ op'[t].folder = op[t].folder /\ op'[t].todo = op[t].todo
    <3>1. CASE FileFailed(t)
      BY <3>1, <1>a DEF FileFailed, Op
    <3>2. CASE FileMirrored(t)
      BY <3>2, <1>a DEF FileMirrored, Op
    <3>3. CASE CompleteRows(t)
      BY <3>3, <1>a DEF CompleteRows, Op
    <3> QED
      BY <1>7, <3>1, <3>2, <3>3
  <2>2. UNCHANGED <<tracked, direct, via, asked, folders>>
    BY <1>7 DEF FileFailed, FileMirrored, CompleteRows
  <2> QED
    BY <2>1, <2>2, <1>q
<1> HIDE DEF At, Only, Become, NoOp
<1> QED
  BY <1>1, <1>2, <1>3, <1>4, <1>5, <1>6, <1>7, RemoveSourced, NewSourced, RecomputeSourced, ListSourced, DeleteSourced
     DEF Work

\* Unless two recomputations or two deletions overlap, a recomputation is killed, or a command
\* works on a folder beside another operation, no file that came with a folder is taken for one
\* that the user tracked (recompute_folder_provenance_for_drive, untrack_folder_cascade): it
\* would outlive its folder.
THEOREM DirectFilesWereAsked ==
  ASSUME OneByOne
  PROVE  Spec => []DirectWasAsked
<1>1. Init => SInv
  BY HeldInit DEF SInv, Sourced, Init, DirectWasAsked, OneAtATime, WalksCovered, SourcesCovered, SourcesKnown,
                  ListsWhole, Recomputing, Listed, At, Walks, NoOp
<1>2. SInv /\ [Next]_vars => SInv'
  <2>a. "command beside operation" \notin Allowed
    BY DEF OneByOne
  <2>1. ASSUME SInv, Next
        PROVE  SInv'
    <3>1. HInv'
      BY <2>1, <2>a, HInvStep DEF SInv
    <3>2. Sourced'
      BY <2>1, RequestsSourced, WorkSourced, WorkerSourced DEF Next
    <3> QED
      BY <3>1, <3>2 DEF SInv
  <2>2. ASSUME SInv, UNCHANGED vars
        PROVE  SInv'
    <3>1. HInv'
      BY <2>2, <2>a, HInvStep DEF SInv
    <3>2. UNCHANGED <<tracked, direct, via, asked, folders, op>>
      BY <2>2 DEF vars, fileVars, folderVars
    <3>3. \A s \in Threads : Quiet(s)
      BY <2>2, <3>2, IdleQuiet
    <3>4. Sourced'
      BY <2>2, <3>2, <3>3, QuietSourced DEF SInv, Sourced, DirectWasAsked
    <3> QED
      BY <3>1, <3>4 DEF SInv
  <2> QED
    BY <2>1, <2>2
<1>3. SInv => DirectWasAsked
  BY DEF SInv, Sourced
<1> QED
  BY <1>1, <1>2, <1>3, PTL DEF Spec
==============================================================================
