---------------------------- MODULE DatabaseProofs ----------------------------
(***************************************************************************)
(* Theorems about DatabaseBackup, for any destinations, runs and bounds,   *)
(* and about DatabaseRestore, for any number of commits, restores, backups *)
(* and kills, and any order of both processes' steps.                      *)
(*                                                                         *)
(* A run of backups works from rows that it read when it began: all        *)
(* through a run, rows are edited and removed, copies are damaged, and the *)
(* other kind of run replaces copies and writes rows.  The invariants say  *)
(* what of its reading stays true in the meantime.                         *)
(***************************************************************************)
EXTENDS DatabaseBackup, DatabaseRestore, TLAPS, WellFoundedInduction

(* The invariants *)

BackupPlaces == {"snapshot", "write", "copied", "failed"}
CheckPlaces == {"inspect", "settle", "repair", "repaired", "spoiled"}

\* A run that is under way has a row in hand; one that writes has its snapshot, and one that
\* repairs its source.
WellShaped(o) ==
    /\ o.at = "idle" <=> o.kind = "none"
    /\ o.at \in BackupPlaces <=> o.kind = "backup"
    /\ o.at \in CheckPlaces <=> o.kind = "check"
    /\ o.at # "idle" => o.todo # {}
    /\ o.at \in {"write", "copied", "failed"} => o.snap \in Versions
    /\ o.at \in {"repair", "repaired", "spoiled"} => o.source \in Dirs
GoodOp == {o \in Op : WellShaped(o)}

Items(r) == op[r].todo \cup op[r].seen

\* The rows that a run has listed were all created, and none is listed twice.
ItemsKnown == \A r \in Runners : \A x \in Items(r) : row[x.id] # Unused
ItemsApart ==
    \A r \in Runners :
        /\ \A x, y \in Items(r) : x.id = y.id => x = y
        /\ op[r].todo \cap op[r].seen = {}

BInv ==
    /\ TypeOK
    /\ op \in [Runners -> GoodOp]
    /\ ItemsKnown
    /\ ItemsApart

Only(kind) == \A r, s \in Runners : op[r].kind = kind /\ op[s].kind = kind => r = s

\* A repair no row tells of yet is that of a row that is marked as broken ...
UnreportedMarked == \A i \in unreported : Live(i) /\ row[i].status \in InError
\* ... a check has read the marker, unless the repair is the one it has just made ...
MarkerRead ==
    \A r \in Runners : \A x \in Items(r) :
        op[r].kind = "check" /\ x.id \in unreported
            => x.was \in InError \/ (op[r].at \in {"repaired", "spoiled"} /\ x = Hand(r))
\* ... and the marker is there before the repair.
MarkedFirst ==
    \A r \in Runners : At(r, "repair") /\ Live(Hand(r).id) => row[Hand(r).id].status \in InError

MarkInv ==
    /\ BInv
    /\ Only("check")
    /\ UnreportedMarked
    /\ MarkerRead
    /\ MarkedFirst

\* No row dates a backup that is newer than the database, nor than the snapshot being copied ...
DatesPast == \A i \in Ids : Live(i) => row[i].last <= live
SnapshotNewest ==
    \A r \in Runners : op[r].at \in {"write", "copied", "failed"} =>
        /\ op[r].snap <= live
        /\ \A i \in Ids : Live(i) => row[i].last <= op[r].snap
\* ... a copy that was made is there until it is damaged or a repair replaces it ...
CopyStands ==
    \A r \in Runners : At(r, "copied") /\ Healthy(file[Hand(r).dir])
        => file[Hand(r).dir] = op[r].snap \/ Hand(r).dir \in fromPeer
\* ... and is in the directory of its row.
PlaceKept ==
    \A r \in Runners : op[r].kind = "backup" =>
        \A x \in op[r].todo : Live(x.id) => row[x.id].dir = x.dir

DateInv ==
    /\ BInv
    /\ Only("backup")
    /\ LastBackupTrue
    /\ DatesPast
    /\ SnapshotNewest
    /\ CopyStands
    /\ PlaceKept
-----------------------------------------------------------------------------
(* Lists of rows *)

LEMMA Least ==
    ASSUME NEW S \in SUBSET Nat, S # {}
    PROVE  \E m \in S : \A k \in S : m <= k
<1> DEFINE R == {ss \in Nat \X Nat : ss[1] < ss[2]}
<1>1. IsWellFoundedOn(R, Nat)
  BY NatLessThanWellFounded DEF OpToRel
<1> HIDE DEF R
<1>2. PICK m \in S : \A k \in S : <<k, m>> \notin R
  BY <1>1, WFMin
<1>3. \A k \in S : ~(k < m)
  BY <1>2 DEF R
<1> QED
  BY <1>3

\* A list that is not empty has a first row.
LEMMA FirstIn ==
    ASSUME NEW S \in SUBSET Item, S # {}
    PROVE  First(S) \in S
<1> DEFINE I == {x.id : x \in S}
<1>1. I \in SUBSET Nat /\ I # {}
  BY ConstantsOK DEF Item, Ids
<1>2. PICK m \in I : \A k \in I : m <= k
  BY <1>1, Least
<1>3. PICK x \in S : x.id = m
  BY <1>2
<1>4. \A y \in S : x.id <= y.id
  BY <1>2, <1>3
<1> QED
  BY <1>3, <1>4 DEF First

LEMMA HandIn ==
    ASSUME NEW r \in Runners, op[r] \in GoodOp, op[r].at # "idle"
    PROVE  /\ Hand(r) \in op[r].todo
           /\ Hand(r) \in Items(r)
           /\ Hand(r) \in Item
           /\ Hand(r).id \in Ids /\ Hand(r).dir \in Dirs
           /\ Hand(r).was \in Statuses
<1>1. op[r].todo \in SUBSET Item /\ op[r].todo # {}
  BY DEF GoodOp, Op, WellShaped
<1>2. Hand(r) \in op[r].todo
  BY <1>1, FirstIn DEF Hand
<1>3. Hand(r) \in Item
  BY <1>1, <1>2
<1> QED
  BY <1>2, <1>3 DEF Item, Items

\* The rows a run starts with.
LEMMA EnabledItems ==
    ASSUME TypeOK
    PROVE  /\ Enabled \in SUBSET Item
           /\ \A x \in Enabled : Live(x.id) /\ x.dir = row[x.id].dir /\ x.was = row[x.id].status
           /\ \A x, y \in Enabled : x.id = y.id => x = y
<1>1. \A i \in Ids : Live(i) => row[i] \in Config
  BY DEF TypeOK, Live
<1>2. \A x \in Enabled : \E i \in Ids :
        /\ Live(i)
        /\ x = [id |-> i, dir |-> row[i].dir, was |-> row[i].status, healthy |-> FALSE]
  BY DEF Enabled
<1>3. ASSUME NEW x \in Enabled
      PROVE  x \in Item /\ Live(x.id) /\ x.dir = row[x.id].dir /\ x.was = row[x.id].status
  <2>1. PICK i \in Ids :
            /\ Live(i)
            /\ x = [id |-> i, dir |-> row[i].dir, was |-> row[i].status, healthy |-> FALSE]
    BY <1>2
  <2>2. row[i] \in Config
    BY <1>1, <2>1
  <2>3. row[i].dir \in Dirs /\ row[i].status \in Statuses
    BY <2>2 DEF Config
  <2>4. x \in Item
    BY <2>1, <2>3 DEF Item
  <2> QED
    BY <2>1, <2>4
<1>4. ASSUME NEW x \in Enabled, NEW y \in Enabled, x.id = y.id
      PROVE  x = y
  <2>1. PICK i \in Ids :
            x = [id |-> i, dir |-> row[i].dir, was |-> row[i].status, healthy |-> FALSE]
    BY <1>2
  <2>2. PICK j \in Ids :
            y = [id |-> j, dir |-> row[j].dir, was |-> row[j].status, healthy |-> FALSE]
    BY <1>2
  <2> QED
    BY <2>1, <2>2, <1>4
<1> QED
  BY <1>3, <1>4
-----------------------------------------------------------------------------
(* What a step does to the runs *)

LEMMA BecomeGood ==
    ASSUME NEW r \in Runners, op \in [Runners -> GoodOp], NEW o \in GoodOp, Become(r, o)
    PROVE  /\ op' \in [Runners -> GoodOp]
           /\ op'[r] = o
           /\ \A s \in Runners : s # r => op'[s] = op[s]
  BY DEF Become

LEMMA NoOpGood == NoOp \in GoodOp
  BY DEF NoOp, GoodOp, Op, WellShaped, BackupPlaces, CheckPlaces, Never

\* A run goes on with the rest of its rows or ends.
LEMMA NextRowGood ==
    ASSUME NEW r \in Runners, op \in [Runners -> GoodOp], NEW place,
           \/ op[r].at \in {"copied", "failed"} /\ place = "write"
           \/ op[r].at \in CheckPlaces /\ place = "settle",
           NextRow(r, place)
    PROVE  /\ op' \in [Runners -> GoodOp]
           /\ \A s \in Runners : s # r => op'[s] = op[s]
           /\ \/ op'[r] = NoOp
              \/ op'[r] = [op[r] EXCEPT !.at = place, !.todo = Rest(r)]
<1> DEFINE o == [op[r] EXCEPT !.at = place, !.todo = Rest(r)]
<1>1. CASE Rest(r) = {}
  <2>1. Become(r, NoOp)
    BY <1>1 DEF NextRow
  <2> QED
    BY <2>1, BecomeGood, NoOpGood
<1>2. CASE Rest(r) # {}
  <2>1. Rest(r) \subseteq op[r].todo
    BY DEF Rest
  <2>2. op[r] \in GoodOp
    OBVIOUS
  <2>3. o \in Op
    BY <2>1, <2>2 DEF GoodOp, Op, CheckPlaces
  <2>4. WellShaped(o)
    BY <2>2, <1>2 DEF GoodOp, Op, WellShaped, BackupPlaces, CheckPlaces
  <2>5. Become(r, o)
    BY <1>2 DEF NextRow
  <2> HIDE DEF o
  <2>6. o \in GoodOp
    BY <2>3, <2>4 DEF GoodOp
  <2> QED
    BY <2>5, <2>6, BecomeGood DEF o
<1> QED
  BY <1>1, <1>2

\* A run that moves on within a row.
LEMMA PlaceGood ==
    ASSUME NEW r \in Runners, op \in [Runners -> GoodOp], NEW place,
           \/ op[r].at = "write" /\ place \in {"copied", "failed"}
           \/ op[r].at = "settle" /\ op[r].source # NoDir /\ place = "repair"
           \/ op[r].at = "repair" /\ place \in {"repaired", "spoiled"},
           Become(r, [op[r] EXCEPT !.at = place])
    PROVE  /\ op' \in [Runners -> GoodOp]
           /\ \A s \in Runners : s # r => op'[s] = op[s]
           /\ op'[r] = [op[r] EXCEPT !.at = place]
<1> DEFINE o == [op[r] EXCEPT !.at = place]
<1>1. op[r] \in GoodOp
  OBVIOUS
<1>2. o \in Op
  BY <1>1 DEF GoodOp, Op
<1>3. WellShaped(o)
  BY <1>1 DEF GoodOp, Op, WellShaped, BackupPlaces, CheckPlaces
<1> HIDE DEF o
<1>4. o \in GoodOp
  BY <1>2, <1>3 DEF GoodOp
<1> QED
  BY <1>4, BecomeGood DEF o

\* What a step of r leaves of the runs: the others, and the kind and the lists of r.
Onward(r) ==
    /\ op' \in [Runners -> GoodOp]
    /\ \A s \in Runners : s # r => op'[s] = op[s]
    /\ op'[r].kind \in {op[r].kind, "none"}
    /\ op'[r].todo \subseteq op[r].todo
    /\ op'[r].seen \subseteq op[r].seen

LEMMA EndsOnward ==
    ASSUME NEW r \in Runners, op \in [Runners -> GoodOp], Become(r, NoOp)
    PROVE  Onward(r) /\ op'[r] = NoOp
<1>1. /\ op' \in [Runners -> GoodOp]
      /\ op'[r] = NoOp
      /\ \A s \in Runners : s # r => op'[s] = op[s]
  BY BecomeGood, NoOpGood
<1> QED
  BY <1>1 DEF Onward, NoOp

LEMMA NextRowOnward ==
    ASSUME NEW r \in Runners, op \in [Runners -> GoodOp], NEW place,
           \/ op[r].at \in {"copied", "failed"} /\ place = "write"
           \/ op[r].at \in CheckPlaces /\ place = "settle",
           NextRow(r, place)
    PROVE  /\ Onward(r)
           /\ \/ op'[r] = NoOp
              \/ /\ op'[r].at = place
                 /\ op'[r].kind = op[r].kind
                 /\ op'[r].todo = Rest(r)
                 /\ op'[r].seen = op[r].seen
                 /\ op'[r].snap = op[r].snap
                 /\ op'[r].source = op[r].source
<1>1. /\ op' \in [Runners -> GoodOp]
      /\ \A s \in Runners : s # r => op'[s] = op[s]
      /\ \/ op'[r] = NoOp
         \/ op'[r] = [op[r] EXCEPT !.at = place, !.todo = Rest(r)]
  BY NextRowGood
<1>2. CASE op'[r] = NoOp
  BY <1>1, <1>2 DEF Onward, NoOp
<1>3. CASE op'[r] = [op[r] EXCEPT !.at = place, !.todo = Rest(r)]
  <2>1. op[r] \in Op
    BY DEF GoodOp
  <2>2. /\ op'[r].at = place
        /\ op'[r].kind = op[r].kind
        /\ op'[r].todo = Rest(r)
        /\ op'[r].seen = op[r].seen
        /\ op'[r].snap = op[r].snap
        /\ op'[r].source = op[r].source
    BY <2>1, <1>3 DEF Op
  <2> QED
    BY <1>1, <2>2 DEF Onward, Rest
<1> QED
  BY <1>1, <1>2, <1>3

LEMMA PlaceOnward ==
    ASSUME NEW r \in Runners, op \in [Runners -> GoodOp], NEW place,
           \/ op[r].at = "write" /\ place \in {"copied", "failed"}
           \/ op[r].at = "settle" /\ op[r].source # NoDir /\ place = "repair"
           \/ op[r].at = "repair" /\ place \in {"repaired", "spoiled"},
           Become(r, [op[r] EXCEPT !.at = place])
    PROVE  /\ Onward(r)
           /\ op'[r].at = place
           /\ op'[r].kind = op[r].kind
           /\ op'[r].todo = op[r].todo
           /\ op'[r].seen = op[r].seen
           /\ op'[r].snap = op[r].snap
           /\ op'[r].source = op[r].source
<1>1. /\ op' \in [Runners -> GoodOp]
      /\ \A s \in Runners : s # r => op'[s] = op[s]
      /\ op'[r] = [op[r] EXCEPT !.at = place]
  BY PlaceGood
<1>2. op[r] \in Op
  BY DEF GoodOp
<1>3. /\ op'[r].at = place
      /\ op'[r].kind = op[r].kind
      /\ op'[r].todo = op[r].todo
      /\ op'[r].seen = op[r].seen
      /\ op'[r].snap = op[r].snap
      /\ op'[r].source = op[r].source
  BY <1>1, <1>2 DEF Op
<1> QED
  BY <1>1, <1>3 DEF Onward

LEMMA SnapshotOnward ==
    ASSUME NEW r \in Runners, TypeOK, op \in [Runners -> GoodOp], TakeSnapshot(r)
    PROVE  /\ Onward(r)
           /\ op'[r].at = "write" /\ op'[r].snap = live
           /\ op'[r].kind = op[r].kind /\ op'[r].todo = op[r].todo /\ op'[r].seen = op[r].seen
<1> DEFINE o == [op[r] EXCEPT !.at = "write", !.snap = live]
<1>1. op[r] \in Op /\ op[r] \in GoodOp
  BY DEF GoodOp
<1>2. o \in Op
  BY <1>1 DEF Op, TypeOK
<1>3. WellShaped(o)
  BY <1>1 DEF GoodOp, Op, WellShaped, BackupPlaces, CheckPlaces, TypeOK, TakeSnapshot, At
<1>4. /\ o.at = "write" /\ o.snap = live
      /\ o.kind = op[r].kind /\ o.todo = op[r].todo /\ o.seen = op[r].seen
  BY <1>1 DEF Op
<1>5. Become(r, o)
  BY DEF TakeSnapshot
<1> HIDE DEF o
<1>6. o \in GoodOp
  BY <1>2, <1>3 DEF GoodOp
<1>7. /\ op' \in [Runners -> GoodOp]
      /\ op'[r] = o
      /\ \A s \in Runners : s # r => op'[s] = op[s]
  BY <1>5, <1>6, BecomeGood
<1> QED
  BY <1>4, <1>7 DEF Onward

\* The row in hand, as it has been inspected.
Inspected(r) == [Hand(r) EXCEPT !.healthy = Healthy(file[Hand(r).dir])]

LEMMA InspectOnward ==
    ASSUME NEW r \in Runners, TypeOK, op \in [Runners -> GoodOp], Inspect(r)
    PROVE  /\ op' \in [Runners -> GoodOp]
           /\ \A s \in Runners : s # r => op'[s] = op[s]
           /\ op'[r].kind = op[r].kind
           /\ op'[r].at \in {"inspect", "settle"}
           /\ Inspected(r) \in Item
           /\ Inspected(r).id = Hand(r).id /\ Inspected(r).was = Hand(r).was
           /\ \/ /\ op'[r].todo = Rest(r)
                 /\ op'[r].seen = op[r].seen \cup {Inspected(r)}
              \/ /\ op'[r].todo = op[r].seen \cup {Inspected(r)}
                 /\ op'[r].seen = {}
<1> DEFINE seen == op[r].seen \cup {Inspected(r)}
           o1 == [op[r] EXCEPT !.todo = Rest(r), !.seen = seen]
           o2 == [op[r] EXCEPT !.at = "settle", !.todo = seen, !.seen = {}, !.source = Source(seen)]
<1>1. op[r] \in Op /\ op[r] \in GoodOp /\ op[r].at = "inspect"
  BY DEF GoodOp, Inspect, At
<1>2. Hand(r) \in Item
  BY <1>1, HandIn
<1>3. Inspected(r) \in Item /\ Inspected(r).id = Hand(r).id /\ Inspected(r).was = Hand(r).was
  <2> DEFINE h == Healthy(file[Hand(r).dir])
  <2>1. h \in BOOLEAN
    BY DEF Healthy
  <2>2. Inspected(r) = [Hand(r) EXCEPT !.healthy = h]
    BY DEF Inspected
  <2> HIDE DEF h
  <2>3. Hand(r) \in [id : Ids, dir : Dirs, was : Statuses, healthy : BOOLEAN]
    BY <1>2 DEF Item
  <2> QED
    BY <2>1, <2>2, <2>3 DEF Item
<1>4. seen \in SUBSET Item /\ seen # {}
  BY <1>1, <1>3 DEF Op
<1>5. Source(seen) \in Dirs \cup {NoDir}
  <2> DEFINE healthy == {x \in seen : x.healthy}
  <2>1. CASE healthy = {}
    BY <2>1 DEF Source
  <2>2. CASE healthy # {}
    <3>1. First(healthy) \in Item
      BY <2>2, <1>4, FirstIn
    <3> QED
      BY <2>2, <3>1 DEF Source, Item
  <2> QED
    BY <2>1, <2>2
<1>6. Become(r, IF Rest(r) # {} THEN o1 ELSE o2)
  BY DEF Inspect, Inspected
<1> HIDE DEF seen
<1>7. CASE Rest(r) # {}
  <2>1. Rest(r) \in SUBSET Item
    BY <1>1 DEF Rest, Op
  <2>2. o1 \in Op
    BY <2>1, <1>1, <1>4 DEF Op
  <2>3. WellShaped(o1)
    BY <1>1, <1>7 DEF GoodOp, Op, WellShaped, BackupPlaces, CheckPlaces
  <2>4. /\ o1.kind = op[r].kind /\ o1.at = "inspect"
        /\ o1.todo = Rest(r) /\ o1.seen = seen
    BY <1>1 DEF Op
  <2>5. Become(r, o1)
    BY <1>6, <1>7
  <2> HIDE DEF o1
  <2>6. o1 \in GoodOp
    BY <2>2, <2>3 DEF GoodOp
  <2>7. /\ op' \in [Runners -> GoodOp]
        /\ op'[r] = o1
        /\ \A s \in Runners : s # r => op'[s] = op[s]
    BY <2>5, <2>6, BecomeGood
  <2> QED
    BY <2>4, <2>7, <1>3 DEF seen
<1>8. CASE Rest(r) = {}
  <2>2. o2 \in Op
    BY <1>1, <1>4, <1>5 DEF Op
  <2>3. WellShaped(o2)
    BY <1>1, <1>4 DEF GoodOp, Op, WellShaped, BackupPlaces, CheckPlaces
  <2>4. /\ o2.kind = op[r].kind /\ o2.at = "settle"
        /\ o2.todo = seen /\ o2.seen = {}
    BY <1>1 DEF Op
  <2>5. Become(r, o2)
    BY <1>6, <1>8
  <2> HIDE DEF o2
  <2>6. o2 \in GoodOp
    BY <2>2, <2>3 DEF GoodOp
  <2>7. /\ op' \in [Runners -> GoodOp]
        /\ op'[r] = o2
        /\ \A s \in Runners : s # r => op'[s] = op[s]
    BY <2>5, <2>6, BecomeGood
  <2> QED
    BY <2>4, <2>7, <1>3 DEF seen
<1> QED
  BY <1>7, <1>8

\* A run that starts has listed the enabled rows and seen none.
LEMMA StartGood ==
    ASSUME NEW r \in Runners, TypeOK, op \in [Runners -> GoodOp], Start(r)
    PROVE  /\ op' \in [Runners -> GoodOp]
           /\ \A s \in Runners : s # r => op'[s] = op[s]
           /\ op'[r].todo = Enabled /\ op'[r].seen = {}
           /\ \/ op'[r].kind = "backup" /\ op'[r].at = "snapshot" /\ Alone("two backups", "backup")
              \/ op'[r].kind = "check" /\ op'[r].at = "inspect" /\ Alone("two checks", "check")
<1> DEFINE o(kind, place) == [NoOp EXCEPT !.kind = kind, !.at = place, !.todo = Enabled]
<1>1. Enabled \in SUBSET Item
  BY EnabledItems
<1>2. PICK kind, place :
        /\ Become(r, o(kind, place))
        /\ Enabled # {}
        /\ \/ kind = "backup" /\ place = "snapshot" /\ Alone("two backups", "backup")
           \/ kind = "check" /\ place = "inspect" /\ Alone("two checks", "check")
  BY DEF Start, StartBackup, StartCheck
<1>3. /\ o(kind, place).kind = kind /\ o(kind, place).at = place
      /\ o(kind, place).todo = Enabled /\ o(kind, place).seen = {}
  BY DEF NoOp
<1>4. o(kind, place) \in Op
  BY <1>1, <1>2 DEF NoOp, Op, Never
<1>5. WellShaped(o(kind, place))
  BY <1>2, <1>3 DEF WellShaped, BackupPlaces, CheckPlaces
<1> HIDE DEF o
<1>6. o(kind, place) \in GoodOp
  BY <1>4, <1>5 DEF GoodOp
<1>7. /\ op' \in [Runners -> GoodOp]
      /\ op'[r] = o(kind, place)
      /\ \A s \in Runners : s # r => op'[s] = op[s]
  BY <1>2, <1>6, BecomeGood
<1> QED
  BY <1>2, <1>3, <1>7

\* Every other step of a run.
LEMMA StepOnward ==
    ASSUME NEW r \in Runners, TypeOK, op \in [Runners -> GoodOp],
           (Step(r) /\ ~Inspect(r)) \/ Kill(r)
    PROVE  Onward(r)
<1>0. op[r] \in GoodOp
  OBVIOUS
<1>1. CASE TakeSnapshot(r)
  BY <1>1, SnapshotOnward
<1>2. CASE SnapshotFails(r) \/ Kill(r)
  BY <1>2, EndsOnward DEF SnapshotFails, Kill
<1>3. CASE WriteCopy(r)
  BY <1>3, PlaceOnward DEF WriteCopy, At
<1>4. CASE CopyFails(r)
  BY <1>4, PlaceOnward DEF CopyFails, At
<1>5. CASE RecordCopy(r)
  BY <1>5, NextRowOnward DEF RecordCopy
<1>6. CASE SettleHealthy(r)
  BY <1>6, NextRowOnward DEF SettleHealthy, Settling, At, CheckPlaces
<1>7. CASE SettleBroken(r)
  BY <1>7, NextRowOnward DEF SettleBroken, Settling, At, CheckPlaces
<1>8. CASE MarkBroken(r)
  BY <1>8, NextRowOnward, PlaceOnward DEF MarkBroken, Settling, At, CheckPlaces
<1>9. CASE Repair(r)
  BY <1>9, PlaceOnward DEF Repair, At
<1>10. CASE RepairFails(r)
  BY <1>10, PlaceOnward DEF RepairFails, At
<1>11. CASE ReportRepair(r)
  BY <1>11, NextRowOnward DEF ReportRepair, At, CheckPlaces
<1> QED
  BY <1>1, <1>2, <1>3, <1>4, <1>5, <1>6, <1>7, <1>8, <1>9, <1>10, <1>11 DEF Step
-----------------------------------------------------------------------------
(* What a step does to the rows *)

\* At most row i is another one, and it is as live as before and in the same directory.
Touches(i) ==
    /\ row' \in [Ids -> Config \cup NoRows]
    /\ \A j \in Ids : j # i => row'[j] = row[j]
    /\ ~Live(i) => row'[i] = row[i]
    /\ Live(i) => row'[i] \in Config /\ row'[i].dir = row[i].dir

LEMMA LiveRow ==
    ASSUME TypeOK, NEW i \in Ids, Live(i)
    PROVE  /\ row[i] \in Config
           /\ row[i].dir \in Dirs /\ row[i].status \in Statuses
           /\ row[i].last \in Versions \cup {Never} /\ row[i].enabled \in BOOLEAN
  BY DEF TypeOK, Live, Config

LEMMA ConfigLives ==
    ASSUME NEW c \in Config
    PROVE  c \notin NoRows /\ c # Unused /\ c # Deleted
  BY NoRowIsConfig DEF NoRows

LEMMA WriteRow ==
    ASSUME TypeOK, NEW i \in Ids, NEW new, Live(i) => new \in Config /\ new.dir = row[i].dir,
           Write(i, new)
    PROVE  /\ Touches(i)
           /\ Live(i) => row'[i] = new
           /\ events' = events
<1>1. row \in [Ids -> Config \cup NoRows]
  BY DEF TypeOK
<1>2. row' = [row EXCEPT ![i] = IF Live(i) THEN new ELSE row[i]] /\ events' = events
  BY DEF Write
<1>3. /\ \A j \in Ids : j # i => row'[j] = row[j]
      /\ row'[i] = IF Live(i) THEN new ELSE row[i]
  BY <1>1, <1>2
<1>4. row' \in [Ids -> Config \cup NoRows]
  BY <1>1, <1>2
<1> QED
  BY <1>2, <1>3, <1>4 DEF Touches

LEMMA WriteStatusRow ==
    ASSUME TypeOK, NEW i \in Ids, NEW status \in Statuses, NEW error \in BOOLEAN,
           WriteStatus(i, status, error)
    PROVE  /\ Touches(i)
           /\ Live(i) => row'[i].status = status /\ row'[i].last = row[i].last
           /\ events' = events
<1> DEFINE new == [row[i] EXCEPT !.status = status, !.error = error]
<1>1. Write(i, new)
  BY DEF WriteStatus
<1>2. ASSUME Live(i)
      PROVE  /\ new \in Config /\ new.dir = row[i].dir
             /\ new.status = status /\ new.last = row[i].last
  BY <1>2, LiveRow DEF Config
<1> HIDE DEF new
<1> QED
  BY <1>1, <1>2, WriteRow

LEMMA Untouched ==
    ASSUME TypeOK, NEW i \in Ids, UNCHANGED row
    PROVE  Touches(i)
<1>1. Live(i) => row[i] \in Config
  BY LiveRow
<1> QED
  BY <1>1 DEF TypeOK, Touches

LEMMA EventType ==
    ASSUME TypeOK, Event
    PROVE  events' \in 0..MaxEvents
  BY ConstantsOK DEF TypeOK, Event

\* What a backup writes: a date, or an error; the status is a check's.
LEMMA RecordRow ==
    ASSUME BInv, NEW r \in Runners, RecordCopy(r)
    PROVE  /\ Hand(r).id \in Ids
           /\ Touches(Hand(r).id)
           /\ events' \in 0..MaxEvents
           /\ Live(Hand(r).id) => row'[Hand(r).id].status = row[Hand(r).id].status
           /\ Live(Hand(r).id) /\ row'[Hand(r).id].last # row[Hand(r).id].last
                => At(r, "copied") /\ row'[Hand(r).id].last = op[r].snap
<1> DEFINE i == Hand(r).id
           dated == [row[i] EXCEPT !.last = op[r].snap, !.error = FALSE]
           failed == [row[i] EXCEPT !.error = TRUE]
<1>1. TypeOK /\ op[r] \in GoodOp /\ op[r].at \in {"copied", "failed"}
  BY DEF BInv, RecordCopy
<1>2. i \in Ids /\ op[r].snap \in Versions
  BY <1>1, HandIn DEF GoodOp, WellShaped
<1>3. events \in 0..MaxEvents
  BY <1>1 DEF TypeOK
<1>4. CASE At(r, "copied") /\ Write(i, dated)
  <2>1. ASSUME Live(i)
        PROVE  /\ dated \in Config /\ dated.dir = row[i].dir
               /\ dated.last = op[r].snap /\ dated.status = row[i].status
    <3>1. row[i] \in Config
      BY <1>1, <1>2, <2>1, LiveRow
    <3> HIDE DEF i
    <3> QED
      BY <1>2, <3>1 DEF Config
  <2> HIDE DEF i, dated
  <2>2. Touches(i) /\ (Live(i) => row'[i] = dated) /\ events' = events
    BY <1>1, <1>2, <1>4, <2>1, WriteRow
  <2>3. Live(i) => row'[i].status = row[i].status /\ row'[i].last = op[r].snap
    BY <2>1, <2>2
  <2> QED
    BY <1>2, <1>3, <1>4, <2>2, <2>3 DEF i
<1>5. CASE At(r, "failed") /\ Write(i, failed)
  <2>1. ASSUME Live(i)
        PROVE  /\ failed \in Config /\ failed.dir = row[i].dir
               /\ failed.last = row[i].last /\ failed.status = row[i].status
    <3>1. row[i] \in Config
      BY <1>1, <1>2, <2>1, LiveRow
    <3> HIDE DEF i
    <3> QED
      BY <3>1 DEF Config
  <2> HIDE DEF i, failed
  <2>2. Touches(i) /\ (Live(i) => row'[i] = failed) /\ events' = events
    BY <1>1, <1>2, <1>5, <2>1, WriteRow
  <2>3. Live(i) => row'[i].status = row[i].status /\ row'[i].last = row[i].last
    BY <2>1, <2>2
  <2> QED
    BY <1>2, <1>3, <2>2, <2>3 DEF i
<1>6. CASE Lost
  <2>1. UNCHANGED row /\ Event
    BY <1>6 DEF Lost
  <2> QED
    BY <1>1, <1>2, <2>1, Untouched, EventType
<1>7. \/ At(r, "copied") /\ Write(i, dated)
      \/ At(r, "failed") /\ Write(i, failed)
      \/ Lost
  BY DEF RecordCopy
<1> QED
  BY <1>4, <1>5, <1>6, <1>7

\* What a check writes: its status, in the row in hand.
LEMMA CheckRow ==
    ASSUME BInv, NEW r \in Runners,
           SettleHealthy(r) \/ SettleBroken(r) \/ MarkBroken(r) \/ ReportRepair(r)
    PROVE  /\ Hand(r).id \in Ids
           /\ Touches(Hand(r).id)
           /\ events' \in 0..MaxEvents
           /\ Live(Hand(r).id) => row'[Hand(r).id].last = row[Hand(r).id].last
<1>1. TypeOK /\ op[r] \in GoodOp /\ op[r].at # "idle"
  BY DEF BInv, SettleHealthy, SettleBroken, MarkBroken, ReportRepair, Settling, At
<1>2. Hand(r).id \in Ids
  BY <1>1, HandIn
<1>3. events \in 0..MaxEvents
  BY <1>1 DEF TypeOK
<1>4. \/ Lost
      \/ \E status \in Statuses, error \in BOOLEAN : WriteStatus(Hand(r).id, status, error)
  <2>1. CASE SettleHealthy(r)
    BY <2>1 DEF SettleHealthy, HealthyStatus, Statuses
  <2>2. CASE SettleBroken(r) \/ MarkBroken(r)
    BY <2>2 DEF SettleBroken, MarkBroken, Presence, Statuses, InError
  <2>3. CASE ReportRepair(r)
    BY <2>3 DEF ReportRepair, Statuses, InError
  <2> QED
    BY <2>1, <2>2, <2>3
<1>5. CASE Lost
  <2>1. UNCHANGED row /\ Event
    BY <1>5 DEF Lost
  <2> QED
    BY <1>1, <1>2, <2>1, Untouched, EventType
<1>6. CASE \E status \in Statuses, error \in BOOLEAN : WriteStatus(Hand(r).id, status, error)
  BY <1>1, <1>2, <1>3, <1>6, WriteStatusRow
<1> QED
  BY <1>4, <1>5, <1>6

\* Of a row that a user creates, edits, moves or removes the others know nothing.
LEMMA ConfigureRow ==
    ASSUME TypeOK, NEW i \in Ids, Configure(i)
    PROVE  /\ row' \in [Ids -> Config \cup NoRows]
           /\ \A j \in Ids : j # i => row'[j] = row[j]
           /\ row'[i] # Unused
           /\ events' \in 0..MaxEvents
           /\ unreported' \subseteq unreported
           /\ UNCHANGED <<live, file, op, fromPeer>>
           /\ \/ /\ row[i] = Unused /\ row'[i] \in Config
                 /\ row'[i].last = Never /\ row'[i].status = "none" /\ UNCHANGED unreported
              \/ /\ Live(i) /\ row'[i] \in Config
                 /\ row'[i].status = row[i].status /\ row'[i].last = row[i].last
                 /\ UNCHANGED unreported
                 /\ \/ row'[i].dir = row[i].dir
                    \/ /\ "move" \in Allowed \/ row[i].last = Never
                       /\ Alone("move", "backup")
              \/ row[i] # Unused /\ row'[i] = Deleted /\ unreported' = unreported \ {i}
<1>1. row \in [Ids -> Config \cup NoRows] /\ events \in 0..MaxEvents
  BY DEF TypeOK
<1>2. CASE \E d \in Dirs, e \in BOOLEAN : CreateConfig(i, d, e)
  <2>1. PICK d \in Dirs, e \in BOOLEAN : CreateConfig(i, d, e)
    BY <1>2
  <2>2. /\ NewRow(d, e) \in Config
        /\ NewRow(d, e).last = Never /\ NewRow(d, e).status = "none"
    BY DEF NewRow, Config, Statuses
  <2>3. row' = [row EXCEPT ![i] = NewRow(d, e)] /\ row[i] = Unused
    BY <2>1 DEF CreateConfig
  <2>4. UNCHANGED <<live, file, op, events, fromPeer, unreported>>
    BY <2>1 DEF CreateConfig, ghosts
  <2>5. row'[i] = NewRow(d, e) /\ \A j \in Ids : j # i => row'[j] = row[j]
    BY <1>1, <2>3
  <2>6. row' \in [Ids -> Config \cup NoRows]
    BY <1>1, <2>2, <2>3
  <2> QED
    BY <1>1, <2>2, <2>3, <2>4, <2>5, <2>6, ConfigLives
<1>3. CASE SetEnabled(i)
  <2>1. /\ row' = [row EXCEPT ![i] = [row[i] EXCEPT !.enabled = ~row[i].enabled]]
        /\ Live(i) /\ Event
        /\ UNCHANGED <<live, file, op, fromPeer, unreported>>
    BY <1>3 DEF SetEnabled, EditRow, ghosts
  <2>2. row[i] \in Config
    BY <2>1, LiveRow
  <2> DEFINE new == [row[i] EXCEPT !.enabled = ~row[i].enabled]
  <2>3. /\ new \in Config
        /\ new.dir = row[i].dir /\ new.status = row[i].status /\ new.last = row[i].last
    BY <2>2 DEF Config
  <2>4. row' = [row EXCEPT ![i] = new]
    BY <2>1
  <2> HIDE DEF new
  <2>5. row'[i] = new /\ \A j \in Ids : j # i => row'[j] = row[j]
    BY <1>1, <2>4
  <2>6. row' \in [Ids -> Config \cup NoRows]
    BY <1>1, <2>3, <2>4
  <2>7. events' \in 0..MaxEvents
    BY <2>1, EventType
  <2> QED
    BY <2>1, <2>3, <2>5, <2>6, <2>7, ConfigLives
<1>4. CASE \E d \in Dirs : Move(i, d)
  <2>1. PICK d \in Dirs : Move(i, d)
    BY <1>4
  <2>2. /\ row' = [row EXCEPT ![i] = [row[i] EXCEPT !.dir = d]]
        /\ Live(i) /\ Event
        /\ "move" \in Allowed \/ row[i].last = Never
        /\ Alone("move", "backup")
        /\ UNCHANGED <<live, file, op, fromPeer, unreported>>
    BY <2>1 DEF Move, EditRow, ghosts
  <2>3. row[i] \in Config
    BY <2>2, LiveRow
  <2> DEFINE new == [row[i] EXCEPT !.dir = d]
  <2>4. new \in Config /\ new.status = row[i].status /\ new.last = row[i].last
    BY <2>3 DEF Config
  <2>5. row' = [row EXCEPT ![i] = new]
    BY <2>2
  <2> HIDE DEF new
  <2>6. row'[i] = new /\ \A j \in Ids : j # i => row'[j] = row[j]
    BY <1>1, <2>5
  <2>7. row' \in [Ids -> Config \cup NoRows]
    BY <1>1, <2>4, <2>5
  <2>8. events' \in 0..MaxEvents
    BY <2>2, EventType
  <2> QED
    BY <2>2, <2>4, <2>6, <2>7, <2>8, ConfigLives
<1>5. CASE RemoveConfig(i)
  <2>1. /\ row' = [row EXCEPT ![i] = Deleted]
        /\ Live(i) /\ Event
        /\ unreported' = unreported \ {i}
        /\ UNCHANGED <<live, file, op, fromPeer>>
    BY <1>5 DEF RemoveConfig, EditRow
  <2>2. row'[i] = Deleted /\ \A j \in Ids : j # i => row'[j] = row[j]
    BY <1>1, <2>1
  <2>3. row' \in [Ids -> Config \cup NoRows]
    BY <1>1, <2>1 DEF NoRows
  <2>4. events' \in 0..MaxEvents
    BY <2>1, EventType
  <2> QED
    BY <2>1, <2>2, <2>3, <2>4, ConstantsOK DEF Live, NoRows
<1> QED
  BY <1>2, <1>3, <1>4, <1>5 DEF Configure
-----------------------------------------------------------------------------
(* The state is well formed and the lists are what they were *)

LEMMA SetFile ==
    ASSUME TypeOK, NEW d \in Dirs, NEW copy \in Versions \cup {Missing, Corrupt},
           file' = [file EXCEPT ![d] = copy]
    PROVE  /\ file' \in [Dirs -> Versions \cup {Missing, Corrupt}]
           /\ file'[d] = copy
           /\ \A e \in Dirs : e # d => file'[e] = file[e]
  BY DEF TypeOK

\* The copy of a backup, whether or not its checksum file is written.
LEMMA CopiedFile ==
    ASSUME BInv, NEW r \in Runners, At(r, "write"),
           file' = [file EXCEPT ![Hand(r).dir] = op[r].snap]
    PROVE  /\ file' \in [Dirs -> Versions \cup {Missing, Corrupt}]
           /\ Hand(r).dir \in Dirs
           /\ op[r].snap \in Versions
           /\ file'[Hand(r).dir] = op[r].snap
           /\ \A e \in Dirs : e # Hand(r).dir => file'[e] = file[e]
<1>1. TypeOK /\ op[r] \in GoodOp /\ op[r].at = "write"
  BY DEF BInv, At
<1>2. Hand(r).dir \in Dirs /\ op[r].snap \in Versions
  BY <1>1, HandIn DEF GoodOp, WellShaped
<1> QED
  BY <1>1, <1>2, SetFile

\* The copy of a repair is as healthy as its source.
LEMMA InstalledFile ==
    ASSUME BInv, NEW r \in Runners, At(r, "repair"), Healthy(file[op[r].source]), Install(r)
    PROVE  /\ file' \in [Dirs -> Versions \cup {Missing, Corrupt}]
           /\ Hand(r).dir \in Dirs /\ Hand(r).id \in Ids
           /\ Healthy(file'[Hand(r).dir])
           /\ \A e \in Dirs : e # Hand(r).dir => file'[e] = file[e]
           /\ fromPeer' = fromPeer \cup {Hand(r).dir}
           /\ unreported' = unreported \cup ({Hand(r).id} \cap {i \in Ids : Live(i)})
<1>1. TypeOK /\ op[r] \in GoodOp /\ op[r].at = "repair"
  BY DEF BInv, At
<1>2. Hand(r).dir \in Dirs /\ Hand(r).id \in Ids /\ op[r].source \in Dirs
  BY <1>1, HandIn DEF GoodOp, WellShaped
<1>3. /\ file' = [file EXCEPT ![Hand(r).dir] = file[op[r].source]]
      /\ fromPeer' = fromPeer \cup {Hand(r).dir}
      /\ unreported' = unreported \cup ({Hand(r).id} \cap {i \in Ids : Live(i)})
  BY DEF Install
<1>4. file[op[r].source] \in Versions
  BY DEF Healthy
<1> QED
  BY <1>1, <1>2, <1>3, <1>4, SetFile DEF Healthy

\* The steps of a run that write neither copies nor rows, those that write copies, and those
\* that write rows.
LEMMA StepKinds ==
    ASSUME NEW r \in Runners, BInv, Start(r) \/ Step(r) \/ Kill(r)
    PROVE  /\ live' = live
           /\ \/ /\ UNCHANGED <<file, row, fromPeer, unreported>>
                 /\ events' \in 0..MaxEvents
                 /\ \/ Start(r) \/ TakeSnapshot(r) \/ SnapshotFails(r) \/ Inspect(r) \/ Kill(r)
                    \/ CopyFails(r) \/ RepairFails(r)
              \/ /\ WriteCopy(r) \/ CopyFails(r)
                 /\ UNCHANGED <<row, unreported>>
                 /\ events' \in 0..MaxEvents
                 /\ At(r, "write")
                 /\ file' = [file EXCEPT ![Hand(r).dir] = op[r].snap]
                 /\ fromPeer' = fromPeer \ {Hand(r).dir}
              \/ /\ Repair(r) \/ RepairFails(r)
                 /\ UNCHANGED row
                 /\ events' \in 0..MaxEvents
                 /\ At(r, "repair")
                 /\ Healthy(file[op[r].source])
                 /\ Install(r)
              \/ /\ RecordCopy(r)
                 /\ UNCHANGED <<file, fromPeer, unreported>>
              \/ /\ SettleHealthy(r) \/ SettleBroken(r) \/ MarkBroken(r) \/ ReportRepair(r)
                 /\ UNCHANGED <<file, fromPeer>>
                 /\ unreported' \subseteq unreported
<1>0. TypeOK /\ events \in 0..MaxEvents
  BY DEF BInv, TypeOK
<1>1. Event => events' \in 0..MaxEvents
  BY <1>0, EventType
<1>2. CASE Start(r)
  BY <1>0, <1>2 DEF Start, StartBackup, StartCheck, ghosts
<1>3. CASE TakeSnapshot(r) \/ Inspect(r)
  BY <1>0, <1>3 DEF TakeSnapshot, Inspect, ghosts
<1>4. CASE SnapshotFails(r) \/ Kill(r)
  BY <1>1, <1>4 DEF SnapshotFails, Kill, ghosts
<1>5. CASE WriteCopy(r)
  BY <1>0, <1>5 DEF WriteCopy
<1>6. CASE CopyFails(r)
  BY <1>1, <1>6 DEF CopyFails
<1>7. CASE Repair(r)
  BY <1>0, <1>7 DEF Repair
<1>8. CASE RepairFails(r)
  BY <1>0, <1>1, <1>8 DEF RepairFails, ghosts
<1>9. CASE RecordCopy(r)
  BY <1>9 DEF RecordCopy, ghosts
<1>10. CASE SettleHealthy(r)
  BY <1>10 DEF SettleHealthy
<1>11. CASE SettleBroken(r) \/ MarkBroken(r)
  BY <1>11 DEF SettleBroken, MarkBroken, ghosts
<1>12. CASE ReportRepair(r)
  BY <1>12 DEF ReportRepair
<1> QED
  BY <1>2, <1>3, <1>4, <1>5, <1>6, <1>7, <1>8, <1>9, <1>10, <1>11, <1>12 DEF Step

\* The rows under the steps of a run: one that there is stays one that there is.
LEMMA StepRows ==
    ASSUME NEW r \in Runners, BInv, Start(r) \/ Step(r) \/ Kill(r)
    PROVE  /\ row' \in [Ids -> Config \cup NoRows]
           /\ \A i \in Ids : Live(i) => Live(i)' /\ row'[i].dir = row[i].dir
           /\ \A i \in Ids : ~Live(i) => row'[i] = row[i]
           /\ events' \in 0..MaxEvents
<1>0. TypeOK
  BY DEF BInv
<1>1. CASE UNCHANGED row /\ events' \in 0..MaxEvents
  BY <1>0, <1>1 DEF TypeOK, Live
<1>2. CASE RecordCopy(r) \/ SettleHealthy(r) \/ SettleBroken(r) \/ MarkBroken(r) \/ ReportRepair(r)
  <2>1. PICK i \in Ids : Touches(i) /\ events' \in 0..MaxEvents
    BY <1>2, RecordRow, CheckRow
  <2>2. Live(i) => row'[i] \notin NoRows
    BY <2>1, ConfigLives DEF Touches
  <2> QED
    BY <2>1, <2>2 DEF Touches, Live
<1> QED
  BY <1>1, <1>2, StepKinds

LEMMA ItemIds ==
    ASSUME op \in [Runners -> GoodOp], NEW r \in Runners, NEW x \in Items(r)
    PROVE  x \in Item /\ x.id \in Ids /\ x.dir \in Dirs
<1>1. op[r] \in GoodOp
  OBVIOUS
<1> QED
  BY <1>1 DEF Items, GoodOp, Op, Item

\* A list loses rows, or has one of them inspected, or is new and of rows that are there.
LEMMA ListsStep ==
    ASSUME NEW r \in Runners, BInv, Start(r) \/ Step(r) \/ Kill(r)
    PROVE  ItemsKnown' /\ ItemsApart'
<1>0. TypeOK /\ op \in [Runners -> GoodOp] /\ ItemsKnown /\ ItemsApart
  BY DEF BInv
<1>1. \A i \in Ids : row[i] # Unused => row'[i] # Unused
  BY StepRows DEF Live, NoRows
<1>2. ASSUME NEW s \in Runners, s # r, op'[s] = op[s]
      PROVE  /\ \A x \in Items(s)' : row'[x.id] # Unused
             /\ \A x, y \in Items(s)' : x.id = y.id => x = y
             /\ op'[s].todo \cap op'[s].seen = {}
  <2>1. Items(s)' = Items(s)
    BY <1>2 DEF Items
  <2>2. \A x \in Items(s) : x.id \in Ids
    BY <1>0, ItemIds
  <2> QED
    BY <1>0, <1>1, <1>2, <2>1, <2>2 DEF ItemsKnown, ItemsApart
<1>3. CASE Onward(r)
  <2>1. Items(r)' \subseteq Items(r)
    BY <1>3 DEF Items, Onward
  <2>2. \A x \in Items(r) : x.id \in Ids
    BY <1>0, ItemIds
  <2>3. /\ \A x \in Items(r)' : row'[x.id] # Unused
        /\ \A x, y \in Items(r)' : x.id = y.id => x = y
        /\ op'[r].todo \cap op'[r].seen = {}
    BY <1>0, <1>1, <1>3, <2>1, <2>2 DEF ItemsKnown, ItemsApart, Onward
  <2> QED
    BY <1>2, <1>3, <2>3 DEF ItemsKnown, ItemsApart, Onward
<1>4. CASE Inspect(r)
  <2>1. /\ \A s \in Runners : s # r => op'[s] = op[s]
        /\ Inspected(r).id = Hand(r).id
        /\ \/ /\ op'[r].todo = Rest(r)
              /\ op'[r].seen = op[r].seen \cup {Inspected(r)}
           \/ /\ op'[r].todo = op[r].seen \cup {Inspected(r)}
              /\ op'[r].seen = {}
    BY <1>0, <1>4, InspectOnward
  <2>2. Hand(r) \in op[r].todo /\ Hand(r) \in Items(r)
    BY <1>0, <1>4, HandIn DEF Inspect, At
  <2>3. \A x \in Items(r) : x.id \in Ids
    BY <1>0, ItemIds
  <2>4. Items(r)' \subseteq (Items(r) \ {Hand(r)}) \cup {Inspected(r)}
    BY <1>0, <2>1, <2>2 DEF Items, Rest, ItemsApart
  <2>5. \A x \in Items(r) \ {Hand(r)} : x.id # Hand(r).id
    BY <1>0, <2>2 DEF ItemsApart
  <2>6. \A x \in Items(r)' : row'[x.id] # Unused
    BY <1>0, <1>1, <2>1, <2>2, <2>3, <2>4 DEF ItemsKnown
  <2>7. \A x, y \in Items(r)' : x.id = y.id => x = y
    BY <1>0, <2>1, <2>4, <2>5 DEF ItemsApart
  <2>8. Inspected(r) \notin Rest(r)
    BY <2>1, <2>5 DEF Rest, Items
  <2>9. op'[r].todo \cap op'[r].seen = {}
    BY <1>0, <2>1, <2>8 DEF Rest, ItemsApart
  <2> QED
    BY <1>2, <2>1, <2>6, <2>7, <2>9 DEF ItemsKnown, ItemsApart
<1>5. CASE Start(r)
  <2>1. /\ \A s \in Runners : s # r => op'[s] = op[s]
        /\ op'[r].todo = Enabled /\ op'[r].seen = {}
    BY <1>0, <1>5, StartGood
  <2>2. Items(r)' = Enabled
    BY <2>1 DEF Items
  <2>3. \A x \in Enabled : x.id \in Ids /\ row[x.id] # Unused
    BY <1>0, EnabledItems DEF Item, Live, NoRows
  <2>4. \A x, y \in Enabled : x.id = y.id => x = y
    BY <1>0, EnabledItems
  <2>5. /\ \A x \in Items(r)' : row'[x.id] # Unused
        /\ \A x, y \in Items(r)' : x.id = y.id => x = y
        /\ op'[r].todo \cap op'[r].seen = {}
    BY <1>1, <2>1, <2>2, <2>3, <2>4
  <2> QED
    BY <1>2, <2>1, <2>5 DEF ItemsKnown, ItemsApart
<1> QED
  BY <1>0, <1>3, <1>4, <1>5, StepOnward

LEMMA RunInv ==
    ASSUME NEW r \in Runners, BInv, Start(r) \/ Step(r) \/ Kill(r)
    PROVE  BInv'
<1>0. TypeOK /\ op \in [Runners -> GoodOp]
  BY DEF BInv
<1>1. op' \in [Runners -> GoodOp]
  BY <1>0, StepOnward, InspectOnward, StartGood DEF Onward
<1>2. op' \in [Runners -> Op]
  BY <1>1 DEF GoodOp
<1>3. row' \in [Ids -> Config \cup NoRows] /\ events' \in 0..MaxEvents
  BY StepRows
<1>4. /\ live' \in Versions
      /\ file' \in [Dirs -> Versions \cup {Missing, Corrupt}]
      /\ fromPeer' \subseteq Dirs
      /\ unreported' \subseteq Ids
  <2>1. /\ live \in Versions
        /\ file \in [Dirs -> Versions \cup {Missing, Corrupt}]
        /\ fromPeer \subseteq Dirs
        /\ unreported \subseteq Ids
    BY <1>0 DEF TypeOK
  <2>2. CASE UNCHANGED <<file, fromPeer>> /\ unreported' \subseteq unreported
    BY <2>1, <2>2, StepKinds
  <2>3. CASE /\ UNCHANGED unreported
             /\ At(r, "write")
             /\ file' = [file EXCEPT ![Hand(r).dir] = op[r].snap]
             /\ fromPeer' = fromPeer \ {Hand(r).dir}
    BY <2>1, <2>3, CopiedFile, StepKinds
  <2>4. CASE At(r, "repair") /\ Healthy(file[op[r].source]) /\ Install(r)
    BY <2>1, <2>4, InstalledFile, StepKinds
  <2> QED
    BY <2>2, <2>3, <2>4, StepKinds
<1>5. TypeOK'
  BY <1>2, <1>3, <1>4 DEF TypeOK
<1> QED
  BY <1>1, <1>5, ListsStep DEF BInv

LEMMA OtherInv ==
    ASSUME BInv,
           \/ \E i \in Ids : Configure(i)
           \/ Commit
           \/ \E d \in Dirs : Damage(d)
           \/ UNCHANGED vars
    PROVE  BInv' /\ UNCHANGED op
<1>0. /\ TypeOK /\ op \in [Runners -> GoodOp] /\ ItemsKnown /\ ItemsApart
      /\ \A r \in Runners : \A x \in Items(r) : x.id \in Ids
  BY ItemIds DEF BInv
<1>1. CASE \E i \in Ids : Configure(i)
  <2>1. PICK i \in Ids : Configure(i)
    BY <1>1
  <2>2. /\ row' \in [Ids -> Config \cup NoRows]
        /\ \A j \in Ids : j # i => row'[j] = row[j]
        /\ row'[i] # Unused
        /\ events' \in 0..MaxEvents
        /\ unreported' \subseteq unreported
        /\ UNCHANGED <<live, file, op, fromPeer>>
    BY <1>0, <2>1, ConfigureRow
  <2>3. TypeOK'
    BY <1>0, <2>2 DEF TypeOK
  <2>4. \A j \in Ids : row[j] # Unused => row'[j] # Unused
    BY <2>2
  <2> QED
    BY <1>0, <2>2, <2>3, <2>4 DEF BInv, ItemsKnown, ItemsApart, Items
<1>2. CASE Commit
  <2>1. live' \in Versions
    BY <1>0, <1>2, ConstantsOK DEF Commit, TypeOK, Versions
  <2>2. UNCHANGED <<file, row, op, events, fromPeer, unreported>>
    BY <1>2 DEF Commit, ghosts
  <2> QED
    BY <1>0, <2>1, <2>2 DEF BInv, TypeOK, ItemsKnown, ItemsApart, Items
<1>3. CASE \E d \in Dirs : Damage(d)
  <2>1. PICK d \in Dirs : Damage(d)
    BY <1>3
  <2>2. PICK what \in {Missing, Corrupt} : file' = [file EXCEPT ![d] = what]
    BY <2>1 DEF Damage
  <2>3. file' \in [Dirs -> Versions \cup {Missing, Corrupt}]
    BY <1>0, <2>2, SetFile
  <2>4. UNCHANGED <<live, row, op, fromPeer, unreported>> /\ events' \in 0..MaxEvents
    BY <1>0, <2>1, EventType DEF Damage, ghosts
  <2> QED
    BY <1>0, <2>3, <2>4 DEF BInv, TypeOK, ItemsKnown, ItemsApart, Items
<1>4. CASE UNCHANGED vars
  BY <1>0, <1>4 DEF vars, ghosts, BInv, TypeOK, ItemsKnown, ItemsApart, Items
<1> QED
  BY <1>1, <1>2, <1>3, <1>4

LEMMA BInvInit ==
    ASSUME Init
    PROVE  BInv
<1>1. op \in [Runners -> GoodOp]
  BY NoOpGood DEF Init
<1>2. op \in [Runners -> Op]
  BY <1>1 DEF GoodOp
<1>3. TypeOK
  BY <1>2, ConstantsOK DEF Init, TypeOK, Versions, NoRows
<1>4. \A r \in Runners : op[r].todo = {} /\ op[r].seen = {}
  BY DEF Init, NoOp
<1> QED
  BY <1>1, <1>3, <1>4 DEF BInv, ItemsKnown, ItemsApart, Items

LEMMA BInvStep ==
    ASSUME BInv, [Next]_vars
    PROVE  BInv'
<1>1. CASE \E r \in Runners : Start(r) \/ Step(r) \/ Kill(r)
  BY <1>1, RunInv
<1> QED
  BY <1>1, OtherInv DEF Next

\* Rows, copies and runs stay well formed, whatever overlaps, fails, is damaged or edited: a
\* run that writes has a snapshot, and one that repairs a source (src/src/db/backup.rs).
THEOREM TypeCorrect == Spec => []TypeOK
<1>1. Init => BInv
  BY BInvInit
<1>2. BInv /\ [Next]_vars => BInv'
  BY BInvStep
<1>3. BInv => TypeOK
  BY DEF BInv
<1> QED
  BY <1>1, <1>2, <1>3, PTL DEF Spec
-----------------------------------------------------------------------------
(* Copies *)

LEMMA StaysHealthy ==
    ASSUME BInv, [Next]_vars, NEW d \in Dirs, Healthy(file[d])
    PROVE  Healthy(file'[d]) \/ Damage(d)
<1>0. TypeOK
  BY DEF BInv
<1>1. CASE \E r \in Runners : Start(r) \/ Step(r) \/ Kill(r)
  <2>1. PICK r \in Runners : Start(r) \/ Step(r) \/ Kill(r)
    BY <1>1
  <2>2. CASE UNCHANGED file
    BY <2>2
  <2>3. CASE At(r, "write") /\ file' = [file EXCEPT ![Hand(r).dir] = op[r].snap]
    BY <2>3, CopiedFile DEF Healthy
  <2>4. CASE At(r, "repair") /\ Healthy(file[op[r].source]) /\ Install(r)
    BY <2>4, InstalledFile
  <2> QED
    BY <2>1, <2>2, <2>3, <2>4, StepKinds
<1>2. CASE \E i \in Ids : Configure(i)
  BY <1>0, <1>2, ConfigureRow
<1>3. CASE Commit \/ UNCHANGED vars
  BY <1>3 DEF Commit, vars
<1>4. CASE \E e \in Dirs : Damage(e)
  <2>1. PICK e \in Dirs : Damage(e)
    BY <1>4
  <2>2. PICK what \in {Missing, Corrupt} : file' = [file EXCEPT ![e] = what]
    BY <2>1 DEF Damage
  <2>3. CASE e = d
    BY <2>1, <2>3
  <2>4. CASE e # d
    BY <1>0, <2>2, <2>4, SetFile
  <2> QED
    BY <2>3, <2>4
<1> QED
  BY <1>1, <1>2, <1>3, <1>4 DEF Next

\* No run replaces a healthy copy by a broken one or by none, whatever runs beside it and
\* whichever step fails (write_backup_file, copy_backup_atomically).
THEOREM HealthyCopiesStay == Spec => HealthyStaysHealthy
<1>1. Init => BInv
  BY BInvInit
<1>2. BInv /\ [Next]_vars => BInv'
  BY BInvStep
<1>3. BInv /\ [Next]_vars
        => [\A d \in Dirs : Healthy(file[d]) => Healthy(file'[d]) \/ Damage(d)]_vars
  BY StaysHealthy
<1> QED
  BY <1>1, <1>2, <1>3, PTL DEF Spec, HealthyStaysHealthy
-----------------------------------------------------------------------------
(* Repairs and their markers *)

LEMMA Same ==
    ASSUME NEW s \in Runners, op'[s] = op[s]
    PROVE  Hand(s)' = Hand(s) /\ Items(s)' = Items(s)
  BY DEF Hand, Items

\* The kind of a run is that of the one before or of none, unless it starts, alone.
LEMMA OnlyStep ==
    ASSUME BInv, [Next]_vars, NEW kind, NEW freedom, freedom \notin Allowed, Only(kind),
           \/ kind = "backup" /\ freedom = "two backups"
           \/ kind = "check" /\ freedom = "two checks"
    PROVE  Only(kind)'
<1>0. TypeOK /\ op \in [Runners -> GoodOp]
  BY DEF BInv
<1>1. CASE \E r \in Runners : Start(r)
  <2>1. PICK r \in Runners : Start(r)
    BY <1>1
  <2>2. /\ \A s \in Runners : s # r => op'[s] = op[s]
        /\ \/ op'[r].kind = "backup" /\ Alone("two backups", "backup")
           \/ op'[r].kind = "check" /\ Alone("two checks", "check")
    BY <1>0, <2>1, StartGood
  <2> QED
    BY <2>2 DEF Only, Alone
<1>2. CASE \E r \in Runners : Step(r) \/ Kill(r)
  <2>1. PICK r \in Runners : Step(r) \/ Kill(r)
    BY <1>2
  <2>2. /\ \A s \in Runners : s # r => op'[s] = op[s]
        /\ op'[r].kind \in {op[r].kind, "none"}
    BY <1>0, <2>1, StepOnward, InspectOnward DEF Onward
  <2> QED
    BY <2>2 DEF Only
<1>3. CASE UNCHANGED op
  BY <1>3 DEF Only
<1> QED
  BY <1>1, <1>2, <1>3, OtherInv DEF Next

\* Whatever a run writes in a row, one whose repair is not told of keeps a marker.
LEMMA UnreportedStep ==
    ASSUME MarkInv, NEW r \in Runners, Start(r) \/ Step(r) \/ Kill(r)
    PROVE  UnreportedMarked'
<1>0. BInv /\ TypeOK /\ op[r] \in GoodOp /\ UnreportedMarked /\ MarkerRead /\ MarkedFirst
  BY DEF MarkInv, BInv
<1>1. \A i \in Ids : Live(i) => Live(i)'
  BY <1>0, StepRows
<1>2. unreported \subseteq Ids
  BY <1>0 DEF TypeOK
<1>3. CASE UNCHANGED row /\ unreported' \subseteq unreported
  BY <1>0, <1>1, <1>2, <1>3 DEF UnreportedMarked
<1>4. CASE UNCHANGED row /\ At(r, "repair") /\ Healthy(file[op[r].source]) /\ Install(r)
  <2>1. /\ Hand(r).id \in Ids
        /\ unreported' = unreported \cup ({Hand(r).id} \cap {i \in Ids : Live(i)})
    BY <1>0, <1>4, InstalledFile
  <2>2. Live(Hand(r).id) => row[Hand(r).id].status \in InError
    BY <1>0, <1>4 DEF MarkedFirst
  <2> QED
    BY <1>0, <1>1, <1>2, <1>4, <2>1, <2>2 DEF UnreportedMarked
<1>5. CASE RecordCopy(r)
  <2>1. /\ Touches(Hand(r).id) /\ Hand(r).id \in Ids
        /\ Live(Hand(r).id) => row'[Hand(r).id].status = row[Hand(r).id].status
    BY <1>0, <1>5, RecordRow
  <2>2. unreported' = unreported
    BY <1>5 DEF RecordCopy, ghosts
  <2> QED
    BY <1>0, <1>1, <1>2, <2>1, <2>2 DEF UnreportedMarked, Touches
<1>6. ASSUME SettleHealthy(r) \/ SettleBroken(r) \/ MarkBroken(r) \/ ReportRepair(r)
      PROVE  UnreportedMarked'
  <2> DEFINE i == Hand(r).id
  <2>1. i \in Ids /\ Touches(i)
    BY <1>0, <1>6, CheckRow
  <2>2. unreported' \subseteq unreported
    BY <1>6 DEF SettleHealthy, SettleBroken, MarkBroken, ReportRepair, ghosts
  <2>3. ASSUME i \in unreported'
        PROVE  row'[i].status \in InError
    <3>1. i \in unreported /\ Live(i) /\ row[i].status \in InError
      BY <1>0, <2>2, <2>3 DEF UnreportedMarked
    <3>2. CASE Lost
      BY <3>1, <3>2 DEF Lost
    <3>3. CASE SettleHealthy(r) /\ ~Lost
      <4>1. op[r].kind = "check" /\ op[r].at = "settle"
        BY <1>0, <3>3 DEF SettleHealthy, Settling, At, GoodOp, WellShaped, CheckPlaces
      <4>2. Hand(r).was \in InError
        <5>1. Hand(r) \in Items(r)
          BY <1>0, <4>1, HandIn
        <5> QED
          BY <1>0, <3>1, <4>1, <5>1 DEF MarkerRead
      <4>3. unreported' = unreported \ {i}
        BY <3>3, <4>2 DEF SettleHealthy, HealthyStatus
      <4> QED
        BY <2>3, <4>3
    <3>4. CASE (SettleBroken(r) \/ MarkBroken(r)) /\ ~Lost
      <4>1. WriteStatus(i, Presence(Hand(r).dir), TRUE)
        BY <3>4 DEF SettleBroken, MarkBroken
      <4>2. Presence(Hand(r).dir) \in InError /\ InError \subseteq Statuses
        BY DEF Presence, InError, Statuses
      <4> QED
        BY <1>0, <2>1, <3>1, <4>1, <4>2, WriteStatusRow
    <3>5. CASE ReportRepair(r) /\ ~Lost
      <4>1. CASE WriteStatus(i, "failed", TRUE)
        BY <1>0, <2>1, <3>1, <4>1, WriteStatusRow DEF Statuses, InError
      <4>2. CASE unreported' = unreported \ {i}
        BY <2>3, <4>2
      <4> QED
        BY <3>5, <4>1, <4>2 DEF ReportRepair
    <3> QED
      BY <1>6, <3>2, <3>3, <3>4, <3>5
  <2> HIDE DEF i
  <2> QED
    BY <1>0, <1>1, <1>2, <2>1, <2>2, <2>3 DEF UnreportedMarked, Touches
<1> QED
  BY <1>0, <1>3, <1>4, <1>5, <1>6, StepKinds

\* What a check has listed, and what it learns of it, goes with the markers.
LEMMA OwnMarkerRead ==
    ASSUME MarkInv, NEW r \in Runners, Start(r) \/ Step(r) \/ Kill(r), op'[r].kind = "check",
           NEW x \in Items(r)', x.id \in unreported'
    PROVE  x.was \in InError \/ (op'[r].at \in {"repaired", "spoiled"} /\ x = Hand(r)')
<1>0. /\ BInv /\ TypeOK /\ op \in [Runners -> GoodOp] /\ op[r] \in GoodOp
      /\ UnreportedMarked /\ MarkerRead /\ ItemsApart
  BY DEF MarkInv, BInv
<1>1. CASE Start(r)
  <2>1. op'[r].todo = Enabled /\ op'[r].seen = {}
    BY <1>0, <1>1, StartGood
  <2>2. x \in Enabled
    BY <2>1 DEF Items
  <2>3. Live(x.id) /\ x.was = row[x.id].status
    BY <1>0, <2>2, EnabledItems
  <2>4. unreported' = unreported
    BY <1>1 DEF Start, StartBackup, StartCheck, ghosts
  <2> QED
    BY <1>0, <2>3, <2>4 DEF UnreportedMarked
<1>2. CASE Inspect(r)
  <2>1. /\ op'[r].kind = op[r].kind
        /\ Inspected(r).id = Hand(r).id /\ Inspected(r).was = Hand(r).was
        /\ \/ /\ op'[r].todo = Rest(r)
              /\ op'[r].seen = op[r].seen \cup {Inspected(r)}
           \/ /\ op'[r].todo = op[r].seen \cup {Inspected(r)}
              /\ op'[r].seen = {}
    BY <1>0, <1>2, InspectOnward
  <2>2. Hand(r) \in Items(r) /\ op[r].at = "inspect"
    BY <1>0, <1>2, HandIn DEF Inspect, At
  <2>3. PICK y \in Items(r) : y.id = x.id /\ y.was = x.was
    BY <2>1, <2>2 DEF Items, Rest
  <2>4. unreported' = unreported
    BY <1>2 DEF Inspect, ghosts
  <2> QED
    BY <1>0, <2>1, <2>2, <2>3, <2>4 DEF MarkerRead
<1>3. ASSUME ~Start(r), ~Inspect(r)
      PROVE  /\ op[r].kind = "check"
             /\ x \in Items(r)
  <2>1. Onward(r)
    BY <1>0, <1>3, StepOnward
  <2> QED
    BY <2>1 DEF Onward, Items
<1>4. CASE SettleHealthy(r) \/ SettleBroken(r) \/ MarkBroken(r)
  <2>1. op[r].at = "settle"
    BY <1>4 DEF SettleHealthy, SettleBroken, MarkBroken, Settling, At
  <2>2. unreported' \subseteq unreported
    BY <1>4 DEF SettleHealthy, SettleBroken, MarkBroken, ghosts
  <2>3. ~Start(r) /\ ~Inspect(r)
    BY <2>1 DEF Start, StartBackup, StartCheck, Inspect, Idle, At
  <2> QED
    BY <1>0, <1>3, <2>1, <2>2, <2>3 DEF MarkerRead
<1>5. CASE Repair(r) \/ RepairFails(r)
  <2>1. /\ op[r].at = "repair"
        /\ Become(r, [op[r] EXCEPT !.at = "repaired"]) \/ Become(r, [op[r] EXCEPT !.at = "spoiled"])
    BY <1>5 DEF Repair, RepairFails, At
  <2>2. op'[r].at \in {"repaired", "spoiled"} /\ op'[r].todo = op[r].todo
    BY <1>0, <2>1, PlaceOnward
  <2>3. Hand(r)' = Hand(r)
    BY <2>2 DEF Hand
  <2>4. ~Start(r) /\ ~Inspect(r)
    BY <2>1 DEF Start, StartBackup, StartCheck, Inspect, Idle, At
  <2>5. unreported' \subseteq unreported \cup {Hand(r).id}
    BY <1>5 DEF Repair, RepairFails, Install, ghosts
  <2>6. Hand(r) \in Items(r)
    BY <1>0, <2>1, HandIn
  <2>7. CASE x.id = Hand(r).id
    BY <1>0, <1>3, <2>2, <2>3, <2>4, <2>6, <2>7 DEF ItemsApart
  <2>8. CASE x.id # Hand(r).id
    BY <1>0, <1>3, <2>1, <2>4, <2>5, <2>8 DEF MarkerRead
  <2> QED
    BY <2>7, <2>8
<1>6. CASE ReportRepair(r)
  <2>1. op[r].at \in {"repaired", "spoiled"} /\ NextRow(r, "settle")
    BY <1>6 DEF ReportRepair
  <2>2. op'[r] = NoOp \/ (op'[r].todo = Rest(r) /\ op'[r].seen = op[r].seen)
    BY <1>0, <2>1, NextRowOnward DEF CheckPlaces
  <2>3. x \in Items(r) \ {Hand(r)}
    <3>1. Hand(r) \in op[r].todo
      BY <1>0, <2>1, HandIn
    <3>2. op'[r] # NoOp
      BY DEF NoOp
    <3> QED
      BY <1>0, <2>2, <3>1, <3>2 DEF Items, Rest, ItemsApart
  <2>4. ~Start(r) /\ ~Inspect(r)
    BY <2>1 DEF Start, StartBackup, StartCheck, Inspect, Idle, At
  <2>5. unreported' \subseteq unreported
    BY <1>6 DEF ReportRepair
  <2> QED
    BY <1>0, <1>3, <2>3, <2>4, <2>5 DEF MarkerRead
<1>7. CASE TakeSnapshot(r) \/ WriteCopy(r) \/ CopyFails(r) \/ RecordCopy(r)
  <2>1. op[r].kind = "backup"
    BY <1>0, <1>7 DEF TakeSnapshot, WriteCopy, CopyFails, RecordCopy, At, GoodOp, WellShaped, BackupPlaces
  <2>2. op[r].at \in BackupPlaces
    BY <1>7 DEF TakeSnapshot, WriteCopy, CopyFails, RecordCopy, At, BackupPlaces
  <2>3. ~Start(r) /\ ~Inspect(r)
    BY <2>2 DEF Start, StartBackup, StartCheck, Inspect, Idle, At, BackupPlaces
  <2> QED
    BY <1>3, <2>1, <2>3
<1>8. CASE SnapshotFails(r) \/ Kill(r)
  <2>1. op'[r] = NoOp
    BY <1>0, <1>8, EndsOnward DEF SnapshotFails, Kill
  <2> QED
    BY <2>1 DEF NoOp
<1> QED
  BY <1>1, <1>2, <1>4, <1>5, <1>6, <1>7, <1>8 DEF Step

\* What the step of a run is to another run that is a check: it is no repair and writes no status.
LEMMA BesideCheck ==
    ASSUME MarkInv, NEW r \in Runners, Start(r) \/ Step(r) \/ Kill(r),
           NEW s \in Runners, s # r, op[s].kind = "check"
    PROVE  /\ unreported' = unreported
           /\ \A i \in Ids : Live(i) => row'[i].status = row[i].status
<1>0. /\ BInv /\ TypeOK /\ op[r] \in GoodOp /\ op[r].kind # "check"
  BY DEF MarkInv, BInv, Only
<1>1. op[r].at \notin CheckPlaces
  BY <1>0 DEF GoodOp, WellShaped
<1>2. ~(SettleHealthy(r) \/ SettleBroken(r) \/ MarkBroken(r) \/ ReportRepair(r))
  BY <1>1 DEF SettleHealthy, SettleBroken, MarkBroken, ReportRepair, Settling, At, CheckPlaces
<1>3. ~At(r, "repair")
  BY <1>1 DEF At, CheckPlaces
<1>4. CASE UNCHANGED <<row, unreported>>
  BY <1>4
<1>5. CASE RecordCopy(r) /\ UNCHANGED unreported
  BY <1>0, <1>5, RecordRow DEF Touches
<1> QED
  BY <1>0, <1>2, <1>3, <1>4, <1>5, StepKinds

LEMMA MarkedFirstStep ==
    ASSUME MarkInv, NEW r \in Runners, Start(r) \/ Step(r) \/ Kill(r),
           NEW s \in Runners, At(s, "repair")', Live(Hand(s).id)'
    PROVE  row'[Hand(s)'.id].status \in InError
<1>0. /\ BInv /\ TypeOK /\ op \in [Runners -> GoodOp] /\ op[r] \in GoodOp /\ op[s] \in GoodOp
      /\ MarkedFirst
  BY DEF MarkInv, BInv
<1>1. \A t \in Runners : t # r => op'[t] = op[t]
  BY <1>0, StepOnward, InspectOnward, StartGood DEF Onward
<1>2. CASE s # r
  <2>1. op'[s] = op[s] /\ op[s].at = "repair" /\ op[s].kind = "check"
    BY <1>0, <1>1, <1>2 DEF At, GoodOp, WellShaped, CheckPlaces
  <2>2. Hand(s)' = Hand(s) /\ Hand(s).id \in Ids
    BY <1>0, <2>1, Same, HandIn
  <2>3. Live(Hand(s).id)
    BY <1>0, <2>2, StepRows DEF Live
  <2> QED
    BY <1>0, <1>2, <2>1, <2>2, <2>3, BesideCheck DEF MarkedFirst, At
<1>3. CASE s = r
  <2>1. MarkBroken(r) /\ Become(r, [op[r] EXCEPT !.at = "repair"])
            /\ WriteStatus(Hand(r).id, Presence(Hand(r).dir), TRUE)
    <3>0. op'[r].at = "repair"
      BY <1>3 DEF At
    <3>1. ~Start(r) /\ ~Inspect(r)
      BY <1>0, <3>0, StartGood, InspectOnward
    <3>2. ~(SnapshotFails(r) \/ Kill(r))
      BY <1>0, <3>0, EndsOnward DEF SnapshotFails, Kill, NoOp
    <3>3. ~TakeSnapshot(r)
      BY <1>0, <3>0, SnapshotOnward
    <3>4. ~(WriteCopy(r) \/ CopyFails(r))
      BY <1>0, <3>0, PlaceOnward DEF WriteCopy, CopyFails, At
    <3>5. ~(Repair(r) \/ RepairFails(r))
      BY <1>0, <3>0, PlaceOnward DEF Repair, RepairFails, At
    <3>6. ~RecordCopy(r)
      BY <1>0, <3>0, NextRowOnward DEF RecordCopy, NoOp
    <3>7. ~NextRow(r, "settle") \/ op[r].at \notin CheckPlaces
      BY <1>0, <3>0, NextRowOnward DEF NoOp
    <3>8. ~(SettleHealthy(r) \/ SettleBroken(r) \/ ReportRepair(r))
      BY <3>7 DEF SettleHealthy, SettleBroken, ReportRepair, Settling, At, CheckPlaces
    <3>9. MarkBroken(r)
      BY <3>1, <3>2, <3>3, <3>4, <3>5, <3>6, <3>8 DEF Step
    <3> QED
      BY <3>7, <3>9 DEF MarkBroken, Settling, At, CheckPlaces
  <2>2. op[r].at = "settle" /\ op[r].source # NoDir
    BY <2>1 DEF MarkBroken, Settling, At
  <2>3. op'[r].todo = op[r].todo
    BY <1>0, <2>1, <2>2, PlaceOnward
  <2>4. Hand(r)' = Hand(r)
    BY <2>3 DEF Hand
  <2>5. Hand(r).id \in Ids
    BY <1>0, <2>2, HandIn
  <2>6. Live(Hand(r).id)
    BY <1>0, <1>3, <2>4, <2>5, StepRows DEF Live
  <2>7. Presence(Hand(r).dir) \in InError /\ InError \subseteq Statuses
    BY DEF Presence, InError, Statuses
  <2> QED
    BY <1>0, <1>3, <2>1, <2>4, <2>5, <2>6, <2>7, WriteStatusRow
<1> QED
  BY <1>2, <1>3

LEMMA MarkRun ==
    ASSUME MarkInv, NEW r \in Runners, Start(r) \/ Step(r) \/ Kill(r)
    PROVE  UnreportedMarked' /\ MarkerRead' /\ MarkedFirst'
<1>0. BInv /\ TypeOK /\ op \in [Runners -> GoodOp] /\ MarkerRead
  BY DEF MarkInv, BInv
<1>1. \A t \in Runners : t # r => op'[t] = op[t]
  BY <1>0, StepOnward, InspectOnward, StartGood DEF Onward
<1>2. ASSUME NEW s \in Runners, NEW x \in Items(s)', op'[s].kind = "check", x.id \in unreported'
      PROVE  x.was \in InError \/ (op'[s].at \in {"repaired", "spoiled"} /\ x = Hand(s)')
  <2>1. CASE s = r
    BY <1>2, <2>1, OwnMarkerRead
  <2>2. CASE s # r
    <3>1. op'[s] = op[s]
      BY <1>1, <2>2
    <3>2. Hand(s)' = Hand(s) /\ Items(s)' = Items(s)
      BY <3>1, Same
    <3>3. unreported' = unreported
      BY <1>2, <2>2, <3>1, BesideCheck
    <3> QED
      BY <1>0, <1>2, <3>1, <3>2, <3>3 DEF MarkerRead
  <2> QED
    BY <2>1, <2>2
<1>3. MarkerRead'
  BY <1>2 DEF MarkerRead
<1>4. MarkedFirst'
  BY MarkedFirstStep DEF MarkedFirst
<1> QED
  BY <1>3, <1>4, UnreportedStep

LEMMA MarkOther ==
    ASSUME MarkInv,
           \/ \E i \in Ids : Configure(i)
           \/ Commit
           \/ \E d \in Dirs : Damage(d)
           \/ UNCHANGED vars
    PROVE  UnreportedMarked' /\ MarkerRead' /\ MarkedFirst'
<1>0. /\ BInv /\ TypeOK /\ op \in [Runners -> GoodOp] /\ ItemsKnown
      /\ UnreportedMarked /\ MarkerRead /\ MarkedFirst
  BY DEF MarkInv, BInv
<1>1. op' = op
  BY <1>0, OtherInv
<1>2. \A s \in Runners : Hand(s)' = Hand(s) /\ Items(s)' = Items(s) /\ op'[s] = op[s]
  BY <1>1, Same
<1>3. CASE UNCHANGED <<row, unreported>>
  BY <1>0, <1>2, <1>3 DEF UnreportedMarked, MarkerRead, MarkedFirst, Live, At
<1>4. CASE \E i \in Ids : Configure(i)
  <2>1. PICK i \in Ids : Configure(i)
    BY <1>4
  <2>2. /\ \A j \in Ids : j # i => row'[j] = row[j]
        /\ unreported' \subseteq unreported
        /\ \/ row[i] = Unused
           \/ Live(i) /\ row'[i] \in Config /\ row'[i].status = row[i].status
           \/ row'[i] = Deleted /\ i \notin unreported'
    BY <1>0, <2>1, ConfigureRow
  <2>3. unreported \subseteq Ids
    BY <1>0 DEF TypeOK
  <2>4. UnreportedMarked'
    <3>1. ASSUME NEW j \in unreported'
          PROVE  Live(j)' /\ row'[j].status \in InError
      <4>1. j \in Ids /\ Live(j) /\ row[j].status \in InError
        BY <1>0, <2>2, <2>3, <3>1 DEF UnreportedMarked
      <4>2. CASE j # i
        BY <2>2, <4>1, <4>2 DEF Live
      <4>3. CASE j = i
        <5>1. row'[i] \in Config /\ row'[i].status = row[i].status
          BY <2>2, <3>1, <4>1, <4>3 DEF Live, NoRows
        <5> QED
          BY <4>1, <4>3, <5>1, ConfigLives DEF Live
      <4> QED
        BY <4>2, <4>3
    <3> QED
      BY <3>1 DEF UnreportedMarked
  <2>5. MarkerRead'
    BY <1>0, <1>2, <2>2 DEF MarkerRead
  <2>6. ASSUME NEW s \in Runners, At(s, "repair"), Live(Hand(s).id)'
        PROVE  row'[Hand(s).id].status \in InError
    <3>1. op[s].at = "repair" /\ op[s] \in GoodOp
      BY <1>0, <2>6 DEF At
    <3>2. Hand(s) \in Items(s) /\ Hand(s).id \in Ids
      BY <3>1, HandIn
    <3>3. row[Hand(s).id] # Unused
      BY <1>0, <3>2 DEF ItemsKnown
    <3>4. Live(Hand(s).id) /\ row'[Hand(s).id].status = row[Hand(s).id].status
      <4>0. Hand(s)' = Hand(s)
        BY <1>2
      <4>1. CASE Hand(s).id = i
        BY <2>2, <2>6, <3>3, <4>0, <4>1 DEF Live, NoRows
      <4>2. CASE Hand(s).id # i
        BY <2>2, <2>6, <3>2, <4>0, <4>2 DEF Live
      <4> QED
        BY <4>1, <4>2
    <3> QED
      BY <1>0, <2>6, <3>4 DEF MarkedFirst
  <2>7. MarkedFirst'
    <3>1. \A s \in Runners : At(s, "repair")' <=> At(s, "repair")
      BY <1>2 DEF At
    <3> QED
      BY <1>2, <2>6, <3>1 DEF MarkedFirst
  <2> QED
    BY <2>4, <2>5, <2>7
<1>5. Commit \/ (\E d \in Dirs : Damage(d)) \/ UNCHANGED vars => UNCHANGED <<row, unreported>>
  BY DEF Commit, Damage, vars, ghosts
<1> QED
  BY <1>3, <1>4, <1>5

LEMMA MarkInit ==
    ASSUME Init
    PROVE  MarkInv
<1>1. BInv
  BY BInvInit
<1>2. \A r \in Runners : op[r].kind = "none" /\ op[r].at = "idle"
  BY DEF Init, NoOp
<1>3. unreported = {}
  BY DEF Init
<1> QED
  BY <1>1, <1>2, <1>3 DEF MarkInv, Only, UnreportedMarked, MarkerRead, MarkedFirst, At

LEMMA MarkStep ==
    ASSUME "two checks" \notin Allowed, MarkInv, [Next]_vars
    PROVE  MarkInv'
<1>1. BInv'
  BY BInvStep DEF MarkInv
<1>2. Only("check")'
  BY OnlyStep DEF MarkInv
<1>3. UnreportedMarked' /\ MarkerRead' /\ MarkedFirst'
  <2>1. CASE \E r \in Runners : Start(r) \/ Step(r) \/ Kill(r)
    BY <2>1, MarkRun
  <2> QED
    BY <2>1, MarkOther DEF Next
<1> QED
  BY <1>1, <1>2, <1>3 DEF MarkInv

\* When one check runs at a time, a repair that no row tells of has left the marker by which
\* the next check reports it, whichever write was lost, wherever the run was killed and
\* whatever backups and users did beside it (run_backup_integrity_check).
THEOREM RepairsOnRecord ==
    ASSUME "two checks" \notin Allowed
    PROVE  Spec => []RepairOnRecord
<1>1. Init => MarkInv
  BY MarkInit
<1>2. MarkInv /\ [Next]_vars => MarkInv'
  BY MarkStep
<1>3. MarkInv => RepairOnRecord
  BY DEF MarkInv, UnreportedMarked, RepairOnRecord
<1> QED
  BY <1>1, <1>2, <1>3, PTL DEF Spec
-----------------------------------------------------------------------------
(* Dates and copies *)

\* A run dates the row in hand, with the snapshot it has copied, and no other.
LEMMA LastStep ==
    ASSUME BInv, NEW r \in Runners, Start(r) \/ Step(r) \/ Kill(r), NEW i \in Ids, Live(i)'
    PROVE  /\ Live(i) /\ row'[i].dir = row[i].dir
           /\ \/ row'[i].last = row[i].last
              \/ /\ RecordCopy(r) /\ At(r, "copied")
                 /\ i = Hand(r).id
                 /\ row'[i].last = op[r].snap
<1>1. Live(i) /\ row'[i].dir = row[i].dir
  BY StepRows DEF Live
<1>2. CASE UNCHANGED row
  BY <1>1, <1>2
<1>3. CASE RecordCopy(r)
  BY <1>1, <1>3, RecordRow DEF Touches
<1>4. CASE SettleHealthy(r) \/ SettleBroken(r) \/ MarkBroken(r) \/ ReportRepair(r)
  BY <1>1, <1>4, CheckRow DEF Touches
<1> QED
  BY <1>1, <1>2, <1>3, <1>4, StepKinds

\* A run that has a snapshot took it now or had it.
LEMMA SnapStep ==
    ASSUME BInv, NEW r \in Runners, Start(r) \/ Step(r) \/ Kill(r),
           op'[r].at \in {"write", "copied", "failed"}
    PROVE  /\ \/ op'[r].snap = live
              \/ /\ op[r].at \in {"write", "copied", "failed"}
                 /\ op'[r].snap = op[r].snap
           /\ op'[r].at = "copied" => WriteCopy(r) /\ op'[r].todo = op[r].todo
<1>0. TypeOK /\ op \in [Runners -> GoodOp] /\ op[r] \in GoodOp
  BY DEF BInv
<1>1. ~Start(r) /\ ~Inspect(r)
  BY <1>0, StartGood, InspectOnward
<1>2. ~(SnapshotFails(r) \/ Kill(r))
  BY <1>0, EndsOnward DEF SnapshotFails, Kill, NoOp
<1>3. CASE TakeSnapshot(r)
  BY <1>0, <1>3, SnapshotOnward
<1>4. CASE WriteCopy(r)
  BY <1>0, <1>4, PlaceOnward DEF WriteCopy, At
<1>5. CASE CopyFails(r)
  BY <1>0, <1>5, PlaceOnward DEF CopyFails, At
<1>6. CASE RecordCopy(r)
  BY <1>0, <1>6, NextRowOnward DEF RecordCopy, NoOp
<1>7. ~(Repair(r) \/ RepairFails(r))
  BY <1>0, PlaceOnward DEF Repair, RepairFails, At
<1>8. ~NextRow(r, "settle") \/ op[r].at \notin CheckPlaces
  BY <1>0, NextRowOnward DEF NoOp
<1>9. ~(SettleHealthy(r) \/ SettleBroken(r) \/ ReportRepair(r))
  BY <1>8 DEF SettleHealthy, SettleBroken, ReportRepair, Settling, At, CheckPlaces
<1>10. ~MarkBroken(r)
  <2>1. MarkBroken(r) =>
          /\ op[r].at = "settle" /\ op[r].source # NoDir
          /\ Become(r, [op[r] EXCEPT !.at = "repair"]) \/ NextRow(r, "settle")
    BY DEF MarkBroken, Settling, At
  <2>2. ~(op[r].at = "settle" /\ NextRow(r, "settle"))
    BY <1>8 DEF CheckPlaces
  <2>3. ~(/\ op[r].at = "settle" /\ op[r].source # NoDir
          /\ Become(r, [op[r] EXCEPT !.at = "repair"]))
    BY <1>0, PlaceOnward
  <2> QED
    BY <2>1, <2>2, <2>3
<1> QED
  BY <1>1, <1>2, <1>3, <1>4, <1>5, <1>6, <1>7, <1>9, <1>10 DEF Step

LEMMA BackupPlace ==
    ASSUME op \in [Runners -> GoodOp], NEW r \in Runners
    PROVE  op[r].at \in {"snapshot", "write", "copied", "failed"} <=> op[r].kind = "backup"
<1>1. op[r] \in GoodOp
  OBVIOUS
<1> QED
  BY <1>1 DEF GoodOp, WellShaped, BackupPlaces

\* Every copy older than the date of its row was put there by a repair: the date is written
\* after the copy, and what replaced the copy in between was a repair.
LEMMA LastTrueStep ==
    ASSUME DateInv, NEW r \in Runners, Start(r) \/ Step(r) \/ Kill(r),
           NEW i \in Ids, Live(i)', Healthy(file'[row'[i].dir]), file'[row'[i].dir] < row'[i].last
    PROVE  row'[i].dir \in fromPeer'
<1>0. BInv /\ TypeOK /\ op \in [Runners -> GoodOp] /\ op[r] \in GoodOp
  BY DEF DateInv, BInv
<1> DEFINE d == row[i].dir
<1>1. Live(i) /\ row'[i].dir = d
  BY <1>0, LastStep
<1>2. d \in Dirs /\ row[i].last \in Versions \cup {Never}
  BY <1>0, <1>1, LiveRow
<1>3. Healthy(file[d]) /\ file[d] < row[i].last => d \in fromPeer
  BY <1>1 DEF DateInv, LastBackupTrue
<1> HIDE DEF d
<1>4. CASE row'[i].last = row[i].last
  <2>1. CASE UNCHANGED <<file, fromPeer>>
    BY <1>1, <1>3, <1>4, <2>1
  <2>2. CASE /\ UNCHANGED row
             /\ At(r, "write")
             /\ file' = [file EXCEPT ![Hand(r).dir] = op[r].snap]
             /\ fromPeer' = fromPeer \ {Hand(r).dir}
    <3>1. /\ file'[Hand(r).dir] = op[r].snap
          /\ \A e \in Dirs : e # Hand(r).dir => file'[e] = file[e]
          /\ op[r].snap \in Versions
      BY <1>0, <2>2, CopiedFile
    <3>2. row[i].last <= op[r].snap
      BY <1>1, <2>2 DEF DateInv, SnapshotNewest, At
    <3>3. d # Hand(r).dir
      BY <1>1, <1>2, <1>4, <3>1, <3>2, ConstantsOK DEF Versions, Never
    <3> QED
      BY <1>1, <1>2, <1>3, <1>4, <2>2, <3>1, <3>3
  <2>3. CASE At(r, "repair") /\ Healthy(file[op[r].source]) /\ Install(r)
    <3>1. /\ \A e \in Dirs : e # Hand(r).dir => file'[e] = file[e]
          /\ fromPeer' = fromPeer \cup {Hand(r).dir}
      BY <1>0, <2>3, InstalledFile
    <3> QED
      BY <1>1, <1>2, <1>3, <1>4, <3>1
  <2> QED
    BY <1>0, <2>1, <2>2, <2>3, StepKinds
<1>5. CASE /\ RecordCopy(r) /\ At(r, "copied")
           /\ i = Hand(r).id
           /\ row'[i].last = op[r].snap
  <2>1. UNCHANGED <<file, fromPeer>>
    BY <1>5 DEF RecordCopy, ghosts
  <2>2. Hand(r) \in op[r].todo /\ op[r].kind = "backup"
    BY <1>0, <1>5, HandIn, BackupPlace DEF At
  <2>3. d = Hand(r).dir
    BY <1>1, <1>5, <2>2 DEF DateInv, PlaceKept, d
  <2>4. file[d] = op[r].snap \/ d \in fromPeer
    BY <1>1, <1>5, <2>1, <2>3 DEF DateInv, CopyStands
  <2>5. op[r].snap \in Versions
    BY <1>0, <1>5 DEF At, GoodOp, WellShaped
  <2>6. ~(op[r].snap < op[r].snap)
    BY <2>5, ConstantsOK DEF Versions
  <2> QED
    BY <1>1, <1>5, <2>1, <2>4, <2>6
<1> QED
  BY <1>0, <1>4, <1>5, LastStep

LEMMA DateRun ==
    ASSUME DateInv, NEW r \in Runners, Start(r) \/ Step(r) \/ Kill(r)
    PROVE  LastBackupTrue' /\ DatesPast' /\ SnapshotNewest' /\ CopyStands' /\ PlaceKept'
<1>0. /\ BInv /\ TypeOK /\ op \in [Runners -> GoodOp] /\ op[r] \in GoodOp
      /\ DatesPast /\ SnapshotNewest /\ CopyStands /\ PlaceKept
  BY DEF DateInv, BInv
<1>1. live' = live
  BY <1>0, StepKinds
<1>2. \A s \in Runners : s # r => op'[s] = op[s]
  BY <1>0, StepOnward, InspectOnward, StartGood DEF Onward
<1>3. BInv' /\ op' \in [Runners -> GoodOp]
  BY <1>0, BInvStep DEF BInv, Next
<1>4. LastBackupTrue'
  BY LastTrueStep DEF LastBackupTrue
<1>5. \A i \in Ids : Live(i)' => Live(i) /\ row'[i].dir = row[i].dir
  BY <1>0, LastStep
<1>6. \A i \in Ids : Live(i)' =>
        \/ row'[i].last = row[i].last
        \/ At(r, "copied") /\ row'[i].last = op[r].snap
  BY <1>0, LastStep
<1>7. DatesPast'
  BY <1>0, <1>1, <1>5, <1>6 DEF DatesPast, SnapshotNewest, At
<1>8. SnapshotNewest'
  <2>1. ASSUME NEW s \in Runners, op'[s].at \in {"write", "copied", "failed"}
        PROVE  /\ op'[s].snap <= live'
               /\ \A i \in Ids : Live(i)' => row'[i].last <= op'[s].snap
    <3>1. CASE s # r
      <4>1. op'[s] = op[s] /\ op[s].kind = "backup"
        BY <1>0, <1>2, <2>1, <3>1, BackupPlace
      <4>2. op[r].kind # "backup"
        BY <3>1, <4>1 DEF DateInv, Only
      <4>3. ~At(r, "copied")
        BY <1>0, <4>2, BackupPlace DEF At
      <4> QED
        BY <1>0, <1>1, <1>5, <1>6, <2>1, <4>1, <4>3 DEF SnapshotNewest
    <3>2. CASE s = r
      <4>1. \/ op'[r].snap = live
            \/ /\ op[r].at \in {"write", "copied", "failed"}
               /\ op'[r].snap = op[r].snap
        BY <1>0, <2>1, <3>2, SnapStep
      <4>2. CASE op'[r].snap = live
        <5>1. live \in Versions
          BY <1>0 DEF TypeOK
        <5>2. live <= live
          BY <5>1, ConstantsOK DEF Versions
        <5>3. \A i \in Ids : Live(i)' => row'[i].last <= live'
          BY <1>7 DEF DatesPast
        <5> QED
          BY <1>1, <3>2, <4>2, <5>2, <5>3
      <4>3. CASE /\ op[r].at \in {"write", "copied", "failed"}
                 /\ op'[r].snap = op[r].snap
        <5>1. op[r].snap \in Versions
          BY <1>0, <4>3 DEF GoodOp, WellShaped
        <5>2. op[r].snap <= op[r].snap
          BY <5>1, ConstantsOK DEF Versions
        <5> QED
          BY <1>0, <1>1, <1>5, <1>6, <3>2, <4>3, <5>2 DEF SnapshotNewest
      <4> QED
        BY <4>1, <4>2, <4>3
    <3> QED
      BY <3>1, <3>2
  <2> QED
    BY <2>1 DEF SnapshotNewest
<1>9. CopyStands'
  <2>1. ASSUME NEW s \in Runners, op'[s].at = "copied", Healthy(file'[Hand(s)'.dir])
        PROVE  file'[Hand(s)'.dir] = op'[s].snap \/ Hand(s)'.dir \in fromPeer'
    <3>1. CASE s # r
      <4>1. op'[s] = op[s] /\ op[s].kind = "backup" /\ op[s].at = "copied"
        BY <1>0, <1>2, <2>1, <3>1, BackupPlace
      <4>2. op[r].kind # "backup"
        BY <3>1, <4>1 DEF DateInv, Only
      <4>3. ~At(r, "write") /\ ~RecordCopy(r)
        BY <1>0, <4>2, BackupPlace DEF At, RecordCopy
      <4>4. Hand(s)' = Hand(s) /\ Hand(s).dir \in Dirs
        BY <1>0, <4>1, Same, HandIn
      <4>5. CASE UNCHANGED <<file, fromPeer>>
        BY <1>0, <2>1, <4>1, <4>4, <4>5 DEF CopyStands, At
      <4>6. CASE At(r, "repair") /\ Healthy(file[op[r].source]) /\ Install(r)
        <5>1. /\ \A e \in Dirs : e # Hand(r).dir => file'[e] = file[e]
              /\ fromPeer' = fromPeer \cup {Hand(r).dir}
          BY <1>0, <4>6, InstalledFile
        <5> QED
          BY <1>0, <2>1, <4>1, <4>4, <5>1 DEF CopyStands, At
      <4> QED
        BY <1>0, <4>3, <4>5, <4>6, StepKinds
    <3>2. CASE s = r
      <4>1. WriteCopy(r) /\ op'[r].todo = op[r].todo
        BY <1>0, <2>1, <3>2, SnapStep
      <4>2. At(r, "write") /\ file' = [file EXCEPT ![Hand(r).dir] = op[r].snap]
        BY <4>1 DEF WriteCopy
      <4>3. Hand(r)' = Hand(r)
        BY <4>1 DEF Hand
      <4>4. op'[r].snap = op[r].snap
        BY <1>0, <4>1, PlaceOnward DEF WriteCopy, At
      <4> QED
        BY <1>0, <3>2, <4>2, <4>3, <4>4, CopiedFile
    <3> QED
      BY <3>1, <3>2
  <2> QED
    BY <2>1 DEF CopyStands, At
<1>10. PlaceKept'
  <2>1. ASSUME NEW s \in Runners, op'[s].kind = "backup", NEW x \in op'[s].todo, Live(x.id)'
        PROVE  row'[x.id].dir = x.dir
    <3>1. x.id \in Ids
      <4>1. op'[s] \in GoodOp
        BY <1>3
      <4> QED
        BY <2>1, <4>1 DEF GoodOp, Op, Item
    <3>2. Live(x.id) /\ row'[x.id].dir = row[x.id].dir
      BY <1>5, <2>1, <3>1
    <3>3. CASE x \in op[s].todo /\ op[s].kind = "backup"
      BY <1>0, <3>2, <3>3 DEF PlaceKept
    <3>4. CASE s = r /\ Start(r)
      <4>1. x \in Enabled
        BY <1>0, <2>1, <3>4, StartGood
      <4> QED
        BY <1>0, <3>2, <4>1, EnabledItems
    <3>5. CASE s = r /\ Inspect(r)
      <4>1. op[r].kind = "backup" /\ op[r].at = "inspect"
        BY <1>0, <2>1, <3>5, InspectOnward DEF Inspect, At
      <4> QED
        BY <1>0, <4>1, BackupPlace
    <3>6. CASE s = r /\ ~Start(r) /\ ~Inspect(r)
      <4>1. Onward(r)
        BY <1>0, <3>6, StepOnward
      <4> QED
        BY <2>1, <3>3, <3>6, <4>1 DEF Onward
    <3> QED
      BY <1>2, <2>1, <3>3, <3>4, <3>5, <3>6
  <2> QED
    BY <2>1 DEF PlaceKept
<1> QED
  BY <1>4, <1>7, <1>8, <1>9, <1>10

LEMMA DateOther ==
    ASSUME "move" \notin Allowed, DateInv,
           \/ \E i \in Ids : Configure(i)
           \/ Commit
           \/ \E d \in Dirs : Damage(d)
           \/ UNCHANGED vars
    PROVE  LastBackupTrue' /\ DatesPast' /\ SnapshotNewest' /\ CopyStands' /\ PlaceKept'
<1>0. /\ BInv /\ TypeOK /\ op \in [Runners -> GoodOp] /\ ItemsKnown
      /\ LastBackupTrue /\ DatesPast /\ SnapshotNewest /\ CopyStands /\ PlaceKept
  BY DEF DateInv, BInv
<1>1. op' = op
  BY <1>0, OtherInv
<1>2. \A s \in Runners : Hand(s)' = Hand(s) /\ op'[s] = op[s]
  BY <1>1, Same
<1>3. live \in Versions /\ Versions \subseteq Nat
  BY <1>0, ConstantsOK DEF TypeOK, Versions
<1>4. CASE \E i \in Ids : Configure(i)
  <2>1. PICK i \in Ids : Configure(i)
    BY <1>4
  <2>2. /\ \A j \in Ids : j # i => row'[j] = row[j]
        /\ row'[i] # Unused
        /\ UNCHANGED <<live, file, op, fromPeer>>
        /\ \/ row[i] = Unused /\ row'[i].last = Never
           \/ /\ Live(i) /\ row'[i].last = row[i].last
              /\ \/ row'[i].dir = row[i].dir
                 \/ row[i].last = Never /\ Alone("move", "backup")
           \/ row'[i] = Deleted
    BY <1>0, <2>1, ConfigureRow
  <2>3. ASSUME NEW j \in Ids, Live(j)'
        PROVE  row'[j].last = Never \/ (Live(j) /\ row'[j].last = row[j].last)
    BY <2>2, <2>3 DEF Live, NoRows
  <2>4. ASSUME NEW j \in Ids, Live(j)', row'[j].last # Never
        PROVE  row'[j].dir = row[j].dir
    BY <2>2, <2>4 DEF Live, NoRows
  <2>5. LastBackupTrue'
    <3>1. ASSUME NEW j \in Ids, Live(j)', Healthy(file'[row'[j].dir]),
                 file'[row'[j].dir] < row'[j].last
          PROVE  row'[j].dir \in fromPeer'
      <4>0. file'[row'[j].dir] \in Nat
        BY <1>3, <3>1 DEF Healthy
      <4>a. \A n \in Nat : ~(n < Never)
        BY DEF Never
      <4>1. row'[j].last # Never
        BY <3>1, <4>0, <4>a
      <4>2. Live(j) /\ row'[j].last = row[j].last /\ row'[j].dir = row[j].dir
        BY <2>3, <2>4, <3>1, <4>1
      <4> QED
        BY <1>0, <2>2, <3>1, <4>2 DEF LastBackupTrue
    <3> QED
      BY <3>1 DEF LastBackupTrue
  <2>6. DatesPast'
    BY <1>0, <1>3, <2>2, <2>3 DEF DatesPast, Never
  <2>7. SnapshotNewest'
    <3>1. ASSUME NEW s \in Runners, op[s].at \in {"write", "copied", "failed"},
                 NEW j \in Ids, Live(j)'
          PROVE  row'[j].last <= op[s].snap
      <4>1. op[s] \in GoodOp
        BY <1>0
      <4>2. op[s].snap \in Nat
        BY <1>3, <3>1, <4>1 DEF GoodOp, WellShaped
      <4> QED
        BY <1>0, <2>3, <3>1, <4>2 DEF SnapshotNewest, Never
    <3> QED
      BY <1>0, <1>2, <2>2, <3>1 DEF SnapshotNewest
  <2>8. CopyStands'
    BY <1>0, <1>2, <2>2 DEF CopyStands, At
  <2>9. PlaceKept'
    <3>1. ASSUME NEW s \in Runners, op[s].kind = "backup", NEW x \in op[s].todo, Live(x.id)'
          PROVE  row'[x.id].dir = x.dir
      <4>1. x \in Items(s) /\ x.id \in Ids
        BY <1>0, <3>1, ItemIds DEF Items
      <4>2. row[x.id] # Unused
        BY <1>0, <4>1 DEF ItemsKnown
      <4>3. ~Alone("move", "backup")
        BY <3>1 DEF Alone
      <4>4. Live(x.id) /\ row'[x.id].dir = row[x.id].dir
        BY <2>2, <3>1, <4>1, <4>2, <4>3 DEF Live, NoRows
      <4> QED
        BY <1>0, <3>1, <4>4 DEF PlaceKept
    <3> QED
      BY <1>2, <3>1 DEF PlaceKept
  <2> QED
    BY <2>5, <2>6, <2>7, <2>8, <2>9
<1>5. CASE Commit
  <2>1. live' = live + 1 /\ UNCHANGED <<file, row, op, fromPeer>>
    BY <1>5 DEF Commit, ghosts
  <2>2. ASSUME NEW i \in Ids, Live(i)
        PROVE  row[i].last \in Int
    <3>1. row[i].last \in Versions \cup {Never}
      BY <1>0, <2>2, LiveRow
    <3>2. Never \in Int
      BY DEF Never
    <3>3. CASE row[i].last = Never
      BY <3>2, <3>3, Zenon
    <3>4. CASE row[i].last \in Versions
      <4>1. \A n \in Versions : n \in Int
        BY ConstantsOK DEF Versions
      <4> QED
        BY <3>4, <4>1, Zenon
    <3> QED
      BY <3>1, <3>3, <3>4
  <2>3. DatesPast'
    BY <1>0, <1>3, <2>1, <2>2 DEF DatesPast, Live
  <2>4. SnapshotNewest'
    <3>1. ASSUME NEW s \in Runners, op[s].at \in {"write", "copied", "failed"}
          PROVE  op[s].snap <= live + 1
      <4>1. op[s] \in GoodOp
        BY <1>0
      <4>2. op[s].snap \in Nat
        BY <1>3, <3>1, <4>1 DEF GoodOp, WellShaped
      <4> QED
        BY <1>0, <1>3, <3>1, <4>2 DEF SnapshotNewest
    <3> QED
      BY <1>0, <2>1, <3>1 DEF SnapshotNewest, Live
  <2> QED
    BY <1>0, <1>2, <2>1, <2>3, <2>4 DEF LastBackupTrue, CopyStands, PlaceKept, Live, At
<1>6. CASE \E d \in Dirs : Damage(d)
  <2>1. PICK d \in Dirs : Damage(d)
    BY <1>6
  <2>2. PICK what \in {Missing, Corrupt} : file' = [file EXCEPT ![d] = what]
    BY <2>1 DEF Damage
  <2>3. /\ file'[d] = what
        /\ \A e \in Dirs : e # d => file'[e] = file[e]
    BY <1>0, <2>2, SetFile
  <2>4. UNCHANGED <<live, row, op, fromPeer>>
    BY <2>1 DEF Damage, ghosts
  <2>5. \A e \in Dirs : Healthy(file'[e]) => file'[e] = file[e]
    BY <1>3, <2>3, ConstantsOK DEF Healthy
  <2>6. LastBackupTrue'
    <3>1. \A i \in Ids : Live(i) => row[i].dir \in Dirs
      BY <1>0, LiveRow
    <3> QED
      BY <1>0, <2>4, <2>5, <3>1 DEF LastBackupTrue, Live
  <2>7. CopyStands'
    <3>1. ASSUME NEW s \in Runners, op[s].at = "copied"
          PROVE  Hand(s).dir \in Dirs
      BY <1>0, <3>1, HandIn
    <3> QED
      BY <1>0, <1>2, <2>4, <2>5, <3>1 DEF CopyStands, At
  <2> QED
    BY <1>0, <1>2, <2>4, <2>6, <2>7 DEF DatesPast, SnapshotNewest, PlaceKept, Live
<1>7. CASE UNCHANGED vars
  BY <1>0, <1>2, <1>7
     DEF vars, ghosts, LastBackupTrue, DatesPast, SnapshotNewest, CopyStands, PlaceKept, Live, At
<1> QED
  BY <1>4, <1>5, <1>6, <1>7

LEMMA DateInit ==
    ASSUME Init
    PROVE  DateInv
<1>1. BInv
  BY BInvInit
<1>2. \A r \in Runners : op[r].kind = "none" /\ op[r].at = "idle"
  BY DEF Init, NoOp
<1>3. \A i \in Ids : ~Live(i)
  BY DEF Init, Live, NoRows
<1> QED
  BY <1>1, <1>2, <1>3
     DEF DateInv, Only, LastBackupTrue, DatesPast, SnapshotNewest, CopyStands, PlaceKept, At

LEMMA DateStep ==
    ASSUME Allowed \cap {"two backups", "move"} = {}, DateInv, [Next]_vars
    PROVE  DateInv'
<1>1. BInv'
  BY BInvStep DEF DateInv
<1>2. Only("backup")'
  BY OnlyStep DEF DateInv
<1>3. LastBackupTrue' /\ DatesPast' /\ SnapshotNewest' /\ CopyStands' /\ PlaceKept'
  <2>1. CASE \E r \in Runners : Start(r) \/ Step(r) \/ Kill(r)
    BY <2>1, DateRun
  <2> QED
    BY <2>1, DateOther DEF Next
<1> QED
  BY <1>1, <1>2, <1>3 DEF DateInv

\* When one backup runs at a time and a destination that has a date keeps its directory, a
\* healthy copy older than the backup its row dates was put there by a repair, whatever
\* checks, users and damage do beside it (run_all_backups, update_db_backup_last_backup).
THEOREM LastBackupsTrue ==
    ASSUME Allowed \cap {"two backups", "move"} = {}
    PROVE  Spec => []LastBackupTrue
<1>1. Init => DateInv
  BY DateInit
<1>2. DateInv /\ [Next]_vars => DateInv'
  BY DateStep
<1>3. DateInv => LastBackupTrue
  BY DEF DateInv
<1> QED
  BY <1>1, <1>2, <1>3, PTL DEF Spec

\* Under both hypotheses all that the rows say of the copies is true.
THEOREM RowsAreTrue ==
    ASSUME Allowed = {}
    PROVE  Spec => []RowsTellTruth
<1>1. Spec => []TypeOK
  BY TypeCorrect
<1>2. Spec => []RepairOnRecord
  BY RepairsOnRecord
<1>3. Spec => []LastBackupTrue
  BY LastBackupsTrue
<1>4. TypeOK /\ RepairOnRecord /\ LastBackupTrue => RowsTellTruth
  BY DEF RowsTellTruth
<1> QED
  BY <1>1, <1>2, <1>3, <1>4, PTL

-----------------------------------------------------------------------------
(* Restores: the invariants *)

\* No process opens the database beside one that has it open while a restore is
\* pending, nor commits while one is applied, and none is staged meanwhile.
Ordered == RestoreAllowed \subseteq {"uncheckpointed", "same second"}

\* No safety copy is written over one of the same second when a restore was applied
\* between the two.
Apart == "same second" \notin RestoreAllowed

\* Who has got past the look at the pending file, and who serves.
Changing(p) == proc[p].at \in {"keep", "clear", "swap"}
HasOpen(p) == proc[p].at \in {"migrate", "open"}

\* A restore is staged by a process that has the database open while nobody
\* applies one.
StagedOK ==
    staging.at # "idle" =>
        proc[staging.by].at = "open" /\ \A p \in Procs : proc[p].at \notin Applying

\* A file for every restore at most: the one under way, or pending, is not there yet.
GenOK == main.gen + (IF staged = Nothing /\ staging.at = "idle" THEN 0 ELSE 1) <= restores

\* Who applies a restore works on a whole file and on a database that nobody has
\* open, unless the other one was faster.
AppliedOK ==
    \A p \in Procs :
        /\ Changing(p) => staged # Torn
        /\ proc[p].at \in Applying /\ staged # Nothing => ~HasOpen(Other(p))
        /\ proc[p].at = "swap" => log = NoLog

\* A process that has the database open has opened the file at the path, which has
\* seen the migrations that the process has gone through.
OpenedOK ==
    \A p \in Procs : HasOpen(p) =>
        /\ proc[p].gen = main.gen
        /\ proc[p].step <= main.schema
        /\ proc[p].at = "open" => proc[p].step = Migrations

\* The inductive invariant of the files.
RInv == RestoreTypeOK /\ StagedOK /\ GenOK /\ AppliedOK /\ OpenedOK /\ LogMatches

\* A restore that is pending finds the log in the main file, and the main file in a
\* safety copy before it is replaced.
DryOK ==
    /\ staged # Nothing /\ (\A p \in Procs : ~HasOpen(p)) => Logged \subseteq main.data
    /\ \A p \in Procs : Changing(p) /\ staged = Nothing => log = NoLog
SafeOK ==
    \A p \in Procs : proc[p].at \in {"clear", "swap"} /\ staged # Nothing => main.data \subseteq Saved

\* The safety copy of this second holds what a file held that is still there, or was
\* there: nothing that the file at the path has lost.
LastOK ==
    /\ safe.gen <= main.gen
    /\ safe.gen = main.gen => safe.last \subseteq main.data

\* The inductive invariant of the commits, beside RInv.
KInv == CommitsKept /\ DryOK /\ SafeOK /\ LastOK
-----------------------------------------------------------------------------
(* Processes, places and types *)

LEMMA TwoProcs ==
    \A p \in Procs : Other(p) \in Procs /\ Other(p) # p /\ \A q \in Procs : q = p \/ q = Other(p)
<1>1. ASSUME NEW p \in Procs PROVE \E q \in Procs : q # p
  BY DEF Procs
<1>2. \A p \in Procs : Other(p) \in Procs /\ Other(p) # p
  BY <1>1 DEF Other
<1>3. QED
  BY <1>2 DEF Procs

\* The places differ.
LEMMA PlacesAre ==
    /\ Applying = {"look", "keep", "clear", "swap"}
    /\ \A p \in Procs : Changing(p) => proc[p].at \in Applying
    /\ \A p \in Procs : HasOpen(p) => proc[p].at \notin Applying
  BY DEF Applying, Changing, HasOpen

\* What one process does leaves the other where it is.
LEMMA BecomeIs ==
    ASSUME RestoreTypeOK, NEW p \in Procs, NEW o \in ProcState, ProcBecomes(p, o)
    PROVE  /\ proc' \in [Procs -> ProcState] /\ proc'[p] = o
           /\ \A q \in Procs : q # p => proc'[q] = proc[q]
  BY DEF RestoreTypeOK, ProcBecomes

LEMMA GoIs ==
    ASSUME RestoreTypeOK, NEW p \in Procs, NEW place \in Applying, Go(p, place)
    PROVE  /\ proc' \in [Procs -> ProcState] /\ proc'[p].at = place
           /\ \A q \in Procs : q # p => proc'[q] = proc[q]
<1>1. proc[p] \in ProcState
  BY DEF RestoreTypeOK
<1>2. [proc[p] EXCEPT !.at = place] \in ProcState /\ [proc[p] EXCEPT !.at = place].at = place
  BY <1>1 DEF ProcState
<1>3. QED
  BY <1>2, BecomeIs DEF Go

LEMMA ClosedIs == Closed \in ProcState /\ Closed.at = "down"
  BY RestoreConstantsOK DEF Closed, ProcState, Migrations

LEMMA ConnectIs ==
    ASSUME RestoreTypeOK, NEW p \in Procs, NEW gen \in 0..MaxRestores, Connect(p, gen)
    PROVE  /\ proc' \in [Procs -> ProcState]
           /\ proc'[p].at = "migrate" /\ proc'[p].gen = gen /\ proc'[p].step = 0
           /\ \A q \in Procs : q # p => proc'[q] = proc[q]
<1>1. [at |-> "migrate", gen |-> gen, step |-> 0] \in ProcState
  BY DEF ProcState, Migrations
<1>2. QED
  BY <1>1, BecomeIs DEF Connect

LEMMA NotStagingIs == NotStaging \in Staging /\ NotStaging.at = "idle" /\ Empty \in Database
  BY DEF NotStaging, Staging, Empty, Database, Procs, Migrations

\* The numbers.
LEMMA NumbersAre ==
    ASSUME RestoreTypeOK
    PROVE  /\ main.gen \in Nat /\ main.schema \in 0..Migrations /\ main.data \subseteq Commits
           /\ restores \in Nat /\ restores <= MaxRestores /\ MaxRestores \in Nat
           /\ commits \in Nat /\ commits <= MaxCommits /\ MaxCommits \in Nat
           /\ main.gen <= MaxRestores
  BY RestoreConstantsOK DEF RestoreTypeOK, MainFile

\* What the log holds.
LEMMA ContentIs ==
    ASSUME RestoreTypeOK
    PROVE  /\ Logged \subseteq Commits /\ Content \subseteq Commits
           /\ main.data \subseteq Content /\ Logged \subseteq Content
           /\ Checkpointed \in MainFile /\ Checkpointed.data = Content
           /\ Checkpointed.gen = main.gen /\ Checkpointed.schema = main.schema
<1>1. Logged \subseteq Commits
  BY DEF Logged, RestoreTypeOK, LogFile
<1>2. main \in MainFile
  BY DEF RestoreTypeOK
<1>3. Content \subseteq Commits /\ main.data \subseteq Content /\ Logged \subseteq Content
  BY <1>1, <1>2 DEF Content, MainFile
<1>4. QED
  BY <1>1, <1>2, <1>3 DEF Checkpointed, MainFile

\* A safety copy is typed, and holds the main file.
LEMMA CopyIs ==
    ASSUME RestoreTypeOK, SafetyCopy
    PROVE  /\ safe' \in SafetyCopies /\ main.data \subseteq Saved'
           /\ safe'.kept = safe.kept /\ safe'.last = main.data /\ safe'.gen = main.gen
<1>1. safe \in SafetyCopies /\ main.data \subseteq Commits /\ main.gen \in 0..MaxRestores
  BY NumbersAre DEF RestoreTypeOK
<1>2. safe' = [safe EXCEPT !.last = main.data, !.gen = main.gen]
  BY DEF SafetyCopy
<1>3. QED
  BY <1>1, <1>2 DEF SafetyCopies, Saved

\* The copy of a second that has passed stays.
LEMMA PassIs ==
    ASSUME RestoreTypeOK, SecondPasses
    PROVE  /\ safe' \in SafetyCopies /\ Saved' = Saved /\ safe'.last = {} /\ safe'.gen = 0
           /\ UNCHANGED <<main, log, staged, backups, proc, staging, commits, restores, kills>>
<1>1. safe \in SafetyCopies /\ 0 \in 0..MaxRestores
  BY RestoreConstantsOK DEF RestoreTypeOK
<1>2. safe' = [kept |-> Saved, last |-> {}, gen |-> 0]
  BY DEF SecondPasses
<1>3. QED
  BY <1>1, <1>2 DEF SafetyCopies, Saved, SecondPasses, counts

\* When no restore was applied in between, a copy is written over one that holds less.
LEMMA CopyKeeps ==
    ASSUME RestoreTypeOK, LastOK, SafetyCopy, Apart
    PROVE  Saved \subseteq Saved'
<1>1. safe.last \subseteq main.data
  BY DEF SafetyCopy, LastOK, Apart
<1>2. QED
  BY <1>1, CopyIs DEF Saved

\* Who serves is attached to the file at the path.
LEMMA AttachedIs ==
    ASSUME RInv, NEW p \in Procs
    PROVE  Attached(p) <=> HasOpen(p)
  BY DEF RInv, OpenedOK, Attached, HasOpen
-----------------------------------------------------------------------------
(* Opening the database *)

\* A step of one process that changes neither a file nor what is staged.
LEMMA OneMoves ==
    ASSUME RInv, NEW p \in Procs, proc' \in [Procs -> ProcState],
           \A q \in Procs : q # p => proc'[q] = proc[q],
           staging.at # "idle" => proc'[p].at \notin Applying /\ (proc'[p].at = proc[p].at \/ staging.by # p),
           proc'[p].at \in Applying /\ staged # Nothing => ~HasOpen(Other(p)),
           HasOpen(p)' => staged = Nothing \/ proc[Other(p)].at \notin Applying,
           Changing(p)' => staged # Torn,
           proc'[p].at = "swap" => log = NoLog,
           HasOpen(p)' => /\ proc'[p].gen = main.gen /\ proc'[p].step <= main.schema
                          /\ proc'[p].at = "open" => proc'[p].step = Migrations,
           UNCHANGED <<main, log, staged, backups, staging, counts>>, safe' \in SafetyCopies
    PROVE  RInv'
<1> USE DEF counts
<1>1. RestoreTypeOK'
  BY DEF RInv, RestoreTypeOK
<1>2. StagedOK'
  <2>1. ASSUME staging.at # "idle" PROVE proc'[staging.by].at = "open" /\ \A q \in Procs : proc'[q].at \notin Applying
    <3>1. proc[staging.by].at = "open" /\ \A q \in Procs : proc[q].at \notin Applying
      BY <2>1 DEF RInv, StagedOK
    <3>2. staging.by \in Procs
      BY DEF RInv, RestoreTypeOK, Staging
    <3>3. proc'[staging.by].at = "open"
      BY <2>1, <3>1, <3>2
    <3>4. QED
      BY <2>1, <3>1, <3>3
  <2>2. QED
    BY <2>1 DEF StagedOK
<1>3. GenOK' /\ LogMatches'
  BY DEF RInv, GenOK, LogMatches
<1>4. AppliedOK'
  <2>1. ASSUME NEW q \in Procs
        PROVE  /\ Changing(q)' => staged # Torn
               /\ proc'[q].at \in Applying /\ staged # Nothing => ~HasOpen(Other(q))'
               /\ proc'[q].at = "swap" => log = NoLog
    <3>1. CASE q = p
      BY <3>1, TwoProcs DEF HasOpen
    <3>2. CASE q # p
      <4>1. proc'[q] = proc[q] /\ p = Other(q) /\ q = Other(p)
        BY <3>2, TwoProcs
      <4>2. /\ Changing(q) => staged # Torn
            /\ proc[q].at = "swap" => log = NoLog
        BY DEF RInv, AppliedOK
      <4>3. proc'[q].at \in Applying /\ staged # Nothing => ~HasOpen(p)'
        BY <4>1
      <4>4. QED
        BY <4>1, <4>2, <4>3 DEF Changing
    <3>3. QED
      BY <3>1, <3>2
  <2>2. QED
    BY <2>1, TwoProcs DEF AppliedOK, HasOpen
<1>5. OpenedOK'
  <2>1. ASSUME NEW q \in Procs, HasOpen(q)'
        PROVE  /\ proc'[q].gen = main.gen /\ proc'[q].step <= main.schema
               /\ proc'[q].at = "open" => proc'[q].step = Migrations
    BY <2>1 DEF RInv, OpenedOK, HasOpen
  <2>2. QED
    BY <2>1 DEF OpenedOK
<1>6. QED
  BY <1>1, <1>2, <1>3, <1>4, <1>5 DEF RInv

\* The steps of apply_pending_restore before the rename.
LEMMA OpenSteps ==
    ASSUME Ordered, RInv, NEW p \in Procs, Open(p) \/ Verified(p)
    PROVE  RInv'
<1> USE DEF ProcAt, Whole
<1>0. RestoreTypeOK /\ "look" \in Applying /\ "keep" \in Applying
  BY PlacesAre DEF RInv
<1>1. CASE Open(p)
  <2>1. proc' \in [Procs -> ProcState] /\ proc'[p].at = "look" /\ \A q \in Procs : q # p => proc'[q] = proc[q]
    BY <1>0, <1>1, GoIs DEF Open
  <2>2. staging.at = "idle" /\ (staged = Nothing \/ ~HasOpen(Other(p)))
        /\ UNCHANGED <<main, log, staged, safe, backups, staging, counts>>
    BY <1>1 DEF Open, Ordered, HasOpen
  <2>3. safe' \in SafetyCopies
    BY <1>0, <2>2 DEF RestoreTypeOK
  <2>4. ~HasOpen(p)' /\ ~Changing(p)'
    BY <2>1 DEF HasOpen, Changing
  <2>5. QED
    BY <2>1, <2>2, <2>3, <2>4, OneMoves
<1>2. CASE Verified(p)
  <2>1. proc' \in [Procs -> ProcState] /\ proc'[p].at = "keep" /\ \A q \in Procs : q # p => proc'[q] = proc[q]
    BY <1>0, <1>2, GoIs DEF Verified
  <2>2. proc[p].at = "look" /\ staged \notin {Nothing, Torn}
        /\ UNCHANGED <<main, log, staged, safe, backups, staging, counts>>
    BY <1>2 DEF Verified
  <2>3. safe' \in SafetyCopies
    BY <1>0, <2>2 DEF RestoreTypeOK
  <2>4. ~HasOpen(p)'
    BY <2>1 DEF HasOpen
  <2>5. staging.at = "idle" /\ (staged # Nothing => ~HasOpen(Other(p)))
    BY <1>0, <2>2 DEF RInv, StagedOK, AppliedOK
  <2>6. QED
    BY <2>1, <2>2, <2>3, <2>4, <2>5, OneMoves
<1>3. QED
  BY <1>1, <1>2

LEMMA KeepSteps == ASSUME RInv, NEW p \in Procs, Keep(p) PROVE RInv'
<1> USE DEF ProcAt
<1>1. proc[p].at = "keep" /\ proc[p].at \in Applying /\ RestoreTypeOK /\ "clear" \in Applying
  BY PlacesAre DEF Keep, RInv
<1>2. proc' \in [Procs -> ProcState] /\ proc'[p].at = "clear" /\ \A q \in Procs : q # p => proc'[q] = proc[q]
  BY <1>1, GoIs DEF Keep
<1>3. safe' \in SafetyCopies /\ UNCHANGED <<main, log, staged, backups, staging, counts>>
  BY <1>1, CopyIs DEF Keep
<1>4. staging.at = "idle" /\ staged # Torn /\ (staged # Nothing => ~HasOpen(Other(p)))
  BY <1>1 DEF RInv, StagedOK, AppliedOK, Changing
<1>5. ~HasOpen(p)'
  BY <1>2 DEF HasOpen
<1>6. QED
  BY <1>2, <1>3, <1>4, <1>5, OneMoves

LEMMA ClosingSteps ==
    ASSUME RInv, NEW p \in Procs, NotVerified(p) \/ SwapFails(p)
    PROVE  RInv'
<1> USE DEF ProcAt
<1>1. proc[p].at \in Applying /\ ProcBecomes(p, Closed) /\ RestoreTypeOK
      /\ UNCHANGED <<main, log, staged, safe, backups, staging, counts>>
  BY PlacesAre DEF NotVerified, SwapFails, RInv
<1>2. proc' \in [Procs -> ProcState] /\ proc'[p].at = "down" /\ \A q \in Procs : q # p => proc'[q] = proc[q]
  BY <1>1, ClosedIs, BecomeIs
<1>3. ~HasOpen(p)' /\ ~Changing(p)' /\ proc'[p].at \notin Applying
  BY <1>2 DEF HasOpen, Changing, Applying
<1>4. staging.at = "idle" /\ safe' \in SafetyCopies
  BY <1>1 DEF RInv, StagedOK, RestoreTypeOK
<1>5. QED
  BY <1>1, <1>2, <1>3, <1>4, OneMoves

LEMMA NothingSteps == ASSUME RInv, NEW p \in Procs, NothingPending(p) PROVE RInv'
<1> USE DEF ProcAt
<1>1. proc[p].at = "look" /\ proc[p].at \in Applying /\ RestoreTypeOK /\ staged = Nothing /\ Connect(p, main.gen)
      /\ UNCHANGED <<main, log, staged, safe, backups, staging, counts>>
  BY PlacesAre DEF NothingPending, RInv
<1>2. main.gen \in 0..MaxRestores /\ 0 <= main.schema
  BY <1>1, NumbersAre
<1>3. /\ proc' \in [Procs -> ProcState] /\ proc'[p].at = "migrate" /\ proc'[p].gen = main.gen /\ proc'[p].step = 0
      /\ \A q \in Procs : q # p => proc'[q] = proc[q]
  BY <1>1, <1>2, ConnectIs
<1>4. ~Changing(p)' /\ proc'[p].at \notin Applying
  BY <1>3 DEF Changing, Applying
<1>5. staging.at = "idle" /\ safe' \in SafetyCopies
  BY <1>1 DEF RInv, StagedOK, RestoreTypeOK
<1>6. QED
  BY <1>1, <1>2, <1>3, <1>4, <1>5, OneMoves

\* The log is removed before the rename: the other process has none to lose.
LEMMA ClearSteps == ASSUME RInv, NEW p \in Procs, Clear(p) PROVE RInv'
<1> USE DEF ProcAt, counts
<1>0. proc[p].at = "clear" /\ proc[p].at \in Applying /\ RestoreTypeOK /\ "swap" \in Applying
      /\ log' = NoLog /\ UNCHANGED <<main, staged, safe, backups, staging, counts>>
  BY PlacesAre DEF Clear, RInv
<1>1. proc' \in [Procs -> ProcState] /\ proc'[p].at = "swap" /\ \A q \in Procs : q # p => proc'[q] = proc[q]
  BY <1>0, GoIs DEF Clear
<1>2. staging.at = "idle" /\ staged # Torn /\ (staged # Nothing => ~HasOpen(Other(p)))
  BY <1>0 DEF RInv, StagedOK, AppliedOK, Changing
<1>3. ~HasOpen(p)'
  BY <1>1 DEF HasOpen
<1>4. RestoreTypeOK' /\ StagedOK' /\ GenOK' /\ LogMatches'
  BY <1>0, <1>1, <1>2 DEF RInv, RestoreTypeOK, StagedOK, GenOK, LogMatches
<1>5. AppliedOK'
  <2>1. ASSUME NEW q \in Procs
        PROVE  proc'[q].at \in Applying /\ staged # Nothing => ~HasOpen(Other(q))'
    <3>1. CASE q = p
      <4>1. proc'[Other(p)] = proc[Other(p)]
        BY <1>1, TwoProcs
      <4>2. QED
        BY <1>2, <3>1, <4>1, TwoProcs DEF HasOpen
    <3>2. CASE q # p
      BY <1>3, <3>2, TwoProcs
    <3>3. QED
      BY <3>1, <3>2
  <2>2. QED
    BY <1>0, <1>2, <2>1, TwoProcs DEF AppliedOK, HasOpen
<1>6. OpenedOK'
  BY <1>0, <1>1, <1>3 DEF RInv, OpenedOK, HasOpen
<1>7. QED
  BY <1>4, <1>5, <1>6 DEF RInv

\* The pending file is renamed over the database, which nobody has open.
LEMMA SwapIs ==
    ASSUME RInv, NEW p \in Procs, Swap(p)
    PROVE  /\ proc[p].at = "swap" /\ staged \in Database /\ staged' = Nothing
           /\ main' \in MainFile /\ main'.gen = main.gen + 1 /\ main'.data = staged.data
           /\ main'.schema \in 0..Migrations
           /\ log = NoLog /\ ~HasOpen(Other(p)) /\ staging.at = "idle"
           /\ proc' \in [Procs -> ProcState] /\ \A q \in Procs : q # p => proc'[q] = proc[q]
           /\ proc'[p].at = "migrate" /\ proc'[p].gen = main.gen + 1 /\ proc'[p].step = 0
           /\ UNCHANGED <<log, safe, backups, staging, counts>>
<1> USE DEF ProcAt
<1>1. /\ proc[p].at = "swap" /\ proc[p].at \in Applying /\ RestoreTypeOK /\ staged # Nothing /\ staged' = Nothing
      /\ Replace(staged) /\ Connect(p, main.gen + 1)
      /\ UNCHANGED <<log, safe, backups, staging, counts>>
  BY PlacesAre DEF Swap, RInv
<1>2. staged # Torn /\ log = NoLog /\ ~HasOpen(Other(p)) /\ staging.at = "idle"
  BY <1>1 DEF RInv, AppliedOK, StagedOK, Changing
<1>3. staged \in Database
  BY <1>1, <1>2 DEF RestoreTypeOK
<1>4. main.gen + 1 \in 0..MaxRestores
  BY <1>1, NumbersAre DEF RInv, GenOK
<1>5. main' = [data |-> staged.data, schema |-> staged.schema, gen |-> main.gen + 1]
  BY <1>1, <1>2 DEF Replace
<1>6. main' \in MainFile /\ main'.gen = main.gen + 1 /\ main'.data = staged.data
      /\ main'.schema \in 0..Migrations
  BY <1>3, <1>4, <1>5 DEF Database, MainFile
<1>7. /\ proc' \in [Procs -> ProcState] /\ \A q \in Procs : q # p => proc'[q] = proc[q]
      /\ proc'[p].at = "migrate" /\ proc'[p].gen = main.gen + 1 /\ proc'[p].step = 0
  BY <1>1, <1>4, ConnectIs
<1>8. QED
  BY <1>1, <1>2, <1>3, <1>6, <1>7

LEMMA SwapSteps == ASSUME RInv, NEW p \in Procs, Swap(p) PROVE RInv'
<1> USE DEF counts
<1>0. /\ proc[p].at = "swap" /\ staged \in Database /\ staged' = Nothing
      /\ main' \in MainFile /\ main'.gen = main.gen + 1 /\ main'.schema \in 0..Migrations
      /\ log = NoLog /\ ~HasOpen(Other(p)) /\ staging.at = "idle"
      /\ UNCHANGED <<log, safe, backups, staging, counts>>
  BY SwapIs
<1>1. /\ proc' \in [Procs -> ProcState] /\ \A q \in Procs : q # p => proc'[q] = proc[q]
      /\ proc'[p].at = "migrate" /\ proc'[p].gen = main.gen + 1 /\ proc'[p].step = 0
  BY SwapIs
<1>2. RestoreTypeOK'
  BY <1>0, <1>1 DEF RInv, RestoreTypeOK
<1>3. StagedOK' /\ LogMatches'
  BY <1>0 DEF StagedOK, LogMatches
<1>4. GenOK'
  <2>1. staged # Nothing
    BY DEF Swap
  <2>2. main.gen + 1 <= restores
    BY <1>0, <2>1 DEF RInv, GenOK
  <2>3. main'.gen + 0 <= restores
    BY <1>0, <2>2, NumbersAre DEF RInv
  <2>4. QED
    BY <1>0, <2>3 DEF GenOK
<1>5. AppliedOK'
  <2>1. staged' # Torn
    BY <1>0, RestoreConstantsOK
  <2>2. QED
    BY <1>0, <2>1 DEF AppliedOK
<1>6. OpenedOK'
  <2>1. ASSUME NEW q \in Procs, HasOpen(q)' PROVE q = p
    BY <1>0, <1>1, <2>1, TwoProcs DEF HasOpen
  <2>2. QED
    BY <1>0, <1>1, <2>1 DEF OpenedOK
<1>7. QED
  BY <1>2, <1>3, <1>4, <1>5, <1>6 DEF RInv

\* A migration: the file at the path has seen it when the process goes on.
LEMMA MigrateIs ==
    ASSUME RInv, NEW p \in Procs, NEW k \in 1..Migrations, MigrateTo(p, k)
    PROVE  /\ proc[p].at = "migrate"
           /\ main' \in MainFile /\ main'.gen = main.gen /\ main'.data = main.data
           /\ main'.schema >= main.schema /\ main'.schema >= k
           /\ proc' \in [Procs -> ProcState] /\ \A q \in Procs : q # p => proc'[q] = proc[q]
           /\ proc'[p].gen = proc[p].gen /\ proc'[p].step = k
           /\ proc'[p].at \in {"migrate", "open"} /\ (proc'[p].at = "open" => k = Migrations)
           /\ UNCHANGED <<log, staged, safe, backups, staging, counts>>
<1>1. /\ proc[p].at = "migrate" /\ HasOpen(p) /\ RestoreTypeOK
      /\ main' = IF Attached(p) THEN Migrated(k) ELSE main
      /\ UNCHANGED <<log, staged, safe, backups, staging, counts>>
  BY DEF MigrateTo, ProcAt, HasOpen, RInv
<1>2. Attached(p)
  BY <1>1, AttachedIs
<1>3. main' = [main EXCEPT !.schema = IF main.schema < k THEN k ELSE main.schema] /\ main \in MainFile
  BY <1>1, <1>2 DEF Migrated, RestoreTypeOK
<1>4. k \in 0..Migrations /\ main.schema \in 0..Migrations
  BY <1>1, NumbersAre DEF Migrations
<1>5. /\ main' \in MainFile /\ main'.gen = main.gen /\ main'.data = main.data
      /\ main'.schema = IF main.schema < k THEN k ELSE main.schema
  BY <1>3, <1>4 DEF MainFile
<1>6. main'.schema >= main.schema /\ main'.schema >= k
  BY <1>4, <1>5 DEF Migrations
<1>7. proc[p] \in ProcState
  BY <1>1 DEF RestoreTypeOK
<1> DEFINE o == [proc[p] EXCEPT !.step = k, !.at = IF k = Migrations THEN "open" ELSE proc[p].at]
<1>8. /\ o \in ProcState /\ o.gen = proc[p].gen /\ o.step = k
      /\ o.at \in {"migrate", "open"} /\ (o.at = "open" => k = Migrations)
  BY <1>1, <1>4, <1>7 DEF ProcState
<1>9. ProcBecomes(p, o)
  BY DEF MigrateTo
<1>10. proc' \in [Procs -> ProcState] /\ proc'[p] = o /\ \A q \in Procs : q # p => proc'[q] = proc[q]
  BY <1>1, <1>8, <1>9, BecomeIs
<1>11. QED
  BY <1>1, <1>5, <1>6, <1>8, <1>10

LEMMA MigrateSteps ==
    ASSUME RInv, NEW p \in Procs, NEW k \in 1..Migrations, MigrateTo(p, k)
    PROVE  RInv'
<1> USE DEF counts
<1>0. /\ proc[p].at = "migrate"
      /\ main' \in MainFile /\ main'.gen = main.gen
      /\ main'.schema >= main.schema /\ main'.schema >= k
      /\ UNCHANGED <<log, staged, safe, backups, staging, counts>>
  BY MigrateIs
<1>1. /\ proc' \in [Procs -> ProcState] /\ \A q \in Procs : q # p => proc'[q] = proc[q]
      /\ proc'[p].gen = proc[p].gen /\ proc'[p].step = k
      /\ proc'[p].at \in {"migrate", "open"} /\ (proc'[p].at = "open" => k = Migrations)
  BY MigrateIs
<1>2. HasOpen(p) /\ proc'[p].at \notin Applying /\ \A q \in Procs : HasOpen(q)' <=> HasOpen(q)
  BY <1>0, <1>1, TwoProcs DEF HasOpen, Applying
<1>3. RestoreTypeOK'
  BY <1>0, <1>1 DEF RInv, RestoreTypeOK
<1>4. StagedOK'
  <2>1. staging.at # "idle" => staging.by # p /\ staging.by \in Procs
    BY <1>0 DEF RInv, StagedOK, RestoreTypeOK, Staging
  <2>2. QED
    BY <1>0, <1>1, <1>2, <2>1 DEF RInv, StagedOK
<1>5. GenOK' /\ LogMatches'
  BY <1>0 DEF RInv, GenOK, LogMatches
<1>6. AppliedOK'
  <2>1. ASSUME NEW q \in Procs, proc'[q].at \in Applying PROVE q # p /\ proc'[q] = proc[q]
    BY <1>1, <1>2, <2>1
  <2>2. ASSUME NEW q \in Procs, Changing(q)' PROVE Changing(q)
    BY <1>1, <2>2 DEF Changing
  <2>3. ASSUME NEW q \in Procs, proc'[q].at = "swap" PROVE proc[q].at = "swap"
    BY <1>1, <2>3
  <2>4. QED
    BY <1>0, <1>2, <2>1, <2>2, <2>3, TwoProcs DEF RInv, AppliedOK
<1>7. OpenedOK'
  <2>1. ASSUME NEW q \in Procs, HasOpen(q)'
        PROVE  /\ proc'[q].gen = main'.gen /\ proc'[q].step <= main'.schema
               /\ proc'[q].at = "open" => proc'[q].step = Migrations
    <3>1. HasOpen(q) /\ proc[q].gen = main.gen
      BY <1>2, <2>1 DEF RInv, OpenedOK
    <3>2. CASE q = p
      <4>1. k <= main'.schema
        BY <1>0, <1>3, NumbersAre DEF RestoreTypeOK, MainFile, Migrations
      <4>2. QED
        BY <1>0, <1>1, <3>1, <3>2, <4>1
    <3>3. CASE q # p
      <4>1. proc'[q] = proc[q] /\ proc[q].step <= main.schema /\ (proc[q].at = "open" => proc[q].step = Migrations)
        BY <1>1, <3>1, <3>3 DEF RInv, OpenedOK
      <4>2. proc[q].step \in Nat /\ main.schema \in Nat /\ main'.schema \in Nat
        <5>1. proc[q] \in ProcState /\ main \in MainFile /\ main' \in MainFile
          BY <1>0 DEF RInv, RestoreTypeOK
        <5>2. QED
          BY <5>1 DEF ProcState, MainFile, Migrations
      <4>3. QED
        BY <1>0, <3>1, <4>1, <4>2
    <3>4. QED
      BY <3>2, <3>3
  <2>2. QED
    BY <2>1 DEF OpenedOK
<1>8. QED
  BY <1>3, <1>4, <1>5, <1>6, <1>7 DEF RInv

\* The steps of opening the database.
LEMMA OpeningSteps == ASSUME Ordered, RInv, NEW p \in Procs, Open(p) \/ Opening(p) PROVE RInv'
<1>1. CASE CreateTables(p) \/ AddColumns(p) \/ RebuildQueue(p)
  <2>1. 1 \in 1..Migrations /\ 2 \in 1..Migrations /\ 3 \in 1..Migrations
    BY DEF Migrations
  <2>2. QED
    BY <1>1, <2>1, MigrateSteps DEF CreateTables, AddColumns, RebuildQueue
<1>2. QED
  BY <1>1, OpenSteps, NothingSteps, ClosingSteps, KeepSteps, ClearSteps, SwapSteps DEF Opening
-----------------------------------------------------------------------------
(* Using the database *)

\* A step that moves no process, stages nothing and keeps the file.
LEMMA FilesMove ==
    ASSUME RInv, main' \in MainFile, main'.gen = main.gen, main'.schema = main.schema,
           log' \in LogFile \cup {NoLog}, log' # NoLog => log'.gen = main.gen,
           \A p \in Procs : proc[p].at = "swap" => log' = NoLog,
           UNCHANGED <<staged, proc, staging, restores>>,
           safe' \in SafetyCopies, backups' \subseteq Database,
           commits' \in 0..MaxCommits, kills' \in 0..MaxKills
    PROVE  RInv'
<1>1. RestoreTypeOK'
  BY DEF RInv, RestoreTypeOK
<1>2. StagedOK' /\ GenOK' /\ LogMatches'
  BY DEF RInv, StagedOK, GenOK, LogMatches
<1>3. AppliedOK' /\ OpenedOK'
  BY TwoProcs DEF RInv, AppliedOK, OpenedOK, HasOpen, Changing
<1>4. QED
  BY <1>1, <1>2, <1>3 DEF RInv

\* A commit goes to the log of the database at the path.
LEMMA CommitIs ==
    ASSUME Ordered, RInv, NEW p \in Procs, CommitOne(p)
    PROVE  /\ proc[p].at = "open" /\ HasOpen(p) /\ ~Changing(Other(p))
           /\ commits' = commits + 1 /\ commits' \in Commits
           /\ log' \in LogFile /\ log' # NoLog
           /\ log'.data = Logged \cup {commits'} /\ log'.gen = main.gen
           /\ UNCHANGED <<main, staged, safe, backups, proc, staging, restores, kills>>
<1>1. /\ proc[p].at = "open" /\ HasOpen(p) /\ RestoreTypeOK /\ commits < MaxCommits /\ commits' = commits + 1
      /\ log' = IF Attached(p) THEN [data |-> Logged \cup {commits'}, gen |-> main.gen] ELSE log
      /\ UNCHANGED <<main, staged, safe, backups, proc, staging, restores, kills>>
  BY DEF CommitOne, ProcAt, HasOpen, RInv
<1>2. ~Changing(Other(p))
  BY DEF CommitOne, Ordered, Changing, Applying
<1>3. commits' \in Commits
  BY <1>1, NumbersAre DEF Commits
<1>4. log' = [data |-> Logged \cup {commits'}, gen |-> main.gen]
  BY <1>1, AttachedIs
<1>5. Logged \cup {commits'} \subseteq Commits /\ main.gen \in 0..MaxRestores
  BY <1>1, <1>3, ContentIs, NumbersAre
<1>6. log' \in LogFile /\ log'.data = Logged \cup {commits'} /\ log'.gen = main.gen
  BY <1>4, <1>5 DEF LogFile
<1>7. QED
  BY <1>1, <1>2, <1>3, <1>6, NoLogIsNone

LEMMA CommitSteps == ASSUME Ordered, RInv, NEW p \in Procs, CommitOne(p) PROVE RInv'
<1>1. /\ proc[p].at = "open" /\ ~Changing(Other(p))
      /\ commits' \in Commits /\ log' \in LogFile /\ log'.gen = main.gen
      /\ UNCHANGED <<main, staged, safe, backups, proc, staging, restores, kills>>
  BY CommitIs
<1>2. /\ main' \in MainFile /\ safe' \in SafetyCopies /\ backups' \subseteq Database
      /\ kills' \in 0..MaxKills
  BY <1>1 DEF RInv, RestoreTypeOK
<1>3. commits' \in 0..MaxCommits
  BY <1>1, RestoreConstantsOK DEF Commits
<1>4. \A q \in Procs : proc[q].at # "swap"
  BY <1>1, TwoProcs DEF Changing
<1>5. QED
  BY <1>1, <1>2, <1>3, <1>4, FilesMove

\* A checkpoint, and what it copies.
LEMMA CheckpointSteps == ASSUME RInv, Checkpoint PROVE RInv'
<1> USE DEF counts
<1>1. main' = Checkpointed /\ RestoreTypeOK /\ UNCHANGED <<log, staged, safe, backups, proc, staging, counts>>
  BY DEF Checkpoint, RInv
<1>2. main' \in MainFile /\ main'.gen = main.gen /\ main'.schema = main.schema
  BY <1>1, ContentIs
<1>3. /\ log' \in LogFile \cup {NoLog} /\ safe' \in SafetyCopies /\ backups' \subseteq Database
      /\ commits' \in 0..MaxCommits /\ kills' \in 0..MaxKills
  BY <1>1 DEF RestoreTypeOK
<1>4. (log' # NoLog => log'.gen = main.gen) /\ \A q \in Procs : proc[q].at = "swap" => log' = NoLog
  BY <1>1 DEF RInv, LogMatches, AppliedOK
<1>5. QED
  BY <1>1, <1>2, <1>3, <1>4, FilesMove

LEMMA BackupSteps == ASSUME RInv, Backup PROVE RInv'
<1> USE DEF counts
<1>1. /\ backups' = backups \cup {[data |-> Content, schema |-> main.schema]} /\ RestoreTypeOK
      /\ UNCHANGED <<main, log, staged, safe, proc, staging, counts>>
  BY DEF Backup, RInv
<1>2. [data |-> Content, schema |-> main.schema] \in Database
  BY <1>1, ContentIs, NumbersAre DEF Database
<1>3. /\ main' \in MainFile /\ log' \in LogFile \cup {NoLog} /\ safe' \in SafetyCopies
      /\ backups' \subseteq Database /\ commits' \in 0..MaxCommits /\ kills' \in 0..MaxKills
  BY <1>1, <1>2 DEF RestoreTypeOK
<1>4. (log' # NoLog => log'.gen = main.gen) /\ \A q \in Procs : proc[q].at = "swap" => log' = NoLog
  BY <1>1 DEF RInv, LogMatches, AppliedOK
<1>5. QED
  BY <1>1, <1>3, <1>4, FilesMove

\* A process goes down, by itself or killed, with the restore it is staging.
LEMMA DownKeeps ==
    ASSUME RInv, NEW p \in Procs, ProcBecomes(p, Closed),
           main' \in MainFile, main'.gen = main.gen, main'.schema = main.schema,
           log' \in {log, NoLog},
           staging' = NotStaging \/ (staging' = staging /\ (staging.at # "idle" => staging.by # p)),
           kills' \in 0..MaxKills, UNCHANGED <<staged, safe, backups, commits, restores>>
    PROVE  RInv'
<1>0. RestoreTypeOK
  BY DEF RInv
<1>1. proc' \in [Procs -> ProcState] /\ proc'[p].at = "down" /\ \A q \in Procs : q # p => proc'[q] = proc[q]
  BY <1>0, ClosedIs, BecomeIs
<1>2. proc'[p].at \notin Applying /\ ~HasOpen(p)' /\ ~Changing(p)'
  BY <1>1 DEF Applying, HasOpen, Changing
<1>3. RestoreTypeOK'
  BY <1>0, <1>1, NotStagingIs DEF RestoreTypeOK
<1>4. StagedOK'
  <2>1. ASSUME staging'.at # "idle"
        PROVE  proc'[staging'.by].at = "open" /\ \A q \in Procs : proc'[q].at \notin Applying
    <3>1. staging' = staging /\ staging.at # "idle" /\ staging.by # p /\ staging.by \in Procs
      BY <1>0, <2>1, NotStagingIs DEF RestoreTypeOK, Staging
    <3>2. QED
      BY <1>1, <1>2, <3>1 DEF RInv, StagedOK
  <2>2. QED
    BY <2>1 DEF StagedOK
<1>5. GenOK'
  <2>1. staging'.at # "idle" => staging.at # "idle"
    BY NotStagingIs
  <2>2. main.gen <= restores
    BY <1>0, NumbersAre DEF RInv, GenOK
  <2>3. QED
    BY <1>0, <2>1, <2>2, NumbersAre DEF RInv, GenOK
<1>6. LogMatches'
  BY DEF RInv, LogMatches
<1>7. AppliedOK'
  <2>1. ASSUME NEW q \in Procs, proc'[q].at \in Applying \/ Changing(q)' \/ HasOpen(q)'
        PROVE  q # p /\ proc'[q] = proc[q]
    BY <1>1, <1>2, <2>1
  <2>2. ASSUME NEW q \in Procs
        PROVE  /\ proc'[q].at \in Applying => proc[q].at \in Applying
               /\ proc'[q].at = "swap" => proc[q].at = "swap"
               /\ Changing(q)' => Changing(q)
               /\ HasOpen(q)' => HasOpen(q)
    BY <1>1, <2>1 DEF Changing, HasOpen
  <2>3. QED
    BY <2>2, TwoProcs DEF RInv, AppliedOK
<1>8. OpenedOK'
  <2>1. ASSUME NEW q \in Procs, HasOpen(q)' PROVE q # p /\ proc'[q] = proc[q] /\ HasOpen(q)
    BY <1>1, <1>2, <2>1 DEF HasOpen
  <2>2. QED
    BY <2>1 DEF RInv, OpenedOK
<1>9. QED
  BY <1>3, <1>4, <1>5, <1>6, <1>7, <1>8 DEF RInv

\* The last connection leaves the whole database in the main file.
LEMMA CloseIs ==
    ASSUME RInv, NEW p \in Procs, Close(p)
    PROVE  /\ proc[p].at = "open" /\ HasOpen(p) /\ ProcBecomes(p, Closed)
           /\ staging.at = "idle" \/ staging.by # p
           /\ IF HasOpen(Other(p)) THEN UNCHANGED <<main, log>>
              ELSE main' = Checkpointed /\ log' = NoLog
           /\ UNCHANGED <<staged, safe, backups, staging, counts>>
<1>1. proc[p].at = "open" /\ HasOpen(p)
  BY DEF Close, ProcAt, HasOpen
<1>2. Attached(p) /\ (Attached(Other(p)) <=> HasOpen(Other(p)))
  BY <1>1, AttachedIs, TwoProcs
<1>3. QED
  BY <1>1, <1>2 DEF Close

LEMMA CloseSteps == ASSUME RInv, NEW p \in Procs, Close(p) PROVE RInv'
<1> USE DEF counts
<1>1. /\ ProcBecomes(p, Closed) /\ (staging.at = "idle" \/ staging.by # p)
      /\ \/ UNCHANGED <<main, log>>
         \/ main' = Checkpointed /\ log' = NoLog
      /\ UNCHANGED <<staged, safe, backups, staging, counts>>
  BY CloseIs
<1>2. main' \in MainFile /\ main'.gen = main.gen /\ main'.schema = main.schema
  BY <1>1, ContentIs DEF RInv, RestoreTypeOK
<1>3. kills' \in 0..MaxKills
  BY <1>1 DEF RInv, RestoreTypeOK
<1>4. QED
  BY <1>1, <1>2, <1>3, DownKeeps

LEMMA KillSteps == ASSUME RInv, NEW p \in Procs, KillProc(p) PROVE RInv'
<1>1. /\ ProcBecomes(p, Closed) /\ UNCHANGED <<main, log, staged, safe, backups, commits, restores>>
      /\ staging' = IF staging.by = p THEN NotStaging ELSE staging
  BY DEF KillProc
<1>2. main' \in MainFile
  BY <1>1 DEF RInv, RestoreTypeOK
<1>3. kills' \in 0..MaxKills
  BY RestoreConstantsOK DEF RInv, RestoreTypeOK, KillProc
<1>4. QED
  BY <1>1, <1>2, <1>3, DownKeeps
-----------------------------------------------------------------------------
(* Staging a restore *)

\* A step of stage_restore, or of who clears up behind one.
LEMMA StageKeeps ==
    ASSUME RInv, staged' \in Database \cup {Nothing, Torn}, staging' \in Staging,
           staging'.at # "idle" =>
              proc[staging'.by].at = "open" /\ \A p \in Procs : proc[p].at \notin Applying,
           restores' \in 0..MaxRestores,
           main.gen + (IF staged' = Nothing /\ staging'.at = "idle" THEN 0 ELSE 1) <= restores',
           staged' = staged \/ (\A p \in Procs : proc[p].at \notin Applying)
              \/ (staged = Torn /\ staged' = Nothing),
           UNCHANGED <<main, log, backups, proc, commits, kills>>, safe' \in SafetyCopies
    PROVE  RInv'
<1>1. RestoreTypeOK'
  BY DEF RInv, RestoreTypeOK
<1>2. StagedOK' /\ GenOK' /\ LogMatches'
  BY DEF RInv, StagedOK, GenOK, LogMatches
<1>3. OpenedOK'
  BY DEF RInv, OpenedOK, HasOpen
<1>4. AppliedOK'
  <2>1. \A p \in Procs : proc[p].at = "swap" => log = NoLog
    BY DEF RInv, AppliedOK
  <2>2. CASE staged' = staged
    BY <2>2, TwoProcs DEF RInv, AppliedOK, Changing, HasOpen
  <2>3. CASE \A p \in Procs : proc[p].at \notin Applying
    <3>1. \A p \in Procs : proc'[p].at \notin Applying /\ ~Changing(p)'
      BY <2>3 DEF Changing, Applying
    <3>2. QED
      BY <2>1, <3>1 DEF AppliedOK
  <2>4. CASE staged = Torn /\ staged' = Nothing
    <3>1. \A p \in Procs : ~Changing(p)'
      BY <2>4 DEF RInv, AppliedOK, Changing
    <3>2. QED
      BY <2>1, <2>4, <3>1 DEF AppliedOK
  <2>5. QED
    BY <2>2, <2>3, <2>4
<1>5. QED
  BY <1>1, <1>2, <1>3, <1>4 DEF RInv

\* The step of a request under way: its process has the database open, and nobody
\* applies a restore.
LEMMA UnderWay ==
    ASSUME RInv, staging.at # "idle"
    PROVE  /\ staging.by \in Procs /\ proc[staging.by].at = "open" /\ HasOpen(staging.by)
           /\ \A p \in Procs : proc[p].at \notin Applying /\ ~Changing(p)
           /\ main.gen + 1 <= restores
<1>1. staging.by \in Procs
  BY DEF RInv, RestoreTypeOK, Staging
<1>2. proc[staging.by].at = "open" /\ \A p \in Procs : proc[p].at \notin Applying
  BY DEF RInv, StagedOK
<1>3. main.gen + 1 <= restores
  BY DEF RInv, GenOK
<1>4. QED
  BY <1>1, <1>2, <1>3, PlacesAre DEF HasOpen

LEMMA StagingIs ==
    ASSUME RestoreTypeOK
    PROVE  /\ staging.from \in Database /\ staging.by \in Procs
           /\ \A place \in {"copy", "check"}, k \in SUBSET Commits :
                 /\ [staging EXCEPT !.at = place, !.kept = k] \in Staging
                 /\ [staging EXCEPT !.at = place, !.kept = k].by = staging.by
                 /\ [staging EXCEPT !.at = place] \in Staging
                 /\ [staging EXCEPT !.at = place].by = staging.by
                 /\ [staging EXCEPT !.at = place].at = place
  BY DEF RestoreTypeOK, Staging

LEMMA StageSteps == ASSUME Ordered, RInv, NEW p \in Procs, NEW b \in backups, Stage(p, b) PROVE RInv'
<1>1. /\ proc[p].at = "open" /\ staging.at = "idle" /\ RestoreTypeOK
      /\ \A q \in Procs : proc[q].at \notin Applying
      /\ restores < MaxRestores /\ restores' = restores + 1
      /\ staging' = [at |-> "keep", by |-> p, from |-> b, seen |-> Content, kept |-> {}]
      /\ UNCHANGED <<main, log, staged, safe, backups, proc, commits, kills>>
  BY DEF Stage, ProcAt, Ordered, RInv
<1>2. staging' \in Staging /\ staging'.by = p
  BY <1>1, ContentIs DEF RestoreTypeOK, Staging
<1>3. restores' \in 0..MaxRestores
  BY <1>1, NumbersAre
<1>4. main.gen + 1 <= restores' /\ main.gen + 0 <= restores'
  <2>1. main.gen <= restores
    BY <1>1, NumbersAre DEF RInv, GenOK
  <2>2. QED
    BY <1>1, <2>1, NumbersAre
<1>5. safe' \in SafetyCopies /\ staged' \in Database \cup {Nothing, Torn}
  BY <1>1 DEF RestoreTypeOK
<1>6. QED
  BY <1>1, <1>2, <1>3, <1>4, <1>5, StageKeeps

LEMMA CopySteps == ASSUME RInv, KeepLive \/ CopyBegins \/ CopyEnds \/ CopyBreaksOff PROVE RInv'
<1> USE DEF counts
<1>1. /\ staging.at # "idle" /\ RestoreTypeOK
      /\ UNCHANGED <<main, log, backups, proc, commits, kills, restores>>
  BY DEF KeepLive, CopyBegins, CopyEnds, CopyBreaksOff, RInv
<1>2. /\ staging.by \in Procs /\ proc[staging.by].at = "open"
      /\ \A p \in Procs : proc[p].at \notin Applying
      /\ main.gen + 1 <= restores /\ main.gen + 0 <= restores /\ restores \in 0..MaxRestores
  BY <1>1, UnderWay, NumbersAre DEF RInv
<1>3. main.data \subseteq Commits /\ staging.from \in Database /\ NotStaging.at = "idle"
  BY <1>1, NumbersAre, StagingIs, NotStagingIs
<1>4. safe' \in SafetyCopies
  BY <1>1, CopyIs DEF KeepLive, CopyBegins, CopyEnds, CopyBreaksOff, RestoreTypeOK
<1>5. staged' \in Database \cup {Nothing, Torn}
  BY <1>1, <1>3 DEF KeepLive, CopyBegins, CopyEnds, CopyBreaksOff, RestoreTypeOK
<1>6. staging' \in Staging /\ (staging'.at # "idle" => staging'.by = staging.by)
  <2>1. CASE KeepLive
    BY <1>1, <1>3, <2>1, StagingIs DEF KeepLive
  <2>2. CASE CopyBegins
    BY <1>1, <2>2, StagingIs DEF CopyBegins
  <2>3. CASE CopyEnds \/ CopyBreaksOff
    BY <2>3, NotStagingIs DEF CopyEnds, CopyBreaksOff
  <2>4. QED
    BY <2>1, <2>2, <2>3
<1>7. QED
  BY <1>1, <1>2, <1>4, <1>5, <1>6, StageKeeps

LEMMA RemoveSteps == ASSUME RInv, RemovePending PROVE RInv'
<1> USE DEF counts
<1>1. /\ staged = Torn /\ staged' = Nothing /\ staging.at = "idle" /\ RestoreTypeOK
      /\ UNCHANGED <<main, log, safe, backups, proc, staging, counts>>
  BY DEF RemovePending, RInv
<1>2. main.gen + 0 <= restores /\ restores' \in 0..MaxRestores
  BY <1>1, NumbersAre DEF RInv, GenOK
<1>3. staging' \in Staging /\ safe' \in SafetyCopies
  BY <1>1 DEF RestoreTypeOK
<1>4. QED
  BY <1>1, <1>2, <1>3, StageKeeps

LEMMA PassSteps == ASSUME RInv, SecondPasses PROVE RInv'
<1>1. RestoreTypeOK /\ safe' \in SafetyCopies
      /\ UNCHANGED <<main, log, staged, backups, proc, staging, commits, restores, kills>>
  BY PassIs DEF RInv
<1>2. RestoreTypeOK' /\ StagedOK' /\ GenOK' /\ LogMatches'
  BY <1>1 DEF RInv, RestoreTypeOK, StagedOK, GenOK, LogMatches
<1>3. AppliedOK' /\ OpenedOK'
  BY <1>1, TwoProcs DEF RInv, AppliedOK, OpenedOK, HasOpen, Changing
<1>4. QED
  BY <1>2, <1>3 DEF RInv
-----------------------------------------------------------------------------
(* The files *)

LEMMA FilesInit == RestoreInit => RInv
<1> SUFFICES ASSUME RestoreInit PROVE RInv
  OBVIOUS
<1>1. main \in MainFile /\ backups \subseteq Database
  BY RestoreConstantsOK DEF RestoreInit, MainFile, Database, Migrations
<1>2. proc \in [Procs -> ProcState] /\ staging \in Staging
  BY ClosedIs, NotStagingIs DEF RestoreInit
<1>3. commits \in 0..MaxCommits /\ restores \in 0..MaxRestores /\ kills \in 0..MaxKills
  BY RestoreConstantsOK DEF RestoreInit
<1>a. safe \in SafetyCopies
  BY RestoreConstantsOK DEF RestoreInit, SafetyCopies
<1>4. RestoreTypeOK
  BY <1>1, <1>2, <1>3, <1>a DEF RestoreInit, RestoreTypeOK
<1>5. \A p \in Procs : proc[p].at = "down" /\ ~HasOpen(p) /\ ~Changing(p) /\ proc[p].at \notin Applying
  BY ClosedIs DEF RestoreInit, HasOpen, Changing, Applying
<1>6. StagedOK /\ GenOK /\ LogMatches
  BY NotStagingIs DEF RestoreInit, StagedOK, GenOK, LogMatches
<1>7. AppliedOK /\ OpenedOK
  BY <1>5 DEF AppliedOK, OpenedOK
<1>8. QED
  BY <1>4, <1>6, <1>7 DEF RInv

LEMMA FilesStep == ASSUME Ordered, RInv, [RestoreNext]_restoreVars PROVE RInv'
<1>1. CASE UNCHANGED restoreVars
  <2>1. UNCHANGED <<main, log, staged, safe, backups, proc, staging, commits, restores, kills>>
    BY <1>1 DEF restoreVars, counts
  <2>2. RestoreTypeOK' /\ StagedOK' /\ GenOK' /\ LogMatches'
    BY <2>1 DEF RInv, RestoreTypeOK, StagedOK, GenOK, LogMatches
  <2>3. AppliedOK' /\ OpenedOK'
    BY <2>1, TwoProcs DEF RInv, AppliedOK, OpenedOK, HasOpen, Changing
  <2>4. QED
    BY <2>2, <2>3 DEF RInv
<1>2. CASE RestoreNext
  BY <1>2, OpeningSteps, CommitSteps, CloseSteps, KillSteps, StageSteps, CheckpointSteps,
     BackupSteps, CopySteps, RemoveSteps, PassSteps DEF RestoreNext
<1>3. QED
  BY <1>1, <1>2

LEMMA RInvHolds == ASSUME Ordered PROVE RestoreSpec => []RInv
  BY FilesInit, FilesStep, PTL DEF RestoreSpec

\* The main file, the log and the schema fit together: no commit of a replaced
\* database is replayed into the restored one, and who serves has migrated what it
\* restored, with kills between any two steps of apply_pending_restore.
THEOREM FilesAgreeHolds == ASSUME Ordered PROVE RestoreSpec => []FilesAgree
<1>1. RInv => FilesAgree
  <2> SUFFICES ASSUME RInv PROVE FilesAgree
    OBVIOUS
  <2>1. ASSUME NEW p \in Procs, ProcAt(p, "open"), Attached(p) PROVE main.schema = Migrations
    <3>1. Migrations <= main.schema
      BY <2>1 DEF RInv, OpenedOK, HasOpen, ProcAt
    <3>2. main.schema \in 0..Migrations
      BY NumbersAre DEF RInv
    <3>3. QED
      BY <3>1, <3>2 DEF Migrations
  <2>2. QED
    BY <2>1 DEF RInv, FilesAgree, ServedIsMigrated
<1>2. QED
  BY <1>1, RInvHolds, PTL

\* A part of a copy that was broken off is never renamed over the database: the
\* pending file cannot change between its verification and the rename.
THEOREM TornIsKeptOut == ASSUME Ordered PROVE RestoreSpec => TornIsNotApplied
<1> DEFINE Sound == \A p \in Procs : ProcAt(p, "swap") /\ main'.gen # main.gen => staged # Torn
<1>1. RInv => Sound
  BY DEF RInv, AppliedOK, Changing, ProcAt
<1>2. QED
  BY <1>1, RInvHolds, PTL DEF TornIsNotApplied
-----------------------------------------------------------------------------
(* The commits *)

\* A step that leaves the database, its log and the commits alone.
LEMMA KeptMoves ==
    ASSUME KInv, UNCHANGED <<main, log, commits>>, Saved \subseteq Saved', LastOK',
           staged' # Nothing /\ (\A p \in Procs : ~HasOpen(p)') =>
              (staged # Nothing /\ \A p \in Procs : ~HasOpen(p)) \/ Logged \subseteq main.data,
           \A p \in Procs : Changing(p)' /\ staged' = Nothing =>
              (Changing(p) /\ staged = Nothing) \/ log = NoLog,
           \A p \in Procs : proc'[p].at \in {"clear", "swap"} /\ staged' # Nothing =>
              (proc[p].at \in {"clear", "swap"} /\ staged # Nothing) \/ main.data \subseteq Saved'
    PROVE  KInv'
<1>1. UNCHANGED <<Content, Logged>>
  BY DEF Content, Logged
<1>2. CommitsKept'
  BY <1>1 DEF KInv, CommitsKept
<1>3. DryOK'
  BY <1>1 DEF KInv, DryOK
<1>4. SafeOK'
  BY DEF KInv, SafeOK
<1>5. QED
  BY <1>2, <1>3, <1>4 DEF KInv

\* The safety copies stay, with a database that only grows, or is replaced by a later file.
LEMMA LastStays ==
    ASSUME LastOK, RestoreTypeOK, UNCHANGED safe,
           \/ main'.gen = main.gen /\ main.data \subseteq main'.data
           \/ main'.gen = main.gen + 1
    PROVE  LastOK' /\ Saved' = Saved
<1>1. main.gen \in Nat /\ safe.gen \in Nat
  BY NumbersAre DEF RestoreTypeOK, SafetyCopies
<1>2. QED
  BY <1>1 DEF LastOK, Saved

LEMMA LastSame ==
    ASSUME KInv, RInv, UNCHANGED <<safe, main>>
    PROVE  LastOK' /\ Saved' = Saved /\ Saved \subseteq Saved'
  BY LastStays DEF KInv, RInv

\* A safety copy is never younger than the database.
LEMMA CopyLast == ASSUME RestoreTypeOK, SafetyCopy, UNCHANGED main PROVE LastOK'
<1>1. main.gen \in Nat
  BY NumbersAre
<1>2. QED
  BY <1>1, CopyIs DEF LastOK

\* Who applies a restore has the database to itself.
LEMMA AloneOpen ==
    ASSUME RInv, NEW p \in Procs, proc[p].at \in Applying, staged # Nothing
    PROVE  \A q \in Procs : ~HasOpen(q)
<1>1. ~HasOpen(Other(p)) /\ ~HasOpen(p)
  BY PlacesAre DEF RInv, AppliedOK
<1>2. QED
  BY <1>1, TwoProcs

\* Opening the database, but for the removal of the log and the rename.
LEMMA KeptOpening ==
    ASSUME Apart, RInv, KInv, NEW p \in Procs,
           Open(p) \/ NothingPending(p) \/ Verified(p) \/ NotVerified(p) \/ SwapFails(p) \/ Keep(p)
    PROVE  KInv'
<1> USE DEF ProcAt, Whole, counts
<1>0. RestoreTypeOK /\ "look" \in Applying /\ "keep" \in Applying /\ "clear" \in Applying
  BY PlacesAre DEF RInv
<1>a. /\ ~HasOpen(p) /\ UNCHANGED <<main, log, commits, staged>>
      /\ Saved \subseteq Saved' /\ LastOK'
  <2>1. ~HasOpen(p) /\ UNCHANGED <<main, log, commits, staged>>
    BY DEF Open, NothingPending, Verified, NotVerified, SwapFails, Keep, HasOpen
  <2>2. CASE Keep(p)
    BY <1>0, <2>1, <2>2, CopyKeeps, CopyLast DEF Keep, KInv
  <2>3. CASE UNCHANGED safe
    BY <2>1, <2>3, LastSame
  <2>4. QED
    BY <2>1, <2>2, <2>3 DEF Open, NothingPending, Verified, NotVerified, SwapFails
<1>1. CASE Open(p)
  <2>1. proc'[p].at = "look" /\ \A q \in Procs : q # p => proc'[q] = proc[q]
    BY <1>0, <1>1, GoIs DEF Open
  <2>2. QED
    BY <1>a, <2>1, KeptMoves DEF HasOpen, Changing
<1>2. CASE NothingPending(p)
  <2>1. main.gen \in 0..MaxRestores /\ staged = Nothing
    <3>1. main.gen \in 0..MaxRestores
      BY <1>0 DEF RestoreTypeOK, MainFile
    <3>2. QED
      BY <1>2, <3>1 DEF NothingPending
  <2>2. proc'[p].at = "migrate" /\ \A q \in Procs : q # p => proc'[q] = proc[q]
    BY <1>0, <1>2, <2>1, ConnectIs DEF NothingPending
  <2>3. QED
    BY <1>a, <2>1, <2>2, KeptMoves DEF HasOpen, Changing
<1>3. CASE Verified(p)
  <2>1. proc'[p].at = "keep" /\ \A q \in Procs : q # p => proc'[q] = proc[q]
    BY <1>0, <1>3, GoIs DEF Verified
  <2>2. staged # Nothing
    BY <1>3 DEF Verified
  <2>3. QED
    BY <1>a, <2>1, <2>2, KeptMoves DEF HasOpen, Changing
<1>4. CASE NotVerified(p) \/ SwapFails(p)
  <2>1. proc'[p].at = "down" /\ \A q \in Procs : q # p => proc'[q] = proc[q]
    BY <1>0, <1>4, ClosedIs, BecomeIs DEF NotVerified, SwapFails
  <2>2. QED
    BY <1>a, <2>1, KeptMoves DEF HasOpen, Changing
<1>5. CASE Keep(p)
  <2>1. proc'[p].at = "clear" /\ \A q \in Procs : q # p => proc'[q] = proc[q]
    BY <1>0, <1>5, GoIs DEF Keep
  <2>2. main.data \subseteq Saved' /\ proc[p].at = "keep"
    BY <1>0, <1>5, CopyIs DEF Keep
  <2>3. QED
    BY <1>a, <2>1, <2>2, KeptMoves DEF HasOpen, Changing
<1>6. QED
  BY <1>1, <1>2, <1>3, <1>4, <1>5

\* The log that is removed holds nothing that the main file does not.
LEMMA KeptClear == ASSUME RInv, KInv, NEW p \in Procs, Clear(p) PROVE KInv'
<1> USE DEF ProcAt, counts
<1>0. /\ proc[p].at = "clear" /\ proc[p].at \in Applying /\ RestoreTypeOK /\ "swap" \in Applying
      /\ log' = NoLog /\ UNCHANGED <<main, staged, safe, commits>>
  BY PlacesAre DEF Clear, RInv
<1>1. proc'[p].at = "swap" /\ \A q \in Procs : q # p => proc'[q] = proc[q]
  BY <1>0, GoIs DEF Clear
<1>2. Logged \subseteq main.data
  <2>1. CASE staged = Nothing
    BY <1>0, <2>1 DEF KInv, DryOK, Changing, Logged
  <2>2. CASE staged # Nothing
    BY <1>0, <2>2, AloneOpen DEF KInv, DryOK
  <2>3. QED
    BY <2>1, <2>2
<1>3. Logged' = {} /\ Content' = Content
  BY <1>0, <1>2 DEF Logged, Content
<1>4. LastOK' /\ Saved' = Saved
  BY <1>0, LastSame
<1>5. CommitsKept' /\ DryOK'
  BY <1>0, <1>3, <1>4 DEF KInv, CommitsKept, DryOK
<1>6. SafeOK'
  BY <1>0, <1>1, <1>4 DEF KInv, SafeOK
<1>7. QED
  BY <1>4, <1>5, <1>6 DEF KInv

\* What the rename replaces is in a safety copy.
LEMMA KeptSwap == ASSUME RInv, KInv, NEW p \in Procs, Swap(p) PROVE KInv'
<1> USE DEF counts
<1>1. proc[p].at = "swap" /\ log = NoLog /\ staged # Nothing /\ staged' = Nothing
      /\ UNCHANGED <<log, safe, commits>>
  BY SwapIs DEF Swap
<1>2. main.data \subseteq Saved /\ Content = main.data
  BY <1>1 DEF KInv, SafeOK, Content, Logged
<1>3. LastOK' /\ Saved' = Saved
  BY <1>1, SwapIs, LastStays DEF KInv, RInv
<1>4. CommitsKept'
  BY <1>1, <1>2, <1>3 DEF KInv, CommitsKept
<1>5. DryOK' /\ SafeOK'
  BY <1>1 DEF DryOK, SafeOK
<1>6. QED
  BY <1>3, <1>4, <1>5 DEF KInv

LEMMA KeptMigrate ==
    ASSUME RInv, KInv, NEW p \in Procs, NEW k \in 1..Migrations, MigrateTo(p, k)
    PROVE  KInv'
<1> USE DEF counts
<1>1. /\ proc[p].at = "migrate" /\ main'.data = main.data /\ main'.gen = main.gen
      /\ \A q \in Procs : q # p => proc'[q] = proc[q]
      /\ proc'[p].at \in {"migrate", "open"}
      /\ UNCHANGED <<log, staged, safe, commits>>
  BY MigrateIs
<1>2. \A q \in Procs : (HasOpen(q)' <=> HasOpen(q)) /\ (Changing(q)' => Changing(q))
  BY <1>1 DEF HasOpen, Changing
<1>3. UNCHANGED <<Logged, Content>>
  BY <1>1 DEF Logged, Content
<1>4. LastOK' /\ Saved' = Saved
  BY <1>1, LastStays DEF KInv, RInv
<1>5. CommitsKept' /\ DryOK'
  BY <1>1, <1>2, <1>3, <1>4 DEF KInv, CommitsKept, DryOK
<1>6. SafeOK'
  BY <1>1, <1>4 DEF KInv, SafeOK
<1>7. QED
  BY <1>4, <1>5, <1>6 DEF KInv

\* A new commit is in the log, and nobody applies a restore.
LEMMA KeptCommit == ASSUME Ordered, RInv, KInv, NEW p \in Procs, CommitOne(p) PROVE KInv'
<1>1. /\ proc[p].at = "open" /\ HasOpen(p) /\ ~Changing(Other(p))
      /\ commits' = commits + 1 /\ commits' \in Commits
      /\ log' # NoLog /\ log'.data = Logged \cup {commits'}
      /\ UNCHANGED <<main, staged, safe, proc>>
  BY CommitIs
<1>2. Content' = Content \cup {commits'}
  BY <1>1 DEF Content, Logged
<1>a. LastOK' /\ Saved' = Saved
  BY <1>1, LastSame
<1>3. CommitsKept'
  <2>1. commits \in Nat
    BY NumbersAre DEF RInv
  <2>2. 1..commits' = 1..commits \cup {commits'}
    BY <1>1, <2>1
  <2>3. QED
    BY <1>2, <1>a, <2>2 DEF KInv, CommitsKept
<1>4. HasOpen(p)' /\ \A q \in Procs : ~Changing(q)'
  BY <1>1, TwoProcs DEF HasOpen, Changing
<1>5. DryOK' /\ SafeOK'
  BY <1>1, <1>4, <1>a DEF KInv, DryOK, SafeOK
<1>6. QED
  BY <1>3, <1>5, <1>a DEF KInv

\* A checkpoint, and the last connection's, change a file that is in no restore's way.
LEMMA KeptCheckpoint == ASSUME RInv, KInv, Checkpoint PROVE KInv'
<1> USE DEF counts
<1>1. main' = Checkpointed /\ UNCHANGED <<log, staged, safe, proc, commits>>
  BY DEF Checkpoint
<1>2. /\ main'.data = Content /\ main'.gen = main.gen /\ main.data \subseteq Content
      /\ Logged' = Logged /\ Logged \subseteq Content
  BY <1>1, ContentIs DEF Logged, RInv
<1>3. Content' = Content
  BY <1>2 DEF Content
<1>4. PICK p \in Procs : HasOpen(p)
  BY AttachedIs DEF Checkpoint
<1>5. HasOpen(p)' /\ \A q \in Procs : Changing(q)' <=> Changing(q)
  BY <1>1, <1>4 DEF HasOpen, Changing
<1>6. \A q \in Procs : proc[q].at \in {"clear", "swap"} => staged = Nothing
  BY <1>4, AloneOpen, PlacesAre
<1>7. LastOK' /\ Saved' = Saved
  BY <1>1, <1>2, LastStays DEF KInv, RInv
<1>8. CommitsKept' /\ DryOK' /\ SafeOK'
  BY <1>1, <1>3, <1>5, <1>6, <1>7 DEF KInv, CommitsKept, DryOK, SafeOK
<1>9. QED
  BY <1>7, <1>8 DEF KInv

LEMMA KeptClose == ASSUME RInv, KInv, NEW p \in Procs, Close(p) PROVE KInv'
<1> USE DEF counts
<1>1. /\ proc[p].at = "open" /\ HasOpen(p) /\ ProcBecomes(p, Closed)
      /\ IF HasOpen(Other(p)) THEN UNCHANGED <<main, log>>
         ELSE main' = Checkpointed /\ log' = NoLog
      /\ UNCHANGED <<staged, safe, commits>>
  BY CloseIs
<1>2. proc'[p].at = "down" /\ \A q \in Procs : q # p => proc'[q] = proc[q]
  BY <1>1, ClosedIs, BecomeIs DEF RInv
<1>3. \A q \in Procs : Changing(q)' => Changing(q)
  BY <1>2 DEF Changing
<1>4. \A q \in Procs : proc'[q].at \in {"clear", "swap"} => staged = Nothing
  <2>1. ASSUME NEW q \in Procs, proc'[q].at \in {"clear", "swap"}, staged # Nothing PROVE FALSE
    <3>1. proc[q].at \in Applying
      BY <1>2, <2>1, PlacesAre
    <3>2. QED
      BY <1>1, <2>1, <3>1, AloneOpen
  <2>2. QED
    BY <2>1
<1>5. SafeOK'
  BY <1>1, <1>4 DEF SafeOK
<1>a. LastOK' /\ Saved' = Saved
  BY <1>1, ContentIs, LastStays DEF KInv, RInv
<1>6. CASE HasOpen(Other(p))
  <2>1. HasOpen(Other(p))' /\ Other(p) \in Procs
    BY <1>2, <1>6, TwoProcs DEF HasOpen
  <2>2. Content' = Content
    BY <1>1, <1>6 DEF Content, Logged
  <2>3. CommitsKept' /\ DryOK'
    BY <1>1, <1>3, <1>6, <1>a, <2>1, <2>2 DEF KInv, CommitsKept, DryOK
  <2>4. QED
    BY <1>5, <1>a, <2>3 DEF KInv
<1>7. CASE ~HasOpen(Other(p))
  <2>1. main'.data = Content /\ Logged' = {}
    BY <1>1, <1>7, ContentIs DEF Logged, RInv
  <2>2. Content' = Content
    BY <2>1 DEF Content
  <2>3. CommitsKept' /\ DryOK'
    BY <1>1, <1>7, <1>a, <2>1, <2>2 DEF KInv, CommitsKept, DryOK
  <2>4. QED
    BY <1>5, <1>a, <2>3 DEF KInv
<1>8. QED
  BY <1>6, <1>7

\* A process that is killed leaves nothing in the log alone while a restore is pending.
LEMMA KeptKill ==
    ASSUME "uncheckpointed" \notin RestoreAllowed, RInv, KInv, NEW p \in Procs, KillProc(p)
    PROVE  KInv'
<1>1. /\ ProcBecomes(p, Closed) /\ UNCHANGED <<main, log, staged, safe, commits>>
      /\ Logged \subseteq main.data \/ staged = Nothing
  BY DEF KillProc
<1>2. proc'[p].at = "down" /\ \A q \in Procs : q # p => proc'[q] = proc[q]
  BY <1>1, ClosedIs, BecomeIs DEF RInv
<1>3. \A q \in Procs : Changing(q)' => Changing(q)
  BY <1>2 DEF Changing
<1>4. LastOK' /\ Saved \subseteq Saved'
  BY <1>1, LastSame
<1>5. QED
  BY <1>1, <1>2, <1>3, <1>4, KeptMoves

\* Staging keeps safety copies and is over before anybody applies.
LEMMA KeptStaging ==
    ASSUME Apart, RInv, KInv,
           \/ \E p \in Procs, b \in backups : Stage(p, b)
           \/ KeepLive \/ CopyBegins \/ CopyEnds \/ CopyBreaksOff \/ RemovePending \/ Backup \/ SecondPasses
    PROVE  KInv'
<1> USE DEF counts
<1>1. UNCHANGED <<main, log, commits, proc>> /\ Saved \subseteq Saved' /\ LastOK'
  <2>1. UNCHANGED <<main, log, commits, proc>>
    BY DEF Stage, KeepLive, CopyBegins, CopyEnds, CopyBreaksOff, RemovePending, Backup, SecondPasses
  <2>2. CASE KeepLive
    BY <2>1, <2>2, CopyKeeps, CopyLast DEF KeepLive, KInv, RInv
  <2>3. CASE SecondPasses
    <3>1. RestoreTypeOK /\ 0 <= main.gen
      <4>1. RestoreTypeOK
        BY DEF RInv
      <4>2. main.gen \in Nat
        BY <4>1, NumbersAre
      <4>3. QED
        BY <4>1, <4>2
    <3>2. Saved' = Saved /\ safe'.last = {} /\ safe'.gen = 0 /\ main' = main
      BY <2>1, <2>3, <3>1, PassIs
    <3>3. LastOK'
      BY <3>1, <3>2 DEF LastOK
    <3>4. QED
      BY <2>1, <3>2, <3>3
  <2>4. CASE UNCHANGED safe
    BY <2>1, <2>4, LastSame
  <2>5. QED
    BY <2>1, <2>2, <2>3, <2>4 DEF Stage, CopyBegins, CopyEnds, CopyBreaksOff, RemovePending, Backup
<1>2. \A p \in Procs : (HasOpen(p)' <=> HasOpen(p)) /\ (Changing(p)' <=> Changing(p))
  BY <1>1 DEF HasOpen, Changing
<1>3. CASE staged' = staged
  BY <1>1, <1>2, <1>3, KeptMoves
<1>4. CASE CopyBegins \/ CopyEnds
  <2>1. staging.at # "idle"
    BY <1>4 DEF CopyBegins, CopyEnds
  <2>2. staging.by \in Procs /\ HasOpen(staging.by)
        /\ \A p \in Procs : proc[p].at \notin Applying /\ ~Changing(p)
    BY <2>1, UnderWay
  <2>3. \A p \in Procs : proc'[p].at \notin {"clear", "swap"}
    BY <1>1, <2>2, PlacesAre
  <2>4. QED
    BY <1>1, <1>2, <2>2, <2>3, KeptMoves
<1>5. CASE RemovePending
  <2>1. staged = Torn /\ staged' = Nothing
    BY <1>5 DEF RemovePending
  <2>2. \A p \in Procs : ~Changing(p)
    BY <2>1 DEF RInv, AppliedOK
  <2>3. QED
    BY <1>1, <1>2, <2>1, <2>2, KeptMoves
<1>6. QED
  BY <1>3, <1>4, <1>5 DEF Stage, KeepLive, CopyBreaksOff, Backup, SecondPasses

LEMMA KeptInit == RestoreInit => KInv
<1> SUFFICES ASSUME RestoreInit PROVE KInv
  OBVIOUS
<1>1. \A p \in Procs : proc[p].at = "down"
  BY ClosedIs DEF RestoreInit
<1>2. CommitsKept
  BY DEF RestoreInit, CommitsKept
<1>3. DryOK /\ SafeOK /\ LastOK
  BY <1>1 DEF RestoreInit, DryOK, SafeOK, LastOK, Changing
<1>4. QED
  BY <1>2, <1>3 DEF KInv

\* A restore loses nothing for good: whatever a commit was acknowledged for is in
\* the database or in a safety copy, when no process ends with commits in the log
\* alone while a restore is pending, and no safety copy is written over one of the
\* same second that was made before a restore was applied.
THEOREM CommitsAreKept == ASSUME RestoreAllowed = {} PROVE RestoreSpec => []CommitsKept
<1>1. Ordered /\ "uncheckpointed" \notin RestoreAllowed /\ Apart
  BY DEF Ordered, Apart
<1>2. RInv /\ KInv /\ [RestoreNext]_restoreVars => KInv'
  <2> SUFFICES ASSUME RInv, KInv, [RestoreNext]_restoreVars PROVE KInv'
    OBVIOUS
  <2>1. ASSUME NEW p \in Procs, Open(p) \/ Opening(p) PROVE KInv'
    <3>1. CASE CreateTables(p) \/ AddColumns(p) \/ RebuildQueue(p)
      <4>1. 1 \in 1..Migrations /\ 2 \in 1..Migrations /\ 3 \in 1..Migrations
        BY DEF Migrations
      <4>2. QED
        BY <3>1, <4>1, KeptMigrate DEF CreateTables, AddColumns, RebuildQueue
    <3>2. QED
      BY <1>1, <2>1, <3>1, KeptOpening, KeptClear, KeptSwap DEF Opening
  <2>2. ASSUME NEW p \in Procs, CommitOne(p) \/ Close(p) \/ KillProc(p) PROVE KInv'
    BY <1>1, <2>2, KeptCommit, KeptClose, KeptKill
  <2>3. CASE UNCHANGED restoreVars
    <3>1. UNCHANGED <<main, log, staged, safe, proc, commits>>
      BY <2>3 DEF restoreVars, counts
    <3>2. \A p \in Procs : (HasOpen(p)' <=> HasOpen(p)) /\ (Changing(p)' <=> Changing(p))
      BY <3>1 DEF HasOpen, Changing
    <3>3. LastOK' /\ Saved \subseteq Saved'
      BY <3>1, LastSame
    <3>4. QED
      BY <3>1, <3>2, <3>3, KeptMoves
  <2>4. QED
    BY <1>1, <2>1, <2>2, <2>3, KeptCheckpoint, KeptStaging DEF RestoreNext
<1>3. KInv => CommitsKept
  BY DEF KInv
<1>4. QED
  BY <1>1, <1>2, <1>3, KeptInit, RInvHolds, PTL DEF RestoreSpec
=============================================================================
