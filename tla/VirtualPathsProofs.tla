------------------------- MODULE VirtualPathsProofs -------------------------
(***************************************************************************)
(* Rows and links of virtual paths, for any items, paths, requests, kills, *)
(* switches and edits of pairs: although a link and its row are two writes *)
(* of one request, with the steps of others and a restart in between.      *)
(***************************************************************************)
EXTENDS VirtualPaths, TLAPS

-----------------------------------------------------------------------------
(* Paths above and below *)

\* What paths consist of.
Names == UNION {{v[n] : n \in 1..Len(v)} : v \in VPaths}

LEMMA PathsAreSequences == VPaths \subseteq Seq(Names) /\ <<>> \notin VPaths
BY PathsOK DEF PathsOK, Names

\* A path is a prefix of another when it is no longer and has the same names.
LEMMA PrefixNames ==
    ASSUME NEW S, NEW u \in Seq(S), NEW v \in Seq(S)
    PROVE  IsPrefix(u, v) <=> Len(u) <= Len(v) /\ \A n \in 1..Len(u) : u[n] = v[n]
<1>1. ASSUME Len(u) <= Len(v) PROVE SubSeq(v, 1, Len(u)) \in Seq(S) /\ Len(SubSeq(v, 1, Len(u))) = Len(u)
                        /\ \A n \in 1..Len(u) : SubSeq(v, 1, Len(u))[n] = v[n]
  BY <1>1
<1>2. SubSeq(u, 1, Len(u)) = u
  OBVIOUS
<1>3. ASSUME Len(u) <= Len(v), \A n \in 1..Len(u) : u[n] = v[n] PROVE u = SubSeq(v, 1, Len(u))
  BY <1>1, <1>3
<1> QED
  BY <1>1, <1>2, <1>3 DEF IsPrefix

LEMMA BelowNames ==
    ASSUME NEW S, NEW u \in Seq(S), NEW v \in Seq(S)
    PROVE  Below(v, u) <=> Len(u) < Len(v) /\ \A n \in 1..Len(u) : u[n] = v[n]
<1>1. ASSUME Len(u) = Len(v), \A n \in 1..Len(u) : u[n] = v[n] PROVE u = v
  BY <1>1
<1> QED
  BY PrefixNames, <1>1 DEF Below, IsStrictPrefix

\* Below is a strict order, and paths overlap when they are equal or one is below the other.
LEMMA BelowOrder ==
    /\ \A u \in VPaths : ~Below(u, u)
    /\ \A u, v, w \in VPaths : Below(v, u) /\ Below(w, v) => Below(w, u)
<1>1. \A u \in VPaths : u \in Seq(Names)
  BY PathsAreSequences
<1>2. ASSUME NEW u \in VPaths PROVE ~Below(u, u)
  BY DEF Below, IsStrictPrefix
<1>3. ASSUME NEW u \in VPaths, NEW v \in VPaths, NEW w \in VPaths, Below(v, u), Below(w, v) PROVE Below(w, u)
  <2>1. Len(u) < Len(v) /\ \A n \in 1..Len(u) : u[n] = v[n]
    BY <1>1, <1>3, BelowNames
  <2>2. Len(v) < Len(w) /\ \A n \in 1..Len(v) : v[n] = w[n]
    BY <1>1, <1>3, BelowNames
  <2>3. Len(u) < Len(w) /\ \A n \in 1..Len(u) : u[n] = w[n]
    BY <1>1, <2>1, <2>2
  <2> QED
    BY <1>1, <2>3, BelowNames
<1> QED
  BY <1>2, <1>3

LEMMA Overlaps ==
    ASSUME NEW u \in VPaths, NEW v \in VPaths
    PROVE  Overlap(u, v) <=> u = v \/ Below(v, u) \/ Below(u, v)
<1>1. IsPrefix(u, u)
  BY PathsAreSequences, PrefixNames
<1> QED
  BY <1>1 DEF Overlap, Below, IsStrictPrefix
-----------------------------------------------------------------------------
(* Type correctness *)

Places == {"idle", "reserve", "look", "create", "relink", "write", "rollback", "queue",
           "unhook", "drop", "cascade", "collect", "refresh"}

\* What an entry is.
Entry == Link \cup {Nothing, Dir, User}

LEMMA IdleTyped == Idle \in Op
BY DEF Idle, Op

\* A request that goes on is where it says, and no other request moves.
LEMMA Becoming ==
    ASSUME op \in [Runners -> Op], NEW r \in Runners, NEW x \in Op, Become(r, x)
    PROVE  op' \in [Runners -> Op] /\ op'[r] = x /\ \A s \in Runners \ {r} : op'[s] = op[s]
BY DEF Become

\* A request goes on with what it has in its hands.
Keeps(r) ==
    /\ op'[r].owner = op[r].owner /\ op'[r].path = op[r].path /\ op'[r].link = op[r].link
    /\ op'[r].replace = op[r].replace /\ op'[r].fresh = op[r].fresh /\ op'[r].unhook = op[r].unhook
    /\ op'[r].files = op[r].files /\ op'[r].todo = op[r].todo /\ op'[r].of = op[r].of

LEMMA Going ==
    ASSUME op \in [Runners -> Op], NEW r \in Runners, NEW place \in Places, Go(r, place)
    PROVE  op' \in [Runners -> Op] /\ op'[r].at = place /\ Keeps(r) /\ \A s \in Runners \ {r} : op'[s] = op[s]
<1> DEFINE x == [op[r] EXCEPT !.at = place]
<1>1. Become(r, x)
  BY DEF Go
<1>2. /\ x \in Op /\ x.at = place /\ x.owner = op[r].owner /\ x.path = op[r].path /\ x.link = op[r].link
      /\ x.replace = op[r].replace /\ x.fresh = op[r].fresh /\ x.unhook = op[r].unhook
      /\ x.files = op[r].files /\ x.todo = op[r].todo /\ x.of = op[r].of
  <2>1. op[r] \in Op
    OBVIOUS
  <2> QED BY <2>1 DEF Op, Places
<1> HIDE DEF x
<1> QED
  BY <1>1, <1>2, Becoming DEF Keeps

LEMMA Ending ==
    ASSUME op \in [Runners -> Op], NEW r \in Runners, End(r)
    PROVE  op' \in [Runners -> Op] /\ op'[r] = Idle /\ \A s \in Runners \ {r} : op'[s] = op[s]
BY IdleTyped, Becoming DEF End

LEMMA PutTyped ==
    ASSUME entry \in [VPaths -> Entry], NEW v, NEW x \in Entry, Put(v, x)
    PROVE  entry' \in [VPaths -> Entry]
BY DEF Put, Entry

\* The active drive of a pair there is is one of its drives.
LEMMA DriveTyped ==
    ASSUME pair \in [Pairs -> Pair \cup {NoPair}], NEW p \in Pairs, pair[p] # NoPair
    PROVE  ActiveDrive(p) \in Drives
BY DEF ActiveDrive, Pair, Roles

LEMMA LinkTyped ==
    ASSUME pair \in [Pairs -> Pair \cup {NoPair}], NEW o \in Owners, pair[PairOf[o]] # NoPair
    PROVE  LinkOf(o) \in Link
BY DriveTyped, PathsOK DEF LinkOf, Link, PathsOK

\* What has a row has a pair.
RowsPaired == \A o \in Owners : row[o] # NoRow => pair[PairOf[o]] # NoPair

\* What is reserved is a path, for an item.
ReservesPath == \A r \in Runners : At(r, "reserve") => op[r].owner \in Owners /\ op[r].path \in VPaths

Typed == TypeOK /\ RowsPaired /\ ReservesPath

LEMMA TypedRows ==
    ASSUME Typed, row' \in [Owners -> VPaths \cup {NoRow, NoPath}], pair' = pair,
           entry' \in [VPaths -> Entry], op' \in [Runners -> Op], service' \in {"up", "down", "starting"},
           \A s \in Runners : op'[s] = op[s] \/ op'[s].at # "reserve",
           \A o \in Owners : row[o] = NoRow => row'[o] = NoRow,
           requests' \in 0..MaxRequests, switches' \in 0..MaxSwitches, kills' \in 0..MaxKills,
           edits' \in 0..MaxEdits, userFiles' \in 0..MaxUserFiles
    PROVE  Typed'
BY DEF Typed, TypeOK, RowsPaired, ReservesPath, At, Entry

\* A request is refused with its row taken back.
LEMMA Refused ==
    ASSUME TypeOK, NEW r \in Runners, Refuse(r)
    PROVE  /\ row' \in [Owners -> VPaths \cup {NoRow, NoPath}]
           /\ \A o \in Owners : row'[o] = row[o] \/ (op[r].fresh /\ o = op[r].owner /\ row'[o] = NoRow)
           /\ op[r].fresh /\ op[r].owner \in Owners => row'[op[r].owner] = NoRow
           /\ op' \in [Runners -> Op] /\ op'[r] = Idle /\ \A s \in Runners \ {r} : op'[s] = op[s]
<1>1. op' \in [Runners -> Op] /\ op'[r] = Idle /\ \A s \in Runners \ {r} : op'[s] = op[s]
  BY Ending DEF TypeOK, Refuse
<1>2. row' = [row EXCEPT ![op[r].owner] = NoRow] \/ row' = row
  BY DEF Refuse
<1>3. op[r].fresh => row' = [row EXCEPT ![op[r].owner] = NoRow]
  BY DEF Refuse
<1>4. ~op[r].fresh => row' = row
  BY DEF Refuse
<1>6. op[r].fresh \in BOOLEAN
  BY DEF TypeOK, Op
<1> QED
  BY <1>1, <1>3, <1>4, <1>6 DEF TypeOK

\* The operation that sets a path, field by field.
SetsPath(r, o, v, fresh) ==
    /\ op'[r].at = "look" /\ op'[r].owner = o /\ op'[r].path = v /\ op'[r].link = LinkOf(o)
    /\ op'[r].replace <=> row[o] = v
    /\ op'[r].fresh = fresh
    /\ op'[r].unhook = IF HasPath(o) /\ row[o] # v THEN {row[o]} ELSE {}
    /\ op'[r].files = {} /\ op'[r].todo = {} /\ op'[r].of = {}

LEMMA SetTyped ==
    ASSUME Typed, NEW r \in Runners, NEW o \in Owners, NEW v \in VPaths, NEW fresh \in BOOLEAN,
           row[o] # NoRow, Set(r, o, v, fresh)
    PROVE  op' \in [Runners -> Op] /\ SetsPath(r, o, v, fresh) /\ \A s \in Runners \ {r} : op'[s] = op[s]
<1> DEFINE gone == IF HasPath(o) /\ row[o] # v THEN {row[o]} ELSE {}
           same == row[o] = v
           link == LinkOf(o)
           x == [Idle EXCEPT !.at = "look", !.owner = o, !.path = v, !.link = link, !.replace = same,
                             !.fresh = fresh, !.unhook = gone]
<1>1. gone \in SUBSET VPaths
  BY DEF HasPath
<1>2. link \in Link
  BY LinkTyped DEF Typed, TypeOK, RowsPaired
<1>3. same \in BOOLEAN
  OBVIOUS
<1>4. Become(r, x)
  BY DEF Set
<1> HIDE DEF gone, same, link
<1>5. x = [Idle EXCEPT !.at = "look", !.owner = o, !.path = v, !.link = link, !.replace = same,
                      !.fresh = fresh, !.unhook = gone]
  OBVIOUS
<1> HIDE DEF x
<1>6. /\ x \in Op
      /\ x.at = "look" /\ x.owner = o /\ x.path = v /\ x.link = link /\ x.replace = same
      /\ x.fresh = fresh /\ x.unhook = gone /\ x.files = {} /\ x.todo = {} /\ x.of = {}
  BY <1>1, <1>2, <1>3, <1>5 DEF Idle, Op
<1>7. op' \in [Runners -> Op] /\ op'[r] = x /\ \A s \in Runners \ {r} : op'[s] = op[s]
  BY <1>4, <1>6, Becoming DEF Typed, TypeOK
<1>8. same <=> row[o] = v
  BY DEF same
<1> QED
  BY <1>6, <1>7, <1>8 DEF SetsPath, gone, link

LEMMA CountsKept ==
    ASSUME Typed, UNCHANGED counts
    PROVE  /\ requests' \in 0..MaxRequests /\ switches' \in 0..MaxSwitches /\ kills' \in 0..MaxKills
           /\ edits' \in 0..MaxEdits /\ userFiles' \in 0..MaxUserFiles
BY DEF Typed, TypeOK, counts

LEMMA RequestCounts ==
    ASSUME Typed, NEW r, Request(r)
    PROVE  /\ requests' \in 0..MaxRequests /\ switches' \in 0..MaxSwitches /\ kills' \in 0..MaxKills
           /\ edits' \in 0..MaxEdits /\ userFiles' \in 0..MaxUserFiles
BY PathsOK DEF Typed, TypeOK, Request, PathsOK

\* A step of a request in which it goes on to another place and no row changes.
LEMMA TypedGo ==
    ASSUME Typed, NEW r \in Runners, NEW place \in Places, place # "reserve", Go(r, place), UNCHANGED <<row, pair, service, counts>>,
           entry' \in [VPaths -> Entry]
    PROVE  Typed'
<1>1. op' \in [Runners -> Op] /\ \A s \in Runners : op'[s] = op[s] \/ op'[s].at # "reserve"
  BY Going DEF Typed, TypeOK
<1> QED
  BY <1>1, CountsKept, TypedRows DEF Typed, TypeOK

LEMMA TypedEnd ==
    ASSUME Typed, NEW r \in Runners, End(r), UNCHANGED <<pair, counts>>, entry' \in [VPaths -> Entry],
           row' \in [Owners -> VPaths \cup {NoRow, NoPath}],
           \A o \in Owners : row[o] = NoRow => row'[o] = NoRow,
           service' \in {"up", "down", "starting"}
    PROVE  Typed'
<1>1. op' \in [Runners -> Op] /\ \A s \in Runners : op'[s] = op[s] \/ op'[s].at # "reserve"
  BY Ending DEF Typed, TypeOK, Idle
<1> QED
  BY <1>1, CountsKept, TypedRows DEF Typed, TypeOK

LEMMA TypedRefuse ==
    ASSUME Typed, NEW r \in Runners, Refuse(r), UNCHANGED <<pair, service, counts>>, entry' \in [VPaths -> Entry]
    PROVE  Typed'
<1>1. row' \in [Owners -> VPaths \cup {NoRow, NoPath}] /\ \A o \in Owners : row[o] = NoRow => row'[o] = NoRow
  BY Refused DEF Typed
<1>2. End(r)
  BY DEF Refuse
<1> QED
  BY <1>1, <1>2, TypedEnd DEF Typed, TypeOK

LEMMA EntryKept == ASSUME Typed, UNCHANGED entry PROVE entry' \in [VPaths -> Entry]
BY DEF Typed, TypeOK, Entry

LEMMA PutKept ==
    ASSUME Typed, NEW v, NEW x \in Entry, Put(v, x)
    PROVE  entry' \in [VPaths -> Entry]
<1>1. entry \in [VPaths -> Entry]
  BY DEF Typed, TypeOK, Entry
<1> QED
  BY <1>1, PutTyped

\* What a request that is at work on a path has in its hands.
LEMMA OpTyped ==
    ASSUME Typed, NEW r \in Runners
    PROVE  /\ op[r] \in Op /\ op[r].at \in Places /\ op[r].owner \in Owners \cup {NoOwner}
           /\ op[r].path \in VPaths \cup {NoPath} /\ op[r].link \in Entry
           /\ op[r].replace \in BOOLEAN /\ op[r].fresh \in BOOLEAN
           /\ op[r].unhook \in SUBSET VPaths /\ op[r].files \in SUBSET Files
           /\ op[r].todo \in SUBSET Mapping /\ op[r].of \in SUBSET (Pairs \X Drives)
BY DEF Typed, TypeOK, Op, Places, Entry

\* The mappings of a refresh that has the drives of all pairs with virtual paths.
LEMMA MappingsTyped ==
    ASSUME Typed, NEW r \in Runners, ~Unmapped(r)
    PROVE  /\ Mappings(r) \in SUBSET Mapping
           /\ \A m \in Mappings(r) : /\ HasPath(m.owner) /\ m.path = row[m.owner] /\ m.link.to = m.owner
                                     /\ \E x \in op[r].of : x[1] = PairOf[m.owner] /\ m.link.on = x[2]
           /\ \A o \in Owners : HasPath(o) => \E m \in Mappings(r) : m.owner = o
<1> DEFINE drive(o) == (CHOOSE x \in op[r].of : x[1] = PairOf[o])[2]
           mapping(o) == [owner |-> o, path |-> row[o], link |-> [to |-> o, on |-> drive(o)]]
<1>1. Mappings(r) = {mapping(o) : o \in {q \in Owners : HasPath(q)}}
  BY DEF Mappings
<1>2. ASSUME NEW o \in Owners, HasPath(o)
      PROVE  drive(o) \in Drives /\ \E x \in op[r].of : x[1] = PairOf[o] /\ drive(o) = x[2]
  <2>1. PICK x \in op[r].of : x[1] = PairOf[o]
    BY <1>2 DEF Unmapped
  <2> DEFINE y == CHOOSE z \in op[r].of : z[1] = PairOf[o]
  <2>2. y \in op[r].of /\ y[1] = PairOf[o]
    BY <2>1
  <2>3. drive(o) = y[2]
    OBVIOUS
  <2> HIDE DEF y
  <2>4. y[2] \in Drives
    BY <2>2, OpTyped
  <2> QED BY <2>2, <2>3, <2>4
<1> HIDE DEF drive
<1>3. \A o \in Owners : HasPath(o) => mapping(o) \in Mapping
  BY <1>2 DEF HasPath, Mapping, Link
<1>4. \A o \in Owners : mapping(o).owner = o /\ mapping(o).path = row[o] /\ mapping(o).link.to = o
                         /\ mapping(o).link.on = drive(o)
  OBVIOUS
<1> HIDE DEF mapping
<1>5. Mappings(r) \in SUBSET Mapping
  BY <1>1, <1>3
<1>6. \A o \in Owners : HasPath(o) => \E m \in Mappings(r) : m.owner = o
  BY <1>1, <1>4
<1>7. ASSUME NEW m \in Mappings(r)
      PROVE  /\ HasPath(m.owner) /\ m.path = row[m.owner] /\ m.link.to = m.owner
             /\ \E x \in op[r].of : x[1] = PairOf[m.owner] /\ m.link.on = x[2]
  <2>1. PICK o \in Owners : HasPath(o) /\ m = mapping(o)
    BY <1>1
  <2> QED BY <1>2, <1>4, <2>1
<1> QED
  BY <1>5, <1>6, <1>7

\* The operation of a refresh that has read the rows, field by field.
LEMMA CollectFields ==
    ASSUME Typed, NEW r \in Runners, Collect(r), ~Unmapped(r)
    PROVE  /\ op' \in [Runners -> Op] /\ \A s \in Runners \ {r} : op'[s] = op[s]
           /\ op'[r].at = "refresh" /\ op'[r].todo = Mappings(r) /\ op'[r].of = op[r].of
           /\ op'[r].owner = op[r].owner /\ op'[r].fresh = op[r].fresh /\ op'[r].unhook = op[r].unhook
           /\ op'[r].files = op[r].files
<1>1. PICK y, todo : y = op[r] /\ todo = Mappings(r)
  OBVIOUS
<1>2. y \in Op /\ todo \in SUBSET Mapping
  BY <1>1, OpTyped, MappingsTyped
<1> DEFINE x == [y EXCEPT !.at = "refresh", !.todo = todo]
<1>3. Become(r, x)
  BY <1>1 DEF Collect
<1>4. x \in Op
  BY ONLY <1>2 DEF Op
<1>5. /\ x.at = "refresh" /\ x.todo = todo /\ x.of = y.of /\ x.owner = y.owner /\ x.fresh = y.fresh
      /\ x.unhook = y.unhook /\ x.files = y.files
  BY ONLY <1>2 DEF Op
<1> HIDE DEF x
<1> QED
  BY <1>1, <1>3, <1>4, <1>5, Becoming DEF Typed, TypeOK

LEMMA TypedStep == ASSUME Typed, NEW r \in Runners, Step(r) PROVE Typed'
<1> USE OpTyped
<1>t. TypeOK /\ RowsPaired /\ ReservesPath
  BY DEF Typed
<1>n. Nothing \in Entry
  BY DEF Entry
<1>1. CASE Look(r)
  BY <1>1, EntryKept, TypedGo DEF Look, Places
<1>2. CASE LookRefused(r)
  BY <1>2, EntryKept, TypedRefuse DEF LookRefused
<1>m. Made(r) \in Places /\ Made(r) # "reserve"
  BY DEF Made, Places
<1>3. CASE Create(r)
  <2>1. entry' \in [VPaths -> Entry]
    BY <1>3, PutKept DEF Create
  <2> QED BY <1>3, <1>m, <2>1, TypedGo DEF Create
<1>4. CASE CreateOver(r)
  <2>1. entry' \in [VPaths -> Entry]
    BY <1>4, <1>n, PutKept DEF CreateOver
  <2> QED BY <1>4, <2>1, TypedGo DEF CreateOver, Places
<1>5. ASSUME NotMade(r), UNCHANGED <<entry, pair, service, counts>> PROVE Typed'
  <2>1. CASE op[r].of # {}
    BY <1>5, <2>1, EntryKept, TypedGo DEF NotMade, Places
  <2>2. CASE op[r].of = {}
    BY <1>5, <2>2, EntryKept, TypedRefuse DEF NotMade
  <2> QED BY <2>1, <2>2
<1>6. CASE Relink(r)
  <2>1. CASE entry[op[r].path] = Nothing
    <3>1. entry' \in [VPaths -> Entry]
      BY <1>6, <2>1, PutKept DEF Relink
    <3> QED BY <1>6, <1>m, <2>1, <3>1, TypedGo DEF Relink
  <2>2. CASE entry[op[r].path] # Nothing
    BY <1>5, <1>6, <2>2 DEF Relink
  <2> QED BY <2>1, <2>2
<1>7. CASE CreateRefused(r)
  BY <1>5, <1>7 DEF CreateRefused
<1>8. CASE Write(r)
  <2>1. op' \in [Runners -> Op] /\ \A s \in Runners : op'[s] = op[s] \/ op'[s].at # "reserve"
    <3>1. (IF op[r].fresh THEN "queue" ELSE "unhook") \in Places
      BY DEF Places
    <3> QED BY <1>8, <1>t, <3>1, Going DEF Write, TypeOK
  <2>2. row' \in [Owners -> VPaths \cup {NoRow, NoPath}]
    <3>1. CASE row[op[r].owner] = NoRow
      BY <1>8, <1>t, <3>1 DEF Write, TypeOK
    <3>2. CASE row[op[r].owner] # NoRow
      BY <1>8, <1>t, <3>2 DEF Write, TypeOK
    <3> QED BY <3>1, <3>2
  <2>3. \A o \in Owners : row[o] = NoRow => row'[o] = NoRow
    BY <1>8, <1>t DEF Write, TypeOK
  <2>4. UNCHANGED <<entry, pair, service, counts>>
    BY <1>8 DEF Write
  <2> QED BY <1>t, <2>1, <2>2, <2>3, <2>4, EntryKept, CountsKept, TypedRows DEF TypeOK
<1>9. CASE WriteFails(r)
  <2>1. CASE op[r].replace
    BY <1>9, <2>1, EntryKept, TypedRefuse DEF WriteFails
  <2>2. CASE ~op[r].replace
    BY <1>9, <2>2, EntryKept, TypedGo DEF WriteFails, Places
  <2> QED BY <2>1, <2>2
<1>10. CASE Rollback(r)
  <2>1. entry' \in [VPaths -> Entry]
    BY <1>10, <1>n, PutKept, EntryKept DEF Rollback
  <2> QED BY <1>10, <2>1, TypedRefuse DEF Rollback
<1>11. ASSUME NEW v \in VPaths, Unhook(r, v) PROVE Typed'
  <2>1. entry' \in [VPaths -> Entry]
    BY <1>11, <1>n, PutKept, EntryKept DEF Unhook
  <2>2. [op[r] EXCEPT !.unhook = @ \ {v}] \in Op
    BY <1>t DEF Op, TypeOK
  <2>3. op' \in [Runners -> Op] /\ \A s \in Runners : op'[s] = op[s] \/ op'[s].at # "reserve"
    BY <1>11, <1>t, <2>2, Becoming DEF Unhook, TypeOK, At, Op
  <2>4. UNCHANGED <<row, pair, service, counts>>
    BY <1>11 DEF Unhook
  <2> QED BY <1>t, <2>1, <2>3, <2>4, CountsKept, TypedRows DEF TypeOK
<1>12. CASE Finish(r)
  BY <1>12, <1>t, EntryKept, TypedEnd DEF Finish, TypeOK
<1>13. CASE Drop(r)
  <2>1. entry' \in [VPaths -> Entry]
    BY <1>13, <1>n, PutKept, EntryKept DEF Drop
  <2>2. row' \in [Owners -> VPaths \cup {NoRow, NoPath}] /\ \A o \in Owners : row[o] = NoRow => row'[o] = NoRow
    BY <1>13, <1>t DEF Drop, TypeOK
  <2> QED BY <1>13, <1>t, <2>1, <2>2, TypedEnd DEF Drop, TypeOK
<1>14. CASE Cascade(r)
  <2>1. op' \in [Runners -> Op] /\ \A s \in Runners : op'[s] = op[s] \/ op'[s].at # "reserve"
    BY <1>14, <1>t, Going DEF Cascade, TypeOK, Places
  <2>2. row' \in [Owners -> VPaths \cup {NoRow, NoPath}] /\ \A o \in Owners : row[o] = NoRow => row'[o] = NoRow
    BY <1>14, <1>t DEF Cascade, TypeOK
  <2>3. UNCHANGED <<entry, pair, service, counts>>
    BY <1>14 DEF Cascade
  <2> QED BY <1>t, <2>1, <2>2, <2>3, EntryKept, CountsKept, TypedRows DEF TypeOK
<1>15. CASE CascadeFails(r)
  BY <1>15, <1>t, EntryKept, TypedEnd DEF CascadeFails, TypeOK
<1>16. CASE Reserve(r)
  <2>1. CASE row[op[r].owner] = NoRow \/ Reserved(op[r].owner, op[r].path)
    BY <1>16, <2>1, EntryKept, TypedRefuse DEF Reserve
  <2>2. CASE ~(row[op[r].owner] = NoRow \/ Reserved(op[r].owner, op[r].path))
    <3>1. op[r].owner \in Owners /\ op[r].path \in VPaths /\ row[op[r].owner] # NoRow
      BY <1>16, <1>t, <2>2 DEF Reserve, ReservesPath
    <3>2. Set(r, op[r].owner, op[r].path, TRUE) /\ UNCHANGED <<row, entry, pair, service, counts>>
      BY <1>16, <2>2 DEF Reserve
    <3>3. op' \in [Runners -> Op] /\ \A s \in Runners : op'[s] = op[s] \/ op'[s].at # "reserve"
      BY <3>1, <3>2, SetTyped DEF SetsPath
    <3> QED BY <1>t, <3>2, <3>3, EntryKept, CountsKept, TypedRows DEF TypeOK
  <2> QED BY <2>1, <2>2
<1>17. CASE Queue(r)
  BY <1>17, <1>t, EntryKept, TypedEnd DEF Queue, TypeOK
<1>18. CASE QueueFails(r)
  <2>1. row' \in [Owners -> VPaths \cup {NoRow, NoPath}] /\ \A o \in Owners : row[o] = NoRow => row'[o] = NoRow
    BY <1>18, <1>t DEF QueueFails, TypeOK
  <2> QED BY <1>18, <1>t, <2>1, EntryKept, TypedEnd DEF QueueFails, TypeOK
<1>19. Up \in {"up", "down", "starting"}
  BY <1>t DEF Up, TypeOK
<1>20. CASE Collect(r)
  <2>1. CASE Unmapped(r)
    BY <1>20, <1>t, <1>19, <2>1, EntryKept, TypedEnd DEF Collect, TypeOK
  <2>2. CASE ~Unmapped(r)
    <3>2. UNCHANGED <<row, entry, pair, service, counts>>
      BY <1>20, <2>2 DEF Collect
    <3>4. op' \in [Runners -> Op] /\ \A s \in Runners : op'[s] = op[s] \/ op'[s].at # "reserve"
      BY <1>20, <2>2, CollectFields
    <3> QED BY <1>t, <3>2, <3>4, EntryKept, CountsKept, TypedRows DEF TypeOK
  <2> QED BY <2>1, <2>2
<1>21. ASSUME NEW m \in Mapping, RefreshOne(r, m) PROVE Typed'
  <2> DEFINE place == IF ~Reserved(m.owner, m.path) /\ Free(m.owner, m.path) THEN "create" ELSE op[r].at
             x == [op[r] EXCEPT !.todo = @ \ {m}, !.path = m.path, !.link = m.link, !.replace = TRUE, !.at = place]
  <2>1. Become(r, x) /\ op[r].at = "refresh" /\ UNCHANGED <<row, entry, pair, service, counts>>
    BY <1>21 DEF RefreshOne, At
  <2>2. place \in Places /\ place # "reserve"
    BY <2>1 DEF Places
  <2>3. m.path \in VPaths /\ m.link \in Link
    BY <1>21 DEF Mapping
  <2> HIDE DEF place
  <2>4. x \in Op /\ x.at # "reserve"
    <3>1. op[r] \in Op
      BY OpTyped
    <3> QED BY <2>2, <2>3, <3>1 DEF Op, Places
  <2> HIDE DEF x
  <2>5. op' \in [Runners -> Op] /\ \A s \in Runners : op'[s] = op[s] \/ op'[s].at # "reserve"
    BY <1>t, <2>1, <2>4, Becoming DEF TypeOK
  <2> QED BY <1>t, <2>1, <2>5, EntryKept, CountsKept, TypedRows DEF TypeOK
<1>22. CASE RefreshEnds(r)
  BY <1>22, <1>t, <1>19, EntryKept, TypedEnd DEF RefreshEnds, TypeOK
<1> QED
  BY <1>1, <1>2, <1>3, <1>4, <1>6, <1>7, <1>8, <1>9, <1>10, <1>11, <1>12, <1>13, <1>14, <1>15, <1>16, <1>17,
     <1>18, <1>20, <1>21, <1>22 DEF Step

LEMMA PairsTyped ==
    ASSUME Typed
    PROVE  /\ AllPairs \in SUBSET (Pairs \X Drives)
           /\ \A x \in AllPairs : x[1] \in Pairs /\ pair[x[1]] # NoPair /\ x[2] = ActiveDrive(x[1])
           /\ \A p \in Pairs : pair[p] # NoPair => \E x \in AllPairs : x[1] = p
<1>1. ASSUME NEW p \in Pairs, pair[p] # NoPair PROVE ActiveDrive(p) \in Drives
  BY <1>1, DriveTyped DEF Typed, TypeOK
<1>2. ASSUME NEW x \in AllPairs
      PROVE  x \in Pairs \X Drives /\ x[1] \in Pairs /\ pair[x[1]] # NoPair /\ x[2] = ActiveDrive(x[1])
  <2>1. PICK p \in Pairs : pair[p] # NoPair /\ x = <<p, ActiveDrive(p)>>
    BY DEF AllPairs
  <2> QED BY <1>1, <2>1
<1>3. ASSUME NEW p \in Pairs, pair[p] # NoPair PROVE \E x \in AllPairs : x[1] = p
  <2>1. <<p, ActiveDrive(p)>> \in AllPairs
    BY <1>3 DEF AllPairs
  <2> QED BY <2>1
<1> QED
  BY <1>2, <1>3

\* The operation that refreshes links, field by field.
LEMMA RefreshFields ==
    ASSUME Typed, NEW r \in Runners, NEW of \in SUBSET (Pairs \X Drives),
           Become(r, [Idle EXCEPT !.at = "collect", !.of = of])
    PROVE  /\ op' \in [Runners -> Op] /\ \A s \in Runners \ {r} : op'[s] = op[s]
           /\ op'[r].at = "collect" /\ op'[r].of = of /\ op'[r].owner = NoOwner /\ op'[r].path = NoPath
           /\ op'[r].replace = FALSE /\ op'[r].fresh = FALSE /\ op'[r].unhook = {} /\ op'[r].files = {}
           /\ op'[r].todo = {}
<1> DEFINE x == [Idle EXCEPT !.at = "collect", !.of = of]
<1>1. /\ x \in Op /\ x.at = "collect" /\ x.of = of /\ x.owner = NoOwner /\ x.path = NoPath
      /\ x.replace = FALSE /\ x.fresh = FALSE /\ x.unhook = {} /\ x.files = {} /\ x.todo = {}
  BY DEF Idle, Op
<1>2. Become(r, x)
  OBVIOUS
<1> HIDE DEF x
<1> QED
  BY <1>1, <1>2, Becoming DEF Typed, TypeOK

\* A request to remove a path, to untrack, or to track with a path, field by field.
AsksFor(r, place, o, v, fresh, unhook, files) ==
    /\ op'[r].at = place /\ op'[r].owner = o /\ op'[r].path = v /\ op'[r].link = Nothing
    /\ op'[r].replace = FALSE /\ op'[r].fresh = fresh /\ op'[r].unhook = unhook /\ op'[r].files = files
    /\ op'[r].todo = {} /\ op'[r].of = {}

LEMMA RemovePathFields ==
    ASSUME Typed, NEW r \in Runners, NEW o \in Owners, RemovePath(r, o)
    PROVE  /\ op' \in [Runners -> Op] /\ \A s \in Runners \ {r} : op'[s] = op[s]
           /\ AsksFor(r, "unhook", o, NoPath, FALSE, {row[o]}, {})
<1> DEFINE x == [Idle EXCEPT !.at = "unhook", !.owner = o, !.unhook = {row[o]}]
<1>1. Become(r, x) /\ row[o] \in VPaths
  BY DEF RemovePath, HasPath
<1>2. /\ x \in Op /\ x.at = "unhook" /\ x.owner = o /\ x.path = NoPath /\ x.link = Nothing
      /\ x.replace = FALSE /\ x.fresh = FALSE /\ x.unhook = {row[o]} /\ x.files = {} /\ x.todo = {} /\ x.of = {}
  BY <1>1 DEF Idle, Op
<1> HIDE DEF x
<1> QED
  BY <1>1, <1>2, Becoming DEF Typed, TypeOK, AsksFor

LEMMA DeleteFileFields ==
    ASSUME Typed, NEW r \in Runners, NEW f \in Files, DeleteFile(r, f)
    PROVE  /\ op' \in [Runners -> Op] /\ \A s \in Runners \ {r} : op'[s] = op[s]
           /\ AsksFor(r, "drop", f, NoPath, FALSE, IF HasPath(f) THEN {row[f]} ELSE {}, {})
<1> DEFINE gone == IF HasPath(f) THEN {row[f]} ELSE {}
           x == [Idle EXCEPT !.at = "drop", !.owner = f, !.unhook = gone]
<1>1. Become(r, x) /\ gone \in SUBSET VPaths
  BY DEF DeleteFile, HasPath
<1> HIDE DEF gone
<1>2. /\ x \in Op /\ x.at = "drop" /\ x.owner = f /\ x.path = NoPath /\ x.link = Nothing
      /\ x.replace = FALSE /\ x.fresh = FALSE /\ x.unhook = gone /\ x.files = {} /\ x.todo = {} /\ x.of = {}
  BY <1>1 DEF Idle, Op, Owners
<1> HIDE DEF x
<1> QED
  BY <1>1, <1>2, Becoming DEF Typed, TypeOK, AsksFor, gone

LEMMA UntrackFields ==
    ASSUME Typed, NEW r \in Runners, NEW d \in Folders, Untrack(r, d)
    PROVE  /\ op' \in [Runners -> Op] /\ \A s \in Runners \ {r} : op'[s] = op[s]
           /\ AsksFor(r, "cascade", d, NoPath, FALSE,
                      {row[o] : o \in {q \in Descendants(d) \cup {d} : HasPath(q)}}, Descendants(d))
<1> DEFINE gone == {row[o] : o \in {q \in Descendants(d) \cup {d} : HasPath(q)}}
           files == Descendants(d)
           x == [Idle EXCEPT !.at = "cascade", !.owner = d, !.files = files, !.unhook = gone]
<1>1. Become(r, x) /\ gone \in SUBSET VPaths /\ files \in SUBSET Files
  BY DEF Untrack, HasPath, Descendants
<1> HIDE DEF gone, files
<1>2. /\ x \in Op /\ x.at = "cascade" /\ x.owner = d /\ x.path = NoPath /\ x.link = Nothing
      /\ x.replace = FALSE /\ x.fresh = FALSE /\ x.unhook = gone /\ x.files = files /\ x.todo = {} /\ x.of = {}
  BY <1>1 DEF Idle, Op, Owners
<1> HIDE DEF x
<1> QED
  BY <1>1, <1>2, Becoming DEF Typed, TypeOK, AsksFor, gone, files

LEMMA TrackFields ==
    ASSUME Typed, NEW r \in Runners, NEW o \in Owners, Track(r, o)
    PROVE  /\ op' \in [Runners -> Op] /\ \A s \in Runners \ {r} : op'[s] = op[s]
           /\ op'[r] = Idle \/ \E v \in VPaths : Asked(v) /\ AsksFor(r, "reserve", o, v, TRUE, {}, {})
<1>1. CASE Become(r, Idle)
  BY <1>1, IdleTyped, Becoming DEF Typed, TypeOK
<1>2. ASSUME NEW v \in VPaths, Asked(v),
             Become(r, [Idle EXCEPT !.at = "reserve", !.owner = o, !.path = v, !.fresh = TRUE])
      PROVE  /\ op' \in [Runners -> Op] /\ \A s \in Runners \ {r} : op'[s] = op[s]
             /\ AsksFor(r, "reserve", o, v, TRUE, {}, {})
  <2> DEFINE x == [Idle EXCEPT !.at = "reserve", !.owner = o, !.path = v, !.fresh = TRUE]
  <2>1. /\ x \in Op /\ x.at = "reserve" /\ x.owner = o /\ x.path = v /\ x.link = Nothing
        /\ x.replace = FALSE /\ x.fresh = TRUE /\ x.unhook = {} /\ x.files = {} /\ x.todo = {} /\ x.of = {}
    BY DEF Idle, Op
  <2>2. Become(r, x)
    BY <1>2
  <2> HIDE DEF x
  <2> QED
    BY <2>1, <2>2, Becoming DEF Typed, TypeOK, AsksFor
<1> QED
  BY <1>1, <1>2 DEF Track

LEMMA TypedAsk == ASSUME Typed, NEW r \in Runners, Ask(r) PROVE Typed'
<1>t. TypeOK /\ RowsPaired /\ ReservesPath
  BY DEF Typed
<1> DEFINE OpsTyped == op' \in [Runners -> Op] /\ \A s \in Runners : op'[s] = op[s] \/ op'[s].at # "reserve"
           RowsTyped == /\ row' \in [Owners -> VPaths \cup {NoRow, NoPath}]
                        /\ \A o \in Owners : row[o] = NoRow => row'[o] = NoRow
<1>1. ASSUME NEW o \in Owners, NEW v \in VPaths, SetPath(r, o, v) PROVE Typed'
  <2>1. row[o] # NoRow /\ Set(r, o, v, FALSE) /\ Request(r) /\ UNCHANGED <<row, entry, pair, service>>
    BY <1>1 DEF SetPath
  <2>2. OpsTyped
    BY <2>1, SetTyped DEF SetsPath
  <2> QED BY <1>t, <2>1, <2>2, EntryKept, RequestCounts, TypedRows DEF TypeOK
<1>2. ASSUME NEW o \in Owners, RemovePath(r, o) PROVE Typed'
  <2>1. RowsTyped /\ Request(r) /\ UNCHANGED <<entry, pair, service>>
    BY <1>2, <1>t, ValuesApart DEF RemovePath, HasPath, TypeOK, ValuesApart
  <2>2. OpsTyped
    BY <1>2, RemovePathFields DEF AsksFor
  <2> QED BY <1>t, <2>1, <2>2, EntryKept, RequestCounts, TypedRows DEF TypeOK
<1>3. ASSUME NEW f \in Files, DeleteFile(r, f) PROVE Typed'
  <2>1. RowsTyped /\ Request(r) /\ UNCHANGED <<entry, pair, service>>
    BY <1>3, <1>t DEF DeleteFile, TypeOK
  <2>2. OpsTyped
    BY <1>3, DeleteFileFields DEF AsksFor
  <2> QED BY <1>t, <2>1, <2>2, EntryKept, RequestCounts, TypedRows DEF TypeOK
<1>4. ASSUME NEW d \in Folders, Untrack(r, d) PROVE Typed'
  <2>1. Request(r) /\ UNCHANGED <<row, entry, pair, service>>
    BY <1>4 DEF Untrack
  <2>2. OpsTyped
    BY <1>4, UntrackFields DEF AsksFor
  <2> QED BY <1>t, <2>1, <2>2, EntryKept, RequestCounts, TypedRows DEF TypeOK
<1>5. ASSUME NEW o \in Owners, Track(r, o) PROVE Typed'
  <2>1. /\ Request(r) /\ UNCHANGED <<entry, pair, service>> /\ pair[PairOf[o]] # NoPair
        /\ row' = [row EXCEPT ![o] = NoPath]
    BY <1>5 DEF Track
  <2>2. op' \in [Runners -> Op] /\ \A s \in Runners : op'[s].at = "reserve" =>
                                      op'[s].owner \in Owners /\ op'[s].path \in VPaths
    <3>1. op'[r].at = "reserve" => op'[r].owner \in Owners /\ op'[r].path \in VPaths
      <4>1. CASE op'[r] = Idle
        BY <4>1 DEF Idle
      <4>2. ASSUME NEW v \in VPaths, AsksFor(r, "reserve", o, v, TRUE, {}, {})
            PROVE  op'[r].owner \in Owners /\ op'[r].path \in VPaths
        BY <4>2 DEF AsksFor
      <4> QED BY <1>5, <4>1, <4>2, TrackFields
    <3>2. op' \in [Runners -> Op] /\ \A s \in Runners \ {r} : op'[s] = op[s]
      BY <1>5, TrackFields
    <3> QED BY <1>t, <3>1, <3>2 DEF ReservesPath, At
  <2>3. TypeOK'
    BY <1>t, <2>1, <2>2, RequestCounts DEF TypeOK
  <2>4. RowsPaired'
    BY <1>t, <2>1 DEF RowsPaired, TypeOK
  <2>5. ReservesPath'
    BY <2>2 DEF ReservesPath, At
  <2> QED BY <2>3, <2>4, <2>5 DEF Typed
<1>6. ASSUME NEW of \in SUBSET (Pairs \X Drives), Refreshes(r, of) PROVE OpsTyped
  BY <1>6, RefreshFields DEF Refreshes
<1>7. CASE Refresh(r)
  <2>1. Request(r) /\ Refreshes(r, AllPairs) /\ UNCHANGED <<row, entry, pair, service>>
    BY <1>7 DEF Refresh
  <2>2. OpsTyped
    BY <2>1, <1>6, PairsTyped
  <2> QED BY <1>t, <2>1, <2>2, EntryKept, RequestCounts, TypedRows DEF TypeOK
<1>8. ASSUME NEW p \in Pairs, Switch(r, p) PROVE Typed'
  <2> DEFINE of == {<<p, pair[p][Opposite(pair[p].active)]>>}
  <2>1. /\ pair[p] \in Pair /\ Refreshes(r, of) /\ UNCHANGED <<row, entry, service, requests, kills, edits, userFiles>>
        /\ switches < MaxSwitches /\ switches' = switches + 1
        /\ pair' = [pair EXCEPT ![p].active = Opposite(@)]
    BY <1>8, <1>t DEF Switch, TypeOK
  <2>2. of \in SUBSET (Pairs \X Drives)
    BY <2>1 DEF Pair, Roles, Opposite
  <2> HIDE DEF of
  <2>3. OpsTyped
    BY <2>1, <2>2, <1>6
  <2>4. pair' \in [Pairs -> Pair \cup {NoPair}] /\ pair'[p] \in Pair /\ \A q \in Pairs \ {p} : pair'[q] = pair[q]
    <3>1. [pair[p] EXCEPT !.active = Opposite(@)] \in Pair
      BY <2>1 DEF Pair, Roles, Opposite
    <3> QED BY <1>t, <2>1, <3>1 DEF TypeOK
  <2>5. TypeOK'
    BY <1>t, <2>1, <2>3, <2>4, PathsOK DEF TypeOK, PathsOK
  <2>6. RowsPaired'
    BY <1>t, <2>1, <2>4, PathsOK, ValuesApart DEF RowsPaired, PathsOK, ValuesApart
  <2>7. ReservesPath'
    BY <1>t, <2>3 DEF ReservesPath, At
  <2> QED BY <2>5, <2>6, <2>7 DEF Typed
<1> QED
  BY <1>1, <1>2, <1>3, <1>4, <1>5, <1>7, <1>8 DEF Ask, FilePath, FolderPath, Owners

LEMMA TypedStart == ASSUME Typed, NEW r \in Runners, Start(r) PROVE Typed'
<1>t. TypeOK /\ RowsPaired /\ ReservesPath
  BY DEF Typed
<1>1. op' \in [Runners -> Op] /\ \A s \in Runners : op'[s] = op[s] \/ op'[s].at # "reserve"
  <2>1. CASE AllPairs = {}
    BY <1>t, <2>1, IdleTyped, Becoming DEF Start, TypeOK, Idle
  <2>2. CASE AllPairs # {}
    BY <2>2, RefreshFields, PairsTyped DEF Start
  <2> QED BY <2>1, <2>2
<1>2. UNCHANGED <<row, entry, pair, counts>> /\ service' \in {"up", "down", "starting"}
  BY DEF Start
<1> QED
  BY <1>t, <1>1, <1>2, EntryKept, CountsKept, TypedRows DEF TypeOK

LEMMA TypedKill == ASSUME Typed, Kill PROVE Typed'
<1>1. op' \in [Runners -> Op] /\ \A s \in Runners : op'[s].at # "reserve"
  BY IdleTyped DEF Kill, Idle
<1> QED
  BY <1>1, PathsOK, EntryKept, TypedRows DEF Kill, Typed, TypeOK, PathsOK

LEMMA TypedUserFile == ASSUME Typed, NEW v \in VPaths, UserFile(v) PROVE Typed'
<1>1. entry' \in [VPaths -> Entry]
  BY PutKept DEF UserFile, Entry
<1> QED
  BY <1>1, PathsOK, TypedRows DEF UserFile, Typed, TypeOK, PathsOK

\* A step that edits the pairs: a pair is replaced, or one that nothing tracked is on is deleted.
LEMMA TypedAdminister ==
    ASSUME Typed, Administer
    PROVE  /\ Typed'
           /\ UNCHANGED <<row, entry, op, service>>
<1>t. TypeOK /\ RowsPaired /\ ReservesPath
  BY DEF Typed
<1>1. ASSUME NEW p \in Pairs, NEW x \in Pair \cup {NoPair}, Edit, pair' = [pair EXCEPT ![p] = x],
             x = NoPair => \A o \in Owners : PairOf[o] = p => row[o] = NoRow
      PROVE  Typed' /\ UNCHANGED <<row, entry, op, service>>
  <2>1. UNCHANGED <<row, entry, op, service, requests, switches, kills, userFiles>>
        /\ edits < MaxEdits /\ edits' = edits + 1
    BY <1>1 DEF Edit
  <2>2. TypeOK'
    BY <1>1, <1>t, <2>1, PathsOK DEF TypeOK, PathsOK
  <2>3. RowsPaired'
    BY <1>1, <1>t, <2>1, PathsOK DEF RowsPaired, PathsOK, TypeOK
  <2>4. ReservesPath'
    BY <1>t, <2>1 DEF ReservesPath, At
  <2> QED BY <2>1, <2>2, <2>3, <2>4 DEF Typed
<1>2. ASSUME NEW p \in Pairs, NEW d \in Drives, NEW e \in Drives, CreatePair(p, d, e)
      PROVE  Typed' /\ UNCHANGED <<row, entry, op, service>>
  <2>1. [primary |-> d, secondary |-> e, active |-> "primary"] \in Pair
    BY DEF Pair, Roles
  <2>2. [primary |-> d, secondary |-> e, active |-> "primary"] # NoPair
    BY <2>1, ValuesApart DEF ValuesApart
  <2> QED BY <1>1, <1>2, <2>1, <2>2 DEF CreatePair
<1>3. ASSUME NEW p \in Pairs, NEW role \in Roles, NEW d \in Drives, UpdatePair(p, role, d)
      PROVE  Typed' /\ UNCHANGED <<row, entry, op, service>>
  <2> DEFINE x == [pair[p] EXCEPT ![role] = d]
  <2>1. x \in Pair
    <3>1. pair[p] \in Pair
      BY <1>3, <1>t DEF UpdatePair, TypeOK
    <3> QED BY <3>1 DEF Pair, Roles
  <2>2. x # NoPair
    BY <2>1, ValuesApart DEF ValuesApart
  <2>3. pair' = [pair EXCEPT ![p] = x]
    BY <1>3 DEF UpdatePair
  <2> HIDE DEF x
  <2> QED BY <1>1, <1>3, <2>1, <2>2, <2>3 DEF UpdatePair
<1>4. ASSUME NEW p \in Pairs, DeletePair(p) PROVE Typed' /\ UNCHANGED <<row, entry, op, service>>
  BY <1>1, <1>4 DEF DeletePair
<1> QED
  BY <1>2, <1>3, <1>4 DEF Administer

LEMMA TypedInit == Init => Typed
<1> SUFFICES ASSUME Init PROVE Typed
  OBVIOUS
<1>1. TypeOK
  BY PathsOK, ValuesApart, IdleTyped DEF Init, TypeOK, PathsOK, ValuesApart
<1>2. RowsPaired /\ ReservesPath
  BY PathsOK, ValuesApart DEF Init, RowsPaired, ReservesPath, At, Idle, PathsOK, ValuesApart
<1> QED
  BY <1>1, <1>2 DEF Typed

LEMMA TypedNext == Typed /\ [Next]_vars => Typed'
<1> SUFFICES ASSUME Typed, [Next]_vars PROVE Typed'
  OBVIOUS
<1>1. CASE UNCHANGED vars
  BY <1>1 DEF Typed, TypeOK, RowsPaired, ReservesPath, At, vars, counts
<1> QED
  BY <1>1, TypedAsk, TypedStep, TypedStart, TypedAdminister, TypedKill, TypedUserFile DEF Next

\* The rows, the entries, the pairs and the operations of requests stay within their
\* types, and what is tracked has a pair, whatever requests meet.
THEOREM TypeCorrect == Spec => [](TypeOK /\ RowsPaired)
BY TypedInit, TypedNext, PTL DEF Spec, Typed
-----------------------------------------------------------------------------
(* The inductive invariant *)

\* What is excluded for the links and rows to stay apart: everything out of Freedoms but
\* a switch while another pair has virtual paths, and drives edited below virtual paths.
Orderly == Allowed \cap {"same owner", "nested", "set again", "below own", "refresh beside", "below orphan"} = {}
\* These two leave links to the drive that was the active one.
Exact == Allowed \cap {"two pairs", "edit mapped"} = {}

\* A link leads to an item; to its data on the active drive, where that is exact.
Right(x, o) == x \in Link /\ x.to = o /\ (Exact => x = LinkOf(o))

\* What has anything below it is a directory.
TreeOK == \A u, v \in VPaths : Below(v, u) /\ entry[v] # Nothing => entry[u] = Dir

\* Where an item has its path there is nothing, or its link; and above it, no link
\* and no file.
RowOpen(o) ==
    HasPath(o) =>
       /\ entry[row[o]] # Nothing => entry[row[o]] \in Link /\ entry[row[o]].to = o
       /\ \A u \in VPaths : Below(row[o], u) => entry[u] \in {Nothing, Dir}
RowsOpen == \A o \in Owners : RowOpen(o)

\* Nobody else has a path that is the item's, above it or below it.
RowApart(o) == HasPath(o) => \A q \in Owners \ {o} : HasPath(q) => ~Overlap(row[o], row[q])
RowsApart == \A o \in Owners : RowApart(o)

\* The items and the paths a request is about.
Mine(r) == ({op[r].owner} \cup op[r].files) \cap Owners
Foot(r) == ({op[r].path} \cup op[r].unhook) \cap VPaths

\* A request that sets the path an item has already.
SetsAgain(r) == op[r].at \in {"look", "create", "relink", "write"} /\ op[r].replace

\* Two requests are about different items, and about paths of which none is above another;
\* a path that is set again is nobody else's business, but of one that will be refused.
OpsApart ==
    \A r, s \in Runners : r # s =>
       /\ Mine(r) \cap Mine(s) = {}
       /\ \A u \in Foot(r), w \in Foot(s) : u = w \/ ~Overlap(u, w)
       /\ SetsAgain(r) => /\ op[s].path = op[r].path => At(s, "reserve")
                          /\ op[r].path \notin op[s].unhook

\* A request that sets a path has a link for it, and remembers the path given up.
Sets(r) ==
    /\ op[r].files = {} /\ op[r].path \in VPaths
    /\ row[op[r].owner] # NoRow
    /\ Right(op[r].link, op[r].owner)
    /\ op[r].replace <=> row[op[r].owner] = op[r].path
    /\ op[r].fresh => row[op[r].owner] = NoPath
    /\ op[r].unhook = IF HasPath(op[r].owner) /\ row[op[r].owner] # op[r].path THEN {row[op[r].owner]} ELSE {}

\* No link is above the path, nor are items' paths above or below it.
Open(r) ==
    /\ \A q \in Owners \ {op[r].owner} : HasPath(q) => ~Below(row[q], op[r].path) /\ ~Below(op[r].path, row[q])
    /\ HasPath(op[r].owner) => ~Below(op[r].path, row[op[r].owner])
    /\ \A u \in VPaths : Below(op[r].path, u) => ~IsLink(entry[u])

\* A request that has made a row for a path; links above the path belong to items.
Reserves(r) ==
    /\ op[r].files = {} /\ op[r].path \in VPaths /\ op[r].unhook = {}
    /\ op[r].fresh /\ ~op[r].replace
    /\ row[op[r].owner] = NoPath
    /\ \A u \in VPaths : Below(op[r].path, u) /\ IsLink(entry[u]) => \E q \in Owners : row[q] = u

\* The links to be removed are the request's own, and no row's.
Hooks(r) ==
    \A v \in op[r].unhook : entry[v] \in Link /\ entry[v].to \in Mine(r) /\ row[entry[v].to] # v

\* What is true of a request that is no refresh, at each of its steps.
PlainOK(r) ==
    /\ op[r].of = {} /\ op[r].todo = {} /\ op[r].owner \in Owners
    /\ op[r].at \notin {"idle", "collect", "refresh"}
    /\ op[r].files # {} => op[r].owner \in Folders
    /\ \A f \in op[r].files : Within[f] = op[r].owner
    /\ At(r, "reserve") => Reserves(r)
    /\ op[r].at \in {"look", "create", "relink", "write"} => Sets(r) /\ Open(r)
    /\ At(r, "relink") => op[r].replace /\ entry[op[r].path] = Nothing
    /\ At(r, "write") => entry[op[r].path] = op[r].link
    /\ At(r, "rollback") => Sets(r) /\ ~op[r].replace /\ entry[op[r].path] = op[r].link
    /\ At(r, "queue") => op[r].files = {} /\ op[r].unhook = {} /\ row[op[r].owner] = op[r].path
    /\ At(r, "unhook") => Hooks(r)
    /\ At(r, "drop") => op[r].files = {} /\ row[op[r].owner] = NoPath /\ Hooks(r)
    /\ At(r, "cascade") => op[r].unhook = {row[o] : o \in {q \in Mine(r) : HasPath(q)}}

\* A link there is leads to the item.
Hooked(o) == HasPath(o) => entry[row[o]] \in Link /\ entry[row[o]].to = o

\* A refresh works alone, with the active drives.
Alone(r) ==
    /\ \A s \in Runners \ {r} : op[s] = Idle
    /\ op[r].of # {} /\ op[r].owner = NoOwner /\ ~op[r].fresh /\ op[r].unhook = {} /\ op[r].files = {}
    /\ Exact => \A o \in Owners : HasPath(o) =>
          \A x \in op[r].of : x[1] = PairOf[o] => x[2] = ActiveDrive(PairOf[o])

\* A refresh that has not read the rows yet has the drives of all of them, or the links are there.
Collects(r) ==
    \/ \A o \in Owners : HasPath(o) => \E x \in op[r].of : x[1] = PairOf[o]
    \/ ~Exact /\ \A o \in Owners : Hooked(o)

\* The mapping in work is of an item with that path.
Makes(r) ==
    /\ op[r].replace /\ op[r].path \in VPaths
    /\ op[r].link \in Link /\ Right(op[r].link, op[r].link.to) /\ row[op[r].link.to] = op[r].path

\* Every link is right, still to be refreshed, or in work.
Restores(r) ==
    /\ \A m \in op[r].todo : row[m.owner] = m.path /\ Right(m.link, m.owner)
    /\ \A o \in Owners : HasPath(o) =>
          \/ Right(entry[row[o]], o)
          \/ \E m \in op[r].todo : m.owner = o
          \/ op[r].at \in {"create", "relink"} /\ op[r].link.to = o

RefreshOK(r) ==
    /\ Alone(r)
    /\ op[r].at \in {"collect", "refresh", "create", "relink"}
    /\ At(r, "collect") => Collects(r)
    /\ ~At(r, "collect") => Restores(r)
    /\ op[r].at \in {"create", "relink"} => Makes(r)
    /\ At(r, "relink") => entry[op[r].path] = Nothing

OpOK(r) == op[r] = Idle \/ PlainOK(r) \/ RefreshOK(r)
OpsOK == \A r \in Runners : OpOK(r)

\* An item's link is at its path, or about to be made there again.
Linked(o) ==
    HasPath(o) => \/ Right(entry[row[o]], o)
                  \/ \E r \in Runners : At(r, "relink") /\ op[r].owner = o

Quiet == \A r \in Runners : ~Refreshing(r)
RowsLinked == service = "up" /\ Quiet => \A o \in Owners : Linked(o)

\* The service is down with nothing at work, and starts with a refresh.
ServiceOK ==
    /\ service = "down" => \A r \in Runners : op[r] = Idle
    /\ service = "starting" => ~Quiet

IInv == /\ Typed /\ TreeOK /\ RowsOpen /\ RowsApart /\ OpsApart /\ OpsOK
        /\ RowsLinked /\ ServiceOK
-----------------------------------------------------------------------------
(* Links put and taken away *)

\* An entry is taken away, and nothing else changes.
Cleared(v) == \A u \in VPaths : entry'[u] = IF u = v THEN Nothing ELSE entry[u]
\* Something is put where nothing was, with directories above it.
Filled(v, x) ==
    /\ entry'[v] = x
    /\ \A u \in VPaths \ {v} : IF Below(v, u) THEN entry'[u] = Dir ELSE entry'[u] = entry[u]

LEMMA Clearing ==
    ASSUME Typed, TreeOK, NEW v \in VPaths, IsLink(entry[v]), Put(v, Nothing)
    PROVE  Cleared(v) /\ TreeOK'
<1>1. \A u \in VPaths : Below(u, v) => entry[u] = Nothing
  BY DEF TreeOK, IsLink
<1>2. Cleared(v)
  BY <1>1 DEF Put, Cleared
<1>3. ASSUME NEW u \in VPaths, NEW w \in VPaths, Below(w, u), entry'[w] # Nothing PROVE entry'[u] = Dir
  <2>1. w # v /\ entry[w] # Nothing
    BY <1>2, <1>3 DEF Cleared
  <2>2. entry[u] = Dir
    BY <1>3, <2>1 DEF TreeOK
  <2>3. u # v
    BY <2>2 DEF IsLink
  <2> QED BY <1>2, <2>2, <2>3 DEF Cleared
<1> QED
  BY <1>2, <1>3 DEF TreeOK

LEMMA Filling ==
    ASSUME Typed, TreeOK, NEW v \in VPaths, entry[v] = Nothing, NEW x, x # Nothing,
           \A u \in VPaths : Below(v, u) => entry[u] \in {Nothing, Dir},
           Put(v, x)
    PROVE  Filled(v, x) /\ TreeOK'
<1>1. \A u \in VPaths : Below(u, v) => entry[u] = Nothing
  BY ValuesApart DEF TreeOK, ValuesApart
<1>2. \A u \in VPaths : Below(u, v) => ~Below(v, u)
  BY BelowOrder
<1>3. entry'[v] = x
  BY DEF Put
<1>4. ASSUME NEW u \in VPaths \ {v} PROVE IF Below(v, u) THEN entry'[u] = Dir ELSE entry'[u] = entry[u]
  <2>1. CASE Below(v, u)
    BY <1>2, <2>1 DEF Put
  <2>2. CASE ~Below(v, u)
    BY <1>1, <2>2 DEF Put
  <2> QED BY <2>1, <2>2
<1>5. Filled(v, x)
  BY <1>3, <1>4 DEF Filled
<1>6. ASSUME NEW u \in VPaths, NEW w \in VPaths, Below(w, u), entry'[w] # Nothing PROVE entry'[u] = Dir
  <2>1. CASE w = v
    BY <1>5, <1>6, <2>1, BelowOrder DEF Filled
  <2>2. CASE Below(v, w)
    <3>1. Below(v, u) /\ u # v
      BY <1>6, <2>2, BelowOrder
    <3> QED BY <1>5, <3>1 DEF Filled
  <2>3. CASE w # v /\ ~Below(v, w)
    <3>1. entry[w] # Nothing
      BY <1>5, <1>6, <2>3 DEF Filled
    <3>2. entry[u] = Dir
      BY <1>6, <3>1 DEF TreeOK
    <3>3. u # v
      BY <3>2, ValuesApart DEF ValuesApart
    <3> QED BY <1>5, <3>2, <3>3 DEF Filled
  <2> QED BY <2>1, <2>2, <2>3
<1> QED
  BY <1>5, <1>6 DEF TreeOK

\* What there is above a path to which nothing is blocked.
LEMMA NotBlocked ==
    ASSUME Typed, TreeOK, NEW v \in VPaths, ~Blocked(v), \A u \in VPaths : Below(v, u) => ~IsLink(entry[u])
    PROVE  \A u \in VPaths : Below(v, u) => entry[u] \in {Nothing, Dir}
BY DEF Blocked, IsLink

\* A link is none of the marks.
LEMMA LinkIsLink == \A x \in Entry : IsLink(x) <=> x \in Link
BY ValuesApart DEF IsLink, ValuesApart, Entry

-----------------------------------------------------------------------------
(* What a step of one request leaves alone *)

\* Rows and entries change for the items M and at the paths F only.
RowsFramed(F, M) ==
    \A o \in Owners : row'[o] # row[o] =>
       o \in M /\ row[o] \in F \cup {NoRow, NoPath} /\ row'[o] \in F \cup {NoRow, NoPath}
EntriesFramed(F, M) ==
    \A u \in VPaths : entry'[u] # entry[u] =>
       \/ u \in F /\ entry[u] = Nothing /\ \A q \in Owners \ M : HasPath(q) => ~Below(row[q], u)
       \/ u \in F /\ entry[u] \in Link /\ entry[u].to \in M /\ entry'[u] = Nothing
       \/ entry[u] = Nothing /\ entry'[u] = Dir /\ \E v \in F : Below(v, u)

\* A step of a request on paths and items that no other request is about.
Framed(r, F, M) ==
    /\ F \subseteq VPaths /\ M \subseteq Owners
    /\ \A s \in Runners \ {r} :
          /\ op'[s] = op[s]
          /\ M \cap Mine(s) = {}
          /\ \A u \in F, w \in Foot(s) : u = w \/ ~Overlap(u, w)
          /\ SetsAgain(s) => op[s].path \notin F
    /\ pair' = pair /\ service' = service /\ service = "up"
    /\ RowsFramed(F, M) /\ EntriesFramed(F, M)
    /\ At(r, "relink") => op[r].owner \in M
    /\ Quiet

\* No request refreshes, and each is idle or at work on its own.
LEMMA QuietOps ==
    ASSUME OpsOK, Quiet, NEW s \in Runners
    PROVE  op[s] = Idle \/ PlainOK(s)
BY DEF OpsOK, OpOK, RefreshOK, Alone, Quiet, Refreshing

LEMMA IdleFields ==
    ASSUME NEW s, op[s] = Idle
    PROVE  /\ op[s].at = "idle" /\ op[s].owner = NoOwner /\ op[s].path = NoPath /\ op[s].files = {}
           /\ op[s].unhook = {} /\ op[s].of = {} /\ op[s].todo = {} /\ ~op[s].replace
           /\ Mine(s) = {} /\ Foot(s) = {}
<1>1. /\ op[s].at = "idle" /\ op[s].owner = NoOwner /\ op[s].path = NoPath /\ op[s].files = {}
      /\ op[s].unhook = {} /\ op[s].of = {} /\ op[s].todo = {} /\ ~op[s].replace
  BY DEF Idle
<1> QED
  BY <1>1, ValuesApart DEF Mine, Foot, ValuesApart

\* An item with its path and no link there is at the step of a request that puts the link back.
LEMMA Unlinked ==
    ASSUME IInv, Quiet, service = "up", NEW q \in Owners, HasPath(q), entry[row[q]] = Nothing
    PROVE  \E s \in Runners : /\ PlainOK(s) /\ At(s, "relink") /\ op[s].owner = q
                              /\ SetsAgain(s) /\ op[s].path = row[q]
<1>1. ~Right(entry[row[q]], q)
  BY ValuesApart DEF Right, ValuesApart
<1>2. PICK s \in Runners : At(s, "relink") /\ op[s].owner = q
  BY <1>1 DEF IInv, RowsLinked, Linked
<1>3. PlainOK(s)
  BY <1>2, QuietOps, IdleFields DEF IInv, At
<1>4. op[s].replace /\ op[s].path = row[q]
  BY <1>2, <1>3 DEF PlainOK, Sets, At
<1> QED
  BY <1>2, <1>3, <1>4 DEF SetsAgain, At

\* The items that a step is not about keep their rows, their links, and what is above.
LEMMA RowsKept ==
    ASSUME IInv, NEW r \in Runners, NEW F, NEW M, Framed(r, F, M), NEW q \in Owners \ M
    PROVE  row'[q] = row[q] /\ RowOpen(q)' /\ Linked(q)'
<1>1. row'[q] = row[q]
  BY DEF Framed, RowsFramed
<1>2. HasPath(q)' <=> HasPath(q)
  BY <1>1 DEF HasPath
<1>3. ASSUME HasPath(q) PROVE entry'[row[q]] = entry[row[q]]
  <2> SUFFICES ASSUME entry'[row[q]] # entry[row[q]] PROVE FALSE
    OBVIOUS
  <2> DEFINE u == row[q]
  <2>1. u \in VPaths
    BY <1>3 DEF HasPath
  <2>2. CASE u \in F /\ entry[u] \in Link /\ entry[u].to \in M
    BY <1>3, <2>2, ValuesApart DEF IInv, RowsOpen, RowOpen, ValuesApart
  <2>3. CASE entry[u] = Nothing /\ (u \in F \/ \E v \in F : Below(v, u))
    <3>1. PICK s \in Runners : At(s, "relink") /\ op[s].owner = q /\ SetsAgain(s) /\ op[s].path = u
      BY <1>3, <2>3, Unlinked DEF Framed
    <3>2. s # r
      BY <3>1 DEF Framed
    <3>3. u \notin F /\ u \in Foot(s)
      BY <2>1, <3>1, <3>2 DEF Framed, Foot
    <3>4. PICK v \in F : Below(v, u)
      BY <2>3, <3>3
    <3>5. v = u \/ ~Overlap(v, u)
      BY <3>2, <3>3 DEF Framed
    <3> QED BY <2>1, <3>4, <3>5, Overlaps, BelowOrder DEF Framed
  <2> QED BY <2>1, <2>2, <2>3 DEF Framed, EntriesFramed
<1>4. RowOpen(q)'
  <2> SUFFICES ASSUME HasPath(q)
               PROVE  /\ entry'[row[q]] # Nothing => entry'[row[q]] \in Link /\ entry'[row[q]].to = q
                      /\ \A u \in VPaths : Below(row[q], u) => entry'[u] \in {Nothing, Dir}
    BY <1>1, <1>2 DEF RowOpen
  <2>1. entry'[row[q]] # Nothing => entry'[row[q]] \in Link /\ entry'[row[q]].to = q
    BY <1>3 DEF IInv, RowsOpen, RowOpen
  <2>2. ASSUME NEW u \in VPaths, Below(row[q], u) PROVE entry'[u] \in {Nothing, Dir}
    <3>1. entry[u] \in {Nothing, Dir}
      BY <2>2 DEF IInv, RowsOpen, RowOpen
    <3> QED BY <2>2, <3>1 DEF Framed, EntriesFramed
  <2> QED BY <2>1, <2>2
<1>5. Linked(q)'
  <2> SUFFICES ASSUME HasPath(q)
               PROVE  \/ Right(entry[row[q]], q)'
                      \/ \E s \in Runners : At(s, "relink")' /\ op'[s].owner = q
    BY <1>2 DEF Linked
  <2>1. CASE Right(entry[row[q]], q)
    <3>1. entry'[row'[q]] = entry[row[q]] /\ pair' = pair
      BY <1>1, <1>3 DEF Framed
    <3> QED BY <2>1, <3>1 DEF Right, LinkOf, ActiveDrive
  <2>2. ASSUME NEW s \in Runners, At(s, "relink"), op[s].owner = q PROVE At(s, "relink")' /\ op'[s].owner = q
    <3>1. s # r
      BY <2>2 DEF Framed
    <3> QED BY <2>2, <3>1 DEF Framed, At
  <2> QED BY <2>1, <2>2 DEF IInv, RowsLinked, Linked, Framed
<1> QED
  BY <1>1, <1>4, <1>5

\* A request at work on its own is not disturbed by the step of another one.
LEMMA OthersKept ==
    ASSUME IInv, NEW r \in Runners, NEW F, NEW M, Framed(r, F, M), NEW s \in Runners \ {r}, PlainOK(s)
    PROVE  PlainOK(s)'
<1>0. PICK o, v : o = op[s].owner /\ v = op[s].path
  OBVIOUS
<1> USE <1>0
<1>1. op'[s] = op[s] /\ pair' = pair
  BY DEF Framed
<1>2. At(s, "relink")' = At(s, "relink") /\ Mine(s)' = Mine(s)
  BY <1>1 DEF At, Mine
<1>3. o \in Mine(s)
  BY DEF PlainOK, Mine
<1>4. \A q \in Mine(s) : q \in Owners /\ q \notin M /\ row'[q] = row[q] /\ (HasPath(q)' <=> HasPath(q))
  BY DEF Framed, RowsFramed, Mine, HasPath
<1>5. \A u \in Foot(s), w \in F : ~Below(u, w) /\ ~Below(w, u)
  <2> TAKE u \in Foot(s), w \in F
  <2>1. u \in VPaths /\ w \in VPaths
    BY DEF Foot, Framed
  <2>2. w = u \/ ~Overlap(w, u)
    BY DEF Framed
  <2> QED BY <2>1, <2>2, Overlaps, BelowOrder
<1>6. ASSUME NEW u \in VPaths, entry[u] \in Link, entry[u].to \in Mine(s) PROVE entry'[u] = entry[u]
  <2>1. entry[u] # Nothing /\ entry[u].to \notin M
    BY <1>4, <1>6, ValuesApart DEF ValuesApart
  <2> QED BY <2>1 DEF Framed, EntriesFramed
<1>7. \A x, q : Right(x, q)' <=> Right(x, q)
  BY <1>1 DEF Right, LinkOf, ActiveDrive
<1>8. \A u \in VPaths : IsLink(entry'[u]) =>
         \/ entry'[u] = entry[u]
         \/ u \in F
  BY DEF Framed, EntriesFramed, IsLink
<1>9. ASSUME v \in VPaths, NEW u \in VPaths, Below(v, u), IsLink(entry'[u]) PROVE entry'[u] = entry[u]
  <2>1. u \notin F
    BY <1>5, <1>9 DEF Foot
  <2> QED BY <1>8, <1>9, <2>1
<1>10. ASSUME Sets(s) PROVE Sets(s)'
  <2>1. row'[o] = row[o] /\ (HasPath(o)' <=> HasPath(o))
    BY <1>3, <1>4
  <2>2. Right(op[s].link, o)' <=> Right(op[s].link, o)
    BY <1>1 DEF Right, LinkOf, ActiveDrive
  <2> QED BY <1>1, <1>10, <2>1, <2>2 DEF Sets
<1>11. ASSUME Open(s), v \in VPaths PROVE Open(s)'
  <2>1. ASSUME NEW q \in Owners \ {o}, HasPath(q)' PROVE ~Below(row'[q], v) /\ ~Below(v, row'[q])
    <3>1. CASE row'[q] = row[q]
      BY <1>11, <2>1, <3>1 DEF Open, HasPath
    <3>2. CASE row'[q] # row[q]
      <4>1. row'[q] \in F
        BY <2>1, <3>2, ValuesApart DEF Framed, RowsFramed, HasPath, ValuesApart
      <4> QED BY <1>5, <1>11, <4>1 DEF Foot
    <3> QED BY <3>1, <3>2
  <2>2. HasPath(o)' => ~Below(v, row'[o])
    BY <1>3, <1>4, <1>11 DEF Open
  <2>3. \A u \in VPaths : Below(v, u) => ~IsLink(entry'[u])
    BY <1>9, <1>11 DEF Open
  <2> QED BY <1>1, <2>1, <2>2, <2>3 DEF Open
<1>12. ASSUME Reserves(s) PROVE Reserves(s)'
  <2>1. row'[o] = NoPath
    BY <1>3, <1>4, <1>12 DEF Reserves
  <2>2. ASSUME NEW u \in VPaths, Below(v, u), IsLink(entry'[u]) PROVE \E q \in Owners : row'[q] = u
    <3>1. v \in VPaths
      BY <1>12 DEF Reserves
    <3>2. PICK q \in Owners : row[q] = u
      BY <1>9, <1>12, <2>2, <3>1 DEF Reserves
    <3>3. u \notin F
      BY <1>5, <2>2, <3>1 DEF Foot
    <3>4. row'[q] = row[q]
      BY <3>2, <3>3, ValuesApart DEF Framed, RowsFramed, ValuesApart
    <3> QED BY <3>2, <3>4
  <2> QED BY <1>1, <1>12, <2>1, <2>2 DEF Reserves
<1>13. ASSUME Hooks(s) PROVE Hooks(s)'
  <2>1. ASSUME NEW u \in op[s].unhook PROVE entry'[u] \in Link /\ entry'[u].to \in Mine(s) /\ row'[entry'[u].to] # u
    <3>1. u \in VPaths
      BY OpTyped DEF IInv
    <3>2. entry[u] \in Link /\ entry[u].to \in Mine(s) /\ row[entry[u].to] # u
      BY <1>13 DEF Hooks
    <3>3. entry'[u] = entry[u]
      BY <1>6, <3>1, <3>2
    <3> QED BY <1>4, <3>2, <3>3
  <2> QED BY <1>1, <1>2, <2>1 DEF Hooks
<1>14. ASSUME Sets(s), entry[v] = op[s].link PROVE entry'[v] = op[s].link
  <2>1. v \in VPaths /\ entry[v] \in Link /\ entry[v].to = o
    BY <1>14 DEF Sets, Right
  <2> QED BY <1>3, <1>6, <1>14, <2>1
<1>15. ASSUME At(s, "relink"), op[s].replace, v \in VPaths, entry[v] = Nothing PROVE entry'[v] = Nothing
  <2>1. v \notin F
    BY <1>15 DEF Framed, SetsAgain, At
  <2>2. \A w \in F : ~Below(w, v)
    BY <1>5, <1>15 DEF Foot
  <2> QED BY <1>15, <2>1, <2>2 DEF Framed, EntriesFramed
<1>16. ASSUME op[s].unhook = {row[q] : q \in {p \in Mine(s) : HasPath(p)}}
       PROVE  (op[s].unhook = {row[q] : q \in {p \in Mine(s) : HasPath(p)}})'
  <2>1. {row'[q] : q \in {p \in Mine(s) : HasPath(p)'}} = {row[q] : q \in {p \in Mine(s) : HasPath(p)}}
    BY <1>4
  <2> QED BY <1>1, <1>2, <1>16, <2>1
<1> USE DEF PlainOK
<1>17. /\ op'[s].of = {} /\ op'[s].todo = {} /\ op'[s].owner \in Owners
       /\ op'[s].at \notin {"idle", "collect", "refresh"}
       /\ op'[s].files # {} => op'[s].owner \in Folders
       /\ \A f \in op'[s].files : Within[f] = op'[s].owner
  BY <1>1
<1>18. At(s, "reserve")' => Reserves(s)'
  BY <1>1, <1>12 DEF At
<1>19. op'[s].at \in {"look", "create", "relink", "write"} => Sets(s)' /\ Open(s)'
  BY <1>1, <1>10, <1>11 DEF Sets
<1>20. At(s, "relink")' => op'[s].replace /\ entry'[op'[s].path] = Nothing
  BY <1>1, <1>15 DEF At, Sets
<1>21. At(s, "write")' => entry'[op'[s].path] = op'[s].link
  BY <1>1, <1>14 DEF At
<1>22. At(s, "rollback")' => Sets(s)' /\ ~op'[s].replace /\ entry'[op'[s].path] = op'[s].link
  BY <1>1, <1>10, <1>14 DEF At
<1>23. At(s, "queue")' => op'[s].files = {} /\ op'[s].unhook = {} /\ row'[op'[s].owner] = op'[s].path
  BY <1>1, <1>3, <1>4 DEF At
<1>24. At(s, "unhook")' => Hooks(s)'
  BY <1>1, <1>13 DEF At
<1>25. At(s, "drop")' => op'[s].files = {} /\ row'[op'[s].owner] = NoPath /\ Hooks(s)'
  BY <1>1, <1>3, <1>4, <1>13 DEF At
<1>26. At(s, "cascade")' => (op[s].unhook = {row[q] : q \in {p \in Mine(s) : HasPath(p)}})'
  BY <1>1, <1>16 DEF At
<1> QED
  BY <1>17, <1>18, <1>19, <1>20, <1>21, <1>22, <1>23, <1>24, <1>25, <1>26

\* Requests stay apart when the one that moves is apart from the others.
LEMMA ApartStep ==
    ASSUME OpsApart, NEW r \in Runners,
           \A s \in Runners \ {r} :
              /\ op'[s] = op[s]
              /\ Mine(r)' \cap Mine(s) = {}
              /\ \A u \in Foot(r)', w \in Foot(s) : u = w \/ ~Overlap(u, w)
              /\ SetsAgain(r)' => /\ op[s].path = op'[r].path => At(s, "reserve")
                                  /\ op'[r].path \notin op[s].unhook
              /\ SetsAgain(s) => /\ op'[r].path = op[s].path => At(r, "reserve")'
                                 /\ op[s].path \notin op'[r].unhook
    PROVE  OpsApart'
<1>1. \A s \in Runners \ {r} : /\ Mine(s)' = Mine(s) /\ Foot(s)' = Foot(s)
                               /\ SetsAgain(s)' = SetsAgain(s) /\ At(s, "reserve")' = At(s, "reserve")
  BY DEF Mine, Foot, SetsAgain, At
<1>2. ASSUME NEW s \in Runners \ {r}
      PROVE  /\ Mine(r)' \cap Mine(s)' = {}
             /\ \A u \in Foot(r)', w \in Foot(s)' : u = w \/ (~Overlap(u, w) /\ ~Overlap(w, u))
             /\ SetsAgain(r)' => /\ op'[s].path = op'[r].path => At(s, "reserve")'
                                 /\ op'[r].path \notin op'[s].unhook
             /\ SetsAgain(s)' => /\ op'[r].path = op'[s].path => At(r, "reserve")'
                                 /\ op'[s].path \notin op'[r].unhook
  BY <1>1 DEF Overlap
<1>3. ASSUME NEW s \in Runners \ {r}, NEW t \in Runners \ {r}, s # t
      PROVE  /\ Mine(s)' \cap Mine(t)' = {}
             /\ \A u \in Foot(s)', w \in Foot(t)' : u = w \/ ~Overlap(u, w)
             /\ SetsAgain(s)' => /\ op'[t].path = op'[s].path => At(t, "reserve")'
                                 /\ op'[s].path \notin op'[t].unhook
  BY <1>1, <1>3 DEF OpsApart
<1>4. ASSUME NEW s \in Runners, NEW t \in Runners, s # t
      PROVE  /\ Mine(s)' \cap Mine(t)' = {}
             /\ \A u \in Foot(s)', w \in Foot(t)' : u = w \/ ~Overlap(u, w)
             /\ SetsAgain(s)' => /\ op'[t].path = op'[s].path => At(t, "reserve")'
                                 /\ op'[s].path \notin op'[t].unhook
  <2>1. CASE s = r
    BY <1>2, <1>4, <2>1
  <2>2. CASE t = r
    BY <1>2, <1>4, <2>2
  <2> QED BY <1>3, <1>4, <2>1, <2>2
<1> QED
  BY <1>4 DEF OpsApart

\* The same for a request that goes on with no more than it had.
LEMMA ApartKept ==
    ASSUME OpsApart, NEW r \in Runners, \A s \in Runners \ {r} : op'[s] = op[s],
           Mine(r)' \subseteq Mine(r), op'[r].path \in {op[r].path, NoPath}, op'[r].unhook \subseteq op[r].unhook,
           SetsAgain(r)' => SetsAgain(r) /\ op'[r].path = op[r].path,
           \A s \in Runners \ {r} : SetsAgain(s) /\ op'[r].path = op[s].path => At(r, "reserve")'
    PROVE  OpsApart'
<1>1. Foot(r)' \subseteq Foot(r)
  BY ValuesApart DEF Foot, ValuesApart
<1>2. ASSUME NEW s \in Runners \ {r}
      PROVE  /\ op'[s] = op[s]
             /\ Mine(r)' \cap Mine(s) = {}
             /\ \A u \in Foot(r)', w \in Foot(s) : u = w \/ ~Overlap(u, w)
             /\ SetsAgain(r)' => /\ op[s].path = op'[r].path => At(s, "reserve")
                                 /\ op'[r].path \notin op[s].unhook
             /\ SetsAgain(s) => /\ op'[r].path = op[s].path => At(r, "reserve")'
                                /\ op[s].path \notin op'[r].unhook
  BY <1>1 DEF OpsApart
<1> QED
  BY <1>2, ApartStep

\* A step of one request, from what it does to its own items.
LEMMA FramedStep ==
    ASSUME IInv, NEW r \in Runners, NEW F, NEW M, Framed(r, F, M),
           Typed', TreeOK', OpsApart', op'[r] = Idle \/ PlainOK(r)',
           \A q \in M : RowOpen(q)' /\ Linked(q)' /\ RowApart(q)'
    PROVE  IInv'
<1>1. ASSUME NEW s \in Runners PROVE OpOK(s)'
  <2>1. CASE s = r
    BY <2>1 DEF OpOK
  <2>2. CASE s # r /\ PlainOK(s)
    BY <2>2, OthersKept DEF OpOK
  <2>3. CASE s # r /\ op[s] = Idle
    BY <2>3 DEF OpOK, Framed
  <2> QED BY <2>1, <2>2, <2>3, QuietOps DEF IInv, Framed
<1>2. ASSUME NEW q \in Owners PROVE RowOpen(q)' /\ Linked(q)'
  BY RowsKept
<1>3. ASSUME NEW q \in Owners PROVE RowApart(q)'
  <2>1. CASE q \in M
    BY <2>1
  <2>2. CASE q \notin M
    <3> SUFFICES ASSUME HasPath(q)', NEW p \in Owners \ {q}, HasPath(p)' PROVE ~Overlap(row'[q], row'[p])
      BY DEF RowApart
    <3>1. row'[q] = row[q]
      BY <2>2, RowsKept
    <3>2. CASE p \in M
      BY <3>2 DEF RowApart, Overlap
    <3>3. CASE p \notin M
      <4>1. row'[p] = row[p]
        BY <3>3, RowsKept
      <4> QED BY <3>1, <4>1 DEF IInv, RowsApart, RowApart, HasPath
    <3> QED BY <3>2, <3>3
  <2> QED BY <2>1, <2>2
<1>4. ServiceOK'
  BY DEF Framed, ServiceOK
<1> QED
  BY <1>1, <1>2, <1>3, <1>4 DEF IInv, RowsOpen, RowsApart, OpsOK, RowsLinked

\* A step that changes neither rows nor entries.
LEMMA FramedNothing ==
    ASSUME IInv, NEW r \in Runners, UNCHANGED <<row, entry, pair, service>>, service = "up", Quiet, ~At(r, "relink"),
           \A s \in Runners \ {r} : op'[s] = op[s],
           Typed', OpsApart', op'[r] = Idle \/ PlainOK(r)'
    PROVE  IInv'
<1>1. Framed(r, {}, {})
  BY DEF Framed, RowsFramed, EntriesFramed
<1>2. TreeOK'
  BY DEF IInv, TreeOK
<1> QED
  BY <1>1, <1>2, FramedStep
-----------------------------------------------------------------------------
(* The steps of a request that is no refresh *)

\* While a request is at work, the service is up and nothing is refreshed.
LEMMA AtWork ==
    ASSUME IInv, NEW r \in Runners, PlainOK(r)
    PROVE  service = "up" /\ Quiet /\ op[r] # Idle
<1>1. op[r] # Idle
  BY IdleFields DEF PlainOK
<1>2. ASSUME NEW s \in Runners, Refreshing(s) PROVE FALSE
  <2>1. op[s] # Idle
    BY <1>2, IdleFields DEF Refreshing
  <2>2. ~PlainOK(s)
    BY <1>2 DEF PlainOK, Refreshing
  <2>3. RefreshOK(s)
    BY <2>1, <2>2 DEF IInv, OpsOK, OpOK
  <2>4. r = s
    BY <1>1, <2>3 DEF RefreshOK, Alone
  <2> QED BY <2>3, <2>4 DEF RefreshOK, Alone, PlainOK
<1> QED
  BY <1>1, <1>2, PathsOK DEF IInv, ServiceOK, Typed, TypeOK, Quiet

\* A request at one of these places is no refresh.
LEMMA PlainPlaces ==
    ASSUME IInv, NEW r \in Runners, op[r].at \notin {"idle", "collect", "refresh"},
           op[r].at \notin {"create", "relink"} \/ op[r].of = {}
    PROVE  PlainOK(r)
BY IdleFields DEF IInv, OpsOK, OpOK, RefreshOK, Alone

\* The path that is set again is a path.
LEMMA SetsAgainPath ==
    ASSUME IInv, NEW s \in Runners, SetsAgain(s)
    PROVE  op[s].path \in VPaths
BY IdleFields DEF IInv, OpsOK, OpOK, SetsAgain, PlainOK, Sets, RefreshOK, Makes

LEMMA GoApart ==
    ASSUME IInv, NEW r \in Runners, Keeps(r), \A s \in Runners \ {r} : op'[s] = op[s],
           SetsAgain(r)' => SetsAgain(r), ~At(r, "reserve")
    PROVE  OpsApart'
<1>1. Mine(r)' = Mine(r) /\ op'[r].path = op[r].path /\ op'[r].unhook = op[r].unhook
  BY DEF Keeps, Mine
<1>2. \A s \in Runners \ {r} : ~(SetsAgain(s) /\ op'[r].path = op[s].path)
  BY <1>1 DEF IInv, OpsApart
<1> QED
  BY <1>1, <1>2, ApartKept DEF IInv

LEMMA EndApart ==
    ASSUME IInv, NEW r \in Runners, op'[r] = Idle, \A s \in Runners \ {r} : op'[s] = op[s]
    PROVE  OpsApart'
<1>1. /\ op'[r].at = "idle" /\ op'[r].owner = NoOwner /\ op'[r].path = NoPath /\ op'[r].files = {}
      /\ op'[r].unhook = {}
  BY DEF Idle
<1>2. Mine(r)' = {} /\ ~SetsAgain(r)'
  BY <1>1, ValuesApart DEF Mine, SetsAgain, ValuesApart
<1>3. \A s \in Runners \ {r} : SetsAgain(s) => op[s].path # NoPath
  BY SetsAgainPath, ValuesApart DEF ValuesApart
<1> QED
  BY <1>1, <1>2, <1>3, ApartKept DEF IInv

\* What a request that goes on has, at any place.
PlainCore(r) ==
    /\ op[r].of = {} /\ op[r].todo = {} /\ op[r].owner \in Owners
    /\ op[r].at \notin {"idle", "collect", "refresh"}
    /\ op[r].files # {} => op[r].owner \in Folders
    /\ \A f \in op[r].files : Within[f] = op[r].owner

LEMMA GoCore ==
    ASSUME NEW r \in Runners, PlainOK(r), Keeps(r), op'[r].at \notin {"idle", "collect", "refresh"}
    PROVE  PlainCore(r)' /\ Mine(r)' = Mine(r)
BY DEF PlainOK, PlainCore, Keeps, Mine

\* What a request knows of its row, and of rows and entries that do not change.
LEMMA GoSets ==
    ASSUME NEW r \in Runners, Keeps(r), Sets(r), row'[op[r].owner] = row[op[r].owner], UNCHANGED pair
    PROVE  Sets(r)'
<1>1. /\ op'[r].owner = op[r].owner /\ op'[r].path = op[r].path /\ op'[r].link = op[r].link
      /\ op'[r].replace = op[r].replace /\ op'[r].fresh = op[r].fresh /\ op'[r].unhook = op[r].unhook
      /\ op'[r].files = op[r].files
  BY DEF Keeps
<1>2. Right(op[r].link, op[r].owner)' <=> Right(op[r].link, op[r].owner)
  BY <1>1 DEF Right, LinkOf, ActiveDrive
<1> QED
  BY <1>1, <1>2 DEF Sets, HasPath

LEMMA GoOpen ==
    ASSUME NEW r \in Runners, Keeps(r), Open(r), UNCHANGED <<row, entry>>
    PROVE  Open(r)'
BY DEF Open, HasPath, Keeps

LEMMA LookStep == ASSUME IInv, Typed', NEW r \in Runners, Look(r) PROVE IInv'
<1>1. PlainOK(r) /\ Sets(r) /\ Open(r)
  BY PlainPlaces DEF Look, At, PlainOK
<1>2. op'[r].at = "create" /\ Keeps(r) /\ \A s \in Runners \ {r} : op'[s] = op[s]
  BY Going DEF Look, IInv, Typed, TypeOK, Places
<1>3. UNCHANGED <<row, entry, pair, service>>
  BY DEF Look
<1>4. PlainOK(r)'
  BY <1>1, <1>2, <1>3, GoCore, GoSets, GoOpen DEF PlainOK, PlainCore, At
<1>5. OpsApart'
  BY <1>2, GoApart DEF SetsAgain, Keeps, Look, At
<1> QED
  BY <1>1, <1>2, <1>3, <1>4, <1>5, AtWork, FramedNothing DEF Look, At

\* A request that ends with its new row taken back, if it made one.
LEMMA RefuseStep ==
    ASSUME IInv, Typed', NEW r \in Runners, PlainOK(r), Refuse(r), UNCHANGED <<entry, pair, service>>,
           ~At(r, "relink"), op[r].fresh => row[op[r].owner] = NoPath
    PROVE  IInv'
<1> DEFINE M == {op[r].owner}
<1>1. /\ \A o \in Owners : row'[o] = row[o] \/ (op[r].fresh /\ o = op[r].owner /\ row'[o] = NoRow)
      /\ op'[r] = Idle /\ \A s \in Runners \ {r} : op'[s] = op[s]
  BY Refused DEF IInv, Typed
<1>2. op[r].owner \in Mine(r)
  BY DEF PlainOK, Mine
<1>3. CASE op[r].fresh
  <2>1. row'[op[r].owner] = NoRow /\ M \subseteq Mine(r)
    BY <1>2, <1>3, Refused DEF IInv, Typed, Mine
  <2>2. Framed(r, {}, M)
    BY <1>1, <1>3, <2>1, AtWork DEF Framed, RowsFramed, EntriesFramed, IInv, OpsApart, Mine
  <2>3. \A q \in M : RowOpen(q)' /\ Linked(q)' /\ RowApart(q)'
    BY <2>1, ValuesApart DEF RowOpen, Linked, RowApart, HasPath, ValuesApart
  <2>4. TreeOK'
    BY DEF IInv, TreeOK
  <2> QED BY <1>1, <2>2, <2>3, <2>4, EndApart, FramedStep
<1>4. CASE ~op[r].fresh
  <2>1. row' = row
    BY <1>4 DEF Refuse
  <2> QED BY <1>1, <2>1, AtWork, EndApart, FramedNothing
<1> QED
  BY <1>3, <1>4

LEMMA LookRefusedStep == ASSUME IInv, Typed', NEW r \in Runners, LookRefused(r) PROVE IInv'
<1>1. PlainOK(r) /\ Sets(r)
  BY PlainPlaces DEF LookRefused, At, PlainOK
<1> QED
  BY <1>1, RefuseStep DEF LookRefused, At, Sets

\* The request's own item, while its path is set elsewhere: its link is at its old path.
LEMMA OwnLinked ==
    ASSUME IInv, NEW r \in Runners, PlainOK(r), NEW q \in Mine(r), HasPath(q), ~At(r, "relink")
    PROVE  row[q] \in VPaths /\ Right(entry[row[q]], q) /\ RowOpen(q) /\ RowApart(q)
<1>1. service = "up" /\ Quiet
  BY AtWork
<1>2. q \in Owners /\ RowOpen(q) /\ RowApart(q) /\ Linked(q)
  BY <1>1 DEF Mine, IInv, RowsOpen, RowsApart, RowsLinked
<1>3. \A s \in Runners : ~(At(s, "relink") /\ op[s].owner = q)
  <2> SUFFICES ASSUME NEW s \in Runners, At(s, "relink"), op[s].owner = q PROVE FALSE
    OBVIOUS
  <2>1. s # r
    OBVIOUS
  <2>2. q \in Mine(s)
    BY <1>2 DEF Mine
  <2> QED BY <2>1, <2>2 DEF IInv, OpsApart
<1> QED
  BY <1>2, <1>3 DEF Linked, HasPath

\* An item whose row and link stay.
LEMMA OwnKept ==
    ASSUME IInv, NEW q \in Owners, Right(entry[row[q]], q), row'[q] = row[q], row[q] \in VPaths, UNCHANGED pair,
           \A p \in Owners : row'[p] = row[p] \/ ~HasPath(p)',
           entry'[row[q]] = entry[row[q]],
           \A u \in VPaths : Below(row[q], u) => entry'[u] \in {Nothing, Dir}
    PROVE  RowOpen(q)' /\ Linked(q)' /\ RowApart(q)'
<1>1. RowOpen(q)'
  BY DEF RowOpen, Right
<1>2. Linked(q)'
  BY DEF Linked, Right, LinkOf, ActiveDrive
<1>3. RowApart(q)'
  BY DEF RowApart, HasPath, IInv, RowsApart
<1> QED
  BY <1>1, <1>2, <1>3

LEMMA CreateStep == ASSUME IInv, Typed', NEW r \in Runners, Create(r), op[r].of = {} PROVE IInv'
<1>0. PICK o, v, x : o = op[r].owner /\ v = op[r].path /\ x = op[r].link
  OBVIOUS
<1>1. PlainOK(r) /\ Sets(r) /\ Open(r) /\ op[r].at = "create"
  BY PlainPlaces DEF Create, At, PlainOK
<1>2. op'[r].at = "write" /\ Keeps(r) /\ \A s \in Runners \ {r} : op'[s] = op[s]
  BY Going DEF Create, IInv, Typed, TypeOK, Places, Made
<1>3. UNCHANGED <<row, pair, service>>
  BY DEF Create
<1>4. o \in Owners /\ v \in VPaths /\ x \in Link /\ x # Nothing /\ o \in Mine(r) /\ v \in Foot(r)
  BY <1>0, <1>1, ValuesApart DEF PlainOK, Sets, Right, Mine, Foot, ValuesApart
<1>5. ~Blocked(v) /\ entry[v] = Nothing /\ Put(v, x)
  BY <1>0 DEF Create, Vacant
<1>6. \A u \in VPaths : Below(v, u) => entry[u] \in {Nothing, Dir}
  BY <1>0, <1>1, <1>4, <1>5, NotBlocked DEF IInv, Open
<1>7. Filled(v, x) /\ TreeOK'
  BY <1>4, <1>5, <1>6, Filling DEF IInv
<1>8. Framed(r, {v}, {o})
  <2>1. \A s \in Runners \ {r} : SetsAgain(s) => op[s].path # v
    BY <1>0, <1>1 DEF IInv, OpsApart, At
  <2>2. EntriesFramed({v}, {o})
    BY <1>0, <1>1, <1>5, <1>6, <1>7 DEF EntriesFramed, Filled, Open
  <2>3. RowsFramed({v}, {o})
    BY <1>3 DEF RowsFramed
  <2> QED BY <1>0, <1>1, <1>2, <1>3, <1>4, <2>1, <2>2, <2>3, AtWork DEF Framed, IInv, OpsApart, At
<1>9. OpsApart'
  BY <1>1, <1>2, GoApart DEF SetsAgain, Keeps, At
<1>10. PlainOK(r)'
  <2>1. Open(r)'
    <3>1. \A u \in VPaths : Below(v, u) => ~IsLink(entry'[u])
      BY <1>4, <1>7, BelowOrder DEF Filled, IsLink
    <3> QED BY <1>0, <1>1, <1>2, <1>3, <3>1 DEF Open, Keeps, HasPath
  <2>2. entry'[op'[r].path] = op'[r].link
    BY <1>0, <1>2, <1>7 DEF Keeps, Filled
  <2> QED BY <1>1, <1>2, <1>3, <2>1, <2>2, GoCore, GoSets DEF PlainOK, PlainCore, At
<1>11. ASSUME HasPath(o) PROVE RowOpen(o)' /\ Linked(o)' /\ RowApart(o)'
  <2>1. row[o] \in VPaths /\ Right(entry[row[o]], o) /\ RowOpen(o)
    BY <1>1, <1>4, <1>11, OwnLinked DEF At
  <2>2. entry[row[o]] # Nothing
    BY <2>1, ValuesApart DEF Right, ValuesApart
  <2>3. row[o] # v /\ ~Below(v, row[o]) /\ ~Below(row[o], v)
    BY <1>0, <1>1, <1>4, <1>5, <1>11, <2>1, <2>2, ValuesApart DEF Open, IInv, TreeOK, ValuesApart
  <2>4. entry'[row[o]] = entry[row[o]]
    BY <1>7, <2>1, <2>3 DEF Filled
  <2>5. \A u \in VPaths : Below(row[o], u) => entry'[u] \in {Nothing, Dir}
    BY <1>7, <1>11, <2>1, <2>3 DEF RowOpen, Filled
  <2> QED BY <1>3, <1>4, <2>1, <2>4, <2>5, OwnKept
<1>12. RowOpen(o)' /\ Linked(o)' /\ RowApart(o)'
  BY <1>3, <1>11 DEF RowOpen, Linked, RowApart, HasPath
<1> QED
  BY <1>7, <1>8, <1>9, <1>10, <1>12, FramedStep

LEMMA CreateOverStep == ASSUME IInv, Typed', NEW r \in Runners, CreateOver(r), op[r].of = {} PROVE IInv'
<1>0. PICK o, v : o = op[r].owner /\ v = op[r].path
  OBVIOUS
<1>1. PlainOK(r) /\ Sets(r) /\ Open(r) /\ op[r].at = "create" /\ op[r].replace
  BY PlainPlaces DEF CreateOver, Replaceable, At, PlainOK
<1>2. op'[r].at = "relink" /\ Keeps(r) /\ \A s \in Runners \ {r} : op'[s] = op[s]
  BY Going DEF CreateOver, IInv, Typed, TypeOK, Places
<1>3. UNCHANGED <<row, pair, service>>
  BY DEF CreateOver
<1>4. o \in Owners /\ v \in VPaths /\ o \in Mine(r) /\ v \in Foot(r) /\ row[o] = v /\ HasPath(o)
  BY <1>0, <1>1 DEF PlainOK, Sets, Mine, Foot, HasPath
<1>5. IsLink(entry[v]) /\ Put(v, Nothing)
  BY <1>0 DEF CreateOver, Replaceable
<1>6. Cleared(v) /\ TreeOK'
  BY <1>4, <1>5, Clearing DEF IInv
<1>7. entry[v] \in Link /\ entry[v].to = o /\ RowOpen(o) /\ RowApart(o)
  BY <1>4, <1>5 DEF IInv, RowsOpen, RowsApart, RowOpen, IsLink
<1>8. Framed(r, {v}, {o})
  <2>1. \A s \in Runners \ {r} : SetsAgain(s) => op[s].path # v
    BY <1>0, <1>1 DEF IInv, OpsApart, At
  <2>2. EntriesFramed({v}, {o})
    BY <1>6, <1>7 DEF EntriesFramed, Cleared
  <2>3. RowsFramed({v}, {o})
    BY <1>3 DEF RowsFramed
  <2> QED BY <1>0, <1>1, <1>2, <1>3, <1>4, <2>1, <2>2, <2>3, AtWork DEF Framed, IInv, OpsApart, At
<1>9. OpsApart'
  BY <1>1, <1>2, GoApart DEF SetsAgain, Keeps, At
<1>10. PlainOK(r)'
  <2>1. Open(r)'
    <3>1. \A u \in VPaths : Below(v, u) => ~IsLink(entry'[u])
      BY <1>0, <1>1, <1>6 DEF Cleared, IsLink, Open
    <3> QED BY <1>0, <1>1, <1>2, <1>3, <3>1 DEF Open, Keeps, HasPath
  <2>2. op'[r].replace /\ entry'[op'[r].path] = Nothing
    BY <1>0, <1>1, <1>2, <1>4, <1>6 DEF Keeps, Cleared
  <2> QED BY <1>1, <1>2, <1>3, <2>1, <2>2, GoCore, GoSets DEF PlainOK, PlainCore, At
<1>11. RowOpen(o)' /\ Linked(o)' /\ RowApart(o)'
  <2>1. RowOpen(o)'
    BY <1>3, <1>4, <1>6, <1>7 DEF RowOpen, HasPath, Cleared
  <2>2. Linked(o)'
    BY <1>0, <1>2 DEF Linked, At, Keeps
  <2> QED BY <1>3, <1>7, <2>1, <2>2 DEF RowApart, HasPath
<1> QED
  BY <1>6, <1>8, <1>9, <1>10, <1>11, FramedStep

LEMMA RelinkStep == ASSUME IInv, Typed', NEW r \in Runners, Relink(r), op[r].of = {} PROVE IInv'
<1>0. PICK o, v, x : o = op[r].owner /\ v = op[r].path /\ x = op[r].link
  OBVIOUS
<1>1. PlainOK(r) /\ Sets(r) /\ Open(r) /\ op[r].at = "relink" /\ op[r].replace /\ entry[v] = Nothing
  BY <1>0, PlainPlaces DEF Relink, At, PlainOK
<1>2. op'[r].at = "write" /\ Keeps(r) /\ \A s \in Runners \ {r} : op'[s] = op[s]
  BY <1>0, <1>1, Going DEF Relink, IInv, Typed, TypeOK, Places, Made
<1>3. UNCHANGED <<row, pair, service>> /\ Put(v, x)
  BY <1>0, <1>1 DEF Relink
<1>4. /\ o \in Owners /\ v \in VPaths /\ x \in Link /\ x # Nothing /\ o \in Mine(r) /\ v \in Foot(r)
      /\ row[o] = v /\ HasPath(o) /\ Right(x, o)
  BY <1>0, <1>1, ValuesApart DEF PlainOK, Sets, Right, Mine, Foot, ValuesApart, HasPath
<1>5. RowApart(o) /\ \A u \in VPaths : Below(v, u) => entry[u] \in {Nothing, Dir}
  BY <1>4 DEF IInv, RowsOpen, RowOpen, RowsApart
<1>6. Filled(v, x) /\ TreeOK'
  BY <1>1, <1>3, <1>4, <1>5, Filling DEF IInv
<1>7. Framed(r, {v}, {o})
  <2>1. \A s \in Runners \ {r} : SetsAgain(s) => op[s].path # v
    BY <1>0, <1>1 DEF IInv, OpsApart, At
  <2>2. EntriesFramed({v}, {o})
    BY <1>0, <1>1, <1>5, <1>6 DEF EntriesFramed, Filled, Open
  <2>3. RowsFramed({v}, {o})
    BY <1>3 DEF RowsFramed
  <2> QED BY <1>0, <1>1, <1>2, <1>3, <1>4, <2>1, <2>2, <2>3, AtWork DEF Framed, IInv, OpsApart, At
<1>8. OpsApart'
  BY <1>1, <1>2, GoApart DEF SetsAgain, Keeps, At
<1>9. PlainOK(r)'
  <2>1. Open(r)'
    <3>1. \A u \in VPaths : Below(v, u) => ~IsLink(entry'[u])
      BY <1>4, <1>6, BelowOrder DEF Filled, IsLink
    <3> QED BY <1>0, <1>1, <1>2, <1>3, <3>1 DEF Open, Keeps, HasPath
  <2>2. entry'[op'[r].path] = op'[r].link
    BY <1>0, <1>2, <1>6 DEF Keeps, Filled
  <2> QED BY <1>1, <1>2, <1>3, <2>1, <2>2, GoCore, GoSets DEF PlainOK, PlainCore, At
<1>10. RowOpen(o)' /\ Linked(o)' /\ RowApart(o)'
  <2>1. entry'[v] = x /\ row'[o] = v
    BY <1>3, <1>4, <1>6 DEF Filled
  <2>2. RowOpen(o)'
    <3>1. \A u \in VPaths : Below(v, u) => entry'[u] \in {Nothing, Dir}
      BY <1>4, <1>6, BelowOrder DEF Filled
    <3> QED BY <1>4, <2>1, <3>1 DEF RowOpen, Right
  <2>3. Linked(o)'
    BY <1>3, <1>4, <2>1 DEF Linked, Right, LinkOf, ActiveDrive
  <2> QED BY <1>3, <1>5, <2>2, <2>3 DEF RowApart, HasPath
<1> QED
  BY <1>6, <1>7, <1>8, <1>9, <1>10, FramedStep

LEMMA CreateRefusedStep == ASSUME IInv, Typed', NEW r \in Runners, CreateRefused(r), op[r].of = {} PROVE IInv'
<1>1. PlainOK(r) /\ Sets(r)
  BY PlainPlaces DEF CreateRefused, At, PlainOK
<1> QED
  BY <1>1, RefuseStep DEF CreateRefused, NotMade, At, Sets

LEMMA WriteStep == ASSUME IInv, Typed', NEW r \in Runners, Write(r) PROVE IInv'
<1>0. PICK o, v, x : o = op[r].owner /\ v = op[r].path /\ x = op[r].link
  OBVIOUS
<1>1. PlainOK(r) /\ Sets(r) /\ Open(r) /\ op[r].at = "write" /\ entry[v] = x
  BY <1>0, PlainPlaces DEF Write, At, PlainOK
<1>2. /\ op'[r].at = (IF op[r].fresh THEN "queue" ELSE "unhook")
      /\ Keeps(r) /\ \A s \in Runners \ {r} : op'[s] = op[s]
  <2>1. (IF op[r].fresh THEN "queue" ELSE "unhook") \in Places
    BY DEF Places
  <2> QED BY <2>1, Going DEF Write, IInv, Typed, TypeOK
<1>3. UNCHANGED <<entry, pair, service>>
  BY DEF Write
<1>4. /\ o \in Owners /\ v \in VPaths /\ x \in Link /\ x.to = o /\ x # Nothing /\ Right(x, o)
      /\ o \in Mine(r) /\ v \in Foot(r) /\ row[o] # NoRow
      /\ op[r].unhook = IF HasPath(o) /\ row[o] # v THEN {row[o]} ELSE {}
  BY <1>0, <1>1, ValuesApart DEF PlainOK, Sets, Right, Mine, Foot, ValuesApart
<1>5. row' = [row EXCEPT ![o] = v]
  BY <1>0, <1>4 DEF Write
<1>6. row'[o] = v /\ \A q \in Owners \ {o} : row'[q] = row[q]
  BY <1>4, <1>5 DEF IInv, Typed, TypeOK
<1>7. op[r].unhook \subseteq VPaths /\ op[r].unhook \subseteq Foot(r)
  BY OpTyped DEF IInv, Foot
<1>8. Framed(r, {v} \cup op[r].unhook, {o})
  <2>1. \A s \in Runners \ {r} : SetsAgain(s) => op[s].path \notin {v} \cup op[r].unhook
    BY <1>0, <1>1 DEF IInv, OpsApart, At
  <2>2. EntriesFramed({v} \cup op[r].unhook, {o})
    BY <1>3 DEF EntriesFramed
  <2>3. RowsFramed({v} \cup op[r].unhook, {o})
    <3>1. row[o] \in {v} \cup op[r].unhook \cup {NoRow, NoPath}
      BY <1>4 DEF IInv, Typed, TypeOK, HasPath
    <3> QED BY <1>6, <3>1 DEF RowsFramed
  <2> QED BY <1>0, <1>1, <1>2, <1>3, <1>4, <1>7, <2>1, <2>2, <2>3, AtWork DEF Framed, IInv, OpsApart, At
<1>9. OpsApart'
  BY <1>1, <1>2, GoApart DEF SetsAgain, Keeps, At
<1>10. PlainOK(r)'
  <2>1. CASE op[r].fresh
    <3>1. op[r].unhook = {} /\ op[r].files = {}
      BY <1>0, <1>1, <1>4, <2>1, ValuesApart DEF Sets, HasPath, ValuesApart
    <3> QED BY <1>0, <1>1, <1>2, <1>6, <2>1, <3>1, GoCore DEF PlainOK, PlainCore, At, Keeps
  <2>2. CASE ~op[r].fresh
    <3>1. ASSUME NEW u \in op[r].unhook PROVE entry'[u] \in Link /\ entry'[u].to \in Mine(r) /\ row'[entry'[u].to] # u
      <4>1. HasPath(o) /\ u = row[o] /\ u # v
        BY <1>4, <3>1
      <4>2. Right(entry[u], o)
        BY <1>1, <1>4, <4>1, OwnLinked DEF At
      <4> QED BY <1>3, <1>4, <1>6, <4>1, <4>2 DEF Right
    <3>2. Hooks(r)'
      BY <1>1, <1>2, <3>1, GoCore DEF Hooks, Keeps
    <3> QED BY <1>1, <1>2, <2>2, <3>2, GoCore DEF PlainOK, PlainCore, At
  <2> QED BY <2>1, <2>2
<1>11. TreeOK'
  BY <1>3 DEF IInv, TreeOK
<1>12. RowOpen(o)' /\ Linked(o)' /\ RowApart(o)'
  <2>1. RowOpen(o)'
    BY <1>1, <1>3, <1>4, <1>6 DEF RowOpen, IInv, TreeOK
  <2>2. Linked(o)'
    BY <1>1, <1>3, <1>4, <1>6 DEF Linked, Right, LinkOf, ActiveDrive
  <2>3. ASSUME NEW q \in Owners \ {o}, HasPath(q)' PROVE ~Overlap(v, row'[q])
    <3>1. HasPath(q) /\ row'[q] = row[q] /\ row[q] \in VPaths
      BY <1>6, <2>3 DEF HasPath
    <3>2. ~Below(row[q], v) /\ ~Below(v, row[q])
      BY <1>0, <1>1, <3>1 DEF Open
    <3>3. row[q] # v
      BY <1>1, <1>4, <3>1 DEF IInv, RowsOpen, RowOpen
    <3> QED BY <1>4, <3>1, <3>2, <3>3, Overlaps
  <2> QED BY <1>6, <2>1, <2>2, <2>3 DEF RowApart
<1> QED
  BY <1>8, <1>9, <1>10, <1>11, <1>12, FramedStep

LEMMA WriteFailsStep == ASSUME IInv, Typed', NEW r \in Runners, WriteFails(r) PROVE IInv'
<1>1. PlainOK(r) /\ Sets(r) /\ entry[op[r].path] = op[r].link /\ op[r].at = "write"
  BY PlainPlaces DEF WriteFails, At, PlainOK
<1>2. CASE op[r].replace
  BY <1>1, <1>2, RefuseStep DEF WriteFails, At, Sets
<1>3. CASE ~op[r].replace
  <2>1. op'[r].at = "rollback" /\ Keeps(r) /\ \A s \in Runners \ {r} : op'[s] = op[s]
    BY <1>3, Going DEF WriteFails, IInv, Typed, TypeOK, Places
  <2>2. UNCHANGED <<row, entry, pair, service>>
    BY <1>3 DEF WriteFails
  <2>3. PlainOK(r)'
    BY <1>1, <1>3, <2>1, <2>2, GoCore, GoSets DEF PlainOK, PlainCore, At, Keeps
  <2>4. OpsApart'
    BY <1>1, <2>1, GoApart DEF SetsAgain, Keeps, At
  <2> QED BY <1>1, <2>1, <2>2, <2>3, <2>4, AtWork, FramedNothing DEF At
<1> QED
  BY <1>2, <1>3

LEMMA RollbackStep == ASSUME IInv, Typed', NEW r \in Runners, Rollback(r) PROVE IInv'
<1>0. PICK o, v : o = op[r].owner /\ v = op[r].path
  OBVIOUS
<1>1. PlainOK(r) /\ Sets(r) /\ op[r].at = "rollback" /\ entry[v] = op[r].link /\ ~op[r].replace
  BY <1>0, PlainPlaces DEF Rollback, At, PlainOK
<1>2. /\ \A q \in Owners : row'[q] = row[q] \/ (op[r].fresh /\ q = o /\ row'[q] = NoRow)
      /\ op'[r] = Idle /\ \A s \in Runners \ {r} : op'[s] = op[s]
  BY <1>0, Refused DEF Rollback, IInv, Typed
<1>3. UNCHANGED <<pair, service>>
  BY DEF Rollback
<1>4. /\ o \in Owners /\ v \in VPaths /\ o \in Mine(r) /\ v \in Foot(r) /\ row[o] # v
      /\ entry[v] \in Link /\ entry[v].to = o /\ IsLink(entry[v])
  BY <1>0, <1>1, ValuesApart DEF PlainOK, Sets, Right, Mine, Foot, IsLink, ValuesApart
<1>5. Cleared(v) /\ TreeOK'
  <2>1. Put(v, Nothing)
    BY <1>0, <1>4 DEF Rollback
  <2> QED BY <1>4, <2>1, Clearing DEF IInv
<1>6. Framed(r, {v}, {o})
  <2>1. \A s \in Runners \ {r} : SetsAgain(s) => op[s].path # v
    BY <1>0, <1>1 DEF IInv, OpsApart, At
  <2>2. EntriesFramed({v}, {o})
    BY <1>4, <1>5 DEF EntriesFramed, Cleared
  <2>3. RowsFramed({v}, {o})
    BY <1>0, <1>1, <1>2 DEF RowsFramed, Sets
  <2> QED BY <1>0, <1>1, <1>2, <1>3, <1>4, <2>1, <2>2, <2>3, AtWork DEF Framed, IInv, OpsApart, At
<1>7. OpsApart'
  BY <1>2, EndApart
<1>8. CASE row'[o] # row[o]
  <2>1. ~HasPath(o)'
    BY <1>2, <1>4, <1>8, ValuesApart DEF HasPath, ValuesApart
  <2>2. RowOpen(o)' /\ Linked(o)' /\ RowApart(o)'
    BY <2>1 DEF RowOpen, Linked, RowApart
  <2> QED BY <1>2, <1>5, <1>6, <1>7, <2>2, FramedStep
<1>9. CASE row'[o] = row[o]
  <2>1. row' = row
    BY <1>2, <1>9 DEF IInv, Typed, TypeOK
  <2>2. ASSUME HasPath(o) PROVE RowOpen(o)' /\ Linked(o)' /\ RowApart(o)'
    <3>1. row[o] \in VPaths /\ Right(entry[row[o]], o) /\ RowOpen(o)
      BY <1>1, <1>4, <2>2, OwnLinked DEF At
    <3>2. entry'[row[o]] = entry[row[o]] /\ \A u \in VPaths : Below(row[o], u) => entry'[u] \in {Nothing, Dir}
      BY <1>4, <1>5, <2>2, <3>1 DEF Cleared, RowOpen
    <3> QED BY <1>3, <1>4, <2>1, <3>1, <3>2, OwnKept
  <2>3. RowOpen(o)' /\ Linked(o)' /\ RowApart(o)'
    BY <2>1, <2>2 DEF RowOpen, Linked, RowApart, HasPath
  <2> QED BY <1>2, <1>5, <1>6, <1>7, <2>3, FramedStep
<1> QED
  BY <1>8, <1>9

\* The links that are taken away are no item's that has its path there.
LEMMA HookedAway ==
    ASSUME IInv, NEW r \in Runners, PlainOK(r), Hooks(r), NEW v \in op[r].unhook, NEW q \in Owners, HasPath(q)
    PROVE  row[q] # v
BY ValuesApart DEF Hooks, IInv, RowsOpen, RowOpen, ValuesApart

LEMMA UnhookStep == ASSUME IInv, Typed', NEW r \in Runners, NEW v \in VPaths, Unhook(r, v) PROVE IInv'
<1>1. PlainOK(r) /\ Hooks(r) /\ op[r].at = "unhook" /\ v \in op[r].unhook
  BY PlainPlaces DEF Unhook, At, PlainOK
<1>2. /\ \A s \in Runners \ {r} : op'[s] = op[s]
      /\ op'[r].at = "unhook" /\ op'[r].owner = op[r].owner /\ op'[r].path = op[r].path
      /\ op'[r].files = op[r].files /\ op'[r].unhook = op[r].unhook \ {v}
      /\ op'[r].todo = op[r].todo /\ op'[r].of = op[r].of
  <2> DEFINE x == [op[r] EXCEPT !.unhook = @ \ {v}]
  <2>1. op[r] \in Op
    BY OpTyped DEF IInv
  <2>2. /\ x \in Op /\ x.at = "unhook" /\ x.owner = op[r].owner /\ x.path = op[r].path
        /\ x.files = op[r].files /\ x.unhook = op[r].unhook \ {v} /\ x.todo = op[r].todo /\ x.of = op[r].of
    BY <1>1, <2>1 DEF Op
  <2>3. Become(r, x)
    BY DEF Unhook
  <2> HIDE DEF x
  <2> QED BY <2>2, <2>3, Becoming DEF IInv, Typed, TypeOK
<1>3. UNCHANGED <<row, pair, service>>
  BY DEF Unhook
<1>4. entry[v] \in Link /\ entry[v].to \in Mine(r) /\ row[entry[v].to] # v /\ IsLink(entry[v]) /\ v \in Foot(r)
  BY <1>1, ValuesApart DEF Hooks, IsLink, Foot, ValuesApart
<1>5. Cleared(v) /\ TreeOK'
  BY <1>4, Clearing DEF IInv, Unhook
<1>6. Mine(r)' = Mine(r) /\ Mine(r) \subseteq Owners
  BY <1>2 DEF Mine
<1>7. Framed(r, {v}, Mine(r))
  <2>1. \A s \in Runners \ {r} : SetsAgain(s) => op[s].path # v
    BY <1>1 DEF IInv, OpsApart
  <2>2. EntriesFramed({v}, Mine(r))
    BY <1>4, <1>5 DEF EntriesFramed, Cleared
  <2>3. RowsFramed({v}, Mine(r))
    BY <1>3 DEF RowsFramed
  <2> QED BY <1>1, <1>2, <1>3, <1>4, <1>6, <2>1, <2>2, <2>3, AtWork DEF Framed, IInv, OpsApart, At
<1>8. OpsApart'
  <2>1. ~SetsAgain(r)'
    BY <1>2 DEF SetsAgain
  <2>2. \A s \in Runners \ {r} : ~(SetsAgain(s) /\ op'[r].path = op[s].path)
    BY <1>1, <1>2 DEF IInv, OpsApart, At
  <2> QED BY <1>2, <1>6, <2>1, <2>2, ApartKept DEF IInv
<1>9. PlainOK(r)'
  <2>1. Hooks(r)'
    <3>1. ASSUME NEW u \in op[r].unhook, u # v
          PROVE  entry'[u] \in Link /\ entry'[u].to \in Mine(r) /\ row'[entry'[u].to] # u
      <4>1. u \in VPaths
        BY OpTyped DEF IInv
      <4> QED BY <1>1, <1>3, <1>5, <3>1, <4>1 DEF Hooks, Cleared
    <3> QED BY <1>2, <1>6, <3>1 DEF Hooks
  <2> QED BY <1>1, <1>2, <2>1 DEF PlainOK, At
<1>10. ASSUME NEW q \in Mine(r) PROVE RowOpen(q)' /\ Linked(q)' /\ RowApart(q)'
  <2>1. CASE HasPath(q)
    <3>1. row[q] \in VPaths /\ Right(entry[row[q]], q) /\ RowOpen(q) /\ q \in Owners
      BY <1>1, <2>1, OwnLinked DEF At, Mine
    <3>2. row[q] # v
      BY <1>1, <2>1, <3>1, HookedAway
    <3>3. entry'[row[q]] = entry[row[q]] /\ \A u \in VPaths : Below(row[q], u) => entry'[u] \in {Nothing, Dir}
      BY <1>5, <2>1, <3>1, <3>2 DEF Cleared, RowOpen
    <3> QED BY <1>3, <3>1, <3>3, OwnKept
  <2>2. CASE ~HasPath(q)
    BY <1>3, <2>2 DEF RowOpen, Linked, RowApart, HasPath
  <2> QED BY <2>1, <2>2
<1> QED
  BY <1>5, <1>7, <1>8, <1>9, <1>10, FramedStep

\* A request that ends, and changes nothing more.
LEMMA EndStep ==
    ASSUME IInv, Typed', NEW r \in Runners, PlainOK(r), ~At(r, "relink"), End(r),
           UNCHANGED <<row, entry, pair, service>>
    PROVE  IInv'
<1>1. op'[r] = Idle /\ \A s \in Runners \ {r} : op'[s] = op[s]
  BY Ending DEF IInv, Typed, TypeOK
<1> QED
  BY <1>1, AtWork, EndApart, FramedNothing

LEMMA FinishStep == ASSUME IInv, Typed', NEW r \in Runners, Finish(r) PROVE IInv'
BY PlainPlaces, EndStep DEF Finish, At

LEMMA CascadeFailsStep == ASSUME IInv, Typed', NEW r \in Runners, CascadeFails(r) PROVE IInv'
BY PlainPlaces, EndStep DEF CascadeFails, At

LEMMA QueueStep == ASSUME IInv, Typed', NEW r \in Runners, Queue(r) PROVE IInv'
BY PlainPlaces, EndStep DEF Queue, At

\* A request that ends with its row deleted.
LEMMA RowDeleted ==
    ASSUME IInv, Typed', NEW r \in Runners, PlainOK(r), End(r), UNCHANGED <<pair, service>>, ~At(r, "relink"),
           ~At(r, "reserve"), TreeOK',
           row' = [row EXCEPT ![op[r].owner] = NoRow], row[op[r].owner] \in Foot(r) \cup {NoRow, NoPath},
           EntriesFramed(Foot(r), {op[r].owner})
    PROVE  IInv'
<1>0. PICK o : o = op[r].owner
  OBVIOUS
<1>1. op'[r] = Idle /\ \A s \in Runners \ {r} : op'[s] = op[s]
  BY Ending DEF IInv, Typed, TypeOK
<1>2. o \in Owners /\ o \in Mine(r) /\ Foot(r) \subseteq VPaths
  BY <1>0 DEF PlainOK, Mine, Foot
<1>3. row'[o] = NoRow /\ \A q \in Owners \ {o} : row'[q] = row[q]
  BY <1>0, <1>2 DEF IInv, Typed, TypeOK
<1>4. Framed(r, Foot(r), {o})
  <2>1. \A s \in Runners \ {r} : SetsAgain(s) => op[s].path \notin Foot(r)
    BY DEF IInv, OpsApart, At, Foot
  <2>2. RowsFramed(Foot(r), {o})
    BY <1>0, <1>3 DEF RowsFramed
  <2> QED BY <1>0, <1>1, <1>2, <2>1, <2>2, AtWork DEF Framed, IInv, OpsApart
<1>5. RowOpen(o)' /\ Linked(o)' /\ RowApart(o)'
  BY <1>3, ValuesApart DEF RowOpen, Linked, RowApart, HasPath, ValuesApart
<1> QED
  BY <1>1, <1>4, <1>5, EndApart, FramedStep

LEMMA DropStep == ASSUME IInv, Typed', NEW r \in Runners, Drop(r) PROVE IInv'
<1>0. PICK o : o = op[r].owner
  OBVIOUS
<1>1. PlainOK(r) /\ Hooks(r) /\ op[r].at = "drop" /\ row[o] = NoPath /\ op[r].files = {}
  BY <1>0, PlainPlaces DEF Drop, At, PlainOK
<1>2. Mine(r) = {o} /\ op[r].unhook \subseteq VPaths /\ op[r].unhook \subseteq Foot(r)
  BY <1>0, <1>1, OpTyped DEF PlainOK, Mine, Foot, IInv
<1>3. \A v \in op[r].unhook : entry[v] \in Link /\ entry[v].to = o /\ IsLink(entry[v])
  BY <1>1, <1>2, ValuesApart DEF Hooks, IsLink, ValuesApart
<1>4. /\ End(r) /\ UNCHANGED <<pair, service>>
      /\ row' = [row EXCEPT ![op[r].owner] = NoRow]
  BY <1>3 DEF Drop, IsLink
<1>5. TreeOK' /\ EntriesFramed(Foot(r), {o})
  <2>1. CASE op[r].unhook = {}
    <3>1. entry' = entry
      BY <2>1 DEF Drop
    <3> QED BY <3>1 DEF TreeOK, IInv, EntriesFramed
  <2>2. CASE op[r].unhook # {}
    <3>1. PICK v \in op[r].unhook : Put(v, Nothing)
      BY <1>3, <2>2 DEF Drop, IsLink
    <3>2. Cleared(v) /\ TreeOK'
      BY <1>2, <1>3, <3>1, Clearing DEF IInv
    <3> QED BY <1>2, <1>3, <3>2 DEF Cleared, EntriesFramed
  <2> QED BY <2>1, <2>2
<1> QED
  BY <1>0, <1>1, <1>4, <1>5, RowDeleted DEF At

LEMMA QueueFailsStep == ASSUME IInv, Typed', NEW r \in Runners, QueueFails(r) PROVE IInv'
<1>1. PlainOK(r) /\ row[op[r].owner] = op[r].path /\ op[r].at = "queue"
  BY PlainPlaces DEF QueueFails, At, PlainOK
<1>2. TreeOK' /\ EntriesFramed(Foot(r), {op[r].owner})
  BY DEF QueueFails, IInv, TreeOK, EntriesFramed
<1>3. op[r].path \in Foot(r) \cup {NoPath}
  BY OpTyped DEF IInv, Foot
<1> QED
  BY <1>1, <1>2, <1>3, RowDeleted DEF QueueFails, At

LEMMA CascadeStep == ASSUME IInv, Typed', NEW r \in Runners, Cascade(r) PROVE IInv'
<1>1. /\ PlainOK(r) /\ op[r].at = "cascade"
      /\ op[r].unhook = {row[o] : o \in {q \in Mine(r) : HasPath(q)}}
  BY PlainPlaces DEF Cascade, At, PlainOK
<1>2. op'[r].at = "unhook" /\ Keeps(r) /\ \A s \in Runners \ {r} : op'[s] = op[s]
  BY Going DEF Cascade, IInv, Typed, TypeOK, Places
<1>3. UNCHANGED <<entry, pair, service>>
  BY DEF Cascade
<1>4. Mine(r) = op[r].files \cup {op[r].owner} /\ Mine(r) \subseteq Owners /\ op[r].unhook \subseteq Foot(r)
      /\ Foot(r) \subseteq VPaths
  BY <1>1, OpTyped DEF PlainOK, Mine, Owners, IInv, Foot
<1>5. \A q \in Owners : row'[q] = IF q \in Mine(r) THEN NoRow ELSE row[q]
  BY <1>4 DEF Cascade
<1>6. Framed(r, Foot(r), Mine(r))
  <2>1. \A s \in Runners \ {r} : SetsAgain(s) => op[s].path \notin Foot(r)
    BY <1>1 DEF IInv, OpsApart, At, Foot
  <2>2. RowsFramed(Foot(r), Mine(r))
    BY <1>1, <1>4, <1>5 DEF RowsFramed, IInv, Typed, TypeOK, HasPath
  <2>3. EntriesFramed(Foot(r), Mine(r))
    BY <1>3 DEF EntriesFramed
  <2> QED BY <1>1, <1>2, <1>3, <1>4, <2>1, <2>2, <2>3, AtWork DEF Framed, IInv, OpsApart, At
<1>7. OpsApart'
  BY <1>1, <1>2, GoApart DEF SetsAgain, Keeps, At
<1>8. PlainOK(r)'
  <2>1. ASSUME NEW v \in op[r].unhook PROVE entry'[v] \in Link /\ entry'[v].to \in Mine(r) /\ row'[entry'[v].to] # v
    <3>1. PICK o \in Mine(r) : HasPath(o) /\ v = row[o]
      BY <1>1
    <3>2. Right(entry[v], o) /\ v \in VPaths
      BY <1>1, <3>1, OwnLinked DEF At
    <3> QED BY <1>3, <1>4, <1>5, <3>1, <3>2, ValuesApart DEF Right, ValuesApart
  <2>2. Hooks(r)'
    BY <1>1, <1>2, <2>1, GoCore DEF Hooks, Keeps
  <2> QED BY <1>1, <1>2, <2>2, GoCore DEF PlainOK, PlainCore, At
<1>9. TreeOK'
  BY <1>3 DEF IInv, TreeOK
<1>10. \A q \in Mine(r) : RowOpen(q)' /\ Linked(q)' /\ RowApart(q)'
  BY <1>4, <1>5, ValuesApart DEF RowOpen, Linked, RowApart, HasPath, ValuesApart
<1> QED
  BY <1>6, <1>7, <1>8, <1>9, <1>10, FramedStep

LEMMA ReserveStep == ASSUME IInv, Typed', NEW r \in Runners, Reserve(r) PROVE IInv'
<1>0. PICK o, v : o = op[r].owner /\ v = op[r].path
  OBVIOUS
<1>1. PlainOK(r) /\ Reserves(r) /\ op[r].at = "reserve"
  BY PlainPlaces DEF Reserve, At, PlainOK
<1>2. o \in Owners /\ v \in VPaths /\ row[o] = NoPath
  BY <1>0, <1>1 DEF PlainOK, Reserves
<1>3. CASE Reserved(o, v)
  BY <1>0, <1>1, <1>3, RefuseStep DEF Reserve, Reserves, At
<1>4. CASE ~Reserved(o, v)
  <2>1. Set(r, o, v, TRUE) /\ UNCHANGED <<row, entry, pair, service>>
    BY <1>0, <1>2, <1>4, ValuesApart DEF Reserve, ValuesApart
  <2>2. /\ op'[r].at = "look" /\ op'[r].owner = o /\ op'[r].path = v /\ op'[r].link = LinkOf(o)
        /\ (op'[r].replace <=> row[o] = v) /\ op'[r].fresh = TRUE
        /\ op'[r].unhook = (IF HasPath(o) /\ row[o] # v THEN {row[o]} ELSE {})
        /\ op'[r].files = {} /\ op'[r].todo = {} /\ op'[r].of = {}
        /\ \A s \in Runners \ {r} : op'[s] = op[s]
    <3>1. row[o] # NoRow /\ TRUE \in BOOLEAN /\ Typed
      BY <1>2, ValuesApart DEF ValuesApart, IInv
    <3>2. SetsPath(r, o, v, TRUE) /\ \A s \in Runners \ {r} : op'[s] = op[s]
      BY <1>2, <2>1, <3>1, SetTyped
    <3> QED BY <3>2 DEF SetsPath
  <2>3. op'[r].unhook = {} /\ ~op'[r].replace /\ ~HasPath(o)
    BY <1>2, <2>2, ValuesApart DEF HasPath, ValuesApart
  <2>4. Right(LinkOf(o), o)
    BY <1>2, LinkTyped, ValuesApart DEF Right, IInv, Typed, TypeOK, RowsPaired, ValuesApart, LinkOf
  <2>5. Sets(r)'
    <3>1. Right(op[r].link, op[r].owner)'
      BY <2>1, <2>2, <2>4 DEF Right, LinkOf, ActiveDrive
    <3> QED BY <1>2, <2>1, <2>2, <2>3, <3>1, ValuesApart DEF Sets, HasPath, ValuesApart
  <2>6. ASSUME NEW q \in Owners \ {o}, HasPath(q) PROVE ~Below(row[q], v) /\ ~Below(v, row[q])
    <3>1. row[q] \in VPaths /\ ~Overlap(row[q], v)
      BY <1>4, <2>6 DEF Reserved, HasPath
    <3> QED BY <1>2, <3>1, Overlaps
  <2>7. ASSUME NEW u \in VPaths, Below(v, u), IsLink(entry[u]) PROVE FALSE
    <3>1. PICK q \in Owners : row[q] = u
      BY <1>0, <1>1, <2>7 DEF Reserves
    <3>2. q # o /\ HasPath(q)
      BY <2>3, <3>1 DEF HasPath
    <3> QED BY <2>6, <2>7, <3>1, <3>2
  <2>8. Open(r)'
    BY <2>1, <2>2, <2>3, <2>6, <2>7 DEF Open, HasPath
  <2>9. PlainOK(r)'
    BY <1>2, <2>2, <2>5, <2>8 DEF PlainOK, At
  <2>10. OpsApart'
    <3>1. Mine(r)' \subseteq Mine(r)
      BY <1>0, <2>2 DEF Mine
    <3>2. ASSUME NEW s \in Runners \ {r}, SetsAgain(s), op[s].path = v PROVE FALSE
      <4>1. PlainOK(s)
        BY <1>1, <3>2, AtWork, QuietOps, IdleFields DEF IInv, SetsAgain
      <4>2. op[s].owner \in Owners /\ op[s].owner # o /\ row[op[s].owner] = v
        <5>1. op[s].owner \in Mine(s) /\ o \in Mine(r)
          BY <1>0, <1>2, <4>1 DEF PlainOK, Mine
        <5> QED BY <3>2, <4>1, <5>1 DEF PlainOK, SetsAgain, Sets, IInv, OpsApart
      <4> QED BY <1>2, <1>4, <4>2, Overlaps DEF Reserved, HasPath
    <3>3. ~SetsAgain(r)'
      BY <2>3 DEF SetsAgain
    <3> QED BY <1>0, <2>2, <2>3, <3>1, <3>2, <3>3, ApartKept DEF IInv
  <2> QED BY <1>1, <2>1, <2>2, <2>9, <2>10, AtWork, FramedNothing DEF At
<1> QED
  BY <1>3, <1>4

\* Each step of a request that is no refresh keeps the invariant.
LEMMA PlainStep ==
    ASSUME IInv, Typed', NEW r \in Runners, Step(r), op[r].of = {}, op[r].at \notin {"collect", "refresh"}
    PROVE  IInv'
BY LookStep, LookRefusedStep, CreateStep, CreateOverStep, RelinkStep, CreateRefusedStep, WriteStep, WriteFailsStep,
   RollbackStep, UnhookStep, FinishStep, DropStep, CascadeStep, CascadeFailsStep, ReserveStep, QueueStep,
   QueueFailsStep DEF Step, Collect, RefreshOne, RefreshEnds, At

-----------------------------------------------------------------------------
(* New requests *)

\* A request that is taken about an item finds no other about it or its folder's files.
LEMMA Taken ==
    ASSUME IInv, Orderly, NEW r \in Runners, NEW o \in Owners, Request(r), Beside(o)
    PROVE  /\ op[r] = Idle /\ service = "up" /\ Quiet
           /\ \A s \in Runners \ {r} : \A q \in Owners : q = o \/ (q \in Files /\ Within[q] = o) => q \notin Mine(s)
<1>1. op[r] = Idle /\ service = "up"
  BY DEF Request, Takes, At, IInv, OpsOK, OpOK, PlainOK, RefreshOK
<1>2. Quiet /\ \A s \in Runners : op[s].owner \notin Family(o)
  BY DEF Orderly, Beside, Quiet
<1>3. ASSUME NEW s \in Runners \ {r}, NEW q \in Owners, q = o \/ (q \in Files /\ Within[q] = o), q \in Mine(s)
      PROVE  FALSE
  <2>1. PlainOK(s)
    BY <1>2, <1>3, QuietOps, IdleFields DEF IInv
  <2>2. CASE q = op[s].owner
    BY <1>2, <1>3, <2>2 DEF Family
  <2>3. CASE q \in op[s].files
    <3>1. q \in Files /\ Within[q] = op[s].owner /\ op[s].owner \in Owners
      BY <2>1, <2>3, OpTyped DEF PlainOK, IInv
    <3> QED BY <1>2, <1>3, <3>1 DEF Family
  <2> QED BY <1>3, <2>2, <2>3 DEF Mine
<1> QED
  BY <1>1, <1>2, <1>3

LEMMA Apartness ==
    ASSUME Orderly, NEW v \in VPaths, Apart(v), NEW s \in Runners, NEW u \in Foot(s)
    PROVE  v = u \/ ~Overlap(v, u)
BY DEF Orderly, Apart, Foot, Overlap

\* The path of an item that a request takes up is nobody's path to be set again.
LEMMA NobodySets ==
    ASSUME IInv, Quiet, NEW q \in Owners, HasPath(q), NEW s \in Runners, q \notin Mine(s), SetsAgain(s)
    PROVE  op[s].path # row[q]
<1>1. PlainOK(s)
  BY QuietOps, IdleFields DEF IInv, SetsAgain
<1>2. op[s].owner \in Owners /\ op[s].owner # q /\ row[op[s].owner] = op[s].path /\ op[s].path \in VPaths
  BY <1>1 DEF PlainOK, SetsAgain, Sets, Mine
<1> QED
  BY <1>2, Overlaps DEF IInv, RowsApart, RowApart, HasPath

\* An item's link is there, when no request is about the item.
LEMMA TakenLinked ==
    ASSUME IInv, service = "up", Quiet, NEW o \in Owners, HasPath(o),
           \A s \in Runners : o \in Mine(s) => op[s] = Idle
    PROVE  Right(entry[row[o]], o)
<1>1. ASSUME NEW s \in Runners, At(s, "relink"), op[s].owner = o PROVE FALSE
  BY <1>1, IdleFields DEF At, Mine
<1> QED
  BY <1>1 DEF IInv, RowsLinked, Linked

\* A path is given up: the row is cleared, and the request has the link to remove.
LEMMA GivesUp ==
    ASSUME IInv, Orderly, Typed', NEW r \in Runners, NEW o \in Owners, NEW place \in {"unhook", "drop"},
           Request(r), Beside(o), Leaves(o), row[o] # NoRow,
           row' = [row EXCEPT ![o] = NoPath], UNCHANGED <<entry, pair, service>>,
           \A s \in Runners \ {r} : op'[s] = op[s],
           AsksFor(r, place, o, NoPath, FALSE, IF HasPath(o) THEN {row[o]} ELSE {}, {})
    PROVE  IInv'
<1>0. PICK G : G = IF HasPath(o) THEN {row[o]} ELSE {}
  OBVIOUS
<1>1. G \subseteq VPaths /\ \A v \in G : v = row[o] /\ HasPath(o) /\ Apart(v)
  BY <1>0 DEF HasPath, Leaves
<1>2. /\ op[r] = Idle /\ service = "up" /\ Quiet
      /\ \A s \in Runners \ {r} : o \notin Mine(s)
  BY Taken
<1>3. /\ op'[r].at = place /\ op'[r].owner = o /\ op'[r].path = NoPath /\ op'[r].unhook = G /\ op'[r].files = {}
      /\ op'[r].todo = {} /\ op'[r].of = {}
  BY <1>0 DEF AsksFor
<1>4. row'[o] = NoPath /\ \A q \in Owners \ {o} : row'[q] = row[q]
  BY DEF IInv, Typed, TypeOK
<1>5. Mine(r)' = {o} /\ Foot(r)' = G /\ ~SetsAgain(r)'
  BY <1>1, <1>3, ValuesApart DEF Mine, Foot, SetsAgain, ValuesApart
<1>6. \A s \in Runners \ {r} : SetsAgain(s) => op[s].path \notin G
  BY <1>1, <1>2, NobodySets
<1>7. \A s \in Runners \ {r} : SetsAgain(s) => op[s].path # NoPath
  BY SetsAgainPath, ValuesApart DEF ValuesApart
<1>8. \A s \in Runners \ {r} : \A v \in G, w \in Foot(s) : v = w \/ ~Overlap(v, w)
  BY <1>1, Apartness
<1>9. OpsApart'
  BY <1>2, <1>3, <1>5, <1>6, <1>7, <1>8, ApartStep DEF IInv
<1>10. Framed(r, G, {o})
  <2>1. RowsFramed(G, {o})
    BY <1>0, <1>4 DEF RowsFramed, IInv, Typed, TypeOK, HasPath
  <2>2. EntriesFramed(G, {o})
    BY DEF EntriesFramed
  <2>3. ~At(r, "relink")
    BY <1>2, IdleFields DEF At
  <2> QED BY <1>1, <1>2, <1>6, <1>8, <2>1, <2>2, <2>3 DEF Framed
<1>11. \A v \in G : entry[v] \in Link /\ entry[v].to = o
  BY <1>1, <1>2, TakenLinked DEF Right
<1>12. PlainOK(r)'
  <2>1. Hooks(r)'
    BY <1>1, <1>3, <1>4, <1>5, <1>11, ValuesApart DEF Hooks, ValuesApart
  <2> QED BY <1>3, <1>4, <2>1 DEF PlainOK, At
<1>13. TreeOK'
  BY DEF IInv, TreeOK
<1>14. RowOpen(o)' /\ Linked(o)' /\ RowApart(o)'
  BY <1>4, ValuesApart DEF RowOpen, Linked, RowApart, HasPath, ValuesApart
<1> QED
  BY <1>9, <1>10, <1>12, <1>13, <1>14, FramedStep

LEMMA RemovePathStep == ASSUME IInv, Orderly, Typed', NEW r \in Runners, NEW o \in Owners, RemovePath(r, o) PROVE IInv'
<1>1. /\ Request(r) /\ Beside(o) /\ Leaves(o) /\ HasPath(o) /\ row[o] # NoRow
      /\ row' = [row EXCEPT ![o] = NoPath] /\ UNCHANGED <<entry, pair, service>>
  BY ValuesApart DEF RemovePath, HasPath, ValuesApart
<1>2. /\ \A s \in Runners \ {r} : op'[s] = op[s]
      /\ AsksFor(r, "unhook", o, NoPath, FALSE, IF HasPath(o) THEN {row[o]} ELSE {}, {})
  BY <1>1, RemovePathFields DEF IInv
<1> QED
  BY <1>1, <1>2, GivesUp

LEMMA DeleteFileStep == ASSUME IInv, Orderly, Typed', NEW r \in Runners, NEW f \in Files, DeleteFile(r, f) PROVE IInv'
<1>1. /\ Request(r) /\ Beside(f) /\ Leaves(f) /\ row[f] # NoRow /\ f \in Owners
      /\ row' = [row EXCEPT ![f] = NoPath] /\ UNCHANGED <<entry, pair, service>>
  BY DEF DeleteFile, Owners
<1>2. /\ \A s \in Runners \ {r} : op'[s] = op[s]
      /\ AsksFor(r, "drop", f, NoPath, FALSE, IF HasPath(f) THEN {row[f]} ELSE {}, {})
  BY DeleteFileFields DEF IInv
<1> QED
  BY <1>1, <1>2, GivesUp

LEMMA UntrackStep == ASSUME IInv, Orderly, Typed', NEW r \in Runners, NEW d \in Folders, Untrack(r, d) PROVE IInv'
<1>0. PICK D, G : D = Descendants(d) /\ G = {row[o] : o \in {q \in Descendants(d) \cup {d} : HasPath(q)}}
  OBVIOUS
<1>1. /\ Request(r) /\ Beside(d) /\ \A o \in D \cup {d} : Leaves(o)
      /\ UNCHANGED <<row, entry, pair, service>> /\ d \in Owners
  BY <1>0 DEF Untrack, Owners
<1>2. D \subseteq Files /\ (\A f \in D : Within[f] = d) /\ D \cup {d} \subseteq Owners
  BY <1>0, <1>1 DEF Descendants, Owners
<1>3. /\ op[r] = Idle /\ service = "up" /\ Quiet
      /\ \A s \in Runners \ {r} : (D \cup {d}) \cap Mine(s) = {}
  BY <1>1, <1>2, Taken
<1>4. /\ \A s \in Runners \ {r} : op'[s] = op[s]
      /\ op'[r].at = "cascade" /\ op'[r].owner = d /\ op'[r].path = NoPath /\ op'[r].unhook = G /\ op'[r].files = D
      /\ op'[r].todo = {} /\ op'[r].of = {}
  BY <1>0, UntrackFields DEF AsksFor, IInv
<1>5. G \subseteq VPaths /\ \A v \in G : Apart(v) /\ \E q \in D \cup {d} : v = row[q] /\ HasPath(q)
  BY <1>0, <1>1 DEF HasPath, Leaves
<1>6. Mine(r)' = D \cup {d} /\ Foot(r)' = G /\ ~SetsAgain(r)'
  BY <1>2, <1>4, <1>5, ValuesApart DEF Mine, Foot, SetsAgain, ValuesApart
<1>7. \A s \in Runners \ {r} : SetsAgain(s) => op[s].path \notin G
  <2> SUFFICES ASSUME NEW s \in Runners \ {r}, SetsAgain(s), op[s].path \in G PROVE FALSE
    OBVIOUS
  <2>1. PICK q \in D \cup {d} : op[s].path = row[q] /\ HasPath(q)
    BY <1>5
  <2> QED BY <1>2, <1>3, <2>1, NobodySets
<1>8. \A s \in Runners \ {r} : SetsAgain(s) => op[s].path # NoPath
  BY SetsAgainPath, ValuesApart DEF ValuesApart
<1>9. \A s \in Runners \ {r} : \A v \in G, w \in Foot(s) : v = w \/ ~Overlap(v, w)
  BY <1>5, Apartness
<1>10. OpsApart'
  BY <1>3, <1>4, <1>6, <1>7, <1>8, <1>9, ApartStep DEF IInv
<1>11. PlainOK(r)'
  <2>1. G = {row'[o] : o \in {q \in D \cup {d} : HasPath(q)'}}
    BY <1>0, <1>1 DEF HasPath
  <2> QED BY <1>1, <1>2, <1>4, <1>6, <2>1 DEF PlainOK, At
<1> QED
  BY <1>1, <1>3, <1>4, <1>10, <1>11, IdleFields, FramedNothing DEF At

LEMMA SetPathStep ==
    ASSUME IInv, Orderly, Typed', NEW r \in Runners, NEW o \in Owners, NEW v \in VPaths, SetPath(r, o, v)
    PROVE  IInv'
<1>1. /\ Request(r) /\ Beside(o) /\ Asked(v) /\ Leaves(o) /\ row[o] # NoRow /\ ~Reserved(o, v)
      /\ Set(r, o, v, FALSE) /\ UNCHANGED <<row, entry, pair, service>>
  BY DEF SetPath
<1>2. /\ row[o] = v => \A s \in Runners : op[s].path # v
      /\ ~(HasPath(o) /\ Below(v, row[o]))
      /\ \A u \in VPaths : Below(v, u) => ~Orphan(u)
      /\ Apart(v)
  BY DEF SetPath, Orderly, Asked
<1>3. /\ op[r] = Idle /\ service = "up" /\ Quiet
      /\ \A s \in Runners \ {r} : o \notin Mine(s)
  BY <1>1, Taken
<1>4. /\ op'[r].at = "look" /\ op'[r].owner = o /\ op'[r].path = v /\ op'[r].link = LinkOf(o)
      /\ (op'[r].replace <=> row[o] = v) /\ op'[r].fresh = FALSE
      /\ op'[r].unhook = (IF HasPath(o) /\ row[o] # v THEN {row[o]} ELSE {})
      /\ op'[r].files = {} /\ op'[r].todo = {} /\ op'[r].of = {}
      /\ \A s \in Runners \ {r} : op'[s] = op[s]
  <2>1. SetsPath(r, o, v, FALSE) /\ \A s \in Runners \ {r} : op'[s] = op[s]
    BY <1>1, SetTyped DEF IInv
  <2> QED BY <2>1 DEF SetsPath
<1>5. ASSUME NEW q \in Owners \ {o}, HasPath(q) PROVE ~Below(row[q], v) /\ ~Below(v, row[q]) /\ row[q] # v
  <2>1. row[q] \in VPaths /\ ~Overlap(row[q], v)
    BY <1>1, <1>5 DEF Reserved, HasPath
  <2> QED BY <2>1, Overlaps
<1>6. PlainOK(r)'
  <2>1. Right(LinkOf(o), o)
    BY <1>1, LinkTyped DEF Right, IInv, Typed, TypeOK, RowsPaired, LinkOf
  <2>2. Sets(r)'
    <3>1. Right(op[r].link, op[r].owner)'
      BY <1>1, <1>4, <2>1 DEF Right, LinkOf, ActiveDrive
    <3> QED BY <1>1, <1>4, <3>1 DEF Sets, HasPath
  <2>3. ASSUME NEW u \in VPaths, Below(v, u), IsLink(entry[u]) PROVE FALSE
    <3>1. PICK q \in Owners : row[q] = u
      BY <1>2, <2>3 DEF Orphan
    <3>2. HasPath(q)
      BY <3>1 DEF HasPath
    <3> QED BY <1>2, <1>5, <2>3, <3>1, <3>2
  <2>4. Open(r)'
    BY <1>1, <1>2, <1>4, <1>5, <2>3 DEF Open, HasPath
  <2> QED BY <1>4, <2>2, <2>4 DEF PlainOK, At
<1>7. Mine(r)' = {o} /\ Foot(r)' \subseteq {v} \cup (IF HasPath(o) THEN {row[o]} ELSE {}) /\ v \in Foot(r)'
  BY <1>4 DEF Mine, Foot
<1>8. \A s \in Runners \ {r} : \A u \in Foot(r)', w \in Foot(s) : u = w \/ ~Overlap(u, w)
  <2>1. \A u \in Foot(r)' : u \in VPaths /\ Apart(u)
    BY <1>1, <1>2, <1>7 DEF Leaves, HasPath
  <2> QED BY <2>1, Apartness
<1>9. ASSUME NEW s \in Runners \ {r}, SetsAgain(r)'
      PROVE  (op[s].path = op'[r].path => At(s, "reserve")) /\ op'[r].path \notin op[s].unhook
  <2>1. row[o] = v /\ HasPath(o) /\ op[s].path # v
    BY <1>2, <1>4, <1>9 DEF SetsAgain, HasPath
  <2>2. entry[v] \in Link /\ entry[v].to = o
    <3>1. \A t \in Runners : o \in Mine(t) => op[t] = Idle
      BY <1>3
    <3> QED BY <1>3, <2>1, <3>1, TakenLinked DEF Right
  <2>3. ASSUME v \in op[s].unhook PROVE FALSE
    <3>1. PlainOK(s)
      BY <1>3, <2>3, QuietOps, IdleFields DEF IInv
    <3>2. ~Hooks(s)
      BY <1>3, <2>2, <2>3 DEF Hooks
    <3>3. op[s].at # "reserve" /\ op[s].at # "queue"
      BY <2>3, <3>1 DEF PlainOK, At, Reserves
    <3>4. ASSUME Sets(s) PROVE FALSE
      <4>1. v = row[op[s].owner] /\ op[s].owner \in Owners /\ HasPath(op[s].owner)
        BY <2>3, <3>1, <3>4 DEF Sets, PlainOK, HasPath
      <4>2. op[s].owner # o
        BY <1>3, <4>1 DEF Mine
      <4> QED BY <1>5, <4>1, <4>2
    <3>5. ASSUME At(s, "cascade") PROVE FALSE
      <4>1. PICK q \in Mine(s) : HasPath(q) /\ v = row[q]
        BY <2>3, <3>1, <3>5 DEF PlainOK
      <4> QED BY <1>3, <1>5, <4>1 DEF Mine
    <3>6. op[s].at \in Places
      BY OpTyped DEF IInv
    <3> QED BY <3>1, <3>2, <3>3, <3>4, <3>5, <3>6 DEF PlainOK, At, Places
  <2> QED BY <1>4, <2>1, <2>3
<1>10. ASSUME NEW s \in Runners \ {r}, SetsAgain(s)
       PROVE  (op'[r].path = op[s].path => At(r, "reserve")') /\ op[s].path \notin op'[r].unhook
  <2>1. PlainOK(s)
    BY <1>3, <1>10, QuietOps, IdleFields DEF IInv, SetsAgain
  <2>2. /\ op[s].owner \in Owners \ {o} /\ row[op[s].owner] = op[s].path /\ op[s].path \in VPaths
        /\ HasPath(op[s].owner)
    BY <1>3, <1>10, <2>1 DEF PlainOK, SetsAgain, Sets, Mine, HasPath
  <2>3. op[s].path # v
    BY <1>5, <2>2
  <2>4. HasPath(o) => op[s].path # row[o]
    BY <1>3, <1>10, NobodySets
  <2> QED BY <1>4, <2>3, <2>4
<1>11. OpsApart'
  BY <1>3, <1>4, <1>7, <1>8, <1>9, <1>10, ApartStep DEF IInv
<1> QED
  BY <1>1, <1>3, <1>4, <1>6, <1>11, IdleFields, FramedNothing DEF At

LEMMA TrackStep == ASSUME IInv, Orderly, Typed', NEW r \in Runners, NEW o \in Owners, Track(r, o) PROVE IInv'
<1>1. /\ Request(r) /\ Beside(o) /\ row[o] = NoRow /\ row' = [row EXCEPT ![o] = NoPath]
      /\ UNCHANGED <<entry, pair, service>>
  BY DEF Track
<1>2. /\ op[r] = Idle /\ service = "up" /\ Quiet
      /\ \A s \in Runners \ {r} : o \notin Mine(s)
  BY <1>1, Taken
<1>3. row'[o] = NoPath /\ \A q \in Owners \ {o} : row'[q] = row[q]
  BY <1>1 DEF IInv, Typed, TypeOK
<1>4. \A s \in Runners \ {r} : op'[s] = op[s]
  BY TrackFields DEF IInv
<1>5. Framed(r, {}, {o})
  <2>1. RowsFramed({}, {o})
    BY <1>1, <1>3 DEF RowsFramed
  <2>2. EntriesFramed({}, {o})
    BY <1>1 DEF EntriesFramed
  <2>3. ~At(r, "relink")
    BY <1>2, IdleFields DEF At
  <2> QED BY <1>1, <1>2, <1>4, <2>1, <2>2, <2>3 DEF Framed
<1>6. RowOpen(o)' /\ Linked(o)' /\ RowApart(o)'
  BY <1>3, ValuesApart DEF RowOpen, Linked, RowApart, HasPath, ValuesApart
<1>7. TreeOK'
  BY <1>1 DEF IInv, TreeOK
<1>8. CASE op'[r] = Idle
  BY <1>4, <1>5, <1>6, <1>7, <1>8, EndApart, FramedStep
<1>9. ASSUME NEW v \in VPaths, Asked(v), AsksFor(r, "reserve", o, v, TRUE, {}, {}) PROVE IInv'
  <2>1. /\ op'[r].at = "reserve" /\ op'[r].owner = o /\ op'[r].path = v /\ op'[r].unhook = {} /\ op'[r].files = {}
        /\ op'[r].todo = {} /\ op'[r].of = {} /\ op'[r].fresh = TRUE /\ op'[r].replace = FALSE
    BY <1>9 DEF AsksFor
  <2>2. Apart(v) /\ \A u \in VPaths : Below(v, u) => ~Orphan(u)
    BY <1>9 DEF Asked, Orderly
  <2>3. Mine(r)' = {o} /\ Foot(r)' = {v} /\ ~SetsAgain(r)'
    BY <2>1 DEF Mine, Foot, SetsAgain
  <2>4. OpsApart'
    <3>1. \A s \in Runners \ {r} : \A w \in Foot(s) : v = w \/ ~Overlap(v, w)
      BY <2>2, Apartness
    <3> QED BY <1>2, <1>4, <2>1, <2>3, <3>1, ApartStep DEF IInv, At
  <2>5. ASSUME NEW u \in VPaths, Below(v, u), IsLink(entry'[u]) PROVE \E q \in Owners : row'[q] = u
    <3>1. PICK q \in Owners : row[q] = u
      BY <1>1, <2>2, <2>5 DEF Orphan
    <3>2. q # o
      BY <1>1, <3>1, ValuesApart DEF ValuesApart
    <3> QED BY <1>3, <3>1, <3>2
  <2>6. Reserves(r)'
    BY <1>3, <2>1, <2>5 DEF Reserves
  <2>7. PlainOK(r)'
    BY <2>1, <2>6 DEF PlainOK, At
  <2> QED BY <1>5, <1>6, <1>7, <2>4, <2>7, FramedStep
<1> QED
  BY <1>8, <1>9, TrackFields DEF IInv
-----------------------------------------------------------------------------
(* Refreshes *)

\* A refresh works alone, and so keeps apart.
LEMMA AloneApart ==
    ASSUME NEW r \in Runners, \A s \in Runners \ {r} : op'[s] = Idle, op'[r].owner \notin Owners, op'[r].files = {},
           op'[r].unhook = {}, SetsAgain(r)' => op'[r].path \in VPaths
    PROVE  OpsApart'
<1>1. \A s \in Runners \ {r} : /\ op'[s].at = "idle" /\ op'[s].owner = NoOwner /\ op'[s].path = NoPath
                               /\ op'[s].files = {} /\ op'[s].unhook = {}
  BY DEF Idle
<1>2. \A s \in Runners \ {r} : Mine(s)' = {} /\ Foot(s)' = {} /\ ~SetsAgain(s)' /\ op'[s].path \notin VPaths
  BY <1>1, ValuesApart DEF Mine, Foot, SetsAgain, ValuesApart
<1>3. Mine(r)' = {}
  BY DEF Mine
<1>4. ASSUME NEW s \in Runners, NEW t \in Runners, s # t
      PROVE  /\ Mine(s)' \cap Mine(t)' = {}
             /\ \A u \in Foot(s)', w \in Foot(t)' : u = w \/ ~Overlap(u, w)
             /\ SetsAgain(s)' => /\ op'[t].path = op'[s].path => At(t, "reserve")'
                                 /\ op'[s].path \notin op'[t].unhook
  <2>1. CASE s = r
    BY <1>1, <1>2, <1>3, <1>4, <2>1
  <2>2. CASE s # r
    BY <1>2, <2>2
  <2> QED BY <2>1, <2>2
<1> QED
  BY <1>4 DEF OpsApart

LEMMA RefreshGoes ==
    ASSUME Typed', NEW r \in Runners, \A s \in Runners \ {r} : op'[s] = Idle, RefreshOK(r)',
           TreeOK', RowsOpen', RowsApart', service' # "down"
    PROVE  IInv'
<1>1. OpsApart'
  <2>1. op'[r].owner = NoOwner /\ op'[r].unhook = {} /\ op'[r].files = {}
    BY DEF RefreshOK, Alone
  <2>2. SetsAgain(r)' => op'[r].path \in VPaths
    BY DEF RefreshOK, SetsAgain, Makes
  <2> QED BY <2>1, <2>2, AloneApart, ValuesApart DEF ValuesApart
<1>2. OpsOK'
  BY DEF OpsOK, OpOK
<1>3. ~Quiet'
  BY DEF Quiet, Refreshing, RefreshOK, Alone
<1> QED
  BY <1>1, <1>2, <1>3 DEF IInv, RowsLinked, ServiceOK

LEMMA AllIdle ==
    ASSUME Typed', \A s \in Runners : op'[s] = Idle, TreeOK', RowsOpen', RowsApart',
           service' = "up" => \A o \in Owners : HasPath(o)' => Right(entry[row[o]], o)',
           service' # "starting"
    PROVE  IInv'
<1>1. \A s \in Runners : /\ op'[s].at = "idle" /\ op'[s].owner = NoOwner /\ op'[s].path = NoPath
                         /\ op'[s].files = {} /\ op'[s].unhook = {}
  BY DEF Idle
<1>2. OpsApart'
  <2>1. \A s \in Runners : Mine(s)' = {} /\ Foot(s)' = {} /\ ~SetsAgain(s)'
    BY <1>1, ValuesApart DEF Mine, Foot, SetsAgain, ValuesApart
  <2> QED BY <2>1 DEF OpsApart
<1>3. OpsOK'
  BY DEF OpsOK, OpOK
<1> QED
  BY <1>2, <1>3 DEF IInv, RowsLinked, Linked, ServiceOK

\* The right link: the one to the item, on the active drive.
LEMMA RightLink ==
    ASSUME NEW x \in Link, NEW o, x.to = o, Exact => x.on = ActiveDrive(PairOf[o])
    PROVE  Right(x, o)
BY DEF Right, LinkOf, Link

LEMMA AllAtRest ==
    ASSUME IInv, Resting
    PROVE  \A s \in Runners : op[s] = Idle
BY DEF IInv, OpsOK, OpOK, Resting, At, PlainOK, RefreshOK

LEMMA RefreshStep == ASSUME IInv, Orderly, Typed', NEW r \in Runners, Refresh(r) PROVE IInv'
<1>1. \A s \in Runners : op[s] = Idle
  BY AllAtRest DEF Refresh, Orderly
<1>2. AllPairs # {} /\ UNCHANGED <<row, entry, pair, service>> /\ service = "up"
  BY DEF Refresh, Request, Takes
<1>3. /\ \A s \in Runners \ {r} : op'[s] = Idle
      /\ op'[r].at = "collect" /\ op'[r].of = AllPairs /\ op'[r].owner = NoOwner
      /\ op'[r].fresh = FALSE /\ op'[r].unhook = {} /\ op'[r].files = {}
  BY <1>1, RefreshFields, PairsTyped DEF Refresh, Refreshes, IInv
<1>4. Alone(r)'
  BY <1>2, <1>3, PairsTyped DEF Alone, HasPath, ActiveDrive, IInv
<1>5. Collects(r)'
  BY <1>2, <1>3, PairsTyped, PathsOK, ValuesApart DEF Collects, HasPath, IInv, Typed, RowsPaired, PathsOK, ValuesApart
<1>6. RefreshOK(r)'
  BY <1>3, <1>4, <1>5 DEF RefreshOK, At
<1>7. TreeOK' /\ RowsOpen' /\ RowsApart'
  BY <1>2 DEF IInv, TreeOK, RowsOpen, RowsApart, RowOpen, RowApart, HasPath
<1> QED
  BY <1>2, <1>3, <1>6, <1>7, RefreshGoes

LEMMA SwitchStep == ASSUME IInv, Orderly, Typed', NEW r \in Runners, NEW p \in Pairs, Switch(r, p) PROVE IInv'
<1>1. \A s \in Runners : op[s] = Idle
  BY AllAtRest DEF Switch, Orderly
<1>2. UNCHANGED <<row, entry, service>> /\ service = "up" /\ pair[p] \in Pair
      /\ pair' = [pair EXCEPT ![p].active = Opposite(@)]
  BY DEF Switch, Takes, IInv, Typed, TypeOK
<1>3. PICK y : y = <<p, pair[p][Opposite(pair[p].active)]>>
  OBVIOUS
<1>4. y \in Pairs \X Drives /\ y[1] = p
  BY <1>2, <1>3 DEF Pair, Roles, Opposite
<1>5. y[2] = ActiveDrive(p)'
  <2>1. pair'[p] = [pair[p] EXCEPT !.active = Opposite(@)]
    BY <1>2 DEF IInv, Typed, TypeOK
  <2>2. pair'[p].active = Opposite(pair[p].active) /\ pair'[p].primary = pair[p].primary
        /\ pair'[p].secondary = pair[p].secondary
    BY <1>2, <2>1 DEF Pair
  <2>3. pair'[p][Opposite(pair[p].active)] = pair[p][Opposite(pair[p].active)]
    BY <2>2 DEF Opposite
  <2> QED BY <1>3, <2>2, <2>3 DEF ActiveDrive
<1>6. /\ \A s \in Runners \ {r} : op'[s] = Idle
      /\ op'[r].at = "collect" /\ op'[r].of = {y} /\ op'[r].owner = NoOwner
      /\ op'[r].fresh = FALSE /\ op'[r].unhook = {} /\ op'[r].files = {}
  <2>1. Become(r, [Idle EXCEPT !.at = "collect", !.of = {y}])
    BY <1>3 DEF Switch, Refreshes
  <2>2. {y} \in SUBSET (Pairs \X Drives)
    BY <1>4
  <2> QED BY <1>1, <2>1, <2>2, RefreshFields DEF IInv
<1>7. Alone(r)'
  BY <1>4, <1>5, <1>6 DEF Alone
<1>8. Collects(r)'
  <2>1. CASE "two pairs" \in Allowed
    <3>1. \A o \in Owners : Linked(o)
      <4>1. Quiet
        BY <1>1, IdleFields DEF Quiet, Refreshing
      <4> QED BY <1>2, <4>1 DEF IInv, RowsLinked
    <3>2. \A o \in Owners : Hooked(o)'
      BY <1>1, <1>2, <3>1, IdleFields DEF Hooked, Linked, Right, HasPath, At
    <3> QED BY <2>1, <3>2 DEF Collects, Exact
  <2>2. CASE "two pairs" \notin Allowed
    <3>1. \A o \in Owners : HasPath(o)' => y[1] = PairOf[o]
      BY <1>2, <1>4, <2>2 DEF Switch, HasPath
    <3> QED BY <1>6, <3>1 DEF Collects
  <2> QED BY <2>1, <2>2
<1>9. RefreshOK(r)'
  BY <1>6, <1>7, <1>8 DEF RefreshOK, At
<1>10. TreeOK' /\ RowsOpen' /\ RowsApart'
  BY <1>2 DEF IInv, TreeOK, RowsOpen, RowsApart, RowOpen, RowApart, HasPath
<1> QED
  BY <1>2, <1>6, <1>9, <1>10, RefreshGoes

LEMMA StartStep == ASSUME IInv, Typed', NEW r \in Runners, Start(r) PROVE IInv'
<1>1. UNCHANGED <<row, entry, pair>> /\ \A s \in Runners : op[s] = Idle
  BY DEF Start, IInv, ServiceOK
<1>2. TreeOK' /\ RowsOpen' /\ RowsApart'
  BY <1>1 DEF IInv, TreeOK, RowsOpen, RowsApart, RowOpen, RowApart, HasPath
<1>3. \A o \in Owners : HasPath(o) => pair[PairOf[o]] # NoPair /\ PairOf[o] \in Pairs
  BY PathsOK, ValuesApart DEF HasPath, IInv, Typed, RowsPaired, PathsOK, ValuesApart
<1>4. CASE AllPairs = {}
  <2>1. \A s \in Runners : op'[s] = Idle
    BY <1>1, <1>4, IdleTyped, Becoming DEF Start, IInv, Typed, TypeOK
  <2>2. \A o \in Owners : ~HasPath(o)'
    BY <1>1, <1>3, <1>4, PairsTyped DEF IInv, HasPath
  <2>3. service' = "up"
    BY <1>4 DEF Start
  <2> QED BY <1>2, <2>1, <2>2, <2>3, AllIdle
<1>5. CASE AllPairs # {}
  <2>1. /\ \A s \in Runners \ {r} : op'[s] = Idle
        /\ op'[r].at = "collect" /\ op'[r].of = AllPairs /\ op'[r].owner = NoOwner
        /\ op'[r].fresh = FALSE /\ op'[r].unhook = {} /\ op'[r].files = {}
    BY <1>1, <1>5, RefreshFields, PairsTyped DEF Start, IInv
  <2>2. Alone(r)'
    BY <1>1, <1>5, <2>1, PairsTyped DEF Alone, HasPath, ActiveDrive, IInv
  <2>3. Collects(r)'
    BY <1>1, <1>3, <2>1, PairsTyped DEF Collects, HasPath, IInv
  <2>4. RefreshOK(r)'
    BY <2>1, <2>2, <2>3 DEF RefreshOK, At
  <2>5. service' # "down"
    BY <1>5 DEF Start
  <2> QED BY <1>2, <2>1, <2>4, <2>5, RefreshGoes
<1> QED
  BY <1>4, <1>5

\* The parent of a path is a path above it.
LEMMA Parent ==
    ASSUME NEW v \in VPaths, NEW n \in 1..Len(v) - 1
    PROVE  /\ SubSeq(v, 1, n) \in VPaths /\ Below(v, SubSeq(v, 1, n)) /\ Len(SubSeq(v, 1, n)) = n
<1>1. v \in Seq(Names) /\ n \in 1..Len(v) /\ n < Len(v)
  BY PathsAreSequences
<1>2. SubSeq(v, 1, n) \in VPaths
  BY <1>1, PathsOK DEF PathsOK
<1>3. SubSeq(v, 1, n) \in Seq(Names) /\ Len(SubSeq(v, 1, n)) = n /\ \A k \in 1..n : SubSeq(v, 1, n)[k] = v[k]
  BY <1>1
<1> HIDE DEF Names
<1>4. Below(v, SubSeq(v, 1, n))
  BY <1>1, <1>3, BelowNames
<1> QED
  BY <1>2, <1>3, <1>4

\* Nothing is at a path where nothing is, with no link above.
LEMMA NothingThere ==
    ASSUME Typed, NEW v \in VPaths, entry[v] = Nothing, \A u \in VPaths : Below(v, u) => ~IsLink(entry[u])
    PROVE  Resolve(v) = Nothing
<1>1. v \in Seq(Names) /\ Len(v) \in Nat
  BY PathsAreSequences
<1>2. SubSeq(v, 1, Len(v)) = v
  BY <1>1
<1>3. ~IsLink(Nothing)
  BY DEF IsLink
<1>4. ASSUME Len(v) > 1 PROVE ~IsLink(entry[SubSeq(v, 1, Len(v) - 1)])
  BY <1>1, <1>4, Parent
<1> QED
  BY <1>2, <1>3, <1>4 DEF Resolve

\* At the path of an item its link can be made: nobody else has it, and nothing is in the way.
LEMMA Unhindered ==
    ASSUME IInv, NEW o \in Owners, HasPath(o)
    PROVE  /\ row[o] \in VPaths /\ ~Reserved(o, row[o]) /\ ~Blocked(row[o])
           /\ entry[row[o]] = Nothing \/ IsLink(entry[row[o]])
           /\ \A u \in VPaths : Below(row[o], u) => entry[u] \in {Nothing, Dir}
<1>1. /\ row[o] \in VPaths
      /\ entry[row[o]] = Nothing \/ entry[row[o]] \in Link
      /\ \A u \in VPaths : Below(row[o], u) => entry[u] \in {Nothing, Dir}
  BY DEF IInv, RowsOpen, RowOpen, HasPath
<1>2. ~Reserved(o, row[o])
  BY DEF IInv, RowsApart, RowApart, Reserved, Overlap
<1>3. \A u \in VPaths : Below(row[o], u) => ~IsLink(entry[u]) /\ entry[u] # User
  BY <1>1, ValuesApart DEF IsLink, ValuesApart
<1>4. ~Blocked(row[o])
  BY <1>1, <1>3, NothingThere DEF Blocked, IInv
<1>5. entry[row[o]] \in Link => IsLink(entry[row[o]])
  BY LinkIsLink DEF Entry
<1> QED
  BY <1>1, <1>2, <1>4, <1>5

\* A refresh is at one of these places, with the service not down.
LEMMA RefreshPlaces ==
    ASSUME IInv, NEW r \in Runners, op[r].at \in {"collect", "refresh"} \/ op[r].of # {}
    PROVE  RefreshOK(r) /\ service # "down"
<1>1. op[r] # Idle
  BY IdleFields
<1>2. RefreshOK(r)
  BY <1>1 DEF IInv, OpsOK, OpOK, PlainOK
<1> QED
  BY <1>1, <1>2 DEF IInv, ServiceOK

LEMMA CollectStep == ASSUME IInv, Typed', NEW r \in Runners, Collect(r) PROVE IInv'
<1>1. RefreshOK(r) /\ service # "down" /\ op[r].at = "collect" /\ Alone(r) /\ Collects(r)
  BY RefreshPlaces DEF Collect, At, RefreshOK
<1>2. UNCHANGED <<row, entry, pair>>
  BY DEF Collect
<1>3. TreeOK' /\ RowsOpen' /\ RowsApart'
  BY <1>2 DEF IInv, TreeOK, RowsOpen, RowsApart, RowOpen, RowApart, HasPath
<1>4. CASE Unmapped(r)
  <2>1. \A s \in Runners : op'[s] = Idle
    BY <1>1, <1>4, Ending DEF Collect, Alone, IInv, Typed, TypeOK
  <2>2. \A o \in Owners : HasPath(o)' => Right(entry[row[o]], o)'
    <3>1. ~Exact /\ \A o \in Owners : Hooked(o)
      BY <1>1, <1>4 DEF Collects, Unmapped
    <3> QED BY <1>2, <3>1 DEF Hooked, Right, HasPath
  <2>3. service' # "starting"
    BY <1>4 DEF Collect, Up
  <2> QED BY <1>3, <2>1, <2>2, <2>3, AllIdle
<1>5. CASE ~Unmapped(r)
  <2> DEFINE todo == Mappings(r)
  <2>1. UNCHANGED service
    BY <1>5 DEF Collect
  <2>2. /\ todo \in SUBSET Mapping
        /\ \A m \in todo : /\ HasPath(m.owner) /\ m.path = row[m.owner] /\ m.link.to = m.owner
                           /\ \E y \in op[r].of : y[1] = PairOf[m.owner] /\ m.link.on = y[2]
        /\ \A o \in Owners : HasPath(o) => \E m \in todo : m.owner = o
    BY <1>5, MappingsTyped DEF IInv
  <2>4. /\ \A s \in Runners \ {r} : op'[s] = op[s]
        /\ op'[r].at = "refresh" /\ op'[r].todo = todo /\ op'[r].of = op[r].of /\ op'[r].owner = op[r].owner
        /\ op'[r].fresh = op[r].fresh /\ op'[r].unhook = op[r].unhook /\ op'[r].files = op[r].files
    BY <1>5, CollectFields DEF IInv
  <2> HIDE DEF todo
  <2>5. Alone(r)'
    BY <1>1, <1>2, <2>4 DEF Alone, HasPath, ActiveDrive
  <2>6. ASSUME NEW m \in todo PROVE row[m.owner] = m.path /\ Right(m.link, m.owner)
    <3>1. m.link \in Link /\ m.link.to = m.owner /\ m.owner \in Owners
      BY <2>2 DEF Mapping
    <3>2. Exact => m.link.on = ActiveDrive(PairOf[m.owner])
      BY <1>1, <2>2, <3>1 DEF Alone
    <3> QED BY <2>2, <3>1, <3>2, RightLink
  <2>7. Restores(r)'
    <3>1. \A m \in todo : row'[m.owner] = m.path /\ Right(m.link, m.owner)'
      BY <1>2, <2>6 DEF Right, LinkOf, ActiveDrive
    <3> QED BY <1>2, <2>2, <2>4, <3>1 DEF Restores, HasPath
  <2>8. RefreshOK(r)'
    BY <2>4, <2>5, <2>7 DEF RefreshOK, At
  <2>9. \A s \in Runners \ {r} : op'[s] = Idle
    BY <1>1, <2>4 DEF Alone
  <2> QED BY <1>1, <1>3, <2>1, <2>8, <2>9, RefreshGoes
<1> QED
  BY <1>4, <1>5

LEMMA RefreshOneStep ==
    ASSUME IInv, Typed', NEW r \in Runners, NEW m \in Mapping, RefreshOne(r, m)
    PROVE  IInv'
<1>1. RefreshOK(r) /\ service # "down" /\ op[r].at = "refresh" /\ Alone(r) /\ Restores(r) /\ m \in op[r].todo
  BY RefreshPlaces DEF RefreshOne, At, RefreshOK
<1>2. UNCHANGED <<row, entry, pair, service>>
  BY DEF RefreshOne
<1>3. TreeOK' /\ RowsOpen' /\ RowsApart'
  BY <1>2 DEF IInv, TreeOK, RowsOpen, RowsApart, RowOpen, RowApart, HasPath
<1>4. /\ m.owner \in Owners /\ m.path \in VPaths /\ m.link \in Link /\ row[m.owner] = m.path
      /\ m.link.to = m.owner /\ Right(m.link, m.owner) /\ HasPath(m.owner)
  BY <1>1 DEF Mapping, Restores, Right, HasPath
<1>5. ~Reserved(m.owner, m.path) /\ Free(m.owner, m.path)
  BY <1>4, Unhindered DEF Free
<1> DEFINE x == [op[r] EXCEPT !.todo = @ \ {m}, !.path = m.path, !.link = m.link, !.replace = TRUE, !.at = "create"]
<1>6. Become(r, x)
  BY <1>5 DEF RefreshOne
<1>7. /\ x \in Op /\ x.at = "create" /\ x.todo = op[r].todo \ {m} /\ x.of = op[r].of /\ x.owner = op[r].owner
      /\ x.fresh = op[r].fresh /\ x.unhook = op[r].unhook /\ x.files = op[r].files
      /\ x.path = m.path /\ x.link = m.link /\ x.replace = TRUE
  BY <1>4, OpTyped DEF Op, IInv
<1> HIDE DEF x
<1>8. /\ \A s \in Runners \ {r} : op'[s] = op[s]
      /\ op'[r].at = "create" /\ op'[r].todo = op[r].todo \ {m} /\ op'[r].of = op[r].of /\ op'[r].owner = op[r].owner
      /\ op'[r].fresh = op[r].fresh /\ op'[r].unhook = op[r].unhook /\ op'[r].files = op[r].files
      /\ op'[r].path = m.path /\ op'[r].link = m.link /\ op'[r].replace = TRUE
  BY <1>6, <1>7, Becoming DEF IInv, Typed, TypeOK
<1>9. Alone(r)'
  BY <1>1, <1>2, <1>8 DEF Alone, HasPath, ActiveDrive
<1>10. \A y, q : Right(y, q)' <=> Right(y, q)
  BY <1>2 DEF Right, LinkOf, ActiveDrive
<1>11. Makes(r)'
  <2>1. Right(m.link, m.link.to)'
    BY <1>4, <1>10
  <2> QED BY <1>2, <1>4, <1>8, <2>1 DEF Makes
<1>12. Restores(r)'
  <2>1. ASSUME NEW n \in op'[r].todo PROVE row'[n.owner] = n.path /\ Right(n.link, n.owner)'
    BY <1>1, <1>2, <1>8, <1>10, <2>1 DEF Restores
  <2>2. ASSUME NEW o \in Owners, HasPath(o)'
        PROVE  \/ Right(entry[row[o]], o)'
               \/ \E n \in op'[r].todo : n.owner = o
               \/ op'[r].at \in {"create", "relink"} /\ op'[r].link.to = o
    <3>1. CASE Right(entry[row[o]], o)
      BY <1>2, <3>1 DEF Right, LinkOf, ActiveDrive
    <3>2. ASSUME NEW n \in op[r].todo, n.owner = o
          PROVE  \/ \E k \in op'[r].todo : k.owner = o
                 \/ op'[r].at \in {"create", "relink"} /\ op'[r].link.to = o
      BY <1>4, <1>8, <3>2
    <3> QED BY <1>1, <1>2, <2>2, <3>1, <3>2 DEF Restores, HasPath
  <2> QED BY <2>1, <2>2 DEF Restores
<1>13. RefreshOK(r)'
  BY <1>8, <1>9, <1>11, <1>12 DEF RefreshOK, At
<1>14. \A s \in Runners \ {r} : op'[s] = Idle
  BY <1>1, <1>8 DEF Alone
<1> QED
  BY <1>1, <1>2, <1>3, <1>13, <1>14, RefreshGoes

\* What does not change when a refresh goes on.
LEMMA RefreshKeeps ==
    ASSUME NEW r \in Runners, RefreshOK(r), Keeps(r), \A s \in Runners \ {r} : op'[s] = op[s],
           UNCHANGED <<row, pair>>
    PROVE  Alone(r)' /\ \A s \in Runners \ {r} : op'[s] = Idle
BY DEF RefreshOK, Alone, Keeps, HasPath, ActiveDrive

\* A link that is made again, in a refresh.
LEMMA MadeAgain ==
    ASSUME IInv, Typed', NEW r \in Runners, RefreshOK(r), op[r].at \in {"create", "relink"},
           entry[op[r].path] = Nothing, Put(op[r].path, op[r].link),
           op'[r].at = "refresh", Keeps(r), \A s \in Runners \ {r} : op'[s] = op[s],
           UNCHANGED <<row, pair, service>>, service # "down"
    PROVE  IInv'
<1>0. PICK v, x, q : v = op[r].path /\ x = op[r].link /\ q = op[r].link.to
  OBVIOUS
<1>1. /\ v \in VPaths /\ x \in Link /\ q \in Owners /\ x # Nothing /\ row[q] = v /\ HasPath(q) /\ Right(x, q)
      /\ entry[v] = Nothing /\ Put(v, x) /\ x.to = q
  BY <1>0, ValuesApart DEF RefreshOK, Makes, Link, HasPath, ValuesApart
<1>2. \A u \in VPaths : Below(v, u) => entry[u] \in {Nothing, Dir}
  BY <1>1, Unhindered
<1>3. Filled(v, x) /\ TreeOK'
  BY <1>1, <1>2, Filling DEF IInv
<1>4. ASSUME NEW o \in Owners \ {q}, HasPath(o)
      PROVE  /\ row[o] \in VPaths /\ row[o] # v /\ ~Below(row[o], v) /\ ~Below(v, row[o])
             /\ entry'[row[o]] = entry[row[o]]
  <2>1. row[o] \in VPaths /\ ~Overlap(v, row[o])
    BY <1>1, <1>4 DEF IInv, RowsApart, RowApart, HasPath
  <2>2. row[o] # v /\ ~Below(row[o], v) /\ ~Below(v, row[o])
    BY <1>1, <2>1, Overlaps
  <2> QED BY <1>3, <2>1, <2>2 DEF Filled
<1>5. RowsOpen'
  <2>1. RowOpen(q)'
    BY <1>1, <1>3, BelowOrder DEF RowOpen, Filled
  <2>2. ASSUME NEW o \in Owners \ {q} PROVE RowOpen(o)'
    <3> SUFFICES ASSUME HasPath(o) PROVE RowOpen(o)'
      BY DEF RowOpen, HasPath
    <3>1. ASSUME NEW u \in VPaths, Below(row[o], u) PROVE entry'[u] \in {Nothing, Dir}
      BY <1>3, <1>4, <3>1, Unhindered DEF Filled
    <3>2. entry[row[o]] # Nothing => entry[row[o]] \in Link /\ entry[row[o]].to = o
      BY DEF IInv, RowsOpen, RowOpen
    <3> QED BY <1>4, <3>1, <3>2 DEF RowOpen
  <2> QED BY <2>1, <2>2 DEF RowsOpen
<1>6. RowsApart'
  BY DEF IInv, RowsApart, RowApart, HasPath
<1>7. \A y, o : Right(y, o)' <=> Right(y, o)
  BY DEF Right, LinkOf, ActiveDrive
<1>8. Restores(r)'
  <2>1. \A m \in op'[r].todo : row'[m.owner] = m.path /\ Right(m.link, m.owner)'
    BY <1>7 DEF RefreshOK, At, Restores, Keeps
  <2>2. ASSUME NEW o \in Owners, HasPath(o)'
        PROVE  Right(entry[row[o]], o)' \/ \E m \in op'[r].todo : m.owner = o
    <3>1. CASE o = q
      <4>1. entry'[row'[q]] = x /\ Right(x, q)'
        BY <1>1, <1>3, <1>7 DEF Filled
      <4> QED BY <3>1, <4>1
    <3>2. CASE o # q
      <4>1. HasPath(o) /\ entry'[row'[o]] = entry[row[o]]
        BY <1>4, <2>2, <3>2 DEF HasPath
      <4>2. Right(entry[row[o]], o) \/ \E m \in op[r].todo : m.owner = o
        BY <1>0, <3>2, <4>1 DEF RefreshOK, At, Restores
      <4> QED BY <1>7, <4>1, <4>2 DEF Keeps, Right, LinkOf, ActiveDrive
    <3> QED BY <3>1, <3>2
  <2> QED BY <2>1, <2>2 DEF Restores
<1>9. RefreshOK(r)' /\ \A s \in Runners \ {r} : op'[s] = Idle
  BY <1>8, RefreshKeeps DEF RefreshOK, At
<1> QED
  BY <1>3, <1>5, <1>6, <1>9, RefreshGoes

LEMMA RefreshCreates ==
    ASSUME IInv, Typed', NEW r \in Runners, op[r].of # {}, Create(r) \/ Relink(r) \/ CreateRefused(r)
    PROVE  IInv'
<1>1. /\ RefreshOK(r) /\ service # "down" /\ op[r].at \in {"create", "relink"} /\ Makes(r)
      /\ At(r, "relink") => entry[op[r].path] = Nothing
  BY RefreshPlaces DEF Create, Relink, CreateRefused, RefreshOK, At
<1>2. op[r].path = row[op[r].link.to] /\ op[r].link.to \in Owners /\ op[r].replace /\ HasPath(op[r].link.to)
  BY <1>1 DEF Makes, Link, HasPath
<1>3. ~CreateRefused(r)
  BY <1>2, Unhindered DEF CreateRefused, Vacant, Replaceable
<1>4. /\ entry[op[r].path] = Nothing /\ Put(op[r].path, op[r].link) /\ Go(r, "refresh")
      /\ UNCHANGED <<row, pair, service>>
  BY <1>1, <1>3 DEF Create, Relink, Vacant, Made
<1>5. op'[r].at = "refresh" /\ Keeps(r) /\ \A s \in Runners \ {r} : op'[s] = op[s]
  BY <1>4, Going DEF IInv, Typed, TypeOK, Places
<1> QED
  BY <1>1, <1>4, <1>5, MadeAgain

LEMMA RefreshReplaces ==
    ASSUME IInv, Typed', NEW r \in Runners, op[r].of # {}, CreateOver(r)
    PROVE  IInv'
<1>0. PICK v, x, q : v = op[r].path /\ x = op[r].link /\ q = op[r].link.to
  OBVIOUS
<1>1. /\ RefreshOK(r) /\ service # "down" /\ op[r].at = "create" /\ Makes(r)
      /\ IsLink(entry[v]) /\ Put(v, Nothing) /\ UNCHANGED <<row, pair, service>>
  BY <1>0, RefreshPlaces DEF CreateOver, Replaceable, RefreshOK, At
<1>2. op'[r].at = "relink" /\ Keeps(r) /\ \A s \in Runners \ {r} : op'[s] = op[s]
  BY Going DEF CreateOver, IInv, Typed, TypeOK, Places
<1>3. v \in VPaths /\ q \in Owners /\ row[q] = v /\ HasPath(q)
  BY <1>0, <1>1 DEF Makes, Link, HasPath
<1>4. Cleared(v) /\ TreeOK'
  BY <1>1, <1>3, Clearing DEF IInv
<1>5. \A o \in Owners \ {q} : HasPath(o) => row[o] \in VPaths /\ row[o] # v
  BY <1>3, Overlaps DEF IInv, RowsApart, RowApart, HasPath
<1>6. RowsOpen'
  <2> SUFFICES ASSUME NEW o \in Owners, HasPath(o) PROVE RowOpen(o)'
    BY <1>1 DEF RowsOpen, RowOpen, HasPath
  <2>1. RowOpen(o) /\ row[o] \in VPaths
    BY DEF IInv, RowsOpen, HasPath
  <2> QED BY <1>1, <1>4, <2>1 DEF RowOpen, Cleared
<1>7. RowsApart'
  BY <1>1 DEF IInv, RowsApart, RowApart, HasPath
<1>8. \A y, o : Right(y, o)' <=> Right(y, o)
  BY <1>1 DEF Right, LinkOf, ActiveDrive
<1>9. Restores(r)'
  <2>1. \A m \in op'[r].todo : row'[m.owner] = m.path /\ Right(m.link, m.owner)'
    BY <1>1, <1>2, <1>8 DEF RefreshOK, At, Restores, Keeps
  <2>2. ASSUME NEW o \in Owners \ {q}, HasPath(o)'
        PROVE  Right(entry[row[o]], o)' \/ \E m \in op'[r].todo : m.owner = o
    <3>1. HasPath(o) /\ entry'[row'[o]] = entry[row[o]]
      BY <1>1, <1>4, <1>5, <2>2 DEF HasPath, Cleared
    <3>2. Right(entry[row[o]], o) \/ \E m \in op[r].todo : m.owner = o
      BY <1>0, <1>1, <3>1 DEF RefreshOK, At, Restores
    <3> QED BY <1>1, <1>2, <3>1, <3>2 DEF Keeps, Right, LinkOf, ActiveDrive
  <2>3. op'[r].at = "relink" /\ op'[r].link.to = q
    BY <1>0, <1>2 DEF Keeps
  <2> QED BY <2>1, <2>2, <2>3 DEF Restores
<1>10. Makes(r)'
  <2>1. Right(x, q)'
    BY <1>0, <1>1, <1>8 DEF Makes
  <2> QED BY <1>0, <1>1, <1>2, <2>1 DEF Makes, Keeps
<1>11. entry'[op'[r].path] = Nothing
  BY <1>0, <1>2, <1>3, <1>4 DEF Keeps, Cleared
<1>12. RefreshOK(r)' /\ \A s \in Runners \ {r} : op'[s] = Idle
  BY <1>1, <1>2, <1>9, <1>10, <1>11, RefreshKeeps DEF RefreshOK, At
<1> QED
  BY <1>1, <1>4, <1>6, <1>7, <1>12, RefreshGoes

LEMMA RefreshEndsStep == ASSUME IInv, Typed', NEW r \in Runners, RefreshEnds(r) PROVE IInv'
<1>1. RefreshOK(r) /\ op[r].at = "refresh" /\ Alone(r) /\ Restores(r) /\ op[r].todo = {}
  BY RefreshPlaces DEF RefreshEnds, At, RefreshOK
<1>2. UNCHANGED <<row, entry, pair>> /\ service' # "starting"
  BY DEF RefreshEnds, Up
<1>3. TreeOK' /\ RowsOpen' /\ RowsApart'
  BY <1>2 DEF IInv, TreeOK, RowsOpen, RowsApart, RowOpen, RowApart, HasPath
<1>4. \A s \in Runners : op'[s] = Idle
  BY <1>1, Ending DEF RefreshEnds, Alone, IInv, Typed, TypeOK
<1>5. \A o \in Owners : HasPath(o)' => Right(entry[row[o]], o)'
  BY <1>1, <1>2 DEF Restores, Right, HasPath, LinkOf, ActiveDrive
<1> QED
  BY <1>2, <1>3, <1>4, <1>5, AllIdle

\* Each step of a request keeps the invariant.
LEMMA StepKept == ASSUME IInv, Typed', NEW r \in Runners, Step(r) PROVE IInv'
<1>1. CASE op[r].of = {} /\ op[r].at \notin {"collect", "refresh"}
  BY <1>1, PlainStep
<1>2. CASE op[r].of # {} \/ op[r].at \in {"collect", "refresh"}
  <2>1. op[r].of # {} /\ op[r].at \in {"collect", "refresh", "create", "relink"}
    BY <1>2, RefreshPlaces DEF RefreshOK, Alone
  <2>2. \/ Create(r) \/ Relink(r) \/ CreateRefused(r) \/ CreateOver(r) \/ Collect(r)
        \/ (\E m \in Mapping : RefreshOne(r, m)) \/ RefreshEnds(r)
    BY <2>1 DEF Step, Look, LookRefused, Write, WriteFails, Rollback, Unhook, Finish, Drop, Cascade, CascadeFails,
                Reserve, Queue, QueueFails, At
  <2> QED BY <2>1, <2>2, RefreshCreates, RefreshReplaces, CollectStep, RefreshOneStep, RefreshEndsStep
<1> QED
  BY <1>1, <1>2
-----------------------------------------------------------------------------
(* Kills, users and administrators *)

LEMMA KillStep == ASSUME IInv, Typed', Kill PROVE IInv'
<1>1. UNCHANGED <<row, entry, pair>> /\ service' = "down" /\ \A s \in Runners : op'[s] = Idle
  BY DEF Kill
<1>2. TreeOK' /\ RowsOpen' /\ RowsApart'
  BY <1>1 DEF IInv, TreeOK, RowsOpen, RowsApart, RowOpen, RowApart, HasPath
<1> QED
  BY <1>1, <1>2, AllIdle

\* What happens beside the requests: links, the rows' entries and, where that matters,
\* active drives stay as they are.
Untouched ==
    /\ UNCHANGED <<row, op, service>>
    /\ \A u \in VPaths : entry[u] \in Link \/ IsLink(entry'[u]) => entry'[u] = entry[u]
    /\ \A o \in Owners : HasPath(o) =>
          /\ entry'[row[o]] = entry[row[o]]
          /\ \A u \in VPaths : Below(row[o], u) => entry'[u] \in {Nothing, Dir}
    /\ Exact => \A o \in Owners :
          row[o] # NoRow /\ (HasPath(o) \/ \E s \in Runners : op[s] # Idle) =>
             ActiveDrive(PairOf[o])' = ActiveDrive(PairOf[o])

LEMMA UntouchedPlain == ASSUME IInv, Untouched, NEW s \in Runners, PlainOK(s) PROVE PlainOK(s)'
<1>0. PICK o, v : o = op[s].owner /\ v = op[s].path
  OBVIOUS
<1> USE <1>0
<1>1. UNCHANGED <<row, op, service>>
  BY DEF Untouched
<1>2. At(s, "relink")' = At(s, "relink") /\ Mine(s)' = Mine(s) /\ \A q : HasPath(q)' <=> HasPath(q)
  BY <1>1 DEF At, Mine, HasPath
<1>3. o \in Owners /\ op[s] # Idle
  BY AtWork DEF PlainOK
<1>4. ASSUME Sets(s) PROVE Sets(s)'
  <2>1. Exact => ActiveDrive(PairOf[o])' = ActiveDrive(PairOf[o])
    BY <1>3, <1>4 DEF Untouched, Sets
  <2>2. Right(op[s].link, o)' <=> Right(op[s].link, o)
    BY <1>1, <2>1 DEF Right, LinkOf
  <2> QED BY <1>1, <1>2, <1>4, <2>2 DEF Sets
<1>5. ASSUME Open(s) PROVE Open(s)'
  <2>1. \A u \in VPaths : Below(v, u) => ~IsLink(entry'[u])
    BY <1>5 DEF Open, Untouched
  <2> QED BY <1>1, <1>2, <1>5, <2>1 DEF Open
<1>6. ASSUME Reserves(s) PROVE Reserves(s)'
  <2>1. \A u \in VPaths : Below(v, u) /\ IsLink(entry'[u]) => \E q \in Owners : row[q] = u
    BY <1>6 DEF Reserves, Untouched
  <2> QED BY <1>1, <1>6, <2>1 DEF Reserves
<1>7. ASSUME Hooks(s) PROVE Hooks(s)'
  <2>1. \A u \in op[s].unhook : u \in VPaths /\ entry'[u] = entry[u]
    BY <1>7, OpTyped DEF Hooks, Untouched, IInv
  <2> QED BY <1>1, <1>2, <1>7, <2>1 DEF Hooks
<1>8. ASSUME Sets(s), entry[v] = op[s].link PROVE entry'[v] = op[s].link
  BY <1>8 DEF Sets, Right, Untouched
<1>9. ASSUME Sets(s), op[s].replace, entry[v] = Nothing PROVE entry'[v] = Nothing
  BY <1>3, <1>9 DEF Sets, Untouched, HasPath
<1>10. (op[s].unhook = {row[q] : q \in {p \in Mine(s) : HasPath(p)}})'
       <=> op[s].unhook = {row[q] : q \in {p \in Mine(s) : HasPath(p)}}
  BY <1>1, <1>2
<1> USE DEF PlainOK
<1>11. /\ op'[s].of = {} /\ op'[s].todo = {} /\ op'[s].owner \in Owners
       /\ op'[s].at \notin {"idle", "collect", "refresh"}
       /\ op'[s].files # {} => op'[s].owner \in Folders
       /\ \A f \in op'[s].files : Within[f] = op'[s].owner
  BY <1>1
<1>12. At(s, "reserve")' => Reserves(s)'
  BY <1>1, <1>6 DEF At
<1>13. op'[s].at \in {"look", "create", "relink", "write"} => Sets(s)' /\ Open(s)'
  BY <1>1, <1>4, <1>5
<1>14. At(s, "relink")' => op'[s].replace /\ entry'[op'[s].path] = Nothing
  BY <1>1, <1>9 DEF At
<1>15. At(s, "write")' => entry'[op'[s].path] = op'[s].link
  BY <1>1, <1>8 DEF At
<1>16. At(s, "rollback")' => Sets(s)' /\ ~op'[s].replace /\ entry'[op'[s].path] = op'[s].link
  BY <1>1, <1>4, <1>8 DEF At
<1>17. At(s, "queue")' => op'[s].files = {} /\ op'[s].unhook = {} /\ row'[op'[s].owner] = op'[s].path
  BY <1>1 DEF At
<1>18. At(s, "unhook")' => Hooks(s)'
  BY <1>1, <1>7 DEF At
<1>19. At(s, "drop")' => op'[s].files = {} /\ row'[op'[s].owner] = NoPath /\ Hooks(s)'
  BY <1>1, <1>7 DEF At
<1>20. At(s, "cascade")' => (op[s].unhook = {row[q] : q \in {p \in Mine(s) : HasPath(p)}})'
  BY <1>1, <1>10 DEF At
<1> QED
  BY <1>11, <1>12, <1>13, <1>14, <1>15, <1>16, <1>17, <1>18, <1>19, <1>20

LEMMA UntouchedRefresh == ASSUME IInv, Untouched, NEW s \in Runners, RefreshOK(s) PROVE RefreshOK(s)'
<1>1. UNCHANGED <<row, op, service>> /\ \A q : HasPath(q)' <=> HasPath(q)
  BY DEF Untouched, HasPath
<1>2. \A o \in Owners : HasPath(o) => row[o] # NoRow
  BY ValuesApart DEF HasPath, ValuesApart
<1>3. ASSUME NEW o \in Owners, HasPath(o)
      PROVE  /\ Exact => ActiveDrive(PairOf[o])' = ActiveDrive(PairOf[o])
             /\ \A y : Right(y, o)' <=> Right(y, o)
             /\ entry'[row[o]] = entry[row[o]]
  <2>1. Exact => ActiveDrive(PairOf[o])' = ActiveDrive(PairOf[o])
    BY <1>2, <1>3 DEF Untouched
  <2> QED BY <1>3, <2>1 DEF Right, LinkOf, Untouched
<1>4. Alone(s)'
  BY <1>1, <1>3 DEF RefreshOK, Alone
<1>5. ASSUME Collects(s) PROVE Collects(s)'
  BY <1>1, <1>3, <1>5 DEF Collects, Hooked
<1>6. ASSUME Makes(s) PROVE Makes(s)'
  <2>1. op[s].link.to \in Owners /\ HasPath(op[s].link.to)
    BY <1>6 DEF Makes, Link, HasPath
  <2>2. PICK x, q : x = op[s].link /\ q = op[s].link.to
    OBVIOUS
  <2>3. Right(x, q)'
    BY <1>3, <1>6, <2>1, <2>2 DEF Makes
  <2> QED BY <1>1, <1>6, <2>2, <2>3 DEF Makes
<1>7. ASSUME Restores(s) PROVE Restores(s)'
  <2>1. ASSUME NEW m \in op[s].todo PROVE row[m.owner] = m.path /\ Right(m.link, m.owner)'
    <3>1. m.owner \in Owners /\ HasPath(m.owner)
      BY <1>7, OpTyped DEF Restores, Mapping, HasPath, IInv
    <3> QED BY <1>3, <1>7, <3>1 DEF Restores
  <2>2. ASSUME NEW o \in Owners, HasPath(o), Right(entry[row[o]], o) PROVE Right(entry[row[o]], o)'
    <3>1. PICK x : x = entry[row[o]]
      OBVIOUS
    <3>2. Right(x, o)' /\ entry'[row'[o]] = x
      BY <1>1, <1>3, <2>2, <3>1
    <3> QED BY <3>2
  <2> QED BY <1>1, <1>7, <2>1, <2>2 DEF Restores
<1>8. ASSUME At(s, "relink"), Makes(s), entry[op[s].path] = Nothing PROVE entry'[op[s].path] = Nothing
  <2>1. op[s].link.to \in Owners /\ HasPath(op[s].link.to)
    BY <1>8 DEF Makes, Link, HasPath
  <2> QED BY <1>3, <1>8, <2>1 DEF Makes
<1> QED
  BY <1>1, <1>4, <1>5, <1>6, <1>7, <1>8 DEF RefreshOK, At

LEMMA UntouchedKept == ASSUME IInv, Untouched, Typed', TreeOK' PROVE IInv'
<1>1. UNCHANGED <<row, op, service>> /\ \A q : HasPath(q)' <=> HasPath(q)
  BY DEF Untouched, HasPath
<1>2. OpsOK'
  <2> SUFFICES ASSUME NEW s \in Runners PROVE OpOK(s)'
    BY DEF OpsOK
  <2>1. CASE op[s] = Idle
    BY <1>1, <2>1 DEF OpOK
  <2>2. CASE PlainOK(s) \/ RefreshOK(s)
    BY <2>2, UntouchedPlain, UntouchedRefresh DEF OpOK
  <2> QED BY <2>1, <2>2 DEF IInv, OpsOK, OpOK
<1>3. RowsOpen'
  BY <1>1 DEF IInv, RowsOpen, RowOpen, Untouched
<1>4. RowsApart'
  BY <1>1 DEF IInv, RowsApart, RowApart
<1>5. OpsApart'
  BY <1>1 DEF IInv, OpsApart, Mine, Foot, SetsAgain, At
<1>6. RowsLinked'
  <2> SUFFICES ASSUME service = "up", Quiet, NEW o \in Owners, HasPath(o) PROVE Linked(o)'
    BY <1>1 DEF RowsLinked, Quiet, Refreshing, Linked
  <2>1. Exact => ActiveDrive(PairOf[o])' = ActiveDrive(PairOf[o])
    BY ValuesApart DEF Untouched, HasPath, ValuesApart
  <2>2. Right(entry[row[o]], o) => Right(entry[row[o]], o)'
    BY <1>1, <2>1 DEF Untouched, Right, LinkOf
  <2> QED BY <1>1, <2>2 DEF IInv, RowsLinked, Linked, At
<1>7. ServiceOK'
  BY <1>1 DEF IInv, ServiceOK, Quiet, Refreshing
<1> QED
  BY <1>2, <1>3, <1>4, <1>5, <1>6, <1>7 DEF IInv

LEMMA UserFileStep == ASSUME IInv, Typed', NEW v \in VPaths, UserFile(v) PROVE IInv'
<1>1. /\ entry[v] = Nothing /\ ~Blocked(v) /\ Put(v, User) /\ UNCHANGED <<row, pair, op, service>>
      /\ \A u \in VPaths : Below(v, u) => ~IsLink(entry[u])
      /\ \A o \in Owners : HasPath(o) => ~Overlap(row[o], v)
  BY DEF UserFile
<1>2. \A u \in VPaths : Below(v, u) => entry[u] \in {Nothing, Dir}
  BY <1>1, NotBlocked DEF IInv
<1>3. User # Nothing
  BY ValuesApart DEF ValuesApart
<1>4. Filled(v, User) /\ TreeOK'
  BY <1>1, <1>2, <1>3, Filling DEF IInv
<1>5. \A o \in Owners : HasPath(o) => row[o] \in VPaths /\ row[o] # v /\ ~Below(row[o], v) /\ ~Below(v, row[o])
  BY <1>1, Overlaps DEF HasPath
<1>6. Untouched
  <2>1. \A u \in VPaths : entry[u] \in Link \/ IsLink(entry'[u]) => entry'[u] = entry[u]
    BY <1>1, <1>2, <1>4, ValuesApart DEF Filled, IsLink, ValuesApart
  <2>2. \A o \in Owners : HasPath(o) =>
          /\ entry'[row[o]] = entry[row[o]]
          /\ \A u \in VPaths : Below(row[o], u) => entry'[u] \in {Nothing, Dir}
    BY <1>4, <1>5, Unhindered DEF Filled
  <2>3. \A o \in Owners : ActiveDrive(PairOf[o])' = ActiveDrive(PairOf[o])
    BY <1>1 DEF ActiveDrive
  <2> QED BY <1>1, <2>1, <2>2, <2>3 DEF Untouched
<1> QED
  BY <1>4, <1>6, UntouchedKept

\* Pairs are edited where nothing tracked is on them, or where that leaves links wrong.
LEMMA AdministerStep == ASSUME IInv, Typed', Administer PROVE IInv'
<1>1. UNCHANGED <<row, entry, op, service>>
  BY TypedAdminister DEF IInv
<1>2. ASSUME Exact, NEW o \in Owners, row[o] # NoRow, HasPath(o) \/ \E s \in Runners : op[s] # Idle
      PROVE  ActiveDrive(PairOf[o])' = ActiveDrive(PairOf[o])
  <2>1. pair[PairOf[o]] # NoPair /\ PairOf[o] \in Pairs /\ pair \in [Pairs -> Pair \cup {NoPair}]
    BY <1>2, PathsOK DEF IInv, Typed, TypeOK, RowsPaired, PathsOK
  <2>2. ASSUME NEW p \in Pairs, NEW x, pair' = [pair EXCEPT ![p] = x], p # PairOf[o]
        PROVE  ActiveDrive(PairOf[o])' = ActiveDrive(PairOf[o])
    BY <2>1, <2>2 DEF ActiveDrive
  <2>3. ASSUME NEW p \in Pairs, NEW d \in Drives, NEW e \in Drives, CreatePair(p, d, e)
        PROVE  ActiveDrive(PairOf[o])' = ActiveDrive(PairOf[o])
    BY <2>1, <2>2, <2>3 DEF CreatePair
  <2>4. ASSUME NEW p \in Pairs, NEW role \in Roles, NEW d \in Drives, UpdatePair(p, role, d)
        PROVE  ActiveDrive(PairOf[o])' = ActiveDrive(PairOf[o])
    <3>1. Resting /\ \A q \in Owners : PairOf[q] = p => ~HasPath(q)
      BY <1>2, <2>4 DEF UpdatePair, Exact
    <3>2. p # PairOf[o]
      BY <1>2, <3>1, AllAtRest
    <3> QED BY <2>2, <2>4, <3>2 DEF UpdatePair
  <2>5. ASSUME NEW p \in Pairs, DeletePair(p) PROVE ActiveDrive(PairOf[o])' = ActiveDrive(PairOf[o])
    BY <1>2, <2>2, <2>5 DEF DeletePair
  <2> QED BY <2>3, <2>4, <2>5 DEF Administer
<1>3. TreeOK'
  BY <1>1 DEF IInv, TreeOK
<1>4. Untouched
  <2>1. \A o \in Owners : HasPath(o) => \A u \in VPaths : Below(row[o], u) => entry'[u] \in {Nothing, Dir}
    BY <1>1, Unhindered
  <2> QED BY <1>1, <1>2, <2>1 DEF Untouched
<1> QED
  BY <1>3, <1>4, UntouchedKept
-----------------------------------------------------------------------------
(* Links stay apart, and lead to what is listed *)

LEMMA InitKept == Init => IInv
<1> SUFFICES ASSUME Init PROVE IInv
  OBVIOUS
<1>1. \A v \in VPaths : entry[v] = Nothing
  BY DEF Init
<1>2. \A o \in Owners : ~HasPath(o)
  BY ValuesApart DEF Init, HasPath, ValuesApart
<1>3. \A s \in Runners : op[s] = Idle
  BY DEF Init
<1>4. OpsApart
  BY <1>3, IdleFields DEF OpsApart, SetsAgain
<1>5. TreeOK /\ RowsOpen /\ RowsApart /\ OpsOK /\ RowsLinked /\ ServiceOK
  BY <1>1, <1>2, <1>3 DEF TreeOK, RowsOpen, RowsApart, RowOpen, RowApart, OpsOK, OpOK, RowsLinked, Linked, ServiceOK,
                          Init
<1> QED
  BY <1>4, <1>5, TypedInit DEF IInv

LEMMA NextKept == ASSUME Orderly, IInv, [Next]_vars PROVE IInv'
<1>1. Typed'
  BY TypedNext DEF IInv
<1>2. CASE UNCHANGED vars
  <2>1. UNCHANGED <<row, entry, pair, op, service>>
    BY <1>2 DEF vars
  <2>2. TreeOK'
    BY <2>1 DEF IInv, TreeOK
  <2>3. Untouched
    BY <2>1, Unhindered, LinkIsLink DEF Untouched, ActiveDrive
  <2> QED BY <1>1, <2>2, <2>3, UntouchedKept
<1>3. ASSUME NEW r \in Runners, Ask(r) PROVE IInv'
  BY <1>1, <1>3, SetPathStep, RemovePathStep, DeleteFileStep, UntrackStep, TrackStep, RefreshStep, SwitchStep
     DEF Ask, FilePath, FolderPath, Owners
<1> QED
  BY <1>1, <1>2, <1>3, StepKept, StartStep, AdministerStep, KillStep, UserFileStep DEF Next

\* No two items have one path or one below the other's, what is tracked has a pair, and no
\* link is below another: for requests that do not meet in the ways Orderly excludes, with
\* any steps of any number of requests in between, kills, switches and edits of pairs.
THEOREM LinksStayApart == ASSUME Orderly PROVE Spec => []LinksApart
<1>1. IInv => LinksApart
  <2> SUFFICES ASSUME IInv PROVE LinksApart
    OBVIOUS
  <2>1. PathsApart
    BY DEF IInv, Typed, RowsPaired, RowsApart, RowApart, PathsApart
  <2>2. NoLinkOnDrive
    BY DEF IInv, TreeOK, NoLinkOnDrive, IsLink
  <2> QED BY <2>1, <2>2 DEF LinksApart, IInv, Typed
<1>2. IInv /\ [Next]_vars => IInv'
  BY NextKept
<1> QED
  BY <1>1, <1>2, InitKept, PTL DEF Spec

\* What paths and files are named with.
AllNames == Names \cup {Name[f] : f \in Files}

\* Sequences of names, the paths of files in folders among them.
LEMMA PathSequences ==
    /\ VPaths \subseteq Seq(AllNames)
    /\ \A v \in VPaths : \A f \in Files : Append(v, Name[f]) \in Seq(AllNames)
<1>1. \A v \in VPaths : v \in Seq(AllNames)
  <2> TAKE v \in VPaths
  <2>1. v \in Seq(Names)
    BY PathsAreSequences
  <2>2. Names \subseteq AllNames
    BY DEF AllNames
  <2> HIDE DEF Names, AllNames
  <2> QED BY <2>1, <2>2
<1>2. \A f \in Files : Name[f] \in AllNames
  BY DEF AllNames
<1> QED
  BY <1>1, <1>2

\* What a link at a path leads to.
LEMMA AtLink ==
    ASSUME NEW v \in VPaths, IsLink(entry[v])
    PROVE  Resolve(v) = entry[v]
<1>1. v \in Seq(AllNames)
  BY PathSequences
<1> HIDE DEF AllNames
<1>2. SubSeq(v, 1, Len(v)) = v
  BY <1>1
<1> QED
  BY <1>2 DEF Resolve

\* A file is seen through the link of its folder, when nothing else is at its path.
LEMMA ThroughLink ==
    ASSUME NEW f \in Files, NEW v \in VPaths, IsLink(entry[v]), entry[v].to = Within[f], Within[f] \in Folders,
           Append(v, Name[f]) \in VPaths => ~IsLink(entry[Append(v, Name[f])])
    PROVE  Resolve(Append(v, Name[f])) = [to |-> f, on |-> entry[v].on]
<1> DEFINE w == Append(v, Name[f])
           in == {g \in Files : Within[g] = entry[v].to /\ Name[g] = w[Len(w)]}
<1>1. v \in Seq(AllNames) /\ v # <<>> /\ Name[f] \in AllNames
  BY PathSequences, PathsAreSequences DEF AllNames
<1> HIDE DEF AllNames
<1>2. /\ Len(w) > 1 /\ SubSeq(w, 1, Len(w)) = w /\ SubSeq(w, 1, Len(w) - 1) = v /\ w[Len(w)] = Name[f]
  BY <1>1
<1>3. in = {f}
  BY <1>2, PathsOK DEF PathsOK
<1>4. (CHOOSE g \in in : TRUE) = f
  BY <1>3
<1>5. w \in VPaths => ~IsLink(entry[w])
  OBVIOUS
<1> HIDE DEF w
<1>6. ~IsLink(Nothing)
  BY DEF IsLink
<1> QED
  BY <1>2, <1>3, <1>4, <1>5, <1>6 DEF Resolve, w

\* Where nobody is at work, an item's link is at its path.
LEMMA SettledLink ==
    ASSUME IInv, Exact, NEW o \in Owners, HasPath(o), service = "up", Quiet, \A r \in Runners : op[r].owner # o
    PROVE  row[o] \in VPaths /\ entry[row[o]] = LinkOf(o) /\ IsLink(entry[row[o]])
<1>1. Right(entry[row[o]], o)
  BY DEF IInv, RowsLinked, Linked
<1> QED
  BY <1>1, ValuesApart DEF Right, IsLink, HasPath, ValuesApart

\* What is listed for an item leads to it.
LEMMA ItemResolves ==
    ASSUME IInv, Exact, NEW o \in Owners, Settled(o), Effective(o) # NoPath
    PROVE  Effective(o) \in Seq(AllNames) /\ Resolve(Effective(o)) = LinkOf(o) /\ LinkOf(o) # Nothing
<1>1. service = "up" /\ Quiet /\ \A r \in Runners : op[r].owner \notin Family(o)
  BY DEF Settled, Quiet
<1>2. \A r \in Runners : op[r].owner # o
  BY <1>1 DEF Family
<1>3. CASE HasPath(o)
  <2>1. Effective(o) = row[o]
    BY <1>3 DEF Effective
  <2>2. row[o] \in VPaths /\ entry[row[o]] = LinkOf(o) /\ IsLink(entry[row[o]])
    BY <1>1, <1>2, <1>3, SettledLink
  <2> QED BY <2>1, <2>2, AtLink, PathSequences DEF IsLink
<1>4. CASE ~HasPath(o)
  <2>1. PICK d : d = Within[o]
    OBVIOUS
  <2>2. /\ o \in Files /\ d # NoOwner /\ HasPath(d) /\ Effective(o) = Append(row[d], Name[o])
        /\ row[o] # NoRow
    BY <1>4, <2>1 DEF Effective
  <2>3. d \in Folders /\ d \in Owners /\ PairOf[o] = PairOf[d]
    BY <2>1, <2>2, PathsOK DEF PathsOK, Owners
  <2>4. \A r \in Runners : op[r].owner # d
    BY <1>1, <2>1, <2>2, <2>3 DEF Family
  <2>5. row[d] \in VPaths /\ entry[row[d]] = LinkOf(d) /\ IsLink(entry[row[d]])
    BY <1>1, <2>2, <2>3, <2>4, SettledLink
  <2>6. entry[row[d]].to = d /\ entry[row[d]].on = ActiveDrive(PairOf[o])
    BY <2>3, <2>5 DEF LinkOf
  <2>7. PICK v, w : v = row[d] /\ w = Append(row[d], Name[o])
    OBVIOUS
  <2>8. Below(w, v) /\ w \in Seq(AllNames)
    <3>1. v \in Seq(AllNames) /\ Name[o] \in AllNames /\ w \in Seq(AllNames)
      BY <2>2, <2>5, <2>7, PathSequences DEF AllNames
    <3> HIDE DEF AllNames
    <3>2. Len(v) < Len(w) /\ \A n \in 1..Len(v) : v[n] = w[n]
      BY <2>7, <3>1
    <3> QED BY <3>1, <3>2, BelowNames
  <2>9. w \in VPaths => ~IsLink(entry[w])
    BY <2>5, <2>7, <2>8 DEF IInv, TreeOK, IsLink
  <2>10. Resolve(w) = [to |-> o, on |-> entry[v].on]
    BY <2>1, <2>2, <2>3, <2>5, <2>6, <2>7, <2>9, ThroughLink
  <2>11. Resolve(w) = LinkOf(o)
    BY <2>6, <2>7, <2>10 DEF LinkOf
  <2>12. LinkOf(o) # Nothing
    BY <2>2, LinkTyped, ValuesApart DEF IInv, Typed, TypeOK, RowsPaired, ValuesApart
  <2> QED BY <2>2, <2>7, <2>8, <2>11, <2>12
<1> QED
  BY <1>3, <1>4

\* Who goes down the tree of listed paths finds more below, or arrives at an item.
LEMMA NodeResolves ==
    ASSUME IInv, Exact, \A o \in Owners : Settled(o), NEW parent \in {<<>>} \cup VPaths, NEW n \in TreeNodes(parent)
    PROVE  n.children \/ Resolve(n.path) # Nothing
<1> DEFINE below == {v \in Listed : IsStrictPrefix(parent, v)}
           next == Len(parent) + 1
           node(v) == [path |-> SubSeq(v, 1, next), children |-> \E u \in below : Below(u, SubSeq(v, 1, next))]
<1>1. TreeNodes(parent) = {node(v) : v \in below}
  BY DEF TreeNodes
<1>2. PICK v \in below : n = node(v)
  BY <1>1
<1>3. v \in Listed /\ Below(v, parent)
  BY DEF Below
<1>4. PICK o \in Owners : v = Effective(o) /\ v # NoPath
  BY <1>3 DEF Listed
<1>5. v \in Seq(AllNames) /\ Resolve(v) # Nothing
  BY <1>4, ItemResolves
<1> HIDE DEF AllNames
<1>6. parent \in Seq(AllNames)
  <2>1. <<>> \in Seq(AllNames)
    OBVIOUS
  <2> QED BY <2>1, PathSequences
<1>7. Len(parent) < Len(v)
  BY <1>3, <1>5, <1>6, BelowNames
<1>8. next \in Nat /\ next > 0 /\ next <= Len(v)
  BY <1>5, <1>6, <1>7
<1>9. n.path = SubSeq(v, 1, next) /\ (n.children <=> \E u \in below : Below(u, SubSeq(v, 1, next)))
  BY <1>2
<1> HIDE DEF next
<1>10. CASE next = Len(v)
  <2>1. SubSeq(v, 1, next) = v
    BY <1>5, <1>10
  <2> QED BY <1>5, <1>9, <2>1
<1>11. CASE next < Len(v)
  <2>1. /\ SubSeq(v, 1, next) \in Seq(AllNames) /\ Len(SubSeq(v, 1, next)) = next
        /\ \A k \in 1..next : SubSeq(v, 1, next)[k] = v[k]
    BY <1>5, <1>8, <1>11
  <2>2. Below(v, SubSeq(v, 1, next))
    BY <1>5, <1>11, <2>1, BelowNames
  <2> QED BY <1>9, <2>2
<1> QED
  BY <1>5, <1>8, <1>10, <1>11

\* Every path that listings show leads to its item on the active drive, and a path of its
\* own is that item's link, where no request is at work on it; who goes down the listed
\* tree arrives somewhere: when requests meet in none of the ways Freedoms names, after any
\* kills and switches.
THEOREM ListedPathsResolve == ASSUME Allowed = {} PROVE Spec => [](ListedResolves /\ LinkAtPath)
<1>1. Orderly /\ Exact
  BY DEF Orderly, Exact
<1>2. IInv => ListedResolves
  BY <1>1, ItemResolves, NodeResolves DEF ListedResolves
<1>3. IInv => LinkAtPath
  <2> SUFFICES ASSUME IInv, NEW o \in Owners, Settled(o), HasPath(o) PROVE entry[row[o]] = LinkOf(o)
    BY DEF LinkAtPath
  <2>1. service = "up" /\ Quiet /\ \A r \in Runners : op[r].owner # o
    BY DEF Settled, Quiet, Family
  <2> QED BY <1>1, <2>1, SettledLink
<1>4. IInv /\ [Next]_vars => IInv'
  BY <1>1, NextKept
<1> QED
  BY <1>2, <1>3, <1>4, InitKept, PTL DEF Spec
-----------------------------------------------------------------------------
(* What users have put at a path *)

\* What is above a user's file is a directory, and what is worked on is a path.
UserOK ==
    /\ \A u, v \in VPaths : Below(v, u) /\ entry[v] = User => entry[u] = Dir
    /\ \A r \in Runners : op[r].at \in {"look", "create", "relink", "write", "rollback"} => op[r].path \in VPaths

\* A link put where nothing is, or taken away, leaves what users have put.
LEMMA PutKeepsUsers ==
    ASSUME Typed, UserOK, NEW v \in VPaths, entry[v] = Nothing \/ IsLink(entry[v]), NEW x, Put(v, x),
           x = User => \A u \in VPaths : Below(v, u) => entry[u] \in {Nothing, Dir}
    PROVE  /\ \A w \in VPaths : entry[w] = User => entry'[w] = User
           /\ \A u, w \in VPaths : Below(w, u) /\ entry'[w] = User => entry'[u] = Dir
<1>1. entry[v] # Dir /\ entry[v] # User
  BY ValuesApart DEF IsLink, ValuesApart
<1>2. ASSUME NEW w \in VPaths, entry[w] = User PROVE w # v /\ ~Below(w, v) /\ entry'[w] = User
  <2>1. w # v /\ ~Below(w, v)
    BY <1>1, <1>2 DEF UserOK
  <2> QED BY <1>2, <2>1, ValuesApart DEF Put, ValuesApart
<1>3. ASSUME NEW u \in VPaths, NEW w \in VPaths, Below(w, u), entry[w] = User PROVE entry'[u] = Dir
  <2>1. entry[u] = Dir
    BY <1>3 DEF UserOK
  <2>2. u # v /\ ~Below(u, v)
    BY <1>1, <1>2, <1>3, <2>1, BelowOrder
  <2> QED BY <2>1, <2>2, ValuesApart DEF Put, ValuesApart
<1>4. ASSUME NEW w \in VPaths, entry'[w] = User PROVE entry[w] = User \/ (w = v /\ x = User)
  BY <1>4, ValuesApart DEF Put, ValuesApart
<1>5. ASSUME NEW u \in VPaths, Below(v, u), x = User PROVE entry'[u] = Dir
  <2>1. u # v /\ ~Below(u, v) /\ entry[u] \in {Nothing, Dir}
    BY <1>5, BelowOrder
  <2> QED BY <1>5, <2>1, ValuesApart DEF Put, ValuesApart
<1> QED
  BY <1>2, <1>3, <1>4, <1>5

Sited == {"look", "create", "relink", "write", "rollback"}
UsersStay ==
    /\ \A w \in VPaths : entry[w] = User => entry'[w] = User
    /\ \A u, w \in VPaths : Below(w, u) /\ entry'[w] = User => entry'[u] = Dir
PathsStay == \A s \in Runners : op'[s].at \in Sited => op'[s].path \in VPaths

\* A link put or taken away at a path.
LEMMA UsersPut ==
    ASSUME Typed, UserOK, NEW v \in VPaths, entry[v] = Nothing \/ IsLink(entry[v]), NEW x \in Link \cup {Nothing}, Put(v, x)
    PROVE  UsersStay
<1>1. x # User
  BY ValuesApart DEF ValuesApart
<1> QED
  BY <1>1, PutKeepsUsers DEF UsersStay

LEMMA UsersSame == ASSUME UserOK, UNCHANGED entry PROVE UsersStay
BY DEF UserOK, UsersStay

LEMMA PathsSame ==
    ASSUME UserOK, \A s \in Runners : op'[s] = op[s] \/ op'[s].at \notin Sited
    PROVE  PathsStay
BY DEF UserOK, PathsStay, Sited

LEMMA PathsGo ==
    ASSUME Typed, UserOK, NEW r \in Runners, NEW place \in Places, Go(r, place), op[r].at \in Sited \/ place \notin Sited
    PROVE  PathsStay
<1>1. op'[r].at = place /\ Keeps(r) /\ \A s \in Runners \ {r} : op'[s] = op[s]
  BY Going DEF Typed, TypeOK
<1> QED
  BY <1>1 DEF UserOK, PathsStay, Sited, Keeps

LEMMA PathsEnd == ASSUME Typed, UserOK, NEW r \in Runners, End(r) PROVE PathsStay
<1>1. \A s \in Runners : op'[s] = op[s] \/ op'[s].at = "idle"
  BY Ending DEF Typed, TypeOK, Idle
<1> QED
  BY <1>1, PathsSame DEF Sited

LEMMA UsersStep == ASSUME Typed, UserOK, NEW r \in Runners, Step(r) PROVE UsersStay /\ PathsStay
<1>1. op[r].link \in Link \cup {Nothing}
  BY DEF Typed, TypeOK, Op
<1>2. op[r].at \in Sited => op[r].path \in VPaths
  BY DEF UserOK, Sited
<1>m. Made(r) \in Places
  BY DEF Made, Places
<1>3. ASSUME NotMade(r), op[r].at \in Sited PROVE PathsStay
  BY <1>3, PathsGo, PathsEnd DEF NotMade, Refuse, Places
<1>4. CASE Look(r)
  BY <1>4, UsersSame, PathsGo DEF Look, At, Sited, Places
<1>5. CASE LookRefused(r)
  BY <1>5, UsersSame, PathsEnd DEF LookRefused, Refuse
<1>6. CASE Create(r)
  BY <1>1, <1>2, <1>m, <1>6, UsersPut, PathsGo DEF Create, Vacant, At, Sited
<1>7. CASE CreateOver(r)
  BY <1>2, <1>7, UsersPut, PathsGo DEF CreateOver, Replaceable, At, Sited, Places
<1>8. CASE Relink(r)
  <2>1. CASE entry[op[r].path] = Nothing
    BY <1>1, <1>2, <1>m, <1>8, <2>1, UsersPut, PathsGo DEF Relink, At, Sited
  <2>2. CASE entry[op[r].path] # Nothing
    BY <1>3, <1>8, <2>2, UsersSame DEF Relink, At, Sited
  <2> QED BY <2>1, <2>2
<1>9. CASE CreateRefused(r)
  BY <1>3, <1>9, UsersSame DEF CreateRefused, At, Sited
<1>10. CASE Write(r)
  <2>1. (IF op[r].fresh THEN "queue" ELSE "unhook") \in Places
    BY DEF Places
  <2> QED BY <1>10, <2>1, UsersSame, PathsGo DEF Write, At, Sited
<1>11. CASE WriteFails(r)
  BY <1>11, UsersSame, PathsGo, PathsEnd DEF WriteFails, Refuse, At, Sited, Places
<1>12. CASE Rollback(r)
  BY <1>2, <1>12, UsersPut, UsersSame, PathsEnd DEF Rollback, Refuse, At, Sited
<1>13. ASSUME NEW v \in VPaths, Unhook(r, v) PROVE UsersStay /\ PathsStay
  <2>1. UsersStay
    BY <1>13, UsersPut, UsersSame DEF Unhook
  <2> DEFINE x == [op[r] EXCEPT !.unhook = @ \ {v}]
  <2>2. x \in Op /\ x.at = op[r].at
    BY OpTyped DEF Op
  <2>3. Become(r, x) /\ op[r].at = "unhook"
    BY <1>13 DEF Unhook, At
  <2> HIDE DEF x
  <2>4. \A s \in Runners : op'[s] = op[s] \/ op'[s].at = "unhook"
    BY <2>2, <2>3, Becoming DEF Typed, TypeOK
  <2> QED BY <2>1, <2>4, PathsSame DEF Sited
<1>14. CASE Finish(r)
  BY <1>14, UsersSame, PathsEnd DEF Finish
<1>15. CASE Drop(r)
  <2>1. ASSUME NEW v \in op[r].unhook, entry[v] \notin {Dir, User}, Put(v, Nothing) PROVE UsersStay
    <3>1. v \in VPaths /\ (entry[v] = Nothing \/ IsLink(entry[v]))
      BY <2>1, OpTyped DEF IsLink
    <3> QED BY <2>1, <3>1, UsersPut
  <2> QED BY <1>15, <2>1, UsersSame, PathsEnd DEF Drop
<1>16. CASE Cascade(r)
  BY <1>16, UsersSame, PathsGo DEF Cascade, Sited, Places
<1>17. CASE CascadeFails(r)
  BY <1>17, UsersSame, PathsEnd DEF CascadeFails
<1>18. CASE Reserve(r)
  <2>1. CASE row[op[r].owner] = NoRow \/ Reserved(op[r].owner, op[r].path)
    BY <1>18, <2>1, UsersSame, PathsEnd DEF Reserve, Refuse
  <2>2. CASE ~(row[op[r].owner] = NoRow \/ Reserved(op[r].owner, op[r].path))
    <3>1. op[r].owner \in Owners /\ op[r].path \in VPaths
      BY <1>18 DEF Reserve, Typed, ReservesPath
    <3>2. op'[r].path \in VPaths /\ \A s \in Runners \ {r} : op'[s] = op[s]
      BY <1>18, <2>2, <3>1, SetTyped DEF Reserve, SetsPath
    <3>3. UNCHANGED entry
      BY <1>18 DEF Reserve
    <3> QED BY <3>2, <3>3, UsersSame DEF UserOK, PathsStay, Sited
  <2> QED BY <2>1, <2>2
<1>19. CASE Queue(r) \/ QueueFails(r)
  BY <1>19, UsersSame, PathsEnd DEF Queue, QueueFails
<1>20. CASE Collect(r)
  <2>1. CASE Unmapped(r)
    BY <1>20, <2>1, UsersSame, PathsEnd DEF Collect
  <2>2. CASE ~Unmapped(r)
    <3>2. UNCHANGED entry
      BY <1>20 DEF Collect
    <3>4. \A s \in Runners : op'[s] = op[s] \/ op'[s].at = "refresh"
      BY <1>20, <2>2, CollectFields
    <3> QED BY <3>2, <3>4, UsersSame, PathsSame DEF Sited
  <2> QED BY <2>1, <2>2
<1>21. ASSUME NEW m \in Mapping, RefreshOne(r, m) PROVE UsersStay /\ PathsStay
  <2> DEFINE place == IF ~Reserved(m.owner, m.path) /\ Free(m.owner, m.path) THEN "create" ELSE op[r].at
             x == [op[r] EXCEPT !.todo = @ \ {m}, !.path = m.path, !.link = m.link, !.replace = TRUE, !.at = place]
  <2>1. Become(r, x) /\ UNCHANGED entry /\ op[r].at \in Places
    BY <1>21, OpTyped DEF RefreshOne
  <2>2. place \in Places /\ m.path \in VPaths /\ m.link \in Link
    BY <2>1 DEF Places, Mapping
  <2> HIDE DEF place
  <2>3. x \in Op /\ x.path = m.path
    <3>1. op[r] \in Op
      BY OpTyped
    <3> QED BY <2>2, <3>1 DEF Op, Places
  <2> HIDE DEF x
  <2>4. op'[r].path = m.path /\ \A s \in Runners \ {r} : op'[s] = op[s]
    BY <2>1, <2>3, Becoming DEF Typed, TypeOK
  <2> QED BY <2>1, <2>2, <2>4, UsersSame DEF UserOK, PathsStay, Sited
<1>22. CASE RefreshEnds(r)
  BY <1>22, UsersSame, PathsEnd DEF RefreshEnds
<1> QED
  BY <1>4, <1>5, <1>6, <1>7, <1>8, <1>9, <1>10, <1>11, <1>12, <1>13, <1>14, <1>15, <1>16, <1>17, <1>18, <1>19, <1>20,
     <1>21, <1>22 DEF Step

LEMMA UsersAsk == ASSUME Typed, UserOK, NEW r \in Runners, Ask(r) PROVE UsersStay /\ PathsStay
<1>1. UNCHANGED entry
  BY DEF Ask, FilePath, FolderPath, SetPath, RemovePath, DeleteFile, Untrack, Track, Refresh, Switch
<1>2. ASSUME NEW o \in Owners, NEW v \in VPaths, SetPath(r, o, v) PROVE PathsStay
  <2>1. op'[r].path = v /\ \A s \in Runners \ {r} : op'[s] = op[s]
    BY <1>2, SetTyped DEF SetPath, SetsPath
  <2> QED BY <2>1 DEF UserOK, PathsStay, Sited
<1>3. ASSUME NEW o \in Owners, RemovePath(r, o) PROVE PathsStay
  <2>1. \A s \in Runners : op'[s] = op[s] \/ op'[s].at = "unhook"
    BY <1>3, RemovePathFields DEF AsksFor
  <2> QED BY <2>1, PathsSame DEF Sited
<1>4. ASSUME NEW f \in Files, DeleteFile(r, f) PROVE PathsStay
  <2>1. \A s \in Runners : op'[s] = op[s] \/ op'[s].at = "drop"
    BY <1>4, DeleteFileFields DEF AsksFor
  <2> QED BY <2>1, PathsSame DEF Sited
<1>5. ASSUME NEW d \in Folders, Untrack(r, d) PROVE PathsStay
  <2>1. \A s \in Runners : op'[s] = op[s] \/ op'[s].at = "cascade"
    BY <1>5, UntrackFields DEF AsksFor
  <2> QED BY <2>1, PathsSame DEF Sited
<1>6. ASSUME NEW o \in Owners, Track(r, o) PROVE PathsStay
  <2>1. \A s \in Runners : op'[s] = op[s] \/ op'[s].at \in {"idle", "reserve"}
    <3>1. op'[r] = Idle => op'[r].at = "idle"
      BY DEF Idle
    <3>2. \A v \in VPaths : AsksFor(r, "reserve", o, v, TRUE, {}, {}) => op'[r].at = "reserve"
      BY DEF AsksFor
    <3> QED BY <1>6, <3>1, <3>2, TrackFields
  <2> QED BY <2>1, PathsSame DEF Sited
<1>7. ASSUME NEW of \in SUBSET (Pairs \X Drives), Refreshes(r, of) PROVE PathsStay
  <2>1. \A s \in Runners : op'[s] = op[s] \/ op'[s].at = "collect"
    BY <1>7, RefreshFields DEF Refreshes
  <2> QED BY <2>1, PathsSame DEF Sited
<1>8. ASSUME NEW p \in Pairs, Switch(r, p) PROVE PathsStay
  <2> DEFINE of == {<<p, pair[p][Opposite(pair[p].active)]>>}
  <2>1. pair[p] \in Pair /\ Refreshes(r, of)
    BY <1>8 DEF Switch, Typed, TypeOK
  <2>2. of \in SUBSET (Pairs \X Drives)
    BY <2>1 DEF Pair, Roles, Opposite
  <2> HIDE DEF of
  <2> QED BY <2>1, <2>2, <1>7
<1>9. CASE Refresh(r)
  <2>1. AllPairs \in SUBSET (Pairs \X Drives) /\ Refreshes(r, AllPairs)
    BY <1>9, PairsTyped DEF Refresh
  <2> QED BY <1>1, <1>7, <2>1, UsersSame
<1> QED
  BY <1>1, <1>2, <1>3, <1>4, <1>5, <1>6, <1>8, <1>9, UsersSame DEF Ask, FilePath, FolderPath, Owners

LEMMA UsersNext == ASSUME Typed, UserOK, [Next]_vars PROVE UserOK' /\ \A v \in VPaths : entry[v] = User => entry'[v] = User
<1> SUFFICES UsersStay /\ PathsStay
  BY DEF UserOK, UsersStay, PathsStay, Sited
<1>1. CASE UNCHANGED vars
  BY <1>1, UsersSame, PathsSame DEF vars
<1>2. ASSUME NEW r \in Runners, Start(r) PROVE UsersStay /\ PathsStay
  <2>1. UNCHANGED entry
    BY <1>2 DEF Start
  <2>2. \A s \in Runners : op'[s] = op[s] \/ op'[s].at \in {"idle", "collect"}
    <3>1. CASE AllPairs = {}
      BY <1>2, <3>1, IdleTyped, Becoming DEF Start, Typed, TypeOK, Idle
    <3>2. CASE AllPairs # {}
      BY <1>2, <3>2, RefreshFields, PairsTyped DEF Start
    <3> QED BY <3>1, <3>2
  <2> QED BY <2>1, <2>2, UsersSame, PathsSame DEF Sited
<1>3. CASE Administer
  BY <1>3, TypedAdminister, UsersSame, PathsSame
<1>4. CASE Kill
  <2>1. UNCHANGED entry /\ \A s \in Runners : op'[s].at = "idle"
    BY <1>4 DEF Kill, Idle
  <2> QED BY <2>1, UsersSame, PathsSame DEF Sited
<1>5. ASSUME NEW v \in VPaths, UserFile(v) PROVE UsersStay /\ PathsStay
  <2>1. entry[v] = Nothing /\ Put(v, User) /\ UNCHANGED op
    BY <1>5 DEF UserFile
  <2>2. \A u \in VPaths : Below(v, u) => entry[u] \in {Nothing, Dir}
    BY <1>5 DEF UserFile, Blocked, IsLink
  <2>3. UsersStay
    BY <2>1, <2>2, PutKeepsUsers DEF UsersStay
  <2> QED BY <2>1, <2>3, PathsSame
<1> QED
  BY <1>1, <1>2, <1>3, <1>4, <1>5, UsersStep, UsersAsk DEF Next

\* What a user has put at a virtual path is neither replaced nor removed, in whatever way
\* requests meet: every step that puts a link finds nothing or a link there, and what is
\* above a user's file is never taken for free.
THEOREM UserFilesKept == Spec => UserFilesStay
<1>1. Init => UserOK
  BY ValuesApart DEF Init, UserOK, Idle, ValuesApart
<1>2. Typed /\ UserOK /\ [Next]_vars => UserOK' /\ [\A v \in VPaths : entry[v] = User => entry'[v] = User]_vars
  BY UsersNext
<1> QED
  BY <1>1, <1>2, TypedInit, TypedNext, PTL DEF Spec, UserFilesStay
=============================================================================
