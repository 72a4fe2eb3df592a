---------------------------- MODULE VirtualPaths ----------------------------
(***************************************************************************)
(* Virtual paths: a tracked file or folder may have a path of its own in   *)
(* the file system, where a symbolic link leads to its data on the active  *)
(* drive (src/src/core/virtual_path.rs, its callers in tracker.rs,         *)
(* drive.rs, server.rs and the routes), with the administration of the     *)
(* drive pairs the links depend on (src/src/api/routes/drives.rs).         *)
(*                                                                         *)
(* A path is kept twice: in the row, and as a link.  No statement writes   *)
(* both, so every operation is a series of steps between which the process *)
(* can be killed and other requests run.  A path is a sequence of names.   *)
(***************************************************************************)
EXTENDS Naturals, Sequences, FiniteSets, SequencesExt

CONSTANTS
    Runners,      \* requests that are worked on at a time, numbered
    Files, Folders, Pairs, Drives,
    PairOf,       \* the drive pair of a file or folder
    Within,       \* the tracked folder a file is in and tracked through
    Name,         \* the name of a file in that folder
    VPaths,       \* paths that are asked for, with all that are above one
    FirstPairs,   \* the drive pairs at the start
    MaxRequests, MaxSwitches, MaxKills, MaxEdits, MaxUserFiles,
    NoRow, NoPath, NoPair, NoOwner,
    Nothing,      \* there is nothing at a path
    Dir,          \* a directory that was made for a link below it
    User,         \* a file of a user
    Allowed       \* what requests also meet, out of Freedoms

\* Two requests about one file, or a file and its folder, at a time; two requests
\* for nested paths, asked for or given up, at a time; a path set again by its owner
\* while another request asks for it; a folder moved below its own path; a refresh
\* beside requests; an active drive switched while another pair has virtual paths; a
\* path asked for below a link without a row; drives of a pair with paths edited.
Freedoms == {"same owner", "nested", "set again", "below own", "refresh beside", "two pairs",
             "below orphan", "edit mapped"}

Owners == Files \cup Folders

ASSUME PathsOK ==
    /\ Runners \subseteq Nat
    /\ Files \cap Folders = {}
    /\ PairOf \in [Owners -> Pairs]
    /\ Within \in [Files -> Folders \cup {NoOwner}]
    /\ DOMAIN Name = Files
    /\ \A f \in Files : Within[f] \in Folders =>
          /\ PairOf[f] = PairOf[Within[f]]
          /\ \A g \in Files \ {f} : Within[g] = Within[f] => Name[g] # Name[f]
    /\ VPaths \subseteq Seq(UNION {{v[n] : n \in 1..Len(v)} : v \in VPaths})
    /\ <<>> \notin VPaths
    /\ \A v \in VPaths : \A n \in 1..Len(v) : SubSeq(v, 1, n) \in VPaths
    /\ {MaxRequests, MaxSwitches, MaxKills, MaxEdits, MaxUserFiles} \subseteq Nat
    /\ Allowed \subseteq Freedoms

VARIABLES
    row,          \* the virtual path in the row of each file and folder
    entry,        \* what is at each path
    pair,         \* drive pairs
    op,           \* what each request does
    service,      \* whether the service takes requests
    requests, switches, kills, edits, userFiles      \* so far

counts == <<requests, switches, kills, edits, userFiles>>
vars == <<row, entry, pair, op, service, counts>>

Roles == {"primary", "secondary"}
Opposite(role) == IF role = "primary" THEN "secondary" ELSE "primary"
Pair == [primary : Drives, secondary : Drives, active : Roles]
Link == [to : Owners, on : Drives]
Mapping == [owner : Owners, path : VPaths, link : Link]

\* What stands for the absence of something is nothing else.
ASSUME ValuesApart ==
    /\ NoOwner \notin Owners /\ NoPair \notin Pair
    /\ {NoRow, NoPath} \cap VPaths = {} /\ NoRow # NoPath
    /\ {Nothing, Dir, User} \cap Link = {} /\ Nothing # Dir /\ Nothing # User /\ Dir # User
    /\ FirstPairs \in [Pairs -> Pair \cup {NoPair}]

Idle == [at |-> "idle", owner |-> NoOwner, path |-> NoPath, link |-> Nothing,
         replace |-> FALSE, fresh |-> FALSE, unhook |-> {}, files |-> {}, todo |-> {}, of |-> {}]
Op == [at : {"idle", "reserve", "look", "create", "relink", "write", "rollback", "queue",
             "unhook", "drop", "cascade", "collect", "refresh"},
       owner : Owners \cup {NoOwner}, path : VPaths \cup {NoPath},
       link : Link \cup {Nothing},
       replace : BOOLEAN,                  \* a link may be replaced
       fresh : BOOLEAN,                    \* the row was made by this request
       unhook : SUBSET VPaths,             \* links to remove
       files : SUBSET Files,               \* files of a folder that is untracked
       todo : SUBSET Mapping,              \* mappings to refresh
       of : SUBSET (Pairs \X Drives)]      \* pairs of a refresh, with their active drives

Init ==
    /\ row = [o \in Owners |-> IF FirstPairs[PairOf[o]] = NoPair THEN NoRow ELSE NoPath]
    /\ entry = [v \in VPaths |-> Nothing]
    /\ pair = FirstPairs
    /\ op = [r \in Runners |-> Idle]
    /\ service = "up"
    /\ requests = 0 /\ switches = 0 /\ kills = 0 /\ edits = 0 /\ userFiles = 0
-----------------------------------------------------------------------------
(* Helpers *)

At(r, place) == op[r].at = place
Resting == \A r \in Runners : At(r, "idle")
Become(r, o) == op' = [op EXCEPT ![r] = o]
Go(r, place) == Become(r, [op[r] EXCEPT !.at = place])
End(r) == Become(r, Idle)

HasPath(o) == row[o] \in VPaths
IsLink(x) == x \notin {Nothing, Dir, User}
Below(v, u) == IsStrictPrefix(u, v)
Overlap(u, v) == IsPrefix(u, v) \/ IsPrefix(v, u)
ActiveDrive(p) == pair[p][pair[p].active]
LinkOf(o) == [to |-> o, on |-> ActiveDrive(PairOf[o])]
Descendants(d) == {f \in Files : Within[f] = d /\ row[f] # NoRow}

\* The path at which the listings show an item: its own, or one below its folder's.
Effective(o) ==
    IF HasPath(o) THEN row[o]
    ELSE IF o \in Files /\ row[o] # NoRow /\ Within[o] # NoOwner /\ HasPath(Within[o]) THEN Append(row[Within[o]], Name[o])
    ELSE NoPath

\* list_virtual_path_tree_nodes: the names right below a path, and whether more is below.
Listed == {Effective(o) : o \in Owners} \ {NoPath}
TreeNodes(parent) ==
    LET below == {v \in Listed : IsStrictPrefix(parent, v)}
        next == Len(parent) + 1
    IN  {[path |-> SubSeq(v, 1, next), children |-> \E u \in below : Below(u, SubSeq(v, 1, next))] :
            v \in below}

\* What a path leads to.
Resolve(v) ==
    LET at(n) == IF SubSeq(v, 1, n) \in VPaths THEN entry[SubSeq(v, 1, n)] ELSE Nothing
    IN  IF IsLink(at(Len(v))) THEN at(Len(v))
        ELSE IF Len(v) > 1 /\ IsLink(at(Len(v) - 1))
             THEN LET up == at(Len(v) - 1)
                      in == {f \in Files : Within[f] = up.to /\ Name[f] = v[Len(v)]}
                  IN  IF in = {} THEN Nothing ELSE [to |-> CHOOSE f \in in : TRUE, on |-> up.on]
        ELSE Nothing

\* A link to a file, or a user's file, is no directory; a file seen through the link
\* of its folder is there and is no link.
Blocked(v) ==
    \/ \E u \in VPaths : Below(v, u) /\ (entry[u] = User \/ (IsLink(entry[u]) /\ entry[u].to \in Files))
    \/ entry[v] = Nothing /\ Resolve(v) # Nothing

\* A link put or taken away at a path takes away what was seen through it.
Put(v, x) ==
    entry' = [u \in VPaths |->
        IF u = v THEN x
        ELSE IF Below(u, v) /\ (IsLink(entry[v]) \/ IsLink(x)) THEN Nothing
        ELSE IF Below(v, u) /\ entry[u] = Nothing /\ x # Nothing THEN Dir
        ELSE entry[u]]
-----------------------------------------------------------------------------
(* Which requests run side by side *)

Family(o) == {q \in Owners : q = o \/ (q \in Files /\ Within[q] = o) \/ (o \in Files /\ Within[o] = q)}
Refreshing(r) == op[r].at \in {"collect", "refresh"} \/ op[r].of # {}
Beside(o) ==
    /\ "same owner" \in Allowed \/ \A r \in Runners : op[r].owner \notin Family(o)
    /\ "refresh beside" \in Allowed \/ \A r \in Runners : ~Refreshing(r)
Orphan(v) == IsLink(entry[v]) /\ \A o \in Owners : row[o] # v
Apart(v) ==
    "nested" \in Allowed
    \/ \A r \in Runners : \A u \in {op[r].path} \cup op[r].unhook :
          u \in VPaths => u = v \/ ~Overlap(u, v)
Asked(v) ==
    /\ Apart(v)
    /\ "below orphan" \in Allowed \/ \A u \in VPaths : Below(v, u) => ~Orphan(u)
Leaves(o) == HasPath(o) => Apart(row[o])

\* A request goes to the first runner that has nothing to do.
Takes(r) == service = "up" /\ At(r, "idle") /\ \A q \in Runners : q < r => ~At(q, "idle")

Request(r) ==
    /\ Takes(r)
    /\ requests < MaxRequests
    /\ requests' = requests + 1
    /\ UNCHANGED <<switches, kills, edits, userFiles>>
-----------------------------------------------------------------------------
(* Setting a path: set_virtual_path, set_folder_virtual_path *)

\* Mutant: paths above and below are not looked at.
ReservedExact(o, v) == \E q \in Owners \ {o} : HasPath(q) /\ row[q] = v
\* validate_virtual_path, the rows: nobody else has the path, one above or below.
Reserved(o, v) == \E q \in Owners \ {o} : HasPath(q) /\ Overlap(row[q], v)

Set(r, o, v, fresh) ==
    Become(r, [Idle EXCEPT !.at = "look", !.owner = o, !.path = v, !.link = LinkOf(o),
                           !.replace = row[o] = v, !.fresh = fresh,
                           !.unhook = IF HasPath(o) /\ row[o] # v THEN {row[o]} ELSE {}])

SetPath(r, o, v) ==
    /\ Request(r) /\ Beside(o) /\ Asked(v) /\ Leaves(o)
    /\ row[o] # NoRow
    /\ "set again" \in Allowed \/ row[o] # v \/ \A q \in Runners : op[q].path # v
    /\ "below own" \in Allowed \/ ~(HasPath(o) /\ Below(v, row[o]))
    /\ ~Reserved(o, v)
    /\ Set(r, o, v, FALSE)
    /\ UNCHANGED <<row, entry, pair, service>>

\* A request that is refused takes back the row it has made.
Refuse(r) ==
    /\ row' = IF op[r].fresh THEN [row EXCEPT ![op[r].owner] = NoRow] ELSE row
    /\ End(r)

\* validate_virtual_path, the file system.
Free(o, v) == ~Blocked(v) /\ (entry[v] = Nothing \/ (IsLink(entry[v]) /\ row[o] = v))

Look(r) ==
    /\ At(r, "look")
    /\ Free(op[r].owner, op[r].path)
    /\ Go(r, "create")
    /\ UNCHANGED <<row, entry, pair, service, counts>>

LookRefused(r) ==
    /\ At(r, "look")
    /\ ~Free(op[r].owner, op[r].path)
    /\ Refuse(r)
    /\ UNCHANGED <<entry, pair, service, counts>>

Vacant(v) == ~Blocked(v) /\ entry[v] = Nothing
Replaceable(r) == op[r].replace /\ ~Blocked(op[r].path) /\ IsLink(entry[op[r].path])

\* What follows a link that was made: a refresh goes on with the next one.
Made(r) == IF op[r].of # {} THEN "refresh" ELSE "write"
NotMade(r) == IF op[r].of # {} THEN Go(r, "refresh") /\ UNCHANGED row ELSE Refuse(r)

\* Mutant: whatever is at the path is replaced.
CreateAlways(r) ==
    /\ At(r, "create")
    /\ Put(op[r].path, op[r].link)
    /\ Go(r, Made(r))
    /\ UNCHANGED <<row, pair, service, counts>>
\* create_symlink where nothing is there.
Create(r) ==
    /\ At(r, "create")
    /\ Vacant(op[r].path)
    /\ Put(op[r].path, op[r].link)
    /\ Go(r, Made(r))
    /\ UNCHANGED <<row, pair, service, counts>>

\* create_symlink over a link it may replace: the old one is removed first.
CreateOver(r) ==
    /\ At(r, "create")
    /\ Replaceable(r)
    /\ Put(op[r].path, Nothing)
    /\ Go(r, "relink")
    /\ UNCHANGED <<row, pair, service, counts>>

Relink(r) ==
    /\ At(r, "relink")
    /\ IF entry[op[r].path] = Nothing
       THEN Put(op[r].path, op[r].link) /\ Go(r, Made(r)) /\ UNCHANGED row
       ELSE UNCHANGED entry /\ NotMade(r)
    /\ UNCHANGED <<pair, service, counts>>

\* Another request has the path by now.
CreateRefused(r) ==
    /\ At(r, "create")
    /\ ~Vacant(op[r].path) /\ ~Replaceable(r)
    /\ NotMade(r)
    /\ UNCHANGED <<entry, pair, service, counts>>

\* The row; the link of the path that was given up is removed next.
Write(r) ==
    /\ At(r, "write")
    /\ row' = IF row[op[r].owner] = NoRow THEN row
              ELSE [row EXCEPT ![op[r].owner] = op[r].path]
    /\ Go(r, IF op[r].fresh THEN "queue" ELSE "unhook")
    /\ UNCHANGED <<entry, pair, service, counts>>

\* The statement fails: the new link is removed.
WriteFails(r) ==
    /\ At(r, "write")
    /\ IF op[r].replace THEN Refuse(r) ELSE Go(r, "rollback") /\ UNCHANGED row
    /\ UNCHANGED <<entry, pair, service, counts>>

Rollback(r) ==
    /\ At(r, "rollback")
    /\ IF IsLink(entry[op[r].path]) THEN Put(op[r].path, Nothing) ELSE UNCHANGED entry
    /\ Refuse(r)
    /\ UNCHANGED <<pair, service, counts>>

\* remove_symlink: what is not a link is left.
Unhook(r, v) ==
    /\ At(r, "unhook")
    /\ v \in op[r].unhook
    /\ IF IsLink(entry[v]) THEN Put(v, Nothing) ELSE UNCHANGED entry
    /\ Become(r, [op[r] EXCEPT !.unhook = @ \ {v}])
    /\ UNCHANGED <<row, pair, service, counts>>

Finish(r) ==
    /\ At(r, "unhook")
    /\ op[r].unhook = {}
    /\ End(r)
    /\ UNCHANGED <<row, entry, pair, service, counts>>
-----------------------------------------------------------------------------
(* Removing a path: remove_virtual_path, remove_folder_virtual_path, delete_file *)

\* The row is cleared first.
RemovePath(r, o) ==
    /\ Request(r) /\ Beside(o) /\ Leaves(o)
    /\ HasPath(o)
    /\ row' = [row EXCEPT ![o] = NoPath]
    /\ Become(r, [Idle EXCEPT !.at = "unhook", !.owner = o, !.unhook = {row[o]}])
    /\ UNCHANGED <<entry, pair, service>>

\* A file is untracked: its path first, its row last.
DeleteFile(r, f) ==
    /\ Request(r) /\ Beside(f) /\ Leaves(f)
    /\ row[f] # NoRow
    /\ row' = [row EXCEPT ![f] = NoPath]
    /\ Become(r, [Idle EXCEPT !.at = "drop", !.owner = f,
                              !.unhook = IF HasPath(f) THEN {row[f]} ELSE {}])
    /\ UNCHANGED <<entry, pair, service>>

\* What is at the path is not a link: the file stays tracked.
Drop(r) ==
    /\ At(r, "drop")
    /\ IF \E v \in op[r].unhook : entry[v] \in {Dir, User} THEN UNCHANGED <<row, entry>>
       ELSE /\ IF op[r].unhook = {} THEN UNCHANGED entry
               ELSE \E v \in op[r].unhook : Put(v, Nothing)
            /\ row' = [row EXCEPT ![op[r].owner] = NoRow]
    /\ End(r)
    /\ UNCHANGED <<pair, service, counts>>

\* untrack_folder_cascade: the paths are read, ...
Untrack(r, d) ==
    /\ Request(r) /\ Beside(d) /\ \A o \in Descendants(d) \cup {d} : Leaves(o)
    /\ row[d] # NoRow
    /\ Become(r, [Idle EXCEPT !.at = "cascade", !.owner = d, !.files = Descendants(d),
                    !.unhook = {row[o] : o \in {q \in Descendants(d) \cup {d} : HasPath(q)}}])
    /\ UNCHANGED <<row, entry, pair, service>>

\* ... the rows deleted in one transaction, and then the links.
Cascade(r) ==
    /\ At(r, "cascade")
    /\ row' = [o \in Owners |-> IF o \in op[r].files \cup {op[r].owner} THEN NoRow ELSE row[o]]
    /\ Go(r, "unhook")
    /\ UNCHANGED <<entry, pair, service, counts>>

CascadeFails(r) ==
    /\ At(r, "cascade")
    /\ End(r)
    /\ UNCHANGED <<row, entry, pair, service, counts>>
-----------------------------------------------------------------------------
(* Tracking with a path: track_file, track_folder_with_options *)

Track(r, o) ==
    /\ Request(r) /\ Beside(o)
    /\ row[o] = NoRow /\ pair[PairOf[o]] # NoPair
    /\ row' = [row EXCEPT ![o] = NoPath]
    /\ UNCHANGED <<entry, pair, service>>
    /\ \/ Become(r, Idle)
       \/ \E v \in VPaths : /\ Asked(v)
                            /\ Become(r, [Idle EXCEPT !.at = "reserve", !.owner = o, !.path = v,
                                                      !.fresh = TRUE])

Reserve(r) ==
    /\ At(r, "reserve")
    /\ IF row[op[r].owner] = NoRow \/ Reserved(op[r].owner, op[r].path) THEN Refuse(r)
       ELSE Set(r, op[r].owner, op[r].path, TRUE) /\ UNCHANGED row
    /\ UNCHANGED <<entry, pair, service, counts>>

\* The checksum file beside a new file is in order, or its mismatch is queued.
Queue(r) ==
    /\ At(r, "queue")
    /\ End(r)
    /\ UNCHANGED <<row, entry, pair, service, counts>>

\* The mismatch cannot be queued: the row is taken back, and the link stays.
QueueFails(r) ==
    /\ At(r, "queue")
    /\ op[r].owner \in Files
    /\ row' = [row EXCEPT ![op[r].owner] = NoRow]
    /\ End(r)
    /\ UNCHANGED <<entry, pair, service, counts>>
-----------------------------------------------------------------------------
(* Refreshing links: refresh_all_virtual_paths *)

AllPairs == {<<p, ActiveDrive(p)>> : p \in {q \in Pairs : pair[q] # NoPair}}
Refreshes(r, of) == Become(r, [Idle EXCEPT !.at = "collect", !.of = of])

\* The command, over all pairs.
Refresh(r) ==
    /\ Request(r)
    /\ AllPairs # {}
    /\ "refresh beside" \in Allowed \/ Resting
    /\ Refreshes(r, AllPairs)
    /\ UNCHANGED <<row, entry, pair, service>>

\* Mutant: the role is switched without a refresh of the links.
SwitchOnly(r, p) ==
    /\ Takes(r) /\ Resting
    /\ switches < MaxSwitches /\ switches' = switches + 1
    /\ pair[p] # NoPair
    /\ pair' = [pair EXCEPT ![p].active = Opposite(@)]
    /\ UNCHANGED <<row, entry, op, service, requests, kills, edits, userFiles>>
\* A failover, a confirmed failure or a completed rebuild: a refresh follows with a
\* map of this one pair.
Switch(r, p) ==
    /\ Takes(r)
    /\ "refresh beside" \in Allowed \/ Resting
    /\ "two pairs" \in Allowed \/ \A o \in Owners : HasPath(o) => PairOf[o] = p
    /\ switches < MaxSwitches /\ switches' = switches + 1
    /\ pair[p] # NoPair
    /\ pair' = [pair EXCEPT ![p].active = Opposite(@)]
    /\ Refreshes(r, {<<p, pair[p][Opposite(pair[p].active)]>>})
    /\ UNCHANGED <<row, entry, service, requests, kills, edits, userFiles>>

\* One item of a pair that is not in the map ends the refresh.
Unmapped(r) == \E o \in Owners : HasPath(o) /\ \A x \in op[r].of : x[1] # PairOf[o]
Mappings(r) ==
    {[owner |-> o, path |-> row[o],
      link |-> [to |-> o, on |-> (CHOOSE x \in op[r].of : x[1] = PairOf[o])[2]]] :
        o \in {q \in Owners : HasPath(q)}}

Up == IF service = "starting" THEN "up" ELSE service
Collect(r) ==
    /\ At(r, "collect")
    /\ IF Unmapped(r) THEN End(r) /\ service' = Up
       ELSE /\ Become(r, [op[r] EXCEPT !.at = "refresh", !.todo = Mappings(r)])
            /\ UNCHANGED service
    /\ UNCHANGED <<row, entry, pair, counts>>

\* A mapping that is not valid any more is skipped.
RefreshOne(r, m) ==
    /\ At(r, "refresh")
    /\ m \in op[r].todo
    /\ Become(r, [op[r] EXCEPT
         !.todo = @ \ {m}, !.path = m.path, !.link = m.link, !.replace = TRUE,
         !.at = IF ~Reserved(m.owner, m.path) /\ Free(m.owner, m.path) THEN "create" ELSE @])
    /\ UNCHANGED <<row, entry, pair, service, counts>>

RefreshEnds(r) ==
    /\ At(r, "refresh")
    /\ op[r].todo = {}
    /\ End(r)
    /\ service' = Up
    /\ UNCHANGED <<row, entry, pair, counts>>

\* The service is killed with all its requests, and refreshes the links when it starts.
Kill ==
    /\ service # "down"
    /\ kills < MaxKills /\ kills' = kills + 1
    /\ service' = "down"
    /\ op' = [r \in Runners |-> Idle]
    /\ UNCHANGED <<row, entry, pair, requests, switches, edits, userFiles>>

\* Mutant: nothing is refreshed at the start.
StartUnrefreshed(r) ==
    /\ service = "down" /\ \A q \in Runners : r <= q
    /\ service' = "up"
    /\ UNCHANGED <<row, entry, pair, op, counts>>
Start(r) ==
    /\ service = "down" /\ \A q \in Runners : r <= q
    /\ service' = IF AllPairs = {} THEN "up" ELSE "starting"
    /\ Become(r, IF AllPairs = {} THEN Idle ELSE [Idle EXCEPT !.at = "collect", !.of = AllPairs])
    /\ UNCHANGED <<row, entry, pair, counts>>
-----------------------------------------------------------------------------
(* Drive pairs *)

Edit == edits < MaxEdits /\ edits' = edits + 1 /\ service = "up"
        /\ UNCHANGED <<row, entry, op, service, requests, switches, kills, userFiles>>

\* The triggers of drive_pairs look at new rows.
CreatePair(p, d, e) ==
    /\ Edit
    /\ pair[p] = NoPair
    /\ d # e
    /\ \A q \in Pairs : pair[q] # NoPair => {d, e} \cap {pair[q].primary, pair[q].secondary} = {}
    /\ pair' = [pair EXCEPT ![p] = [primary |-> d, secondary |-> e, active |-> "primary"]]

\* Any path is taken, and no link is refreshed.
UpdatePair(p, role, d) ==
    /\ Edit
    /\ pair[p] # NoPair
    /\ \/ "edit mapped" \in Allowed
       \/ Resting /\ \A o \in Owners : PairOf[o] = p => ~HasPath(o)
    /\ pair' = [pair EXCEPT ![p][role] = d]

\* Files are counted; a folder's row is a foreign key.
DeletePair(p) ==
    /\ Edit
    /\ pair[p] # NoPair
    /\ \A o \in Owners : PairOf[o] = p => row[o] = NoRow
    /\ pair' = [pair EXCEPT ![p] = NoPair]

\* A user makes a file at a path that is not assigned, and not on a drive.
UserFile(v) ==
    /\ userFiles < MaxUserFiles /\ userFiles' = userFiles + 1
    /\ entry[v] = Nothing /\ ~Blocked(v)
    /\ \A u \in VPaths : Below(v, u) => ~IsLink(entry[u])
    /\ \A o \in Owners : HasPath(o) => ~Overlap(row[o], v)
    /\ Put(v, User)
    /\ UNCHANGED <<row, pair, op, service, requests, switches, kills, edits>>
-----------------------------------------------------------------------------
Step(r) ==
    \/ Look(r) \/ LookRefused(r)
    \/ Create(r) \/ CreateOver(r) \/ Relink(r) \/ CreateRefused(r)
    \/ Write(r) \/ WriteFails(r) \/ Rollback(r)
    \/ \E v \in VPaths : Unhook(r, v)
    \/ Finish(r) \/ Drop(r) \/ Cascade(r) \/ CascadeFails(r)
    \/ Reserve(r) \/ Queue(r) \/ QueueFails(r)
    \/ Collect(r) \/ (\E m \in Mapping : RefreshOne(r, m)) \/ RefreshEnds(r)

\* A file's path is set and removed by a request or a command, a folder's by a request.
FilePath(r, f) == RemovePath(r, f) \/ \E v \in VPaths : SetPath(r, f, v)
FolderPath(r, d) == RemovePath(r, d) \/ \E v \in VPaths : SetPath(r, d, v)

Ask(r) ==
    \/ \E f \in Files : FilePath(r, f) \/ DeleteFile(r, f)
    \/ \E d \in Folders : FolderPath(r, d) \/ Untrack(r, d)
    \/ \E o \in Owners : Track(r, o)
    \/ Refresh(r)
    \/ \E p \in Pairs : Switch(r, p)

Administer ==
    \E p \in Pairs : \/ \E d, e \in Drives : CreatePair(p, d, e)
                     \/ \E role \in Roles, d \in Drives : UpdatePair(p, role, d)
                     \/ DeletePair(p)

Next ==
    \/ \E r \in Runners : Ask(r) \/ Step(r) \/ Start(r)
    \/ Administer \/ Kill
    \/ \E v \in VPaths : UserFile(v)

Spec == Init /\ [][Next]_vars

\* A request that was taken goes on, and systemd starts the service again.
FairSpec ==
    /\ Spec
    /\ \A r \in Runners : WF_vars(Step(r))
    /\ WF_vars(\E r \in Runners : Start(r))
-----------------------------------------------------------------------------
(* Properties *)

TypeOK ==
    /\ row \in [Owners -> VPaths \cup {NoRow, NoPath}]
    /\ entry \in [VPaths -> Link \cup {Nothing, Dir, User}]
    /\ pair \in [Pairs -> Pair \cup {NoPair}]
    /\ op \in [Runners -> Op]
    /\ service \in {"up", "down", "starting"}
    /\ requests \in 0..MaxRequests /\ switches \in 0..MaxSwitches /\ kills \in 0..MaxKills
    /\ edits \in 0..MaxEdits /\ userFiles \in 0..MaxUserFiles

Settled(o) ==
    /\ service = "up"
    /\ \A r \in Runners : ~Refreshing(r) /\ op[r].owner \notin Family(o)

\* Every path the listings show for an item leads to it, on the active drive of its
\* pair, also after kills and switches of the active drive; and who goes down the tree
\* of virtual paths arrives somewhere.
ListedResolves ==
    /\ \A o \in Owners : Settled(o) /\ Effective(o) # NoPath => Resolve(Effective(o)) = LinkOf(o)
    /\ (\A o \in Owners : Settled(o)) =>
          \A parent \in {<<>>} \cup VPaths : \A n \in TreeNodes(parent) :
             n.children \/ Resolve(n.path) # Nothing

\* No two items have one path, or one below the other's, whatever requests ran
\* side by side; what is tracked has a pair.
PathsApart ==
    /\ \A o, q \in Owners : o # q /\ HasPath(o) /\ HasPath(q) => ~Overlap(row[o], row[q])
    /\ \A o \in Owners : row[o] # NoRow => pair[PairOf[o]] # NoPair

\* No link is made below another one, which would be a link on a drive.
NoLinkOnDrive == \A u, v \in VPaths : Below(v, u) => ~(IsLink(entry[u]) /\ IsLink(entry[v]))

\* What a user has put at a virtual path is neither replaced nor removed.
UserFilesStay == [][\A v \in VPaths : entry[v] = User => entry'[v] = User]_vars

\* A path whose link is stale or missing, because a process was killed or drives
\* were switched, is right again in the end.
LinksRestored ==
    \A o \in Owners : []<>(HasPath(o) => entry[row[o]] = LinkOf(o))

\* src/docs/CONFIGURATION.md:209: at the virtual path of an item there is its link.
LinkAtPath == \A o \in Owners : Settled(o) /\ HasPath(o) => entry[row[o]] = LinkOf(o)

\* No link is on a drive or below another item's: src/src/core/virtual_path.rs:243-266.
LinksApart == TypeOK /\ PathsApart /\ NoLinkOnDrive
=============================================================================
