--------------------------- MODULE SyncEventsProofs ---------------------------
(***************************************************************************)
(* What the pages of users show, for any number of them, of handlers and   *)
(* of drains, of writes and of summaries that a stream keeps: although a   *)
(* summary is read while others write, is sent after later writes, and     *)
(* meets a stream that is just being opened or has lost what it was sent.  *)
(***************************************************************************)
EXTENDS SyncEvents, TLAPS

(* The invariants *)

Publishers == Actors \ Clients

\* A page that shows something is not reading its first summary, and a worker that
\* rests has none on its way.
Settled ==
    /\ \A c \in Clients : shown[c] # Closed => ~Busy(c)
    /\ \A w \in Workers : worker[w] = "no" => ~Busy(w)

TInv == TypeOK /\ Settled

\* Snapshots are numbered and sent one after the other, in the order they began.
OrderKept ==
    /\ \A a \in Actors : ahead[a] \subseteq Waiting
    /\ \A a \in Actors : a \notin Waiting => ahead[a] = {}
    /\ \A a, b \in Waiting : a # b => a \in ahead[b] \/ b \in ahead[a]
    /\ \A a \in Publishers : snap[a].at = "send" => ahead[a] = {}

\* The last number drawn is that of the summary to be sent next.
Numbered ==
    /\ \A a \in Actors : snap[a].at = "send" => snap[a].rev <= revision
    /\ \A a \in Publishers : snap[a].at = "send" => snap[a].rev = revision
    /\ \A c \in Clients : \A i \in DOMAIN inbox[c] : inbox[c][i].rev <= revision
    /\ \A c \in Clients : first[c] <= revision /\ (shown[c] # Closed => shown[c].rev <= revision)

Queue(s) == s.seen["queue"]

\* What pages have got is from before v.
Since(v) ==
    \A c \in Clients :
        /\ \A i \in DOMAIN inbox[c] : Queue(inbox[c][i]) <= v
        /\ shown[c] # Closed => Queue(shown[c]) <= v
        /\ snap[c].at = "send" => Queue(snap[c]) <= v

\* Who began to read later has read a later queue.
ReadInOrder ==
    /\ Since(db["queue"])
    /\ \A a \in Waiting : Queue(snap[a]) <= db["queue"] /\ Since(Queue(snap[a]))
    /\ \A a \in Actors : \A b \in ahead[a] : Queue(snap[b]) <= Queue(snap[a])

\* A stream has summaries in the order of their numbers, none from before the one shown
\* but those it passes over.
NotBefore(s, rev, v) == s.rev >= rev => Queue(s) >= v
StreamsInOrder ==
    \A c \in Clients :
        /\ \A i, j \in DOMAIN inbox[c] : i <= j =>
              inbox[c][i].rev <= inbox[c][j].rev /\ Queue(inbox[c][i]) <= Queue(inbox[c][j])
        /\ snap[c].at = "send" =>
              \A i \in DOMAIN inbox[c] : NotBefore(inbox[c][i], snap[c].rev, Queue(snap[c]))
        /\ shown[c] # Closed => \A i \in DOMAIN inbox[c] :
              inbox[c][i].rev >= first[c] =>
                  inbox[c][i].rev >= shown[c].rev /\ Queue(inbox[c][i]) >= Queue(shown[c])

SInv == TInv /\ OrderKept /\ Numbered /\ ReadInOrder /\ StreamsInOrder

\* Only one drain goes on, and the flag is that of it.
OneDrain ==
    /\ active = Draining
    /\ \A w, x \in Workers :
          worker[w] \in {"first", "drain"} /\ worker[x] \in {"first", "drain"} => w = x

\* A summary has all that is owed; one that is being read has what it has read.
Covers(s) == \A t \in Tables : s.seen[t] >= owed[t]
Whole(s) == Queue(s) >= owed["queue"] /\ (s.at # "rest" => s.seen["rest"] >= owed["rest"])

Starting == \E a \in Publishers : snap[a].at = "begin"
Later(a) == \E b \in Publishers : a \in ahead[b]
Publishing == \E a \in Publishers : Busy(a)

\* A snapshot that lacks what is owed is followed by another.
OwedFollows == \A a \in Waiting : Whole(snap[a]) \/ Starting \/ Later(a)

\* The last summary of a stream has all, or what the page shows, if it is passed over.
LastOf(s) == s[Len(s)]
Current(s) == Covers(s) /\ s.active = active
Ends(c, rev, good) ==
    IF inbox[c] # <<>> /\ LastOf(inbox[c]).rev >= rev THEN Current(LastOf(inbox[c])) ELSE good
StreamsEnd ==
    Publishing \/ \A c \in Clients :
        /\ snap[c].at = "send" => Ends(c, snap[c].rev, Covers(snap[c]))
        /\ shown[c] # Closed => Ends(c, first[c], Current(shown[c]))

\* What is owed has been written.
Owing == \A t \in Tables : owed[t] <= db[t]

CInv == SInv /\ OneDrain /\ Owing /\ OwedFollows /\ StreamsEnd
-----------------------------------------------------------------------------
(* Steps *)

LEMMA SnapFacts ==
    /\ \A x \in Snap : /\ x.seen \in Versions /\ x.rev \in Nat
                       /\ x.seen["queue"] \in Nat /\ x.seen["rest"] \in Nat
    /\ \A v \in Versions : v["queue"] \in 0..MaxWrites /\ v["rest"] \in 0..MaxWrites
    /\ NoSnap \in Snap /\ NoSnap.at = "no"
    /\ Begin \in Snap /\ Begin.at = "begin"
    /\ MaxWrites \in Nat /\ Zero \in Versions
<1>1. MaxWrites \in Nat
  BY SyncEventsOK
<1>2. Zero \in Versions
  BY <1>1 DEF Zero, Versions
<1>3. NoSnap \in Snap /\ NoSnap.at = "no"
  BY <1>2 DEF NoSnap, Snap
<1>4. Begin \in Snap /\ Begin.at = "begin"
  BY <1>2 DEF Begin, NoSnap, Snap
<1> QED
  BY <1>1, <1>2, <1>3, <1>4 DEF Snap, Versions, Tables

LEMMA ActorFacts ==
    /\ Handlers \subseteq Publishers /\ Workers \subseteq Publishers
    /\ Clients \subseteq Actors /\ Publishers \subseteq Actors
    /\ Clients \cap Publishers = {} /\ Actors = Clients \cup Publishers
BY SyncEventsOK DEF Actors, Publishers

LEMMA WaitingFacts ==
    /\ \A a \in Actors : a \in Waiting <=>
          snap[a].at \in {"rest", "number"} \/ (a \in Publishers /\ snap[a].at = "send")
    /\ \A a \in Actors : a \in Waiting' <=>
          snap'[a].at \in {"rest", "number"} \/ (a \in Publishers /\ snap'[a].at = "send")
    /\ Waiting \subseteq Actors /\ Waiting' \subseteq Actors
BY DEF Waiting, Publishers

LEMMA TypedFacts ==
    ASSUME TypeOK
    PROVE  /\ db \in Versions /\ owed \in Versions
           /\ snap \in [Actors -> Snap] /\ ahead \in [Actors -> SUBSET Actors]
           /\ inbox \in [Clients -> Seq(Summary)] /\ first \in [Clients -> Nat]
           /\ shown \in [Clients -> Summary \cup {Closed}]
           /\ worker \in [Workers -> {"no", "first", "drain", "last"}]
           /\ \A a \in Actors : SummaryOf(a) \in Summary
BY DEF TypeOK, SummaryOf, Summary, Snap

LEMMA ResultFacts ==
    ASSUME TypeOK, NEW t \in Tables, NEW v \in Result(t)
    PROVE  v \in 0..MaxWrites /\ ("query fails" \notin Allowed => v = db[t])
<1>1. db[t] \in 0..MaxWrites /\ 0 \in 0..MaxWrites
  BY SnapFacts DEF TypeOK, Versions
<1>2. v = db[t] \/ (v = 0 /\ "query fails" \in Allowed)
  BY DEF Result
<1> QED
  BY <1>1, <1>2

\* One snapshot is at another place.
Changed(a) ==
    /\ snap' \in [Actors -> Snap]
    /\ \A b \in Actors \ {a} : snap'[b] = snap[b]

LEMMA ChangedTo ==
    ASSUME TypeOK, NEW a \in Actors, NEW r \in Snap, snap' = [snap EXCEPT ![a] = r]
    PROVE  Changed(a) /\ snap'[a] = r
BY DEF Changed, TypeOK

ReadsQueue(a) ==
    /\ Changed(a)
    /\ snap[a].at = "begin" /\ snap'[a].at = "rest"
    /\ "query fails" \notin Allowed => Queue(snap'[a]) = db["queue"]
    /\ ahead' = [ahead EXCEPT ![a] = Waiting]
    /\ UNCHANGED <<db, owed, active, revision, worker, inbox, first, shown, drains, opens>>

LEMMA ReadQueueFacts ==
    ASSUME TypeOK, NEW a \in Actors, ReadQueue(a)
    PROVE  ReadsQueue(a)
<1>1. PICK v \in Result("queue") :
         snap' = [snap EXCEPT ![a].at = "rest", ![a].seen["queue"] = v]
  BY DEF ReadQueue
<1> DEFINE r == [snap[a] EXCEPT !.at = "rest", !.seen = [snap[a].seen EXCEPT !["queue"] = v]]
<1>2. snap' = [snap EXCEPT ![a] = r]
  BY <1>1
<1>3. snap[a] \in Snap /\ snap[a].seen \in Versions
  BY SnapFacts DEF TypeOK
<1>4. v \in 0..MaxWrites /\ ("query fails" \notin Allowed => v = db["queue"])
  BY ResultFacts DEF Tables
<1>5. [snap[a].seen EXCEPT !["queue"] = v] \in Versions
      /\ [snap[a].seen EXCEPT !["queue"] = v]["queue"] = v
  BY <1>3, <1>4 DEF Versions, Tables
<1>6. r \in Snap /\ r.at = "rest" /\ r.seen["queue"] = v
  BY <1>3, <1>5 DEF Snap
<1> HIDE DEF r
<1>7. Changed(a) /\ snap'[a] = r
  BY <1>2, <1>6, ChangedTo
<1> QED
  BY <1>4, <1>6, <1>7 DEF ReadsQueue, ReadQueue, Queue

ReadsRest(a) ==
    /\ Changed(a)
    /\ snap[a].at = "rest" /\ snap'[a].at = "number"
    /\ Queue(snap'[a]) = Queue(snap[a])
    /\ "query fails" \notin Allowed => snap'[a].seen["rest"] = db["rest"]
    /\ UNCHANGED <<db, owed, active, revision, ahead, worker, inbox, first, shown, drains, opens>>

LEMMA ReadRestFacts ==
    ASSUME TypeOK, NEW a \in Actors, ReadRest(a)
    PROVE  ReadsRest(a)
<1>1. PICK v \in Result("rest") :
         snap' = [snap EXCEPT ![a].at = "number", ![a].seen["rest"] = v]
  BY DEF ReadRest
<1> DEFINE r == [snap[a] EXCEPT !.at = "number", !.seen = [snap[a].seen EXCEPT !["rest"] = v]]
<1>2. snap' = [snap EXCEPT ![a] = r]
  BY <1>1
<1>3. snap[a] \in Snap /\ snap[a].seen \in Versions
  BY SnapFacts DEF TypeOK
<1>4. v \in 0..MaxWrites /\ ("query fails" \notin Allowed => v = db["rest"])
  BY ResultFacts DEF Tables
<1>5. /\ [snap[a].seen EXCEPT !["rest"] = v] \in Versions
      /\ [snap[a].seen EXCEPT !["rest"] = v]["rest"] = v
      /\ [snap[a].seen EXCEPT !["rest"] = v]["queue"] = snap[a].seen["queue"]
  BY <1>3, <1>4 DEF Versions, Tables
<1>6. /\ r \in Snap /\ r.at = "number" /\ r.seen["rest"] = v
      /\ r.seen["queue"] = snap[a].seen["queue"]
  BY <1>3, <1>5 DEF Snap
<1> HIDE DEF r
<1>7. Changed(a) /\ snap'[a] = r
  BY <1>2, <1>6, ChangedTo
<1> QED
  BY <1>4, <1>6, <1>7 DEF ReadsRest, ReadRest, Queue

Numbers(a) ==
    /\ Changed(a)
    /\ snap[a].at = "number" /\ snap'[a].at = "send"
    /\ snap'[a].seen = snap[a].seen /\ snap'[a].rev = revision + 1
    /\ revision' = revision + 1
    /\ InTurn(a)
    /\ IF a \in Clients THEN Leave(a) ELSE UNCHANGED ahead
    /\ UNCHANGED <<db, owed, active, worker, inbox, first, shown, drains, opens>>

LEMMA NumberFacts ==
    ASSUME TypeOK, NEW a \in Actors, Number(a)
    PROVE  Numbers(a)
<1> DEFINE r == [snap[a] EXCEPT !.at = "send", !.rev = revision + 1]
<1>1. snap' = [snap EXCEPT ![a] = r]
  BY DEF Number
<1>2. r \in Snap /\ r.at = "send" /\ r.seen = snap[a].seen /\ r.rev = revision + 1
  <2>1. snap[a] \in Snap /\ revision + 1 \in Nat
    BY DEF TypeOK
  <2> QED
    BY <2>1 DEF Snap
<1> HIDE DEF r
<1>3. Changed(a) /\ snap'[a] = r
  BY <1>1, <1>2, ChangedTo
<1> QED
  BY <1>2, <1>3 DEF Numbers, Number

Sends(a) ==
    /\ a \in Publishers /\ Changed(a)
    /\ snap[a].at = "send" /\ snap'[a].at = "no"
    /\ InTurn(a) /\ Leave(a)
    /\ \A c \in Clients : c \notin Streaming => inbox'[c] = inbox[c]
    /\ \A c \in Streaming :
          \/ inbox'[c] = Append(inbox[c], SummaryOf(a)) /\ Len(inbox[c]) < Capacity
          \/ inbox'[c] = Append(Tail(inbox[c]), SummaryOf(a)) /\ Len(inbox[c]) >= Capacity
    /\ inbox' = [c \in Clients |-> inbox'[c]]
    /\ worker' \in [Workers -> {"no", "first", "drain", "last"}]
    /\ \A w \in Workers : worker'[w] = worker[w] \/ (w = a /\ worker[w] = "last" /\ worker'[w] = "no")
    /\ UNCHANGED <<db, owed, active, revision, first, shown, drains, opens>>

LEMMA SendFacts ==
    ASSUME TypeOK, NEW a \in Actors, Send(a)
    PROVE  Sends(a)
<1>1. Changed(a) /\ snap'[a] = NoSnap
  BY SnapFacts, ChangedTo DEF Send, Sent
<1>2. /\ inbox' = [c \in Clients |->
             IF c \notin Streaming THEN inbox[c]
             ELSE IF Len(inbox[c]) < Capacity THEN Append(inbox[c], SummaryOf(a))
             ELSE Append(Tail(inbox[c]), SummaryOf(a))]
      /\ worker' = [w \in Workers |-> IF w = a /\ worker[w] = "last" THEN "no" ELSE worker[w]]
  BY DEF Send, Sent
<1>3. \A c \in Clients : Len(inbox[c]) \in Nat /\ Capacity \in Nat
  BY TypedFacts, SyncEventsOK
<1>4. \A c \in Clients : c \notin Streaming => inbox'[c] = inbox[c]
  BY <1>2
<1>5. \A c \in Streaming :
         \/ inbox'[c] = Append(inbox[c], SummaryOf(a)) /\ Len(inbox[c]) < Capacity
         \/ inbox'[c] = Append(Tail(inbox[c]), SummaryOf(a)) /\ Len(inbox[c]) >= Capacity
  BY <1>2, <1>3 DEF Streaming
<1>6. inbox' = [c \in Clients |-> inbox'[c]]
  BY <1>2
<1>7. /\ worker' \in [Workers -> {"no", "first", "drain", "last"}]
      /\ \A w \in Workers : worker'[w] = worker[w] \/ (w = a /\ worker[w] = "last" /\ worker'[w] = "no")
  BY <1>2, TypedFacts
<1>8. /\ a \in Publishers /\ snap[a].at = "send" /\ InTurn(a) /\ Leave(a)
      /\ UNCHANGED <<db, owed, active, revision, first, shown, drains, opens>>
  BY DEF Send, Sent, Publishers
<1> QED
  BY <1>1, <1>4, <1>5, <1>6, <1>7, <1>8, SnapFacts DEF Sends

Shows(c) ==
    /\ c \in Clients /\ Changed(c)
    /\ snap[c].at = "send" /\ snap'[c].at = "no"
    /\ shown' = [shown EXCEPT ![c] = SummaryOf(c)]
    /\ first' = [first EXCEPT ![c] = snap[c].rev]
    /\ UNCHANGED <<db, owed, active, revision, ahead, worker, inbox, drains, opens>>

LEMMA ShowFacts ==
    ASSUME TypeOK, NEW c \in Actors, Show(c)
    PROVE  Shows(c)
BY SnapFacts, ChangedTo DEF Show, Shows
\* Somebody without a snapshot on its way writes, begins a drain or ends one, or opens a
\* page, and may begin a snapshot.
Acts(a) ==
    /\ ~Busy(a) /\ Changed(a)
    /\ snap'[a].at \in {"no", "begin"}
    /\ a \in Clients => shown[a] = Closed /\ snap'[a].at = "begin" /\ UNCHANGED <<owed, active, worker>>
    /\ db' \in Versions /\ \A t \in Tables : db'[t] >= db[t]
    /\ owed' \in Versions
    /\ \A t \in Tables : owed'[t] = owed[t] \/ (snap'[a].at = "begin" /\ owed'[t] = db'[t])
    /\ active' \in BOOLEAN
    /\ active' = active \/ snap'[a].at = "begin" \/ "panic" \in Allowed
    /\ worker' \in [Workers -> {"no", "first", "drain", "last"}]
    /\ \A w \in Workers : w # a => worker'[w] = worker[w]
    /\ \A w \in Workers : w = a /\ worker'[w] = "no" => snap'[w].at = "no"
    /\ drains' \in 0..MaxDrains /\ opens' \in 0..MaxOpens
    /\ UNCHANGED <<ahead, revision, inbox, first, shown>>

LEMMA WritingFacts ==
    ASSUME TypeOK, NEW t \in Tables, Writes < MaxWrites, db' = [db EXCEPT ![t] = @ + 1]
    PROVE  /\ db' \in Versions /\ \A u \in Tables : db'[u] >= db[u]
           /\ db'[t] = db[t] + 1 /\ db[t] + 1 \in 0..MaxWrites
<1>1. db \in Versions /\ db["queue"] \in Nat /\ db["rest"] \in Nat
  BY SnapFacts DEF TypeOK
<1>2. db[t] + 1 \in 0..MaxWrites
  BY <1>1, SnapFacts DEF Writes, Tables
<1>3. db' = [db EXCEPT ![t] = db[t] + 1] /\ db \in [Tables -> 0..MaxWrites]
  BY <1>1 DEF Versions
<1>4. db' \in Versions /\ db'[t] = db[t] + 1 /\ \A u \in Tables \ {t} : db'[u] = db[u]
  BY <1>2, <1>3 DEF Versions
<1>5. \A u \in Tables : db'[u] >= db[u]
  BY <1>1, <1>4 DEF Tables
<1> QED
  BY <1>2, <1>4, <1>5

LEMMA WriteFacts ==
    ASSUME TypeOK, NEW h \in Handlers, NEW t \in Tables, Write(h, t) \/ WriteOnly(h, t)
    PROVE  Acts(h)
<1>1. /\ ~Busy(h) /\ Writes < MaxWrites /\ db' = [db EXCEPT ![t] = @ + 1]
      /\ UNCHANGED <<active, revision, ahead, worker, inbox, first, shown, drains, opens>>
  BY DEF Write, WriteOnly, Writing
<1>2. /\ db' \in Versions /\ \A u \in Tables : db'[u] >= db[u]
      /\ db'[t] = db[t] + 1 /\ db[t] + 1 \in 0..MaxWrites
  BY <1>1, WritingFacts
<1>3. /\ h \in Actors /\ h \notin Clients /\ h \notin Workers
      /\ TypeOK /\ snap \in [Actors -> Snap] /\ owed \in Versions
  BY SyncEventsOK DEF Actors, TypeOK
<1>4. active \in BOOLEAN /\ worker \in [Workers -> {"no", "first", "drain", "last"}]
      /\ drains \in 0..MaxDrains /\ opens \in 0..MaxOpens
  BY DEF TypeOK
<1>5. CASE Write(h, t)
  <2>1. owed' = [owed EXCEPT ![t] = db[t] + 1] /\ snap' = [snap EXCEPT ![h] = Begin]
    BY <1>5 DEF Write
  <2>2. Changed(h) /\ snap'[h].at = "begin"
    BY <1>3, <2>1, SnapFacts, ChangedTo
  <2>3. owed' \in Versions /\ \A u \in Tables : owed'[u] = owed[u] \/ owed'[u] = db'[u]
    BY <1>2, <1>3, <2>1 DEF Versions
  <2> QED
    BY <1>1, <1>2, <1>3, <1>4, <2>2, <2>3 DEF Acts
<1>6. CASE WriteOnly(h, t)
  <2>1. snap' = snap /\ owed' = owed
    BY <1>6 DEF WriteOnly
  <2>2. Changed(h) /\ snap'[h].at = "no"
    BY <1>1, <1>3, <2>1 DEF Changed, Busy
  <2> QED
    BY <1>1, <1>2, <1>3, <1>4, <2>1, <2>2 DEF Acts
<1> QED
  BY <1>5, <1>6

LEMMA HandlerFacts ==
    ASSUME TypeOK, NEW h \in Handlers, Handler(h)
    PROVE  Acts(h) /\ UNCHANGED <<active, worker>>
<1>1. \E t \in Tables : Write(h, t) \/ WriteOnly(h, t)
  BY DEF Handler, Resolve, PauseOrResume, ScanProgress, RunTask, Command, Tables
<1>2. UNCHANGED <<active, worker>>
  BY <1>1 DEF Write, WriteOnly, Writing
<1> QED
  BY <1>1, <1>2, WriteFacts

LEMMA WorkerFacts ==
    ASSUME TypeOK, Settled, NEW w \in Workers, Drain(w)
    PROVE  Acts(w)
<1>1. /\ w \in Actors /\ w \notin Clients
      /\ snap \in [Actors -> Snap] /\ db \in Versions /\ owed \in Versions
      /\ worker \in [Workers -> {"no", "first", "drain", "last"}]
      /\ active \in BOOLEAN /\ drains \in 0..MaxDrains /\ opens \in 0..MaxOpens
      /\ "queue" \in Tables /\ \A t \in Tables : db[t] \in Nat /\ db[t] \in 0..MaxWrites
  BY SyncEventsOK, SnapFacts DEF Actors, TypeOK, Tables
<1>2. CASE Process(w)
  <2>1. /\ worker' = [worker EXCEPT ![w] = "first"] /\ snap' = [snap EXCEPT ![w] = Begin]
        /\ active' = TRUE /\ drains < MaxDrains /\ drains' = drains + 1
        /\ UNCHANGED <<db, owed, revision, ahead, inbox, first, shown, opens>>
    BY <1>2 DEF Process
  <2>2. w \in Resting
    BY <1>2 DEF Process, NewWorker
  <2>3. ~Busy(w)
    BY <2>2 DEF Resting, Settled
  <2>4. Changed(w) /\ snap'[w].at = "begin"
    BY <1>1, <2>1, SnapFacts, ChangedTo
  <2>5. drains' \in 0..MaxDrains
    BY <1>1, <2>1, SyncEventsOK
  <2>6. worker' \in [Workers -> {"no", "first", "drain", "last"}]
        /\ worker'[w] = "first" /\ \A x \in Workers : x # w => worker'[x] = worker[x]
    BY <1>1, <2>1
  <2>7. \A t \in Tables : db'[t] >= db[t]
    BY <1>1, <2>1
  <2> QED
    BY <1>1, <2>1, <2>3, <2>4, <2>5, <2>6, <2>7 DEF Acts
<1>3. CASE Work(w)
  <2>1. /\ ~Busy(w) /\ Writes < MaxWrites /\ db' = [db EXCEPT !["queue"] = @ + 1]
        /\ worker' = [worker EXCEPT ![w] = "drain"]
        /\ snap' = [snap EXCEPT ![w] = Begin] \/ snap' = snap
        /\ UNCHANGED <<owed, active, revision, ahead, inbox, first, shown, drains, opens>>
    BY <1>3 DEF Work
  <2>2. db' \in Versions /\ \A u \in Tables : db'[u] >= db[u]
    BY <1>1, <2>1, WritingFacts
  <2>3. Changed(w) /\ snap'[w].at \in {"no", "begin"}
    <3>1. CASE snap' = [snap EXCEPT ![w] = Begin]
      BY <1>1, <3>1, SnapFacts, ChangedTo
    <3>2. CASE snap' = snap
      BY <1>1, <2>1, <3>2 DEF Changed, Busy
    <3> QED
      BY <2>1, <3>1, <3>2
  <2>4. worker' \in [Workers -> {"no", "first", "drain", "last"}]
        /\ worker'[w] = "drain" /\ \A x \in Workers : x # w => worker'[x] = worker[x]
    BY <1>1, <2>1
  <2> QED
    BY <1>1, <2>1, <2>2, <2>3, <2>4 DEF Acts
<1>4. CASE End(w)
  <2>1. PICK dies \in {FALSE} \cup {"panic" \in Allowed} : Ended(w, dies) /\ active' = dies
    BY <1>4 DEF End
  <2>2. /\ ~Busy(w) /\ worker' = [worker EXCEPT ![w] = IF dies THEN "no" ELSE "last"]
        /\ snap' = [snap EXCEPT ![w] = IF dies THEN NoSnap ELSE Begin]
        /\ owed' = [owed EXCEPT !["queue"] = IF dies THEN @ ELSE db["queue"]]
        /\ UNCHANGED <<db, revision, ahead, inbox, first, shown, drains, opens>>
    BY <1>4, <2>1 DEF End, AtEnd, Ended
  <2>3. dies = FALSE \/ (dies = TRUE /\ "panic" \in Allowed)
    <3>1. dies = FALSE \/ dies = ("panic" \in Allowed)
      BY <2>1
    <3>2. CASE "panic" \in Allowed
      BY <3>1, <3>2, Zenon
    <3>3. CASE "panic" \notin Allowed
      <4>1. ("panic" \in Allowed) = FALSE
        BY <3>3
      <4> QED
        BY <3>1, <4>1, Zenon
    <3> QED
      BY <3>2, <3>3
  <2>4. CASE dies = FALSE
    <3>1. /\ worker' = [worker EXCEPT ![w] = "last"] /\ snap' = [snap EXCEPT ![w] = Begin]
          /\ owed' = [owed EXCEPT !["queue"] = db["queue"]] /\ active' = FALSE
      BY <2>1, <2>2, <2>4
    <3>2. Changed(w) /\ snap'[w].at = "begin"
      BY <1>1, <3>1, SnapFacts, ChangedTo
    <3>3. owed' \in Versions /\ \A t \in Tables : owed'[t] = owed[t] \/ owed'[t] = db[t]
      BY <1>1, <3>1 DEF Versions
    <3>4. worker' \in [Workers -> {"no", "first", "drain", "last"}]
          /\ worker'[w] = "last" /\ \A x \in Workers : x # w => worker'[x] = worker[x]
      BY <1>1, <3>1
    <3>5. \A t \in Tables : db'[t] >= db[t]
      BY <1>1, <2>2
    <3> QED
      BY <1>1, <2>2, <3>1, <3>2, <3>3, <3>4, <3>5 DEF Acts
  <2>5. CASE dies = TRUE /\ "panic" \in Allowed
    <3>1. /\ worker' = [worker EXCEPT ![w] = "no"] /\ snap' = [snap EXCEPT ![w] = NoSnap]
          /\ owed' = [owed EXCEPT !["queue"] = owed["queue"]] /\ active' = TRUE
      BY <2>1, <2>2, <2>5
    <3>2. Changed(w) /\ snap'[w].at = "no"
      BY <1>1, <3>1, SnapFacts, ChangedTo
    <3>3. owed' = owed
      BY <1>1, <3>1 DEF Versions
    <3>4. worker' \in [Workers -> {"no", "first", "drain", "last"}]
          /\ worker'[w] = "no" /\ \A x \in Workers : x # w => worker'[x] = worker[x]
      BY <1>1, <3>1
    <3>5. \A t \in Tables : db'[t] >= db[t]
      BY <1>1, <2>2
    <3> QED
      BY <1>1, <2>2, <2>5, <3>1, <3>2, <3>3, <3>4, <3>5 DEF Acts
  <2> QED
    BY <2>3, <2>4, <2>5
<1> QED
  BY <1>2, <1>3, <1>4 DEF Drain

LEMMA OpenFacts ==
    ASSUME TypeOK, NEW c \in Clients, Open(c)
    PROVE  Acts(c) /\ UNCHANGED <<db, owed, active, worker>>
<1>1. /\ shown[c] = Closed /\ ~Busy(c) /\ opens < MaxOpens /\ opens' = opens + 1
      /\ snap' = [snap EXCEPT ![c] = Begin]
      /\ UNCHANGED <<db, owed, active, revision, ahead, worker, inbox, first, shown, drains>>
  BY DEF Open
<1>2. /\ c \in Actors /\ c \notin Workers /\ db \in Versions /\ owed \in Versions
      /\ worker \in [Workers -> {"no", "first", "drain", "last"}]
      /\ active \in BOOLEAN /\ drains \in 0..MaxDrains /\ opens \in 0..MaxOpens
      /\ \A t \in Tables : db[t] \in Nat
  BY SyncEventsOK, SnapFacts DEF Actors, TypeOK, Tables
<1>3. Changed(c) /\ snap'[c].at = "begin"
  BY <1>1, <1>2, SnapFacts, ChangedTo
<1>4. opens' \in 0..MaxOpens /\ \A t \in Tables : db'[t] >= db[t]
  BY <1>1, <1>2, SyncEventsOK
<1> QED
  BY <1>1, <1>2, <1>3, <1>4 DEF Acts

\* The types

LEMMA TypeInit ==
    ASSUME Init
    PROVE  TInv
<1>1. TypeOK
  <2>1. inbox \in [Clients -> Seq(Summary)] /\ \A c \in Clients : Len(inbox[c]) <= Capacity
    BY SyncEventsOK DEF Init
  <2>2. drains \in 0..MaxDrains /\ opens \in 0..MaxOpens
    BY SyncEventsOK DEF Init
  <2> QED
    BY <2>1, <2>2, SnapFacts DEF Init, TypeOK
<1>2. Settled
  BY SnapFacts, ActorFacts DEF Init, Settled, Busy
<1> QED
  BY <1>1, <1>2 DEF TInv

LEMMA LeaveType ==
    ASSUME TypeOK, NEW a \in Actors, Leave(a)
    PROVE  /\ ahead' \in [Actors -> SUBSET Actors]
           /\ ahead'[a] = {} /\ \A b \in Actors \ {a} : ahead'[b] = ahead[b] \ {a}
BY DEF Leave, TypeOK

LEMMA StreamType ==
    ASSUME TypeOK, NEW c \in Clients, NEW x \in Summary
    PROVE  /\ Len(inbox[c]) < Capacity =>
                 Append(inbox[c], x) \in Seq(Summary) /\ Len(Append(inbox[c], x)) <= Capacity
           /\ Len(inbox[c]) >= Capacity =>
                 Append(Tail(inbox[c]), x) \in Seq(Summary) /\ Len(Append(Tail(inbox[c]), x)) <= Capacity
<1>1. /\ inbox[c] \in Seq(Summary) /\ Len(inbox[c]) \in Nat /\ Len(inbox[c]) <= Capacity
      /\ Capacity \in Nat \ {0}
  BY SyncEventsOK DEF TypeOK
<1>2. ASSUME Len(inbox[c]) >= Capacity
      PROVE  Tail(inbox[c]) \in Seq(Summary) /\ Len(Tail(inbox[c])) = Len(inbox[c]) - 1
  BY <1>1, <1>2
<1> QED
  BY <1>1, <1>2

LEMMA TypePublish ==
    ASSUME TInv, NEW a \in Actors, Publish(a)
    PROVE  TInv'
<1>0. TypeOK /\ Settled
  BY DEF TInv
<1>1. /\ snap \in [Actors -> Snap] /\ ahead \in [Actors -> SUBSET Actors]
      /\ shown \in [Clients -> Summary \cup {Closed}] /\ first \in [Clients -> Nat]
      /\ Waiting \subseteq Actors /\ revision \in Nat
      /\ inbox \in [Clients -> Seq(Summary)]
  BY <1>0, WaitingFacts DEF TypeOK
<1>2. CASE ReadsQueue(a)
  <2>1. TypeOK'
    BY <1>0, <1>1, <1>2 DEF ReadsQueue, Changed, TypeOK
  <2>2. Settled'
    BY <1>0, <1>2, ActorFacts DEF ReadsQueue, Changed, Settled, Busy
  <2> QED
    BY <2>1, <2>2 DEF TInv
<1>3. CASE ReadsRest(a)
  <2>1. TypeOK'
    BY <1>0, <1>1, <1>3 DEF ReadsRest, Changed, TypeOK
  <2>2. Settled'
    BY <1>0, <1>3, ActorFacts DEF ReadsRest, Changed, Settled, Busy
  <2> QED
    BY <2>1, <2>2 DEF TInv
<1>4. CASE Numbers(a)
  <2>1. ahead' \in [Actors -> SUBSET Actors]
    BY <1>0, <1>1, <1>4, LeaveType DEF Numbers
  <2>2. revision' \in Nat
    BY <1>1, <1>4 DEF Numbers
  <2>3. TypeOK'
    BY <1>0, <1>4, <2>1, <2>2 DEF Numbers, Changed, TypeOK
  <2>4. Settled'
    BY <1>0, <1>4, ActorFacts DEF Numbers, Changed, Settled, Busy
  <2> QED
    BY <2>3, <2>4 DEF TInv
<1>5. CASE Sends(a)
  <2>1. ahead' \in [Actors -> SUBSET Actors]
    BY <1>0, <1>5, LeaveType DEF Sends
  <2>2. SummaryOf(a) \in Summary
    BY <1>0, TypedFacts
  <2>3. ASSUME NEW c \in Clients
        PROVE  inbox'[c] \in Seq(Summary) /\ Len(inbox'[c]) <= Capacity
    <3>1. CASE c \in Streaming
      BY <1>0, <1>5, <2>2, <3>1, StreamType DEF Sends
    <3>2. CASE c \notin Streaming
      BY <1>0, <1>5, <3>2 DEF Sends, TypeOK
    <3> QED
      BY <3>1, <3>2
  <2>4. inbox' = [c \in Clients |-> inbox'[c]]
    BY <1>5 DEF Sends
  <2>5. inbox' \in [Clients -> Seq(Summary)]
    <3> DEFINE new == inbox'
    <3>1. new = [c \in Clients |-> new[c]] /\ \A c \in Clients : new[c] \in Seq(Summary)
      BY <2>3, <2>4
    <3> HIDE DEF new
    <3>2. new \in [Clients -> Seq(Summary)]
      BY <3>1
    <3> QED
      BY <3>2 DEF new
  <2>6. TypeOK'
    BY <1>0, <1>5, <2>1, <2>3, <2>5 DEF Sends, Changed, TypeOK
  <2>7. Settled'
    BY <1>0, <1>5, ActorFacts DEF Sends, Changed, Settled, Busy
  <2> QED
    BY <2>6, <2>7 DEF TInv
<1>6. CASE Shows(a)
  <2>1. SummaryOf(a) \in Summary /\ snap[a].rev \in Nat
    BY <1>0, <1>1, TypedFacts, SnapFacts
  <2>2. shown' \in [Clients -> Summary \cup {Closed}] /\ first' \in [Clients -> Nat]
    BY <1>1, <1>6, <2>1 DEF Shows
  <2>3. TypeOK'
    BY <1>0, <1>6, <2>2 DEF Shows, Changed, TypeOK
  <2>4. Settled'
    BY <1>0, <1>1, <1>6, ActorFacts DEF Shows, Changed, Settled, Busy
  <2> QED
    BY <2>3, <2>4 DEF TInv
<1> QED
  BY <1>0, <1>2, <1>3, <1>4, <1>5, <1>6, ReadQueueFacts, ReadRestFacts, NumberFacts, SendFacts,
     ShowFacts DEF Publish

LEMMA TypeAct ==
    ASSUME TInv, NEW a \in Actors, Acts(a)
    PROVE  TInv'
<1>1. TypeOK'
  BY DEF TInv, TypeOK, Acts, Changed
<1>2. ASSUME NEW c \in Clients, shown'[c] # Closed
      PROVE  ~Busy(c)'
  BY <1>2, ActorFacts DEF TInv, Settled, Acts, Changed, Busy
<1>3. ASSUME NEW w \in Workers, worker'[w] = "no"
      PROVE  ~Busy(w)'
  BY <1>3, ActorFacts DEF TInv, Settled, Acts, Changed, Busy
<1> QED
  BY <1>1, <1>2, <1>3 DEF TInv, Settled

LEMMA ReceiveType ==
    ASSUME TypeOK, NEW c \in Clients, Receive(c)
    PROVE  /\ Head(inbox[c]) \in Summary /\ Tail(inbox[c]) \in Seq(Summary)
           /\ Len(Tail(inbox[c])) = Len(inbox[c]) - 1 /\ Len(inbox[c]) \in Nat \ {0}
           /\ inbox' = [inbox EXCEPT ![c] = Tail(inbox[c])]
           /\ inbox' \in [Clients -> Seq(Summary)]
           /\ inbox'[c] = Tail(inbox[c]) /\ \A d \in Clients \ {c} : inbox'[d] = inbox[d]
<1>1. inbox[c] \in Seq(Summary) /\ inbox[c] # <<>> /\ inbox \in [Clients -> Seq(Summary)]
  BY DEF Receive, TypeOK
<1>2. /\ Head(inbox[c]) \in Summary /\ Tail(inbox[c]) \in Seq(Summary)
      /\ Len(Tail(inbox[c])) = Len(inbox[c]) - 1 /\ Len(inbox[c]) \in Nat \ {0}
  BY <1>1
<1>3. inbox' = [inbox EXCEPT ![c] = Tail(inbox[c])]
  BY DEF Receive
<1> QED
  BY <1>1, <1>2, <1>3

LEMMA TypePage ==
    ASSUME TInv, NEW c \in Clients, Receive(c) \/ Close(c)
    PROVE  TInv'
<1>0. /\ TypeOK /\ Settled /\ inbox \in [Clients -> Seq(Summary)]
      /\ shown \in [Clients -> Summary \cup {Closed}] /\ first \in [Clients -> Nat]
      /\ \A d \in Clients : Len(inbox[d]) <= Capacity /\ Len(inbox[d]) \in Nat
  BY DEF TInv, TypeOK
<1>1. CASE Receive(c)
  <2>1. /\ Head(inbox[c]) \in Summary /\ Len(Tail(inbox[c])) = Len(inbox[c]) - 1
        /\ inbox' \in [Clients -> Seq(Summary)]
        /\ inbox'[c] = Tail(inbox[c]) /\ \A d \in Clients \ {c} : inbox'[d] = inbox[d]
    BY <1>0, <1>1, ReceiveType
  <2>2. \A d \in Clients : Len(inbox'[d]) <= Capacity
    <3>1. Len(inbox'[c]) <= Capacity
      BY <1>0, <2>1, SyncEventsOK
    <3> QED
      BY <1>0, <2>1, <3>1
  <2>3. shown' \in [Clients -> Summary \cup {Closed}]
        /\ \A d \in Clients : shown'[d] # Closed => shown[d] # Closed
    BY <1>0, <1>1, <2>1 DEF Receive
  <2>4. TypeOK'
    BY <1>0, <1>1, <2>1, <2>2, <2>3 DEF Receive, TypeOK
  <2>5. Settled'
    BY <1>0, <1>1, <2>3 DEF Receive, Settled, Busy
  <2> QED
    BY <2>4, <2>5 DEF TInv
<1>2. CASE Close(c)
  <2>1. /\ inbox' = [inbox EXCEPT ![c] = <<>>] /\ shown' = [shown EXCEPT ![c] = Closed]
        /\ first' = [first EXCEPT ![c] = 0]
        /\ UNCHANGED <<db, owed, active, revision, snap, ahead, worker, drains, opens>>
    BY <1>2 DEF Close
  <2>2. /\ <<>> \in Seq(Summary) /\ Len(<<>>) = 0
        /\ inbox' \in [Clients -> Seq(Summary)] /\ \A d \in Clients : Len(inbox'[d]) <= Capacity
    <3>1. <<>> \in Seq(Summary) /\ Len(<<>>) <= Capacity
      BY SyncEventsOK
    <3> QED
      BY <1>0, <2>1, <3>1
  <2>3. TypeOK'
    BY <1>0, <2>1, <2>2 DEF TypeOK
  <2>4. Settled'
    BY <1>0, <2>1 DEF Settled, Busy
  <2> QED
    BY <2>3, <2>4 DEF TInv
<1> QED
  BY <1>1, <1>2

LEMMA TypeStep ==
    ASSUME TInv, [Next]_vars
    PROVE  TInv'
<1>0. TypeOK /\ Settled
  BY DEF TInv
<1>1. CASE \E a \in Actors : Publish(a)
  BY <1>1, TypePublish
<1>2. CASE \E h \in Handlers : Handler(h)
  BY <1>0, <1>2, HandlerFacts, TypeAct, ActorFacts
<1>3. CASE \E w \in Workers : Drain(w)
  BY <1>0, <1>3, WorkerFacts, TypeAct, ActorFacts
<1>4. CASE \E c \in Clients : Page(c)
  BY <1>0, <1>4, OpenFacts, TypeAct, TypePage, ActorFacts DEF Page
<1>5. CASE UNCHANGED vars
  BY <1>0, <1>5 DEF vars, TInv, TypeOK, Settled, Busy
<1> QED
  BY <1>1, <1>2, <1>3, <1>4, <1>5 DEF Next
-----------------------------------------------------------------------------
(* One after the other *)

\* No summary overtakes another one.
InOrder == "overtaken" \notin Allowed

LEMMA WaitingSteps ==
    ASSUME TypeOK, NEW a \in Actors
    PROVE  /\ ReadsQueue(a) => Waiting' = Waiting \cup {a} /\ a \notin Waiting
           /\ ReadsRest(a) => Waiting' = Waiting /\ a \in Waiting
           /\ Numbers(a) => Waiting' = (IF a \in Clients THEN Waiting \ {a} ELSE Waiting) /\ a \in Waiting
           /\ Sends(a) => Waiting' = Waiting \ {a} /\ a \in Waiting
           /\ Shows(a) \/ Acts(a) => Waiting' = Waiting /\ a \notin Waiting
<1>1. ASSUME Changed(a), NEW b \in Actors, b # a
      PROVE  b \in Waiting' <=> b \in Waiting
  <2>1. snap'[b] = snap[b]
    BY <1>1 DEF Changed
  <2> QED
    BY <2>1, WaitingFacts
<1>2. ReadsQueue(a) => Waiting' = Waiting \cup {a} /\ a \notin Waiting
  BY <1>1, WaitingFacts DEF ReadsQueue
<1>3. ReadsRest(a) => Waiting' = Waiting /\ a \in Waiting
  BY <1>1, WaitingFacts DEF ReadsRest
<1>4. Numbers(a) => Waiting' = (IF a \in Clients THEN Waiting \ {a} ELSE Waiting) /\ a \in Waiting
  BY <1>1, WaitingFacts, ActorFacts DEF Numbers
<1>5. Sends(a) => Waiting' = Waiting \ {a} /\ a \in Waiting
  BY <1>1, WaitingFacts DEF Sends
<1>6. Shows(a) => Waiting' = Waiting /\ a \notin Waiting
  BY <1>1, WaitingFacts, ActorFacts DEF Shows
<1>7. Acts(a) => Waiting' = Waiting /\ a \notin Waiting
  BY <1>1, WaitingFacts DEF Acts, Busy
<1> QED
  BY <1>2, <1>3, <1>4, <1>5, <1>6, <1>7

LEMMA OrderPublish ==
    ASSUME InOrder, TypeOK, OrderKept, NEW a \in Actors,
           ReadsQueue(a) \/ ReadsRest(a) \/ Numbers(a) \/ Sends(a) \/ Shows(a) \/ Acts(a)
    PROVE  OrderKept'
<1>0. /\ ahead \in [Actors -> SUBSET Actors] /\ Publishers \subseteq Actors
      /\ Waiting \subseteq Actors /\ Waiting' \subseteq Actors
  BY WaitingFacts, ActorFacts DEF TypeOK
<1>1. CASE ReadsQueue(a)
  <2>1. Waiting' = Waiting \cup {a} /\ a \notin Waiting
    BY <1>1, WaitingSteps
  <2>2. ahead'[a] = Waiting /\ \A b \in Actors \ {a} : ahead'[b] = ahead[b] /\ snap'[b] = snap[b]
    BY <1>0, <1>1 DEF ReadsQueue, Changed
  <2>3. snap'[a].at # "send"
    BY <1>1 DEF ReadsQueue
  <2> QED
    BY <1>0, <2>1, <2>2, <2>3 DEF OrderKept
<1>2. CASE ReadsRest(a) \/ Shows(a) \/ Acts(a)
  <2>1. Waiting' = Waiting /\ ahead' = ahead
    BY <1>2, WaitingSteps DEF ReadsRest, Shows, Acts
  <2>2. \A b \in Actors : snap'[b].at = "send" => snap[b].at = "send"
    BY <1>2 DEF ReadsRest, Shows, Acts, Changed
  <2> QED
    BY <1>0, <2>1, <2>2 DEF OrderKept
<1>3. CASE Numbers(a) /\ a \notin Clients
  <2>1. Waiting' = Waiting /\ ahead' = ahead /\ ahead[a] = {}
    BY <1>3, WaitingSteps DEF Numbers, InTurn, InOrder
  <2>2. \A b \in Actors \ {a} : snap'[b] = snap[b]
    BY <1>3 DEF Numbers, Changed
  <2> QED
    BY <1>0, <2>1, <2>2 DEF OrderKept
<1>4. CASE (Numbers(a) /\ a \in Clients) \/ Sends(a)
  <2>1. /\ Waiting' = Waiting \ {a}
        /\ \A b \in Actors \ {a} : snap'[b] = snap[b]
    BY <1>4, WaitingSteps DEF Numbers, Sends, Changed
  <2>2. Leave(a) /\ (snap'[a].at # "send" \/ a \notin Publishers)
    BY <1>4, ActorFacts DEF Numbers, Sends
  <2>3. ahead'[a] = {} /\ \A b \in Actors \ {a} : ahead'[b] = ahead[b] \ {a}
    BY <2>2, LeaveType
  <2> QED
    BY <1>0, <2>1, <2>2, <2>3 DEF OrderKept
<1> QED
  BY <1>1, <1>2, <1>3, <1>4

\* Who is the first in the order, draws a number while no summary is to be sent.
LEMMA NoneSending ==
    ASSUME InOrder, TypeOK, OrderKept, NEW a \in Actors, Numbers(a)
    PROVE  \A b \in Publishers : snap[b].at # "send"
<1>1. ahead[a] = {} /\ snap[a].at = "number" /\ a \in Waiting
  BY WaitingFacts DEF Numbers, InTurn, InOrder
<1>2. SUFFICES ASSUME NEW b \in Publishers, snap[b].at = "send"
               PROVE  FALSE
  OBVIOUS
<1>3. ahead[b] = {} /\ b \in Waiting /\ b # a
  BY <1>1, <1>2, WaitingFacts, ActorFacts DEF OrderKept
<1> QED
  BY <1>1, <1>3 DEF OrderKept

\* A stream keeps what it had, but perhaps its first summary, and gets one more.
Gets(c, s) ==
    /\ inbox'[c] \in Seq(Summary) /\ inbox'[c] # <<>>
    /\ Len(inbox'[c]) \in Nat \ {0} /\ DOMAIN inbox'[c] = 1..Len(inbox'[c])
    /\ LastOf(inbox'[c]) = s
    /\ \E k \in {0, 1} : \A i \in 1..(Len(inbox'[c]) - 1) :
          i + k \in DOMAIN inbox[c] /\ inbox'[c][i] = inbox[c][i + k]

LEMMA AppendFacts ==
    ASSUME NEW S, NEW s \in Seq(S), NEW x \in S
    PROVE  /\ Append(s, x) \in Seq(S) /\ Append(s, x) # <<>>
           /\ Len(Append(s, x)) = Len(s) + 1 /\ Len(s) \in Nat
           /\ LastOf(Append(s, x)) = x /\ DOMAIN s = 1..Len(s)
           /\ \A i \in 1..Len(s) : Append(s, x)[i] = s[i]
BY DEF LastOf

LEMMA StreamGets ==
    ASSUME TypeOK, NEW a \in Actors, Sends(a), NEW c \in Streaming
    PROVE  Gets(c, SummaryOf(a))
<1>1. inbox[c] \in Seq(Summary) /\ SummaryOf(a) \in Summary /\ Capacity \in Nat \ {0}
  BY TypedFacts, SyncEventsOK DEF Streaming
<1>2. CASE inbox'[c] = Append(inbox[c], SummaryOf(a))
  <2>1. \A i \in 1..(Len(inbox'[c]) - 1) :
           i + 0 \in DOMAIN inbox[c] /\ inbox'[c][i] = inbox[c][i + 0]
    BY <1>1, <1>2, AppendFacts
  <2> QED
    BY <1>1, <1>2, <2>1, AppendFacts DEF Gets
<1>3. CASE inbox'[c] = Append(Tail(inbox[c]), SummaryOf(a)) /\ Len(inbox[c]) >= Capacity
  <2>1. inbox[c] # <<>> /\ Len(inbox[c]) \in Nat \ {0}
    BY <1>1, <1>3
  <2>2. /\ Tail(inbox[c]) \in Seq(Summary) /\ Len(Tail(inbox[c])) = Len(inbox[c]) - 1
        /\ \A i \in 1..(Len(inbox[c]) - 1) :
              i + 1 \in DOMAIN inbox[c] /\ Tail(inbox[c])[i] = inbox[c][i + 1]
    BY <1>1, <2>1
  <2>3. \A i \in 1..(Len(inbox'[c]) - 1) :
           i + 1 \in DOMAIN inbox[c] /\ inbox'[c][i] = inbox[c][i + 1]
    BY <1>1, <1>3, <2>1, <2>2, AppendFacts
  <2>4. /\ inbox'[c] \in Seq(Summary) /\ inbox'[c] # <<>>
        /\ Len(inbox'[c]) \in Nat \ {0} /\ LastOf(inbox'[c]) = SummaryOf(a)
    <3> DEFINE t == Tail(inbox[c])
    <3>1. t \in Seq(Summary)
      BY <2>2
    <3> HIDE DEF t
    <3>2. /\ Append(t, SummaryOf(a)) \in Seq(Summary) /\ Append(t, SummaryOf(a)) # <<>>
          /\ Len(Append(t, SummaryOf(a))) = Len(t) + 1 /\ Len(t) \in Nat
          /\ LastOf(Append(t, SummaryOf(a))) = SummaryOf(a)
      BY <1>1, <3>1, AppendFacts
    <3>3. inbox'[c] = Append(t, SummaryOf(a))
      BY <1>3 DEF t
    <3>4. Len(t) + 1 \in Nat \ {0}
      BY <3>2
    <3> QED
      BY <3>2, <3>3, <3>4
  <2>5. DOMAIN inbox'[c] = 1..Len(inbox'[c])
    BY <2>4
  <2> QED
    BY <2>3, <2>4, <2>5 DEF Gets
<1> QED
  BY <1>2, <1>3 DEF Sends

\* So whatever holds for what it had and for what it gets holds for all it has.
LEMMA StreamHas ==
    ASSUME NEW c, NEW s, Gets(c, s), NEW i \in DOMAIN inbox'[c]
    PROVE  inbox'[c][i] = s \/ \E j \in DOMAIN inbox[c] : inbox'[c][i] = inbox[c][j]
<1>1. i = Len(inbox'[c]) \/ i \in 1..(Len(inbox'[c]) - 1)
  BY DEF Gets
<1> QED
  BY <1>1 DEF Gets, LastOf

LEMMA StreamInOrder ==
    ASSUME NEW c, NEW s, Gets(c, s), NEW i \in DOMAIN inbox'[c], NEW j \in DOMAIN inbox'[c], i <= j
    PROVE  \/ inbox'[c][j] = s
           \/ \E k, l \in DOMAIN inbox[c] :
                 k <= l /\ inbox'[c][i] = inbox[c][k] /\ inbox'[c][j] = inbox[c][l]
<1>1. CASE j = Len(inbox'[c])
  BY <1>1 DEF Gets, LastOf
<1>2. CASE j # Len(inbox'[c])
  <2>1. i \in 1..(Len(inbox'[c]) - 1) /\ j \in 1..(Len(inbox'[c]) - 1)
    BY <1>2 DEF Gets
  <2>2. PICK k \in {0, 1} : \A m \in 1..(Len(inbox'[c]) - 1) :
           m + k \in DOMAIN inbox[c] /\ inbox'[c][m] = inbox[c][m + k]
    BY DEF Gets
  <2>3. i + k <= j + k
    BY <2>1
  <2> QED
    BY <2>1, <2>2, <2>3
<1> QED
  BY <1>1, <1>2

\* A page that gets a summary takes the first.
LEMMA StreamTaken ==
    ASSUME TypeOK, NEW c \in Clients, Receive(c)
    PROVE  /\ Len(inbox[c]) \in Nat \ {0} /\ 1 \in DOMAIN inbox[c]
           /\ Head(inbox[c]) = inbox[c][1]
           /\ Len(inbox'[c]) = Len(inbox[c]) - 1
           /\ DOMAIN inbox'[c] = 1..(Len(inbox[c]) - 1) /\ DOMAIN inbox[c] = 1..Len(inbox[c])
           /\ \A i \in DOMAIN inbox'[c] : i + 1 \in DOMAIN inbox[c] /\ inbox'[c][i] = inbox[c][i + 1]
           /\ \A d \in Clients \ {c} : inbox'[d] = inbox[d]
<1>1. inbox[c] \in Seq(Summary) /\ inbox[c] # <<>>
  BY DEF Receive, TypeOK
<1>2. inbox'[c] = Tail(inbox[c]) /\ \A d \in Clients \ {c} : inbox'[d] = inbox[d]
  BY ReceiveType
<1>3. /\ Tail(inbox[c]) \in Seq(Summary) /\ Len(Tail(inbox[c])) = Len(inbox[c]) - 1
      /\ \A i \in 1..(Len(inbox[c]) - 1) :
            i + 1 \in DOMAIN inbox[c] /\ Tail(inbox[c])[i] = inbox[c][i + 1]
  BY <1>1
<1>4. Len(inbox[c]) \in Nat \ {0} /\ 1 \in DOMAIN inbox[c] /\ Head(inbox[c]) = inbox[c][1]
  BY <1>1
<1> QED
  BY <1>1, <1>2, <1>3, <1>4
-----------------------------------------------------------------------------
(* Summaries in order *)

\* Queries do not fail, and no summary overtakes another.
Faithful == InOrder /\ "query fails" \notin Allowed

LEMMA SummaryFacts ==
    /\ \A x \in Summary : x.rev \in Nat /\ Queue(x) \in Nat /\ x.seen \in Versions
    /\ \A x \in Snap : x.rev \in Nat /\ Queue(x) \in Nat /\ x.seen \in Versions
    /\ \A a : /\ SummaryOf(a).rev = snap[a].rev /\ SummaryOf(a).seen = snap[a].seen
              /\ SummaryOf(a).active = active /\ Queue(SummaryOf(a)) = Queue(snap[a])
BY SnapFacts DEF Summary, Snap, SummaryOf, Queue, Versions, Tables

\* All that is counted.
LEMMA CountFacts ==
    ASSUME TypeOK
    PROVE  /\ revision \in Nat /\ db["queue"] \in Nat
           /\ \A a \in Actors : snap[a].rev \in Nat /\ Queue(snap[a]) \in Nat
           /\ \A c \in Clients : first[c] \in Nat
           /\ \A c \in Clients : shown[c] # Closed => shown[c].rev \in Nat /\ Queue(shown[c]) \in Nat
           /\ \A c \in Clients : \A i \in DOMAIN inbox[c] :
                 inbox[c][i] \in Summary /\ inbox[c][i].rev \in Nat /\ Queue(inbox[c][i]) \in Nat
<1>1. \A c \in Clients : \A i \in DOMAIN inbox[c] : inbox[c][i] \in Summary
  BY DEF TypeOK
<1>2. db["queue"] \in Nat /\ revision \in Nat
  BY SnapFacts DEF TypeOK
<1>3. \A a \in Actors : snap[a] \in Snap
  BY DEF TypeOK
<1>4. \A c \in Clients : first[c] \in Nat /\ (shown[c] # Closed => shown[c] \in Summary)
  BY DEF TypeOK
<1> QED
  BY <1>1, <1>2, <1>3, <1>4, SummaryFacts

LEMMA SinceLater ==
    ASSUME TypeOK, NEW v \in Nat, NEW w \in Nat, v <= w, Since(v)
    PROVE  Since(w)
<1>1. \A c \in Clients : snap[c].rev \in Nat /\ Queue(snap[c]) \in Nat
  BY CountFacts, ActorFacts
<1> QED
  BY <1>1, CountFacts DEF Since

\* A snapshot that is not to be sent to anybody by a page: pages are as they were.
SameForPages(a) ==
    /\ UNCHANGED <<inbox, first, shown>>
    /\ \A c \in Clients : snap'[c].at = "send" => snap'[c] = snap[c]

LEMMA SamePages ==
    ASSUME NEW a \in Actors,
           ReadsQueue(a) \/ ReadsRest(a) \/ Acts(a) \/ (Numbers(a) /\ a \in Publishers)
    PROVE  SameForPages(a)
BY ActorFacts DEF ReadsQueue, ReadsRest, Acts, Numbers, Changed, SameForPages

LEMMA SameSince ==
    ASSUME NEW a, SameForPages(a), NEW v, Since(v)
    PROVE  Since(v)'
BY DEF SameForPages, Since, Queue

LEMMA SameStreams ==
    ASSUME NEW a, SameForPages(a), StreamsInOrder
    PROVE  StreamsInOrder'
BY DEF SameForPages, StreamsInOrder, NotBefore, Queue

LEMMA NumberedSteps ==
    ASSUME InOrder, TypeOK, OrderKept, Numbered, NEW a \in Actors,
           ReadsQueue(a) \/ ReadsRest(a) \/ Numbers(a) \/ Sends(a) \/ Shows(a) \/ Acts(a)
    PROVE  Numbered'
<1>0. /\ Publishers \subseteq Actors /\ Clients \subseteq Actors /\ Clients \cap Publishers = {}
      /\ first \in [Clients -> Nat] /\ shown \in [Clients -> Summary \cup {Closed}]
  BY ActorFacts DEF TypeOK
<1>1. CASE ReadsQueue(a) \/ ReadsRest(a) \/ Acts(a)
  <2>1. UNCHANGED <<revision, inbox, first, shown>>
    BY <1>1 DEF ReadsQueue, ReadsRest, Acts
  <2>2. \A b \in Actors : snap'[b].at = "send" => snap'[b] = snap[b]
    BY <1>1 DEF ReadsQueue, ReadsRest, Acts, Changed
  <2> QED
    BY <1>0, <2>1, <2>2 DEF Numbered
<1>2. CASE Numbers(a)
  <2>1. /\ revision' = revision + 1 /\ UNCHANGED <<inbox, first, shown>>
        /\ snap'[a].rev = revision + 1 /\ \A b \in Actors \ {a} : snap'[b] = snap[b]
    BY <1>2 DEF Numbers, Changed
  <2>2. \A b \in Publishers : snap[b].at # "send"
    BY <1>2, NoneSending
  <2>3. \A b \in Actors : snap'[b].at = "send" => snap'[b].rev <= revision'
    <3>1. revision + 1 <= revision + 1 /\ \A n \in Nat : n <= revision => n <= revision + 1
      BY CountFacts
    <3> QED
      BY <2>1, <3>1, CountFacts DEF Numbered
  <2>4. \A b \in Publishers : snap'[b].at = "send" => snap'[b].rev = revision'
    BY <1>0, <2>1, <2>2
  <2>5. \A c \in Clients : \A i \in DOMAIN inbox'[c] : inbox'[c][i].rev <= revision'
    BY <2>1, CountFacts DEF Numbered
  <2>6. \A c \in Clients : first'[c] <= revision' /\ (shown'[c] # Closed => shown'[c].rev <= revision')
    BY <2>1, CountFacts DEF Numbered
  <2> QED
    BY <2>3, <2>4, <2>5, <2>6 DEF Numbered
<1>3. CASE Sends(a)
  <2>1. /\ UNCHANGED <<revision, first, shown>> /\ \A b \in Actors : snap'[b].at = "send" => snap'[b] = snap[b]
        /\ a \in Publishers /\ snap[a].at = "send"
    BY <1>3 DEF Sends, Changed
  <2>2. SummaryOf(a).rev <= revision
    BY <1>0, <2>1, SummaryFacts DEF Numbered
  <2>3. ASSUME NEW c \in Clients, NEW i \in DOMAIN inbox'[c]
        PROVE  inbox'[c][i].rev <= revision
    <3>1. CASE c \in Streaming
      BY <1>3, <2>2, <2>3, <3>1, StreamGets, StreamHas DEF Numbered
    <3>2. CASE c \notin Streaming
      BY <1>3, <2>3, <3>2 DEF Sends, Numbered
    <3> QED
      BY <3>1, <3>2
  <2> QED
    BY <1>0, <2>1, <2>3 DEF Numbered
<1>4. CASE Shows(a)
  <2>1. /\ UNCHANGED <<revision, inbox>> /\ \A b \in Actors : snap'[b].at = "send" => snap'[b] = snap[b]
        /\ snap[a].at = "send" /\ a \in Clients
        /\ shown' = [shown EXCEPT ![a] = SummaryOf(a)] /\ first' = [first EXCEPT ![a] = snap[a].rev]
    BY <1>4 DEF Shows, Changed
  <2>2. snap[a].rev <= revision /\ SummaryOf(a).rev = snap[a].rev
    BY <2>1, SummaryFacts DEF Numbered
  <2>3. \A c \in Clients : first'[c] <= revision /\ (shown'[c] # Closed => shown'[c].rev <= revision)
    BY <1>0, <2>1, <2>2 DEF Numbered
  <2> QED
    BY <1>0, <2>1, <2>3 DEF Numbered
<1> QED
  BY <1>1, <1>2, <1>3, <1>4

LEMMA ReadSteps ==
    ASSUME Faithful, TypeOK, OrderKept, Numbered, ReadInOrder, NEW a \in Actors,
           ReadsQueue(a) \/ ReadsRest(a) \/ Numbers(a) \/ Sends(a) \/ Shows(a) \/ Acts(a),
           TypeOK'
    PROVE  ReadInOrder'
<1>0. /\ Publishers \subseteq Actors /\ Clients \subseteq Actors /\ Clients \cap Publishers = {}
      /\ first \in [Clients -> Nat] /\ shown \in [Clients -> Summary \cup {Closed}]
      /\ ahead \in [Actors -> SUBSET Actors] /\ Waiting \subseteq Actors
      /\ db["queue"] \in Nat /\ \A b \in Actors : Queue(snap[b]) \in Nat
      /\ Faithful => InOrder
  BY ActorFacts, WaitingFacts, CountFacts DEF TypeOK, Faithful
<1>1. CASE ReadsQueue(a)
  <2>1. /\ Waiting' = Waiting \cup {a} /\ a \notin Waiting
        /\ SameForPages(a) /\ db' = db /\ Queue(snap'[a]) = db["queue"]
    BY <1>1, WaitingSteps, SamePages DEF ReadsQueue, Faithful
  <2>2. ahead'[a] = Waiting /\ \A b \in Actors \ {a} : ahead'[b] = ahead[b] /\ snap'[b] = snap[b]
    BY <1>0, <1>1 DEF ReadsQueue, Changed
  <2>3. \A v : Since(v) => Since(v)'
    BY <2>1, SameSince
  <2>4. Since(db["queue"])' /\ Since(Queue(snap[a]))'
    BY <2>1, <2>3 DEF ReadInOrder, Since
  <2>5. \A b \in Waiting' : Queue(snap'[b]) <= db'["queue"] /\ Since(Queue(snap[b]))'
    <3> SUFFICES ASSUME NEW b \in Waiting, b # a
                 PROVE  Queue(snap'[b]) <= db'["queue"] /\ Since(Queue(snap[b]))'
      BY <1>0, <2>1, <2>4
    <3>1. snap'[b] = snap[b] /\ Queue(snap[b]) <= db["queue"] /\ Since(Queue(snap[b]))
      BY <1>0, <2>2 DEF ReadInOrder
    <3> DEFINE v == Queue(snap[b])
    <3>2. Queue(snap'[b]) = v
      BY <3>1
    <3>3. Since(v) /\ v <= db["queue"]
      BY <3>1
    <3> QED
      BY <2>1, <2>3, <3>2, <3>3 DEF Since
  <2>6. ASSUME NEW b \in Actors, NEW d \in ahead'[b]
        PROVE  Queue(snap'[d]) <= Queue(snap'[b])
    <3>1. CASE b = a
      BY <1>0, <2>1, <2>2, <2>6, <3>1 DEF ReadInOrder
    <3>2. CASE b # a
      <4>1. d \in ahead[b] /\ d \in Waiting
        BY <2>2, <2>6, <3>2 DEF OrderKept
      <4> QED
        BY <1>0, <2>1, <2>2, <3>2, <4>1 DEF ReadInOrder
    <3> QED
      BY <3>1, <3>2
  <2> QED
    BY <2>4, <2>5, <2>6 DEF ReadInOrder
<1>2. CASE ReadsRest(a) \/ Acts(a) \/ (Numbers(a) /\ a \in Publishers)
  <2>1. /\ Waiting' = Waiting /\ SameForPages(a) /\ ahead' = ahead
        /\ \A b \in Waiting : Queue(snap'[b]) = Queue(snap[b])
    <3>1. CASE ReadsRest(a)
      BY <1>0, <3>1, WaitingSteps, SamePages DEF ReadsRest, Changed
    <3>2. CASE Acts(a)
      BY <1>0, <3>2, WaitingSteps, SamePages DEF Acts, Changed
    <3>3. CASE Numbers(a) /\ a \in Publishers
      BY <1>0, <3>3, WaitingSteps, SamePages DEF Numbers, Changed, Queue
    <3> QED
      BY <1>2, <3>1, <3>2, <3>3
  <2>2. \A v : Since(v) => Since(v)'
    BY <2>1, SameSince
  <2>3. db'["queue"] \in Nat /\ db["queue"] <= db'["queue"]
    <3>1. db' = db \/ db'["queue"] >= db["queue"]
      BY <1>2 DEF ReadsRest, Acts, Numbers, Tables
    <3>2. db'["queue"] \in Nat
      BY SnapFacts DEF TypeOK
    <3> QED
      BY <1>0, <3>1, <3>2
  <2>4. Since(db["queue"]) => Since(db'["queue"])
    BY <1>0, <2>3, SinceLater
  <2>5. Since(db["queue"])'
    BY <2>2, <2>4 DEF ReadInOrder, Since
  <2>6. \A b \in Waiting' : Queue(snap'[b]) <= db'["queue"] /\ Since(Queue(snap[b]))'
    <3> SUFFICES ASSUME NEW b \in Waiting
                 PROVE  Queue(snap'[b]) <= db'["queue"] /\ Since(Queue(snap[b]))'
      BY <2>1
    <3> DEFINE v == Queue(snap[b])
    <3>1. v \in Nat /\ Queue(snap'[b]) = v /\ v <= db["queue"] /\ Since(v)
      BY <1>0, <2>1 DEF ReadInOrder
    <3> QED
      BY <1>0, <2>2, <2>3, <3>1 DEF Since
  <2>7. \A b \in Actors : \A d \in ahead'[b] : Queue(snap'[d]) <= Queue(snap'[b])
    BY <1>0, <2>1 DEF ReadInOrder, OrderKept
  <2> QED
    BY <2>5, <2>6, <2>7 DEF ReadInOrder
\* Who leaves the order is before all that stay.
<1>3. ASSUME Waiting' = Waiting \ {a}, a \in Waiting, ahead[a] = {}, db' = db,
             \A b \in Actors \ {a} : snap'[b] = snap[b],
             ahead'[a] = {}, \A b \in Actors \ {a} : ahead'[b] = ahead[b] \ {a},
             \A v \in Nat : Since(v) /\ Queue(snap[a]) <= v => Since(v)'
      PROVE  ReadInOrder'
  <2>1. Since(db["queue"])'
    BY <1>0, <1>3 DEF ReadInOrder, Since
  <2>2. ASSUME NEW b \in Waiting, b # a
        PROVE  Queue(snap'[b]) <= db'["queue"] /\ Since(Queue(snap[b]))'
    <3>1. a \in ahead[b] /\ snap'[b] = snap[b]
      BY <1>0, <1>3, <2>2 DEF OrderKept
    <3> QED
      BY <1>0, <1>3, <2>2, <3>1 DEF ReadInOrder, Since
  <2>3. \A b \in Actors : \A d \in ahead'[b] : Queue(snap'[d]) <= Queue(snap'[b])
    BY <1>0, <1>3 DEF ReadInOrder
  <2> QED
    BY <1>3, <2>1, <2>2, <2>3 DEF ReadInOrder
<1>4. CASE Numbers(a) /\ a \in Clients
  <2>1. /\ Waiting' = Waiting \ {a} /\ a \in Waiting /\ ahead[a] = {} /\ db' = db
        /\ \A b \in Actors \ {a} : snap'[b] = snap[b]
        /\ Leave(a) /\ snap'[a].seen = snap[a].seen /\ UNCHANGED <<inbox, shown>>
    BY <1>4, WaitingSteps DEF Numbers, InTurn, InOrder, Faithful, Changed
  <2>2. ahead'[a] = {} /\ \A b \in Actors \ {a} : ahead'[b] = ahead[b] \ {a}
    BY <2>1, LeaveType
  <2>3. ASSUME NEW v \in Nat, Since(v), Queue(snap[a]) <= v
        PROVE  Since(v)'
    BY <1>0, <2>1, <2>3 DEF Since, Queue
  <2> QED
    BY <1>3, <2>1, <2>2, <2>3
<1>5. CASE Sends(a)
  <2>1. /\ Waiting' = Waiting \ {a} /\ a \in Waiting /\ db' = db
        /\ \A b \in Actors \ {a} : snap'[b] = snap[b]
        /\ Leave(a) /\ a \in Publishers /\ snap[a].at = "send" /\ UNCHANGED shown
    BY <1>5, WaitingSteps DEF Sends, Changed
  <2>2. ahead'[a] = {} /\ \A b \in Actors \ {a} : ahead'[b] = ahead[b] \ {a}
    BY <2>1, LeaveType
  <2>3. ahead[a] = {}
    BY <2>1 DEF OrderKept
  <2>4. ASSUME NEW v \in Nat, Since(v), Queue(snap[a]) <= v
        PROVE  Since(v)'
    <3>1. Queue(SummaryOf(a)) <= v
      BY <2>4, SummaryFacts
    <3>2. ASSUME NEW c \in Clients, NEW i \in DOMAIN inbox'[c]
          PROVE  Queue(inbox'[c][i]) <= v
      <4>1. CASE c \in Streaming
        BY <1>5, <2>4, <3>1, <3>2, <4>1, StreamGets, StreamHas DEF Since
      <4>2. CASE c \notin Streaming
        BY <1>5, <2>4, <3>2, <4>2 DEF Sends, Since
      <4> QED
        BY <4>1, <4>2
    <3> QED
      BY <1>0, <2>1, <2>4, <3>2 DEF Since, Queue
  <2> QED
    BY <1>3, <2>1, <2>2, <2>3, <2>4
<1>6. CASE Shows(a)
  <2>1. /\ Waiting' = Waiting /\ a \notin Waiting /\ a \in Clients /\ snap[a].at = "send"
        /\ snap'[a].at = "no" /\ \A b \in Actors \ {a} : snap'[b] = snap[b]
        /\ UNCHANGED <<db, ahead, inbox>> /\ shown' = [shown EXCEPT ![a] = SummaryOf(a)]
    BY <1>6, WaitingSteps DEF Shows, Changed
  <2>2. ASSUME NEW v, Since(v)
        PROVE  Since(v)'
    <3>1. Queue(SummaryOf(a)) <= v
      BY <2>1, <2>2, SummaryFacts DEF Since
    <3>2. \A c \in Clients : shown'[c] # Closed => Queue(shown'[c]) <= v
      BY <1>0, <2>1, <2>2, <3>1 DEF Since
    <3> QED
      BY <1>0, <2>1, <2>2, <3>2 DEF Since, Queue
  <2>3. \A b \in Waiting : snap'[b] = snap[b] /\ b \in Actors
    BY <1>0, <2>1
  <2>4. Since(db["queue"])' /\ \A b \in Waiting : Since(Queue(snap[b]))'
    BY <2>1, <2>2, <2>3 DEF ReadInOrder, Since
  <2>5. \A b \in Actors : \A d \in ahead'[b] : Queue(snap'[d]) <= Queue(snap'[b])
    BY <1>0, <2>1, <2>3 DEF ReadInOrder, OrderKept
  <2> QED
    BY <2>1, <2>3, <2>4, <2>5 DEF ReadInOrder
<1> QED
  BY <1>0, <1>1, <1>2, <1>4, <1>5, <1>6, ActorFacts

LEMMA StreamSteps ==
    ASSUME Faithful, TypeOK, OrderKept, Numbered, ReadInOrder, StreamsInOrder, NEW a \in Actors,
           ReadsQueue(a) \/ ReadsRest(a) \/ Numbers(a) \/ Sends(a) \/ Shows(a) \/ Acts(a)
    PROVE  StreamsInOrder'
<1>0. /\ Publishers \subseteq Actors /\ Clients \subseteq Actors /\ Clients \cap Publishers = {}
      /\ first \in [Clients -> Nat] /\ shown \in [Clients -> Summary \cup {Closed}]
      /\ Actors = Clients \cup Publishers
  BY ActorFacts DEF TypeOK
<1>1. CASE ReadsQueue(a) \/ ReadsRest(a) \/ Acts(a) \/ (Numbers(a) /\ a \in Publishers)
  BY <1>1, SamePages, SameStreams
<1>2. CASE Numbers(a) /\ a \in Clients
  <2>1. /\ UNCHANGED <<inbox, first, shown>> /\ snap'[a].rev = revision + 1
        /\ \A c \in Clients \ {a} : snap'[c] = snap[c]
    BY <1>0, <1>2 DEF Numbers, Changed
  <2>2. \A i \in DOMAIN inbox[a] : ~(inbox[a][i].rev >= revision + 1)
    BY <1>2, CountFacts DEF Numbered
  <2> QED
    BY <2>1, <2>2 DEF StreamsInOrder, NotBefore, Queue
<1>3. CASE Sends(a)
  <2>1. /\ a \in Publishers /\ a \in Waiting /\ snap[a].at = "send" /\ UNCHANGED <<first, shown>>
        /\ \A c \in Clients : snap'[c] = snap[c]
    BY <1>0, <1>3, WaitingSteps DEF Sends, Changed
  <2> DEFINE s == SummaryOf(a)
  <2>2. /\ s.rev = revision /\ s.rev \in Nat /\ Queue(s) \in Nat /\ Since(Queue(s))
    BY <1>0, <2>1, SummaryFacts, CountFacts DEF Numbered, ReadInOrder, Since
  <2> HIDE DEF s
  <2>3. SUFFICES ASSUME NEW c \in Clients, c \in Streaming
                 PROVE  /\ \A i, j \in DOMAIN inbox'[c] : i <= j =>
                              /\ inbox'[c][i].rev <= inbox'[c][j].rev
                              /\ Queue(inbox'[c][i]) <= Queue(inbox'[c][j])
                        /\ snap[c].at = "send" => \A i \in DOMAIN inbox'[c] :
                              NotBefore(inbox'[c][i], snap[c].rev, Queue(snap[c]))
                        /\ shown[c] # Closed => \A i \in DOMAIN inbox'[c] :
                              inbox'[c][i].rev >= first[c] =>
                                  /\ inbox'[c][i].rev >= shown[c].rev
                                  /\ Queue(inbox'[c][i]) >= Queue(shown[c])
    <3>1. \A c \in Clients : c \notin Streaming => inbox'[c] = inbox[c]
      BY <1>3 DEF Sends
    <3> QED
      BY <2>1, <3>1 DEF StreamsInOrder, NotBefore, Queue
  <2>4. Gets(c, s)
    BY <1>3, <2>3, StreamGets DEF s
  <2>5. \A i \in DOMAIN inbox'[c] :
           inbox'[c][i] = s \/ \E j \in DOMAIN inbox[c] : inbox'[c][i] = inbox[c][j]
    BY <2>4, StreamHas
  <2>6. ASSUME NEW i \in DOMAIN inbox'[c], NEW j \in DOMAIN inbox'[c], i <= j
        PROVE  /\ inbox'[c][i].rev <= inbox'[c][j].rev
               /\ Queue(inbox'[c][i]) <= Queue(inbox'[c][j])
    <3>1. CASE inbox'[c][j] = s
      <4>1. CASE inbox'[c][i] = s
        BY <2>2, <3>1, <4>1
      <4>2. CASE \E k \in DOMAIN inbox[c] : inbox'[c][i] = inbox[c][k]
        BY <2>2, <2>3, <3>1, <4>2 DEF Numbered, Since
      <4> QED
        BY <2>5, <4>1, <4>2
    <3>2. CASE \E k, l \in DOMAIN inbox[c] :
                  k <= l /\ inbox'[c][i] = inbox[c][k] /\ inbox'[c][j] = inbox[c][l]
      BY <3>2 DEF StreamsInOrder
    <3> QED
      BY <2>4, <2>6, <3>1, <3>2, StreamInOrder
  <2>7. ASSUME snap[c].at = "send", NEW i \in DOMAIN inbox'[c]
        PROVE  NotBefore(inbox'[c][i], snap[c].rev, Queue(snap[c]))
    <3>1. CASE inbox'[c][i] = s
      <4>1. Queue(snap[c]) \in Nat
        BY <1>0, CountFacts
      <4> QED
        BY <2>2, <2>3, <2>7, <3>1, <4>1 DEF NotBefore, Since
    <3>2. CASE \E j \in DOMAIN inbox[c] : inbox'[c][i] = inbox[c][j]
      BY <2>7, <3>2 DEF StreamsInOrder
    <3> QED
      BY <2>5, <2>7, <3>1, <3>2
  <2>8. ASSUME shown[c] # Closed, NEW i \in DOMAIN inbox'[c], inbox'[c][i].rev >= first[c]
        PROVE  inbox'[c][i].rev >= shown[c].rev /\ Queue(inbox'[c][i]) >= Queue(shown[c])
    <3>1. CASE inbox'[c][i] = s
      <4>1. shown[c].rev \in Nat /\ Queue(shown[c]) \in Nat
        BY <2>8, CountFacts
      <4>2. shown[c].rev <= s.rev /\ Queue(shown[c]) <= Queue(s)
        BY <2>2, <2>8 DEF Numbered, Since
      <4> QED
        BY <2>2, <3>1, <4>1, <4>2
    <3>2. CASE \E j \in DOMAIN inbox[c] : inbox'[c][i] = inbox[c][j]
      BY <2>8, <3>2 DEF StreamsInOrder
    <3> QED
      BY <2>5, <2>8, <3>1, <3>2
  <2> QED
    BY <2>6, <2>7, <2>8
<1>4. CASE Shows(a)
  <2>1. /\ a \in Clients /\ snap[a].at = "send" /\ snap'[a].at = "no" /\ UNCHANGED inbox
        /\ \A c \in Clients \ {a} : snap'[c] = snap[c]
        /\ shown' = [shown EXCEPT ![a] = SummaryOf(a)] /\ first' = [first EXCEPT ![a] = snap[a].rev]
    BY <1>0, <1>4 DEF Shows, Changed
  <2>2. /\ shown'[a] = SummaryOf(a) /\ first'[a] = snap[a].rev
        /\ \A c \in Clients \ {a} : shown'[c] = shown[c] /\ first'[c] = first[c]
    BY <1>0, <2>1
  <2>3. ASSUME NEW i \in DOMAIN inbox[a], inbox[a][i].rev >= snap[a].rev
        PROVE  inbox[a][i].rev >= SummaryOf(a).rev /\ Queue(inbox[a][i]) >= Queue(SummaryOf(a))
    BY <2>1, <2>3, SummaryFacts DEF StreamsInOrder, NotBefore
  <2> QED
    BY <2>1, <2>2, <2>3 DEF StreamsInOrder, NotBefore, Queue
<1> QED
  BY <1>0, <1>1, <1>2, <1>3, <1>4

LEMMA PageSteps ==
    ASSUME TypeOK, Settled, OrderKept, Numbered, ReadInOrder, StreamsInOrder,
           NEW c \in Clients, Receive(c) \/ Close(c)
    PROVE  OrderKept' /\ Numbered' /\ ReadInOrder' /\ StreamsInOrder'
<1>0. /\ inbox \in [Clients -> Seq(Summary)] /\ first \in [Clients -> Nat]
      /\ shown \in [Clients -> Summary \cup {Closed}] /\ Clients \subseteq Actors
  BY ActorFacts DEF TypeOK
<1>1. UNCHANGED <<db, owed, active, revision, snap, ahead, worker, drains, opens>> /\ ~Busy(c)
  BY DEF Receive, Close, Settled
<1>2. Waiting' = Waiting
  BY <1>1, WaitingFacts
<1>3. OrderKept'
  BY <1>1, <1>2 DEF OrderKept
\* What pages have is part of what they had.
<1>4. ASSUME \A d \in Clients : \A i \in DOMAIN inbox'[d] :
                \E j \in DOMAIN inbox[d] : inbox'[d][i] = inbox[d][j],
             \A d \in Clients : shown'[d] # Closed =>
                \/ shown'[d] = shown[d]
                \/ \E i \in DOMAIN inbox[d] : shown'[d] = inbox[d][i],
             \A d \in Clients : first'[d] = first[d] \/ first'[d] = 0
      PROVE  Numbered' /\ ReadInOrder'
  <2>1. \A d \in Clients : \A i \in DOMAIN inbox'[d] : inbox'[d][i].rev <= revision
    BY <1>4 DEF Numbered
  <2>2. \A d \in Clients : first'[d] <= revision /\ (shown'[d] # Closed => shown'[d].rev <= revision)
    BY <1>4, CountFacts DEF Numbered
  <2>3. Numbered'
    BY <1>1, <2>1, <2>2 DEF Numbered
  <2>4. ASSUME NEW v, Since(v)
        PROVE  Since(v)'
    BY <1>1, <1>4, <2>4 DEF Since
  <2>5. Since(db["queue"])'
    BY <1>1, <2>4 DEF ReadInOrder, Since
  <2>6. ASSUME NEW b \in Waiting
        PROVE  Queue(snap'[b]) <= db'["queue"] /\ Since(Queue(snap[b]))'
    <3> DEFINE v == Queue(snap[b])
    <3>1. Queue(snap'[b]) = v /\ v <= db["queue"] /\ Since(v)
      BY <1>1 DEF ReadInOrder
    <3> QED
      BY <1>1, <2>4, <3>1 DEF Since
  <2>7. \A b \in Actors : \A d \in ahead'[b] : Queue(snap'[d]) <= Queue(snap'[b])
    BY <1>1 DEF ReadInOrder
  <2> QED
    BY <1>2, <2>3, <2>5, <2>6, <2>7 DEF ReadInOrder
<1>5. CASE Receive(c)
  <2>1. /\ Len(inbox[c]) \in Nat \ {0} /\ 1 \in DOMAIN inbox[c] /\ DOMAIN inbox[c] = 1..Len(inbox[c])
        /\ \A i \in DOMAIN inbox'[c] : i + 1 \in DOMAIN inbox[c] /\ inbox'[c][i] = inbox[c][i + 1]
        /\ DOMAIN inbox'[c] = 1..(Len(inbox[c]) - 1)
        /\ \A d \in Clients \ {c} : inbox'[d] = inbox[d]
        /\ Head(inbox[c]) = inbox[c][1]
    BY <1>5, StreamTaken
  <2>2. /\ shown[c] # Closed /\ first' = first
        /\ \A d \in Clients \ {c} : shown'[d] = shown[d]
        /\ \/ inbox[c][1].rev < first[c] /\ shown'[c] = shown[c]
           \/ inbox[c][1].rev >= first[c] /\ shown'[c] = inbox[c][1]
    <3>1. inbox[c][1].rev \in Nat /\ first[c] \in Nat
      BY <2>1, CountFacts
    <3>2. shown' = IF inbox[c][1].rev < first[c] THEN shown ELSE [shown EXCEPT ![c] = inbox[c][1]]
      BY <1>5, <2>1 DEF Receive
    <3>3. shown[c] # Closed /\ first' = first
      BY <1>5 DEF Receive
    <3> QED
      BY <1>0, <3>1, <3>2, <3>3
  <2>3. Numbered' /\ ReadInOrder'
    BY <1>4, <2>1, <2>2
  <2>4. \A i, j \in DOMAIN inbox'[c] : i <= j =>
           inbox'[c][i].rev <= inbox'[c][j].rev /\ Queue(inbox'[c][i]) <= Queue(inbox'[c][j])
    <3> SUFFICES ASSUME NEW i \in DOMAIN inbox'[c], NEW j \in DOMAIN inbox'[c], i <= j
                 PROVE  /\ inbox'[c][i].rev <= inbox'[c][j].rev
                        /\ Queue(inbox'[c][i]) <= Queue(inbox'[c][j])
      OBVIOUS
    <3>1. i + 1 <= j + 1 /\ i + 1 \in DOMAIN inbox[c] /\ j + 1 \in DOMAIN inbox[c]
      BY <2>1
    <3> QED
      BY <2>1, <3>1 DEF StreamsInOrder
  <2>5. ASSUME NEW i \in DOMAIN inbox'[c], inbox'[c][i].rev >= first[c]
        PROVE  inbox'[c][i].rev >= shown'[c].rev /\ Queue(inbox'[c][i]) >= Queue(shown'[c])
    <3>1. i + 1 \in DOMAIN inbox[c] /\ inbox'[c][i] = inbox[c][i + 1] /\ 1 <= i + 1
      BY <2>1
    <3>2. CASE shown'[c] = shown[c]
      BY <2>2, <2>5, <3>1, <3>2 DEF StreamsInOrder
    <3>3. CASE shown'[c] = inbox[c][1]
      <4>1. inbox[c][1].rev <= inbox[c][i + 1].rev /\ Queue(inbox[c][1]) <= Queue(inbox[c][i + 1])
        BY <2>1, <3>1 DEF StreamsInOrder
      <4>2. /\ inbox[c][1].rev \in Nat /\ Queue(inbox[c][1]) \in Nat
            /\ inbox[c][i + 1].rev \in Nat /\ Queue(inbox[c][i + 1]) \in Nat
        BY <2>1, <3>1, CountFacts
      <4> QED
        BY <3>1, <3>3, <4>1, <4>2
    <3> QED
      BY <2>2, <3>2, <3>3
  <2>6. snap[c].at # "send"
    BY <1>1 DEF Busy
  <2>7. StreamsInOrder'
    <3> DEFINE Ordered(d) ==
          /\ \A i, j \in DOMAIN inbox[d] : i <= j =>
                inbox[d][i].rev <= inbox[d][j].rev /\ Queue(inbox[d][i]) <= Queue(inbox[d][j])
          /\ snap[d].at = "send" =>
                \A i \in DOMAIN inbox[d] : NotBefore(inbox[d][i], snap[d].rev, Queue(snap[d]))
          /\ shown[d] # Closed => \A i \in DOMAIN inbox[d] :
                inbox[d][i].rev >= first[d] =>
                    inbox[d][i].rev >= shown[d].rev /\ Queue(inbox[d][i]) >= Queue(shown[d])
    <3>1. ASSUME NEW d \in Clients \ {c}
          PROVE  Ordered(d)'
      <4>1. Ordered(d)
        BY DEF StreamsInOrder
      <4>2. UNCHANGED <<inbox[d], shown[d], first[d], snap>>
        BY <1>1, <2>1, <2>2
      <4> QED
        BY <4>1, <4>2 DEF NotBefore
    <3>2. Ordered(c)'
      BY <1>1, <2>2, <2>4, <2>5, <2>6
    <3> HIDE DEF Ordered
    <3>3. \A d \in Clients : Ordered(d)'
      BY <3>1, <3>2
    <3> QED
      BY <3>3 DEF Ordered, StreamsInOrder
  <2> QED
    BY <1>3, <2>3, <2>7
<1>6. CASE Close(c)
  <2>1. /\ inbox' = [inbox EXCEPT ![c] = <<>>] /\ shown' = [shown EXCEPT ![c] = Closed]
        /\ first' = [first EXCEPT ![c] = 0]
    BY <1>6 DEF Close
  <2>2. /\ DOMAIN inbox'[c] = {} /\ shown'[c] = Closed
        /\ \A d \in Clients \ {c} : inbox'[d] = inbox[d] /\ shown'[d] = shown[d] /\ first'[d] = first[d]
        /\ first'[c] = 0
    BY <1>0, <2>1
  <2>3. Numbered' /\ ReadInOrder'
    BY <1>4, <2>2
  <2>4. StreamsInOrder'
    BY <1>1, <2>2 DEF StreamsInOrder, NotBefore
  <2> QED
    BY <1>3, <2>3, <2>4
<1> QED
  BY <1>5, <1>6

LEMMA OrderInit ==
    ASSUME Init
    PROVE  SInv
<1>1. TInv
  BY TypeInit
<1>2. /\ \A a \in Actors : snap[a].at = "no" /\ ahead[a] = {}
      /\ \A c \in Clients : inbox[c] = <<>> /\ first[c] = 0 /\ shown[c] = Closed
      /\ revision = 0 /\ db["queue"] = 0
  BY SnapFacts DEF Init, Zero, Tables
<1>3. Waiting = {} /\ Publishers \subseteq Actors /\ Clients \subseteq Actors
  BY <1>2, WaitingFacts, ActorFacts
<1>4. \A c \in Clients : DOMAIN inbox[c] = {}
  BY <1>2
<1>5. OrderKept /\ Numbered
  BY <1>2, <1>3, <1>4 DEF OrderKept, Numbered
<1>6. ReadInOrder /\ StreamsInOrder
  BY <1>2, <1>3, <1>4 DEF ReadInOrder, StreamsInOrder, Since
<1> QED
  BY <1>1, <1>5, <1>6 DEF SInv

LEMMA SentSteps ==
    ASSUME Faithful, SInv, NEW a \in Actors,
           ReadsQueue(a) \/ ReadsRest(a) \/ Numbers(a) \/ Sends(a) \/ Shows(a) \/ Acts(a),
           TInv'
    PROVE  SInv'
<1>1. InOrder /\ TypeOK /\ OrderKept /\ Numbered /\ ReadInOrder /\ StreamsInOrder /\ TypeOK'
  BY DEF Faithful, SInv, TInv
<1>2. OrderKept'
  BY <1>1, OrderPublish
<1>3. Numbered'
  BY <1>1, NumberedSteps
<1>4. ReadInOrder'
  BY <1>1, ReadSteps
<1>5. StreamsInOrder'
  BY <1>1, StreamSteps
<1> QED
  BY <1>2, <1>3, <1>4, <1>5 DEF SInv

LEMMA PublishFacts ==
    ASSUME TypeOK, NEW a \in Actors, Publish(a)
    PROVE  ReadsQueue(a) \/ ReadsRest(a) \/ Numbers(a) \/ Sends(a) \/ Shows(a)
BY ReadQueueFacts, ReadRestFacts, NumberFacts, SendFacts, ShowFacts DEF Publish

\* Every step is that of a snapshot, of somebody who acts, or of a page.
LEMMA StepFacts ==
    ASSUME TInv, Next
    PROVE  \/ \E a \in Actors : Publish(a)
           \/ \E a \in Actors : Acts(a)
           \/ \E c \in Clients : Receive(c) \/ Close(c)
<1>0. TypeOK /\ Settled
  BY DEF TInv
<1>1. CASE \E h \in Handlers : Handler(h)
  BY <1>0, <1>1, HandlerFacts, ActorFacts
<1>2. CASE \E w \in Workers : Drain(w)
  BY <1>0, <1>2, WorkerFacts, ActorFacts
<1>3. CASE \E c \in Clients : Page(c)
  BY <1>0, <1>3, OpenFacts, ActorFacts DEF Page
<1> QED
  BY <1>1, <1>2, <1>3 DEF Next

LEMMA OrderStep ==
    ASSUME Faithful, SInv, [Next]_vars
    PROVE  SInv'
<1>0. TInv /\ TypeOK /\ Settled /\ OrderKept /\ Numbered /\ ReadInOrder /\ StreamsInOrder
  BY DEF SInv, TInv
<1>1. TInv'
  BY <1>0, TypeStep
<1>2. CASE \E a \in Actors : Publish(a)
  BY <1>0, <1>1, <1>2, PublishFacts, SentSteps
<1>3. CASE \E a \in Actors : Acts(a)
  BY <1>1, <1>3, SentSteps
<1>4. CASE \E c \in Clients : Receive(c) \/ Close(c)
  BY <1>0, <1>1, <1>4, PageSteps DEF SInv
<1>5. CASE UNCHANGED vars
  <2>1. Waiting' = Waiting
    BY <1>5, WaitingFacts DEF vars
  <2>2. OrderKept' /\ Numbered'
    BY <1>0, <1>5, <2>1 DEF vars, OrderKept, Numbered
  <2>3. ReadInOrder' /\ StreamsInOrder'
    BY <1>0, <1>5, <2>1 DEF vars, ReadInOrder, StreamsInOrder, Since, NotBefore, Queue
  <2> QED
    BY <1>1, <2>2, <2>3 DEF SInv
<1> QED
  BY <1>0, <1>2, <1>3, <1>4, <1>5, StepFacts

\* What a page that stays open shows next has no lower number and no earlier queue.
Onward(c) ==
    shown[c] # Closed /\ shown'[c] # Closed =>
        shown'[c].rev >= shown[c].rev /\ shown'[c].seen["queue"] >= shown[c].seen["queue"]

LEMMA OnwardStep ==
    ASSUME Faithful, SInv, [Next]_vars, NEW c \in Clients
    PROVE  Onward(c)
<1>0. TInv /\ TypeOK /\ Settled /\ StreamsInOrder /\ shown \in [Clients -> Summary \cup {Closed}]
  BY DEF SInv, TInv, TypeOK
<1>1. ASSUME shown'[c] = shown[c]
      PROVE  Onward(c)
  BY <1>0, <1>1, CountFacts DEF Onward, Queue
<1>2. ASSUME NEW a \in Actors, Publish(a)
      PROVE  Onward(c)
  <2>1. CASE Shows(a) /\ a = c
    <3>1. shown[c] = Closed
      BY <1>0, <2>1 DEF Shows, Settled, Busy
    <3> QED
      BY <3>1 DEF Onward
  <2>2. CASE Shows(a) /\ a # c
    BY <1>0, <1>1, <2>2 DEF Shows
  <2>3. CASE ReadsQueue(a) \/ ReadsRest(a) \/ Numbers(a) \/ Sends(a)
    BY <1>1, <2>3 DEF ReadsQueue, ReadsRest, Numbers, Sends
  <2> QED
    BY <1>0, <1>2, <2>1, <2>2, <2>3, PublishFacts
<1>3. ASSUME NEW d \in Clients, Receive(d)
      PROVE  Onward(c)
  <2>1. CASE shown'[c] = shown[c]
    BY <1>1, <2>1
  <2>2. CASE shown'[c] # shown[c]
    <3>1. d = c /\ shown[c] # Closed /\ shown'[c] = Head(inbox[c]) /\ ~(Head(inbox[c]).rev < first[c])
      BY <1>0, <1>3, <2>2 DEF Receive
    <3>2. Head(inbox[c]) = inbox[c][1] /\ 1 \in DOMAIN inbox[c]
      BY <1>0, <1>3, <3>1, StreamTaken
    <3>3. inbox[c][1].rev >= first[c]
      BY <1>0, <3>1, <3>2, CountFacts
    <3> QED
      BY <1>0, <3>1, <3>2, <3>3 DEF StreamsInOrder, Onward, Queue
  <2> QED
    BY <2>1, <2>2
<1>4. ASSUME NEW d \in Clients, Close(d)
      PROVE  Onward(c)
  <2>1. shown'[c] = Closed \/ shown'[c] = shown[c]
    BY <1>0, <1>4 DEF Close
  <2> QED
    BY <1>1, <2>1 DEF Onward
<1>5. CASE \E a \in Actors : Acts(a)
  BY <1>1, <1>5 DEF Acts
<1>6. CASE UNCHANGED vars
  BY <1>1, <1>6 DEF vars
<1> QED
  BY <1>0, <1>2, <1>3, <1>4, <1>5, <1>6, StepFacts
-----------------------------------------------------------------------------
(* What the last summary has *)

LEMMA NothingElse ==
    ASSUME Allowed = {}
    PROVE  Faithful /\ InOrder /\ "query fails" \notin Allowed /\ "panic" \notin Allowed
BY DEF Faithful, InOrder

LEMMA OwedFacts ==
    ASSUME TypeOK
    PROVE  /\ \A t \in Tables : owed[t] \in Nat /\ db[t] \in Nat
           /\ "queue" \in Tables /\ "rest" \in Tables
           /\ \A a \in Actors : \A t \in Tables : snap[a].seen[t] \in Nat
BY SnapFacts DEF TypeOK, Tables

LEMMA DrainStep ==
    ASSUME Allowed = {}, TypeOK, Settled, OneDrain, Next
    PROVE  OneDrain'
<1>0. worker \in [Workers -> {"no", "first", "drain", "last"}]
  BY DEF TypeOK
<1>1. ASSUME UNCHANGED <<active, worker>>
      PROVE  OneDrain'
  BY <1>1 DEF OneDrain, Draining
<1>2. ASSUME NEW a \in Actors, Publish(a)
      PROVE  OneDrain'
  <2>1. CASE Sends(a)
    <3>1. \A w \in Workers : worker'[w] \in {"first", "drain"} <=> worker[w] \in {"first", "drain"}
      BY <1>0, <2>1 DEF Sends
    <3>2. active' = active
      BY <2>1 DEF Sends
    <3>3. Draining' <=> Draining
      BY <3>1 DEF Draining
    <3>4. Draining' = Draining
      BY <3>3 DEF Draining
    <3> QED
      BY <3>1, <3>2, <3>4 DEF OneDrain
  <2>2. CASE ReadsQueue(a) \/ ReadsRest(a) \/ Numbers(a) \/ Shows(a)
    BY <1>1, <2>2 DEF ReadsQueue, ReadsRest, Numbers, Shows
  <2> QED
    BY <1>2, <2>1, <2>2, PublishFacts
<1>3. ASSUME NEW w \in Workers, Process(w)
      PROVE  OneDrain'
  <2>1. ~active /\ active' = TRUE /\ worker' = [worker EXCEPT ![w] = "first"]
    BY <1>3 DEF Process
  <2>2. \A x \in Workers : worker[x] \notin {"first", "drain"}
    BY <2>1 DEF OneDrain, Draining
  <2>3. /\ worker'[w] = "first"
        /\ \A x \in Workers : worker'[x] \in {"first", "drain"} => x = w
    BY <1>0, <2>1, <2>2
  <2>4. Draining' = TRUE
    BY <2>3 DEF Draining
  <2> QED
    BY <2>1, <2>3, <2>4 DEF OneDrain
<1>4. ASSUME NEW w \in Workers, Work(w)
      PROVE  OneDrain'
  <2>1. worker[w] \in {"first", "drain"} /\ worker' = [worker EXCEPT ![w] = "drain"] /\ active' = active
    BY <1>4 DEF Work
  <2>2. \A x \in Workers : worker'[x] \in {"first", "drain"} <=> worker[x] \in {"first", "drain"}
    BY <1>0, <2>1
  <2>3. Draining' = TRUE /\ Draining = TRUE
    BY <2>1, <2>2 DEF Draining
  <2> QED
    BY <2>1, <2>2, <2>3 DEF OneDrain
<1>5. ASSUME NEW w \in Workers, End(w)
      PROVE  OneDrain'
  <2>1. PICK dies \in {FALSE} \cup {"panic" \in Allowed} : Ended(w, dies) /\ active' = dies
    BY <1>5 DEF End
  <2>2. ("panic" \in Allowed) = FALSE
    BY NothingElse
  <2>3. dies = FALSE
    BY <2>1, <2>2, Zenon
  <2>4. worker' = [worker EXCEPT ![w] = "last"] /\ active' = FALSE
    BY <2>1, <2>3 DEF Ended
  <2>5. worker[w] \in {"first", "drain"}
    BY <1>5 DEF End, AtEnd
  <2>6. \A x \in Workers : worker'[x] \notin {"first", "drain"}
    BY <1>0, <2>4, <2>5 DEF OneDrain
  <2>7. Draining' = FALSE
    BY <2>6 DEF Draining
  <2> QED
    BY <2>4, <2>6, <2>7 DEF OneDrain
<1>6. CASE \E h \in Handlers : Handler(h)
  BY <1>1, <1>6, HandlerFacts
<1>7. CASE \E c \in Clients : Page(c)
  BY <1>1, <1>7, OpenFacts DEF Page, Receive, Close
<1> QED
  BY <1>2, <1>3, <1>4, <1>5, <1>6, <1>7 DEF Next, Drain

LEMMA OwingStep ==
    ASSUME TInv, Owing, Next
    PROVE  Owing'
<1>0. TypeOK /\ Settled /\ \A t \in Tables : owed[t] \in Nat /\ db[t] \in Nat
  BY OwedFacts DEF TInv
<1>1. ASSUME NEW a \in Actors, Acts(a)
      PROVE  Owing'
  <2>1. SUFFICES ASSUME NEW t \in Tables
                 PROVE  owed'[t] <= db'[t]
    BY DEF Owing
  <2>2. /\ db' \in Versions /\ db'[t] >= db[t]
        /\ owed'[t] = owed[t] \/ owed'[t] = db'[t]
    BY <1>1 DEF Acts
  <2>3. db'[t] \in Nat
    BY <2>2, SnapFacts DEF Tables
  <2> QED
    BY <1>0, <2>2, <2>3 DEF Owing
<1>2. CASE UNCHANGED <<db, owed>>
  BY <1>2 DEF Owing
<1>3. CASE \E a \in Actors : Publish(a)
  BY <1>0, <1>2, <1>3, PublishFacts DEF ReadsQueue, ReadsRest, Numbers, Sends, Shows
<1>4. CASE \E c \in Clients : Receive(c) \/ Close(c)
  BY <1>2, <1>4 DEF Receive, Close
<1> QED
  BY <1>1, <1>3, <1>4, StepFacts

\* Somebody acts and lets no publisher begin: all that was is.
Unasked(a) ==
    /\ Acts(a) /\ UNCHANGED <<owed, active>>
    /\ a \in Publishers => snap'[a].at = "no"

LEMMA ActCases ==
    ASSUME Allowed = {}, TypeOK, NEW a \in Actors, Acts(a)
    PROVE  Unasked(a) \/ (a \in Publishers /\ snap'[a].at = "begin")
<1>1. CASE a \in Clients
  BY <1>1, ActorFacts DEF Acts, Unasked
<1>2. CASE a \in Publishers /\ snap'[a].at = "no"
  <2>1. \A t \in Tables : owed'[t] = owed[t]
    BY <1>2 DEF Acts
  <2>2. owed' \in [Tables -> 0..MaxWrites] /\ owed \in [Tables -> 0..MaxWrites]
    BY DEF Acts, TypeOK, Versions
  <2>3. owed' = owed
    BY <2>1, <2>2
  <2>4. active' = active
    BY <1>2, NothingElse DEF Acts
  <2> QED
    BY <1>2, <2>3, <2>4 DEF Unasked
<1> QED
  BY <1>1, <1>2, ActorFacts DEF Acts

\* Whoever somebody is ahead of is on his way.
LEMMA LaterFacts ==
    ASSUME OrderKept, TypeOK, NEW a \in Actors, NEW b \in Publishers, a \in ahead[b]
    PROVE  b \in Waiting /\ Busy(b)
<1>1. b \in Waiting
  BY ActorFacts DEF OrderKept
<1> QED
  BY <1>1, WaitingFacts DEF Busy

LEMMA FollowStep ==
    ASSUME Allowed = {}, TypeOK, OrderKept, Owing, OwedFollows, NEW a \in Actors,
           ReadsQueue(a) \/ ReadsRest(a) \/ Numbers(a) \/ Sends(a) \/ Shows(a) \/ Acts(a)
    PROVE  OwedFollows'
<1>0. /\ ahead \in [Actors -> SUBSET Actors] /\ Publishers \subseteq Actors
      /\ Waiting \subseteq Actors /\ Waiting' \subseteq Actors
      /\ owed["queue"] <= db["queue"] /\ owed["rest"] <= db["rest"]
      /\ \A t \in Tables : owed[t] \in Nat /\ db[t] \in Nat
      /\ "queue" \in Tables /\ "rest" \in Tables
  BY WaitingFacts, ActorFacts, OwedFacts DEF TypeOK, Owing
<1> DEFINE Others == \A b \in Actors \ {a} : snap'[b] = snap[b]
<1>1. Others
  BY DEF ReadsQueue, ReadsRest, Numbers, Sends, Shows, Acts, Changed
<1>2. ASSUME UNCHANGED owed, NEW b \in Actors \ {a}
      PROVE  Whole(snap[b])' <=> Whole(snap[b])
  BY <1>1, <1>2 DEF Whole, Queue
<1>3. CASE ReadsQueue(a)
  <2>1. /\ Waiting' = Waiting \cup {a} /\ UNCHANGED owed
        /\ ahead'[a] = Waiting /\ \A b \in Actors \ {a} : ahead'[b] = ahead[b]
        /\ snap'[a].at = "rest" /\ Queue(snap'[a]) = db["queue"] /\ a \notin Waiting
    BY <1>0, <1>3, WaitingSteps, NothingElse DEF ReadsQueue
  <2>2. Whole(snap[a])'
    BY <1>0, <2>1 DEF Whole, Queue
  <2>3. CASE a \in Publishers
    BY <2>1, <2>2, <2>3 DEF OwedFollows, Later
  <2>4. CASE a \notin Publishers
    <3>1. Starting => Starting'
      BY <1>0, <1>1, <2>4 DEF Starting
    <3>2. \A b : Later(b) => Later(b)'
      BY <1>0, <2>1, <2>4 DEF Later
    <3> QED
      BY <1>0, <1>2, <2>1, <2>2, <3>1, <3>2 DEF OwedFollows
  <2> QED
    BY <2>3, <2>4
<1>4. CASE ReadsRest(a) \/ (Numbers(a) /\ a \in Publishers)
  <2>1. /\ Waiting' = Waiting /\ UNCHANGED <<ahead, owed>> /\ snap[a].at # "begin"
    BY <1>4, WaitingSteps, ActorFacts DEF ReadsRest, Numbers
  <2>2. Whole(snap[a]) => Whole(snap[a])'
    <3>1. CASE ReadsRest(a)
      BY <1>0, <3>1, NothingElse DEF ReadsRest, Whole, Queue
    <3>2. CASE Numbers(a)
      BY <3>2 DEF Numbers, Whole, Queue
    <3> QED
      BY <1>4, <3>1, <3>2
  <2>3. Starting => Starting'
    BY <1>0, <1>1, <2>1 DEF Starting
  <2>4. \A b : Later(b) => Later(b)'
    BY <2>1 DEF Later
  <2> QED
    BY <1>0, <1>2, <2>1, <2>2, <2>3, <2>4 DEF OwedFollows
<1>5. CASE (Numbers(a) /\ a \in Clients) \/ Sends(a)
  <2>1. /\ Waiting' = Waiting \ {a} /\ Leave(a) /\ UNCHANGED owed /\ snap[a].at # "begin"
        /\ ahead[a] = {}
    BY <1>5, WaitingSteps, NothingElse DEF Numbers, Sends, InTurn, InOrder
  <2>2. \A b \in Actors \ {a} : ahead'[b] = ahead[b] \ {a}
    BY <2>1, LeaveType
  <2>3. Starting => Starting'
    BY <1>0, <1>1, <2>1 DEF Starting
  <2>4. \A b \in Waiting' : Later(b) => Later(b)'
    BY <1>0, <2>1, <2>2 DEF Later
  <2> QED
    BY <1>0, <1>2, <2>1, <2>3, <2>4 DEF OwedFollows
<1>6. CASE Shows(a) \/ Unasked(a)
  <2>1. /\ Waiting' = Waiting /\ a \notin Waiting /\ UNCHANGED <<owed, ahead>>
        /\ a \in Publishers => snap[a].at # "begin"
    BY <1>6, WaitingSteps, ActorFacts DEF Shows, Unasked, Acts, Busy
  <2>2. Starting => Starting'
    BY <1>0, <1>1, <2>1 DEF Starting
  <2>3. \A b : Later(b) => Later(b)'
    BY <2>1 DEF Later
  <2> QED
    BY <1>0, <1>2, <2>1, <2>2, <2>3 DEF OwedFollows
<1>7. CASE a \in Publishers /\ snap'[a].at = "begin"
  BY <1>7 DEF OwedFollows, Starting
<1> QED
  BY <1>3, <1>4, <1>5, <1>6, <1>7, ActCases, ActorFacts

\* When nobody else publishes, a snapshot that has been read has all that is owed.
LEMMA LastHasAll ==
    ASSUME TypeOK, OrderKept, OwedFollows, NEW a \in Waiting, snap[a].at # "rest",
           \A b \in Publishers \ {a} : ~Busy(b), snap[a].at # "begin", a \notin ahead[a]
    PROVE  Covers(snap[a])
<1>1. a \in Actors /\ Publishers \subseteq Actors
  BY WaitingFacts, ActorFacts
<1>2. ~Starting
  BY DEF Starting, Busy
<1>3. ~Later(a)
  BY <1>1, LaterFacts DEF Later
<1>4. Whole(snap[a])
  BY <1>2, <1>3 DEF OwedFollows
<1> QED
  BY <1>4 DEF Whole, Covers, Queue, Tables

\* Pages and streams are as they were.
LEMMA SameEnds ==
    ASSUME NEW a, SameForPages(a), UNCHANGED <<owed, active>>, StreamsEnd, ~Publishing
    PROVE  StreamsEnd'
<1>1. ASSUME NEW c \in Clients
      PROVE  /\ snap'[c].at = "send" => Ends(c, snap[c].rev, Covers(snap[c]))'
             /\ shown'[c] # Closed => Ends(c, first[c], Current(shown[c]))'
  <2>1. UNCHANGED <<inbox, first, shown, owed, active>>
        /\ (snap'[c].at = "send" => snap'[c] = snap[c])
    BY DEF SameForPages
  <2> QED
    BY <2>1 DEF StreamsEnd, Ends, Covers, Current
<1> QED
  BY <1>1 DEF StreamsEnd

LEMMA EndSteps ==
    ASSUME Allowed = {}, TypeOK, Settled, OrderKept, Numbered, OwedFollows, StreamsEnd, NEW a \in Actors,
           ReadsQueue(a) \/ ReadsRest(a) \/ Numbers(a) \/ Sends(a) \/ Shows(a) \/ Acts(a)
    PROVE  StreamsEnd'
<1>0. /\ Publishers \subseteq Actors /\ Clients \subseteq Actors /\ Clients \cap Publishers = {}
      /\ Actors = Clients \cup Publishers
      /\ first \in [Clients -> Nat] /\ shown \in [Clients -> Summary \cup {Closed}]
  BY ActorFacts DEF TypeOK
<1>1. SUFFICES ASSUME ~Publishing' PROVE StreamsEnd'
  BY DEF StreamsEnd
<1>2. \A b \in Publishers \ {a} : ~Busy(b)
  <2>1. ASSUME NEW b \in Publishers \ {a}
        PROVE  ~Busy(b)
    <3>1. ~Busy(b)' /\ snap'[b] = snap[b]
      BY <1>0, <1>1 DEF Publishing, ReadsQueue, ReadsRest, Numbers, Sends, Shows, Acts, Changed
    <3> QED
      BY <3>1 DEF Busy
  <2> QED
    BY <2>1
<1>3. a \in Publishers => snap'[a].at = "no"
  BY <1>1 DEF Publishing, Busy
<1>4. CASE (ReadsQueue(a) \/ ReadsRest(a)) \/ Unasked(a)
  <2>1. ~Publishing
    BY <1>2, <1>3, <1>4 DEF Publishing, ReadsQueue, ReadsRest, Unasked, Acts
  <2>2. SameForPages(a) /\ UNCHANGED <<owed, active>>
    BY <1>4, SamePages DEF Unasked, ReadsQueue, ReadsRest
  <2> QED
    BY <2>1, <2>2, SameEnds
<1>5. CASE Numbers(a)
  <2>1. /\ a \in Clients /\ snap[a].at = "number" /\ snap'[a].at = "send" /\ a \in Waiting
        /\ snap'[a].seen = snap[a].seen /\ snap'[a].rev = revision + 1
        /\ ahead[a] = {} /\ UNCHANGED <<owed, active, inbox, first, shown>>
        /\ \A b \in Actors \ {a} : snap'[b] = snap[b]
    BY <1>0, <1>3, <1>5, WaitingSteps, NothingElse DEF Numbers, Changed, InTurn, InOrder
  <2>2. ~Publishing
    BY <1>0, <1>2, <2>1 DEF Publishing
  <2>3. Covers(snap[a])
    BY <1>2, <2>1, LastHasAll
  <2>4. Ends(a, snap[a].rev, Covers(snap[a]))'
    <3>1. Covers(snap[a])'
      BY <2>1, <2>3 DEF Covers
    <3>2. ASSUME inbox[a] # <<>>
          PROVE  ~(LastOf(inbox[a]).rev >= revision + 1)
      <4>1. Len(inbox[a]) \in DOMAIN inbox[a]
        BY <2>1, <3>2 DEF TypeOK
      <4>2. LastOf(inbox[a]).rev <= revision /\ LastOf(inbox[a]).rev \in Nat /\ revision \in Nat
        BY <2>1, <4>1, CountFacts DEF Numbered, LastOf
      <4> QED
        BY <4>2
    <3> QED
      BY <2>1, <3>1, <3>2 DEF Ends
  <2>5. ASSUME NEW c \in Clients \ {a}, snap'[c].at = "send"
        PROVE  Ends(c, snap[c].rev, Covers(snap[c]))'
    <3>1. snap'[c] = snap[c]
      BY <1>0, <2>1
    <3>2. Ends(c, snap[c].rev, Covers(snap[c]))
      BY <2>2, <2>5, <3>1 DEF StreamsEnd
    <3> QED
      BY <2>1, <3>1, <3>2 DEF Ends, Covers, Current
  <2>6. ASSUME NEW c \in Clients, shown'[c] # Closed
        PROVE  Ends(c, first[c], Current(shown[c]))'
    BY <2>1, <2>2, <2>6 DEF StreamsEnd, Ends, Covers, Current
  <2> QED
    BY <2>4, <2>5, <2>6 DEF StreamsEnd
<1>6. CASE Sends(a)
  <2>1. /\ a \in Publishers /\ snap[a].at = "send" /\ a \in Waiting
        /\ UNCHANGED <<owed, active, first, shown>>
        /\ ahead[a] = {} /\ \A b \in Actors \ {a} : snap'[b] = snap[b]
    BY <1>6, WaitingSteps, NothingElse DEF Sends, Changed, InTurn, InOrder
  <2>2. Covers(snap[a])
    BY <1>2, <2>1, LastHasAll
  <2>3. Current(SummaryOf(a))
    BY <2>2, SummaryFacts DEF Current, Covers
  <2>4. ASSUME NEW c \in Streaming
        PROVE  /\ c \in Clients /\ inbox'[c] # <<>> /\ LastOf(inbox'[c]) = SummaryOf(a)
               /\ Current(LastOf(inbox[c]))'
    <3>1. c \in Clients /\ inbox'[c] # <<>> /\ LastOf(inbox'[c]) = SummaryOf(a)
      BY <1>6, StreamGets DEF Gets, Streaming
    <3> QED
      BY <2>1, <2>3, <3>1 DEF Current, Covers
  <2>5. SummaryOf(a).rev = revision
    BY <2>1, SummaryFacts DEF Numbered
  <2>6. ASSUME NEW c \in Clients, snap'[c].at = "send"
        PROVE  Ends(c, snap[c].rev, Covers(snap[c]))'
    <3>1. snap'[c] = snap[c] /\ snap[c].at = "send"
      BY <1>0, <2>1, <2>6
    <3>2. c \in Streaming
      BY <3>1 DEF Streaming, Busy
    <3>3. LastOf(inbox'[c]).rev >= snap'[c].rev
      BY <1>0, <2>4, <2>5, <3>1, <3>2, CountFacts DEF Numbered
    <3> QED
      BY <2>4, <3>2, <3>3 DEF Ends
  <2>7. ASSUME NEW c \in Clients, shown'[c] # Closed
        PROVE  Ends(c, first[c], Current(shown[c]))'
    <3>1. c \in Streaming
      BY <2>1, <2>7 DEF Streaming
    <3>2. LastOf(inbox'[c]).rev >= first'[c]
      BY <2>1, <2>4, <2>5, <3>1, CountFacts DEF Numbered
    <3> QED
      BY <2>4, <3>1, <3>2 DEF Ends
  <2> QED
    BY <2>6, <2>7 DEF StreamsEnd
<1>7. CASE Shows(a)
  <2>1. /\ a \in Clients /\ snap[a].at = "send" /\ snap'[a].at = "no"
        /\ shown'[a] = SummaryOf(a) /\ first'[a] = snap[a].rev
        /\ \A c \in Clients \ {a} : shown'[c] = shown[c] /\ first'[c] = first[c]
        /\ \A b \in Actors \ {a} : snap'[b] = snap[b]
        /\ UNCHANGED <<owed, active, inbox>>
    BY <1>0, <1>7 DEF Shows, Changed
  <2>2. ~Publishing
    BY <1>0, <1>2, <2>1 DEF Publishing
  <2>3. Covers(snap[a]) => Current(SummaryOf(a))
    BY SummaryFacts DEF Current, Covers
  <2>4. Ends(a, first[a], Current(shown[a]))'
    <3>1. Ends(a, snap[a].rev, Covers(snap[a]))
      BY <2>1, <2>2 DEF StreamsEnd
    <3>2. Current(SummaryOf(a)) => Current(shown[a])'
      BY <2>1 DEF Current, Covers
    <3> QED
      BY <2>1, <2>3, <3>1, <3>2 DEF Ends, Current, Covers
  <2>5. ASSUME NEW c \in Clients \ {a}
        PROVE  /\ snap'[c].at = "send" => Ends(c, snap[c].rev, Covers(snap[c]))'
               /\ shown'[c] # Closed => Ends(c, first[c], Current(shown[c]))'
    BY <1>0, <2>1, <2>2 DEF StreamsEnd, Ends, Covers, Current
  <2> QED
    BY <2>1, <2>4, <2>5 DEF StreamsEnd
<1> QED
  BY <1>3, <1>4, <1>5, <1>6, <1>7, ActCases

\* What a page takes, or passes over, leaves the last as it was.
LEMMA PageEnds ==
    ASSUME TypeOK, Settled, StreamsInOrder, StreamsEnd, NEW c \in Clients, Receive(c) \/ Close(c)
    PROVE  StreamsEnd'
<1>0. /\ inbox \in [Clients -> Seq(Summary)] /\ first \in [Clients -> Nat]
      /\ shown \in [Clients -> Summary \cup {Closed}] /\ Clients \subseteq Actors
  BY ActorFacts DEF TypeOK
<1>1. /\ UNCHANGED <<owed, active, snap>> /\ snap[c].at = "no"
      /\ \A d \in Clients \ {c} : UNCHANGED <<inbox[d], first[d], shown[d]>>
  <2>1. UNCHANGED <<owed, active, snap>> /\ snap[c].at = "no"
    BY DEF Receive, Close, Settled, Busy
  <2>2. \A d \in Clients \ {c} : UNCHANGED <<inbox[d], first[d], shown[d]>>
    BY <1>0 DEF Receive, Close
  <2> QED
    BY <2>1, <2>2
<1>2. SUFFICES ASSUME ~Publishing PROVE StreamsEnd'
  BY <1>1 DEF StreamsEnd, Publishing, Busy
<1>3. ASSUME NEW d \in Clients \ {c}
      PROVE  /\ snap'[d].at = "send" => Ends(d, snap[d].rev, Covers(snap[d]))'
             /\ shown'[d] # Closed => Ends(d, first[d], Current(shown[d]))'
  <2>1. UNCHANGED <<inbox[d], first[d], shown[d]>>
    BY <1>1
  <2> QED
    BY <1>1, <1>2, <2>1 DEF StreamsEnd, Ends, Covers, Current
<1>4. ASSUME shown'[c] # Closed
      PROVE  Ends(c, first[c], Current(shown[c]))'
  <2>1. Receive(c) /\ shown[c] # Closed /\ first'[c] = first[c] /\ inbox[c] # <<>>
    BY <1>0, <1>4 DEF Receive, Close
  <2>2. Ends(c, first[c], Current(shown[c]))
    BY <1>2, <2>1 DEF StreamsEnd
  <2>3. /\ Len(inbox[c]) \in Nat \ {0} /\ 1 \in DOMAIN inbox[c] /\ Len(inbox[c]) \in DOMAIN inbox[c]
        /\ Head(inbox[c]) = inbox[c][1] /\ LastOf(inbox[c]) = inbox[c][Len(inbox[c])]
    BY <2>1, StreamTaken DEF LastOf
  <2>5. /\ Head(inbox[c]).rev < first[c] => shown'[c] = shown[c]
        /\ ~(Head(inbox[c]).rev < first[c]) => shown'[c] = Head(inbox[c])
    BY <1>0, <2>1 DEF Receive
  <2>6. /\ Head(inbox[c]).rev \in Nat /\ LastOf(inbox[c]).rev \in Nat /\ first[c] \in Nat
        /\ Head(inbox[c]).rev <= LastOf(inbox[c]).rev
    BY <2>3, CountFacts DEF StreamsInOrder
  <2>7. CASE Len(inbox[c]) = 1
    <3>1. inbox'[c] = <<>> /\ Head(inbox[c]) = LastOf(inbox[c])
      <4>1. inbox'[c] \in Seq(Summary) /\ Len(inbox'[c]) = 0
        BY <2>1, <2>7, StreamTaken, ReceiveType
      <4> QED
        BY <2>3, <2>7, <4>1
    <3>2. Current(shown[c])'
      <4>1. CASE Head(inbox[c]).rev < first[c]
        <5>1. ~(LastOf(inbox[c]).rev >= first[c])
          BY <2>6, <3>1, <4>1
        <5>2. Current(shown[c]) /\ shown'[c] = shown[c]
          BY <2>2, <2>5, <4>1, <5>1 DEF Ends
        <5> QED
          BY <1>1, <5>2 DEF Current, Covers
      <4>2. CASE ~(Head(inbox[c]).rev < first[c])
        <5>1. LastOf(inbox[c]).rev >= first[c]
          BY <2>6, <3>1, <4>2
        <5>2. Current(LastOf(inbox[c])) /\ shown'[c] = LastOf(inbox[c])
          BY <2>1, <2>2, <2>5, <3>1, <4>2, <5>1 DEF Ends
        <5> QED
          BY <1>1, <5>2 DEF Current, Covers
      <4> QED
        BY <4>1, <4>2
    <3> QED
      BY <3>1, <3>2 DEF Ends
  <2>8. CASE Len(inbox[c]) # 1
    <3>1. inbox'[c] # <<>> /\ LastOf(inbox'[c]) = LastOf(inbox[c])
      <4>1. /\ Len(inbox'[c]) = Len(inbox[c]) - 1
            /\ \A i \in 1..(Len(inbox[c]) - 1) : inbox'[c][i] = inbox[c][i + 1]
        BY <2>1, StreamTaken
      <4>2. Len(inbox[c]) - 1 \in 1..(Len(inbox[c]) - 1) /\ Len(inbox[c]) - 1 + 1 = Len(inbox[c])
        BY <2>3, <2>8
      <4>3. inbox'[c] # <<>>
        <5>1. inbox'[c] = <<>> => Len(inbox'[c]) = 0
          OBVIOUS
        <5>2. Len(inbox'[c]) # 0
          BY <2>3, <2>8, <4>1
        <5> QED
          BY <5>1, <5>2
      <4>4. inbox'[c][Len(inbox[c]) - 1] = inbox[c][Len(inbox[c])]
        BY <4>1, <4>2
      <4> QED
        BY <4>1, <4>3, <4>4 DEF LastOf
    <3>2. CASE LastOf(inbox[c]).rev >= first[c]
      <4>1. Current(LastOf(inbox[c])) /\ LastOf(inbox'[c]).rev >= first'[c]
        BY <2>1, <2>2, <3>1, <3>2 DEF Ends
      <4>2. Current(LastOf(inbox[c]))'
        BY <1>1, <3>1, <4>1 DEF Current, Covers
      <4> QED
        BY <3>1, <4>1, <4>2 DEF Ends
    <3>3. CASE ~(LastOf(inbox[c]).rev >= first[c])
      <4>1. Head(inbox[c]).rev < first[c]
        BY <2>6, <3>3
      <4>2. Current(shown[c]) /\ shown'[c] = shown[c]
        BY <2>2, <2>5, <3>3, <4>1 DEF Ends
      <4>3. Current(shown[c])'
        BY <1>1, <4>2 DEF Current, Covers
      <4>4. ~(LastOf(inbox'[c]).rev >= first'[c])
        BY <2>1, <3>1, <3>3
      <4> QED
        BY <4>3, <4>4 DEF Ends
    <3> QED
      BY <3>2, <3>3
  <2> QED
    BY <2>7, <2>8
<1>5. snap'[c].at # "send"
  BY <1>1
<1> QED
  BY <1>3, <1>4, <1>5 DEF StreamsEnd

LEMMA CurrentInit ==
    ASSUME Init
    PROVE  CInv
<1>1. SInv
  BY OrderInit
<1>2. /\ \A a \in Actors : snap[a].at = "no" /\ \A c \in Clients : shown[c] = Closed
      /\ active = FALSE /\ owed = db /\ db = Zero /\ \A w \in Workers : worker[w] = "no"
  BY SnapFacts DEF Init
<1>3. OneDrain
  <2>1. Draining = FALSE
    BY <1>2 DEF Draining
  <2> QED
    BY <1>2, <2>1 DEF OneDrain
<1>4. Owing
  BY <1>2 DEF Owing, Zero
<1>5. OwedFollows
  BY <1>2, WaitingFacts DEF OwedFollows
<1>6. StreamsEnd
  BY <1>2, ActorFacts DEF StreamsEnd
<1> QED
  BY <1>1, <1>3, <1>4, <1>5, <1>6 DEF CInv

LEMMA CurrentStep ==
    ASSUME Allowed = {}, CInv, [Next]_vars
    PROVE  CInv'
<1>0. /\ SInv /\ TInv /\ TypeOK /\ Settled /\ OrderKept /\ Numbered /\ StreamsInOrder
      /\ OneDrain /\ Owing /\ OwedFollows /\ StreamsEnd
  BY DEF CInv, SInv, TInv
<1>1. SInv'
  BY <1>0, NothingElse, OrderStep
<1>2. CASE Next
  <2>1. OneDrain' /\ Owing'
    BY <1>0, <1>2, DrainStep, OwingStep
  <2>2. CASE \E a \in Actors : Publish(a)
    BY <1>0, <1>1, <2>1, <2>2, PublishFacts, FollowStep, EndSteps DEF CInv
  <2>3. CASE \E a \in Actors : Acts(a)
    BY <1>0, <1>1, <2>1, <2>3, FollowStep, EndSteps DEF CInv
  <2>4. CASE \E c \in Clients : Receive(c) \/ Close(c)
    <3>1. UNCHANGED <<snap, ahead, owed>>
      BY <2>4 DEF Receive, Close
    <3>2. Waiting' = Waiting
      BY <3>1, WaitingFacts
    <3>3. OwedFollows'
      BY <1>0, <3>1, <3>2 DEF OwedFollows, Whole, Queue, Starting, Later
    <3>4. StreamsEnd'
      BY <1>0, <2>4, PageEnds
    <3> QED
      BY <1>1, <2>1, <3>3, <3>4 DEF CInv
  <2> QED
    BY <1>0, <1>2, <2>2, <2>3, <2>4, StepFacts
<1>3. CASE UNCHANGED vars
  <2>1. Waiting' = Waiting
    BY <1>3, WaitingFacts DEF vars
  <2>2. OneDrain' /\ Owing'
    BY <1>0, <1>3 DEF vars, OneDrain, Draining, Owing
  <2>3. OwedFollows'
    BY <1>0, <1>3, <2>1 DEF vars, OwedFollows, Whole, Queue, Starting, Later
  <2>4. StreamsEnd'
    BY <1>0, <1>3 DEF vars, StreamsEnd, Publishing, Busy, Ends, Covers, Current
  <2> QED
    BY <1>1, <2>2, <2>3, <2>4 DEF CInv
<1> QED
  BY <1>2, <1>3

LEMMA CurrentShown ==
    ASSUME CInv
    PROVE  ShownIsCurrent
<1>0. TypeOK /\ OneDrain /\ StreamsEnd
  BY DEF CInv, SInv, TInv
<1>1. ASSUME Quiet, NEW c \in Clients, shown[c] # Closed, inbox[c] = <<>>
      PROVE  (\A t \in Tables : shown[c].seen[t] >= owed[t]) /\ shown[c].active = Draining
  <2>1. ~Publishing
    BY <1>1, ActorFacts DEF Quiet, Publishing
  <2>2. Current(shown[c])
    BY <1>0, <1>1, <2>1 DEF StreamsEnd, Ends
  <2> QED
    BY <1>0, <2>2 DEF Current, Covers, OneDrain
<1> QED
  BY <1>0, <1>1 DEF ShownIsCurrent
-----------------------------------------------------------------------------
(* Theorems *)

\* SyncQueueSummary and the state of a stream (src/src/core/sync_queue.rs:36-135,
\* src/src/api/routes/sync.rs:53-81): every state has the types of TypeOK, and a stream
\* holds no more than it may, whatever fails, panics or is overtaken.
THEOREM TypeCorrect == Spec => []TypeOK
<1>1. Init => TInv
  BY TypeInit
<1>2. TInv /\ [Next]_vars => TInv'
  BY TypeStep
<1>3. TInv => TypeOK
  BY DEF TInv
<1> QED
  BY <1>1, <1>2, <1>3, PTL DEF Spec

\* queue_stream (src/src/api/routes/sync.rs:53-81) and publish_snapshot
\* (src/src/core/sync_queue.rs:107-135): once nothing is on its way, an open page that has
\* read its stream shows all that those who publish have written, and a drain if there is one,
\* when queries answer, summaries are sent in the order they were read, and no drain panics.
THEOREM PagesShowWhatIs ==
    ASSUME Allowed = {}
    PROVE  Spec => []ShownIsCurrent
<1>1. Init => CInv
  BY CurrentInit
<1>2. CInv /\ [Next]_vars => CInv'
  BY CurrentStep
<1>3. CInv => ShownIsCurrent
  BY CurrentShown
<1> QED
  BY <1>1, <1>2, <1>3, PTL DEF Spec

\* The summaries that queue_stream passes over (src/src/api/routes/sync.rs:69-72): a page
\* that stays open never shows a lower number or an earlier queue than before, although a
\* drain panics and its page lags, when queries answer and summaries keep their order.
THEOREM PagesGoOnward ==
    ASSUME "overtaken" \notin Allowed, "query fails" \notin Allowed
    PROVE  Spec => NeverBackwards
<1>0. Faithful
  BY DEF Faithful, InOrder
<1>1. Init => SInv
  BY OrderInit
<1>2. SInv /\ [Next]_vars => SInv'
  BY <1>0, OrderStep
<1>3. SInv /\ [Next]_vars => [\A c \in Clients : shown[c] # Closed /\ shown'[c] # Closed =>
           shown'[c].rev >= shown[c].rev /\ shown'[c].seen["queue"] >= shown[c].seen["queue"]]_vars
  <2>1. SUFFICES ASSUME SInv, [Next]_vars
                 PROVE  \A c \in Clients : shown[c] # Closed /\ shown'[c] # Closed =>
                            shown'[c].rev >= shown[c].rev
                            /\ shown'[c].seen["queue"] >= shown[c].seen["queue"]
    OBVIOUS
  <2> QED
    BY <1>0, <2>1, OnwardStep DEF Onward
<1> QED
  BY <1>1, <1>2, <1>3, PTL DEF Spec, NeverBackwards
=============================================================================
