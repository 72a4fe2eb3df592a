------------------------------ MODULE SyncEvents ------------------------------
(***************************************************************************)
(* The events that keep the pages of users up to date: SyncEventBus         *)
(* (src/src/core/sync_queue.rs), the stream that a page reads               *)
(* (src/src/api/routes/sync.rs), handlers that write and then publish, and  *)
(* the worker that drains the queue for POST /sync/process.                 *)
(*                                                                         *)
(* A summary of the tables is read query by query, then numbered, then      *)
(* sent to all streams; each stream keeps the last few.  A table is the     *)
(* number of times that it was written, and a summary of it the number that *)
(* was read.  What a drain does to rows is in QueueDrain.                   *)
(***************************************************************************)
EXTENDS Naturals, Sequences, FiniteSets

CONSTANTS
    Handlers,     \* requests that write, and whatever else writes the tables
    Workers,      \* drains that POST /sync/process may start
    Clients,      \* pages with a stream
    Capacity,     \* summaries that a stream keeps
    MaxWrites, MaxDrains, MaxOpens,
    Closed,       \* what a page without a stream shows
    Allowed       \* what else happens, out of Freedoms

\* A summary is numbered or sent after one that was read later; a query fails and the
\* summary has zeros; a drain panics.
Freedoms == {"overtaken", "query fails", "panic"}

Actors == Handlers \cup Workers \cup Clients

ASSUME SyncEventsOK ==
    /\ IsFiniteSet(Actors)
    /\ Handlers \cap Workers = {} /\ Clients \cap (Handlers \cup Workers) = {}
    /\ Capacity \in Nat \ {0}
    /\ {MaxWrites, MaxDrains, MaxOpens} \subseteq Nat
    /\ Allowed \subseteq Freedoms

VARIABLES
    db,           \* writes to the queue, and to settings and folders
    owed,         \* those that somebody publishes, or has published
    active,       \* SyncEventBus.processing_active
    revision,     \* SyncEventBus.revision
    snap,         \* snapshots that are being made
    ahead,        \* for each that makes one, those that began to read before it
    worker,
    inbox,        \* what a stream has not yet delivered
    first,        \* initial_revision of the stream
    shown,        \* the summary a page shows
    drains, opens \* so far

vars == <<db, owed, active, revision, snap, ahead, worker, inbox, first, shown, drains, opens>>

Tables == {"queue", "rest"}
Versions == [Tables -> 0..MaxWrites]
Zero == [t \in Tables |-> 0]
NoSnap == [at |-> "no", seen |-> Zero, rev |-> 0]
Snap == [at : {"no", "begin", "rest", "number", "send"}, seen : Versions, rev : Nat]
Summary == [seen : Versions, active : BOOLEAN, rev : Nat]
Begin == [NoSnap EXCEPT !.at = "begin"]

Writes == db["queue"] + db["rest"]

Init ==
    /\ db = Zero /\ owed = Zero
    /\ active = FALSE /\ revision = 0
    /\ snap = [a \in Actors |-> NoSnap] /\ ahead = [a \in Actors |-> {}]
    /\ worker = [w \in Workers |-> "no"]
    /\ inbox = [c \in Clients |-> <<>>]
    /\ first = [c \in Clients |-> 0]
    /\ shown = [c \in Clients |-> Closed]
    /\ drains = 0 /\ opens = 0
-----------------------------------------------------------------------------
(* Snapshots: SyncEventBus::snapshot, publish_snapshot *)

Busy(a) == snap[a].at # "no"

\* Those that have begun to read and have neither sent nor, for a page, numbered.
Waiting == {a \in Actors : snap[a].at \in {"rest", "number"} \cup IF a \in Clients THEN {} ELSE {"send"}}

\* What a query returns.
Result(t) == {db[t]} \cup IF "query fails" \in Allowed THEN {0} ELSE {}

ReadQueue(a) ==
    /\ snap[a].at = "begin"
    /\ \E v \in Result("queue") : snap' = [snap EXCEPT ![a].at = "rest", ![a].seen["queue"] = v]
    /\ ahead' = [ahead EXCEPT ![a] = Waiting]
    /\ UNCHANGED <<db, owed, active, revision, worker, inbox, first, shown, drains, opens>>

ReadRest(a) ==
    /\ snap[a].at = "rest"
    /\ \E v \in Result("rest") : snap' = [snap EXCEPT ![a].at = "number", ![a].seen["rest"] = v]
    /\ UNCHANGED <<db, owed, active, revision, ahead, worker, inbox, first, shown, drains, opens>>

InTurn(a) == "overtaken" \in Allowed \/ ahead[a] = {}
Leave(a) == ahead' = [b \in Actors |-> IF b = a THEN {} ELSE ahead[b] \ {a}]

\* A page draws a number too, but sends nothing.
Number(a) ==
    /\ snap[a].at = "number" /\ InTurn(a)
    /\ revision' = revision + 1
    /\ snap' = [snap EXCEPT ![a].at = "send", ![a].rev = revision + 1]
    /\ IF a \in Clients THEN Leave(a) ELSE UNCHANGED ahead
    /\ UNCHANGED <<db, owed, active, worker, inbox, first, shown, drains, opens>>

SummaryOf(a) == [seen |-> snap[a].seen, active |-> active, rev |-> snap[a].rev]
Streaming == {c \in Clients : shown[c] # Closed \/ Busy(c)}

\* A worker that has published for the last time ends.
Sent(a) ==
    /\ Leave(a)
    /\ snap' = [snap EXCEPT ![a] = NoSnap]
    /\ worker' = [w \in Workers |-> IF w = a /\ worker[w] = "last" THEN "no" ELSE worker[w]]
    /\ UNCHANGED <<db, owed, active, revision, first, shown, drains, opens>>

\* A stream that lags loses the oldest.
Send(a) ==
    /\ a \notin Clients /\ snap[a].at = "send" /\ InTurn(a)
    /\ inbox' = [c \in Clients |->
         IF c \notin Streaming THEN inbox[c]
         ELSE IF Len(inbox[c]) < Capacity THEN Append(inbox[c], SummaryOf(a))
         ELSE Append(Tail(inbox[c]), SummaryOf(a))]
    /\ Sent(a)
-----------------------------------------------------------------------------
(* Handlers *)

Writing(h, t) ==
    /\ ~Busy(h)
    /\ Writes < MaxWrites
    /\ db' = [db EXCEPT ![t] = @ + 1]
    /\ UNCHANGED <<active, revision, ahead, worker, inbox, first, shown, drains, opens>>

\* A handler writes, and then publishes.
Write(h, t) ==
    /\ Writing(h, t)
    /\ owed' = [owed EXCEPT ![t] = db[t] + 1]
    /\ snap' = [snap EXCEPT ![h] = Begin]

WriteOnly(h, t) ==
    /\ Writing(h, t)
    /\ UNCHANGED <<owed, snap>>

Resolve(h) == Write(h, "queue")

PauseOrResume(h) == Write(h, "rest")

\* What a scan has found is published each second at most, and when the scan is over.
ScanProgress(h) == Write(h, "rest") \/ WriteOnly(h, "rest")

\* A task run on request publishes like a drain, except after its last row.
RunTask(h) == Write(h, "queue") \/ WriteOnly(h, "queue")

\* Commands are another process, and the scheduler's checks have no bus.
Command(h) == \E t \in Tables : WriteOnly(h, t)
-----------------------------------------------------------------------------
(* The worker: process_all_pending_async *)

Resting == {w \in Workers : worker[w] = "no"}
\* Which of the names that are free it has is of no account.
NewWorker == CHOOSE w \in Resting : TRUE

\* A request while a worker is there changes nothing.
Process(w) ==
    /\ ~active
    /\ Resting # {} /\ w = NewWorker /\ drains < MaxDrains
    /\ drains' = drains + 1
    /\ active' = TRUE
    /\ worker' = [worker EXCEPT ![w] = "first"]
    /\ snap' = [snap EXCEPT ![w] = Begin]
    /\ UNCHANGED <<db, owed, revision, ahead, inbox, first, shown, opens>>

\* The first row that is worked on is published, and after that one each second at most.
Work(w) ==
    /\ worker[w] \in {"first", "drain"} /\ ~Busy(w)
    /\ Writes < MaxWrites
    /\ db' = [db EXCEPT !["queue"] = @ + 1]
    /\ worker' = [worker EXCEPT ![w] = "drain"]
    /\ \/ snap' = [snap EXCEPT ![w] = Begin]
       \/ worker[w] = "drain" /\ UNCHANGED snap
    /\ UNCHANGED <<owed, active, revision, ahead, inbox, first, shown, drains, opens>>

AtEnd(w) == worker[w] \in {"first", "drain"} /\ ~Busy(w)
\* A worker that panics dies there; others clear their flag, and then publish.
Ended(w, dies) ==
    /\ worker' = [worker EXCEPT ![w] = IF dies THEN "no" ELSE "last"]
    /\ snap' = [snap EXCEPT ![w] = IF dies THEN NoSnap ELSE Begin]
    /\ owed' = [owed EXCEPT !["queue"] = IF dies THEN @ ELSE db["queue"]]
    /\ UNCHANGED <<db, revision, ahead, inbox, first, shown, drains, opens>>

\* Mutant: a worker that ends does not publish again.
EndUnpublished(w) ==
    /\ AtEnd(w)
    /\ active' = FALSE
    /\ worker' = [worker EXCEPT ![w] = "no"]
    /\ owed' = [owed EXCEPT !["queue"] = db["queue"]]
    /\ UNCHANGED <<db, revision, snap, ahead, inbox, first, shown, drains, opens>>
End(w) ==
    /\ AtEnd(w)
    /\ \E dies \in {FALSE} \cup {"panic" \in Allowed} : Ended(w, dies) /\ active' = dies
-----------------------------------------------------------------------------
(* Pages: queue_stream *)

\* The stream takes what is sent from now on; only then is the first summary read.
Open(c) ==
    /\ shown[c] = Closed /\ ~Busy(c)
    /\ opens < MaxOpens /\ opens' = opens + 1
    /\ snap' = [snap EXCEPT ![c] = Begin]
    /\ UNCHANGED <<db, owed, active, revision, ahead, worker, inbox, first, shown, drains>>

\* Mutant: what was sent since the stream was opened is lost.
ShowAndDrop(c) ==
    /\ c \in Clients /\ snap[c].at = "send"
    /\ shown' = [shown EXCEPT ![c] = SummaryOf(c)]
    /\ first' = [first EXCEPT ![c] = snap[c].rev]
    /\ snap' = [snap EXCEPT ![c] = NoSnap]
    /\ inbox' = [inbox EXCEPT ![c] = <<>>]
    /\ UNCHANGED <<db, owed, active, revision, ahead, worker, drains, opens>>
Show(c) ==
    /\ c \in Clients /\ snap[c].at = "send"
    /\ shown' = [shown EXCEPT ![c] = SummaryOf(c)]
    /\ first' = [first EXCEPT ![c] = snap[c].rev]
    /\ snap' = [snap EXCEPT ![c] = NoSnap]
    /\ UNCHANGED <<db, owed, active, revision, ahead, worker, inbox, drains, opens>>

\* Mutant: a summary is shown whatever its number.
ReceiveAny(c) ==
    /\ shown[c] # Closed /\ inbox[c] # <<>>
    /\ inbox' = [inbox EXCEPT ![c] = Tail(@)]
    /\ shown' = [shown EXCEPT ![c] = Head(inbox[c])]
    /\ UNCHANGED <<db, owed, active, revision, snap, ahead, worker, first, drains, opens>>
\* A summary from before the first one is passed over.
Receive(c) ==
    /\ shown[c] # Closed /\ inbox[c] # <<>>
    /\ inbox' = [inbox EXCEPT ![c] = Tail(@)]
    /\ shown' = IF Head(inbox[c]).rev < first[c] THEN shown ELSE [shown EXCEPT ![c] = Head(inbox[c])]
    /\ UNCHANGED <<db, owed, active, revision, snap, ahead, worker, first, drains, opens>>

Close(c) ==
    /\ shown[c] # Closed
    /\ shown' = [shown EXCEPT ![c] = Closed]
    /\ inbox' = [inbox EXCEPT ![c] = <<>>]
    /\ first' = [first EXCEPT ![c] = 0]
    /\ UNCHANGED <<db, owed, active, revision, snap, ahead, worker, drains, opens>>
-----------------------------------------------------------------------------
Publish(a) == ReadQueue(a) \/ ReadRest(a) \/ Number(a) \/ Send(a) \/ Show(a)
Handler(h) == Resolve(h) \/ PauseOrResume(h) \/ ScanProgress(h) \/ RunTask(h) \/ Command(h)
Drain(w) == Process(w) \/ Work(w) \/ End(w)
Page(c) == Open(c) \/ Receive(c) \/ Close(c)

Next ==
    \/ \E a \in Actors : Publish(a)
    \/ \E h \in Handlers : Handler(h)
    \/ \E w \in Workers : Drain(w)
    \/ \E c \in Clients : Page(c)

Spec == Init /\ [][Next]_vars

\* Threads go on, a drain ends, and a page reads its stream.
FairSpec ==
    /\ Spec
    /\ \A a \in Actors : WF_vars(Publish(a))
    /\ \A w \in Workers : WF_vars(End(w))
    /\ \A c \in Clients : WF_vars(Receive(c))
-----------------------------------------------------------------------------
(* Properties *)

TypeOK ==
    /\ {db, owed} \subseteq Versions
    /\ active \in BOOLEAN
    /\ revision \in Nat
    /\ snap \in [Actors -> Snap]
    /\ ahead \in [Actors -> SUBSET Actors]
    /\ worker \in [Workers -> {"no", "first", "drain", "last"}]
    /\ inbox \in [Clients -> Seq(Summary)] /\ \A c \in Clients : Len(inbox[c]) <= Capacity
    /\ first \in [Clients -> Nat]
    /\ shown \in [Clients -> Summary \cup {Closed}]
    /\ drains \in 0..MaxDrains /\ opens \in 0..MaxOpens

Draining == \E w \in Workers : worker[w] \in {"first", "drain"}
Quiet == \A a \in Actors : ~Busy(a)

\* src/src/api/routes/sync.rs:53: once nothing is on its way, an open page has what every
\* handler that publishes has written, and shows a drain if and only if there is one,
\* whatever was sent while its stream was opened and however much it has lagged.
ShownIsCurrent ==
    /\ TypeOK
    /\ Quiet => \A c \in Clients :
        shown[c] # Closed /\ inbox[c] = <<>> =>
            /\ \A t \in Tables : shown[c].seen[t] >= owed[t]
            /\ shown[c].active = Draining

\* A page never goes back: to a summary of a lower number, or to an earlier queue.
NeverBackwards ==
    [][\A c \in Clients : shown[c] # Closed /\ shown'[c] # Closed =>
           shown'[c].rev >= shown[c].rev /\ shown'[c].seen["queue"] >= shown[c].seen["queue"]]_vars

\* A page that is behind what a handler has written catches up, or is closed.
Behind(c) == shown[c] # Closed /\ \E t \in Tables : shown[c].seen[t] < owed[t]
CatchesUp == \A c \in Clients : Behind(c) ~> ~Behind(c)
=============================================================================
