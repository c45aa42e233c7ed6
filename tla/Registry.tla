------------------------------ MODULE Registry ------------------------------
(***************************************************************************)
(* src/registry.rs: the connections, the channel index, the bounded queue  *)
(* and the drop streak of each connection, and the counters.               *)
(*                                                                         *)
(* Threads are the publishers (any thread that calls Server::publish,      *)
(* resync or resync_all) and the connection tasks, one per connection.     *)
(* add, remove, subscribe and unsubscribe hold the write lock of `inner`   *)
(* for their whole body and are one step each.  publish, broadcast and     *)
(* send hold the read lock and run concurrently: each is a call that       *)
(* visits its recipients one by one, and each delivery is the try_send and *)
(* then the update of the counters.  A call in progress IS the read lock.  *)
(*                                                                         *)
(* A connection id is never reused (next_id only grows), so an element of  *)
(* Conns stands for one id and is added at most once.                      *)
(***************************************************************************)
EXTENDS Subscriptions

CONSTANTS
    Conns,        \* connection ids
    Publishers,   \* threads that publish
    Channels,     \* channel names
    Frames,       \* serialised messages, opaque here
    Requests,     \* the channel lists a client message may carry
    SendQueue,    \* Config::send_queue
    NoConn        \* "no connection"

ASSUME RegistryAssumption ==
    /\ Conns \cap Publishers = {}
    /\ Requests \subseteq Seq(Channels)
    /\ SendQueue \in Nat \ {0}      \* Config::validate refuses zero
    /\ NoConn \notin Conns

VARIABLES
    phase,          \* life of an id in the registry, see Phases
    subscriptions,  \* Connection::subscriptions
    by_channel,     \* Inner::by_channel, a map with the channels held as keys
    queue,          \* the mpsc channel between Connection::tx and the task
    dropped,        \* Connection::dropped
    call,           \* the publish, broadcast or send each thread is in
    metrics,        \* Metrics
    streak          \* history: deliveries failed since the last success

vars == <<phase, subscriptions, by_channel, queue, dropped, call, metrics, streak>>

Threads == Publishers \cup Conns

(***************************************************************************)
(* "inserted": in the map, counters not yet bumped; "open": add returned   *)
(* the id; "closed": the task dropped the receiver; "gone": removed.       *)
(***************************************************************************)
Phases == {"unused", "inserted", "open", "closed", "gone"}

\* The keys of Inner::connections.
connections == {c \in Conns : phase[c] \in {"inserted", "open", "closed"}}

\* by_channel.get(ch): no entry means no subscribers.
Subscribers(ch) == IF ch \in DOMAIN by_channel THEN by_channel[ch] ELSE {}

Idle == [op |-> "idle"]

(***************************************************************************)
(* A call: what it was asked for, the recipients not yet visited, the one  *)
(* whose counters are to be updated (and whether its queue was full),      *)
(* those that took the frame, whose number is the call's result, and (a    *)
(* history field) those that did not.                                      *)
(***************************************************************************)
Calls == [op : {"publish", "broadcast", "send"},
          on : Channels \cup Conns \cup {NoConn},
          frame : Frames,
          todo : SUBSET Conns,
          cur : Conns \cup {NoConn},
          full : BOOLEAN,
          ok : SUBSET Conns,
          missed : SUBSET Conns]

Begin(op, on, f, recipients) ==
    [op |-> op, on |-> on, frame |-> f, todo |-> recipients,
     cur |-> NoConn, full |-> FALSE, ok |-> {}, missed |-> {}]

\* active is the one counter the code decrements.
Metrics == [active : Int, total : Nat, sent : Nat, dropped : Nat]

\* The connections a call is for, in the current state.
Recipients(op, on) ==
    CASE op = "publish"   -> Subscribers(on) \cap connections
      [] op = "broadcast" -> connections
      [] op = "send"      -> {on} \cap connections

\* The write lock of `inner` is free to take.
NoReader == \A t \in Threads : call[t] = Idle

\* The task of c is inside its session and not inside a registry call.
InSession(c) == phase[c] = "open" /\ call[c] = Idle

-----------------------------------------------------------------------------
Init ==
    /\ phase = [c \in Conns |-> "unused"]
    /\ subscriptions = [c \in Conns |-> {}]
    /\ by_channel = [ch \in {} |-> {}]
    /\ queue = [c \in Conns |-> <<>>]
    /\ dropped = [c \in Conns |-> 0]
    /\ call = [t \in Threads |-> Idle]
    /\ metrics = [active |-> 0, total |-> 0, sent |-> 0, dropped |-> 0]
    /\ streak = [c \in Conns |-> 0]

\* add: allocate an id and insert the connection, under the write lock ...
Add(c) ==
    /\ phase[c] = "unused"
    /\ NoReader
    /\ phase' = [phase EXCEPT ![c] = "inserted"]
    /\ UNCHANGED <<subscriptions, by_channel, queue, dropped, call, metrics, streak>>

\* ... and count it after the lock was released.
CountAdded(c) ==
    /\ phase[c] = "inserted"
    /\ phase' = [phase EXCEPT ![c] = "open"]
    /\ metrics' = [metrics EXCEPT !.total = @ + 1, !.active = @ + 1]
    /\ UNCHANGED <<subscriptions, by_channel, queue, dropped, call, streak>>

\* The index without c under the channels chs; an entry left empty goes.
Unindexed(c, chs) ==
    LET left(ch) == IF ch \in chs THEN by_channel[ch] \ {c} ELSE by_channel[ch]
    IN  [ch \in {k \in DOMAIN by_channel : k \in chs => left(k) # {}} |-> left(ch)]

\* Mutant: the index keeps the removed connection.
RemoveForgetsIndex(c) ==
    /\ phase[c] = "closed"
    /\ NoReader
    /\ phase' = [phase EXCEPT ![c] = "gone"]
    /\ subscriptions' = [subscriptions EXCEPT ![c] = {}]
    /\ metrics' = [metrics EXCEPT !.active = @ - 1]
    /\ UNCHANGED <<by_channel, queue, dropped, call, streak>>

\* Mutant: the connection is not counted out.
RemoveForgetsCount(c) ==
    /\ phase[c] = "closed"
    /\ NoReader
    /\ phase' = [phase EXCEPT ![c] = "gone"]
    /\ by_channel' = Unindexed(c, subscriptions[c])
    /\ subscriptions' = [subscriptions EXCEPT ![c] = {}]
    /\ UNCHANGED <<queue, dropped, call, metrics, streak>>

\* remove, run by the guard Registered when the task ends.
Remove(c) ==
    /\ phase[c] = "closed"
    /\ NoReader
    /\ phase' = [phase EXCEPT ![c] = "gone"]
    /\ by_channel' = Unindexed(c, subscriptions[c])
    /\ subscriptions' = [subscriptions EXCEPT ![c] = {}]
    /\ metrics' = [metrics EXCEPT !.active = @ - 1]
    /\ UNCHANGED <<queue, dropped, call, streak>>

\* Mutant: insert(ch, {id}), which takes the channel from its other holders.
IndexedOverwrites(c, chs) ==
    [ch \in DOMAIN by_channel \cup chs |-> IF ch \in chs THEN {c} ELSE by_channel[ch]]

\* The index with c under the channels chs: entry(ch).or_default().insert(id).
Indexed(c, chs) ==
    [ch \in DOMAIN by_channel \cup chs |->
        IF ch \in chs THEN Subscribers(ch) \cup {c} ELSE by_channel[ch]]

Subscribe(c, chs) ==
    LET added == Added(subscriptions[c], chs)
    IN  /\ InSession(c)
        /\ NoReader
        /\ subscriptions' = [subscriptions EXCEPT ![c] = @ \cup added]
        /\ by_channel' = Indexed(c, added)
        /\ UNCHANGED <<phase, queue, dropped, call, metrics, streak>>

\* Mutant: unsubscribe does not wait for the readers.
UnsubscribeUnlocked(c, chs) ==
    LET removed == Removed(subscriptions[c], chs)
    IN  /\ InSession(c)
        /\ subscriptions' = [subscriptions EXCEPT ![c] = @ \ removed]
        /\ by_channel' = Unindexed(c, removed)
        /\ UNCHANGED <<phase, queue, dropped, call, metrics, streak>>

Unsubscribe(c, chs) ==
    LET removed == Removed(subscriptions[c], chs)
    IN  /\ InSession(c)
        /\ NoReader
        /\ subscriptions' = [subscriptions EXCEPT ![c] = @ \ removed]
        /\ by_channel' = Unindexed(c, removed)
        /\ UNCHANGED <<phase, queue, dropped, call, metrics, streak>>

-----------------------------------------------------------------------------
\* Thread t takes the read lock and fixes the recipients of its call.
Start(t, op, on, f) ==
    /\ call[t] = Idle
    /\ call' = [call EXCEPT ![t] = Begin(op, on, f, Recipients(op, on))]
    /\ UNCHANGED <<phase, subscriptions, by_channel, queue, dropped, metrics, streak>>

Publish(t, ch, f) == Start(t, "publish", ch, f)

Broadcast(t, f) == Start(t, "broadcast", NoConn, f)

\* send: the task of c delivers to its own connection.
Send(c, f) == InSession(c) /\ Start(c, "send", c, f)

\* Mutant: the delivery waits for room in the queue.
TrySendWaits(t, c) ==
    /\ call[t] # Idle
    /\ call[t].cur = NoConn
    /\ c \in call[t].todo
    /\ Len(queue[c]) < SendQueue
    /\ call' = [call EXCEPT ![t].todo = @ \ {c}, ![t].cur = c]
    /\ queue' = [queue EXCEPT ![c] = Append(@, call[t].frame)]
    /\ streak' = [streak EXCEPT ![c] = 0]
    /\ UNCHANGED <<phase, subscriptions, by_channel, dropped, metrics>>

(***************************************************************************)
(* deliver, first half: conn.tx.try_send.  A closed queue is neither a     *)
(* delivery nor a drop; otherwise the frame enters the queue if there is   *)
(* room, and the counters are still to be updated.                         *)
(***************************************************************************)
TrySend(t, c) ==
    LET closed == phase[c] = "closed"
        full   == Len(queue[c]) >= SendQueue
    IN  /\ call[t] # Idle
        /\ call[t].cur = NoConn
        /\ c \in call[t].todo
        /\ call' = [call EXCEPT ![t].todo = @ \ {c},
                                ![t].cur  = IF closed THEN NoConn ELSE c,
                                ![t].full = ~closed /\ full,
                                ![t].missed = IF closed THEN @ \cup {c} ELSE @]
        /\ queue' = IF closed \/ full THEN queue
                    ELSE [queue EXCEPT ![c] = Append(@, call[t].frame)]
        /\ streak' = IF closed THEN streak
                     ELSE [streak EXCEPT ![c] = IF full THEN @ + 1 ELSE 0]
        /\ UNCHANGED <<phase, subscriptions, by_channel, dropped, metrics>>

\* Mutant: a delivery that succeeds takes one off the streak.
TallyDecrements(t) ==
    /\ call[t] # Idle
    /\ call[t].cur # NoConn
    /\ LET c == call[t].cur
       IN  dropped' = [dropped EXCEPT ![c] = IF call[t].full THEN @ + 1 ELSE @ - 1]
    /\ call' = [call EXCEPT ![t].cur = NoConn, ![t].full = FALSE]
    /\ UNCHANGED <<phase, subscriptions, by_channel, queue, metrics, streak>>

(***************************************************************************)
(* deliver, second half: frames_sent or frames_dropped, and the streak.    *)
(***************************************************************************)
Tally(t) ==
    /\ call[t] # Idle
    /\ call[t].cur # NoConn
    /\ LET c == call[t].cur
           full == call[t].full
       IN  /\ dropped' = [dropped EXCEPT ![c] = IF full THEN @ + 1 ELSE 0]
           /\ metrics' = IF full THEN [metrics EXCEPT !.dropped = @ + 1]
                         ELSE [metrics EXCEPT !.sent = @ + 1]
           /\ call' = [call EXCEPT ![t].cur = NoConn,
                                   ![t].full = FALSE,
                                   ![t].ok = IF full THEN @ ELSE @ \cup {c},
                                   ![t].missed = IF full THEN @ \cup {c} ELSE @]
    /\ UNCHANGED <<phase, subscriptions, by_channel, queue, streak>>

\* Every recipient was visited: release the read lock and return.
Return(t) ==
    /\ call[t] # Idle
    /\ call[t].todo = {} /\ call[t].cur = NoConn
    /\ call' = [call EXCEPT ![t] = Idle]
    /\ UNCHANGED <<phase, subscriptions, by_channel, queue, dropped, metrics, streak>>

\* The task takes the oldest frame out of its queue (rx.recv).
Recv(c) ==
    /\ InSession(c)
    /\ queue[c] # <<>>
    /\ queue' = [queue EXCEPT ![c] = Tail(@)]
    /\ UNCHANGED <<phase, subscriptions, by_channel, dropped, call, metrics, streak>>

\* The session ends and drops the receiver with the frames still queued.
CloseQueue(c) ==
    /\ InSession(c)
    /\ phase' = [phase EXCEPT ![c] = "closed"]
    /\ queue' = [queue EXCEPT ![c] = <<>>]
    /\ UNCHANGED <<subscriptions, by_channel, dropped, call, metrics, streak>>

Step(t) == (\E c \in Conns : TrySend(t, c)) \/ Tally(t) \/ Return(t)

Next ==
    \/ \E c \in Conns : Add(c) \/ CountAdded(c) \/ CloseQueue(c) \/ Remove(c) \/ Recv(c)
    \/ \E c \in Conns, chs \in Requests : Subscribe(c, chs) \/ Unsubscribe(c, chs)
    \/ \E p \in Publishers, f \in Frames :
            Broadcast(p, f) \/ \E ch \in Channels : Publish(p, ch, f)
    \/ \E c \in Conns, f \in Frames : Send(c, f)
    \/ \E t \in Threads : Step(t)

Spec == Init /\ [][Next]_vars

-----------------------------------------------------------------------------
TypeOK ==
    /\ phase \in [Conns -> Phases]
    /\ subscriptions \in [Conns -> SUBSET Channels]
    /\ DOMAIN by_channel \subseteq Channels
    /\ by_channel \in [DOMAIN by_channel -> SUBSET Conns]
    /\ queue \in [Conns -> Seq(Frames)]
    /\ dropped \in [Conns -> Nat]
    /\ call \in [Threads -> {Idle} \cup Calls]
    /\ metrics \in Metrics
    /\ streak \in [Conns -> Nat]

(***************************************************************************)
(* The channel index and the per-connection sets say the same (the comment *)
(* on Inner::by_channel: "kept in step with each connection's set"), over  *)
(* any order of add, subscribe, unsubscribe and remove; and a channel      *)
(* nobody holds leaves no entry behind.                                    *)
(***************************************************************************)
IndexInStep ==
    /\ \A ch \in Channels :
            Subscribers(ch) = {c \in connections : ch \in subscriptions[c]}
    /\ \A ch \in DOMAIN by_channel : by_channel[ch] # {}

(***************************************************************************)
(* While a publish, broadcast or send runs, whatever the other threads do, *)
(* the connections it has visited and those it has still to visit are      *)
(* exactly its recipients in the current state, each visited once: nobody  *)
(* gets a frame for a channel it has left, nobody is left out or gets the  *)
(* frame twice.  (publish holds the read lock across its whole loop.)      *)
(***************************************************************************)
RecipientsPinned ==
    \A t \in Threads : call[t] # Idle =>
        LET k == call[t]
            visiting == {k.cur} \ {NoConn}
        IN  /\ k.todo \cup visiting \cup k.ok \cup k.missed = Recipients(k.op, k.on)
            /\ k.todo \cap (visiting \cup k.ok \cup k.missed) = {}
            /\ visiting \cap (k.ok \cup k.missed) = {}
            /\ k.ok \cap k.missed = {}

(***************************************************************************)
(* What makes the two invariants above inductive: an id outside the map    *)
(* holds no channel, so that inserting it leaves the index right.          *)
(***************************************************************************)
OutsidersHoldNothing ==
    \A c \in Conns : c \notin connections => subscriptions[c] = {}

RegistryInv == IndexInStep /\ RecipientsPinned /\ OutsidersHoldNothing

\* connections_active never wraps below zero and is the number of connections
\* whose add has returned and whose guard has not run.
ActiveExact ==
    metrics.active = Cardinality({c \in Conns : phase[c] \in {"open", "closed"}})

\* max_subscriptions is never exceeded, over any sequence of requests.
SubscriptionLimit ==
    \A c \in Conns : Cardinality(subscriptions[c]) <= MaxSubscriptions

(***************************************************************************)
(* Connection::dropped is "Consecutive failed deliveries. Reset by the     *)
(* first that succeeds": when no delivery to c is under way it is the      *)
(* number of deliveries that failed since the last that succeeded.         *)
(***************************************************************************)
DroppedIsStreak ==
    \A c \in connections :
        (\A t \in Threads : call[t] # Idle => call[t].cur # c) => dropped[c] = streak[c]

=============================================================================
