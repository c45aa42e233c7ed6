------------------------------- MODULE Server -------------------------------
(***************************************************************************)
(* src/server.rs and the publishing half of src/lib.rs, on top of the      *)
(* registry: the accept loop and its permits, the life of a connection     *)
(* task from the handshake to the guard that cleans up after it, the       *)
(* handlers of client messages, the snapshots of src/snapshot.rs, and the  *)
(* publishers.                                                             *)
(*                                                                         *)
(* Every step that touches the registry is a Registry action joined with   *)
(* the control of the caller, so that Registry!Spec is what this module    *)
(* implements.  Time is left out: a timeout is a step that may be taken at *)
(* any moment the code waits under it.                                     *)
(***************************************************************************)
EXTENDS Registry

CONSTANTS
    MaxConnections,        \* Config::max_connections
    MaxConsecutiveDrops,   \* Config::max_consecutive_drops
    MayRead,               \* the Authorizer: the channels each claims may have
    Oversized,             \* the channels longer than Config::max_channel_len
    MaxVersion,            \* bound: payloads published per channel
    NoFrame                \* "no reply waiting to be sent"

ASSUME ServerAssumption ==
    /\ MaxConnections \in Nat \ {0}
    /\ MaxConsecutiveDrops \in Nat
    /\ MayRead \in [Conns -> SUBSET Channels]
    /\ Oversized \subseteq Channels
    /\ MaxVersion \in Nat

VARIABLES
    pc,         \* where the task of a connection is, see Places
    permits,    \* free permits of the semaphore Shared::slots
    accepting,  \* the accept loop runs
    parked,     \* tasks asleep in Registry::write
    counts,     \* Metrics::refused_full and heartbeat_timeouts
    out,        \* the reply a task is about to put on its queue
    snaps,      \* channels of the current subscribe whose snapshot is to come
    job,        \* what each publisher has still to publish
    latest,     \* LastValue::last: per channel, 0 if nothing was recorded
    published,  \* history: last payload whose publish has returned
    view        \* history: what was queued for a connection on a channel

svars == <<pc, permits, accepting, parked, counts, out, snaps, job, latest, published, view>>
allvars == <<vars, svars>>

-----------------------------------------------------------------------------
(* The messages of src/protocol.rs that go through a queue.  A payload is  *)
(* its number in the order of publication on its channel.                  *)

Data(ch, v) == [type |-> "data", channel |-> ch, payload |-> v]
Snapshot(ch, v) == [type |-> "snapshot", channel |-> ch, payload |-> v]
Subscribed(chs, rejected) ==
    [type |-> "subscribed", channels |-> chs, rejected |-> rejected]
Unsubscribed(chs) == [type |-> "unsubscribed", channels |-> chs]
Resync(chs) == [type |-> "resync", channels |-> chs]
\* Pong, and the errors already_authenticated, invalid_message and protocol.
Answers == {[type |-> "pong"], [type |-> "error"]}

\* The refusals a client may be sent.
Refusals ==
    [channel : Oversized, reason : {"invalid"}]
    \cup [channel : (UNION {Channels \ MayRead[c] : c \in Conns}) \ Oversized,
          reason : {"unauthorized"}]
    \cup [channel : (UNION {MayRead[c] : c \in Conns}) \ Oversized, reason : {"limit"}]

ServerFrames ==
    [type : {"data", "snapshot"}, channel : Channels, payload : 1..MaxVersion]
    \cup [type : {"subscribed"}, channels : SUBSET Channels, rejected : SUBSET Refusals]
    \cup [type : {"unsubscribed", "resync"}, channels : SUBSET Channels]
    \cup Answers

ASSUME FramesAssumption == ServerFrames \subseteq Frames /\ NoFrame \notin Frames

Rejected(chs, reason) == {[channel |-> ch, reason |-> reason] : ch \in chs}

\* Nothing queued yet on a channel: highest payload, latest payload, and
\* whether a frame of the channel was lost to a full queue.
Nothing == [best |-> 0, last |-> 0, lost |-> FALSE]

(***************************************************************************)
(* "idle": not yet connected.  "select": at the select! of the session.    *)
(* "writing": in send_now.  "locking": in handle, before registry.subscribe *)
(* or unsubscribe has the write lock.  "replying": in handle after that, or *)
(* sending its reply.  "closing": in sink.close.                           *)
(***************************************************************************)
Places == {"idle", "refused", "handshake", "auth", "ack", "adding", "added", "select",
           "writing", "locking", "replying", "check", "closing", "removing", "releasing",
           "done"}

\* The task has its permit.
Holds(c) == pc[c] \notin {"idle", "refused", "done"}

Go(c, to) == pc' = [pc EXCEPT ![c] = to]

ServerInit ==
    /\ Init
    /\ pc = [c \in Conns |-> "idle"]
    /\ permits = MaxConnections
    /\ accepting = TRUE
    /\ parked = {}
    /\ counts = [refused_full |-> 0, heartbeat_timeouts |-> 0]
    /\ out = [c \in Conns |-> NoFrame]
    /\ snaps = [c \in Conns |-> {}]
    /\ job = [p \in Publishers |-> [frame |-> NoFrame, chs |-> {}]]
    /\ latest = [ch \in Channels |-> 0]
    /\ published = [ch \in Channels |-> 0]
    /\ view = [c \in Conns |-> [ch \in Channels |-> Nothing]]

-----------------------------------------------------------------------------
(***************************************************************************)
(* The lock of the registry, std::sync::RwLock.  A call in progress holds  *)
(* it for reading, and what holds it for writing is one step.  A writer    *)
(* that meets a reader goes to sleep, and from then on new readers wait;   *)
(* the last reader to leave wakes it, and the writer and whoever else      *)
(* wants the lock race for it, so that it may have to sleep again.         *)
(***************************************************************************)

\* Where a task is about to take the write lock: for add, for subscribe and
\* unsubscribe, and for remove.
Writing == {"adding", "locking", "removing"}

\* Registry::write meets a reader.
Park(c) ==
    /\ pc[c] \in Writing /\ c \notin parked /\ ~NoReader
    /\ parked' = parked \cup {c}
    /\ UNCHANGED <<vars, pc, permits, accepting, counts, out, snaps, job, latest, published, view>>

\* Mutant: a lock that lets readers overtake a sleeping writer.
ReadLockOvertakes == TRUE

\* Registry::read does not have to wait.
ReadLock == parked = {}

-----------------------------------------------------------------------------
(* serve and connection, up to the session.                                *)

\* A client connects: take a permit, or refuse it before the handshake.
Accept(c) ==
    /\ accepting
    /\ pc[c] = "idle"
    /\ IF permits > 0
       THEN Go(c, "handshake") /\ permits' = permits - 1 /\ UNCHANGED counts
       ELSE /\ Go(c, "refused")
            /\ counts' = [counts EXCEPT !.refused_full = @ + 1]
            /\ UNCHANGED permits
    /\ UNCHANGED <<vars, accepting, parked, out, snaps, job, latest, published, view>>

\* The listener fails, or the last Server clone is dropped and aborts the
\* loop.  The connection tasks go on.
StopAccepting ==
    /\ accepting
    /\ accepting' = FALSE
    /\ UNCHANGED <<vars, pc, permits, parked, counts, out, snaps, job, latest, published, view>>

\* The upgrade completed, the token is valid, authenticated was written: the
\* stages before the connection joins the registry.
Advance(c) ==
    /\ \/ pc[c] = "handshake" /\ Go(c, "auth")
       \/ pc[c] = "auth" /\ Go(c, "ack")
       \/ pc[c] = "ack" /\ Go(c, "adding")
    /\ UNCHANGED <<vars, permits, accepting, parked, counts, out, snaps, job, latest, published, view>>

\* Mutant: an attempt given up does not return its permit.
GiveUpLeaksPermit(c) ==
    /\ pc[c] \in {"handshake", "auth", "ack"}
    /\ Go(c, "done")
    /\ UNCHANGED <<vars, permits, accepting, parked, counts, out, snaps, job, latest, published, view>>

\* Mutant: it returns the permit by hand, and the task's end does so again.
GiveUpReturnsTwice(c) ==
    /\ pc[c] \in {"handshake", "auth", "ack"}
    /\ Go(c, "releasing")
    /\ permits' = permits + 1
    /\ UNCHANGED <<vars, accepting, parked, counts, out, snaps, job, latest, published, view>>

\* The handshake failed or timed out; auth did not come, was not auth, did not
\* validate (the error is written, the socket closed) or the validator
\* panicked; writing authenticated failed.
GiveUp(c) ==
    /\ pc[c] \in {"handshake", "auth", "ack"}
    /\ Go(c, "releasing")
    /\ UNCHANGED <<vars, permits, accepting, parked, counts, out, snaps, job, latest, published, view>>

\* registry.add, then the guard exists and the session starts.
Join(c) ==
    /\ \/ pc[c] = "adding" /\ Add(c) /\ Go(c, "added")
       \/ pc[c] = "added" /\ CountAdded(c) /\ Go(c, "select")
    /\ UNCHANGED <<permits, accepting, parked, counts, out, snaps, job, latest, published, view>>

-----------------------------------------------------------------------------
(* session: the branches of the select!, and the check at the loop's end.  *)

\* Whatever ends the session drops the receiver on the way out.
Leave(c) == CloseQueue(c) /\ Go(c, "removing")

\* outbound: a frame was queued; send_now writes it.
Outbound(c) ==
    /\ pc[c] = "select" /\ Recv(c) /\ Go(c, "writing")
    /\ UNCHANGED <<permits, accepting, parked, counts, out, snaps, job, latest, published, view>>

\* A Ping frame to answer, or a heartbeat tick: a control frame to write.
Control(c) ==
    /\ pc[c] = "select" /\ Go(c, "writing")
    /\ UNCHANGED <<vars, permits, accepting, parked, counts, out, snaps, job, latest, published, view>>

\* send_now returned Ok, or a Pong frame came in: on to the check.
Written(c) ==
    /\ pc[c] \in {"writing", "select"} /\ Go(c, "check")
    /\ UNCHANGED <<vars, permits, accepting, parked, counts, out, snaps, job, latest, published, view>>

(***************************************************************************)
(* Iterator::partition: the entries of the list chs that are in S, in      *)
(* their order, the n-th being the one with n of them up to it.            *)
(***************************************************************************)
Kept(chs, S) ==
    LET keep == {i \in 1..Len(chs) : chs[i] \in S}
        rank(i) == Cardinality({j \in keep : j <= i})
    IN  [n \in 1..Cardinality(keep) |-> chs[CHOOSE i \in keep : rank(i) = n]]

\* What is left of a request once channels are taken out is a request.
ASSUME KeptAssumption ==
    \A chs \in Requests, S \in SUBSET Channels : Kept(chs, S) \in Requests

\* Mutant: the authorizer's answer is not looked at.
AllowedUnchecked(c, chs) == Kept(chs, Channels \ Oversized)

\* The two partitions of a subscribe: what goes on to the registry.
Allowed(c, chs) == Kept(chs, MayRead[c] \ Oversized)

\* Mutant: the acknowledgement lists what was allowed, not what was added.
AckOfAllowed(c, chs) == Subscribed(Listed(Allowed(c, chs)), {})

\* The acknowledgement: what was added, and why the rest was refused.
Ack(c, chs) ==
    Subscribed(Added(subscriptions[c], Allowed(c, chs)),
               Rejected(Listed(chs) \cap Oversized, "invalid")
               \cup Rejected(Listed(chs) \ (Oversized \cup MayRead[c]), "unauthorized")
               \cup Rejected(OverLimit(subscriptions[c], Allowed(c, chs)), "limit"))

\* A subscribe or unsubscribe was read, and the authorizer has answered.  What
\* the message asks for matters only once the write lock is taken, and is
\* chosen there.
OnRequest(c) ==
    /\ pc[c] = "select" /\ Go(c, "locking")
    /\ UNCHANGED <<vars, permits, accepting, parked, counts, out, snaps, job, latest, published, view>>

\* subscribe: change the registry; the acknowledgement and the snapshots of
\* the added channels follow.
OnSubscribe(c, chs) ==
    LET added == Added(subscriptions[c], Allowed(c, chs))
    IN  /\ pc[c] = "locking" /\ Go(c, "replying")
        /\ Subscribe(c, Allowed(c, chs))
        /\ out' = [out EXCEPT ![c] = Ack(c, chs)]
        /\ snaps' = [snaps EXCEPT ![c] = added]
        /\ view' = [view EXCEPT ![c] = [ch \in Channels |->
                                IF ch \in added THEN Nothing ELSE @[ch]]]
        /\ UNCHANGED <<permits, accepting, parked, counts, job, latest, published>>

OnUnsubscribe(c, chs) ==
    /\ pc[c] = "locking" /\ Go(c, "replying")
    /\ Unsubscribe(c, chs)
    /\ out' = [out EXCEPT ![c] = Unsubscribed(Removed(subscriptions[c], chs))]
    /\ UNCHANGED <<permits, accepting, parked, counts, snaps, job, latest, published, view>>

\* A ping, a second auth, a message that does not parse, a binary frame.
OnOther(c, answer) ==
    /\ pc[c] = "select" /\ Go(c, "replying")
    /\ out' = [out EXCEPT ![c] = answer]
    /\ UNCHANGED <<vars, permits, accepting, parked, counts, snaps, job, latest, published, view>>

\* Mutant: tx.send().await, which waits for room, in the place of try_send.
ReplyWaits(c) ==
    /\ pc[c] = "replying" /\ out[c] # NoFrame
    /\ Len(queue[c]) < SendQueue
    /\ ReadLock /\ Send(c, out[c])
    /\ out' = [out EXCEPT ![c] = NoFrame]
    /\ UNCHANGED <<pc, permits, accepting, parked, counts, snaps, job, latest, published, view>>

\* registry.send of the reply, the acknowledgement or a snapshot.
Reply(c) ==
    /\ pc[c] = "replying" /\ out[c] # NoFrame
    /\ ReadLock /\ Send(c, out[c])
    /\ out' = [out EXCEPT ![c] = NoFrame]
    /\ UNCHANGED <<pc, permits, accepting, parked, counts, snaps, job, latest, published, view>>

\* Ask the snapshot source for the next added channel.
TakeSnapshot(c, ch) ==
    /\ pc[c] = "replying" /\ out[c] = NoFrame /\ call[c] = Idle
    /\ ch \in snaps[c]
    /\ snaps' = [snaps EXCEPT ![c] = @ \ {ch}]
    /\ out' = [out EXCEPT ![c] =
                  IF latest[ch] = 0 THEN NoFrame ELSE Snapshot(ch, latest[ch])]
    /\ UNCHANGED <<vars, pc, permits, accepting, parked, counts, job, latest, published, view>>

\* Mutant: handle returns with snapshots still to be sent.
HandledEarly(c) ==
    /\ pc[c] = "replying" /\ out[c] = NoFrame /\ call[c] = Idle
    /\ Go(c, "check")
    /\ snaps' = [snaps EXCEPT ![c] = {}]
    /\ UNCHANGED <<vars, permits, accepting, parked, counts, out, job, latest, published, view>>

\* The handler returned; the loop goes on to the check.
Handled(c) ==
    /\ pc[c] = "replying" /\ out[c] = NoFrame /\ call[c] = Idle /\ snaps[c] = {}
    /\ Go(c, "check")
    /\ UNCHANGED <<vars, permits, accepting, parked, counts, out, snaps, job, latest, published, view>>

\* Mutant: the streak must hit the limit exactly.
CheckExact(c) ==
    /\ pc[c] = "check" /\ ReadLock
    /\ Go(c, IF dropped[c] = MaxConsecutiveDrops THEN "closing" ELSE "select")
    /\ UNCHANGED <<vars, permits, accepting, parked, counts, out, snaps, job, latest, published, view>>

\* The slow-client check after every turn of the loop.
Check(c) ==
    /\ pc[c] = "check" /\ ReadLock
    /\ Go(c, IF dropped[c] >= MaxConsecutiveDrops THEN "closing" ELSE "select")
    /\ UNCHANGED <<vars, permits, accepting, parked, counts, out, snaps, job, latest, published, view>>

\* A tick finds the client silent for longer than heartbeat_timeout.
HeartbeatTimeout(c) ==
    /\ pc[c] = "select" /\ Go(c, "closing")
    /\ counts' = [counts EXCEPT !.heartbeat_timeouts = @ + 1]
    /\ UNCHANGED <<vars, permits, accepting, parked, out, snaps, job, latest, published, view>>

\* Mutant: a session that ends skips the guard Registered.
EndSessionUnguarded(c) ==
    /\ pc[c] \in {"select", "writing", "closing"}
    /\ CloseQueue(c) /\ Go(c, "releasing")
    /\ UNCHANGED <<permits, accepting, parked, counts, out, snaps, job, latest, published, view>>

\* The session ends: the client closed, the socket failed or the message was
\* too large (select), a write failed or timed out (writing), sink.close
\* returned (closing), the authorizer (select) or the snapshot source
\* (replying) panicked.
EndSession(c) ==
    /\ \/ pc[c] \in {"select", "writing", "closing"}
       \/ pc[c] = "replying" /\ out[c] = NoFrame /\ snaps[c] # {}
    /\ Leave(c)
    /\ snaps' = [snaps EXCEPT ![c] = {}]
    /\ UNCHANGED <<permits, accepting, parked, counts, out, job, latest, published, view>>

\* Drop of the guard Registered.
Cleanup(c) ==
    /\ pc[c] = "removing" /\ Remove(c) /\ Go(c, "releasing")
    /\ UNCHANGED <<permits, accepting, parked, counts, out, snaps, job, latest, published, view>>

\* The task ends and its permit is free again.
Release(c) ==
    /\ pc[c] = "releasing" /\ Go(c, "done")
    /\ permits' = permits + 1
    /\ UNCHANGED <<vars, accepting, parked, counts, out, snaps, job, latest, published, view>>

-----------------------------------------------------------------------------
(* The publishers.  A feed records a payload with the snapshot source and  *)
(* then publishes it, as examples/gateway.rs does in its decoder.          *)

Free(p) == call[p] = Idle /\ job[p].frame = NoFrame

\* LastValue::record.
Record(p, ch) ==
    /\ Free(p)
    /\ latest[ch] < MaxVersion
    /\ latest' = [latest EXCEPT ![ch] = @ + 1]
    /\ job' = [job EXCEPT ![p] = [frame |-> Data(ch, latest[ch] + 1), chs |-> {ch}]]
    /\ UNCHANGED <<vars, pc, permits, accepting, parked, counts, out, snaps, published, view>>

\* Server::resync: the same frame on each of the channels, one by one.
ResyncSome(p, chs) ==
    /\ Free(p)
    /\ job' = [job EXCEPT ![p] = [frame |-> Resync(chs), chs |-> chs]]
    /\ UNCHANGED <<vars, pc, permits, accepting, parked, counts, out, snaps, latest, published, view>>

PublishNext(p, ch) ==
    /\ ch \in job[p].chs
    /\ ReadLock /\ Publish(p, ch, job[p].frame)
    /\ job' = [job EXCEPT ![p].chs = @ \ {ch}]
    /\ UNCHANGED <<pc, permits, accepting, parked, counts, out, snaps, latest, published, view>>

Published(p) ==
    /\ job[p].frame # NoFrame /\ job[p].chs = {} /\ call[p] = Idle
    /\ job' = [job EXCEPT ![p].frame = NoFrame]
    /\ published' = IF job[p].frame.type = "resync" THEN published
                    ELSE [published EXCEPT ![job[p].frame.channel] = job[p].frame.payload]
    /\ UNCHANGED <<vars, pc, permits, accepting, parked, counts, out, snaps, latest, view>>

\* Server::resync_all.
ResyncAll(p) == Free(p) /\ ReadLock /\ Broadcast(p, Resync({})) /\ UNCHANGED svars

\* A delivery, and the history of what reached the queue.
Deliver(t, c) ==
    LET f == call[t].frame
        v == view[c][f.channel]
    IN  /\ TrySend(t, c)
        /\ view' = IF f.type \notin {"data", "snapshot"} \/ phase[c] = "closed" THEN view
                   ELSE [view EXCEPT ![c][f.channel] =
                            IF call'[t].full THEN [v EXCEPT !.lost = TRUE]
                            ELSE [v EXCEPT !.last = f.payload,
                                           !.best = IF f.payload > @ THEN f.payload ELSE @]]
        /\ UNCHANGED <<pc, permits, accepting, parked, counts, out, snaps, job, latest, published>>

\* The counters of a delivery, or the end of a call; the last reader to leave
\* wakes the sleeping writers.
CallStep(t) ==
    /\ \/ Tally(t) /\ UNCHANGED parked
       \/ Return(t) /\ parked' = IF NoReader' THEN {} ELSE parked
    /\ UNCHANGED <<pc, permits, accepting, counts, out, snaps, job, latest, published, view>>

-----------------------------------------------------------------------------
TaskStep(c) ==
    \/ Join(c) \/ Reply(c) \/ Handled(c) \/ Check(c) \/ Cleanup(c) \/ Release(c)
    \/ \E chs \in Requests : OnSubscribe(c, chs) \/ OnUnsubscribe(c, chs)
    \/ \E ch \in Channels : TakeSnapshot(c, ch)
    \/ \E d \in Conns : Deliver(c, d)
    \/ CallStep(c)

ClientStep(c) ==
    \/ Accept(c) \/ Advance(c) \/ GiveUp(c)
    \/ Outbound(c) \/ Control(c) \/ Written(c) \/ HeartbeatTimeout(c) \/ EndSession(c)
    \/ OnRequest(c)
    \/ \E answer \in Answers : OnOther(c, answer)

PublisherStep(p) ==
    \/ \E ch \in Channels : Record(p, ch) \/ PublishNext(p, ch)
    \/ \E chs \in SUBSET Channels : ResyncSome(p, chs)
    \/ Published(p) \/ ResyncAll(p)
    \/ \E c \in Conns : Deliver(p, c)
    \/ CallStep(p)

ServerNext ==
    \/ \E c \in Conns : TaskStep(c) \/ Park(c) \/ ClientStep(c)
    \/ \E p \in Publishers : PublisherStep(p)
    \/ StopAccepting

ServerSpec == ServerInit /\ [][ServerNext]_allvars

(***************************************************************************)
(* Fairness.  A task that is not waiting for its socket keeps running, and *)
(* a publisher finishes what it began.  Each may have to wait for the lock *)
(* of the registry: a writer until the readers have left, a reader until   *)
(* the writers asleep were woken.  A sleeping writer lets no reader in, so *)
(* the lock does become free, again and again, and who wants it is not     *)
(* beaten to it for ever: strong fairness of the steps that take it, and a *)
(* writer that meets a reader does go to sleep.  A session waiting for its *)
(* socket takes a turn sooner or later, because send_now has a deadline    *)
(* and the heartbeat ticks.  sink.close has neither, so leaving "closing"  *)
(* is not fair.                                                            *)
(***************************************************************************)
SessionTurn(c) ==
    /\ pc[c] \in {"select", "writing"}
    /\ Outbound(c) \/ Control(c) \/ Written(c) \/ HeartbeatTimeout(c) \/ EndSession(c)

Fairness ==
    /\ \A c \in Conns :
            /\ SF_allvars(TaskStep(c))
            /\ WF_allvars(Park(c))
            /\ WF_allvars(SessionTurn(c))
    /\ \A p \in Publishers :
            /\ WF_allvars((\E c \in Conns : Deliver(p, c)) \/ CallStep(p))
            /\ SF_allvars((\E ch \in Channels : PublishNext(p, ch)) \/ Published(p))

FairServerSpec == ServerSpec /\ Fairness

-----------------------------------------------------------------------------
Views == [best : 0..MaxVersion, last : 0..MaxVersion, lost : BOOLEAN]

ServerTypeOK ==
    /\ pc \in [Conns -> Places]
    /\ permits \in 0..MaxConnections
    /\ accepting \in BOOLEAN
    /\ parked \subseteq Conns
    /\ counts \in [refused_full : Nat, heartbeat_timeouts : Nat]
    /\ out \in [Conns -> ServerFrames \cup {NoFrame}]
    /\ snaps \in [Conns -> SUBSET Channels]
    /\ job \in [Publishers -> [frame : ServerFrames \cup {NoFrame}, chs : SUBSET Channels]]
    /\ latest \in [Channels -> 0..MaxVersion]
    /\ published \in [Channels -> 0..MaxVersion]
    /\ view \in [Conns -> [Channels -> Views]]

(***************************************************************************)
(* Shared::slots, "held from before the handshake until the connection     *)
(* task ends": whatever way a task ends, its permit is back exactly then,  *)
(* and the clients handshaking, authenticating and registered together     *)
(* never exceed max_connections.                                           *)
(***************************************************************************)
PlacesConserved ==
    /\ permits + Cardinality({c \in Conns : Holds(c)}) = MaxConnections
    /\ Cardinality(connections) <= MaxConnections

(***************************************************************************)
(* A connection is in the registry exactly while its task is between       *)
(* "authenticated written" and the end of the guard Registered: nothing is *)
(* queued before the acknowledgement is out, rx.recv() and the lookups by  *)
(* id of subscribe, unsubscribe, send and drops always find it, and no     *)
(* ended session, panics included, leaves an entry behind.                 *)
(***************************************************************************)
InRegistry == {"added", "select", "writing", "locking", "replying", "check", "closing",
               "removing"}

SessionRegistered ==
    \A c \in Conns :
        /\ c \in connections <=> pc[c] \in InRegistry
        /\ phase[c] = "open" <=> pc[c] \in InRegistry \ {"added", "removing"}

(***************************************************************************)
(* Authorizer and max_channel_len: no data and no snapshot of a channel    *)
(* that the authorizer refuses the client, or whose name is too long, is   *)
(* ever queued for it, over any sequence of requests.                      *)
(***************************************************************************)
NothingUnauthorised ==
    \A c \in Conns : \A i \in DOMAIN queue[c] :
        queue[c][i].type \in {"data", "snapshot"}
            => queue[c][i].channel \in MayRead[c] \ Oversized

\* What queueing the frame f for c says is so at that moment.
Honest(c, f) ==
    CASE f.type \in {"data", "snapshot"} -> f.channel \in subscriptions[c]
      [] f.type = "subscribed"   -> f.channels \subseteq subscriptions[c]
      [] f.type = "unsubscribed" -> f.channels \cap subscriptions[c] = {}
      [] f.type = "resync" -> f.channels = {} \/ f.channels \cap subscriptions[c] # {}
      [] OTHER -> TRUE

(***************************************************************************)
(* A frame that enters a queue tells the truth: data, snapshots and resync *)
(* only for channels held at that moment, `subscribed` only while all of   *)
(* its channels are held and `unsubscribed` only when none is.  So nothing *)
(* of a channel follows its `unsubscribed` unless it was subscribed again. *)
(***************************************************************************)
EnqueueHonest ==
    [][\A c \in Conns : Len(queue'[c]) > Len(queue[c]) =>
            Honest(c, queue'[c][Len(queue'[c])])]_allvars

IsSnapshot(f, ch) == f # NoFrame /\ f.type = "snapshot" /\ f.channel = ch

\* The snapshot of ch for c is still to be taken or to be queued.
Awaits(c, ch) ==
    \/ ch \in snaps[c]
    \/ IsSnapshot(out[c], ch)
    \/ call[c] # Idle /\ IsSnapshot(call[c].frame, ch) /\ call[c].todo # {}

(***************************************************************************)
(* No gap between the snapshot and the stream: once a subscribe has been   *)
(* handled, every payload whose publish has returned is covered by what    *)
(* was queued for the subscriber, by the payload itself or by the snapshot *)
(* (src/snapshot.rs, "a new subscriber does not start from nothing and     *)
(* wait for the next delta"), unless a full queue lost a frame.  Requires  *)
(* feeds that record before they publish; with several feeds on a channel, *)
(* `published` is the payload whose publish returned last.                 *)
(***************************************************************************)
NoGap ==
    \A c \in Conns, ch \in Channels :
        (phase[c] = "open" /\ ch \in subscriptions[c] /\ ~Awaits(c, ch) /\ ~view[c][ch].lost)
            => view[c][ch].best >= published[ch]

\* The guard of an ended session gets the write lock, and then its permit is
\* given back, however many publishers keep reading the registry.
PlaceReturned == \A c \in Conns : pc[c] = "removing" ~> pc[c] = "done"

\* A client message is answered (its handler gets the write lock and runs to
\* its end) whether or not the client reads and whatever the publishers do.
HandlerReturns ==
    \A c \in Conns : pc[c] \in {"locking", "replying"} ~> pc[c] \notin {"locking", "replying"}

\* "Publishing never blocks on any client": what a publisher has begun, the
\* wait for the read lock behind tasks that want to write included, comes to
\* its end whether or not any connection drains its queue.
PublisherNeverBlocks == \A p \in Publishers : ~Free(p) ~> Free(p)

(***************************************************************************)
(* "A client that keeps overflowing is closed": a session whose streak is  *)
(* at max_consecutive_drops gets to closing it, also if the client neither *)
(* reads nor writes, unless a delivery succeeds in between.                *)
(***************************************************************************)
OverflowNoticed ==
    \A c \in Conns :
        (phase[c] = "open" /\ dropped[c] >= MaxConsecutiveDrops)
            ~> (dropped[c] < MaxConsecutiveDrops
                \/ pc[c] \in {"closing", "removing", "releasing", "done"})

-----------------------------------------------------------------------------
(* What the documentation says and the code does not do.                   *)

(***************************************************************************)
(* protocol.rs, Snapshot: "A snapshot of a channel's current state".  What *)
(* is queued last for a channel is the newest that was queued for it: a    *)
(* client that takes each message as the state does not end on an old one. *)
(***************************************************************************)
NoGoingBack ==
    \A c \in Conns, ch \in Channels : view[c][ch].last = view[c][ch].best

(***************************************************************************)
(* CHANGELOG.md: "Socket writes have a deadline"; docs/protocol.md: "A     *)
(* client that keeps overflowing is closed".  A session that set out to    *)
(* close its connection ends and gives back its place.                     *)
(***************************************************************************)
ClosingEnds == \A c \in Conns : pc[c] = "closing" ~> pc[c] = "done"

=============================================================================
