---------------------------- MODULE FanoutProofs ----------------------------
(***************************************************************************)
(* The registry implements Fanout: every operation maps to one step of the *)
(* abstract fan-out, or to none.  The invariants of RegistryProofs and     *)
(* LimitProofs supply what the abstract steps ask for: the index in step   *)
(* for who is owed a publication, the pinned recipients for the deliveries *)
(* being to members, the limit for the sets a subscribe leaves.            *)
(***************************************************************************)
EXTENDS RegistryFanout, LimitProofs

-----------------------------------------------------------------------------
(* The mapped state.                                                       *)

mappedStatus == [c \in Conns |-> StatusOf(c)]
mappedOwed == [t \in Threads |-> OwedBy(t)]

\* What is not touched maps to what is not touched.
LEMMA SameStatus == UNCHANGED phase => mappedStatus' = mappedStatus
BY DEF mappedStatus, StatusOf

LEMMA SameOwed == UNCHANGED call => mappedOwed' = mappedOwed
BY DEF mappedOwed, OwedBy

\* One id changes its phase: one member changes its status.
LEMMA OneStatus ==
    ASSUME TypeOK, NEW c \in Conns, NEW to, phase' = [phase EXCEPT ![c] = to]
    PROVE  mappedStatus' = [mappedStatus EXCEPT ![c] = StatusOf(c)']
<1>1. \A d \in Conns \ {c} : phase'[d] = phase[d]
  BY DEF TypeOK
<1>2. \A d \in Conns \ {c} : StatusOf(d)' = StatusOf(d)
  BY <1>1 DEF StatusOf
<1>3. QED
  BY <1>2 DEF mappedStatus

\* One thread changes its call: what the others owe stays.
LEMMA OneOwed ==
    ASSUME TypeOK, NEW t \in Threads, NEW k, call' = [call EXCEPT ![t] = k]
    PROVE  mappedOwed' = [mappedOwed EXCEPT ![t] = OwedBy(t)']
BY DEF mappedOwed, OwedBy, TypeOK

\* The members are the keys of Inner::connections.
LEMMA MembersAreConnections ==
    ASSUME TypeOK PROVE Abstract!members = connections
<1>1. \A c \in Conns : StatusOf(c) # "out" <=> phase[c] \in {"inserted", "open", "closed"}
  BY DEF StatusOf, TypeOK, Phases
<1>2. QED
  BY <1>1 DEF Abstract!members, connections

\* Who holds the write lock finds nothing owed to anybody.
LEMMA NoReaderUnowed ==
    ASSUME NoReader, NEW c \in Conns PROVE Abstract!Unowed(c)
BY DEF NoReader, Abstract!Unowed, OwedBy

-----------------------------------------------------------------------------
(* One lemma per operation.                                                *)

\* Registry::add is a join.
LEMMA AddIsJoin ==
    ASSUME TypeOK, NEW c \in Conns, Add(c) PROVE Abstract!Join(c)
<1>1. mappedStatus[c] = "out" /\ StatusOf(c)' = "in"
  BY DEF Add, mappedStatus, StatusOf, TypeOK
<1>2. mappedStatus' = [mappedStatus EXCEPT ![c] = "in"]
  BY <1>1, OneStatus DEF Add
<1>3. UNCHANGED <<subscriptions, queue, mappedOwed>>
  BY SameOwed DEF Add
<1>4. QED
  BY <1>1, <1>2, <1>3 DEF Abstract!Join, mappedStatus, mappedOwed

\* Dropping the receiver ends the member's task.
LEMMA CloseQueueIsEnd ==
    ASSUME TypeOK, NEW c \in Conns, CloseQueue(c) PROVE Abstract!End(c)
<1>1. mappedStatus[c] = "in" /\ StatusOf(c)' = "deaf"
  BY DEF CloseQueue, InSession, mappedStatus, StatusOf, TypeOK
<1>2. mappedStatus' = [mappedStatus EXCEPT ![c] = "deaf"]
  BY <1>1, OneStatus DEF CloseQueue
<1>3. UNCHANGED <<subscriptions, mappedOwed>> /\ queue' = [queue EXCEPT ![c] = <<>>]
  BY SameOwed DEF CloseQueue
<1>4. QED
  BY <1>1, <1>2, <1>3 DEF Abstract!End, mappedStatus, mappedOwed

\* Registry::remove is a leave, and nothing is owed to who leaves.
LEMMA RemoveIsLeave ==
    ASSUME TypeOK, NEW c \in Conns, Remove(c) PROVE Abstract!Leave(c)
<1>1. mappedStatus[c] = "deaf" /\ StatusOf(c)' = "out"
  BY DEF Remove, mappedStatus, StatusOf, TypeOK
<1>2. mappedStatus' = [mappedStatus EXCEPT ![c] = "out"]
  BY <1>1, OneStatus DEF Remove
<1>3. UNCHANGED <<queue, mappedOwed>> /\ subscriptions' = [subscriptions EXCEPT ![c] = {}]
  BY SameOwed DEF Remove
<1>4. Abstract!Unowed(c)
  BY NoReaderUnowed DEF Remove
<1>5. QED
  BY <1>1, <1>2, <1>3, <1>4 DEF Abstract!Leave, mappedStatus, mappedOwed

\* rx.recv takes a frame from the inbox.
LEMMA RecvIsTake ==
    ASSUME TypeOK, NEW c \in Conns, Recv(c) PROVE Abstract!Take(c)
<1>1. mappedStatus[c] = "in"
  BY DEF Recv, InSession, mappedStatus, StatusOf
<1>2. UNCHANGED <<subscriptions, mappedStatus, mappedOwed>>
  BY SameStatus, SameOwed DEF Recv
<1>3. QED
  BY <1>1, <1>2 DEF Recv, Abstract!Take, mappedStatus, mappedOwed

\* A subscribe and an unsubscribe change one member's set, within the limit.
LEMMA ResubscribingIsChange ==
    ASSUME TypeOK, TypeOK', LimitInv', NEW c \in Conns, NEW chs \in Requests,
           Subscribe(c, chs) \/ Unsubscribe(c, chs)
    PROVE  \E S \in SUBSET Channels : Abstract!Change(c, S)
<1>1. mappedStatus[c] = "in"
  BY DEF Subscribe, Unsubscribe, InSession, mappedStatus, StatusOf
<1>2. UNCHANGED <<queue, mappedStatus, mappedOwed>>
  BY SameStatus, SameOwed DEF Subscribe, Unsubscribe
<1>3. Abstract!Unowed(c)
  BY NoReaderUnowed DEF Subscribe, Unsubscribe
<1>4. PICK S \in SUBSET Channels : S = subscriptions'[c]
  BY DEF TypeOK
<1>5. Cardinality(S) <= MaxSubscriptions
  BY <1>4 DEF LimitInv, SubscriptionLimit
<1>6. subscriptions' = [subscriptions EXCEPT ![c] = S]
  BY <1>4 DEF Subscribe, Unsubscribe, TypeOK
<1>7. Abstract!Change(c, S)
  BY <1>1, <1>2, <1>3, <1>5, <1>6 DEF Abstract!Change, Abstract!Cardinality, Cardinality, mappedStatus, mappedOwed
<1>8. QED
  BY <1>7

\* Taking the read lock for the recipients owes the frame to each of them.
LEMMA StartIsOwe ==
    ASSUME TypeOK, NEW t \in Threads, NEW op, NEW on, NEW f, Start(t, op, on, f)
    PROVE  Abstract!Owe(t, f, Recipients(op, on))
<1>1. mappedOwed[t] = {}
  BY DEF Start, mappedOwed, OwedBy
<1>2. OwedBy(t)' = Recipients(op, on) \X {f}
  BY DEF Start, Begin, OwedBy, TypeOK, Idle
<1>3. mappedOwed' = [mappedOwed EXCEPT ![t] = Recipients(op, on) \X {f}]
  BY <1>2, OneOwed DEF Start
<1>4. UNCHANGED <<subscriptions, queue, mappedStatus>>
  BY SameStatus DEF Start
<1>5. QED
  BY <1>1, <1>3, <1>4 DEF Abstract!Owe, mappedStatus, mappedOwed

\* Registry::publish, which looks in the index, owes its frame to the members
\* that hold the channel.
LEMMA PublishIsPublish ==
    ASSUME TypeOK, RegistryInv, NEW t \in Threads, NEW ch \in Channels, NEW f,
           Publish(t, ch, f)
    PROVE  Abstract!Publish(t, ch, f)
<1>1. Recipients("publish", ch) = {c \in connections : ch \in subscriptions[c]}
  BY DEF Recipients, RegistryInv, IndexInStep
<1>2. QED
  BY <1>1, StartIsOwe, MembersAreConnections DEF Publish, Abstract!Publish

\* Registry::broadcast owes it to all members.
LEMMA BroadcastIsBroadcast ==
    ASSUME TypeOK, NEW t \in Threads, NEW f, Broadcast(t, f)
    PROVE  Abstract!Broadcast(t, f)
<1>1. Recipients("broadcast", NoConn) = connections
  BY DEF Recipients
<1>2. QED
  BY <1>1, StartIsOwe, MembersAreConnections DEF Broadcast, Abstract!Broadcast

\* Registry::send owes it to the connection itself.
LEMMA SendIsReply ==
    ASSUME TypeOK, NEW c \in Conns, NEW f, Send(c, f)
    PROVE  Abstract!Reply(c, f)
<1>1. mappedStatus[c] = "in"
  BY DEF Send, InSession, mappedStatus, StatusOf
<1>2. Recipients("send", c) = {c}
  BY DEF Send, InSession, Recipients, connections
<1>3. Abstract!Owe(c, f, {c})
  BY <1>2, StartIsOwe DEF Send, Threads
<1>4. QED
  BY <1>1, <1>3 DEF Abstract!Reply, mappedStatus

\* try_send delivers what is owed, or loses it to a full or a closed queue.
LEMMA TrySendSettles ==
    ASSUME TypeOK, RegistryInv, NEW t \in Threads, NEW c \in Conns, TrySend(t, c)
    PROVE  \E f \in Frames : Abstract!Deliver(t, c, f) \/ Abstract!Lose(t, c, f)
<1> DEFINE k == call[t]
           f == k.frame
<1>1. k \in Calls /\ k # Idle /\ c \in k.todo
  BY InCall DEF TrySend
<1>2. f \in Frames /\ k.op \in {"publish", "broadcast", "send"}
  BY <1>1 DEF Calls
<1>3. c \in connections
  BY <1>1, <1>2, RecipientsRegistered DEF RegistryInv, RecipientsPinned
<1>4. mappedStatus[c] = IF phase[c] = "closed" THEN "deaf" ELSE "in"
  BY <1>3 DEF connections, mappedStatus, StatusOf
<1>5. <<c, f>> \in mappedOwed[t]
  BY <1>1 DEF mappedOwed, OwedBy
<1>6. mappedOwed' = [mappedOwed EXCEPT ![t] = @ \ {<<c, f>>}]
  <2>1. call'[t] # Idle /\ call'[t].todo = k.todo \ {c} /\ call'[t].frame = f
    BY <1>1 DEF TrySend, TypeOK, Calls, Idle
  <2>2. OwedBy(t)' = OwedBy(t) \ {<<c, f>>}
    BY <1>1, <2>1 DEF OwedBy
  <2>3. mappedOwed' = [mappedOwed EXCEPT ![t] = OwedBy(t)']
    BY OneOwed DEF TrySend
  <2>4. QED
    BY <2>2, <2>3 DEF mappedOwed
<1>7. UNCHANGED <<subscriptions, mappedStatus>>
  BY SameStatus DEF TrySend
<1>8. Abstract!Settle(t, c, f)
  BY <1>5, <1>6 DEF Abstract!Settle, mappedOwed
<1>9. Len(queue[c]) \in Nat
  BY DEF TypeOK
<1>10. CASE phase[c] = "closed" \/ Len(queue[c]) >= SendQueue
  <2>1. UNCHANGED queue
    BY <1>10 DEF TrySend
  <2>2. Abstract!Lose(t, c, f)
    BY <1>4, <1>7, <1>8, <1>10, <2>1 DEF Abstract!Lose, mappedStatus
  <2>3. QED
    BY <1>2, <2>2
<1>11. CASE ~(phase[c] = "closed" \/ Len(queue[c]) >= SendQueue)
  <2>1. queue' = [queue EXCEPT ![c] = Append(@, f)]
    BY <1>11 DEF TrySend
  <2>2. Len(queue[c]) < SendQueue
    BY <1>9, <1>11, RegistryAssumption
  <2>3. Abstract!Deliver(t, c, f)
    BY <1>4, <1>7, <1>8, <1>11, <2>1, <2>2 DEF Abstract!Deliver, mappedStatus
  <2>4. QED
    BY <1>2, <2>3
<1>12. QED
  BY <1>10, <1>11

\* Counting a connection, updating the counters of a delivery and returning
\* are not visible.
LEMMA HiddenSteps ==
    ASSUME TypeOK,
           \/ \E c \in Conns : CountAdded(c)
           \/ \E t \in Threads : Tally(t) \/ Return(t)
           \/ UNCHANGED vars
    PROVE  UNCHANGED <<mappedStatus, subscriptions, queue, mappedOwed>>
<1>1. ASSUME NEW c \in Conns, CountAdded(c)
      PROVE  UNCHANGED <<mappedStatus, subscriptions, queue, mappedOwed>>
  <2>1. StatusOf(c)' = mappedStatus[c]
    BY <1>1 DEF CountAdded, mappedStatus, StatusOf, TypeOK
  <2>2. mappedStatus' = mappedStatus
    BY <1>1, <2>1, OneStatus DEF CountAdded, mappedStatus
  <2>3. QED
    BY <1>1, <2>2, SameOwed DEF CountAdded
<1>2. ASSUME NEW t \in Threads, Tally(t)
      PROVE  UNCHANGED <<mappedStatus, subscriptions, queue, mappedOwed>>
  <2>1. call[t] \in Calls /\ call[t] # Idle
    BY <1>2, InCall DEF Tally
  <2>2. call'[t] # Idle /\ call'[t].todo = call[t].todo /\ call'[t].frame = call[t].frame
    BY <1>2, <2>1 DEF Tally, TypeOK, Calls, Idle
  <2>3. OwedBy(t)' = mappedOwed[t]
    BY <2>1, <2>2 DEF OwedBy, mappedOwed
  <2>4. mappedOwed' = [mappedOwed EXCEPT ![t] = OwedBy(t)']
    BY <1>2, OneOwed DEF Tally
  <2>5. mappedOwed' = mappedOwed
    BY <2>3, <2>4 DEF mappedOwed
  <2>6. QED
    BY <1>2, <2>5, SameStatus DEF Tally
<1>3. ASSUME NEW t \in Threads, Return(t)
      PROVE  UNCHANGED <<mappedStatus, subscriptions, queue, mappedOwed>>
  <2>1. OwedBy(t)' = mappedOwed[t]
    BY <1>3 DEF Return, OwedBy, mappedOwed, TypeOK
  <2>2. mappedOwed' = [mappedOwed EXCEPT ![t] = OwedBy(t)']
    BY <1>3, OneOwed DEF Return
  <2>3. mappedOwed' = mappedOwed
    BY <2>1, <2>2 DEF mappedOwed
  <2>4. QED
    BY <1>3, <2>3, SameStatus DEF Return
<1>4. CASE UNCHANGED vars
  BY <1>4, SameStatus, SameOwed DEF vars
<1>5. QED
  BY <1>1, <1>2, <1>3, <1>4

-----------------------------------------------------------------------------
\* Every operation of the registry is one step of the fan-out, or invisible.
LEMMA RefinementStep ==
    TypeOK /\ RegistryInv /\ LimitInv' /\ TypeOK' /\ [Next]_vars
        => [Abstract!Next]_(Abstract!fvars)
<1> SUFFICES ASSUME TypeOK, RegistryInv, LimitInv', TypeOK', [Next]_vars
             PROVE  Abstract!Next \/ UNCHANGED Abstract!fvars
  OBVIOUS
<1>1. ASSUME NEW c \in Conns, Add(c) \/ CloseQueue(c) \/ Remove(c) \/ Recv(c)
      PROVE  Abstract!Next
  BY <1>1, AddIsJoin, CloseQueueIsEnd, RemoveIsLeave, RecvIsTake DEF Abstract!Next
<1>2. ASSUME NEW c \in Conns, NEW chs \in Requests, Subscribe(c, chs) \/ Unsubscribe(c, chs)
      PROVE  Abstract!Next
  BY <1>2, ResubscribingIsChange DEF Abstract!Next
<1>3. ASSUME NEW t \in Threads, NEW f \in Frames,
             Broadcast(t, f) \/ \E ch \in Channels : Publish(t, ch, f)
      PROVE  Abstract!Next
  BY <1>3, BroadcastIsBroadcast, PublishIsPublish DEF Abstract!Next
<1>4. ASSUME NEW c \in Conns, NEW f \in Frames, Send(c, f) PROVE Abstract!Next
  BY <1>4, SendIsReply DEF Abstract!Next
<1>5. ASSUME NEW t \in Threads, NEW c \in Conns, TrySend(t, c) PROVE Abstract!Next
  BY <1>5, TrySendSettles DEF Abstract!Next
<1>6. ASSUME \/ \E c \in Conns : CountAdded(c)
             \/ \E t \in Threads : Tally(t) \/ Return(t)
             \/ UNCHANGED vars
      PROVE  UNCHANGED Abstract!fvars
  BY <1>6, HiddenSteps DEF Abstract!fvars, mappedStatus, mappedOwed
<1>7. QED
  BY <1>1, <1>2, <1>3, <1>4, <1>5, <1>6 DEF Next, Step, Threads

\* The registry, with its index, its lock and its loop of try_sends, implements
\* the fan-out: a publication goes to exactly the connections that hold the
\* channel when it is made, each delivery made once or lost to a full or a
\* closed queue.
THEOREM RegistryImplementsFanout == Spec => ImplementsFanout
<1>1. Init => Abstract!Init
  BY DEF Init, Abstract!Init, StatusOf, OwedBy
<1>2. QED
  BY <1>1, RefinementStep, TypeCorrect, InvHolds, LimitHolds, PTL
     DEF Spec, ImplementsFanout, Abstract!Spec

=============================================================================
