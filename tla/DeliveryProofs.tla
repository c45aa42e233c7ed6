--------------------------- MODULE DeliveryProofs ---------------------------
(***************************************************************************)
(* Proofs about what Server puts into the queues: frames are honest when   *)
(* they are queued, nothing unauthorised is ever queued, and there is no   *)
(* gap between the snapshot and the stream.                                *)
(***************************************************************************)
EXTENDS ServerProofs

-----------------------------------------------------------------------------
(* Honest frames.                                                          *)

\* A connection holds allowed channels only, owes snapshots of channels it
\* holds and a reply that is so, and owes them only while it is in handle.
ReplyOK(c) ==
    /\ subscriptions[c] \subseteq MayRead[c] \ Oversized
    /\ snaps[c] \subseteq subscriptions[c]
    /\ pc[c] # "replying" => out[c] = NoFrame /\ snaps[c] = {}
    /\ out[c] # NoFrame => Honest(c, out[c])

\* The frame of a call is so for everyone who is still to get it.
CallOK(t) == call[t] # Idle => \A c \in call[t].todo : Honest(c, call[t].frame)

HonestInv == (\A c \in Conns : ReplyOK(c)) /\ (\A t \in Threads : CallOK(t))

\* A step of the task of c: the other tasks and the calls are as they were, and
\* if c's channels changed then under the write lock.
LEMMA OneReplyChanged ==
    ASSUME HonestInv, NEW c \in Conns, UNCHANGED call,
           NoReader \/ UNCHANGED subscriptions,
           \A d \in Conns \ {c} : /\ subscriptions'[d] = subscriptions[d]
                                  /\ pc'[d] = pc[d] /\ out'[d] = out[d] /\ snaps'[d] = snaps[d],
           ReplyOK(c)'
    PROVE  HonestInv'
<1>1. ASSUME NEW d \in Conns \ {c} PROVE ReplyOK(d)'
  <2>1. ReplyOK(d)
    BY DEF HonestInv
  <2>2. QED
    BY <2>1 DEF ReplyOK, Honest
<1>2. ASSUME NEW t \in Threads PROVE CallOK(t)'
  <2>1. CASE NoReader
    BY <2>1 DEF NoReader, CallOK
  <2>2. CASE UNCHANGED subscriptions
    <3>1. CallOK(t)
      BY DEF HonestInv
    <3>2. QED
      BY <2>2, <3>1 DEF CallOK, Honest
  <2>3. QED
    BY <2>1, <2>2
<1>3. QED
  BY <1>1, <1>2 DEF HonestInv

\* A step that leaves the tasks and their channels alone.
LEMMA RepliesUnchanged ==
    ASSUME HonestInv, UNCHANGED <<subscriptions, pc, out, snaps>>
    PROVE  \A c \in Conns : ReplyOK(c)'
BY DEF HonestInv, ReplyOK, Honest

\* A call begins with a frame that is so for each of its recipients.
LEMMA StartHonest ==
    ASSUME TypeOK, HonestInv, NEW t \in Threads, NEW op, NEW on, NEW f, Start(t, op, on, f),
           \A c \in Recipients(op, on) : Honest(c, f)
    PROVE  \A u \in Threads : CallOK(u)'
<1>1. /\ UNCHANGED subscriptions
      /\ \A u \in Threads \ {t} : call'[u] = call[u]
      /\ call'[t].frame = f /\ call'[t].todo = Recipients(op, on)
  BY DEF Start, TypeOK, Begin
<1>2. ASSUME NEW u \in Threads \ {t} PROVE CallOK(u)'
  BY <1>1 DEF HonestInv, CallOK, Honest
<1>3. CallOK(t)'
  BY <1>1 DEF CallOK, Honest
<1>4. QED
  BY <1>2, <1>3

\* A call under way keeps its frame and visits no one new.
LEMMA CallShrinks ==
    ASSUME TypeOK, NEW t \in Threads, CallStep(t) \/ \E c \in Conns : Deliver(t, c)
    PROVE  /\ call[t] # Idle /\ call[t] \in Calls
           /\ \A u \in Threads \ {t} : call'[u] = call[u]
           /\ \/ call'[t] = Idle /\ call[t].todo = {}
              \/ /\ call'[t] # Idle /\ call'[t].frame = call[t].frame
                 /\ call'[t].todo \subseteq call[t].todo
                 /\ \A d \in call[t].todo \ call'[t].todo : Deliver(t, d)
<1>1. call[t] # Idle /\ call[t] \in Calls
  BY InCall DEF CallStep, Tally, Return, Deliver, TrySend
<1>2. CASE Return(t)
  BY <1>1, <1>2 DEF Return, TypeOK
<1>i. call[t].op # "idle" /\ \A k : k.op # "idle" => k # Idle
  BY <1>1 DEF Calls, Idle
<1>3. CASE Tally(t)
  <2>1. /\ \A u \in Threads \ {t} : call'[u] = call[u]
        /\ call'[t].frame = call[t].frame /\ call'[t].op = call[t].op
        /\ call'[t].todo = call[t].todo
    BY <1>1, <1>3 DEF Tally, TypeOK, Calls
  <2>2. QED
    BY <1>1, <1>i, <2>1
<1>4. ASSUME NEW c \in Conns, Deliver(t, c)
      PROVE  /\ \A u \in Threads \ {t} : call'[u] = call[u]
             /\ call'[t].frame = call[t].frame /\ call'[t].op = call[t].op
             /\ call'[t].todo = call[t].todo \ {c}
  BY <1>1, <1>4 DEF Deliver, TrySend, TypeOK, Calls
<1>5. CASE \E c \in Conns : Deliver(t, c)
  BY <1>1, <1>i, <1>4, <1>5
<1>6. QED
  BY <1>1, <1>2, <1>3, <1>5 DEF CallStep

\* Every step of the server keeps the frames honest.
LEMMA HonestStep == ServerInv /\ HonestInv /\ [ServerNext]_allvars => HonestInv'
<1> SUFFICES ASSUME ServerInv, HonestInv, [ServerNext]_allvars PROVE HonestInv'
  OBVIOUS
<1>t. TypeOK /\ RegistryInv /\ ServerTypeOK /\ FramesInv /\ SessionRegistered
  BY DEF ServerInv
<1>r. \A c \in Conns : ReplyOK(c)
  BY DEF HonestInv
<1>1. ASSUME NEW c \in Conns, NEW to, Go(c, to), UNCHANGED <<subscriptions, call, out, snaps>>,
             out[c] = NoFrame /\ snaps[c] = {}
      PROVE  HonestInv'
  <2>1. \A d \in Conns \ {c} : pc'[d] = pc[d]
    BY <1>1, <1>t DEF Go, ServerTypeOK
  <2>2. ReplyOK(c)'
    BY <1>1, <1>r DEF ReplyOK, Honest
  <2>3. QED
    BY <1>1, <2>1, <2>2, OneReplyChanged
<1>2. ASSUME NEW c \in Conns,
             \/ Accept(c) \/ Advance(c) \/ GiveUp(c) \/ Control(c) \/ Written(c)
             \/ HeartbeatTimeout(c) \/ OnRequest(c) \/ Handled(c) \/ Check(c) \/ Release(c)
      PROVE  HonestInv'
  <2>1. /\ \E to : Go(c, to)
        /\ UNCHANGED <<subscriptions, call, out, snaps>>
    BY <1>2 DEF Accept, Advance, GiveUp, Control, Written, HeartbeatTimeout, OnRequest,
                Handled, Check, Release, vars
  <2>2. pc[c] # "replying" \/ (out[c] = NoFrame /\ snaps[c] = {})
    BY <1>2 DEF Accept, Advance, GiveUp, Control, Written, HeartbeatTimeout, OnRequest,
                Handled, Check, Release
  <2>3. out[c] = NoFrame /\ snaps[c] = {}
    BY <1>r, <2>2 DEF ReplyOK
  <2>4. QED
    BY <1>1, <2>1, <2>3
<1>3. ASSUME NEW c \in Conns, Join(c) \/ Outbound(c) PROVE HonestInv'
  <2>1. /\ \E to : Go(c, to)
        /\ UNCHANGED <<subscriptions, call, out, snaps>> /\ pc[c] # "replying"
    BY <1>3 DEF Join, Add, CountAdded, Outbound, Recv
  <2>2. out[c] = NoFrame /\ snaps[c] = {}
    BY <1>r, <2>1 DEF ReplyOK
  <2>3. QED
    BY <1>1, <2>1, <2>2
<1>4. ASSUME NEW c \in Conns, EndSession(c) PROVE HonestInv'
  <2>1. /\ Go(c, "removing") /\ UNCHANGED <<subscriptions, call, out>>
        /\ snaps' = [snaps EXCEPT ![c] = {}]
    BY <1>4 DEF EndSession, Leave, CloseQueue
  <2>2. out[c] = NoFrame
    BY <1>4, <1>r DEF EndSession, ReplyOK
  <2>3. \A d \in Conns \ {c} : pc'[d] = pc[d] /\ snaps'[d] = snaps[d]
    BY <2>1, <1>t DEF Go, ServerTypeOK
  <2>4. snaps'[c] = {}
    BY <2>1, <1>t DEF ServerTypeOK
  <2>5. ReplyOK(c)'
    BY <1>r, <2>1, <2>2, <2>4 DEF ReplyOK
  <2>6. QED
    BY <2>1, <2>3, <2>5, OneReplyChanged
<1>5. ASSUME NEW c \in Conns, Cleanup(c) PROVE HonestInv'
  <2>1. /\ Go(c, "releasing") /\ UNCHANGED <<call, out, snaps>> /\ NoReader
        /\ subscriptions' = [subscriptions EXCEPT ![c] = {}] /\ pc[c] = "removing"
    BY <1>5 DEF Cleanup, Remove
  <2>2. \A d \in Conns \ {c} : pc'[d] = pc[d] /\ subscriptions'[d] = subscriptions[d]
    BY <2>1, <1>t DEF Go, ServerTypeOK, TypeOK
  <2>3. subscriptions'[c] = {}
    BY <2>1, <1>t DEF TypeOK
  <2>4. ReplyOK(c)'
    BY <1>r, <2>1, <2>3 DEF ReplyOK
  <2>5. QED
    BY <2>1, <2>2, <2>4, OneReplyChanged
<1>6. ASSUME NEW c \in Conns, NEW chs \in Requests, OnSubscribe(c, chs) PROVE HonestInv'
  <2> DEFINE added == Added(subscriptions[c], Allowed(c, chs))
  <2>1. /\ Go(c, "replying") /\ UNCHANGED call /\ NoReader
        /\ subscriptions' = [subscriptions EXCEPT ![c] = @ \cup added]
        /\ out' = [out EXCEPT ![c] = Ack(c, chs)]
        /\ snaps' = [snaps EXCEPT ![c] = added]
    BY <1>6 DEF OnSubscribe, Subscribe
  <2>2. added \subseteq MayRead[c] \ Oversized
    <3>1. added \subseteq Listed(Allowed(c, chs))
      BY DEF Added, Listed, Prefix
    <3>2. QED
      BY <3>1, AllowedIsAllowed
  <2>3. Ack(c, chs).type = "subscribed" /\ Ack(c, chs).channels = added
    BY DEF Ack, Subscribed
  <2> HIDE DEF added
  <2>4. \A d \in Conns \ {c} : /\ pc'[d] = pc[d] /\ subscriptions'[d] = subscriptions[d]
                               /\ out'[d] = out[d] /\ snaps'[d] = snaps[d]
    BY <2>1, <1>t DEF Go, ServerTypeOK, TypeOK
  <2>5. /\ subscriptions'[c] = subscriptions[c] \cup added /\ snaps'[c] = added
        /\ out'[c] = Ack(c, chs) /\ pc'[c] = "replying"
    BY <2>1, <1>t DEF Go, ServerTypeOK, TypeOK
  <2>6. ReplyOK(c)'
    BY <1>r, <2>2, <2>3, <2>5 DEF ReplyOK, Honest
  <2>7. QED
    BY <2>1, <2>4, <2>6, OneReplyChanged
<1>7. ASSUME NEW c \in Conns, NEW chs \in Requests, OnUnsubscribe(c, chs) PROVE HonestInv'
  <2> DEFINE removed == Removed(subscriptions[c], chs)
  <2>1. /\ Go(c, "replying") /\ UNCHANGED <<call, snaps>> /\ NoReader
        /\ subscriptions' = [subscriptions EXCEPT ![c] = @ \ removed]
        /\ out' = [out EXCEPT ![c] = Unsubscribed(removed)]
        /\ pc[c] = "locking"
    BY <1>7 DEF OnUnsubscribe, Unsubscribe
  <2> HIDE DEF removed
  <2>2. snaps[c] = {}
    BY <1>r, <2>1 DEF ReplyOK
  <2>3. Unsubscribed(removed).type = "unsubscribed" /\ Unsubscribed(removed).channels = removed
    BY DEF Unsubscribed
  <2>4. \A d \in Conns \ {c} : /\ pc'[d] = pc[d] /\ subscriptions'[d] = subscriptions[d]
                               /\ out'[d] = out[d]
    BY <2>1, <1>t DEF Go, ServerTypeOK, TypeOK
  <2>5. /\ subscriptions'[c] = subscriptions[c] \ removed /\ snaps'[c] = {}
        /\ out'[c] = Unsubscribed(removed) /\ pc'[c] = "replying"
    BY <2>1, <2>2, <1>t DEF Go, ServerTypeOK, TypeOK
  <2>6. ReplyOK(c)'
    BY <1>r, <2>3, <2>5 DEF ReplyOK, Honest
  <2>7. QED
    BY <2>1, <2>4, <2>6, OneReplyChanged
<1>8. ASSUME NEW c \in Conns, NEW answer \in Answers, OnOther(c, answer) PROVE HonestInv'
  <2>1. /\ Go(c, "replying") /\ UNCHANGED <<call, snaps, subscriptions>>
        /\ out' = [out EXCEPT ![c] = answer]
    BY <1>8 DEF OnOther, vars
  <2>2. \A d \in Conns \ {c} : pc'[d] = pc[d] /\ out'[d] = out[d]
    BY <2>1, <1>t DEF Go, ServerTypeOK
  <2>3. out'[c] = answer /\ pc'[c] = "replying"
    BY <2>1, <1>t DEF Go, ServerTypeOK
  <2>4. answer.type \in {"pong", "error"}
    BY DEF Answers
  <2>5. ReplyOK(c)'
    BY <1>r, <2>1, <2>3, <2>4 DEF ReplyOK, Honest
  <2>6. QED
    BY <2>1, <2>2, <2>5, OneReplyChanged
<1>9. ASSUME NEW c \in Conns, NEW ch \in Channels, TakeSnapshot(c, ch) PROVE HonestInv'
  <2>1. /\ UNCHANGED <<call, subscriptions, pc>> /\ pc[c] = "replying" /\ ch \in snaps[c]
        /\ snaps' = [snaps EXCEPT ![c] = @ \ {ch}]
        /\ out' = [out EXCEPT ![c] =
                      IF latest[ch] = 0 THEN NoFrame ELSE Snapshot(ch, latest[ch])]
    BY <1>9 DEF TakeSnapshot, vars
  <2>2. \A d \in Conns \ {c} : out'[d] = out[d] /\ snaps'[d] = snaps[d]
    BY <2>1, <1>t DEF ServerTypeOK
  <2>3. /\ snaps'[c] = snaps[c] \ {ch}
        /\ out'[c] = NoFrame \/ out'[c] = Snapshot(ch, latest[ch])
    BY <2>1, <1>t DEF ServerTypeOK
  <2>4. /\ Snapshot(ch, latest[ch]).type = "snapshot"
        /\ Snapshot(ch, latest[ch]).channel = ch
    BY DEF Snapshot
  <2>5. ReplyOK(c)'
    BY <1>r, <2>1, <2>3, <2>4 DEF ReplyOK, Honest
  <2>6. QED
    BY <2>1, <2>2, <2>5, OneReplyChanged
<1>10. ASSUME NEW c \in Conns, Reply(c) PROVE HonestInv'
  <2>1. /\ Start(c, "send", c, out[c]) /\ out' = [out EXCEPT ![c] = NoFrame]
        /\ out[c] # NoFrame /\ UNCHANGED <<subscriptions, pc, snaps>>
    BY <1>10 DEF Reply, Send, Start
  <2>2. \A d \in Recipients("send", c) : Honest(d, out[c])
    BY <1>r, <2>1 DEF Recipients, ReplyOK
  <2>3. \A t \in Threads : CallOK(t)'
    BY <1>t, <2>1, <2>2, StartHonest DEF Threads
  <2>4. \A d \in Conns : out'[d] = NoFrame \/ out'[d] = out[d]
    BY <2>1, <1>t DEF ServerTypeOK
  <2>5. \A d \in Conns : ReplyOK(d)'
    BY <1>r, <2>1, <2>4 DEF ReplyOK, Honest
  <2>6. QED
    BY <2>3, <2>5 DEF HonestInv
<1>11. ASSUME NEW p \in Publishers, NEW ch \in Channels, PublishNext(p, ch) PROVE HonestInv'
  <2>1. /\ Start(p, "publish", ch, job[p].frame) /\ ch \in job[p].chs
        /\ UNCHANGED <<subscriptions, pc, out, snaps>>
    BY <1>11 DEF PublishNext, Publish, Start
  <2>2. ASSUME NEW c \in Recipients("publish", ch) PROVE Honest(c, job[p].frame)
    <3>1. ch \in subscriptions[c]
      BY <1>t DEF Recipients, RegistryInv, IndexInStep
    <3>2. JobOK(job[p])
      BY <1>t DEF FramesInv
    <3>3. CASE \E v \in 1..MaxVersion : job[p].frame = Data(ch, v)
      BY <3>1, <3>3 DEF Data, Honest
    <3>4. CASE \E S \in SUBSET Channels : job[p].frame = Resync(S) /\ ch \in S
      BY <3>1, <3>4 DEF Resync, Honest
    <3>5. QED
      BY <2>1, <3>2, <3>3, <3>4 DEF JobOK
  <2>3. \A t \in Threads : CallOK(t)'
    BY <1>t, <2>1, <2>2, StartHonest DEF Threads
  <2>4. QED
    BY <2>1, <2>3, RepliesUnchanged DEF HonestInv
<1>12. ASSUME NEW p \in Publishers, ResyncAll(p) PROVE HonestInv'
  <2>1. /\ Start(p, "broadcast", NoConn, Resync({}))
        /\ UNCHANGED <<subscriptions, pc, out, snaps>>
    BY <1>12 DEF ResyncAll, Broadcast, Start, svars
  <2>2. \A c : Honest(c, Resync({}))
    BY DEF Resync, Honest
  <2>3. \A t \in Threads : CallOK(t)'
    BY <1>t, <2>1, <2>2, StartHonest DEF Threads
  <2>4. QED
    BY <2>1, <2>3, RepliesUnchanged DEF HonestInv
<1>13. ASSUME NEW t \in Threads, CallStep(t) \/ \E c \in Conns : Deliver(t, c) PROVE HonestInv'
  <2>1. UNCHANGED <<subscriptions, pc, out, snaps>>
    BY <1>13 DEF CallStep, Tally, Return, Deliver, TrySend, svars
  <2>2. \A u \in Threads : CallOK(u)'
    BY <1>t, <1>13, <2>1, CallShrinks DEF HonestInv, CallOK, Honest
  <2>3. QED
    BY <2>1, <2>2, RepliesUnchanged DEF HonestInv
<1>14. ASSUME UNCHANGED <<subscriptions, pc, out, snaps, call>> PROVE HonestInv'
  <2>1. \A u \in Threads : CallOK(u)'
    BY <1>14 DEF HonestInv, CallOK, Honest
  <2>2. QED
    BY <1>14, <2>1, RepliesUnchanged DEF HonestInv
<1>15. ASSUME NEW p \in Publishers, NEW x, Record(p, x) \/ ResyncSome(p, x) \/ Published(p)
       PROVE  HonestInv'
  BY <1>14, <1>15 DEF Record, ResyncSome, Published, vars
<1>16. CASE (\E c \in Conns : Park(c)) \/ StopAccepting \/ UNCHANGED allvars
  BY <1>14, <1>16 DEF Park, StopAccepting, allvars, vars, svars
<1> USE DEF Threads
<1>17. ASSUME NEW c \in Conns, TaskStep(c) PROVE HonestInv'
  BY <1>17, <1>2, <1>3, <1>5, <1>6, <1>7, <1>9, <1>10, <1>13 DEF TaskStep
<1>18. ASSUME NEW c \in Conns, ClientStep(c) PROVE HonestInv'
  BY <1>18, <1>2, <1>3, <1>4, <1>8 DEF ClientStep
<1>19. ASSUME NEW p \in Publishers, PublisherStep(p) PROVE HonestInv'
  BY <1>19, <1>11, <1>12, <1>13, <1>15 DEF PublisherStep
<1>20. QED
  BY <1>16, <1>17, <1>18, <1>19 DEF ServerNext

LEMMA HonestHolds == ServerSpec => []HonestInv
<1>1. ServerInit => HonestInv
  BY DEF ServerInit, Init, HonestInv, ReplyOK, CallOK
<1>2. QED
  BY <1>1, HonestStep, ServerInvHolds, PTL DEF ServerSpec

\* What a step of the registry may do to a queue.
LEMMA QueueMoves ==
    ASSUME TypeOK, [Next]_vars, NEW c \in Conns
    PROVE  \/ queue'[c] = queue[c]
           \/ queue'[c] = <<>>
           \/ queue[c] # <<>> /\ queue'[c] = Tail(queue[c])
           \/ \E t \in Threads : /\ call[t] # Idle /\ c \in call[t].todo
                                 /\ queue'[c] = Append(queue[c], call[t].frame)
<1> USE DEF TypeOK
<1>1. ASSUME NEW d \in Conns, Add(d) \/ CountAdded(d) \/ Remove(d) PROVE UNCHANGED queue
  BY <1>1 DEF Add, CountAdded, Remove
<1>2. ASSUME NEW d \in Conns, CloseQueue(d)
      PROVE  queue'[c] = queue[c] \/ queue'[c] = <<>>
  BY <1>2 DEF CloseQueue
<1>3. ASSUME NEW d \in Conns, Recv(d)
      PROVE  queue'[c] = queue[c] \/ (queue[c] # <<>> /\ queue'[c] = Tail(queue[c]))
  BY <1>3 DEF Recv
<1>4. ASSUME NEW d \in Conns, NEW chs, Subscribe(d, chs) \/ Unsubscribe(d, chs)
      PROVE  UNCHANGED queue
  BY <1>4 DEF Subscribe, Unsubscribe
<1>5. ASSUME NEW t, NEW op, NEW on, NEW f, Start(t, op, on, f) PROVE UNCHANGED queue
  BY <1>5 DEF Start
<1>6. ASSUME NEW t \in Threads, Tally(t) \/ Return(t) PROVE UNCHANGED queue
  BY <1>6 DEF Tally, Return
<1>7. ASSUME NEW t \in Threads, NEW d \in Conns, TrySend(t, d)
      PROVE  \/ queue'[c] = queue[c]
             \/ /\ call[t] # Idle /\ c \in call[t].todo
                /\ queue'[c] = Append(queue[c], call[t].frame)
  BY <1>7 DEF TrySend
<1>8. CASE UNCHANGED vars
  BY <1>8 DEF vars
<1>9. CASE Next
  BY <1>9, <1>1, <1>2, <1>3, <1>4, <1>5, <1>6, <1>7
     DEF Next, Step, Publish, Broadcast, Send
<1>10. QED
  BY <1>8, <1>9

\* The frame a step appends to a queue is honest.
LEMMA AppendedHonest ==
    ASSUME ServerInv, HonestInv, [ServerNext]_allvars, NEW c \in Conns
    PROVE  \/ queue'[c] = queue[c]
           \/ queue'[c] = <<>>
           \/ queue[c] # <<>> /\ queue'[c] = Tail(queue[c])
           \/ \E f \in Frames : Honest(c, f) /\ queue'[c] = Append(queue[c], f)
<1>1. TypeOK /\ [Next]_vars
  BY ServerRefinementStep DEF ServerInv
<1>2. ASSUME NEW t \in Threads, call[t] # Idle, c \in call[t].todo
      PROVE  Honest(c, call[t].frame) /\ call[t].frame \in Frames
  <2>1. call[t] \in Calls
    BY <1>1, <1>2, InCall
  <2>2. QED
    BY <1>2, <2>1 DEF HonestInv, CallOK, Calls
<1>3. QED
  BY <1>1, <1>2, QueueMoves

\* Data, snapshots and resync are queued only for channels held at that moment,
\* `subscribed` only while its channels are held, `unsubscribed` only when none
\* of its channels is: the state read in handle is not stale when it is queued.
THEOREM QueuedFramesHonest == ServerSpec => EnqueueHonest
<1> DEFINE Enqueue == \A c \in Conns : Len(queue'[c]) > Len(queue[c]) =>
                          Honest(c, queue'[c][Len(queue'[c])])
<1>1. ServerInv /\ HonestInv /\ [ServerNext]_allvars => [Enqueue]_allvars
  <2> SUFFICES ASSUME ServerInv, HonestInv, [ServerNext]_allvars, NEW c \in Conns,
                      Len(queue'[c]) > Len(queue[c])
               PROVE  Honest(c, queue'[c][Len(queue'[c])])
    OBVIOUS
  <2>1. queue[c] \in Seq(Frames)
    BY DEF ServerInv, TypeOK
  <2>2. Len(queue[c]) \in Nat /\ ~(Len(queue[c]) > Len(queue[c]))
    BY <2>1, LenProperties
  <2>3. CASE queue'[c] = <<>>
    <3>1. Len(queue'[c]) = 0
      BY <2>3
    <3>2. QED
      BY <2>2, <3>1
  <2>4. CASE queue[c] # <<>> /\ queue'[c] = Tail(queue[c])
    <3>1. Len(queue'[c]) = Len(queue[c]) - 1
      BY <2>1, <2>4, HeadTailProperties
    <3>2. QED
      BY <2>2, <3>1
  <2>5. CASE \E f \in Frames : Honest(c, f) /\ queue'[c] = Append(queue[c], f)
    <3>1. PICK f \in Frames : Honest(c, f) /\ queue'[c] = Append(queue[c], f)
      BY <2>5
    <3>2. queue'[c][Len(queue'[c])] = f
      BY <2>1, <3>1, AppendProperties
    <3>3. QED
      BY <3>1, <3>2
  <2>6. QED
    BY <2>2, <2>3, <2>4, <2>5, AppendedHonest
<1>2. QED
  BY <1>1, ServerInvHolds, HonestHolds, PTL DEF ServerSpec, EnqueueHonest

\* No data and no snapshot of a channel the authorizer refuses the client, or
\* whose name is too long, is ever queued for it, over any sequence of requests.
THEOREM NothingEverUnauthorised == ServerSpec => []NothingUnauthorised
<1>1. ServerInit => NothingUnauthorised
  BY DEF ServerInit, Init, NothingUnauthorised
<1>2. ServerInv /\ HonestInv /\ NothingUnauthorised /\ [ServerNext]_allvars
        => NothingUnauthorised'
  <2> SUFFICES ASSUME ServerInv, HonestInv, NothingUnauthorised, [ServerNext]_allvars,
                      NEW c \in Conns, NEW i \in DOMAIN queue'[c],
                      queue'[c][i].type \in {"data", "snapshot"}
               PROVE  queue'[c][i].channel \in MayRead[c] \ Oversized
    BY DEF NothingUnauthorised
  <2> DEFINE Allow(f) == f.type \in {"data", "snapshot"}
                            => f.channel \in MayRead[c] \ Oversized
  <2>1. queue[c] \in Seq(Frames) /\ \A j \in DOMAIN queue[c] : Allow(queue[c][j])
    BY DEF ServerInv, TypeOK, NothingUnauthorised
  <2>2. CASE queue'[c] = queue[c]
    BY <2>1, <2>2
  <2>3. CASE queue'[c] = <<>>
    BY <2>3
  <2>4. CASE queue[c] # <<>> /\ queue'[c] = Tail(queue[c])
    <3>1. queue'[c][i] = queue[c][i + 1] /\ i + 1 \in DOMAIN queue[c]
      BY <2>1, <2>4
    <3>2. QED
      BY <2>1, <3>1
  <2>5. CASE \E f \in Frames : Honest(c, f) /\ queue'[c] = Append(queue[c], f)
    <3>1. PICK f \in Frames : Honest(c, f) /\ queue'[c] = Append(queue[c], f)
      BY <2>5
    <3>2. queue'[c][i] = f \/ (i \in DOMAIN queue[c] /\ queue'[c][i] = queue[c][i])
      BY <2>1, <3>1
    <3>3. Allow(f)
      BY <3>1 DEF Honest, HonestInv, ReplyOK
    <3>4. QED
      BY <2>1, <3>2, <3>3
  <2>6. QED
    BY <2>2, <2>3, <2>4, <2>5, AppendedHonest
<1>3. QED
  BY <1>1, <1>2, ServerInvHolds, HonestHolds, PTL DEF ServerSpec

-----------------------------------------------------------------------------
(* No gap between the snapshot and the stream.                             *)

\* Payload v of ch is accounted for at c: a frame was lost, it or a newer one
\* was queued, or a snapshot not older than it is still to come.
Covered(c, ch, v) ==
    \/ view[c][ch].lost
    \/ view[c][ch].best >= v
    \/ ch \in snaps[c]
    \/ IsSnapshot(out[c], ch) /\ out[c].payload >= v
    \/ /\ call[c] # Idle /\ call[c].todo # {}
       /\ IsSnapshot(call[c].frame, ch) /\ call[c].frame.payload >= v

Reached(c, ch, v) == phase[c] # "closed" /\ ch \in subscriptions[c] => Covered(c, ch, v)

\* A feed that is publishing v on ch has recorded it, and has reached every
\* subscriber it has visited.
FeedOK(p, ch, v) ==
    /\ v <= latest[ch]
    /\ call[p] # Idle => call[p].frame = Data(ch, v) /\ job[p].chs = {}
    /\ job[p].chs = {} => \A c \in Conns :
            (call[p] = Idle \/ c \notin call[p].todo) => Reached(c, ch, v)

\* registry.send visits the connection of its caller only.
OwnSends == \A c \in Conns : call[c] # Idle => call[c].todo \subseteq {c}

FeedsOK ==
    \A p \in Publishers, ch \in Channels, v \in 1..MaxVersion :
        job[p].frame = Data(ch, v) => FeedOK(p, ch, v)

GapInv ==
    /\ \A ch \in Channels : published[ch] <= latest[ch]
    /\ OwnSends
    /\ FeedsOK
    /\ \A c \in Conns, ch \in Channels : Reached(c, ch, published[ch])

\* What a delivery does to the history of its connection.
LEMMA DeliverCovers ==
    ASSUME TypeOK, ServerTypeOK, FramesInv, NEW t \in Threads, NEW c \in Conns, Deliver(t, c),
           NEW ch \in Channels
    PROVE  /\ view[c][ch].lost => view'[c][ch].lost
           /\ view'[c][ch].best >= view[c][ch].best
           /\ (/\ call[t].frame.type \in {"data", "snapshot"}
               /\ call[t].frame.channel = ch /\ phase[c] # "closed")
                => view'[c][ch].lost \/ view'[c][ch].best >= call[t].frame.payload
           /\ \A d \in Conns \ {c} : view'[d] = view[d]
<1> DEFINE f == call[t].frame
           v == view[c][f.channel]
<1>1. call[t] # Idle
  BY DEF Deliver, TrySend
<1>2. f \in ServerFrames /\ view \in [Conns -> [Channels -> Views]]
  BY <1>1 DEF FramesInv, ServerTypeOK
<1>3. view[c][ch].best \in Nat
  BY <1>2, ServerAssumption DEF Views
<1>4. CASE f.type \notin {"data", "snapshot"} \/ phase[c] = "closed"
  <2>1. view' = view
    BY <1>4 DEF Deliver
  <2>2. QED
    BY <1>3, <1>4, <2>1
<1>5. CASE f.type \in {"data", "snapshot"} /\ phase[c] # "closed"
  <2>1. f.channel \in Channels /\ f.payload \in Nat
    BY <1>2, <1>5, PayloadFrames, ServerAssumption
  <2>2. v \in Views
    BY <1>2, <2>1
  <2>3. PICK w : /\ view' = [view EXCEPT ![c][f.channel] = w]
                 /\ \/ w = [v EXCEPT !.lost = TRUE]
                    \/ w = [v EXCEPT !.last = f.payload,
                                     !.best = IF f.payload > @ THEN f.payload ELSE @]
    BY <1>5 DEF Deliver
  <2> HIDE DEF f, v
  <2>4. /\ v.lost => w.lost
        /\ w.best >= v.best
        /\ w.lost \/ w.best >= f.payload
    <3>1. v.best \in Nat
      BY <2>2, ServerAssumption DEF Views
    <3>2. CASE w = [v EXCEPT !.lost = TRUE]
      BY <2>2, <3>1, <3>2 DEF Views
    <3>3. CASE w = [v EXCEPT !.last = f.payload,
                             !.best = IF f.payload > @ THEN f.payload ELSE @]
      <4>1. w.lost = v.lost /\ w.best = IF f.payload > v.best THEN f.payload ELSE v.best
        BY <2>2, <3>3 DEF Views
      <4>2. QED
        BY <2>1, <3>1, <4>1
    <3>4. QED
      BY <2>3, <3>2, <3>3
  <2>5. /\ \A d \in Conns \ {c} : view'[d] = view[d]
        /\ view'[c][f.channel] = w
        /\ ch # f.channel => view'[c][ch] = view[c][ch]
    BY <1>2, <2>1, <2>3
  <2>6. CASE ch = f.channel
    BY <2>4, <2>5, <2>6 DEF v, f
  <2>7. CASE ch # f.channel
    BY <1>3, <2>5, <2>7 DEF f
  <2>8. QED
    BY <2>6, <2>7
<1>6. QED
  BY <1>4, <1>5

\* A connection whose queue was closed does not hold a channel after reopening.
LEMMA NotReopened ==
    ASSUME TypeOK, [Next]_vars, NEW c \in Conns, phase[c] = "closed"
    PROVE  phase'[c] = "closed" \/ subscriptions'[c] = {}
<1> USE DEF TypeOK
<1>1. ASSUME NEW d \in Conns, Add(d) \/ CountAdded(d) \/ CloseQueue(d) PROVE phase'[c] = "closed"
  BY <1>1 DEF Add, CountAdded, CloseQueue
<1>2. ASSUME NEW d \in Conns, Remove(d) PROVE phase'[c] = "closed" \/ subscriptions'[c] = {}
  BY <1>2 DEF Remove
<1>3. ASSUME NEW d \in Conns, Recv(d) PROVE UNCHANGED phase
  BY <1>3 DEF Recv
<1>4. ASSUME NEW d \in Conns, NEW chs, Subscribe(d, chs) \/ Unsubscribe(d, chs)
      PROVE  UNCHANGED phase
  BY <1>4 DEF Subscribe, Unsubscribe
<1>5. ASSUME NEW t, NEW op, NEW on, NEW f, Start(t, op, on, f) PROVE UNCHANGED phase
  BY <1>5 DEF Start
<1>6. ASSUME NEW t \in Threads, Step(t) PROVE UNCHANGED phase
  BY <1>6 DEF Step, TrySend, Tally, Return
<1>7. CASE UNCHANGED vars
  BY <1>7 DEF vars
<1>8. CASE Next
  BY <1>8, <1>1, <1>2, <1>3, <1>4, <1>5, <1>6 DEF Next, Publish, Broadcast, Send
<1>9. QED
  BY <1>7, <1>8

\* A payload that was recorded stays accounted for, whatever anybody does: a
\* channel newly held owes its snapshot, a snapshot is of a state not older than
\* what was recorded before, and a reply becomes a send becomes a queued frame.
LEMMA CoverStep ==
    ASSUME ServerInv, HonestInv, OwnSends, [ServerNext]_allvars,
           NEW c \in Conns, NEW ch \in Channels, NEW v \in Nat, v <= latest[ch],
           Reached(c, ch, v)
    PROVE  Reached(c, ch, v)'
<1>t. TypeOK /\ RegistryInv /\ ServerTypeOK /\ FramesInv /\ SessionRegistered
  BY DEF ServerInv
<1>r. ReplyOK(c)
  BY DEF HonestInv
<1> SUFFICES ASSUME phase'[c] # "closed", ch \in subscriptions'[c]
             PROVE  Covered(c, ch, v)'
  BY DEF Reached
<1>o. phase[c] # "closed"
  BY <1>t, ServerRefinementStep, NotReopened
<1>h. ch \in subscriptions[c] => Covered(c, ch, v)
  BY <1>o DEF Reached
<1>1. ASSUME view'[c] = view[c], snaps'[c] = snaps[c], out'[c] = out[c], call'[c] = call[c],
             subscriptions'[c] \subseteq subscriptions[c]
      PROVE  Covered(c, ch, v)'
  BY <1>h, <1>1 DEF Covered
<1>2. ASSUME NEW d \in Conns,
             \/ Accept(d) \/ Advance(d) \/ GiveUp(d) \/ Control(d) \/ Written(d)
             \/ HeartbeatTimeout(d) \/ OnRequest(d) \/ Handled(d) \/ Check(d) \/ Release(d)
      PROVE  Covered(c, ch, v)'
  <2>1. UNCHANGED <<view, snaps, out, call, subscriptions>>
    BY <1>2 DEF Accept, Advance, GiveUp, Control, Written, HeartbeatTimeout, OnRequest,
                Handled, Check, Release, vars
  <2>2. QED
    BY <1>1, <2>1
<1>3. ASSUME NEW d \in Conns, Join(d) \/ Outbound(d) PROVE Covered(c, ch, v)'
  BY <1>1, <1>3 DEF Join, Add, CountAdded, Outbound, Recv
<1>4. ASSUME NEW d \in Conns, Cleanup(d) PROVE Covered(c, ch, v)'
  <2>1. subscriptions'[c] \subseteq subscriptions[c]
    BY <1>4, <1>t DEF Cleanup, Remove, TypeOK
  <2>2. QED
    BY <1>1, <1>4, <2>1 DEF Cleanup, Remove
<1>5. ASSUME NEW d \in Conns, EndSession(d) PROVE Covered(c, ch, v)'
  <2>1. d # c
    BY <1>5, <1>t DEF EndSession, Leave, CloseQueue, TypeOK
  <2>2. snaps'[c] = snaps[c]
    BY <1>5, <1>t, <2>1 DEF EndSession, ServerTypeOK
  <2>3. UNCHANGED <<view, out, call, subscriptions>>
    BY <1>5 DEF EndSession, Leave, CloseQueue
  <2>4. QED
    BY <1>1, <2>2, <2>3
<1>6. ASSUME NEW d \in Conns, NEW chs \in Requests, OnSubscribe(d, chs) PROVE Covered(c, ch, v)'
  <2> DEFINE added == Added(subscriptions[d], Allowed(d, chs))
  <2>1. /\ snaps' = [snaps EXCEPT ![d] = added]
        /\ out' = [out EXCEPT ![d] = Ack(d, chs)]
        /\ view' = [view EXCEPT ![d] = [x \in Channels |->
                        IF x \in added THEN Nothing ELSE view[d][x]]]
        /\ subscriptions' = [subscriptions EXCEPT ![d] = @ \cup added]
        /\ UNCHANGED call /\ pc[d] = "locking"
    BY <1>6 DEF OnSubscribe, Subscribe
  <2> HIDE DEF added
  <2>2. CASE d # c
    BY <1>1, <1>t, <2>1, <2>2 DEF ServerTypeOK, TypeOK
  <2>3. CASE d = c /\ ch \in added
    BY <1>t, <2>1, <2>3 DEF Covered, ServerTypeOK
  <2>4. CASE d = c /\ ch \notin added
    <3>1. view'[c][ch] = view[c][ch] /\ ch \in subscriptions[c]
      BY <1>t, <2>1, <2>4 DEF ServerTypeOK, TypeOK
    <3>2. out[c] = NoFrame /\ snaps[c] = {}
      BY <1>r, <2>1, <2>4 DEF ReplyOK
    <3>3. QED
      BY <1>h, <2>1, <3>1, <3>2 DEF Covered, IsSnapshot
  <2>5. QED
    BY <2>2, <2>3, <2>4
<1>7. ASSUME NEW d \in Conns, NEW x, OnUnsubscribe(d, x) \/ OnOther(d, x)
      PROVE  Covered(c, ch, v)'
  <2>1. /\ UNCHANGED <<view, snaps, call>> /\ pc[d] \in {"select", "locking"}
        /\ \E f : out' = [out EXCEPT ![d] = f]
    BY <1>7 DEF OnUnsubscribe, Unsubscribe, OnOther, vars
  <2>2. subscriptions'[c] \subseteq subscriptions[c]
    BY <1>7, <1>t DEF OnUnsubscribe, Unsubscribe, OnOther, vars, TypeOK
  <2>3. CASE d # c
    BY <1>1, <1>t, <2>1, <2>2, <2>3 DEF ServerTypeOK
  <2>4. CASE d = c
    <3>1. out[c] = NoFrame
      BY <1>r, <2>1, <2>4 DEF ReplyOK
    <3>2. QED
      BY <1>h, <2>1, <2>2, <3>1 DEF Covered, IsSnapshot
  <2>5. QED
    BY <2>3, <2>4
<1>8. ASSUME NEW d \in Conns, NEW x \in Channels, TakeSnapshot(d, x) PROVE Covered(c, ch, v)'
  <2>1. /\ UNCHANGED <<view, call, subscriptions>> /\ out[d] = NoFrame
        /\ snaps' = [snaps EXCEPT ![d] = @ \ {x}]
        /\ out' = [out EXCEPT ![d] =
                      IF latest[x] = 0 THEN NoFrame ELSE Snapshot(x, latest[x])]
    BY <1>8 DEF TakeSnapshot, vars
  <2>2. CASE d # c
    BY <1>1, <1>t, <2>1, <2>2 DEF ServerTypeOK
  <2>3. CASE d = c /\ x # ch
    <3>1. ch \in snaps[c] => ch \in snaps'[c]
      BY <1>t, <2>1, <2>3 DEF ServerTypeOK
    <3>2. QED
      BY <1>h, <2>1, <2>3, <3>1 DEF Covered, IsSnapshot
  <2>4. CASE d = c /\ x = ch /\ latest[ch] = 0
    <3>1. view[c][ch].best \in Nat
      BY <1>t, ServerAssumption DEF ServerTypeOK, Views
    <3>2. QED
      BY <2>1, <2>4, <3>1 DEF Covered
  <2>5. CASE d = c /\ x = ch /\ latest[ch] # 0
    <3>1. out'[c] = Snapshot(ch, latest[ch]) /\ latest[ch] \in 1..MaxVersion
      BY <1>t, <2>1, <2>5, ServerAssumption DEF ServerTypeOK
    <3>2. out'[c] # NoFrame
      BY <3>1, MessagesAreFrames
    <3>3. IsSnapshot(out'[c], ch) /\ out'[c].payload >= v
      BY <3>1, <3>2 DEF IsSnapshot, Snapshot
    <3>4. QED
      BY <3>3 DEF Covered
  <2>6. QED
    BY <2>2, <2>3, <2>4, <2>5
<1>9. ASSUME NEW d \in Conns, Reply(d) PROVE Covered(c, ch, v)'
  <2>1. /\ UNCHANGED <<view, snaps, subscriptions>> /\ out' = [out EXCEPT ![d] = NoFrame]
        /\ call[d] = Idle /\ phase[d] = "open"
        /\ call' = [call EXCEPT ![d] = Begin("send", d, out[d], Recipients("send", d))]
    BY <1>9 DEF Reply, Send, InSession, Start
  <2>2. CASE d # c
    BY <1>1, <1>t, <2>1, <2>2 DEF ServerTypeOK, TypeOK, Threads
  <2>3. CASE d = c
    <3>1. /\ call'[c].frame = out[c] /\ call'[c].todo = Recipients("send", c)
          /\ call'[c].op = "send"
      BY <1>t, <2>1, <2>3 DEF TypeOK, Threads, Begin
    <3>2. call'[c].todo # {}
      BY <2>1, <2>3, <3>1 DEF Recipients, connections
    <3>3. call'[c] # Idle
      BY <3>1 DEF Idle
    <3>4. QED
      BY <1>h, <2>1, <2>3, <3>1, <3>2, <3>3 DEF Covered
  <2>4. QED
    BY <2>2, <2>3
<1>10. ASSUME NEW p \in Publishers, NEW x, PublishNext(p, x) \/ ResyncAll(p)
       PROVE  Covered(c, ch, v)'
  <2>1. p # c
    BY RegistryAssumption
  <2>2. /\ UNCHANGED <<view, snaps, out, subscriptions>>
        /\ \E k : call' = [call EXCEPT ![p] = k]
    BY <1>10 DEF PublishNext, Publish, ResyncAll, Broadcast, Start, svars
  <2>3. call'[c] = call[c]
    BY <1>t, <2>1, <2>2 DEF TypeOK, Threads
  <2>4. QED
    BY <1>1, <2>2, <2>3
<1>11. ASSUME NEW t \in Threads, CallStep(t) PROVE Covered(c, ch, v)'
  <2>1. UNCHANGED <<view, snaps, out, subscriptions>>
    BY <1>11 DEF CallStep, Tally, Return, svars
  <2>2. \/ call'[c] = call[c]
        \/ call[c].todo = {}
        \/ call'[c] # Idle /\ call'[c].frame = call[c].frame /\ call'[c].todo = call[c].todo
    <3>1. CASE t # c
      BY <1>t, <1>11, <3>1, CallShrinks DEF Threads
    <3>2. CASE t = c /\ Return(c)
      BY <3>2 DEF Return
    <3>3. CASE t = c /\ Tally(c)
      <4>1. call[c] \in Calls
        BY <1>t, <3>3, InCall DEF Tally, Threads
      <4>2. /\ call'[c].frame = call[c].frame /\ call'[c].op = call[c].op
            /\ call'[c].todo = call[c].todo
        BY <1>t, <3>3, <4>1 DEF Tally, TypeOK, Threads, Calls
      <4>3. call'[c] # Idle
        BY <4>1, <4>2 DEF Calls, Idle
      <4>4. QED
        BY <4>2, <4>3
    <3>4. QED
      BY <1>11, <3>1, <3>2, <3>3 DEF CallStep
  <2>3. QED
    BY <1>h, <2>1, <2>2 DEF Covered
<1>12. ASSUME NEW t \in Threads, NEW d \in Conns, Deliver(t, d) PROVE Covered(c, ch, v)'
  <2>1. UNCHANGED <<snaps, out, subscriptions>> /\ call[t] # Idle /\ d \in call[t].todo
    BY <1>12 DEF Deliver, TrySend
  <2>2. \A u \in Threads \ {t} : call'[u] = call[u]
    BY <1>t, <1>12, CallShrinks
  <2>3. CASE d # c
    <3>1. t # c
      BY <2>1, <2>3 DEF OwnSends
    <3>2. call'[c] = call[c]
      BY <2>2, <3>1 DEF Threads
    <3>3. view'[c] = view[c]
      BY <1>t, <1>12, <2>3, DeliverCovers
    <3>4. QED
      BY <1>1, <2>1, <3>2, <3>3
  <2>4. CASE d = c
    <3>1. /\ view[c][ch].lost => view'[c][ch].lost
          /\ view'[c][ch].best >= view[c][ch].best
          /\ (/\ call[t].frame.type \in {"data", "snapshot"}
              /\ call[t].frame.channel = ch /\ phase[c] # "closed")
               => view'[c][ch].lost \/ view'[c][ch].best >= call[t].frame.payload
      BY <1>t, <1>12, <2>4, DeliverCovers
    <3>2. view[c][ch].best \in Nat /\ view'[c][ch].best \in Nat
      <4>1. view \in [Conns -> [Channels -> Views]] /\ view' \in [Conns -> [Channels -> Views]]
        BY <1>t, <1>12, DeliverViews DEF ServerTypeOK
      <4>2. QED
        BY <4>1, ServerAssumption DEF Views
    <3>3. CASE t # c
      <4>1. call'[c] = call[c]
        BY <2>2, <3>3 DEF Threads
      <4>2. QED
        BY <1>h, <2>1, <3>1, <3>2, <4>1 DEF Covered
    <3>4. CASE t = c
      <4>1. call[c].frame.type = "snapshot" => call[c].frame.payload \in Nat
        <5>1. call[c].frame \in ServerFrames
          BY <1>t, <2>1, <3>4 DEF FramesInv
        <5>2. QED
          BY <5>1, PayloadFrames, ServerAssumption
      <4>2. CASE IsSnapshot(call[c].frame, ch) /\ call[c].frame.payload >= v
        <5>1. view'[c][ch].lost \/ view'[c][ch].best >= call[c].frame.payload
          BY <1>o, <3>1, <3>4, <4>2 DEF IsSnapshot
        <5>2. view'[c][ch].lost \/ view'[c][ch].best >= v
          BY <3>2, <4>1, <4>2, <5>1 DEF IsSnapshot
        <5>3. QED
          BY <5>2 DEF Covered
      <4>3. CASE ~(IsSnapshot(call[c].frame, ch) /\ call[c].frame.payload >= v)
        <5>1. \/ view[c][ch].lost \/ view[c][ch].best >= v
              \/ ch \in snaps[c] \/ (IsSnapshot(out[c], ch) /\ out[c].payload >= v)
          BY <1>h, <2>1, <4>3 DEF Covered
        <5>2. QED
          BY <2>1, <3>1, <3>2, <5>1 DEF Covered
      <4>4. QED
        BY <4>2, <4>3
    <3>5. QED
      BY <3>3, <3>4
  <2>5. QED
    BY <2>3, <2>4
<1>13. ASSUME NEW p \in Publishers, NEW x, Record(p, x) \/ ResyncSome(p, x) \/ Published(p)
       PROVE  Covered(c, ch, v)'
  BY <1>1, <1>13 DEF Record, ResyncSome, Published, vars
<1>14. CASE (\E d \in Conns : Park(d)) \/ StopAccepting \/ UNCHANGED allvars
  BY <1>1, <1>14 DEF Park, StopAccepting, allvars, vars, svars
<1> USE DEF Threads
<1>15. ASSUME NEW d \in Conns, TaskStep(d) PROVE Covered(c, ch, v)'
  BY <1>15, <1>2, <1>3, <1>4, <1>6, <1>7, <1>8, <1>9, <1>11, <1>12 DEF TaskStep
<1>16. ASSUME NEW d \in Conns, ClientStep(d) PROVE Covered(c, ch, v)'
  BY <1>16, <1>2, <1>3, <1>5, <1>7 DEF ClientStep
<1>17. ASSUME NEW p \in Publishers, PublisherStep(p) PROVE Covered(c, ch, v)'
  BY <1>17, <1>10, <1>11, <1>12, <1>13 DEF PublisherStep
<1>18. QED
  BY <1>14, <1>15, <1>16, <1>17 DEF ServerNext

\* What a publisher is at is changed by its own steps only, and what the feeds
\* have recorded only grows.
LEMMA OwnJob ==
    ASSUME TypeOK, ServerTypeOK, [ServerNext]_allvars, NEW p \in Publishers
    PROVE  PublisherStep(p) \/ (job'[p] = job[p] /\ call'[p] = call[p])
<1>1. ASSUME NEW c \in Conns,
             \/ Accept(c) \/ Advance(c) \/ GiveUp(c) \/ Control(c) \/ Written(c)
             \/ HeartbeatTimeout(c) \/ OnRequest(c) \/ Handled(c) \/ Check(c) \/ Release(c)
      PROVE  UNCHANGED <<job, call>>
  BY <1>1 DEF Accept, Advance, GiveUp, Control, Written, HeartbeatTimeout, OnRequest,
              Handled, Check, Release, vars
<1>2. ASSUME NEW c \in Conns, Join(c) \/ Outbound(c) \/ EndSession(c) \/ Cleanup(c)
      PROVE  UNCHANGED <<job, call>>
  BY <1>2 DEF Join, Add, CountAdded, Outbound, Recv, EndSession, Leave, CloseQueue, Cleanup,
              Remove
<1>3. ASSUME NEW c \in Conns, NEW x, OnSubscribe(c, x) \/ OnUnsubscribe(c, x) \/ OnOther(c, x)
                                     \/ TakeSnapshot(c, x)
      PROVE  UNCHANGED <<job, call>>
  BY <1>3 DEF OnSubscribe, Subscribe, OnUnsubscribe, Unsubscribe, OnOther, TakeSnapshot, vars
<1>4. ASSUME NEW t \in Threads, t # p, CallStep(t) \/ \E c \in Conns : Deliver(t, c)
      PROVE  job'[p] = job[p] /\ call'[p] = call[p]
  <2>1. UNCHANGED job
    BY <1>4 DEF CallStep, Deliver, svars
  <2>2. QED
    BY <1>4, <2>1, CallShrinks DEF Threads
<1>5. ASSUME NEW t \in Threads, t # p, NEW op, NEW on, NEW f, Start(t, op, on, f)
      PROVE  call'[p] = call[p]
  BY <1>5 DEF Start, TypeOK, Threads
<1>6. ASSUME NEW c \in Conns, Reply(c) PROVE job'[p] = job[p] /\ call'[p] = call[p]
  <2>1. c # p /\ c \in Threads
    BY RegistryAssumption DEF Threads
  <2>2. QED
    BY <1>5, <1>6, <2>1 DEF Reply, Send
<1>7. ASSUME NEW c \in Conns, TaskStep(c) \/ ClientStep(c)
      PROVE  job'[p] = job[p] /\ call'[p] = call[p]
  <2>1. c # p /\ c \in Threads
    BY RegistryAssumption DEF Threads
  <2>2. CASE TaskStep(c)
    BY <2>1, <2>2, <1>1, <1>2, <1>3, <1>4, <1>6 DEF TaskStep
  <2>3. CASE ClientStep(c)
    BY <2>3, <1>1, <1>2, <1>3 DEF ClientStep
  <2>4. QED
    BY <1>7, <2>2, <2>3
<1>8. ASSUME NEW q \in Publishers, q # p, PublisherStep(q)
      PROVE  job'[p] = job[p] /\ call'[p] = call[p]
  <2>1. q \in Threads
    BY DEF Threads
  <2>2. ASSUME NEW x, Record(q, x) \/ ResyncSome(q, x) \/ Published(q)
        PROVE  job'[p] = job[p] /\ call'[p] = call[p]
    BY <1>8, <2>2 DEF Record, ResyncSome, Published, vars, ServerTypeOK
  <2>3. ASSUME NEW x, PublishNext(q, x) \/ ResyncAll(q)
        PROVE  job'[p] = job[p] /\ call'[p] = call[p]
    <3>1. call'[p] = call[p]
      BY <1>5, <1>8, <2>1, <2>3 DEF PublishNext, Publish, ResyncAll, Broadcast
    <3>2. job'[p] = job[p]
      BY <1>8, <2>3 DEF PublishNext, ResyncAll, svars, ServerTypeOK
    <3>3. QED
      BY <3>1, <3>2
  <2>4. QED
    BY <1>4, <1>8, <2>1, <2>2, <2>3 DEF PublisherStep
<1>9. CASE (\E c \in Conns : Park(c)) \/ StopAccepting \/ UNCHANGED allvars
  BY <1>9 DEF Park, StopAccepting, allvars, vars, svars
<1>10. QED
  BY <1>7, <1>8, <1>9 DEF ServerNext

\* LastValue::record is the only writer of what is recorded, Published of what
\* counts as published.
LEMMA RecordsGrow ==
    ASSUME ServerTypeOK, [ServerNext]_allvars
    PROVE  /\ \A ch \in Channels : latest'[ch] >= latest[ch]
           /\ (\E p \in Publishers : Published(p)) \/ UNCHANGED published
<1>l. \A ch \in Channels : latest[ch] \in Nat
  BY ServerAssumption DEF ServerTypeOK
<1>1. ASSUME NEW c \in Conns, TaskStep(c) PROVE UNCHANGED <<latest, published>>
  BY <1>1 DEF TaskStep, Join, OnSubscribe, OnUnsubscribe, Reply, Handled, Check, Cleanup,
              Release, TakeSnapshot, Deliver, CallStep
<1>2. ASSUME NEW c \in Conns, ClientStep(c) PROVE UNCHANGED <<latest, published>>
  BY <1>2 DEF ClientStep, Accept, Advance, GiveUp, Outbound, Control, Written,
              HeartbeatTimeout, EndSession, OnRequest, OnOther
<1>3. ASSUME NEW p \in Publishers, NEW x \in Channels, Record(p, x)
      PROVE  (\A ch \in Channels : latest'[ch] >= latest[ch]) /\ UNCHANGED published
  BY <1>3, <1>l DEF Record, ServerTypeOK
<1>4. ASSUME NEW p \in Publishers, NEW x,
             PublishNext(p, x) \/ ResyncSome(p, x) \/ ResyncAll(p) \/ CallStep(p)
                \/ \E c \in Conns : Deliver(p, c)
      PROVE  UNCHANGED <<latest, published>>
  BY <1>4 DEF PublishNext, ResyncSome, ResyncAll, CallStep, Deliver, svars
<1>5. ASSUME NEW p \in Publishers, Published(p) PROVE UNCHANGED latest
  BY <1>5 DEF Published
<1>6. ASSUME NEW p \in Publishers, PublisherStep(p)
      PROVE  /\ \A ch \in Channels : latest'[ch] >= latest[ch]
             /\ Published(p) \/ UNCHANGED published
  BY <1>6, <1>l, <1>3, <1>4, <1>5 DEF PublisherStep
<1>7. CASE (\E c \in Conns : Park(c)) \/ StopAccepting \/ UNCHANGED allvars
  BY <1>7, <1>l DEF Park, StopAccepting, allvars, svars
<1>8. QED
  BY <1>l, <1>1, <1>2, <1>6, <1>7 DEF ServerNext

\* A feed publishing v on ch goes on having reached whomever it has visited.
LEMMA FeedStep ==
    ASSUME ServerInv, HonestInv, GapInv, [ServerNext]_allvars,
           NEW p \in Publishers, NEW ch \in Channels, NEW v \in 1..MaxVersion,
           job'[p].frame = Data(ch, v)
    PROVE  FeedOK(p, ch, v)'
<1>t. TypeOK /\ RegistryInv /\ ServerTypeOK /\ FramesInv
  BY DEF ServerInv
<1>d. Data(ch, v) # NoFrame
  BY MessagesAreFrames
<1>v. v \in Nat /\ latest[ch] \in Nat /\ latest'[ch] \in Nat /\ latest'[ch] >= latest[ch]
  <2>1. ServerTypeOK'
    BY <1>t, ServerTypeStep DEF ServerInv
  <2>2. QED
    BY <1>t, <2>1, RecordsGrow, ServerAssumption DEF ServerTypeOK
<1>f. job[p].frame = Data(ch, v) => FeedOK(p, ch, v)
  BY DEF GapInv, FeedsOK
<1>c. ASSUME v <= latest[ch], NEW c \in Conns, Reached(c, ch, v) PROVE Reached(c, ch, v)'
  BY <1>c, <1>v, CoverStep DEF GapInv
<1>1. CASE job'[p] = job[p] /\ call'[p] = call[p]
  <2>1. FeedOK(p, ch, v)
    BY <1>1, <1>f
  <2>2. v <= latest[ch] /\ v <= latest'[ch]
    BY <1>v, <2>1 DEF FeedOK
  <2>3. job'[p].chs = {} => \A c \in Conns :
            (call'[p] = Idle \/ c \notin call'[p].todo) => Reached(c, ch, v)'
    BY <1>1, <1>c, <2>1, <2>2 DEF FeedOK
  <2>4. QED
    BY <1>1, <2>1, <2>2, <2>3 DEF FeedOK
<1>2. ASSUME NEW x \in Channels, Record(p, x) PROVE FeedOK(p, ch, v)'
  <2>1. /\ job'[p] = [frame |-> Data(x, latest[x] + 1), chs |-> {x}]
        /\ latest'[x] = latest[x] + 1
        /\ UNCHANGED call /\ call[p] = Idle
    BY <1>2, <1>t DEF Record, Free, vars, ServerTypeOK
  <2>2. Data(x, latest[x] + 1) = Data(ch, v)
    BY <2>1
  <2>3. x = ch /\ latest[x] + 1 = v
    BY <2>2 DEF Data
  <2>4. job'[p].chs # {} /\ call'[p] = Idle /\ v <= latest'[ch]
    BY <1>v, <2>1, <2>3
  <2>5. QED
    BY <2>4 DEF FeedOK
<1>3. ASSUME NEW x \in SUBSET Channels, ResyncSome(p, x) PROVE FALSE
  <2>1. job'[p].frame = Resync(x)
    BY <1>3, <1>t DEF ResyncSome, ServerTypeOK
  <2>2. QED
    BY <2>1 DEF Resync, Data
<1>4. ASSUME NEW x \in Channels, PublishNext(p, x) PROVE FeedOK(p, ch, v)'
  <2>1. /\ x \in job[p].chs /\ job'[p].frame = job[p].frame
        /\ job'[p].chs = job[p].chs \ {x}
        /\ call'[p] = Begin("publish", x, job[p].frame, Recipients("publish", x))
        /\ UNCHANGED <<subscriptions, latest>>
    BY <1>4, <1>t DEF PublishNext, Publish, Start, TypeOK, ServerTypeOK, Threads
  <2>2. JobOK(job[p])
    BY <1>t DEF FramesInv
  <2>3. job[p].frame # NoFrame /\ \A S : job[p].frame # Resync(S)
    BY <1>d, <2>1 DEF Data, Resync
  <2>4. PICK y \in Channels, w \in 1..MaxVersion :
            job[p].frame = Data(y, w) /\ job[p].chs \subseteq {y}
    BY <2>2, <2>3 DEF JobOK
  <2>5. y = ch
    BY <2>1, <2>4 DEF Data
  <2>6. x = ch /\ job'[p].chs = {}
    BY <2>1, <2>4, <2>5
  <2>7. call'[p].frame = Data(ch, v) /\ call'[p].todo = Recipients("publish", ch)
    BY <2>1, <2>6 DEF Begin
  <2>8. ASSUME NEW c \in Conns, c \notin Recipients("publish", ch) PROVE ch \notin subscriptions[c]
    BY <1>t, <2>8 DEF Recipients, RegistryInv, IndexInStep, OutsidersHoldNothing
  <2>9. call'[p] # Idle
    BY <2>1 DEF Begin, Idle
  <2>10. v <= latest'[ch]
    BY <1>f, <2>1 DEF FeedOK
  <2>11. \A c \in Conns : c \notin call'[p].todo => Reached(c, ch, v)'
    BY <2>1, <2>7, <2>8 DEF Reached
  <2>12. QED
    BY <2>6, <2>7, <2>9, <2>10, <2>11 DEF FeedOK
<1>5. CASE Published(p)
  <2>1. job'[p].frame = NoFrame
    BY <1>5, <1>t DEF Published, ServerTypeOK
  <2>2. QED
    BY <1>d, <2>1
<1>6. CASE ResyncAll(p)
  <2>1. job'[p].frame = NoFrame
    BY <1>6 DEF ResyncAll, Free, svars
  <2>2. QED
    BY <1>d, <2>1
<1>7. CASE CallStep(p) \/ \E c \in Conns : Deliver(p, c)
  <2>1. UNCHANGED <<job, latest, phase>>
    BY <1>7 DEF CallStep, Tally, Return, Deliver, TrySend, svars
  <2>2. p \in Threads
    BY DEF Threads
  <2>3. FeedOK(p, ch, v)
    BY <1>f, <2>1
  <2>4. /\ call[p] # Idle
        /\ \/ call'[p] = Idle /\ call[p].todo = {}
           \/ /\ call'[p] # Idle /\ call'[p].frame = call[p].frame
              /\ call'[p].todo \subseteq call[p].todo
              /\ \A d \in call[p].todo \ call'[p].todo : Deliver(p, d)
    BY <1>t, <1>7, <2>2, CallShrinks
  <2>5. call[p].frame = Data(ch, v) /\ job[p].chs = {} /\ v <= latest[ch]
    BY <2>3, <2>4 DEF FeedOK
  <2>6. ASSUME NEW c \in Conns, call'[p] = Idle \/ c \notin call'[p].todo
        PROVE  Reached(c, ch, v)'
    <3>1. CASE c \notin call[p].todo
      BY <1>c, <2>3, <2>5, <3>1 DEF FeedOK
    <3>2. CASE c \in call[p].todo
      <4>1. Deliver(p, c)
        BY <2>4, <2>6, <3>2
      <4>2. CASE phase[c] = "closed"
        BY <2>1, <4>2 DEF Reached
      <4>3. CASE phase[c] # "closed"
        <5>1. /\ call[p].frame.type = "data" /\ call[p].frame.channel = ch
              /\ call[p].frame.payload = v
          BY <2>5 DEF Data
        <5>2. view'[c][ch].lost \/ view'[c][ch].best >= v
          BY <1>t, <2>2, <4>1, <4>3, <5>1, DeliverCovers
        <5>3. QED
          BY <5>2 DEF Reached, Covered
      <4>4. QED
        BY <4>2, <4>3
    <3>3. QED
      BY <3>1, <3>2
  <2>7. QED
    BY <2>1, <2>4, <2>5, <2>6 DEF FeedOK
<1>8. QED
  BY <1>t, <1>1, <1>2, <1>3, <1>4, <1>5, <1>6, <1>7, OwnJob DEF PublisherStep

\* Only a task calls send, for itself.
LEMMA OwnSendsStep ==
    ASSUME ServerInv, OwnSends, [ServerNext]_allvars PROVE OwnSends'
<1>1. TypeOK /\ [Next]_vars
  BY ServerRefinementStep DEF ServerInv
<1> USE DEF OwnSends
<1>2. ASSUME UNCHANGED call PROVE OwnSends'
  BY <1>2
<1>3. ASSUME NEW c \in Conns, NEW f, Send(c, f) PROVE OwnSends'
  <2>1. call' = [call EXCEPT ![c] = Begin("send", c, f, Recipients("send", c))]
    BY <1>3 DEF Send, Start
  <2>2. Recipients("send", c) \subseteq {c}
    BY DEF Recipients
  <2>3. call'[c].todo \subseteq {c} /\ \A d \in Conns \ {c} : call'[d] = call[d]
    BY <1>1, <2>1, <2>2 DEF TypeOK, Threads, Begin
  <2>4. QED
    BY <2>3
<1>4. ASSUME NEW p \in Publishers, NEW op, NEW on, NEW f, Start(p, op, on, f) PROVE OwnSends'
  <2>1. \A c \in Conns : call'[c] = call[c]
    BY <1>1, <1>4, RegistryAssumption DEF Start, TypeOK, Threads
  <2>2. QED
    BY <2>1
<1>5. ASSUME NEW t \in Threads, Step(t) PROVE OwnSends'
  <2>1. /\ call[t] # Idle
        /\ \A u \in Threads \ {t} : call'[u] = call[u]
        /\ call'[t] = Idle \/ call'[t].todo \subseteq call[t].todo
    <3>1. call[t] # Idle /\ call[t] \in Calls
      BY <1>1, <1>5, InCall DEF Step, TrySend, Tally, Return
    <3>2. CASE Return(t)
      BY <1>1, <3>1, <3>2 DEF Return, TypeOK
    <3>3. CASE Tally(t)
      BY <1>1, <3>1, <3>3 DEF Tally, TypeOK, Calls
    <3>4. CASE \E c \in Conns : TrySend(t, c)
      BY <1>1, <3>1, <3>4 DEF TrySend, TypeOK, Calls
    <3>5. QED
      BY <1>5, <3>2, <3>3, <3>4 DEF Step
  <2>2. QED
    BY <2>1 DEF Threads
<1>6. ASSUME NEW c \in Conns,
             Add(c) \/ CountAdded(c) \/ CloseQueue(c) \/ Remove(c) \/ Recv(c)
      PROVE  UNCHANGED call
  BY <1>6 DEF Add, CountAdded, CloseQueue, Remove, Recv
<1>7. ASSUME NEW c \in Conns, NEW chs, Subscribe(c, chs) \/ Unsubscribe(c, chs)
      PROVE  UNCHANGED call
  BY <1>7 DEF Subscribe, Unsubscribe
<1>8. CASE UNCHANGED vars
  BY <1>2, <1>8 DEF vars
<1> HIDE DEF OwnSends
<1>9. CASE Next
  BY <1>9, <1>2, <1>3, <1>4, <1>5, <1>6, <1>7 DEF Next, Publish, Broadcast
<1>10. QED
  BY <1>1, <1>8, <1>9

\* Every step of the server keeps what was published accounted for.
LEMMA GapStep == ServerInv /\ HonestInv /\ GapInv /\ [ServerNext]_allvars => GapInv'
<1> SUFFICES ASSUME ServerInv, HonestInv, GapInv, [ServerNext]_allvars PROVE GapInv'
  OBVIOUS
<1>t. TypeOK /\ ServerTypeOK /\ FramesInv /\ ServerTypeOK'
  BY ServerTypeStep DEF ServerInv
<1>n. \A ch \in Channels : /\ latest[ch] \in Nat /\ latest'[ch] \in Nat
                           /\ published[ch] \in Nat /\ latest'[ch] >= latest[ch]
  BY <1>t, RecordsGrow, ServerAssumption DEF ServerTypeOK
<1>g. /\ \A ch \in Channels : published[ch] <= latest[ch]
      /\ OwnSends
      /\ \A c \in Conns, ch \in Channels : Reached(c, ch, published[ch])
  BY DEF GapInv
<1>1. OwnSends'
  BY <1>g, OwnSendsStep
<1>2. FeedsOK'
  BY FeedStep DEF FeedsOK
<1>3. ASSUME NEW ch \in Channels
      PROVE  /\ published'[ch] \in Nat /\ published'[ch] <= latest[ch]
             /\ \A c \in Conns : Reached(c, ch, published'[ch])
  <2>1. CASE published'[ch] = published[ch]
    BY <1>g, <1>n, <2>1
  <2>2. ASSUME NEW p \in Publishers, Published(p), published'[ch] # published[ch]
        PROVE  /\ published'[ch] \in Nat /\ published'[ch] <= latest[ch]
               /\ \A c \in Conns : Reached(c, ch, published'[ch])
    <3>1. /\ job[p].frame # NoFrame /\ job[p].chs = {} /\ call[p] = Idle
          /\ job[p].frame.type # "resync"
          /\ published' = [published EXCEPT ![job[p].frame.channel] = job[p].frame.payload]
      BY <2>2 DEF Published
    <3>2. JobOK(job[p])
      BY <1>t DEF FramesInv
    <3>r. \A S : job[p].frame # Resync(S)
      BY <3>1 DEF Resync
    <3>3. PICK x \in Channels, v \in 1..MaxVersion : job[p].frame = Data(x, v)
      BY <3>1, <3>2, <3>r DEF JobOK
    <3>4. job[p].frame.channel = x /\ job[p].frame.payload = v
      BY <3>3 DEF Data
    <3>5. x = ch /\ published'[ch] = v
      BY <1>t, <2>2, <3>1, <3>4 DEF ServerTypeOK
    <3>6. FeedOK(p, ch, v)
      BY <3>3, <3>5 DEF GapInv, FeedsOK
    <3>7. v <= latest[ch] /\ \A c \in Conns : Reached(c, ch, v)
      BY <3>1, <3>6 DEF FeedOK
    <3>8. QED
      BY <3>5, <3>7
  <2>3. QED
    BY <1>t, <2>1, <2>2, RecordsGrow
<1>4. \A ch \in Channels : published'[ch] <= latest'[ch]
  BY <1>3, <1>n
<1>5. ASSUME NEW c \in Conns, NEW ch \in Channels PROVE Reached(c, ch, published[ch])'
  <2>1. PICK v \in Nat : v = published'[ch]
    BY <1>3
  <2>2. v <= latest[ch] /\ Reached(c, ch, v)
    BY <1>3, <2>1
  <2>3. Reached(c, ch, v)'
    BY <1>g, <2>2, CoverStep
  <2>4. QED
    BY <2>1, <2>3 DEF Reached, Covered
<1>6. QED
  BY <1>1, <1>2, <1>4, <1>5 DEF GapInv

\* Once a subscribe has been handled, every payload whose publish has returned
\* is covered by what was queued for the subscriber, by the payload itself or by
\* the snapshot, unless a full queue lost a frame: the read of the snapshot
\* source, which is under no lock, leaves no gap.
THEOREM NeverAGap == ServerSpec => []NoGap
<1>1. ServerInit => GapInv
  <2> SUFFICES ASSUME ServerInit PROVE GapInv
    OBVIOUS
  <2>1. \A ch \in Channels : published[ch] <= latest[ch]
    BY DEF ServerInit
  <2>2. OwnSends
    BY DEF ServerInit, Init, OwnSends, Threads
  <2>3. FeedsOK
    BY MessagesAreFrames DEF ServerInit, FeedsOK
  <2>4. \A c \in Conns, ch \in Channels : Reached(c, ch, published[ch])
    BY DEF ServerInit, Init, Reached
  <2>5. QED
    BY <2>1, <2>2, <2>3, <2>4 DEF GapInv
<1>2. ServerInv /\ GapInv => NoGap
  <2> SUFFICES ASSUME ServerInv, GapInv, NEW c \in Conns, NEW ch \in Channels,
                      phase[c] = "open", ch \in subscriptions[c], ~Awaits(c, ch),
                      ~view[c][ch].lost
               PROVE  view[c][ch].best >= published[ch]
    BY DEF NoGap
  <2>1. Covered(c, ch, published[ch])
    BY DEF GapInv, Reached
  <2>2. QED
    BY <2>1 DEF Covered, Awaits
<1>3. QED
  BY <1>1, <1>2, GapStep, ServerInvHolds, HonestHolds, PTL DEF ServerSpec

=============================================================================
