---------------------------- MODULE ServerProofs ----------------------------
(***************************************************************************)
(* Proofs about Server: it is a registry, it is well typed, its permits    *)
(* are conserved and its sessions are registered exactly while they run.   *)
(***************************************************************************)
EXTENDS Server, FanoutProofs, SequenceTheorems

-----------------------------------------------------------------------------
(* What the handler of a subscribe computes.                               *)

\* A request is a list of channels.
LEMMA RequestChannels ==
    ASSUME NEW chs \in Requests
    PROVE  /\ Len(chs) \in Nat /\ DOMAIN chs = 1..Len(chs)
           /\ \A i \in 1..Len(chs) : chs[i] \in Channels
           /\ Listed(chs) \subseteq Channels
<1>1. chs \in Seq(Channels)
  BY RegistryAssumption
<1>2. /\ Len(chs) \in Nat /\ DOMAIN chs = 1..Len(chs)
      /\ \A i \in 1..Len(chs) : chs[i] \in Channels
  BY <1>1, LenProperties, ElementOfSeq
<1>3. QED
  BY <1>2 DEF Listed, Prefix

\* partition keeps channels of the set it is asked for and no others: counting
\* the kept entries up to each of them numbers them without a gap.
LEMMA KeptIn ==
    ASSUME NEW chs \in Requests, NEW S \in SUBSET Channels
    PROVE  Listed(Kept(chs, S)) \subseteq S
<1> DEFINE keep == {i \in 1..Len(chs) : chs[i] \in S}
           upto(i) == {j \in keep : j <= i}
           N == Cardinality(keep)
           rank == [i \in keep |-> Cardinality(upto(i))]
<1>1. IsFiniteSet(keep) /\ N \in Nat
  <2>1. Len(chs) \in Nat
    BY RequestChannels
  <2>2. IsFiniteSet(1..Len(chs))
    BY <2>1, FS_Interval
  <2>3. keep \in SUBSET (1..Len(chs))
    OBVIOUS
  <2> HIDE DEF keep
  <2>4. QED
    BY <2>2, <2>3, FS_Subset, FS_CardinalityType
<1>2. keep \subseteq Int
  BY RequestChannels
<1>3. \A i \in keep : upto(i) \in SUBSET keep /\ i \in upto(i)
  BY <1>2
<1>4. ASSUME NEW i \in keep
      PROVE  IsFiniteSet(upto(i)) /\ Cardinality(upto(i)) \in 1..N
  <2>1. upto(i) \in SUBSET keep /\ upto(i) # {}
    BY <1>3
  <2> HIDE DEF keep, upto
  <2>2. /\ IsFiniteSet(upto(i)) /\ Cardinality(upto(i)) <= N
        /\ Cardinality(upto(i)) \in Nat /\ Cardinality(upto(i)) # 0
    BY <1>1, <2>1, FS_Subset, FS_CardinalityType, FS_EmptySet
  <2>3. QED
    BY <1>1, <2>2
<1>5. ASSUME NEW a \in keep, NEW b \in keep, a < b
      PROVE  Cardinality(upto(a)) # Cardinality(upto(b))
  <2>1. upto(a) \in SUBSET upto(b) /\ b \in upto(b) /\ b \notin upto(a)
    BY <1>2, <1>5
  <2>2. IsFiniteSet(upto(b))
    BY <1>4
  <2> HIDE DEF upto
  <2>3. QED
    BY <2>1, <2>2, FS_Subset
<1>6. rank \in Injection(keep, 1..N)
  <2>1. rank \in [keep -> 1..N]
    BY <1>4
  <2>2. \A a, b \in keep : rank[a] = rank[b] => a = b
    BY <1>2, <1>5
  <2>3. QED
    BY <2>1, <2>2 DEF Injection, IsInjective
<1>7. rank \in Surjection(keep, 1..N)
  <2>1. IsFiniteSet(1..N) /\ Cardinality(1..N) = N
    BY <1>1, FS_Interval
  <2> HIDE DEF keep, rank
  <2>2. QED
    BY <1>6, <2>1, FS_Injection
<1>8. \A n \in 1..N : \E i \in keep : Cardinality(upto(i)) = n
  BY <1>7 DEF Surjection
<1>9. Kept(chs, S) = [n \in 1..N |-> chs[CHOOSE i \in keep : Cardinality(upto(i)) = n]]
  BY DEF Kept
<1>10. 1..Len(Kept(chs, S)) = 1..N
  <2>1. DOMAIN Kept(chs, S) = 1..Len(Kept(chs, S))
    BY KeptAssumption, RequestChannels
  <2>2. QED
    BY <1>9, <2>1
<1>11. \A n \in 1..N : Kept(chs, S)[n] \in S
  BY <1>8, <1>9
<1>12. QED
  BY <1>10, <1>11 DEF Listed, Prefix

\* What goes on to the registry is a request for channels the client may have.
LEMMA AllowedIsAllowed ==
    ASSUME NEW c \in Conns, NEW chs \in Requests
    PROVE  /\ Allowed(c, chs) \in Requests
           /\ Listed(Allowed(c, chs)) \subseteq MayRead[c] \ Oversized
<1>1. MayRead[c] \ Oversized \in SUBSET Channels
  BY ServerAssumption
<1>2. QED
  BY <1>1, KeptAssumption, KeptIn DEF Allowed

\* The acknowledgement of a subscribe is a message of the protocol.
LEMMA AckType ==
    ASSUME NEW c \in Conns, NEW chs \in Requests, subscriptions[c] \subseteq Channels
    PROVE  Ack(c, chs) \in ServerFrames
<1> DEFINE added == Added(subscriptions[c], Allowed(c, chs))
           over == OverLimit(subscriptions[c], Allowed(c, chs))
<1>1. /\ Allowed(c, chs) \in Requests
      /\ Listed(Allowed(c, chs)) \subseteq MayRead[c] \ Oversized
  BY AllowedIsAllowed
<1>2. added \in SUBSET Channels
  BY <1>1, ResultsAreChannels
<1>3. over \subseteq MayRead[c] \ Oversized
  BY <1>1 DEF OverLimit
<1>4. Listed(chs) \subseteq Channels
  BY RequestChannels
<1> HIDE DEF added, over
<1>5. Rejected(Listed(chs) \cap Oversized, "invalid") \subseteq Refusals
  BY DEF Rejected, Refusals
<1>6. Rejected(Listed(chs) \ (Oversized \cup MayRead[c]), "unauthorized") \subseteq Refusals
  <2>1. \A ch \in Listed(chs) \ (Oversized \cup MayRead[c]) :
            ch \in (UNION {Channels \ MayRead[d] : d \in Conns}) \ Oversized
    BY <1>4
  <2>2. QED
    BY <2>1 DEF Rejected, Refusals
<1>7. Rejected(over, "limit") \subseteq Refusals
  <2>1. \A ch \in over : ch \in (UNION {MayRead[d] : d \in Conns}) \ Oversized
    BY <1>3
  <2>2. QED
    BY <2>1 DEF Rejected, Refusals
<1>8. QED
  BY <1>2, <1>5, <1>6, <1>7 DEF Ack, Subscribed, ServerFrames, added, over

-----------------------------------------------------------------------------
(* The messages, and who is about to send which.                           *)

\* The messages the code builds are messages of the protocol.
LEMMA MessagesAreFrames ==
    /\ \A ch \in Channels, v \in 1..MaxVersion :
            Data(ch, v) \in ServerFrames /\ Snapshot(ch, v) \in ServerFrames
    /\ \A S \in SUBSET Channels :
            Unsubscribed(S) \in ServerFrames /\ Resync(S) \in ServerFrames
    /\ Answers \subseteq ServerFrames
    /\ ServerFrames \subseteq Frames /\ NoFrame \notin ServerFrames
BY FramesAssumption DEF Data, Snapshot, Unsubscribed, Resync, ServerFrames

\* Data and snapshots name a channel and a payload.
LEMMA PayloadFrames ==
    ASSUME NEW f \in ServerFrames, f.type \in {"data", "snapshot"}
    PROVE  f.channel \in Channels /\ f.payload \in 1..MaxVersion
BY DEF ServerFrames, Answers

\* A publisher is idle, publishes one payload on its channel, or a resync on
\* the channels it names.
JobOK(j) ==
    \/ j.frame = NoFrame /\ j.chs = {}
    \/ \E ch \in Channels, v \in 1..MaxVersion : j.frame = Data(ch, v) /\ j.chs \subseteq {ch}
    \/ \E S \in SUBSET Channels : j.frame = Resync(S) /\ j.chs \subseteq S

\* Whatever is being published or sent is a message of the protocol.
FramesInv ==
    /\ \A p \in Publishers : JobOK(job[p])
    /\ \A t \in Threads : call[t] # Idle => call[t].frame \in ServerFrames

\* A publisher with channels left has a message for them.
LEMMA JobFrame ==
    ASSUME FramesInv, NEW p \in Publishers, job[p].chs # {} \/ job[p].frame # NoFrame
    PROVE  job[p].frame \in ServerFrames
<1>1. JobOK(job[p])
  BY DEF FramesInv
<1>2. QED
  BY <1>1, MessagesAreFrames DEF JobOK

-----------------------------------------------------------------------------
(* The server is a registry.                                               *)

\* A step of the server is a step of the registry or leaves it alone.
LEMMA ServerRefinementStep ==
    ServerTypeOK /\ FramesInv /\ [ServerNext]_allvars => [Next]_vars
<1> SUFFICES ASSUME ServerTypeOK, FramesInv, [ServerNext]_allvars
             PROVE  Next \/ UNCHANGED vars
  OBVIOUS
<1>1. ASSUME NEW c \in Conns, Accept(c) \/ Advance(c) \/ GiveUp(c) \/ Control(c) \/ Written(c)
                              \/ HeartbeatTimeout(c) \/ OnRequest(c) \/ Handled(c) \/ Check(c)
                              \/ Release(c)
      PROVE  UNCHANGED vars
  BY <1>1 DEF Accept, Advance, GiveUp, Control, Written, HeartbeatTimeout, OnRequest,
              Handled, Check, Release
<1>2. ASSUME NEW c \in Conns, NEW x, TakeSnapshot(c, x) \/ OnOther(c, x) PROVE UNCHANGED vars
  BY <1>2 DEF TakeSnapshot, OnOther
<1>3. ASSUME NEW c \in Conns,
             Join(c) \/ Outbound(c) \/ EndSession(c) \/ Cleanup(c)
      PROVE  Next
  <2>1. Add(c) \/ CountAdded(c) \/ CloseQueue(c) \/ Remove(c) \/ Recv(c)
    BY <1>3 DEF Join, Outbound, EndSession, Leave, Cleanup
  <2>2. QED
    BY <2>1 DEF Next
<1>4. ASSUME NEW c \in Conns, NEW chs \in Requests, OnSubscribe(c, chs) \/ OnUnsubscribe(c, chs)
      PROVE  Next
  <2>1. Allowed(c, chs) \in Requests
    BY AllowedIsAllowed
  <2>2. Subscribe(c, Allowed(c, chs)) \/ Unsubscribe(c, chs)
    BY <1>4 DEF OnSubscribe, OnUnsubscribe
  <2>3. QED
    BY <2>1, <2>2 DEF Next
<1>5. ASSUME NEW c \in Conns, Reply(c) PROVE Next
  <2>1. out[c] \in Frames
    BY <1>5, MessagesAreFrames DEF Reply, ServerTypeOK
  <2>2. Send(c, out[c])
    BY <1>5 DEF Reply
  <2>3. QED
    BY <2>1, <2>2 DEF Next
<1>6. ASSUME NEW t \in Threads, CallStep(t) \/ \E c \in Conns : Deliver(t, c) PROVE Next
  <2>1. Step(t)
    BY <1>6 DEF CallStep, Deliver, Step
  <2>2. QED
    BY <2>1 DEF Next
<1>7. ASSUME NEW p \in Publishers, NEW ch \in Channels, Record(p, ch) PROVE UNCHANGED vars
  BY <1>7 DEF Record
<1>8. ASSUME NEW p \in Publishers, NEW ch \in Channels, PublishNext(p, ch) PROVE Next
  <2>1. job[p].frame \in Frames
    BY <1>8, JobFrame, MessagesAreFrames DEF PublishNext
  <2>2. Publish(p, ch, job[p].frame)
    BY <1>8 DEF PublishNext
  <2>3. QED
    BY <2>1, <2>2 DEF Next
<1>9. ASSUME NEW p \in Publishers, ResyncAll(p) PROVE Next
  <2>1. Resync({}) \in Frames
    BY MessagesAreFrames
  <2>2. Broadcast(p, Resync({}))
    BY <1>9 DEF ResyncAll
  <2>3. QED
    BY <2>1, <2>2 DEF Next
<1>10. ASSUME NEW p \in Publishers, NEW chs, ResyncSome(p, chs) \/ Published(p)
       PROVE  UNCHANGED vars
  BY <1>10 DEF ResyncSome, Published
<1>11. CASE (\E c \in Conns : Park(c)) \/ StopAccepting \/ UNCHANGED allvars
  BY <1>11 DEF Park, StopAccepting, allvars
<1>12. ASSUME NEW c \in Conns, TaskStep(c) PROVE Next \/ UNCHANGED vars
  BY <1>12, <1>1, <1>2, <1>3, <1>4, <1>5, <1>6 DEF TaskStep, Threads
<1>13. ASSUME NEW c \in Conns, ClientStep(c) PROVE Next \/ UNCHANGED vars
  BY <1>13, <1>1, <1>2, <1>3 DEF ClientStep
<1>14. ASSUME NEW p \in Publishers, PublisherStep(p) PROVE Next \/ UNCHANGED vars
  BY <1>14, <1>6, <1>7, <1>8, <1>9, <1>10 DEF PublisherStep, Threads
<1>15. QED
  BY <1>11, <1>12, <1>13, <1>14 DEF ServerNext

-----------------------------------------------------------------------------
(* Places and permits.                                                     *)

\* The tasks with a permit are finitely many, and with the free permits they
\* make up max_connections.
Holders == {c \in Conns : Holds(c)}

PlacesInv ==
    /\ permits \in Nat /\ IsFiniteSet(Holders)
    /\ permits + Cardinality(Holders) = MaxConnections

\* A task that moves on without ending keeps its permit.
LEMMA HoldersUnchanged ==
    ASSUME ServerTypeOK, NEW c \in Conns, NEW to, Go(c, to),
           Holds(c) <=> to \notin {"idle", "refused", "done"}
    PROVE  Holders' = Holders
BY DEF ServerTypeOK, Go, Holds, Holders

\* The steps of a task inside its session, as far as its place is concerned.
SessionPlaces == {"select", "writing", "locking", "replying", "check", "closing"}

\* Every way a task moves on, as its place and its permit see it.
Moves(c) ==
    \/ /\ pc[c] = "idle" /\ permits > 0 /\ permits' = permits - 1
       /\ Go(c, "handshake") /\ UNCHANGED phase
    \/ pc[c] = "idle" /\ Go(c, "refused") /\ UNCHANGED <<permits, phase>>
    \/ /\ pc[c] \in {"handshake", "auth", "ack"}
       /\ \E to \in {"auth", "ack", "adding", "releasing"} : Go(c, to)
       /\ UNCHANGED <<permits, phase>>
    \/ pc[c] = "adding" /\ Add(c) /\ Go(c, "added") /\ UNCHANGED permits
    \/ pc[c] = "added" /\ CountAdded(c) /\ Go(c, "select") /\ UNCHANGED permits
    \/ /\ pc[c] \in SessionPlaces /\ \E to \in SessionPlaces : Go(c, to)
       /\ UNCHANGED <<permits, phase>>
    \/ pc[c] \in SessionPlaces /\ CloseQueue(c) /\ Go(c, "removing") /\ UNCHANGED permits
    \/ pc[c] = "removing" /\ Remove(c) /\ Go(c, "releasing") /\ UNCHANGED permits
    \/ pc[c] = "releasing" /\ Go(c, "done") /\ permits' = permits + 1 /\ UNCHANGED phase
    \/ UNCHANGED <<pc, permits, phase>>

\* Every step of the server is one of these moves of one task.
LEMMA StepsMove ==
    ASSUME ServerTypeOK, [ServerNext]_allvars
    PROVE  UNCHANGED <<pc, permits, phase>> \/ \E c \in Conns : Moves(c)
<1>1. ASSUME NEW c \in Conns, Accept(c) PROVE Moves(c)
  BY <1>1 DEF Accept, Moves, vars
<1>2. ASSUME NEW c \in Conns, Advance(c) \/ GiveUp(c) PROVE Moves(c)
  BY <1>2 DEF Advance, GiveUp, Moves, vars
<1>3. ASSUME NEW c \in Conns, Join(c) PROVE Moves(c)
  BY <1>3 DEF Join, Moves
<1>4. ASSUME NEW c \in Conns,
             Outbound(c) \/ Control(c) \/ Written(c) \/ HeartbeatTimeout(c) \/ OnRequest(c)
                \/ Handled(c) \/ Check(c)
      PROVE  Moves(c)
  <2>1. /\ pc[c] \in SessionPlaces /\ \E to \in SessionPlaces : Go(c, to)
        /\ UNCHANGED <<permits, phase>>
    BY <1>4 DEF Outbound, Recv, Control, Written, HeartbeatTimeout, OnRequest, Handled,
                Check, SessionPlaces, vars
  <2>2. QED
    BY <2>1 DEF Moves
<1>5. ASSUME NEW c \in Conns, NEW x, OnSubscribe(c, x) \/ OnUnsubscribe(c, x) \/ OnOther(c, x)
      PROVE  Moves(c)
  <2>1. /\ pc[c] \in SessionPlaces /\ \E to \in SessionPlaces : Go(c, to)
        /\ UNCHANGED <<permits, phase>>
    BY <1>5 DEF OnSubscribe, Subscribe, OnUnsubscribe, Unsubscribe, OnOther, SessionPlaces, vars
  <2>2. QED
    BY <2>1 DEF Moves
<1>6. ASSUME NEW c \in Conns, EndSession(c) PROVE Moves(c)
  BY <1>6 DEF EndSession, Leave, SessionPlaces, Moves
<1>7. ASSUME NEW c \in Conns, Cleanup(c) \/ Release(c) PROVE Moves(c)
  BY <1>7 DEF Cleanup, Release, Moves, vars
<1>8. ASSUME NEW c \in Conns, Reply(c) \/ \E ch \in Channels : TakeSnapshot(c, ch)
      PROVE  UNCHANGED <<pc, permits, phase>>
  BY <1>8 DEF Reply, Send, Start, TakeSnapshot, vars
<1>9. ASSUME NEW t \in Threads, CallStep(t) \/ \E c \in Conns : Deliver(t, c)
      PROVE  UNCHANGED <<pc, permits, phase>>
  BY <1>9 DEF CallStep, Tally, Return, svars, Deliver, TrySend
<1>10. ASSUME NEW p \in Publishers, NEW ch \in Channels, Record(p, ch) \/ PublishNext(p, ch)
       PROVE  UNCHANGED <<pc, permits, phase>>
  BY <1>10 DEF Record, PublishNext, Publish, Start, vars
<1>11. ASSUME NEW p \in Publishers, NEW chs, ResyncSome(p, chs) \/ Published(p) \/ ResyncAll(p)
       PROVE  UNCHANGED <<pc, permits, phase>>
  BY <1>11 DEF ResyncSome, Published, ResyncAll, Broadcast, Start, vars, svars
<1>12. CASE (\E c \in Conns : Park(c)) \/ StopAccepting \/ UNCHANGED allvars
  BY <1>12 DEF Park, StopAccepting, allvars, vars, svars
<1>13. ASSUME NEW c \in Conns, TaskStep(c) \/ ClientStep(c)
       PROVE  UNCHANGED <<pc, permits, phase>> \/ Moves(c)
  BY <1>13, <1>1, <1>2, <1>3, <1>4, <1>5, <1>6, <1>7, <1>8, <1>9
     DEF TaskStep, ClientStep, Threads
<1>14. ASSUME NEW p \in Publishers, PublisherStep(p) PROVE UNCHANGED <<pc, permits, phase>>
  BY <1>14, <1>9, <1>10, <1>11 DEF PublisherStep, Threads
<1>15. QED
  BY <1>12, <1>13, <1>14 DEF ServerNext

\* No move of a task makes or loses a permit.
LEMMA PlacesStep == ServerTypeOK /\ PlacesInv /\ [ServerNext]_allvars => PlacesInv'
<1> SUFFICES ASSUME ServerTypeOK, PlacesInv, [ServerNext]_allvars PROVE PlacesInv'
  OBVIOUS
<1>a. /\ permits \in Nat /\ IsFiniteSet(Holders) /\ Cardinality(Holders) \in Nat
      /\ permits + Cardinality(Holders) = MaxConnections
  BY FS_CardinalityType DEF PlacesInv
<1>1. CASE UNCHANGED <<pc, permits, phase>>
  BY <1>a, <1>1 DEF PlacesInv, Holders, Holds
<1>2. ASSUME NEW c \in Conns, Moves(c) PROVE PlacesInv'
  <2>1. CASE /\ pc[c] = "idle" /\ permits > 0 /\ permits' = permits - 1
             /\ Go(c, "handshake")
    <3>1. Holders' = Holders \cup {c} /\ c \notin Holders
      BY <2>1 DEF ServerTypeOK, Go, Holds, Holders
    <3>2. IsFiniteSet(Holders') /\ Cardinality(Holders') = Cardinality(Holders) + 1
      BY <1>a, <3>1, FS_AddElement
    <3>3. QED
      BY <1>a, <2>1, <3>2 DEF PlacesInv
  <2>2. CASE pc[c] = "releasing" /\ Go(c, "done") /\ permits' = permits + 1
    <3>1. Holders' = Holders \ {c} /\ c \in Holders
      BY <2>2 DEF ServerTypeOK, Go, Holds, Holders
    <3>2. IsFiniteSet(Holders') /\ Cardinality(Holders') = Cardinality(Holders) - 1
      BY <1>a, <3>1, FS_RemoveElement
    <3>3. QED
      BY <1>a, <2>2, <3>2 DEF PlacesInv
  <2>3. CASE permits' = permits /\ Holders' = Holders
    BY <1>a, <2>3 DEF PlacesInv
  <2>4. CASE \/ pc[c] = "idle" /\ Go(c, "refused") /\ UNCHANGED permits
             \/ /\ pc[c] \in {"handshake", "auth", "ack"}
                /\ \E to \in {"auth", "ack", "adding", "releasing"} : Go(c, to)
                /\ UNCHANGED permits
             \/ pc[c] = "adding" /\ Go(c, "added") /\ UNCHANGED permits
             \/ pc[c] = "added" /\ Go(c, "select") /\ UNCHANGED permits
             \/ /\ pc[c] \in SessionPlaces
                /\ \E to \in SessionPlaces \cup {"removing"} : Go(c, to)
                /\ UNCHANGED permits
             \/ pc[c] = "removing" /\ Go(c, "releasing") /\ UNCHANGED permits
    <3>1. PICK to : /\ Go(c, to) /\ UNCHANGED permits
                    /\ Holds(c) <=> to \notin {"idle", "refused", "done"}
      BY <2>4 DEF Holds, SessionPlaces
    <3>2. QED
      BY <2>3, <3>1, HoldersUnchanged
  <2>5. QED
    BY <1>1, <1>2, <2>1, <2>2, <2>4 DEF Moves
<1>3. QED
  BY <1>1, <1>2, StepsMove

-----------------------------------------------------------------------------
(* A task and its entry in the registry.                                   *)

\* Every move keeps a task registered exactly while it is in its session or
\* between add and the session's start, or the session's end and remove.
LEMMA RegisteredStep ==
    TypeOK /\ ServerTypeOK /\ SessionRegistered /\ [ServerNext]_allvars => SessionRegistered'
<1> SUFFICES ASSUME TypeOK, ServerTypeOK, SessionRegistered, [ServerNext]_allvars
             PROVE  SessionRegistered'
  OBVIOUS
<1>1. CASE UNCHANGED <<pc, phase>>
  BY <1>1 DEF SessionRegistered, connections
<1>2. ASSUME NEW c \in Conns, NEW to, Go(c, to),
             \A d \in Conns \ {c} : phase'[d] = phase[d],
             phase'[c] \in {"inserted", "open", "closed"} <=> to \in InRegistry,
             phase'[c] = "open" <=> to \in InRegistry \ {"added", "removing"}
      PROVE  SessionRegistered'
  <2>1. pc'[c] = to /\ \A d \in Conns \ {c} : pc'[d] = pc[d]
    BY <1>2 DEF Go, ServerTypeOK
  <2>2. QED
    BY <1>2, <2>1 DEF SessionRegistered, connections
<1>3. ASSUME NEW c \in Conns, Moves(c) PROVE SessionRegistered'
  <2>1. /\ phase[c] \in {"inserted", "open", "closed"} <=> pc[c] \in InRegistry
        /\ phase[c] = "open" <=> pc[c] \in InRegistry \ {"added", "removing"}
    BY DEF SessionRegistered, connections
  <2>2. CASE /\ UNCHANGED phase
             /\ \/ pc[c] = "idle" /\ (Go(c, "handshake") \/ Go(c, "refused"))
                \/ /\ pc[c] \in {"handshake", "auth", "ack"}
                   /\ \E to \in {"auth", "ack", "adding", "releasing"} : Go(c, to)
                \/ pc[c] \in SessionPlaces /\ \E to \in SessionPlaces : Go(c, to)
                \/ pc[c] = "releasing" /\ Go(c, "done")
    <3>1. PICK to : /\ Go(c, to)
                    /\ to \in InRegistry <=> pc[c] \in InRegistry
                    /\ to \in InRegistry \ {"added", "removing"}
                            <=> pc[c] \in InRegistry \ {"added", "removing"}
      BY <2>2 DEF InRegistry, SessionPlaces
    <3>2. QED
      BY <1>2, <2>1, <2>2, <3>1
  <2>3. CASE Add(c) /\ Go(c, "added")
    BY <1>2, <2>3 DEF Add, InRegistry, TypeOK
  <2>4. CASE CountAdded(c) /\ Go(c, "select")
    BY <1>2, <2>4 DEF CountAdded, InRegistry, TypeOK
  <2>5. CASE CloseQueue(c) /\ Go(c, "removing")
    BY <1>2, <2>5 DEF CloseQueue, InRegistry, TypeOK
  <2>6. CASE Remove(c) /\ Go(c, "releasing")
    BY <1>2, <2>6 DEF Remove, InRegistry, TypeOK
  <2>7. QED
    BY <1>1, <1>3, <2>2, <2>3, <2>4, <2>5, <2>6 DEF Moves
<1>4. QED
  BY <1>1, <1>3, StepsMove

-----------------------------------------------------------------------------
(* The types of the server's own state.                                    *)

\* A delivery leaves the history of what was queued a history.
LEMMA DeliverViews ==
    ASSUME TypeOK, ServerTypeOK, FramesInv, NEW t \in Threads, NEW c \in Conns, Deliver(t, c)
    PROVE  view' \in [Conns -> [Channels -> Views]]
<1> DEFINE f == call[t].frame
           v == view[c][f.channel]
<1>1. call[t] # Idle
  BY DEF Deliver, TrySend
<1>2. f \in ServerFrames /\ view \in [Conns -> [Channels -> Views]]
  BY <1>1 DEF FramesInv, ServerTypeOK
<1>3. CASE f.type \notin {"data", "snapshot"} \/ phase[c] = "closed"
  BY <1>2, <1>3 DEF Deliver
<1>4. CASE f.type \in {"data", "snapshot"} /\ phase[c] # "closed"
  <2>1. f.channel \in Channels /\ f.payload \in 1..MaxVersion
    BY <1>2, <1>4, PayloadFrames
  <2> HIDE DEF f
  <2>2. v \in Views
    BY <1>2, <2>1
  <2>3. PICK w : view' = [view EXCEPT ![c][f.channel] = w]
                 /\ \/ w = [v EXCEPT !.lost = TRUE]
                    \/ w = [v EXCEPT !.last = f.payload,
                                     !.best = IF f.payload > @ THEN f.payload ELSE @]
    BY <1>4 DEF Deliver, f
  <2>4. w \in Views
    <3> HIDE DEF v
    <3>1. v.best \in 0..MaxVersion /\ f.payload \in 0..MaxVersion
      BY <2>1, <2>2, ServerAssumption DEF Views
    <3>2. CASE w = [v EXCEPT !.lost = TRUE]
      BY <2>2, <3>2 DEF Views
    <3>3. CASE w = [v EXCEPT !.last = f.payload,
                             !.best = IF f.payload > @ THEN f.payload ELSE @]
      <4>1. (IF f.payload > v.best THEN f.payload ELSE v.best) \in 0..MaxVersion
        BY <3>1
      <4>2. QED
        BY <2>2, <3>1, <3>3, <4>1 DEF Views
    <3>4. QED
      BY <2>3, <3>2, <3>3
  <2> HIDE DEF v
  <2>5. QED
    BY <1>2, <2>1, <2>3, <2>4
<1>5. QED
  BY <1>3, <1>4

\* Every step leaves the server's state well typed; that permits stay within
\* max_connections is PlacesStep.
LEMMA ServerTypeStep ==
    ASSUME TypeOK, ServerTypeOK, FramesInv, PlacesInv, [ServerNext]_allvars
    PROVE  ServerTypeOK'
<1>p. permits' \in 0..MaxConnections
  <2>1. PlacesInv'
    BY PlacesStep
  <2>2. Cardinality(Holders') \in Nat
    BY <2>1, FS_CardinalityType DEF PlacesInv
  <2>3. QED
    BY <2>1, <2>2, ServerAssumption DEF PlacesInv
<1> USE DEF ServerTypeOK
<1>g. ASSUME NEW c \in Conns, NEW to \in Places, Go(c, to) PROVE pc' \in [Conns -> Places]
  BY <1>g DEF Go
<1>o. ASSUME NEW c \in Conns, NEW f \in ServerFrames \cup {NoFrame},
             out' = [out EXCEPT ![c] = f]
      PROVE  out' \in [Conns -> ServerFrames \cup {NoFrame}]
  BY <1>o
<1>1. ASSUME NEW c \in Conns, Accept(c) \/ HeartbeatTimeout(c) PROVE ServerTypeOK'
  <2>1. pc' \in [Conns -> Places]
    BY <1>1, <1>g DEF Accept, HeartbeatTimeout, Places
  <2>2. counts' \in [refused_full : Nat, heartbeat_timeouts : Nat]
    BY <1>1 DEF Accept, HeartbeatTimeout
  <2>3. QED
    BY <1>1, <1>p, <2>1, <2>2 DEF Accept, HeartbeatTimeout
<1>2. ASSUME NEW c \in Conns,
             Advance(c) \/ GiveUp(c) \/ Join(c) \/ Outbound(c) \/ Control(c) \/ Written(c)
                \/ OnRequest(c) \/ Handled(c) \/ Check(c) \/ Cleanup(c) \/ Release(c)
      PROVE  ServerTypeOK'
  <2>1. pc' \in [Conns -> Places]
    <3>1. \E to \in Places : Go(c, to)
      BY <1>2 DEF Advance, GiveUp, Join, Outbound, Control, Written, OnRequest, Handled,
                  Check, Cleanup, Release, Places
    <3>2. QED
      BY <1>g, <3>1
  <2>2. UNCHANGED <<accepting, parked, counts, out, snaps, job, latest, published, view>>
    BY <1>2 DEF Advance, GiveUp, Join, Outbound, Control, Written, OnRequest, Handled,
                Check, Cleanup, Release
  <2>3. QED
    BY <1>p, <2>1, <2>2
<1>3. ASSUME NEW c \in Conns, EndSession(c) PROVE ServerTypeOK'
  BY <1>3, <1>p, <1>g DEF EndSession, Leave, Places
<1>4. ASSUME NEW c \in Conns, NEW chs \in Requests, OnSubscribe(c, chs) PROVE ServerTypeOK'
  <2> DEFINE added == Added(subscriptions[c], Allowed(c, chs))
  <2>1. pc' \in [Conns -> Places]
    BY <1>4, <1>g DEF OnSubscribe, Places
  <2>2. out' \in [Conns -> ServerFrames \cup {NoFrame}]
    BY <1>4, <1>o, AckType DEF OnSubscribe, TypeOK
  <2>3. added \in SUBSET Channels
    BY AllowedIsAllowed, ResultsAreChannels DEF TypeOK
  <2>4. /\ snaps' = [snaps EXCEPT ![c] = added]
        /\ view' = [view EXCEPT ![c] = [ch \in Channels |->
                        IF ch \in added THEN Nothing ELSE view[c][ch]]]
        /\ UNCHANGED <<accepting, parked, counts, job, latest, published>>
    BY <1>4 DEF OnSubscribe
  <2> HIDE DEF added
  <2>5. snaps' \in [Conns -> SUBSET Channels]
    BY <2>3, <2>4
  <2>6. view' \in [Conns -> [Channels -> Views]]
    BY <2>3, <2>4, ServerAssumption DEF Nothing, Views
  <2>7. QED
    BY <1>p, <2>1, <2>2, <2>4, <2>5, <2>6
<1>5. ASSUME NEW c \in Conns, NEW chs \in Requests, OnUnsubscribe(c, chs) PROVE ServerTypeOK'
  <2>1. pc' \in [Conns -> Places]
    BY <1>5, <1>g DEF OnUnsubscribe, Places
  <2>2. Removed(subscriptions[c], chs) \in SUBSET Channels
    BY ResultsAreChannels DEF TypeOK
  <2>3. out' \in [Conns -> ServerFrames \cup {NoFrame}]
    BY <1>5, <1>o, <2>2, MessagesAreFrames DEF OnUnsubscribe
  <2>4. QED
    BY <1>5, <1>p, <2>1, <2>3 DEF OnUnsubscribe
<1>6. ASSUME NEW c \in Conns, NEW answer \in Answers, OnOther(c, answer) PROVE ServerTypeOK'
  <2>1. pc' \in [Conns -> Places]
    BY <1>6, <1>g DEF OnOther, Places
  <2>2. out' \in [Conns -> ServerFrames \cup {NoFrame}]
    BY <1>6, <1>o, MessagesAreFrames DEF OnOther
  <2>3. QED
    BY <1>6, <1>p, <2>1, <2>2 DEF OnOther
<1>7. ASSUME NEW c \in Conns, Reply(c) PROVE ServerTypeOK'
  BY <1>7, <1>p DEF Reply
<1>8. ASSUME NEW c \in Conns, NEW ch \in Channels, TakeSnapshot(c, ch) PROVE ServerTypeOK'
  <2>1. latest[ch] # 0 => Snapshot(ch, latest[ch]) \in ServerFrames
    BY MessagesAreFrames, ServerAssumption
  <2>2. out' \in [Conns -> ServerFrames \cup {NoFrame}]
    BY <1>8, <1>o, <2>1 DEF TakeSnapshot
  <2>3. QED
    BY <1>8, <1>p, <2>2 DEF TakeSnapshot
<1>9. ASSUME NEW p \in Publishers, NEW ch \in Channels, Record(p, ch) PROVE ServerTypeOK'
  <2>1. latest[ch] + 1 \in 1..MaxVersion
    BY <1>9, ServerAssumption DEF Record
  <2>2. Data(ch, latest[ch] + 1) \in ServerFrames
    BY <2>1, MessagesAreFrames
  <2>3. latest' \in [Channels -> 0..MaxVersion]
    BY <1>9, <2>1, ServerAssumption DEF Record
  <2>4. job' \in [Publishers -> [frame : ServerFrames \cup {NoFrame}, chs : SUBSET Channels]]
    BY <1>9, <2>2 DEF Record
  <2>5. QED
    BY <1>9, <1>p, <2>3, <2>4 DEF Record
<1>10. ASSUME NEW p \in Publishers, NEW chs \in SUBSET Channels, ResyncSome(p, chs)
       PROVE  ServerTypeOK'
  <2>1. Resync(chs) \in ServerFrames
    BY MessagesAreFrames
  <2>2. QED
    BY <1>10, <1>p, <2>1 DEF ResyncSome
<1>11. ASSUME NEW p \in Publishers, NEW ch \in Channels, PublishNext(p, ch)
       PROVE  ServerTypeOK'
  BY <1>11, <1>p DEF PublishNext
<1>12. ASSUME NEW p \in Publishers, Published(p) PROVE ServerTypeOK'
  <2>1. JobOK(job[p]) /\ job[p].frame # NoFrame
    BY <1>12 DEF Published, FramesInv
  <2>2. job[p].frame.type # "resync" =>
            job[p].frame.channel \in Channels /\ job[p].frame.payload \in 0..MaxVersion
    <3>1. CASE \E S \in SUBSET Channels : job[p].frame = Resync(S)
      BY <3>1 DEF Resync
    <3>2. CASE \E ch \in Channels, v \in 1..MaxVersion : job[p].frame = Data(ch, v)
      <4>1. PICK ch \in Channels, v \in 1..MaxVersion : job[p].frame = Data(ch, v)
        BY <3>2
      <4>2. job[p].frame.channel = ch /\ job[p].frame.payload = v
        BY <4>1 DEF Data
      <4>3. v \in 0..MaxVersion
        BY ServerAssumption
      <4>4. QED
        BY <4>2, <4>3
    <3>3. QED
      BY <2>1, <3>1, <3>2 DEF JobOK
  <2>3. published' \in [Channels -> 0..MaxVersion]
    BY <1>12, <2>2 DEF Published
  <2>4. job' \in [Publishers -> [frame : ServerFrames \cup {NoFrame}, chs : SUBSET Channels]]
    BY <1>12 DEF Published
  <2>5. UNCHANGED <<pc, accepting, parked, counts, out, snaps, latest, view>>
    BY <1>12 DEF Published
  <2>6. QED
    BY <1>p, <2>3, <2>4, <2>5
<1>13. ASSUME NEW t \in Threads, NEW c \in Conns, Deliver(t, c) PROVE ServerTypeOK'
  BY <1>13, <1>p, DeliverViews DEF Deliver
<1>14. ASSUME NEW t \in Threads, CallStep(t) PROVE ServerTypeOK'
  BY <1>14, <1>p DEF CallStep
<1>15. ASSUME NEW p \in Publishers, ResyncAll(p) PROVE ServerTypeOK'
  BY <1>15 DEF ResyncAll, svars
<1>16. CASE (\E c \in Conns : Park(c)) \/ StopAccepting
  BY <1>16 DEF Park, StopAccepting
<1>17. CASE UNCHANGED allvars
  BY <1>17 DEF allvars, svars
<1> USE DEF Threads
<1>18. ASSUME NEW c \in Conns, TaskStep(c) PROVE ServerTypeOK'
  BY <1>18, <1>2, <1>4, <1>5, <1>7, <1>8, <1>13, <1>14 DEF TaskStep
<1>19. ASSUME NEW c \in Conns, ClientStep(c) PROVE ServerTypeOK'
  BY <1>19, <1>1, <1>2, <1>3, <1>6 DEF ClientStep
<1>20. ASSUME NEW p \in Publishers, PublisherStep(p) PROVE ServerTypeOK'
  BY <1>20, <1>9, <1>10, <1>11, <1>12, <1>13, <1>14, <1>15 DEF PublisherStep
<1>21. QED
  BY <1>16, <1>17, <1>18, <1>19, <1>20 DEF ServerNext

\* A step that starts a call or changes a job is given a message to send.
LEMMA FramesStep ==
    ASSUME TypeOK, ServerTypeOK, FramesInv, [ServerNext]_allvars
    PROVE  FramesInv'
<1>j. \A p \in Publishers : JobOK(job[p])
  BY DEF FramesInv
<1>c. \A t \in Threads : call[t] # Idle => call[t].frame \in ServerFrames
  BY DEF FramesInv
<1>1. ASSUME UNCHANGED <<job, call>> PROVE FramesInv'
  BY <1>1, <1>j, <1>c DEF FramesInv, JobOK
<1>2. ASSUME UNCHANGED job, NEW t \in Threads, NEW op, NEW on, NEW f \in ServerFrames,
             Start(t, op, on, f)
      PROVE  FramesInv'
  <2>1. \A u \in Threads : call'[u] = IF u = t THEN Begin(op, on, f, Recipients(op, on))
                                      ELSE call[u]
    BY <1>2 DEF Start, TypeOK
  <2>2. \A u \in Threads : call'[u] # Idle => call'[u].frame \in ServerFrames
    BY <1>c, <2>1 DEF Begin
  <2>3. QED
    BY <1>2, <1>j, <2>2 DEF FramesInv, JobOK
<1>3. ASSUME NEW t \in Threads, CallStep(t) \/ \E c \in Conns : Deliver(t, c) PROVE FramesInv'
  <2>1. UNCHANGED job
    BY <1>3 DEF CallStep, Deliver, svars
  <2>2. call[t] # Idle /\ call[t] \in Calls
    BY <1>3, InCall DEF CallStep, Tally, Return, Deliver, TrySend
  <2>3. /\ \A u \in Threads \ {t} : call'[u] = call[u]
        /\ call'[t] = Idle \/ call'[t].frame = call[t].frame
    <3>1. CASE Return(t)
      BY <3>1 DEF Return, TypeOK
    <3>2. CASE Tally(t)
      BY <2>2, <3>2 DEF Tally, TypeOK, Calls
    <3>3. CASE \E c \in Conns : TrySend(t, c)
      BY <2>2, <3>3 DEF TrySend, TypeOK, Calls
    <3>4. QED
      BY <1>3, <3>1, <3>2, <3>3 DEF CallStep, Deliver
  <2>4. QED
    BY <1>j, <1>c, <2>1, <2>2, <2>3 DEF FramesInv, JobOK
<1>4. ASSUME UNCHANGED call, NEW p \in Publishers, NEW j, JobOK(j), job' = [job EXCEPT ![p] = j]
      PROVE  FramesInv'
  <2>1. \A q \in Publishers : job'[q] = IF q = p THEN j ELSE job[q]
    BY <1>4 DEF ServerTypeOK
  <2>2. QED
    BY <1>4, <1>j, <1>c, <2>1 DEF FramesInv, JobOK
<1>5. ASSUME NEW c \in Conns,
             \/ Accept(c) \/ Advance(c) \/ GiveUp(c) \/ Control(c) \/ Written(c)
             \/ HeartbeatTimeout(c) \/ OnRequest(c) \/ Handled(c) \/ Check(c) \/ Release(c)
      PROVE  UNCHANGED <<job, call>>
  BY <1>5 DEF Accept, Advance, GiveUp, Control, Written, HeartbeatTimeout, OnRequest,
              Handled, Check, Release, vars
<1>6. ASSUME NEW c \in Conns, Join(c) \/ Outbound(c) \/ EndSession(c) \/ Cleanup(c)
      PROVE  UNCHANGED <<job, call>>
  BY <1>6 DEF Join, Add, CountAdded, Outbound, Recv, EndSession, Leave, CloseQueue, Cleanup,
              Remove
<1>7. ASSUME NEW c \in Conns, NEW x, OnSubscribe(c, x) \/ OnUnsubscribe(c, x) \/ OnOther(c, x)
                                     \/ TakeSnapshot(c, x)
      PROVE  UNCHANGED <<job, call>>
  BY <1>7 DEF OnSubscribe, Subscribe, OnUnsubscribe, Unsubscribe, OnOther, TakeSnapshot, vars
<1>8. ASSUME NEW c \in Conns, Reply(c) PROVE FramesInv'
  <2>1. out[c] \in ServerFrames
    BY <1>8 DEF Reply, ServerTypeOK
  <2>2. Start(c, "send", c, out[c]) /\ UNCHANGED job
    BY <1>8 DEF Reply, Send
  <2>3. QED
    BY <1>2, <2>1, <2>2 DEF Threads
<1>9. ASSUME NEW p \in Publishers, NEW ch \in Channels, Record(p, ch) PROVE FramesInv'
  <2>1. latest[ch] + 1 \in 1..MaxVersion
    BY <1>9, ServerAssumption DEF Record, ServerTypeOK
  <2>2. JobOK([frame |-> Data(ch, latest[ch] + 1), chs |-> {ch}])
    BY <2>1 DEF JobOK
  <2>3. UNCHANGED call
    BY <1>9 DEF Record, vars
  <2>4. QED
    BY <1>4, <1>9, <2>2, <2>3 DEF Record
<1>10. ASSUME NEW p \in Publishers, NEW chs \in SUBSET Channels, ResyncSome(p, chs)
       PROVE  FramesInv'
  <2>1. JobOK([frame |-> Resync(chs), chs |-> chs])
    BY DEF JobOK
  <2>2. UNCHANGED call
    BY <1>10 DEF ResyncSome, vars
  <2>3. QED
    BY <1>4, <1>10, <2>1, <2>2 DEF ResyncSome
<1>11. ASSUME NEW p \in Publishers, NEW ch \in Channels, PublishNext(p, ch) PROVE FramesInv'
  <2>1. job[p].frame \in ServerFrames
    BY <1>11, JobFrame DEF PublishNext
  <2>2. \A u \in Threads : call'[u] = call[u] \/ call'[u].frame = job[p].frame
    <3>1. \A u \in Threads : u # p => call'[u] = call[u]
      BY <1>11 DEF PublishNext, Publish, Start, TypeOK
    <3>2. call'[p].frame = job[p].frame
      BY <1>11 DEF PublishNext, Publish, Start, TypeOK, Threads, Begin
    <3>3. QED
      BY <3>1, <3>2
  <2>3. /\ \A q \in Publishers \ {p} : job'[q] = job[q]
        /\ job'[p].frame = job[p].frame /\ job'[p].chs \subseteq job[p].chs
    BY <1>11 DEF PublishNext, ServerTypeOK
  <2>4. JobOK(job'[p])
    BY <1>j, <2>3 DEF JobOK
  <2>5. QED
    BY <1>j, <1>c, <2>1, <2>2, <2>3, <2>4 DEF FramesInv, JobOK
<1>12. ASSUME NEW p \in Publishers, Published(p) PROVE FramesInv'
  <2>1. /\ job' = [job EXCEPT ![p] = [job[p] EXCEPT !.frame = NoFrame]]
        /\ job[p].chs = {} /\ UNCHANGED call
    BY <1>12 DEF Published, ServerTypeOK, vars
  <2>2. JobOK([job[p] EXCEPT !.frame = NoFrame])
    BY <2>1 DEF JobOK, ServerTypeOK
  <2>3. QED
    BY <1>4, <2>1, <2>2
<1>13. ASSUME NEW p \in Publishers, ResyncAll(p) PROVE FramesInv'
  <2>1. Resync({}) \in ServerFrames
    BY MessagesAreFrames
  <2>2. Start(p, "broadcast", NoConn, Resync({})) /\ UNCHANGED job
    BY <1>13 DEF ResyncAll, Broadcast, svars
  <2>3. QED
    BY <1>2, <2>1, <2>2 DEF Threads
<1>14. CASE (\E c \in Conns : Park(c)) \/ StopAccepting \/ UNCHANGED allvars
  BY <1>1, <1>14 DEF Park, StopAccepting, allvars, vars, svars
<1> USE DEF Threads
<1>15. ASSUME NEW c \in Conns, TaskStep(c) PROVE FramesInv'
  BY <1>15, <1>1, <1>3, <1>5, <1>6, <1>7, <1>8 DEF TaskStep
<1>16. ASSUME NEW c \in Conns, ClientStep(c) PROVE FramesInv'
  BY <1>16, <1>1, <1>5, <1>6, <1>7 DEF ClientStep
<1>17. ASSUME NEW p \in Publishers, PublisherStep(p) PROVE FramesInv'
  BY <1>17, <1>3, <1>9, <1>10, <1>11, <1>12, <1>13 DEF PublisherStep
<1>18. QED
  BY <1>14, <1>15, <1>16, <1>17 DEF ServerNext

-----------------------------------------------------------------------------
(* The theorems.                                                           *)

\* Together these are inductive: the registry's own invariants, the types,
\* the messages in flight, the places, and the sessions' entries.
ServerInv ==
    /\ TypeOK /\ RegistryInv
    /\ ServerTypeOK /\ FramesInv /\ PlacesInv /\ SessionRegistered

LEMMA ServerInvInit == ServerInit => ServerInv
<1> SUFFICES ASSUME ServerInit PROVE ServerInv
  OBVIOUS
<1>1. TypeOK /\ RegistryInv
  BY DEF ServerInit, Init, TypeOK, Phases, Idle, Metrics, RegistryInv, IndexInStep,
         RecipientsPinned, OutsidersHoldNothing, Subscribers, connections
<1>2. ServerTypeOK
  BY ServerAssumption DEF ServerInit, ServerTypeOK, Places, Views, Nothing
<1>3. FramesInv
  BY DEF ServerInit, Init, FramesInv, JobOK
<1>4. PlacesInv
  <2>1. Holders = {}
    BY DEF ServerInit, Holders, Holds
  <2>2. QED
    BY <2>1, FS_EmptySet, ServerAssumption DEF ServerInit, PlacesInv
<1>5. SessionRegistered
  BY DEF ServerInit, Init, SessionRegistered, connections, InRegistry
<1>6. QED
  BY <1>1, <1>2, <1>3, <1>4, <1>5 DEF ServerInv

LEMMA ServerInvStep == ServerInv /\ [ServerNext]_allvars => ServerInv'
<1> SUFFICES ASSUME ServerInv, [ServerNext]_allvars PROVE ServerInv'
  OBVIOUS
<1>1. /\ TypeOK /\ RegistryInv
      /\ ServerTypeOK /\ FramesInv /\ PlacesInv /\ SessionRegistered
  BY DEF ServerInv
<1>2. [Next]_vars
  BY <1>1, ServerRefinementStep
<1>3. TypeOK' /\ RegistryInv'
  BY <1>1, <1>2, TypeStep, InvStep
<1>4. ServerTypeOK' /\ FramesInv'
  BY <1>1, ServerTypeStep, FramesStep
<1>5. PlacesInv' /\ SessionRegistered'
  BY <1>1, PlacesStep, RegisteredStep
<1>6. QED
  BY <1>3, <1>4, <1>5 DEF ServerInv

LEMMA ServerInvHolds == ServerSpec => []ServerInv
BY ServerInvInit, ServerInvStep, PTL DEF ServerSpec

\* The accept loop, the connection tasks and the publishers keep the types of
\* all they share; permits never go below zero or above max_connections.
THEOREM ServerTypeCorrect == ServerSpec => []ServerTypeOK
BY ServerInvHolds, PTL DEF ServerInv

\* Server implements Registry: every step of the accept loop, a connection
\* task or a publisher is a step of the registry or leaves it alone, so that
\* what is proved about the registry holds in the server.
THEOREM ServerImplementsRegistry == ServerSpec => Spec
<1>1. ServerInit => Init
  BY DEF ServerInit
<1>2. ServerInv /\ [ServerNext]_allvars => [Next]_vars
  BY ServerRefinementStep DEF ServerInv
<1>3. QED
  BY <1>1, <1>2, ServerInvHolds, PTL DEF ServerSpec, Spec

\* The server as a whole is a fan-out: through the registry it implements the
\* abstract specification of what a publish promises.
THEOREM ServerImplementsFanout == ServerSpec => ImplementsFanout
BY ServerImplementsRegistry, RegistryImplementsFanout

\* A permit of Shared::slots is back exactly when its task has ended, and the
\* registered connections never exceed max_connections.
THEOREM PlacesAlwaysConserved == ServerSpec => []PlacesConserved
<1>1. ServerInv => PlacesConserved
  <2> SUFFICES ASSUME ServerInv PROVE PlacesConserved
    OBVIOUS
  <2>1. /\ permits \in Nat /\ IsFiniteSet(Holders)
        /\ permits + Cardinality(Holders) = MaxConnections
    BY DEF ServerInv, PlacesInv
  <2>2. connections \subseteq Holders
    BY DEF ServerInv, SessionRegistered, InRegistry, connections, Holders, Holds
  <2>3. /\ Cardinality(connections) <= Cardinality(Holders)
        /\ Cardinality(connections) \in Nat /\ Cardinality(Holders) \in Nat
    BY <2>1, <2>2, FS_Subset, FS_CardinalityType
  <2>4. Cardinality(connections) <= MaxConnections
    BY <2>1, <2>3, ServerAssumption
  <2>5. QED
    BY <2>1, <2>4 DEF PlacesConserved, Holders
<1>2. QED
  BY <1>1, ServerInvHolds, PTL

\* A connection is in the registry exactly while its task is between
\* "authenticated written" and the end of the guard Registered.
THEOREM SessionsAlwaysRegistered == ServerSpec => []SessionRegistered
BY ServerInvHolds, PTL DEF ServerInv

=============================================================================
