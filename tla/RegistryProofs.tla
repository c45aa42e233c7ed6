--------------------------- MODULE RegistryProofs ---------------------------
(***************************************************************************)
(* Proofs about Registry, for every set of connections, publishers and     *)
(* channels, every queue capacity and every limit.                         *)
(***************************************************************************)
EXTENDS Registry, TLAPS

-----------------------------------------------------------------------------
(* What the operators on the index and on calls return.                    *)

\* A list of a request only names channels, and so do the results computed
\* from it by Registry::subscribe and Registry::unsubscribe.
LEMMA ResultsAreChannels ==
    ASSUME NEW chs \in Requests, NEW subs \in SUBSET Channels
    PROVE  Added(subs, chs) \subseteq Channels /\ Removed(subs, chs) \subseteq subs
<1>1. \A i \in 1..Len(chs) : chs[i] \in Channels
  BY RegistryAssumption
<1>2. QED
  BY <1>1 DEF Added, Removed, Listed, Prefix

\* A call as the code starts it is a call.
LEMMA BeginType ==
    ASSUME NEW op \in {"publish", "broadcast", "send"},
           NEW on \in Channels \cup Conns \cup {NoConn},
           NEW f \in Frames, NEW S \in SUBSET Conns
    PROVE  Begin(op, on, f, S) \in Calls
BY DEF Begin, Calls

\* Whoever a call is for is registered.
LEMMA RecipientsRegistered ==
    ASSUME NEW op \in {"publish", "broadcast", "send"}, NEW on
    PROVE  Recipients(op, on) \subseteq connections
BY DEF Recipients

\* A call in progress has the shape of Calls, and is not the idle record.
LEMMA InCall ==
    ASSUME TypeOK, NEW t \in Threads, call[t] # Idle
    PROVE  call[t] \in Calls
BY DEF TypeOK

LEMMA CallNotIdle == \A k \in Calls : k # Idle
BY DEF Calls, Idle

\* Every update the code makes to the counters leaves them counters.
LEMMA MetricsUpdate ==
    ASSUME NEW m \in Metrics
    PROVE  /\ [m EXCEPT !.total = @ + 1, !.active = @ + 1] \in Metrics
           /\ [m EXCEPT !.active = @ - 1] \in Metrics
           /\ [m EXCEPT !.sent = @ + 1] \in Metrics
           /\ [m EXCEPT !.dropped = @ + 1] \in Metrics
<1>1. m.active + 1 \in Int /\ m.active - 1 \in Int
  BY DEF Metrics
<1>2. m.total + 1 \in Nat /\ m.sent + 1 \in Nat /\ m.dropped + 1 \in Nat
  BY DEF Metrics
<1>3. QED
  BY <1>1, <1>2, Zenon DEF Metrics

-----------------------------------------------------------------------------
\* Type correctness is preserved by every operation of the registry.
LEMMA TypeStep == TypeOK /\ [Next]_vars => TypeOK'
<1> SUFFICES ASSUME TypeOK, [Next]_vars PROVE TypeOK'
  OBVIOUS
<1> USE DEF TypeOK
<1>1. ASSUME NEW c \in Conns, Add(c) PROVE TypeOK'
  BY <1>1 DEF Add, Phases
<1>2. ASSUME NEW c \in Conns, CountAdded(c) PROVE TypeOK'
  <2>1. metrics' \in Metrics
    BY <1>2, MetricsUpdate DEF CountAdded
  <2>2. QED
    BY <1>2, <2>1 DEF CountAdded, Phases
<1>3. ASSUME NEW c \in Conns, CloseQueue(c) PROVE TypeOK'
  BY <1>3 DEF CloseQueue, Phases
<1>4. ASSUME NEW c \in Conns, Remove(c) PROVE TypeOK'
  <2>1. metrics' \in Metrics
    BY <1>4, MetricsUpdate DEF Remove
  <2>2. QED
    BY <1>4, <2>1 DEF Remove, Unindexed, Phases
<1>5. ASSUME NEW c \in Conns, Recv(c) PROVE TypeOK'
  BY <1>5 DEF Recv
<1>6. ASSUME NEW c \in Conns, NEW chs \in Requests, Subscribe(c, chs) PROVE TypeOK'
  <2>1. Added(subscriptions[c], chs) \subseteq Channels
    BY ResultsAreChannels
  <2>2. QED
    BY <1>6, <2>1 DEF Subscribe, Indexed, Subscribers
<1>7. ASSUME NEW c \in Conns, NEW chs \in Requests, Unsubscribe(c, chs) PROVE TypeOK'
  BY <1>7 DEF Unsubscribe, Unindexed
<1>8. ASSUME NEW t \in Threads, NEW op \in {"publish", "broadcast", "send"},
             NEW on \in Channels \cup Conns \cup {NoConn}, NEW f \in Frames,
             Start(t, op, on, f)
      PROVE  TypeOK'
  <2>1. Recipients(op, on) \in SUBSET Conns
    BY RecipientsRegistered DEF connections
  <2>2. Begin(op, on, f, Recipients(op, on)) \in Calls
    BY <2>1, BeginType
  <2>3. QED
    BY <1>8, <2>2 DEF Start
<1>9. ASSUME NEW t \in Threads, NEW c \in Conns, TrySend(t, c) PROVE TypeOK'
  <2>1. call[t] \in Calls
    BY <1>9, InCall DEF TrySend
  <2>2. call'[t] \in Calls
    BY <1>9, <2>1 DEF TrySend, Calls
  <2>3. call' \in [Threads -> {Idle} \cup Calls]
    BY <1>9, <2>2 DEF TrySend
  <2>4. call[t].frame \in Frames
    BY <2>1 DEF Calls
  <2>5. QED
    BY <1>9, <2>3, <2>4 DEF TrySend
<1>10. ASSUME NEW t \in Threads, Tally(t) PROVE TypeOK'
  <2>1. call[t] \in Calls /\ call[t].cur \in Conns
    BY <1>10, InCall DEF Tally, Calls
  <2>2. call'[t] \in Calls
    BY <1>10, <2>1 DEF Tally, Calls
  <2>3. metrics' \in Metrics
    BY <1>10, MetricsUpdate DEF Tally
  <2>4. QED
    BY <1>10, <2>1, <2>2, <2>3 DEF Tally
<1>11. ASSUME NEW t \in Threads, Return(t) PROVE TypeOK'
  BY <1>11 DEF Return
<1>12. CASE UNCHANGED vars
  BY <1>12 DEF vars
<1>13. QED
  BY <1>1, <1>2, <1>3, <1>4, <1>5, <1>6, <1>7, <1>8, <1>9, <1>10, <1>11, <1>12
     DEF Next, Publish, Broadcast, Send, Step, Threads

\* Every reachable state of the registry is well typed.
THEOREM TypeCorrect == Spec => []TypeOK
<1>1. Init => TypeOK
  BY DEF Init, TypeOK, Phases, Idle, Metrics
<1>2. QED
  BY <1>1, TypeStep, PTL DEF Spec

-----------------------------------------------------------------------------
(* The steps fall in two kinds.  A step under the write lock finds no call *)
(* in progress, so RecipientsPinned holds trivially after it; any other    *)
(* step leaves the map, the sets and the index alone, and with them the    *)
(* recipients of every call.                                               *)

\* A step that changes neither the registered ids, their sets nor the index
\* keeps the index in step and keeps everybody's recipients.
LEMMA MembershipUnchanged ==
    ASSUME TypeOK, RegistryInv,
           connections' = connections, UNCHANGED <<subscriptions, by_channel>>
    PROVE  /\ IndexInStep' /\ OutsidersHoldNothing'
           /\ \A op, on : Recipients(op, on)' = Recipients(op, on)
<1>1. \A ch : Subscribers(ch)' = Subscribers(ch)
  BY DEF Subscribers
<1>2. \A op, on : Recipients(op, on)' = Recipients(op, on)
  BY <1>1 DEF Recipients
<1>3. IndexInStep'
  BY <1>1 DEF RegistryInv, IndexInStep
<1>4. OutsidersHoldNothing'
  BY DEF RegistryInv, OutsidersHoldNothing
<1>5. QED
  BY <1>2, <1>3, <1>4

\* Nor does a step that touches no call disturb the calls.
LEMMA CallsUnchanged ==
    ASSUME TypeOK, RegistryInv,
           connections' = connections,
           UNCHANGED <<subscriptions, by_channel, call>>
    PROVE  RegistryInv'
<1>1. /\ IndexInStep' /\ OutsidersHoldNothing'
      /\ \A op, on : Recipients(op, on)' = Recipients(op, on)
  BY MembershipUnchanged
<1>2. RecipientsPinned'
  BY <1>1 DEF RegistryInv, RecipientsPinned
<1>3. QED
  BY <1>1, <1>2 DEF RegistryInv

\* A step under the write lock leaves no call in progress.
LEMMA UnderWriteLock ==
    ASSUME NoReader, UNCHANGED call
    PROVE  RecipientsPinned'
BY DEF NoReader, RecipientsPinned

\* Registry::subscribe and its loop over `added` keep the index in step.
LEMMA SubscribeKeepsIndex ==
    ASSUME TypeOK, RegistryInv, NEW c \in Conns, NEW chs \in Requests,
           Subscribe(c, chs)
    PROVE  RegistryInv'
<1> DEFINE added == Added(subscriptions[c], chs)
<1>1. added \subseteq Channels
  BY ResultsAreChannels DEF TypeOK
<1>2. /\ c \in connections /\ connections' = connections
      /\ subscriptions' = [subscriptions EXCEPT ![c] = @ \cup added]
      /\ by_channel' = Indexed(c, added)
  BY DEF Subscribe, InSession, connections
<1> HIDE DEF added
<1>3. ASSUME NEW ch \in Channels
      PROVE  Subscribers(ch)' = {d \in connections : ch \in subscriptions'[d]}
  <2>1. Subscribers(ch)' = IF ch \in added THEN Subscribers(ch) \cup {c}
                                           ELSE Subscribers(ch)
    BY <1>2 DEF Indexed, Subscribers
  <2>2. Subscribers(ch) = {d \in connections : ch \in subscriptions[d]}
    BY DEF RegistryInv, IndexInStep
  <2>3. QED
    BY <1>2, <2>1, <2>2 DEF TypeOK, connections
<1>4. \A ch \in DOMAIN by_channel' : by_channel'[ch] # {}
  BY <1>2 DEF Indexed, RegistryInv, IndexInStep
<1>5. OutsidersHoldNothing'
  BY <1>2 DEF RegistryInv, OutsidersHoldNothing, TypeOK
<1>6. RecipientsPinned'
  BY UnderWriteLock DEF Subscribe
<1>7. QED
  BY <1>2, <1>3, <1>4, <1>5, <1>6 DEF RegistryInv, IndexInStep

\* Taking c out of the index under the channels gone, which it holds, is what
\* taking those channels out of its set asks for.
LEMMA UnindexedInStep ==
    ASSUME TypeOK, RegistryInv, NEW c \in Conns, NEW gone \in SUBSET subscriptions[c],
           by_channel' = Unindexed(c, gone)
    PROVE  /\ \A ch \in Channels :
                Subscribers(ch)' = Subscribers(ch) \ (IF ch \in gone THEN {c} ELSE {})
           /\ \A ch \in DOMAIN by_channel' : by_channel'[ch] # {}
<1>1. \A ch \in DOMAIN by_channel : by_channel[ch] # {}
  BY DEF RegistryInv, IndexInStep
<1>2. QED
  BY <1>1 DEF Unindexed, Subscribers, TypeOK

\* Registry::unsubscribe keeps the index in step.
LEMMA UnsubscribeKeepsIndex ==
    ASSUME TypeOK, RegistryInv, NEW c \in Conns, NEW chs \in Requests,
           Unsubscribe(c, chs)
    PROVE  RegistryInv'
<1> DEFINE removed == Removed(subscriptions[c], chs)
<1>1. removed \in SUBSET subscriptions[c]
  BY DEF Removed
<1>2. /\ c \in connections /\ connections' = connections
      /\ subscriptions' = [subscriptions EXCEPT ![c] = @ \ removed]
      /\ by_channel' = Unindexed(c, removed)
  BY DEF Unsubscribe, InSession, connections
<1> HIDE DEF removed
<1>3. /\ \A ch \in Channels :
            Subscribers(ch)' = Subscribers(ch) \ (IF ch \in removed THEN {c} ELSE {})
      /\ \A ch \in DOMAIN by_channel' : by_channel'[ch] # {}
  BY <1>1, <1>2, UnindexedInStep
<1>4. ASSUME NEW ch \in Channels
      PROVE  Subscribers(ch)' = {d \in connections : ch \in subscriptions'[d]}
  <2>1. Subscribers(ch) = {d \in connections : ch \in subscriptions[d]}
    BY DEF RegistryInv, IndexInStep
  <2>2. QED
    BY <1>2, <1>3, <2>1 DEF TypeOK, connections
<1>5. OutsidersHoldNothing'
  BY <1>2 DEF RegistryInv, OutsidersHoldNothing, TypeOK
<1>6. RecipientsPinned'
  BY UnderWriteLock DEF Unsubscribe
<1>7. QED
  BY <1>2, <1>3, <1>4, <1>5, <1>6 DEF RegistryInv, IndexInStep

\* Registry::remove takes the connection out of every entry it was in.
LEMMA RemoveKeepsIndex ==
    ASSUME TypeOK, RegistryInv, NEW c \in Conns, Remove(c)
    PROVE  RegistryInv'
<1>1. /\ connections' = connections \ {c}
      /\ subscriptions' = [subscriptions EXCEPT ![c] = {}]
      /\ by_channel' = Unindexed(c, subscriptions[c])
  BY DEF Remove, connections, TypeOK
<1>2. /\ \A ch \in Channels : Subscribers(ch)' =
            Subscribers(ch) \ (IF ch \in subscriptions[c] THEN {c} ELSE {})
      /\ \A ch \in DOMAIN by_channel' : by_channel'[ch] # {}
  BY <1>1, UnindexedInStep
<1>3. ASSUME NEW ch \in Channels
      PROVE  Subscribers(ch)' = {d \in connections' : ch \in subscriptions'[d]}
  <2>1. Subscribers(ch) = {d \in connections : ch \in subscriptions[d]}
    BY DEF RegistryInv, IndexInStep
  <2>2. QED
    BY <1>1, <1>2, <2>1 DEF TypeOK, connections
<1>4. OutsidersHoldNothing'
  BY <1>1 DEF RegistryInv, OutsidersHoldNothing, TypeOK
<1>5. RecipientsPinned'
  BY UnderWriteLock DEF Remove
<1>6. QED
  BY <1>2, <1>3, <1>4, <1>5 DEF RegistryInv, IndexInStep

\* A new id holds nothing, so inserting it leaves the index right.
LEMMA AddKeepsIndex ==
    ASSUME TypeOK, RegistryInv, NEW c \in Conns, Add(c)
    PROVE  RegistryInv'
<1>1. /\ connections' = connections \cup {c} /\ c \notin connections
      /\ UNCHANGED <<subscriptions, by_channel>>
  BY DEF Add, connections, TypeOK
<1>2. subscriptions[c] = {}
  BY <1>1 DEF RegistryInv, OutsidersHoldNothing
<1>3. \A ch : Subscribers(ch)' = Subscribers(ch)
  BY <1>1 DEF Subscribers
<1>4. IndexInStep'
  BY <1>1, <1>2, <1>3 DEF RegistryInv, IndexInStep
<1>5. OutsidersHoldNothing'
  BY <1>1 DEF RegistryInv, OutsidersHoldNothing
<1>6. RecipientsPinned'
  BY UnderWriteLock DEF Add
<1>7. QED
  BY <1>4, <1>5, <1>6 DEF RegistryInv

\* A step of one thread's call that leaves the membership alone preserves the
\* invariant if that call still accounts for all its recipients.
LEMMA OneCallChanged ==
    ASSUME TypeOK, RegistryInv, NEW t \in Threads,
           connections' = connections, UNCHANGED <<subscriptions, by_channel>>,
           \A u \in Threads \ {t} : call'[u] = call[u],
           call'[t] # Idle =>
              LET k == call'[t]
                  visiting == {k.cur} \ {NoConn}
              IN  /\ k.todo \cup visiting \cup k.ok \cup k.missed = Recipients(k.op, k.on)
                  /\ k.todo \cap (visiting \cup k.ok \cup k.missed) = {}
                  /\ visiting \cap (k.ok \cup k.missed) = {}
                  /\ k.ok \cap k.missed = {}
    PROVE  RegistryInv'
<1>1. /\ IndexInStep' /\ OutsidersHoldNothing'
      /\ \A op, on : Recipients(op, on)' = Recipients(op, on)
  BY MembershipUnchanged
<1>2. RecipientsPinned'
  BY <1>1 DEF RegistryInv, RecipientsPinned
<1>3. QED
  BY <1>1, <1>2 DEF RegistryInv

\* publish, broadcast and send start with exactly their recipients to visit.
LEMMA StartPins ==
    ASSUME TypeOK, RegistryInv, NEW t \in Threads,
           NEW op \in {"publish", "broadcast", "send"}, NEW on, NEW f,
           Start(t, op, on, f)
    PROVE  RegistryInv'
<1>1. connections' = connections /\ UNCHANGED <<subscriptions, by_channel>>
  BY DEF Start, connections
<1>2. /\ \A u \in Threads \ {t} : call'[u] = call[u]
      /\ call'[t] = Begin(op, on, f, Recipients(op, on))
  BY DEF Start, TypeOK
<1>3. QED
  BY <1>1, <1>2, OneCallChanged DEF Begin

\* Visiting a recipient moves it from those to visit to the one under way,
\* or, if its queue is closed, to those that missed the frame.
LEMMA TrySendPins ==
    ASSUME TypeOK, RegistryInv, NEW t \in Threads, NEW c \in Conns, TrySend(t, c)
    PROVE  RegistryInv'
<1> DEFINE k == call[t]
           closed == phase[c] = "closed"
<1>1. connections' = connections /\ UNCHANGED <<subscriptions, by_channel>>
  BY DEF TrySend, connections
<1>2. k \in Calls /\ k # Idle /\ k.cur = NoConn /\ c \in k.todo
  BY InCall DEF TrySend
<1>3. /\ \A u \in Threads \ {t} : call'[u] = call[u]
      /\ call'[t].op = k.op /\ call'[t].on = k.on
      /\ call'[t].todo = k.todo \ {c} /\ call'[t].ok = k.ok
      /\ call'[t].cur = IF closed THEN NoConn ELSE c
      /\ call'[t].missed = IF closed THEN k.missed \cup {c} ELSE k.missed
  BY <1>2 DEF TrySend, TypeOK, Calls
<1>4. /\ k.todo \cup k.ok \cup k.missed = Recipients(k.op, k.on)
      /\ k.todo \cap (k.ok \cup k.missed) = {} /\ k.ok \cap k.missed = {}
  BY <1>2 DEF RegistryInv, RecipientsPinned
<1> HIDE DEF k, closed
<1>5. c # NoConn
  BY RegistryAssumption
<1>6. QED
  BY <1>1, <1>2, <1>3, <1>4, <1>5, OneCallChanged

\* Updating the counters moves the recipient under way to its outcome.
LEMMA TallyPins ==
    ASSUME TypeOK, RegistryInv, NEW t \in Threads, Tally(t)
    PROVE  RegistryInv'
<1> DEFINE k == call[t]
<1>1. connections' = connections /\ UNCHANGED <<subscriptions, by_channel>>
  BY DEF Tally, connections
<1>2. k \in Calls /\ k # Idle /\ k.cur # NoConn
  BY InCall DEF Tally
<1>3. /\ \A u \in Threads \ {t} : call'[u] = call[u]
      /\ call'[t].op = k.op /\ call'[t].on = k.on
      /\ call'[t].todo = k.todo /\ call'[t].cur = NoConn
      /\ call'[t].ok = IF k.full THEN k.ok ELSE k.ok \cup {k.cur}
      /\ call'[t].missed = IF k.full THEN k.missed \cup {k.cur} ELSE k.missed
  BY <1>2 DEF Tally, TypeOK, Calls
<1>4. /\ k.todo \cup {k.cur} \cup k.ok \cup k.missed = Recipients(k.op, k.on)
      /\ k.todo \cap ({k.cur} \cup k.ok \cup k.missed) = {}
      /\ k.cur \notin k.ok \cup k.missed /\ k.ok \cap k.missed = {}
  BY <1>2 DEF RegistryInv, RecipientsPinned
<1> HIDE DEF k
<1>5. QED
  BY <1>1, <1>3, <1>4, OneCallChanged

\* Every operation of the registry preserves the invariant.
LEMMA InvStep == TypeOK /\ RegistryInv /\ [Next]_vars => RegistryInv'
<1> SUFFICES ASSUME TypeOK, RegistryInv, [Next]_vars PROVE RegistryInv'
  OBVIOUS
<1>1. ASSUME NEW c \in Conns, CountAdded(c) \/ CloseQueue(c) \/ Recv(c)
      PROVE  RegistryInv'
  <2>1. connections' = connections /\ UNCHANGED <<subscriptions, by_channel, call>>
    BY <1>1 DEF CountAdded, CloseQueue, Recv, InSession, connections, TypeOK
  <2>2. QED
    BY <2>1, CallsUnchanged
<1>2. ASSUME NEW t \in Threads, Return(t) PROVE RegistryInv'
  <2>1. connections' = connections /\ UNCHANGED <<subscriptions, by_channel>>
    BY <1>2 DEF Return, connections
  <2>2. (\A u \in Threads \ {t} : call'[u] = call[u]) /\ call'[t] = Idle
    BY <1>2 DEF Return, TypeOK
  <2>3. QED
    BY <2>1, <2>2, OneCallChanged
<1>3. CASE UNCHANGED vars
  <2>1. connections' = connections /\ UNCHANGED <<subscriptions, by_channel, call>>
    BY <1>3 DEF vars, connections
  <2>2. QED
    BY <2>1, CallsUnchanged
<1>4. QED
  BY <1>1, <1>2, <1>3, AddKeepsIndex, RemoveKeepsIndex, SubscribeKeepsIndex,
     UnsubscribeKeepsIndex, StartPins, TrySendPins, TallyPins
     DEF Next, Publish, Broadcast, Send, Step, Threads

\* The inductive invariant of the registry holds in every reachable state.
LEMMA InvHolds == Spec => []RegistryInv
<1>1. Init => RegistryInv
  BY DEF Init, RegistryInv, IndexInStep, RecipientsPinned, OutsidersHoldNothing,
         Subscribers, connections, Idle
<1>2. QED
  BY <1>1, InvStep, TypeCorrect, PTL DEF Spec

\* The channel index agrees with the subscription sets, and holds no empty
\* entry, after any interleaving of operations of any number of connections.
THEOREM IndexAlwaysInStep == Spec => []IndexInStep
BY InvHolds, PTL DEF RegistryInv

\* A publish, broadcast or send visits exactly the connections that are its
\* recipients at every moment of the call, each once.
THEOREM RecipientsAlwaysPinned == Spec => []RecipientsPinned
BY InvHolds, PTL DEF RegistryInv

=============================================================================
