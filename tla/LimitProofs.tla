----------------------------- MODULE LimitProofs -----------------------------
(***************************************************************************)
(* Proofs about the numbers the registry keeps: max_subscriptions is never *)
(* exceeded, and connections_active is exact.  Both count finite sets, so  *)
(* that the sets stay finite is part of the inductive invariant, and no    *)
(* set of connections or channels has to be finite beforehand.             *)
(***************************************************************************)
EXTENDS RegistryProofs, FiniteSetTheorems

-----------------------------------------------------------------------------
(* What Registry::subscribe adds.                                          *)

\* A set of entries of a list has a last one.
LEMMA LastEntry ==
    ASSUME NEW n \in Nat, NEW F \in SUBSET (1..n), F # {}
    PROVE  \E m \in F : \A i \in F : i <= m
<1> DEFINE after(i) == {j \in 1..n : j > i}
           T == {after(i) : i \in F}
<1>1. IsFiniteSet(1..n)
  BY FS_Interval
<1>2. IsWellFoundedOn(StrictSubsetOrdering(1..n), FiniteSubsetsOf(1..n))
  BY FS_StrictSubsetOrderingWellFounded
<1>3. T \subseteq FiniteSubsetsOf(1..n)
  BY <1>1, FS_FiniteSubsetsOfFinite
<1>4. \E x \in T : \A y \in T : <<y, x>> \notin StrictSubsetOrdering(1..n)
  <2>1. T # {}
    OBVIOUS
  <2> HIDE DEF T
  <2>2. QED
    BY <1>2, <1>3, <2>1, WFMin, Zenon
<1>5. PICK m \in F : \A i \in F :
            <<after(i), after(m)>> \notin StrictSubsetOrdering(1..n)
  BY <1>4
<1>6. ASSUME NEW i \in F, i > m PROVE FALSE
  <2>1. after(i) \subseteq after(m) /\ i \in after(m) /\ i \notin after(i)
    BY <1>6
  <2>2. <<after(i), after(m)>> \in StrictSubsetOrdering(1..n)
    BY <2>1 DEF StrictSubsetOrdering
  <2>3. QED
    BY <1>5, <2>2
<1>7. QED
  BY <1>6

\* The channels of some first entries of a list are finitely many.
LEMMA PrefixFinite ==
    ASSUME NEW chs, NEW n \in Nat
    PROVE  IsFiniteSet(Prefix(chs, n))
<1> DEFINE f == [i \in 1..n |-> chs[i]]
<1>1. f \in Surjection(1..n, Prefix(chs, n))
  BY DEF Surjection, Prefix
<1>2. IsFiniteSet(1..n)
  BY FS_Interval
<1>3. QED
  BY <1>1, <1>2, FS_Surjection

\* A set within the limit stays within it whatever list a subscribe carries:
\* what is added comes from the entries up to the last one that fits.
LEMMA AddedWithinLimit ==
    ASSUME NEW S, NEW chs \in Seq(S), NEW subs,
           IsFiniteSet(subs), Cardinality(subs) <= MaxSubscriptions
    PROVE  /\ IsFiniteSet(subs \cup Added(subs, chs))
           /\ Cardinality(subs \cup Added(subs, chs)) <= MaxSubscriptions
<1> DEFINE fits == {i \in 1..Len(chs) :
                        Cardinality(subs \cup Prefix(chs, i)) <= MaxSubscriptions}
           new == subs \cup Added(subs, chs)
<1>1. new = subs \cup {chs[i] : i \in fits}
  BY DEF Added
<1>2. CASE fits = {}
  <2>1. new = subs
    BY <1>1, <1>2
  <2>2. QED
    BY <2>1
<1>3. CASE fits # {}
  <2>1. Len(chs) \in Nat
    OBVIOUS
  <2>2. PICK m \in fits : \A i \in fits : i <= m
    BY <1>3, <2>1, LastEntry
  <2> DEFINE upto == subs \cup Prefix(chs, m)
  <2>3. IsFiniteSet(upto)
    <3>1. IsFiniteSet(Prefix(chs, m))
      BY <2>1, PrefixFinite
    <3>2. QED
      BY <3>1, FS_Union
  <2>4. new \in SUBSET upto
    <3>1. \A i \in fits : i \in 1..m
      BY <2>1, <2>2
    <3>2. {chs[i] : i \in fits} \subseteq Prefix(chs, m)
      BY <3>1 DEF Prefix
    <3>3. QED
      BY <1>1, <3>2
  <2>5. Cardinality(upto) <= MaxSubscriptions
    BY <2>2
  <2> HIDE DEF upto, new
  <2>6. /\ IsFiniteSet(new) /\ Cardinality(new) <= Cardinality(upto)
        /\ Cardinality(new) \in Nat /\ Cardinality(upto) \in Nat
    BY <2>3, <2>4, FS_Subset, FS_CardinalityType
  <2>7. Cardinality(new) <= MaxSubscriptions
    BY <2>5, <2>6, MaxSubscriptionsAssumption
  <2>8. QED
    BY <2>6, <2>7 DEF new
<1>4. QED
  BY <1>2, <1>3

-----------------------------------------------------------------------------
(* The limit.                                                              *)

\* A set that shrinks stays finite and within the limit.
LEMMA ShrunkWithinLimit ==
    ASSUME NEW S, NEW T \in SUBSET S,
           IsFiniteSet(S), Cardinality(S) <= MaxSubscriptions
    PROVE  IsFiniteSet(T) /\ Cardinality(T) <= MaxSubscriptions
<1>1. /\ IsFiniteSet(T) /\ Cardinality(T) <= Cardinality(S)
      /\ Cardinality(T) \in Nat /\ Cardinality(S) \in Nat
  BY FS_Subset, FS_CardinalityType
<1>2. QED
  BY <1>1, MaxSubscriptionsAssumption

\* Every connection holds finitely many channels, and no more than allowed.
LimitInv == SubscriptionLimit /\ \A c \in Conns : IsFiniteSet(subscriptions[c])

\* Every operation of the registry keeps every connection within the limit.
LEMMA LimitStep == TypeOK /\ LimitInv /\ [Next]_vars => LimitInv'
<1> SUFFICES ASSUME TypeOK, LimitInv, [Next]_vars PROVE LimitInv'
  OBVIOUS
<1> USE DEF LimitInv, SubscriptionLimit
<1>1. ASSUME NEW c \in Conns, NEW S, IsFiniteSet(S), Cardinality(S) <= MaxSubscriptions,
             subscriptions' = [subscriptions EXCEPT ![c] = S]
      PROVE  LimitInv'
  BY <1>1 DEF TypeOK
<1>2. ASSUME NEW c \in Conns, NEW chs \in Requests, Subscribe(c, chs) PROVE LimitInv'
  <2>1. chs \in Seq(Channels)
    BY RegistryAssumption
  <2>2. subscriptions' = [subscriptions EXCEPT ![c] =
                            subscriptions[c] \cup Added(subscriptions[c], chs)]
    BY <1>2 DEF Subscribe
  <2>3. QED
    BY <1>1, <2>1, <2>2, AddedWithinLimit
<1>3. ASSUME NEW c \in Conns, NEW chs \in Requests, Unsubscribe(c, chs) PROVE LimitInv'
  <2>1. subscriptions' = [subscriptions EXCEPT ![c] =
                            subscriptions[c] \ Removed(subscriptions[c], chs)]
    BY <1>3 DEF Unsubscribe
  <2>2. QED
    BY <1>1, <2>1, ShrunkWithinLimit
<1>4. ASSUME NEW c \in Conns, Remove(c) PROVE LimitInv'
  <2>1. subscriptions' = [subscriptions EXCEPT ![c] = {}]
    BY <1>4 DEF Remove
  <2>2. QED
    BY <1>1, <2>1, ShrunkWithinLimit
<1>5. CASE UNCHANGED subscriptions
  BY <1>5
<1>6. QED
  BY <1>2, <1>3, <1>4, <1>5
     DEF Next, Add, CountAdded, CloseQueue, Recv, Publish, Broadcast, Send, Start, Step,
         TrySend, Tally, Return, vars

LEMMA LimitHolds == Spec => []LimitInv
<1>1. Init => LimitInv
  BY FS_EmptySet, MaxSubscriptionsAssumption DEF Init, LimitInv, SubscriptionLimit
<1>2. QED
  BY <1>1, LimitStep, TypeCorrect, PTL DEF Spec

\* No connection ever holds more than max_subscriptions channels, over any
\* sequence of requests of any length, repetitions included.
THEOREM LimitKept == Spec => []SubscriptionLimit
BY LimitHolds, PTL DEF LimitInv

-----------------------------------------------------------------------------
(* The counter of open connections.                                        *)

\* The connections counted in and not yet counted out.
Active == {c \in Conns : phase[c] \in {"open", "closed"}}

\* connections_active counts them, and they are finitely many.
ActiveInv == ActiveExact /\ IsFiniteSet(Active)

\* Every operation of the registry keeps the counter exact.
LEMMA ActiveStep == TypeOK /\ ActiveInv /\ [Next]_vars => ActiveInv'
<1> SUFFICES ASSUME TypeOK, ActiveInv, [Next]_vars PROVE ActiveInv'
  OBVIOUS
<1>1. /\ metrics.active = Cardinality(Active) /\ IsFiniteSet(Active)
      /\ metrics \in Metrics
  BY DEF ActiveInv, ActiveExact, Active, TypeOK
<1>2. ASSUME metrics'.active = Cardinality(Active'), IsFiniteSet(Active')
      PROVE  ActiveInv'
  BY <1>2 DEF ActiveInv, ActiveExact, Active
<1>3. ASSUME NEW c \in Conns, CountAdded(c) PROVE ActiveInv'
  <2>1. Active' = Active \cup {c} /\ c \notin Active
    BY <1>3 DEF CountAdded, Active, TypeOK
  <2>2. metrics'.active = metrics.active + 1
    BY <1>1, <1>3 DEF CountAdded, Metrics
  <2>3. QED
    BY <1>1, <1>2, <2>1, <2>2, FS_AddElement
<1>4. ASSUME NEW c \in Conns, Remove(c) PROVE ActiveInv'
  <2>1. Active' = Active \ {c} /\ c \in Active
    BY <1>4 DEF Remove, Active, TypeOK
  <2>2. metrics'.active = metrics.active - 1
    BY <1>1, <1>4 DEF Remove, Metrics
  <2>3. QED
    BY <1>1, <1>2, <2>1, <2>2, FS_RemoveElement
<1>5. CASE Active' = Active /\ metrics'.active = metrics.active
  BY <1>1, <1>2, <1>5
<1>6. ASSUME NEW t \in Threads, Tally(t) PROVE ActiveInv'
  <2>1. Active' = Active
    BY <1>6 DEF Tally, Active
  <2>2. metrics'.active = metrics.active
    BY <1>1, <1>6 DEF Tally, Metrics
  <2>3. QED
    BY <1>5, <2>1, <2>2
<1>7. ASSUME NEW c \in Conns, Add(c) \/ CloseQueue(c) PROVE ActiveInv'
  <2>1. Active' = Active
    BY <1>7 DEF Add, CloseQueue, InSession, Active, TypeOK
  <2>2. QED
    BY <1>5, <1>7, <2>1 DEF Add, CloseQueue
<1>8. CASE UNCHANGED <<phase, metrics>>
  BY <1>5, <1>8 DEF Active
<1>9. QED
  BY <1>3, <1>4, <1>6, <1>7, <1>8
     DEF Next, Recv, Subscribe, Unsubscribe, Publish, Broadcast, Send, Start, Step,
         TrySend, Return, vars

LEMMA ActiveHolds == Spec => []ActiveInv
<1>1. Init => ActiveInv
  <2>1. ASSUME Init PROVE Active = {} /\ metrics.active = 0
    BY <2>1 DEF Init, Active
  <2>2. QED
    BY <2>1, FS_EmptySet DEF ActiveInv, ActiveExact, Active
<1>2. QED
  BY <1>1, ActiveStep, TypeCorrect, PTL DEF Spec

\* connections_active is the number of connections whose add has returned and
\* whose guard has not run, for every number of connections and in every
\* interleaving; so it never goes below zero.
THEOREM ActiveAlwaysExact == Spec => []ActiveExact
BY ActiveHolds, PTL DEF ActiveInv

=============================================================================
