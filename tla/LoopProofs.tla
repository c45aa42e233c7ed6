----------------------------- MODULE LoopProofs -----------------------------
(***************************************************************************)
(* Proofs about SubscribeLoop: for requests of any length, the loops of    *)
(* Registry::subscribe and Registry::unsubscribe compute the closed forms  *)
(* of Subscriptions.tla, which Registry and Server use.                    *)
(***************************************************************************)
EXTENDS SubscribeLoop, FiniteSetTheorems, SequenceTheorems, TLAPS

-----------------------------------------------------------------------------
(* The closed forms, one entry at a time.                                  *)

\* The first n entries of a list, and what is listed in them.
LEMMA Sofar ==
    ASSUME NEW L \in Seq(Channels), NEW n \in 0..Len(L)
    PROVE  /\ Len(SubSeq(L, 1, n)) = n
           /\ \A j \in 1..n : SubSeq(L, 1, n)[j] = L[j] /\ L[j] \in Channels
           /\ \A j \in 0..n : Prefix(SubSeq(L, 1, n), j) = Prefix(L, j)
           /\ Listed(SubSeq(L, 1, n)) = Prefix(L, n)
<1>1. Len(L) \in Nat /\ \A j \in 1..Len(L) : L[j] \in Channels
  BY LenProperties, ElementOfSeq
<1>2. /\ Len(SubSeq(L, 1, n)) = n
      /\ \A j \in 1..n : SubSeq(L, 1, n)[j] = L[j] /\ L[j] \in Channels
  BY <1>1
<1>3. ASSUME NEW j \in 0..n PROVE Prefix(SubSeq(L, 1, n), j) = Prefix(L, j)
  BY <1>1, <1>2 DEF Prefix
<1>4. QED
  BY <1>1, <1>2, <1>3 DEF Listed

\* One more entry lists one more channel.
LEMMA PrefixStep ==
    ASSUME NEW L, NEW n \in Nat
    PROVE  Prefix(L, n + 1) = Prefix(L, n) \cup {L[n + 1]}
BY DEF Prefix

\* What Added says of the entries up to n.
LEMMA AddedSofar ==
    ASSUME NEW S, NEW L \in Seq(Channels), NEW n \in 0..Len(L)
    PROVE  Added(S, SubSeq(L, 1, n)) =
               {L[j] : j \in {k \in 1..n : Cardinality(S \cup Prefix(L, k)) <= MaxSubscriptions}}
                    \ S
<1>1. /\ Len(SubSeq(L, 1, n)) = n
      /\ \A j \in 1..n : SubSeq(L, 1, n)[j] = L[j]
      /\ \A j \in 1..n : Prefix(SubSeq(L, 1, n), j) = Prefix(L, j)
  BY Sofar
<1>2. QED
  BY <1>1 DEF Added

\* Added adds channels of the entries so far, and none before the first.
LEMMA AddedListed ==
    ASSUME NEW S, NEW L \in Seq(Channels), NEW n \in 0..Len(L)
    PROVE  /\ Added(S, SubSeq(L, 1, n)) \subseteq Prefix(L, n)
           /\ n = 0 => Added(S, SubSeq(L, 1, n)) = {}
<1> DEFINE fits == {k \in 1..n : Cardinality(S \cup Prefix(L, k)) <= MaxSubscriptions}
<1>1. Added(S, SubSeq(L, 1, n)) = {L[j] : j \in fits} \ S
  BY AddedSofar
<1>2. fits \subseteq 1..n
  OBVIOUS
<1> HIDE DEF fits
<1>3. QED
  BY <1>1, <1>2 DEF Prefix

\* One more entry adds its channel if all so far fit.
LEMMA AddedStep ==
    ASSUME NEW S, NEW L \in Seq(Channels), NEW n \in 0..(Len(L) - 1)
    PROVE  /\ Cardinality(S \cup Prefix(L, n + 1)) <= MaxSubscriptions
                => S \cup Added(S, SubSeq(L, 1, n + 1)) =
                       S \cup Added(S, SubSeq(L, 1, n)) \cup {L[n + 1]}
           /\ ~(Cardinality(S \cup Prefix(L, n + 1)) <= MaxSubscriptions)
                => S \cup Added(S, SubSeq(L, 1, n + 1)) = S \cup Added(S, SubSeq(L, 1, n))
<1>1. Len(L) \in Nat
  BY LenProperties
<1> DEFINE Fits(k) == Cardinality(S \cup Prefix(L, k)) <= MaxSubscriptions
<1>2. /\ Added(S, SubSeq(L, 1, n)) = {L[j] : j \in {k \in 1..n : Fits(k)}} \ S
      /\ Added(S, SubSeq(L, 1, n + 1)) = {L[j] : j \in {k \in 1..(n + 1) : Fits(k)}} \ S
  <2>1. n \in 0..Len(L) /\ n + 1 \in 0..Len(L)
    BY <1>1
  <2>2. ASSUME NEW m \in 0..Len(L)
        PROVE  Added(S, SubSeq(L, 1, m)) = {L[j] : j \in {k \in 1..m : Fits(k)}} \ S
    BY AddedSofar
  <2> HIDE DEF Fits
  <2>3. QED
    BY <2>1, <2>2
<1> HIDE DEF Fits
<1>3. {k \in 1..(n + 1) : Fits(k)} =
        {k \in 1..n : Fits(k)} \cup (IF Fits(n + 1) THEN {n + 1} ELSE {})
  BY <1>1
<1>4. QED
  BY <1>2, <1>3 DEF Fits

\* A channel pushed on a list of distinct channels that does not have it.
LEMMA Pushed ==
    ASSUME NEW s \in Seq(Channels), NEW x \in Channels
    PROVE  /\ Append(s, x) \in Seq(Channels) /\ Append(s, x) # <<>>
           /\ ToSet(Append(s, x)) = ToSet(s) \cup {x}
           /\ x \notin ToSet(s) /\ IsInjective(s) => IsInjective(Append(s, x))
<1>1. /\ Append(s, x) \in Seq(Channels) /\ Append(s, x) # <<>>
      /\ Len(Append(s, x)) = Len(s) + 1
      /\ \A j \in 1..Len(s) : Append(s, x)[j] = s[j]
      /\ Append(s, x)[Len(s) + 1] = x
  BY AppendProperties
<1>2. Len(s) \in Nat /\ DOMAIN s = 1..Len(s) /\ DOMAIN Append(s, x) = 1..(Len(s) + 1)
  BY <1>1, LenProperties
<1>3. ToSet(Append(s, x)) = ToSet(s) \cup {x}
  BY <1>1, <1>2 DEF ToSet
<1>4. ASSUME x \notin ToSet(s), IsInjective(s) PROVE IsInjective(Append(s, x))
  BY <1>1, <1>2, <1>4 DEF ToSet, IsInjective
<1>5. QED
  BY <1>1, <1>3, <1>4

-----------------------------------------------------------------------------
(* The loops.                                                              *)

\* The lists and sets of the loop; the set held is finite, being a HashSet.
LoopTypeOK ==
    /\ op \in {"subscribe", "unsubscribe"}
    /\ before \in SUBSET Channels /\ IsFiniteSet(before)
    /\ Cardinality(before) <= MaxSubscriptions
    /\ chs \in Seq(Channels) /\ i \in 0..Len(chs)
    /\ IsFiniteSet(subs)
    /\ done \in Seq(Channels) /\ over \in Seq(Channels) /\ IsInjective(done)

\* As long as nothing was refused, all entries so far are held; from the first
\* refusal on the set is full, and what it holds is what fitted before.
Subscribing ==
    /\ subs = before \cup Added(before, SubSeq(chs, 1, i))
    /\ ToSet(done) = subs \ before
    /\ ToSet(over) = Prefix(chs, i) \ subs
    /\ Cardinality(subs) <= MaxSubscriptions
    /\ over = <<>> => subs = before \cup Prefix(chs, i)
    /\ over # <<>> => Cardinality(subs) = MaxSubscriptions

Unsubscribing ==
    /\ subs = before \ Prefix(chs, i)
    /\ ToSet(done) = before \cap Prefix(chs, i)
    /\ over = <<>>

LoopInv ==
    /\ LoopTypeOK
    /\ op = "subscribe" => Subscribing
    /\ op = "unsubscribe" => Unsubscribing

\* Before the first entry.
LEMMA LoopInit == Init => LoopInv
<1> SUFFICES ASSUME Init PROVE LoopInv
  OBVIOUS
<1>1. chs \in Seq(Channels)
  <2>1. PICK n \in 0..MaxList : chs \in [1..n -> Channels]
    BY DEF Init
  <2>2. n \in Nat
    BY MaxListAssumption
  <2>3. QED
    BY <2>1, <2>2, SeqDef
<1>2. Len(chs) \in Nat
  BY <1>1, LenProperties
<1>3. ToSet(<<>>) = {} /\ IsInjective(<<>>) /\ <<>> \in Seq(Channels)
  BY DEF ToSet, IsInjective
<1>4. LoopTypeOK
  BY <1>1, <1>2, <1>3 DEF Init, LoopTypeOK
<1>5. Prefix(chs, 0) = {}
  BY DEF Prefix
<1>6. Added(before, SubSeq(chs, 1, 0)) = {}
  BY <1>1, <1>2, AddedListed
<1>7. Subscribing
  BY <1>3, <1>5, <1>6, MaxSubscriptionsAssumption DEF Init, Subscribing
<1>8. Unsubscribing
  BY <1>3, <1>5 DEF Init, Unsubscribing
<1>9. QED
  BY <1>4, <1>7, <1>8 DEF LoopInv

\* One turn of the loop of subscribe.
LEMMA SubscribeTurn ==
    ASSUME LoopTypeOK, Subscribing, i < Len(chs), i' = i + 1, SubscribeEntry,
           UNCHANGED <<op, before, chs>>
    PROVE  LoopTypeOK' /\ Subscribing'
<1>1. /\ i \in Nat /\ Len(chs) \in Nat /\ i \in 0..(Len(chs) - 1)
      /\ i' \in 0..Len(chs') /\ ch \in Channels
  <2>1. Len(chs) \in Nat /\ \A j \in 1..Len(chs) : chs[j] \in Channels
    BY LenProperties, ElementOfSeq DEF LoopTypeOK
  <2>2. QED
    BY <2>1 DEF LoopTypeOK, ch
<1>2. /\ Prefix(chs, i + 1) = Prefix(chs, i) \cup {ch}
      /\ Cardinality(before \cup Prefix(chs, i + 1)) <= MaxSubscriptions
            => before \cup Added(before, SubSeq(chs, 1, i + 1)) = subs \cup {ch}
      /\ ~(Cardinality(before \cup Prefix(chs, i + 1)) <= MaxSubscriptions)
            => before \cup Added(before, SubSeq(chs, 1, i + 1)) = subs
  <2>1. Prefix(chs, i + 1) = Prefix(chs, i) \cup {ch}
    BY <1>1, PrefixStep DEF ch
  <2>2. chs \in Seq(Channels)
    BY DEF LoopTypeOK
  <2>3. QED
    BY <1>1, <2>1, <2>2, AddedStep DEF Subscribing, ch
<1>3. subs \subseteq before \cup Prefix(chs, i) /\ before \subseteq subs
  <2>1. Added(before, SubSeq(chs, 1, i)) \subseteq Prefix(chs, i)
    BY AddedListed DEF LoopTypeOK
  <2>2. QED
    BY <2>1 DEF Subscribing
<1>4. IsFiniteSet(subs) /\ Cardinality(subs) \in Nat /\ Cardinality(subs) <= MaxSubscriptions
  BY FS_CardinalityType DEF LoopTypeOK, Subscribing
<1>5. ch \notin subs => IsFiniteSet(subs \cup {ch})
                        /\ Cardinality(subs \cup {ch}) = Cardinality(subs) + 1
  BY <1>4, FS_AddElement
<1>6. /\ done \in Seq(Channels) /\ over \in Seq(Channels)
      /\ ToSet(Append(done, ch)) = ToSet(done) \cup {ch}
      /\ ToSet(Append(over, ch)) = ToSet(over) \cup {ch} /\ Append(over, ch) # <<>>
      /\ Append(done, ch) \in Seq(Channels) /\ Append(over, ch) \in Seq(Channels)
      /\ ch \notin subs => IsInjective(Append(done, ch))
  BY <1>1, Pushed DEF LoopTypeOK, Subscribing
<1>7. CASE ch \in subs /\ UNCHANGED <<subs, done, over>>
  <2>1. LoopTypeOK'
    BY <1>1, <1>7 DEF LoopTypeOK
  <2>2. QED
    BY <1>2, <1>7, <2>1 DEF Subscribing
<1>8. CASE /\ ch \notin subs /\ Cardinality(subs) >= MaxSubscriptions
           /\ over' = Append(over, ch)
           /\ UNCHANGED <<subs, done>>
  <2>1. LoopTypeOK'
    BY <1>1, <1>6, <1>8 DEF LoopTypeOK
  <2>2. ~(Cardinality(before \cup Prefix(chs, i + 1)) <= MaxSubscriptions)
    <3> DEFINE all == before \cup Prefix(chs, i + 1)
    <3>1. subs \cup {ch} \subseteq all
      BY <1>2, <1>3
    <3>2. IsFiniteSet(all)
      <4> DEFINE entry == [j \in 1..(i + 1) |-> chs[j]]
      <4>1. IsFiniteSet(1..(i + 1))
        BY <1>1, FS_Interval
      <4>2. entry \in Surjection(1..(i + 1), Prefix(chs, i + 1))
        BY DEF Surjection, Prefix
      <4>3. IsFiniteSet(Prefix(chs, i + 1))
        BY <4>1, <4>2, FS_Surjection
      <4>4. QED
        BY <4>3, FS_Union DEF LoopTypeOK
    <3> HIDE DEF all
    <3>3. Cardinality(subs \cup {ch}) <= Cardinality(all) /\ Cardinality(all) \in Nat
      BY <3>1, <3>2, FS_Subset, FS_CardinalityType
    <3>4. ~(Cardinality(all) <= MaxSubscriptions)
      BY <1>4, <1>5, <1>8, <3>3, MaxSubscriptionsAssumption
    <3>5. QED
      BY <3>4 DEF all
  <2>3. Cardinality(subs) = MaxSubscriptions
    BY <1>4, <1>8, MaxSubscriptionsAssumption
  <2>4. QED
    BY <1>2, <1>6, <1>8, <2>1, <2>2, <2>3 DEF Subscribing
<1>9. CASE /\ ch \notin subs /\ Cardinality(subs) < MaxSubscriptions
           /\ subs' = subs \cup {ch}
           /\ done' = Append(done, ch)
           /\ UNCHANGED over
  <2>1. LoopTypeOK'
    BY <1>1, <1>5, <1>6, <1>9 DEF LoopTypeOK
  <2>2. over = <<>>
    BY <1>4, <1>9, MaxSubscriptionsAssumption DEF Subscribing
  <2>3. subs \cup {ch} = before \cup Prefix(chs, i + 1)
    BY <1>2, <2>2 DEF Subscribing
  <2>4. Cardinality(subs \cup {ch}) <= MaxSubscriptions
    BY <1>4, <1>5, <1>9, MaxSubscriptionsAssumption
  <2>5. before \cup Added(before, SubSeq(chs, 1, i + 1)) = subs'
    BY <1>2, <1>9, <2>3, <2>4
  <2>6. ToSet(done') = subs' \ before
    BY <1>3, <1>6, <1>9 DEF Subscribing
  <2>7. ToSet(over') = Prefix(chs, i + 1) \ subs'
    BY <1>2, <1>9, <2>2, <2>3 DEF Subscribing
  <2>8. QED
    BY <1>9, <2>1, <2>2, <2>3, <2>4, <2>5, <2>6, <2>7 DEF Subscribing
<1>10. QED
  BY <1>7, <1>8, <1>9 DEF SubscribeEntry

\* One turn of the loop of unsubscribe.
LEMMA UnsubscribeTurn ==
    ASSUME LoopTypeOK, Unsubscribing, i < Len(chs), i' = i + 1, UnsubscribeEntry,
           UNCHANGED <<op, before, chs>>
    PROVE  LoopTypeOK' /\ Unsubscribing'
<1>1. i \in Nat /\ Len(chs) \in Nat /\ i' \in 0..Len(chs') /\ ch \in Channels
  <2>1. Len(chs) \in Nat /\ \A j \in 1..Len(chs) : chs[j] \in Channels
    BY LenProperties, ElementOfSeq DEF LoopTypeOK
  <2>2. QED
    BY <2>1 DEF LoopTypeOK, ch
<1>2. Prefix(chs, i + 1) = Prefix(chs, i) \cup {ch}
  BY <1>1, PrefixStep DEF ch
<1>3. CASE ch \notin subs /\ UNCHANGED <<subs, done, over>>
  <2>1. LoopTypeOK'
    BY <1>1, <1>3 DEF LoopTypeOK
  <2>2. QED
    BY <1>2, <1>3, <2>1 DEF Unsubscribing
<1>4. CASE /\ ch \in subs /\ subs' = subs \ {ch} /\ done' = Append(done, ch)
           /\ UNCHANGED over
  <2>1. IsFiniteSet(subs \ {ch})
    BY FS_RemoveElement DEF LoopTypeOK
  <2>2. /\ Append(done, ch) \in Seq(Channels) /\ IsInjective(Append(done, ch))
        /\ ToSet(Append(done, ch)) = ToSet(done) \cup {ch}
    BY <1>1, <1>4, Pushed DEF LoopTypeOK, Unsubscribing
  <2>3. LoopTypeOK'
    BY <1>1, <1>4, <2>1, <2>2 DEF LoopTypeOK
  <2>4. QED
    BY <1>2, <1>4, <2>2, <2>3 DEF Unsubscribing
<1>5. QED
  BY <1>3, <1>4 DEF UnsubscribeEntry

LEMMA LoopHolds == Spec => []LoopInv
<1>1. LoopInv /\ [Next]_loopvars => LoopInv'
  <2> SUFFICES ASSUME LoopInv, [Next]_loopvars PROVE LoopInv'
    OBVIOUS
  <2>1. CASE Next /\ SubscribeEntry
    <3>1. op = "subscribe" /\ op' = op
      BY <2>1 DEF Next, SubscribeEntry
    <3>2. LoopTypeOK' /\ Subscribing'
      BY <2>1, <3>1, SubscribeTurn DEF Next, LoopInv
    <3>3. QED
      BY <3>1, <3>2 DEF LoopInv
  <2>2. CASE Next /\ UnsubscribeEntry
    <3>1. op = "unsubscribe" /\ op' = op
      BY <2>2 DEF Next, UnsubscribeEntry
    <3>2. LoopTypeOK' /\ Unsubscribing'
      BY <2>2, <3>1, UnsubscribeTurn DEF Next, LoopInv
    <3>3. QED
      BY <3>1, <3>2 DEF LoopInv
  <2>3. CASE UNCHANGED loopvars
    BY <2>3 DEF loopvars, LoopInv, LoopTypeOK, Subscribing, Unsubscribing
  <2>4. QED
    BY <2>1, <2>2, <2>3 DEF Next
<1>2. QED
  BY <1>1, LoopInit, PTL DEF Spec

\* For a request of any length with any repetitions, and a set however full, the
\* loops of subscribe and unsubscribe have done after each entry what the closed
\* forms say of the entries so far, and report no channel twice.
THEOREM LoopsAgree == Spec => []LoopAgrees
<1>1. LoopInv => LoopAgrees
  <2> SUFFICES ASSUME LoopInv PROVE LoopAgrees
    OBVIOUS
  <2> DEFINE sofar == SubSeq(chs, 1, i)
  <2>1. LoopTypeOK
    BY DEF LoopInv
  <2>2. Listed(sofar) = Prefix(chs, i)
    BY <2>1, Sofar DEF LoopTypeOK
  <2>3. CASE op = "subscribe"
    <3>1. Subscribing
      BY <2>3 DEF LoopInv
    <3>2. Added(before, sofar) \cap before = {}
      BY DEF Added
    <3>3. ToSet(done) = Added(before, sofar)
      BY <3>1, <3>2 DEF Subscribing
    <3>4. ToSet(over) = OverLimit(before, sofar)
      BY <2>2, <3>1 DEF Subscribing, OverLimit
    <3>5. QED
      BY <2>1, <2>3, <3>1, <3>3, <3>4 DEF LoopAgrees, Subscribing, LoopTypeOK
  <2>4. CASE op = "unsubscribe"
    <3>1. Unsubscribing
      BY <2>4 DEF LoopInv
    <3>2. Removed(before, sofar) = Prefix(chs, i) \cap before
      BY <2>2 DEF Removed
    <3>3. QED
      BY <2>1, <2>4, <3>1, <3>2 DEF LoopAgrees, Unsubscribing, LoopTypeOK
  <2>5. QED
    BY <2>1, <2>3, <2>4 DEF LoopTypeOK
<1>2. QED
  BY <1>1, LoopHolds, PTL

\* max_subscriptions holds in the middle of a request too, and a channel is
\* refused for it only once the set is full.
THEOREM RefusalsOnlyWhenFull == Spec => []RefusedOnlyWhenFull
<1>1. LoopInv => RefusedOnlyWhenFull
  <2> SUFFICES ASSUME LoopInv PROVE RefusedOnlyWhenFull
    OBVIOUS
  <2>1. LoopTypeOK
    BY DEF LoopInv
  <2>2. CASE op = "subscribe"
    BY <2>2 DEF LoopInv, Subscribing, RefusedOnlyWhenFull
  <2>3. CASE op = "unsubscribe"
    <3>1. subs \subseteq before /\ over = <<>>
      BY <2>3 DEF LoopInv, Unsubscribing
    <3>2. /\ Cardinality(subs) <= Cardinality(before)
          /\ Cardinality(subs) \in Nat /\ Cardinality(before) \in Nat
      BY <2>1, <3>1, FS_Subset, FS_CardinalityType DEF LoopTypeOK
    <3>3. Cardinality(subs) <= MaxSubscriptions
      BY <2>1, <3>2, MaxSubscriptionsAssumption DEF LoopTypeOK
    <3>4. QED
      BY <3>1, <3>3 DEF RefusedOnlyWhenFull
  <2>4. QED
    BY <2>1, <2>2, <2>3 DEF LoopTypeOK
<1>2. QED
  BY <1>1, LoopHolds, PTL

=============================================================================
