---------------------------- MODULE OutcryProofs ----------------------------
(***************************************************************************)
(* Proofs about OutcrySource, for every number of source threads, every    *)
(* size of the ring and every sequence of frames.                          *)
(***************************************************************************)
EXTENDS OutcrySource, FiniteSetTheorems, SequenceTheorems, TLAPS

\* Every step of the callers, the producer and the threads is well typed.
LEMMA SourceTypeStep == SourceTypeOK /\ [SourceNext]_qvars => SourceTypeOK'
<1> SUFFICES ASSUME SourceTypeOK, [SourceNext]_qvars PROVE SourceTypeOK'
  OBVIOUS
<1> USE DEF SourceTypeOK
<1>a. RingSize \in Nat /\ MaxWrites \in Nat /\ MaxClones \in Nat
  BY SourceAssumption
<1>b. head \in Nat /\ Oldest \in 0..head
  BY <1>a DEF Oldest
<1>1. CASE Write
  BY <1>1, <1>a DEF Write
<1>2. CASE Clone
  BY <1>2, <1>a DEF Clone
<1>3. CASE Drop
  BY <1>3, <1>a DEF Drop
<1>4. ASSUME NEW t \in Sources, Consume(t) PROVE SourceTypeOK'
  BY <1>4, <1>b DEF Consume, Goto, Points
<1>5. ASSUME NEW t \in Sources, Loop(t) PROVE SourceTypeOK'
  BY <1>5 DEF Loop, Exit, Goto, Points
<1>6. ASSUME NEW t \in Sources, ReadNothing(t) \/ Grow(t) \/ ReadOverrun(t)
      PROVE  SourceTypeOK'
  BY <1>6 DEF ReadNothing, Grow, ReadOverrun, Goto, Points
<1>7. ASSUME NEW t \in Sources, ReadFrame(t) PROVE SourceTypeOK'
  <2>1. tail[t] + 1 \in 0..head
    BY <1>7, <1>b DEF ReadFrame, Empty
  <2>2. QED
    BY <1>7, <2>1 DEF ReadFrame, Goto, Points
<1>8. ASSUME NEW t \in Sources, PublishFrame(t) \/ TellResync(t) PROVE SourceTypeOK'
  <2>1. tail[t] \in 0..MaxWrites /\ Resync \in 0..MaxWrites
    BY <1>a, <1>b DEF Resync
  <2>2. /\ Append(told[t], tail[t]) \in Seq(0..MaxWrites)
        /\ Append(told[t], Resync) \in Seq(0..MaxWrites)
    BY <2>1, AppendProperties
  <2>3. told' \in [Sources -> Seq(0..MaxWrites)]
    BY <1>8, <2>2 DEF PublishFrame, TellResync
  <2>4. QED
    BY <1>8, <2>3 DEF PublishFrame, TellResync, Goto, Points
<1>9. ASSUME NEW t \in Sources, SkipAhead(t) PROVE SourceTypeOK'
  BY <1>9, <1>b DEF SkipAhead, Goto, Points
<1>10. ASSUME NEW t \in Sources, Break(t) PROVE SourceTypeOK'
  BY <1>10 DEF Break, Exit, Goto, Points
<1>11. CASE UNCHANGED qvars
  BY <1>11 DEF qvars
<1>12. QED
  BY <1>1, <1>2, <1>3, <1>4, <1>5, <1>6, <1>7, <1>8, <1>9, <1>10, <1>11
     DEF SourceNext, SourceStep

\* Every reachable state of the source threads is well typed.
THEOREM SourceTypeCorrect == SourceSpec => []SourceTypeOK
<1>1. SourceInit => SourceTypeOK
  BY SourceAssumption DEF SourceInit, SourceTypeOK, Points
<1>2. QED
  BY <1>1, SourceTypeStep, PTL DEF SourceSpec

-----------------------------------------------------------------------------
(* What clients are told.                                                  *)

\* What was told last, if it was a frame, and not a resync.
ToldFrame(t) == told[t] # <<>> /\ told[t][Len(told[t])] # Resync
LastTold(t) == told[t][Len(told[t])]

\* Between two frames told one after the other nothing is missing.
Consecutive(s) ==
    \A i \in 1..(Len(s) - 1) :
        (s[i] # Resync /\ s[i + 1] # Resync)
            => s[i] < s[i + 1] /\ OnlyRejected(s[i], s[i + 1])

(***************************************************************************)
(* What makes NoSilentGap inductive: how far the frames since the one told *)
(* last are accounted for, at every point of the thread's loop.  At        *)
(* "overrun" and "tell" nothing is: the resync to come makes up for it.    *)
(***************************************************************************)
Accounted(t) ==
    /\ Consecutive(told[t])
    /\ at[t] = "new" => told[t] = <<>>
    /\ (at[t] \in {"loop", "read"} /\ ToldFrame(t))
            => LastTold(t) <= tail[t] /\ OnlyRejected(LastTold(t), tail[t] + 1)
    /\ (at[t] = "publish" /\ ToldFrame(t))
            => LastTold(t) < tail[t] /\ OnlyRejected(LastTold(t), tail[t])

GapInv == \A t \in Sources : Accounted(t)

\* Telling clients x keeps what they were told consecutive if x is a resync,
\* or follows the frame told last with nothing but rejected frames between.
LEMMA TellConsecutive ==
    ASSUME NEW S, NEW s \in Seq(S), NEW x \in S, Consecutive(s),
           (s # <<>> /\ s[Len(s)] # Resync /\ x # Resync)
                => s[Len(s)] < x /\ OnlyRejected(s[Len(s)], x)
    PROVE  Consecutive(Append(s, x))
<1>1. /\ Len(s) \in Nat /\ Len(Append(s, x)) = Len(s) + 1
      /\ Append(s, x)[Len(s) + 1] = x
      /\ \A i \in 1..Len(s) : Append(s, x)[i] = s[i]
  BY AppendProperties
<1>2. ASSUME NEW i \in 1..Len(s),
             Append(s, x)[i] # Resync, Append(s, x)[i + 1] # Resync
      PROVE  /\ Append(s, x)[i] < Append(s, x)[i + 1]
             /\ OnlyRejected(Append(s, x)[i], Append(s, x)[i + 1])
  <2>1. CASE i = Len(s)
    <3>1. s # <<>>
      BY <1>2, <2>1
    <3>2. QED
      BY <1>1, <1>2, <2>1, <3>1
  <2>2. CASE i # Len(s)
    <3>1. i \in 1..(Len(s) - 1) /\ i + 1 \in 1..Len(s)
      BY <1>1, <2>2
    <3>2. QED
      BY <1>1, <1>2, <3>1 DEF Consecutive
  <2>3. QED
    BY <2>1, <2>2
<1>3. QED
  BY <1>1, <1>2 DEF Consecutive

\* A step keeps every thread's account if it keeps that of the one thread it
\* is a step of.
LEMMA OneThread ==
    ASSUME SourceTypeOK, GapInv, NEW t \in Sources, Accounted(t)',
           \A u \in Sources \ {t} :
                at'[u] = at[u] /\ tail'[u] = tail[u] /\ told'[u] = told[u]
    PROVE  GapInv'
BY DEF GapInv, Accounted, ToldFrame, LastTold

\* Every step of a thread keeps its account.
LEMMA GapStep == SourceTypeOK /\ GapInv /\ [SourceNext]_qvars => GapInv'
<1> SUFFICES ASSUME SourceTypeOK, GapInv, [SourceNext]_qvars PROVE GapInv'
  OBVIOUS
<1>1. CASE UNCHANGED <<at, tail, told>>
  BY <1>1 DEF GapInv, Accounted, ToldFrame, LastTold
<1>2. ASSUME NEW t \in Sources, Consume(t) \/ SourceStep(t) \/ Break(t) PROVE GapInv'
  <2>1. \A u \in Sources \ {t} :
            at'[u] = at[u] /\ tail'[u] = tail[u] /\ told'[u] = told[u]
    BY <1>2 DEF Consume, SourceStep, Break, Loop, ReadNothing, ReadFrame, PublishFrame,
                Grow, ReadOverrun, SkipAhead, TellResync, Exit, Goto, SourceTypeOK
  <2> SUFFICES Accounted(t)'
    BY <2>1, OneThread
  <2>2. Accounted(t)
    BY DEF GapInv
  <2>3. /\ tail[t] \in Nat /\ tail[t] \in 0..MaxWrites
        /\ told[t] \in Seq(0..MaxWrites) /\ Len(told[t]) \in Nat
    BY SourceAssumption DEF SourceTypeOK
  <2>4. CASE Consume(t)
    <3>1. at'[t] = "loop" /\ told'[t] = <<>>
      BY <2>2, <2>4 DEF Consume, Goto, SourceTypeOK, Accounted
    <3>2. QED
      BY <2>2, <3>1, <2>4 DEF Accounted, ToldFrame, Consume
  <2>5. CASE Loop(t) \/ ReadNothing(t) \/ Grow(t) \/ Break(t)
    <3>1. /\ at[t] \in {"loop", "read"} /\ at'[t] \in {"loop", "read", "ended"}
          /\ UNCHANGED <<tail, told>>
      BY <2>5 DEF Loop, ReadNothing, Grow, Break, Exit, Goto, SourceTypeOK
    <3>2. QED
      BY <2>2, <3>1 DEF Accounted, ToldFrame, LastTold
  <2>6. CASE ReadFrame(t)
    <3>1. /\ at[t] = "read" /\ told' = told /\ tail'[t] = tail[t] + 1
          /\ at'[t] = IF tail[t] + 1 \in Undecodable THEN "loop" ELSE "publish"
      BY <2>6 DEF ReadFrame, Goto, SourceTypeOK
    <3>2. ASSUME ToldFrame(t) PROVE LastTold(t) \in Nat
      <4>1. Len(told[t]) \in 1..Len(told[t])
        BY <2>3, <3>2, EmptySeq DEF ToldFrame
      <4>2. LastTold(t) \in 0..MaxWrites
        BY <2>3, <4>1, ElementOfSeq DEF LastTold
      <4>3. QED
        BY <4>2, SourceAssumption
    <3>3. ASSUME ToldFrame(t)
          PROVE  /\ LastTold(t) < tail[t] + 1 /\ OnlyRejected(LastTold(t), tail[t] + 1)
                 /\ tail[t] + 1 \in Undecodable => OnlyRejected(LastTold(t), tail[t] + 2)
      BY <2>2, <2>3, <3>1, <3>2, <3>3 DEF Accounted, OnlyRejected
    <3>4. QED
      BY <2>2, <2>3, <3>1, <3>2, <3>3 DEF Accounted, ToldFrame, LastTold
  <2>7. CASE PublishFrame(t)
    <3>1. /\ at[t] = "publish" /\ at'[t] = "loop" /\ tail' = tail
          /\ told'[t] = Append(told[t], tail[t])
      BY <2>7 DEF PublishFrame, Goto, SourceTypeOK
    <3>2. Consecutive(told'[t])
      BY <2>2, <2>3, <3>1, TellConsecutive DEF Accounted, ToldFrame, LastTold
    <3>3. told'[t][Len(told'[t])] = tail[t]
      BY <2>3, <3>1, AppendProperties
    <3>4. OnlyRejected(tail[t], tail[t] + 1)
      BY <2>3 DEF OnlyRejected
    <3>5. QED
      BY <2>3, <3>1, <3>2, <3>3, <3>4 DEF Accounted, LastTold
  <2>8. CASE ReadOverrun(t)
    <3>1. at'[t] = "overrun" /\ told' = told
      BY <2>8 DEF ReadOverrun, Goto, SourceTypeOK
    <3>2. QED
      BY <2>2, <3>1 DEF Accounted
  <2>9. CASE SkipAhead(t)
    <3>1. at'[t] = "tell" /\ told' = told
      BY <2>9 DEF SkipAhead, Goto, SourceTypeOK
    <3>2. QED
      BY <2>2, <3>1 DEF Accounted
  <2>10. CASE TellResync(t)
    <3>1. at'[t] = "loop" /\ told'[t] = Append(told[t], Resync)
      BY <2>10 DEF TellResync, Goto, SourceTypeOK
    <3>2. Resync \in 0..MaxWrites
      BY SourceAssumption DEF Resync
    <3>3. Consecutive(told'[t])
      BY <2>2, <2>3, <3>1, <3>2, TellConsecutive DEF Accounted
    <3>4. told'[t][Len(told'[t])] = Resync
      BY <2>3, <3>1, <3>2, AppendProperties
    <3>5. QED
      BY <3>1, <3>3, <3>4 DEF Accounted, ToldFrame
  <2>11. QED
    BY <1>2, <2>4, <2>5, <2>6, <2>7, <2>8, <2>9, <2>10 DEF SourceStep
<1>3. QED
  BY <1>1, <1>2 DEF SourceNext, Write, Clone, Drop, qvars

\* Frames lost in an overrun never go untold: in what each thread tells the
\* clients, two frames follow one another only if everything between them was
\* rejected by the decoder, however the producer and the thread interleave.
THEOREM NoGapIsSilent == SourceSpec => []NoSilentGap
<1>1. SourceInit => GapInv
  BY DEF SourceInit, GapInv, Accounted, Consecutive, ToldFrame
<1>2. GapInv => NoSilentGap
  BY DEF GapInv, Accounted, Consecutive, ToldFrame, LastTold, NoSilentGap
<1>3. QED
  BY <1>1, <1>2, GapStep, SourceTypeCorrect, PTL DEF SourceSpec

-----------------------------------------------------------------------------
(* When the threads and the accept loop stop.                              *)

\* A thread that runs has a clone of the server, so the count a caller adds to
\* is never one.
LEMMA RunningCounts ==
    /\ Cardinality(Running) \in Nat
    /\ \A t \in Running : Cardinality(Running) >= 1
<1>1. IsFiniteSet(Running)
  BY SourceAssumption, FS_Subset DEF Running
<1>2. Cardinality(Running) \in Nat /\ (Cardinality(Running) = 0 <=> Running = {})
  BY <1>1, FS_CardinalityType, FS_EmptySet
<1>3. QED
  BY <1>2

\* No step takes the server from a caller that holds a clone of it.
LEMMA HeldStep ==
    SourceTypeOK /\ HeldServerLives /\ [SourceNext]_qvars => HeldServerLives'
<1> SUFFICES ASSUME SourceTypeOK, HeldServerLives, [SourceNext]_qvars, handles' > 0
             PROVE  accepting' /\ \A t \in Sources : at'[t] = "ended" => broken'[t]
  BY DEF HeldServerLives
<1>1. handles \in Nat /\ Cardinality(Running) \in Nat
  BY RunningCounts, SourceAssumption DEF SourceTypeOK
<1>2. CASE Write \/ Clone \/ UNCHANGED qvars
  BY <1>1, <1>2, SourceAssumption DEF Write, Clone, qvars, HeldServerLives
<1>3. CASE Drop
  <2>1. handles > 1 /\ StrongCount > 1
    BY <1>1, <1>3 DEF Drop, StrongCount
  <2>2. QED
    BY <1>1, <1>3, <2>1 DEF Drop, HeldServerLives
<1>4. ASSUME NEW t \in Sources, Consume(t) \/ SourceStep(t) \/ Break(t)
      PROVE  accepting' /\ \A u \in Sources : at'[u] = "ended" => broken'[u]
  <2>1. handles' = handles
    BY <1>4 DEF Consume, SourceStep, Break, Loop, ReadNothing, ReadFrame, PublishFrame,
                Grow, ReadOverrun, SkipAhead, TellResync
  <2>2. accepting /\ \A u \in Sources : at[u] = "ended" => broken[u]
    BY <2>1 DEF HeldServerLives
  <2>3. ASSUME at[t] \notin {"new", "ended"} PROVE StrongCount > 1
    <3>1. Cardinality(Running) >= 1
      BY <2>3, RunningCounts DEF Running
    <3>2. QED
      BY <1>1, <2>1, <3>1 DEF StrongCount
  <2>4. CASE Loop(t)
    BY <2>2, <2>3, <2>4 DEF Loop, Goto, SourceTypeOK
  <2>5. CASE Break(t)
    BY <2>2, <2>3, <2>5 DEF Break, Exit, Goto, SourceTypeOK
  <2>6. CASE \/ Consume(t) \/ ReadNothing(t) \/ ReadFrame(t) \/ PublishFrame(t) \/ Grow(t)
             \/ ReadOverrun(t) \/ SkipAhead(t) \/ TellResync(t)
    <3>1. at'[t] # "ended" /\ UNCHANGED <<accepting, broken>>
      BY <2>6 DEF Consume, ReadNothing, ReadFrame, PublishFrame, Grow, ReadOverrun,
                  SkipAhead, TellResync, Goto, SourceTypeOK
    <3>2. \A u \in Sources \ {t} : at'[u] = at[u]
      BY <2>6 DEF Consume, ReadNothing, ReadFrame, PublishFrame, Grow, ReadOverrun,
                  SkipAhead, TellResync, Goto, SourceTypeOK
    <3>3. QED
      BY <2>2, <3>1, <3>2
  <2>7. QED
    BY <1>4, <2>4, <2>5, <2>6 DEF SourceStep
<1>5. QED
  BY <1>2, <1>3, <1>4 DEF SourceNext

\* While a caller holds a clone, neither the accept loop nor a source thread
\* stops other than on an error, with any number of threads and clones.
THEOREM HeldServerAlwaysLives == SourceSpec => []HeldServerLives
<1>1. SourceInit => HeldServerLives
  BY DEF SourceInit, HeldServerLives
<1>2. QED
  BY <1>1, HeldStep, SourceTypeCorrect, PTL DEF SourceSpec

=============================================================================
