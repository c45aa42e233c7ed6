---------------------------- MODULE SubscribeLoop ----------------------------
(***************************************************************************)
(* The loops of Registry::subscribe and Registry::unsubscribe as the       *)
(* source writes them, one list entry per step, compared with the closed   *)
(* forms of Subscriptions.tla that the other modules use.  The write lock  *)
(* is held throughout, so nothing else moves.                              *)
(***************************************************************************)
EXTENDS Subscriptions, SequencesExt

CONSTANTS
    Channels,
    MaxList      \* bound: longest request

ASSUME MaxListAssumption == MaxList \in Nat

VARIABLES
    op,          \* which loop
    before,      \* conn.subscriptions when the lock was taken
    chs,         \* the requested channels
    i,           \* entries consumed
    subs,        \* conn.subscriptions
    done,        \* `added` or `removed`
    over         \* `over_limit`

loopvars == <<op, before, chs, i, subs, done, over>>

Init ==
    /\ op \in {"subscribe", "unsubscribe"}
    /\ before \in {s \in SUBSET Channels :
                        IsFiniteSet(s) /\ Cardinality(s) <= MaxSubscriptions}
    /\ chs \in UNION {[1..n -> Channels] : n \in 0..MaxList}
    /\ i = 0
    /\ subs = before
    /\ done = <<>> /\ over = <<>>

ch == chs[i + 1]

\* Mutant: the limit is looked at before the channels already held.
SubscribeEntryLimitFirst ==
    /\ op = "subscribe"
    /\ \/ /\ Cardinality(subs) >= MaxSubscriptions
          /\ over' = Append(over, ch)
          /\ UNCHANGED <<subs, done>>
       \/ /\ Cardinality(subs) < MaxSubscriptions
          /\ subs' = subs \cup {ch}
          /\ done' = IF ch \in subs THEN done ELSE Append(done, ch)
          /\ UNCHANGED over

\* Mutant: the size of the set is read once, before the loop.
SubscribeEntryStaleSize ==
    /\ op = "subscribe"
    /\ \/ ch \in subs /\ UNCHANGED <<subs, done, over>>
       \/ /\ ch \notin subs /\ Cardinality(before) >= MaxSubscriptions
          /\ over' = Append(over, ch)
          /\ UNCHANGED <<subs, done>>
       \/ /\ ch \notin subs /\ Cardinality(before) < MaxSubscriptions
          /\ subs' = subs \cup {ch}
          /\ done' = Append(done, ch)
          /\ UNCHANGED over

SubscribeEntry ==
    /\ op = "subscribe"
    /\ \/ ch \in subs /\ UNCHANGED <<subs, done, over>>
       \/ /\ ch \notin subs /\ Cardinality(subs) >= MaxSubscriptions
          /\ over' = Append(over, ch)
          /\ UNCHANGED <<subs, done>>
       \/ /\ ch \notin subs /\ Cardinality(subs) < MaxSubscriptions
          /\ subs' = subs \cup {ch}
          /\ done' = Append(done, ch)
          /\ UNCHANGED over

UnsubscribeEntry ==
    /\ op = "unsubscribe"
    /\ \/ ch \notin subs /\ UNCHANGED <<subs, done>>
       \/ ch \in subs /\ subs' = subs \ {ch} /\ done' = Append(done, ch)
    /\ UNCHANGED over

Next ==
    /\ i < Len(chs)
    /\ i' = i + 1
    /\ SubscribeEntry \/ UnsubscribeEntry
    /\ UNCHANGED <<op, before, chs>>

Spec == Init /\ [][Next]_loopvars

-----------------------------------------------------------------------------
(***************************************************************************)
(* After every entry the loop has done what the closed form says of the    *)
(* entries so far, and no channel is reported added or removed twice,      *)
(* whatever the repetitions in the request and however full the set.       *)
(***************************************************************************)
LoopAgrees ==
    LET sofar == SubSeq(chs, 1, i)
    IN  /\ op = "subscribe" =>
                /\ ToSet(done) = Added(before, sofar)
                /\ ToSet(over) = OverLimit(before, sofar)
                /\ subs = before \cup Added(before, sofar)
        /\ op = "unsubscribe" =>
                /\ ToSet(done) = Removed(before, sofar)
                /\ subs = before \ Removed(before, sofar)
        /\ IsInjective(done)

\* The limit holds in the middle of a request too, and a channel is refused
\* for it only when the set is full, which a subscribe never undoes.
RefusedOnlyWhenFull ==
    /\ Cardinality(subs) <= MaxSubscriptions
    /\ over # <<>> => Cardinality(subs) = MaxSubscriptions

=============================================================================
