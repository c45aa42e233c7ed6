---------------------------- MODULE Subscriptions ----------------------------
(***************************************************************************)
(* What Registry::subscribe and Registry::unsubscribe (src/registry.rs)    *)
(* compute from the set of channels a connection holds and the list of     *)
(* channels a client sent, in closed form.  SubscribeLoop.tla holds the    *)
(* loop of the source and compares the two.                                *)
(*                                                                         *)
(* A result the code returns as a Vec is a set here: no property depends   *)
(* on the order or the repetitions inside an acknowledgement.              *)
(***************************************************************************)
EXTENDS Integers, Sequences, FiniteSets

CONSTANT MaxSubscriptions   \* Config::max_subscriptions

\* Config::validate refuses zero.
ASSUME MaxSubscriptionsAssumption == MaxSubscriptions \in Nat \ {0}

\* The channels of the first n entries of the list chs.
Prefix(chs, n) == {chs[i] : i \in 1..n}

Listed(chs) == Prefix(chs, Len(chs))

\* Mutant: one channel more than the limit allows.
AddedOneMore(subs, chs) ==
    LET fits == {i \in 1..Len(chs) :
                    Cardinality(subs \cup Prefix(chs, i)) <= MaxSubscriptions + 1}
    IN  {chs[i] : i \in fits} \ subs

(***************************************************************************)
(* The channels newly added to subs: those of the entries up to which subs *)
(* and the list together stay within the limit.  Once an entry does not    *)
(* fit, the set is full, and only entries already held pass.               *)
(***************************************************************************)
Added(subs, chs) ==
    LET fits == {i \in 1..Len(chs) :
                    Cardinality(subs \cup Prefix(chs, i)) <= MaxSubscriptions}
    IN  {chs[i] : i \in fits} \ subs

\* The channels refused for the limit.
OverLimit(subs, chs) == Listed(chs) \ (subs \cup Added(subs, chs))

\* The channels Registry::unsubscribe takes away.
Removed(subs, chs) == Listed(chs) \cap subs

=============================================================================
