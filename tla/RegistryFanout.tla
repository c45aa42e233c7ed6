--------------------------- MODULE RegistryFanout ---------------------------
(***************************************************************************)
(* The registry implements Fanout.  The mapping forgets the index, the     *)
(* streaks, the counters and where a delivery stands between its two       *)
(* halves; a call owes its frame to the recipients it has not visited.     *)
(***************************************************************************)
EXTENDS Registry

StatusOf(c) ==
    CASE phase[c] \in {"unused", "gone"}   -> "out"
      [] phase[c] \in {"inserted", "open"} -> "in"
      [] phase[c] = "closed"               -> "deaf"

OwedBy(t) == IF call[t] = Idle THEN {} ELSE call[t].todo \X {call[t].frame}

Abstract ==
    INSTANCE Fanout WITH
        status <- [c \in Conns |-> StatusOf(c)],
        subs   <- subscriptions,
        inbox  <- queue,
        owed   <- [t \in Threads |-> OwedBy(t)]

(***************************************************************************)
(* publish looks its subscribers up in the index and holds the read lock   *)
(* over a loop of try_sends; to publishers and clients that is a fan-out   *)
(* to exactly the connections that hold the channel, each delivery made    *)
(* once or lost to a full or closed queue.                                 *)
(***************************************************************************)
ImplementsFanout == Abstract!Spec

=============================================================================
