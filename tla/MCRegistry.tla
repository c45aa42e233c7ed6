----------------------------- MODULE MCRegistry -----------------------------
(***************************************************************************)
(* Registry on small instances.  MaxFrames bounds the model: no new call   *)
(* starts once that many deliveries were counted.  A call already under    *)
(* way is never cut short.                                                 *)
(***************************************************************************)
EXTENDS RegistryFanout, TLC

CONSTANT MaxFrames

Starts == \E t \in Threads : call[t] = Idle /\ call'[t] # Idle

MCNext == Next /\ (Starts => metrics.sent + metrics.dropped < MaxFrames)

MCSpec == Init /\ [][MCNext]_vars

\* Every list of at most two channels, repetitions included.
MCRequests == UNION {[1..n -> Channels] : n \in 1..2}

Symmetry == Permutations(Conns) \cup Permutations(Publishers) \cup Permutations(Channels)

=============================================================================
