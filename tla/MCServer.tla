------------------------------ MODULE MCServer ------------------------------
(***************************************************************************)
(* Server on small instances.  MaxFrames bounds the model: once that many  *)
(* deliveries were counted, no client message is handled and no publisher  *)
(* begins anything; what has begun runs to its end.                        *)
(***************************************************************************)
EXTENDS Server, TLC

CONSTANTS
    MaxFrames,
    MaxList,     \* longest channel list in a request
    Forbidden    \* channels the authorizer refuses everyone

Begins ==
    \/ \E c \in Conns : pc[c] = "select" /\ pc'[c] \in {"locking", "replying"}
    \/ \E p \in Publishers : Free(p) /\ ~Free(p)'

MCNext == ServerNext /\ (Begins => metrics.sent + metrics.dropped < MaxFrames)

MCSpec == ServerInit /\ [][MCNext]_allvars

MCFairSpec == MCSpec /\ Fairness

MCRequests == UNION {[1..n -> Channels] : n \in 0..MaxList}

MCMayRead == [c \in Conns |-> Channels \ Forbidden]

MCFrames == ServerFrames

\* Sound where every channel is treated alike (none forbidden, none oversized).
ChannelSymmetry == Permutations(Channels)

\* Sound because all connections have the same claims.
ConnSymmetry == Permutations(Conns)

=============================================================================
