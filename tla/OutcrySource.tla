---------------------------- MODULE OutcrySource ----------------------------
(***************************************************************************)
(* src/outcry_source.rs: threads that drain a shared-memory queue into the *)
(* server, and the clones of Server (src/lib.rs) that decide when those    *)
(* threads and the accept loop stop.                                       *)
(*                                                                         *)
(* The queue is the outcry crate's, modelled from how the thread uses it:  *)
(* a ring of the newest RingSize frames, read by every consumer at its own *)
(* pace.  A frame is its number in the order of writing.  server.publish   *)
(* and server.resync_all are Server's actions; here they append to what    *)
(* the thread told the clients.                                            *)
(***************************************************************************)
EXTENDS Integers, Sequences, FiniteSets

CONSTANTS
    Sources,       \* source threads
    RingSize,      \* frames the queue holds
    Undecodable,   \* frames for which decode returns None
    Big,           \* frames larger than the first buffer
    MaxWrites,     \* bound: frames ever written
    MaxClones      \* bound: clones of Server the callers hold

ASSUME SourceAssumption ==
    /\ IsFiniteSet(Sources)
    /\ RingSize \in Nat \ {0}
    /\ MaxWrites \in Nat /\ MaxClones \in Nat \ {0}
    /\ Undecodable \subseteq 1..MaxWrites /\ Big \subseteq 1..MaxWrites

VARIABLES
    handles,     \* clones of Server held by callers
    accepting,   \* Accepting was not dropped
    head,        \* frames written to the queue
    at,          \* where each thread is, see Points
    tail,        \* frames its consumer has gone past
    grown,       \* buf was resized
    broken,      \* the thread stopped on a queue error or a panic of decode
    told         \* what it told the clients: frames, and Resync

qvars == <<handles, accepting, head, at, tail, grown, broken, told>>

\* No frame has number 0.
Resync == 0

Points == {"new", "loop", "read", "publish", "overrun", "tell", "ended"}

Running == {t \in Sources : at[t] \notin {"new", "ended"}}

\* alive.strong_count(): every clone of Server holds one, the threads' included.
StrongCount == handles + Cardinality(Running)

\* The oldest position a consumer can still read from.
Oldest == IF head > RingSize THEN head - RingSize ELSE 0

Goto(t, to) == at' = [at EXCEPT ![t] = to]

SourceInit ==
    /\ handles = 1 /\ accepting = TRUE /\ head = 0
    /\ at = [t \in Sources |-> "new"]
    /\ tail = [t \in Sources |-> 0]
    /\ grown = [t \in Sources |-> FALSE]
    /\ broken = [t \in Sources |-> FALSE]
    /\ told = [t \in Sources |-> <<>>]

-----------------------------------------------------------------------------
(* The callers and the producer.                                           *)

Write ==
    /\ head < MaxWrites /\ head' = head + 1
    /\ UNCHANGED <<handles, accepting, at, tail, grown, broken, told>>

Clone ==
    /\ handles \in 1..(MaxClones - 1) /\ handles' = handles + 1
    /\ UNCHANGED <<accepting, head, at, tail, grown, broken, told>>

\* Dropping the last clone drops Accepting, which aborts the accept loop.
Drop ==
    /\ handles > 0 /\ handles' = handles - 1
    /\ accepting' = (accepting /\ StrongCount > 1)
    /\ UNCHANGED <<head, at, tail, grown, broken, told>>

\* consume_outcry: the thread starts with a clone of its own.
Consume(t) ==
    /\ at[t] = "new" /\ handles > 0
    /\ Goto(t, "loop")
    /\ \E n \in Oldest..head : tail' = [tail EXCEPT ![t] = n]
    /\ UNCHANGED <<handles, accepting, head, grown, broken, told>>

-----------------------------------------------------------------------------
(* The thread.                                                             *)

\* It returns or unwinds, and its clone of Server is dropped with it.
Exit(t) == Goto(t, "ended") /\ accepting' = (accepting /\ StrongCount > 1)

\* Mutant: the thread does not count its own clone.
LoopForgetsOwn(t) ==
    /\ at[t] = "loop"
    /\ IF StrongCount > 0 THEN Goto(t, "read") /\ UNCHANGED accepting ELSE Exit(t)
    /\ UNCHANGED <<handles, head, tail, grown, broken, told>>

\* Mutant: it counts its own clone twice.
LoopCountsTwice(t) ==
    /\ at[t] = "loop"
    /\ IF StrongCount > 2 THEN Goto(t, "read") /\ UNCHANGED accepting ELSE Exit(t)
    /\ UNCHANGED <<handles, head, tail, grown, broken, told>>

\* The loop's condition.
Loop(t) ==
    /\ at[t] = "loop"
    /\ IF StrongCount > 1 THEN Goto(t, "read") /\ UNCHANGED accepting ELSE Exit(t)
    /\ UNCHANGED <<handles, head, tail, grown, broken, told>>

Behind(t) == head - tail[t] > RingSize
Empty(t)  == tail[t] = head
TooBig(t) == tail[t] + 1 \in Big /\ ~grown[t]

ReadNothing(t) ==
    /\ at[t] = "read" /\ Empty(t)
    /\ Goto(t, "loop")
    /\ UNCHANGED <<handles, accepting, head, tail, grown, broken, told>>

\* Mutant: None is taken for a frame.
ReadFrameOfNone(t) ==
    /\ at[t] = "read" /\ ~Behind(t) /\ ~TooBig(t)
    /\ tail' = [tail EXCEPT ![t] = @ + 1]
    /\ Goto(t, IF tail[t] + 1 \in Undecodable THEN "loop" ELSE "publish")
    /\ UNCHANGED <<handles, accepting, head, grown, broken, told>>

\* A frame is read and decoded; one the decoder rejects is only counted.
ReadFrame(t) ==
    /\ at[t] = "read" /\ ~Behind(t) /\ ~Empty(t) /\ ~TooBig(t)
    /\ tail' = [tail EXCEPT ![t] = @ + 1]
    /\ Goto(t, IF tail[t] + 1 \in Undecodable THEN "loop" ELSE "publish")
    /\ UNCHANGED <<handles, accepting, head, grown, broken, told>>

PublishFrame(t) ==
    /\ at[t] = "publish" /\ Goto(t, "loop")
    /\ told' = [told EXCEPT ![t] = Append(@, tail[t])]
    /\ UNCHANGED <<handles, accepting, head, tail, grown, broken>>

\* BufferTooSmall: the buffer is resized and the frame read again.
Grow(t) ==
    /\ at[t] = "read" /\ ~Behind(t) /\ ~Empty(t) /\ TooBig(t)
    /\ grown' = [grown EXCEPT ![t] = TRUE]
    /\ Goto(t, "loop")
    /\ UNCHANGED <<handles, accepting, head, tail, broken, told>>

\* Overrun: frames the consumer had not read are gone.
ReadOverrun(t) ==
    /\ at[t] = "read" /\ Behind(t)
    /\ Goto(t, "overrun")
    /\ UNCHANGED <<handles, accepting, head, tail, grown, broken, told>>

\* Mutant: the consumer is resynced and the clients are not told.
SkipAheadUntold(t) ==
    /\ at[t] = "overrun" /\ Goto(t, "loop")
    /\ \E n \in Oldest..head : tail' = [tail EXCEPT ![t] = n]
    /\ UNCHANGED <<handles, accepting, head, grown, broken, told>>

\* consumer.resync(): go on from somewhere that is still in the queue ...
SkipAhead(t) ==
    /\ at[t] = "overrun" /\ Goto(t, "tell")
    /\ \E n \in Oldest..head : tail' = [tail EXCEPT ![t] = n]
    /\ UNCHANGED <<handles, accepting, head, grown, broken, told>>

\* ... and server.resync_all().
TellResync(t) ==
    /\ at[t] = "tell" /\ Goto(t, "loop")
    /\ told' = [told EXCEPT ![t] = Append(@, Resync)]
    /\ UNCHANGED <<handles, accepting, head, tail, grown, broken>>

\* try_read fails for good, or decode panics: the thread stops.
Break(t) ==
    /\ at[t] = "read"
    /\ Exit(t)
    /\ broken' = [broken EXCEPT ![t] = TRUE]
    /\ UNCHANGED <<handles, head, tail, grown, told>>

SourceStep(t) ==
    \/ Loop(t) \/ ReadNothing(t) \/ ReadFrame(t) \/ PublishFrame(t) \/ Grow(t)
    \/ ReadOverrun(t) \/ SkipAhead(t) \/ TellResync(t)

SourceNext ==
    \/ Write \/ Clone \/ Drop
    \/ \E t \in Sources : Consume(t) \/ SourceStep(t) \/ Break(t)

\* A thread keeps running: none of its steps waits for anything.
SourceSpec ==
    SourceInit /\ [][SourceNext]_qvars /\ \A t \in Sources : WF_qvars(SourceStep(t))

-----------------------------------------------------------------------------
SourceTypeOK ==
    /\ handles \in 0..MaxClones
    /\ accepting \in BOOLEAN
    /\ head \in 0..MaxWrites
    /\ at \in [Sources -> Points]
    /\ tail \in [Sources -> 0..head]
    /\ grown \in [Sources -> BOOLEAN]
    /\ broken \in [Sources -> BOOLEAN]
    /\ told \in [Sources -> Seq(0..MaxWrites)]

\* Every frame from a up to b, b excluded, is one the decoder rejects.
OnlyRejected(a, b) == \A n \in (a + 1)..(b - 1) : n \in Undecodable

(***************************************************************************)
(* "If the consumer is overrun ... the server tells every client to        *)
(* discard what it holds": the frames a thread publishes are in order, and *)
(* between two of them nothing is missing unless a resync came between     *)
(* them.  At the top of the loop that holds up to the frame read last: no  *)
(* loss is still to be told.                                               *)
(***************************************************************************)
NoSilentGap ==
    \A t \in Sources :
        LET s == told[t]
        IN  /\ \A i \in 1..(Len(s) - 1) :
                    (s[i] # Resync /\ s[i + 1] # Resync)
                        => s[i] < s[i + 1] /\ OnlyRejected(s[i], s[i + 1])
            /\ (at[t] = "loop" /\ s # <<>> /\ s[Len(s)] # Resync)
                        => OnlyRejected(s[Len(s)], tail[t] + 1)

(***************************************************************************)
(* While a caller holds a clone of the server, the accept loop is not      *)
(* aborted and no source thread ends, other than on an error: the count    *)
(* that includes the threads' own clones is never mistaken for none left.  *)
(***************************************************************************)
HeldServerLives ==
    handles > 0 => accepting /\ \A t \in Sources : at[t] = "ended" => broken[t]

\* All threads have ended and the accept loop was aborted.
Stopped == Running = {} /\ ~accepting

(***************************************************************************)
(* "The thread ends when the server is dropped", and with it the accept    *)
(* loop: so it is when no more than one thread is left.                    *)
(***************************************************************************)
DropStops == (handles = 0 /\ Cardinality(Running) <= 1) ~> Stopped

-----------------------------------------------------------------------------
(* What the documentation says and the code does not do.                   *)

(***************************************************************************)
(* lib.rs, Server: "Clone it to publish from anywhere; drop every clone to *)
(* stop"; consume_outcry: "The thread ends when the server is dropped".    *)
(* Once the callers hold no clone, everything stops.                       *)
(***************************************************************************)
AllSourcesStop == handles = 0 ~> Stopped

=============================================================================
