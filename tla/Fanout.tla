------------------------------- MODULE Fanout -------------------------------
(***************************************************************************)
(* What src/registry.rs promises, without its lock, its channel index, its *)
(* counters and the steps inside a delivery.  A publication is owed to     *)
(* exactly the members that hold its channel when it is made; each of them *)
(* gets it once, or loses it because its inbox is full or its task has     *)
(* ended, and nobody's subscriptions move while something is owed to it.   *)
(***************************************************************************)
EXTENDS Integers, Sequences, FiniteSets

CONSTANTS Conns, Threads, Channels, Frames, SendQueue, MaxSubscriptions

VARIABLES
    status,   \* "out", "in", or "deaf": still a member, its task has ended
    subs,     \* the channels each member holds
    inbox,    \* the frames queued for it
    owed      \* per thread, the deliveries still to be made: <<member, frame>>

fvars == <<status, subs, inbox, owed>>

members == {c \in Conns : status[c] # "out"}

Unowed(c) == \A t \in Threads, f \in Frames : <<c, f>> \notin owed[t]

Init ==
    /\ status = [c \in Conns |-> "out"]
    /\ subs = [c \in Conns |-> {}]
    /\ inbox = [c \in Conns |-> <<>>]
    /\ owed = [t \in Threads |-> {}]

Join(c) ==
    /\ status[c] = "out"
    /\ status' = [status EXCEPT ![c] = "in"]
    /\ UNCHANGED <<subs, inbox, owed>>

\* The task of c ends; what was queued is lost.
End(c) ==
    /\ status[c] = "in"
    /\ status' = [status EXCEPT ![c] = "deaf"]
    /\ inbox' = [inbox EXCEPT ![c] = <<>>]
    /\ UNCHANGED <<subs, owed>>

Leave(c) ==
    /\ status[c] = "deaf" /\ Unowed(c)
    /\ status' = [status EXCEPT ![c] = "out"]
    /\ subs' = [subs EXCEPT ![c] = {}]
    /\ UNCHANGED <<inbox, owed>>

\* A subscribe or an unsubscribe: c now holds the channels S.
Change(c, S) ==
    /\ status[c] = "in" /\ Unowed(c)
    /\ Cardinality(S) <= MaxSubscriptions
    /\ subs' = [subs EXCEPT ![c] = S]
    /\ UNCHANGED <<status, inbox, owed>>

Owe(t, f, recipients) ==
    /\ owed[t] = {}
    /\ owed' = [owed EXCEPT ![t] = recipients \X {f}]
    /\ UNCHANGED <<status, subs, inbox>>

Publish(t, ch, f) == Owe(t, f, {c \in members : ch \in subs[c]})

Broadcast(t, f) == Owe(t, f, members)

Reply(c, f) == status[c] = "in" /\ Owe(c, f, {c})

Settle(t, c, f) == <<c, f>> \in owed[t] /\ owed' = [owed EXCEPT ![t] = @ \ {<<c, f>>}]

Deliver(t, c, f) ==
    /\ Settle(t, c, f)
    /\ status[c] = "in" /\ Len(inbox[c]) < SendQueue
    /\ inbox' = [inbox EXCEPT ![c] = Append(@, f)]
    /\ UNCHANGED <<status, subs>>

Lose(t, c, f) ==
    /\ Settle(t, c, f)
    /\ status[c] = "deaf" \/ Len(inbox[c]) >= SendQueue
    /\ UNCHANGED <<status, subs, inbox>>

Take(c) ==
    /\ status[c] = "in" /\ inbox[c] # <<>>
    /\ inbox' = [inbox EXCEPT ![c] = Tail(@)]
    /\ UNCHANGED <<status, subs, owed>>

Next ==
    \/ \E c \in Conns : Join(c) \/ End(c) \/ Leave(c) \/ Take(c)
    \/ \E c \in Conns, S \in SUBSET Channels : Change(c, S)
    \/ \E t \in Threads, f \in Frames :
            \/ Broadcast(t, f)
            \/ \E ch \in Channels : Publish(t, ch, f)
            \/ \E c \in Conns : Deliver(t, c, f) \/ Lose(t, c, f)
    \/ \E c \in Conns, f \in Frames : Reply(c, f)

Spec == Init /\ [][Next]_fvars

=============================================================================
