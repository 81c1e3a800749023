----------------------------- MODULE ActorLife -----------------------------
(***************************************************************************)
(* The life of an actor as the services around it see it: its token, its   *)
(* user messages, the handler it is in, and the order in which it ends     *)
(* (run_actor returns and drops the receiver, pg::remove_actor, the        *)
(* completion is published).  ActorLinks has the exit reasons and signals. *)
(***************************************************************************)
EXTENDS Naturals, Sequences

CONSTANTS
    Actors,
    Idle        \* not in a handler

VARIABLES
    use,        \* the services used in this behaviour, never changed
    phase,      \* "up", "leaving", "dropped", "removed", "dead"
    cancelled,  \* the cancellation token
    queue,      \* the user messages
    handling    \* the message whose handler runs, or Idle

lifeVars == <<phase, cancelled, queue, handling>>

LifeInit ==
    /\ phase = [a \in Actors |-> "up"]
    /\ cancelled = [a \in Actors |-> FALSE]
    /\ queue = [a \in Actors |-> <<>>]
    /\ handling = [a \in Actors |-> Idle]

\* A send succeeds as long as the receiver exists.
CanSend(a) == phase[a] \in {"up", "leaving"}
Push(a, m) == queue' = [queue EXCEPT ![a] = Append(@, m)]

\* Context::send, whose error is dropped.
SendOrDrop(a, m) == IF CanSend(a) THEN Push(a, m) ELSE UNCHANGED queue

\* stop(), or any other cancellation.
Stop(a) ==
    /\ ~cancelled[a]
    /\ cancelled' = [cancelled EXCEPT ![a] = TRUE]
    /\ UNCHANGED <<phase, queue, handling>>

\* recv() returns a message: the stop item of a cancelled actor may come later.
Receive(a) ==
    /\ phase[a] = "up" /\ handling[a] = Idle /\ queue[a] # <<>>
    /\ handling' = [handling EXCEPT ![a] = Head(queue[a])]
    /\ queue' = [queue EXCEPT ![a] = Tail(@)]
    /\ UNCHANGED <<phase, cancelled>>

\* The handler returns and the loop looks at the token; or it panics.
HandlerEnds(a, panics) ==
    /\ handling[a] # Idle
    /\ handling' = [handling EXCEPT ![a] = Idle]
    /\ cancelled' = [cancelled EXCEPT ![a] = @ \/ panics]
    /\ phase' = [phase EXCEPT ![a] = IF cancelled'[a] THEN "leaving" ELSE @]
    /\ UNCHANGED queue

\* The stop item.
Leave(a) ==
    /\ phase[a] = "up" /\ handling[a] = Idle /\ cancelled[a]
    /\ phase' = [phase EXCEPT ![a] = "leaving"]
    /\ UNCHANGED <<cancelled, queue, handling>>

\* stopped() has returned; run_actor returns and its receiver is dropped.
DropReceiver(a) ==
    /\ phase[a] = "leaving"
    /\ phase' = [phase EXCEPT ![a] = "dropped"]
    /\ queue' = [queue EXCEPT ![a] = <<>>]
    /\ UNCHANGED <<cancelled, handling>>

RemoveFromGroups(a) ==
    /\ phase[a] = "dropped"
    /\ phase' = [phase EXCEPT ![a] = "removed"]
    /\ UNCHANGED <<cancelled, queue, handling>>

\* completion_tx.send, CompletionGuard.
Complete(a) ==
    /\ phase[a] = "removed"
    /\ phase' = [phase EXCEPT ![a] = "dead"]
    /\ UNCHANGED <<cancelled, queue, handling>>
=============================================================================
