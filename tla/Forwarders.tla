----------------------------- MODULE Forwarders -----------------------------
(***************************************************************************)
(* What sends to an actor on its own: send_after and send_interval         *)
(* (tasks/time.rs, threads/time.rs), spawn_listener (tasks/stream.rs,      *)
(* threads/stream.rs) and send_message_on (actor.rs).  Each is a task or a *)
(* thread that ends with the actor's token.  The task of a timer polls the *)
(* tokens before the clock; the thread waits on a channel the tokens       *)
(* write to and looks at them once more.                                   *)
(***************************************************************************)
EXTENDS ActorLife

CONSTANTS
    Timers,     \* the forwarders, started in Init
    MaxQueue    \* bound: messages queued for an actor

VARIABLES
    fwd         \* per forwarder: kind, runtime, actor, step, its own token

TickMsg(f) == <<"tick", f>>

ForwarderInit ==
    fwd \in [Timers ->
        {[kind |-> k, runtime |-> rt, to |-> a, step |-> "waiting", cancelled |-> FALSE] :
            k \in IF "timers" \in use THEN {"after", "interval", "stream", "on"} ELSE {"after"},
            rt \in IF "timers" \in use THEN {"tasks", "threads"} ELSE {"tasks"},
            a \in IF "timers" \in use THEN Actors ELSE {CHOOSE a \in Actors : TRUE}}]

\* The tokens that end it: TimerHandle has one of its own.
Ended(f) == cancelled[fwd[f].to] \/ fwd[f].cancelled

Step(f, s) == fwd' = [fwd EXCEPT ![f].step = s] /\ UNCHANGED lifeVars

\* TimerHandle.cancellation_token.cancel()
CancelTimer(f) ==
    /\ "timers" \in use /\ fwd[f].kind \in {"after", "interval"} /\ ~fwd[f].cancelled
    /\ fwd' = [fwd EXCEPT ![f].cancelled = TRUE]
    /\ UNCHANGED lifeVars

\* Mutant: the clock is polled first.
TasksTimerUnchecked(f) ==
    /\ fwd[f].runtime = "tasks" /\ fwd[f].kind \in {"after", "interval"} /\ fwd[f].step = "waiting"
    /\ Step(f, "send")

\* Tasks: select polls the tokens, then the sleep, which is over.
TasksTimer(f) ==
    /\ fwd[f].runtime = "tasks" /\ fwd[f].kind \in {"after", "interval"} /\ fwd[f].step = "waiting"
    /\ Step(f, IF Ended(f) THEN "done" ELSE "send")

\* Tasks: send_message_on polls the actor's token, then the future.
TasksMessageOn(f) ==
    /\ fwd[f].runtime = "tasks" /\ fwd[f].kind = "on" /\ fwd[f].step = "waiting"
    /\ Step(f, IF Ended(f) THEN "done" ELSE "send")

\* Tasks: the stream of a listener is polled until it has no item ready, and
\* the token only before.
TasksListener(f) ==
    /\ fwd[f].runtime = "tasks" /\ fwd[f].kind = "stream" /\ fwd[f].step \in {"waiting", "more"}
    /\ \/ Step(f, IF fwd[f].step = "waiting" /\ Ended(f) THEN "done" ELSE "send")
       \/ Step(f, "done")                                   \* the stream ends
       \/ fwd[f].step = "more" /\ Step(f, "waiting")        \* no item ready

\* Threads: recv_timeout on the wake channel, which a cancelled token writes to.
ThreadsTimer(f) ==
    /\ fwd[f].runtime = "threads" /\ fwd[f].kind \in {"after", "interval"} /\ fwd[f].step = "waiting"
    /\ Step(f, "check") \/ (Ended(f) /\ Step(f, "done"))

\* Threads: send_message_on runs its function to the end and then looks.
ThreadsMessageOn(f) ==
    /\ fwd[f].runtime = "threads" /\ fwd[f].kind = "on" /\ fwd[f].step = "waiting"
    /\ Step(f, "check")

\* Threads: is_cancelled of both tokens, when the time is over.
ThreadsCheck(f) ==
    /\ fwd[f].runtime = "threads" /\ fwd[f].step = "check"
    /\ Step(f, IF Ended(f) THEN "done" ELSE IF fwd[f].kind = "stream" THEN "waiting" ELSE "send")

\* Threads: a listener sends every item it gets, and looks at the token after.
ThreadsListener(f) ==
    /\ fwd[f].runtime = "threads" /\ fwd[f].kind = "stream" /\ fwd[f].step = "waiting"
    /\ Step(f, "send") \/ Step(f, "done")

\* ctx.send; then an interval goes on and a listener too if the send succeeded.
Forward(f) ==
    LET w == fwd[f]
        next == IF w.kind = "interval" THEN "waiting"
                ELSE IF w.kind = "stream" /\ CanSend(w.to)
                  THEN (IF w.runtime = "tasks" THEN "more" ELSE "check")
                ELSE "done"
    IN  /\ w.step = "send" /\ Len(queue[w.to]) < MaxQueue
        /\ SendOrDrop(w.to, TickMsg(f))
        /\ fwd' = [fwd EXCEPT ![f] = [@ EXCEPT !.step = next]]
        /\ UNCHANGED <<phase, cancelled, handling>>

ForwarderStep(f) ==
    /\ "timers" \in use
    /\ TasksTimer(f) \/ TasksMessageOn(f) \/ TasksListener(f) \/ ThreadsTimer(f)
         \/ ThreadsMessageOn(f) \/ ThreadsCheck(f) \/ ThreadsListener(f) \/ Forward(f)

ForwarderNext == \E f \in Timers : CancelTimer(f) \/ ForwarderStep(f)

-----------------------------------------------------------------------------
(* Properties.                                                             *)

\* The task or thread of a forwarder ends when its timer or its actor does.
ForwardersEnd == \A f \in Timers : "timers" \in use /\ Ended(f) ~> fwd[f].step = "done"
=============================================================================
