----------------------------- MODULE ExitWaits -----------------------------
(***************************************************************************)
(* Waiting for an actor to exit (child_handle.rs; wait_exit and join of    *)
(* ActorRef).  The completion of a task is a watch channel, which closes   *)
(* without a reason when the task is aborted with its runtime; that of a   *)
(* thread is a mutex and a condition variable, which a guard sets however  *)
(* the thread ends.  An async wait for a thread blocks a thread of the     *)
(* pool, and may give up on it.                                            *)
(***************************************************************************)
EXTENDS ActorLife, HashMaps

CONSTANTS
    Waits,      \* the calls made
    MaxSpurious \* bound: spurious wakeups of a call

VARIABLES
    exiting     \* the runtime of the actor waited for; whether its task was
                \* aborted; per call: step, whether it has a timeout, whether it
                \* is on a pool thread, what that thread found, the result,
                \* its spurious wakeups

Waited == CHOOSE a \in Actors : TRUE
NoCall == [step |-> "none", timed |-> FALSE, pooled |-> FALSE, found |-> "none",
           result |-> "none", spurious |-> 0]

WaitInit ==
    exiting \in {[runtime |-> rt, aborted |-> FALSE, calls |-> [w \in Waits |-> NoCall]] :
                    rt \in IF "waits" \in use THEN {"tasks", "threads"} ELSE {"tasks"}}

\* exit_reason(): of an aborted task there is none, ever.
Published == phase[Waited] = "dead" /\ ~exiting.aborted

Call(w, fields) == exiting' = [exiting EXCEPT !.calls[w] = Update(@, fields)]

Returned(result) == [step |-> "returned", result |-> result]

\* What a wait found goes to the caller, or to whoever awaits the pool thread.
Finish(w, result) ==
    Call(w, IF exiting.calls[w].pooled THEN [step |-> "pooled", found |-> result] ELSE Returned(result))

Begin(w, timed, pooled) ==
    /\ "waits" \in use /\ exiting.calls[w] = NoCall
    /\ IF timed /\ Published THEN Call(w, [step |-> "returned", result |-> "Exited", timed |-> TRUE])
       ELSE Call(w, [step |-> "check", timed |-> timed, pooled |-> pooled])
    /\ UNCHANGED lifeVars

\* wait_exit_async, wait_exit_async_with_timeout; ActorRef::wait_exit of a task.
WaitExitAsync(w) == Begin(w, FALSE, exiting.runtime = "threads")
WaitExitAsyncWithTimeout(w) == Begin(w, TRUE, exiting.runtime = "threads")

\* wait_exit_blocking: on a thread's condition variable ...
ThreadsWaitBlocking(w, timed) == exiting.runtime = "threads" /\ Begin(w, timed, FALSE)

\* ... or on a task's channel, unless that would block the only thread the task
\* can run on.
TasksWaitBlocking(w, timed) ==
    /\ exiting.runtime = "tasks"
    /\ \/ Begin(w, timed, FALSE)
       \/ /\ "waits" \in use /\ exiting.calls[w] = NoCall /\ ~Published
          /\ Call(w, Returned("panic"))
          /\ UNCHANGED lifeVars

\* The reason is looked at: under the lock, which wait gives up, or by
\* borrow_and_update.
Look(w) ==
    /\ exiting.calls[w].step = "check"
    /\ IF Published THEN Finish(w, "Exited") ELSE Call(w, [step |-> "asleep"])
    /\ UNCHANGED lifeVars

\* Mutant: a closed channel is looked at before its value.
ChangedClosedFirst(w) ==
    /\ exiting.runtime = "tasks" /\ exiting.calls[w].step = "asleep" /\ phase[Waited] = "dead"
    /\ Finish(w, "Kill")
    /\ UNCHANGED lifeVars

\* wait_loop: changed() returns for a value not seen yet, or fails on a channel
\* that closed without one.
Changed(w) ==
    /\ exiting.runtime = "tasks" /\ exiting.calls[w].step = "asleep" /\ phase[Waited] = "dead"
    /\ IF Published THEN Call(w, [step |-> "check"]) ELSE Finish(w, "Kill")
    /\ UNCHANGED lifeVars

\* The condition variable returns for nothing; a timeout starts anew.
SpuriousWakeup(w) ==
    /\ exiting.runtime = "threads" /\ exiting.calls[w].step = "asleep"
    /\ exiting.calls[w].spurious < MaxSpurious
    /\ Call(w, [step |-> "check", spurious |-> exiting.calls[w].spurious + 1])
    /\ UNCHANGED lifeVars

\* wait_timeout, timeout: given up without another look.
WaitTimeout(w) ==
    /\ exiting.calls[w].timed /\ exiting.calls[w].step = "asleep"
    /\ Finish(w, "None")
    /\ UNCHANGED lifeVars

\* The timeout around the pool thread, which goes on by itself.
PoolTimeout(w) ==
    LET c == exiting.calls[w]
    IN  /\ c.pooled /\ c.timed /\ c.step # "returned" /\ c.result = "none"
        /\ Call(w, [result |-> "None"])
        /\ UNCHANGED lifeVars

PoolReturns(w) ==
    LET c == exiting.calls[w]
    IN  /\ c.step = "pooled"
        /\ Call(w, Returned(IF c.result = "none" THEN c.found ELSE c.result))
        /\ UNCHANGED lifeVars

\* completion_tx.send, or CompletionGuard::drop, which sets the reason and wakes
\* every waiter under the lock.
CompletionGuard(a) ==
    /\ Complete(a)
    /\ exiting' = IF a # Waited \/ exiting.runtime = "tasks" THEN exiting
                  ELSE [exiting EXCEPT !.calls = [w \in Waits |->
                          IF @[w].step = "asleep" THEN [@[w] EXCEPT !.step = "check"] ELSE @[w]]]

\* The runtime of a task is shut down: its future is dropped where it is.
Abort ==
    /\ "waits" \in use /\ exiting.runtime = "tasks" /\ phase[Waited] # "dead"
    /\ phase' = [phase EXCEPT ![Waited] = "dead"]
    /\ queue' = [queue EXCEPT ![Waited] = <<>>]
    /\ handling' = [handling EXCEPT ![Waited] = Idle]
    /\ exiting' = [exiting EXCEPT !.aborted = TRUE]
    /\ UNCHANGED cancelled

WaitStep(w) == Look(w) \/ Changed(w) \/ WaitTimeout(w) \/ PoolTimeout(w) \/ PoolReturns(w)

WaitNext ==
    \/ \E w \in Waits :
         \/ WaitExitAsync(w) \/ WaitExitAsyncWithTimeout(w)
         \/ \E timed \in BOOLEAN : ThreadsWaitBlocking(w, timed) \/ TasksWaitBlocking(w, timed)
         \/ WaitStep(w) \/ SpuriousWakeup(w)
    \/ Abort

-----------------------------------------------------------------------------
(* Properties.                                                             *)

\* A wait that returns a reason returns the one published, and one that falls
\* back to Kill waited for a task that was aborted: no ordering of the send, the
\* end of the sender and the wait makes up a Kill.
WaitTruthful ==
    \A w \in Waits :
        /\ exiting.calls[w].result = "Exited" => Published
        /\ exiting.calls[w].result = "Kill" => exiting.aborted

=============================================================================
