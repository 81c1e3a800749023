--------------------------- MODULE MailboxLimits ---------------------------
(***************************************************************************)
(* The user channel of an actor mailbox and its backpressure               *)
(* (concurrency/src/mailbox.rs, MailboxLimits): any number of senders, one *)
(* receiving actor, an atomic depth counter, and the waiters of Block      *)
(* mode.  Every atomic access is a step of its own.                        *)
(*                                                                         *)
(* Messages are counted, not named: no property below tells two messages   *)
(* apart.  capacity = 0 stands for the code's None; a bounded capacity of  *)
(* 0 is refused by the constructors.                                       *)
(***************************************************************************)
EXTENDS Integers, FiniteSets

CONSTANTS
    Senders,    \* threads or tasks that call send
    Self,       \* the actor itself: a handler may send to its own mailbox
    Capacities, \* the capacities a mailbox may be given, 0 for None
    MaxSends    \* bound: calls of send per sender

Callers == Senders \union {Self}
NoOne == "no one"

ASSUME SendersAssumption == IsFiniteSet(Senders) /\ NoOne \notin Callers
ASSUME CapacitiesAssumption == Capacities \subseteq Nat
ASSUME BoundAssumption == MaxSends \in Nat

\* What MailboxLimits::new fixes.
VARIABLES
    capacity,   \* MailboxLimits::capacity, 0 for None
    mode,       \* MailboxLimits::mode
    runtime     \* which of block_cvar and block_notify there is

VARIABLES
    depth,      \* MailboxLimits::depth
    queued,     \* items in the user channel
    dropped,    \* history: items discarded when the receiver was dropped
    mutex,      \* holder of block_cvar's mutex (threads, Block), or NoOne
    pc,         \* where each caller is inside send
    current,    \* the value each caller loaded from depth
    result,     \* what each caller's last send returned
    sends,      \* calls of send each caller has made
    actor       \* where the receiving actor is in run_actor

config == <<capacity, mode, runtime>>
vars == <<config, depth, queued, dropped, mutex, pc, current, result, sends, actor>>

Bounded == capacity # 0

Locations == {"idle", "load", "exchange", "lock", "locked", "add", "park",
              "waiting", "push", "undo", "wake"}
ActorStates == {"recv", "dequeued", "notify", "handle", "stopping", "gone"}
Results == {"none", "Ok", "MailboxFull", "ActorStopped"}

Init ==
    /\ capacity \in Capacities
    /\ mode \in {"FailFast", "Block"}
    /\ runtime \in {"Tasks", "Threads"}
    /\ depth = 0
    /\ queued = 0
    /\ dropped = 0
    /\ mutex = NoOne
    /\ pc = [c \in Callers |-> "idle"]
    /\ current = [c \in Callers |-> 0]
    /\ result = [c \in Callers |-> "none"]
    /\ sends = [c \in Callers |-> 0]
    /\ actor = "handle"          \* started() runs first

-----------------------------------------------------------------------------
(* Entering send: the dispatch on (capacity, mode).  The actor sends to    *)
(* itself only from one of its callbacks.                                  *)

SendThreads(c) ==
    IF ~Bounded THEN "push" ELSE IF mode = "FailFast" THEN "load" ELSE "lock"

SendTasks(c) ==
    IF Bounded THEN "load" ELSE "push"

Send(c) ==
    /\ pc[c] = "idle"
    /\ c = Self => actor \in {"handle", "stopping"}
    /\ sends[c] < MaxSends
    /\ sends' = [sends EXCEPT ![c] = @ + 1]
    /\ pc' = [pc EXCEPT ![c] =
                 IF runtime = "Threads" THEN SendThreads(c) ELSE SendTasks(c)]
    /\ UNCHANGED <<config, depth, queued, dropped, mutex, current, result, actor>>

(* try_acquire and acquire_async_tasks: load depth, then compare-exchange. *)
(* A full mailbox ends a FailFast send; a Block send goes to park.         *)

TryAcquireFull(c) ==
    /\ pc' = [pc EXCEPT ![c] = "idle"]
    /\ result' = [result EXCEPT ![c] = "MailboxFull"]

AcquireAsyncFull(c) ==
    /\ pc' = [pc EXCEPT ![c] = "park"]
    /\ UNCHANGED result

Load(c) ==
    /\ pc[c] = "load"
    /\ current' = [current EXCEPT ![c] = depth]
    /\ IF depth >= capacity
         THEN IF mode = "FailFast" THEN TryAcquireFull(c) ELSE AcquireAsyncFull(c)
         ELSE /\ pc' = [pc EXCEPT ![c] = "exchange"]
              /\ UNCHANGED result
    /\ UNCHANGED <<config, depth, queued, dropped, mutex, sends, actor>>

\* Mutant: a plain store instead of a compare-exchange.
StoreBlindly(c) ==
    /\ pc[c] = "exchange"
    /\ depth' = current[c] + 1
    /\ pc' = [pc EXCEPT ![c] = "push"]
    /\ UNCHANGED <<config, queued, dropped, mutex, current, result, sends, actor>>

Exchange(c) ==
    /\ pc[c] = "exchange"
    /\ depth = current[c]
    /\ depth' = current[c] + 1
    /\ pc' = [pc EXCEPT ![c] = "push"]
    /\ UNCHANGED <<config, queued, dropped, mutex, current, result, sends, actor>>

\* The weak compare-exchange may also fail when the values agree.
ExchangeFails(c) ==
    /\ pc[c] = "exchange"
    /\ pc' = [pc EXCEPT ![c] = "load"]
    /\ UNCHANGED <<config, depth, queued, dropped, mutex, current, result, sends, actor>>

\* notify.notified(): from its creation on the future sees notify_waiters.
Notified(c) ==
    /\ pc[c] = "park"
    /\ runtime = "Tasks"
    /\ pc' = [pc EXCEPT ![c] = "waiting"]
    /\ UNCHANGED <<config, depth, queued, dropped, mutex, current, result, sends, actor>>

(* acquire_blocking_threads: load and fetch_add under the mutex.           *)

LockAcquire(c) ==
    /\ pc[c] = "lock"
    /\ mutex = NoOne
    /\ mutex' = c
    /\ pc' = [pc EXCEPT ![c] = "locked"]
    /\ UNCHANGED <<config, depth, queued, dropped, current, result, sends, actor>>

LoadLocked(c) ==
    /\ pc[c] = "locked"
    /\ current' = [current EXCEPT ![c] = depth]
    /\ pc' = [pc EXCEPT ![c] = IF depth < capacity THEN "add" ELSE "park"]
    /\ UNCHANGED <<config, depth, queued, dropped, mutex, result, sends, actor>>

FetchAdd(c) ==
    /\ pc[c] = "add"
    /\ depth' = depth + 1
    /\ mutex' = NoOne
    /\ pc' = [pc EXCEPT ![c] = "push"]
    /\ UNCHANGED <<config, queued, dropped, current, result, sends, actor>>

\* cvar.wait releases the mutex and joins the wait set in one step.
CvarWait(c) ==
    /\ pc[c] = "park"
    /\ runtime = "Threads"
    /\ mutex' = NoOne
    /\ pc' = [pc EXCEPT ![c] = "waiting"]
    /\ UNCHANGED <<config, depth, queued, dropped, current, result, sends, actor>>

\* A condition variable may wake a waiter that nobody notified.
SpuriousWakeup(c) ==
    /\ pc[c] = "waiting"
    /\ runtime = "Threads"
    /\ pc' = [pc EXCEPT ![c] = "lock"]
    /\ UNCHANGED <<config, depth, queued, dropped, mutex, current, result, sends, actor>>

(* sender.send, and the rollback when the receiver is gone.                *)

\* Mutant: a failed enqueue returns without giving its unit of depth back.
PushNoRollback(c) ==
    /\ pc[c] = "push"
    /\ queued' = IF actor # "gone" THEN queued + 1 ELSE queued
    /\ result' = [result EXCEPT ![c] = IF actor # "gone" THEN "Ok" ELSE "ActorStopped"]
    /\ pc' = [pc EXCEPT ![c] = "idle"]
    /\ UNCHANGED <<config, depth, dropped, mutex, current, sends, actor>>

Push(c) ==
    /\ pc[c] = "push"
    /\ IF actor # "gone"
         THEN /\ queued' = queued + 1
              /\ pc' = [pc EXCEPT ![c] = "idle"]
              /\ result' = [result EXCEPT ![c] = "Ok"]
         ELSE /\ pc' = [pc EXCEPT ![c] = "undo"]
              /\ UNCHANGED <<queued, result>>
    /\ UNCHANGED <<config, depth, dropped, mutex, current, sends, actor>>

RollbackAcquire(c) ==
    /\ pc[c] = "undo"
    /\ depth' = IF Bounded THEN depth - 1 ELSE depth
    /\ pc' = [pc EXCEPT ![c] = "wake"]
    /\ UNCHANGED <<config, queued, dropped, mutex, current, result, sends, actor>>

\* notify_all and notify_waiters wake the callers waiting at this moment.
NotifyBlockers(p) ==
    [c \in Callers |->
        IF mode = "Block" /\ p[c] = "waiting"
          THEN IF runtime = "Threads" THEN "lock" ELSE "load"
          ELSE p[c]]

RollbackNotify(c) ==
    /\ pc[c] = "wake"
    /\ pc' = NotifyBlockers([pc EXCEPT ![c] = "idle"])
    /\ result' = [result EXCEPT ![c] = "ActorStopped"]
    /\ UNCHANGED <<config, depth, queued, dropped, mutex, current, sends, actor>>

-----------------------------------------------------------------------------
(* The receiving actor.                                                    *)

Recv ==
    /\ actor = "recv"
    /\ queued > 0
    /\ queued' = queued - 1
    /\ actor' = IF Bounded THEN "dequeued" ELSE "handle"
    /\ UNCHANGED <<config, depth, dropped, mutex, pc, current, result, sends>>

OnMessageDequeued ==
    /\ actor = "dequeued"
    /\ depth' = depth - 1
    /\ actor' = "notify"
    /\ UNCHANGED <<config, queued, dropped, mutex, pc, current, result, sends>>

DequeueNotify ==
    /\ actor = "notify"
    /\ pc' = NotifyBlockers(pc)
    /\ actor' = "handle"
    /\ UNCHANGED <<config, depth, queued, dropped, mutex, current, result, sends>>

HandlerReturns ==
    /\ actor = "handle"
    /\ pc[Self] = "idle"
    /\ actor' = "recv"
    /\ UNCHANGED <<config, depth, queued, dropped, mutex, pc, current, result, sends>>

\* A stop item, an OS signal, or a handler that panics ends the loop.
LeaveLoop ==
    /\ actor \in {"recv", "handle"}
    /\ pc[Self] = "idle"
    /\ actor' = "stopping"
    /\ UNCHANGED <<config, depth, queued, dropped, mutex, pc, current, result, sends>>

\* run_actor returns: the receiver is dropped with what it still holds.
DropReceiver ==
    /\ actor = "stopping"
    /\ pc[Self] = "idle"
    /\ actor' = "gone"
    /\ dropped' = dropped + queued
    /\ queued' = 0
    /\ UNCHANGED <<config, depth, mutex, pc, current, result, sends>>

-----------------------------------------------------------------------------
SendStep(c) ==
    \/ Load(c) \/ Exchange(c) \/ ExchangeFails(c) \/ Notified(c)
    \/ LockAcquire(c) \/ LoadLocked(c) \/ FetchAdd(c) \/ CvarWait(c)
    \/ Push(c) \/ RollbackAcquire(c) \/ RollbackNotify(c)

ActorStep == Recv \/ OnMessageDequeued \/ DequeueNotify \/ HandlerReturns

Next ==
    \/ \E c \in Callers : Send(c) \/ SendStep(c) \/ SpuriousWakeup(c)
    \/ ActorStep
    \/ LeaveLoop
    \/ DropReceiver

Spec == Init /\ [][Next]_vars

(***************************************************************************)
(* Fairness: the runtime keeps running every thread and task; a contended  *)
(* mutex and a weak compare-exchange that keeps being retried succeed in   *)
(* the end.  Nothing makes an actor stop or a caller send.                 *)
(***************************************************************************)
Fairness ==
    /\ \A c \in Callers :
         /\ WF_vars(SendStep(c))
         /\ SF_vars(Exchange(c))
         /\ SF_vars(LockAcquire(c))
    /\ WF_vars(ActorStep)
    /\ WF_vars(DropReceiver)

FairSpec == Spec /\ Fairness

-----------------------------------------------------------------------------
(* Properties.                                                             *)

\* Every variable has its type; that depth stays a natural number says that
\* fetch_sub in rollback_acquire and on_message_dequeued never wraps around.
TypeOK ==
    /\ capacity \in Capacities
    /\ mode \in {"FailFast", "Block"}
    /\ runtime \in {"Tasks", "Threads"}
    /\ depth \in Nat
    /\ queued \in Nat
    /\ dropped \in Nat
    /\ mutex \in Callers \union {NoOne}
    /\ pc \in [Callers -> Locations]
    /\ current \in [Callers -> Nat]
    /\ result \in [Callers -> Results]
    /\ sends \in [Callers -> 0..MaxSends]
    /\ actor \in ActorStates

\* The callers that hold one unit of depth without an item in the channel.
Holding == {c \in Callers : pc[c] \in {"push", "undo"}}

\* The depth counter is, at every step of every interleaving, exactly the
\* items in the channel, plus the senders between acquire and enqueue, plus
\* the item the actor has taken but not yet subtracted, plus the items lost
\* with the receiver.  A leaked or doubly released unit breaks it.
DepthAccounting ==
    depth = IF ~Bounded THEN 0
            ELSE queued + Cardinality(Holding) + dropped
                 + (IF actor = "dequeued" THEN 1 ELSE 0)

\* A bounded mailbox never holds more user messages than its capacity, in
\* either mode and on either runtime, whatever the senders race.
QueueBounded == Bounded => queued <= capacity

\* The counter with its loads, exchanges, lock and rollbacks behaves as a
\* counting semaphore of capacity permits.
S == INSTANCE Semaphore WITH permits <- depth
SemaphoreRefined == S!Spec

\* A Block sender does not wait for ever while the mailbox has space and the
\* actor is receiving: "block senders until space is available".
BlockedUntilSpace ==
    \A c \in Callers :
        ~<>[](/\ pc[c] = "waiting"
              /\ depth < capacity
              /\ actor \notin {"stopping", "gone"})

=============================================================================
