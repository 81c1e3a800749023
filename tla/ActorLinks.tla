---------------------------- MODULE ActorLinks -----------------------------
(***************************************************************************)
(* The life of an actor (tasks/actor.rs and threads/actor.rs: spawn,       *)
(* run_actor), the links between actors (link.rs), and the ways to end one *)
(* from outside (child_handle.rs: stop, shutdown, kill; OS signals).       *)
(*                                                                         *)
(* The two runtimes run the same steps; what they share is modelled once.  *)
(* A step is one access to shared state: one lock section, one atomic, one *)
(* channel operation.  Callbacks are user code: from started(), a handler, *)
(* exit_received() or stopped() an actor may, in any order, perform each   *)
(* operation of its script once, panic if the cast says so, or return.      *)
(***************************************************************************)
EXTENDS Naturals, Sequences, FiniteSets

CONSTANTS
    Actors,
    Casts,      \* the situations studied, records of
                \*   running:   the actors that start without being spawned
                \*   script:    [Actors -> set of <<operation, peer>>] each may
                \*              perform once
                \*   requests:  [Actors -> subset of {"stop", "shutdown", "kill",
                \*              "os"}] the outside may make, once each
                \*   panickers: the actors whose callbacks may panic
    NoReason    \* the empty slot (None)

Reasons == {"Normal", "Shutdown", "Panic", "Kill"}
Operations == {"spawn", "link", "unlink", "trap", "untrap", "stop"}

ASSUME CastsAssumption ==
    \A c \in Casts :
        /\ c.running \subseteq Actors
        /\ c.script \in [Actors -> SUBSET (Operations \X Actors)]
        /\ c.requests \in [Actors -> SUBSET {"stop", "shutdown", "kill", "os"}]
        /\ c.panickers \subseteq Actors

ASSUME ReasonAssumption == NoReason \notin Reasons

\* ExitReason::is_abnormal
IsAbnormal(r) == r \in {"Panic", "Kill"}

VARIABLES
    cast,           \* the situation this behaviour plays, never changed
    phase,          \* where each actor is in spawn / run_actor
    reason,         \* run_actor's exit_reason, then its result
    completion,     \* the published exit reason, or NoReason
    cancelled,      \* the cancellation token
    stopItem,       \* stop channel: "none", "queued" by the watcher, "taken" or lost
    osItem,         \* an OS signal item is queued
    exits,          \* supervision channel: sequence of <<from, reason>>
    trapExit,       \* trap_exit flag
    linkedReason,   \* linked_reason slot
    requested,      \* requested_exit slot
    skipStopped,    \* skip_stopped flag
    links,          \* link table: set of peers
    pending,        \* entries propagate_exit has taken and not yet handled
    op,             \* the shared-state operation the actor's thread is in
    todo,           \* operations of the script not yet performed
    asked,          \* requests made from outside
    killing         \* where a kill() or shutdown() call from outside is

\* History of what was promised and delivered.
VARIABLES
    pushed,         \* pushed[a][b]: entries for b ever pushed into a's table
    signals,        \* signals[a][b]: exit signals of a ever given to b
    linked,         \* pairs <<a, b>>: a's link(b) has returned, not unlinked
    window          \* pairs <<a, b>>: that link met b between drain and completion

slots == <<trapExit, linkedReason, requested, skipStopped>>
queues == <<stopItem, osItem, exits>>
history == <<pushed, signals, linked, window>>
outside == <<asked, killing>>
vars == <<cast, phase, reason, completion, cancelled, queues, slots, links, pending,
          op, todo, outside, history>>

Idle == <<"idle">>

Init ==
    /\ cast \in Casts
    /\ phase = [a \in Actors |-> IF a \in cast.running THEN "starting" ELSE "unborn"]
    /\ reason = [a \in Actors |-> "Normal"]
    /\ completion = [a \in Actors |-> NoReason]
    /\ cancelled = [a \in Actors |-> FALSE]
    /\ stopItem = [a \in Actors |-> "none"]
    /\ osItem = [a \in Actors |-> FALSE]
    /\ exits = [a \in Actors |-> <<>>]
    /\ trapExit = [a \in Actors |-> FALSE]
    /\ linkedReason = [a \in Actors |-> NoReason]
    /\ requested = [a \in Actors |-> NoReason]
    /\ skipStopped = [a \in Actors |-> FALSE]
    /\ links = [a \in Actors |-> {}]
    /\ pending = [a \in Actors |-> {}]
    /\ op = [a \in Actors |-> Idle]
    /\ todo = cast.script
    /\ asked = [a \in Actors |-> {}]
    /\ killing = [a \in Actors |-> {}]
    /\ pushed = [a \in Actors |-> [b \in Actors |-> 0]]
    /\ signals = [a \in Actors |-> [b \in Actors |-> 0]]
    /\ linked = {}
    /\ window = {}

InCallback(a) ==
    phase[a] \in {"starting", "handling", "stopping", "stoppingEarly"} /\ op[a] = Idle

\* The mailbox receiver is dropped when run_actor returns.
Receiving(a) == phase[a] \in {"starting", "loop", "handling", "exiting",
                              "stopping", "stoppingEarly", "resolve"}

SetOp(a, o) == op' = [op EXCEPT ![a] = o]
Goto(a, p) == phase' = [phase EXCEPT ![a] = p]
Cancel(a) == cancelled' = [cancelled EXCEPT ![a] = TRUE]

-----------------------------------------------------------------------------
(* Operations of a callback.                                               *)

Perform(a, o, b) ==
    /\ InCallback(a)
    /\ <<o, b>> \in todo[a]
    /\ todo' = [todo EXCEPT ![a] = @ \ {<<o, b>>}]

\* start_linked_to_handle: the child's thread starts, then link_handles runs.
StartLinked(a, b) ==
    /\ Perform(a, "spawn", b)
    /\ phase[b] = "unborn"
    /\ Goto(b, "starting")
    /\ SetOp(a, <<"linkOwn", b>>)
    /\ UNCHANGED <<cast, reason, completion, cancelled, queues, slots, links, pending,
                   outside, history>>

\* Context::link -> link_handles
Link(a, b) ==
    /\ Perform(a, "link", b)
    /\ phase[b] # "unborn"
    /\ SetOp(a, <<"linkOwn", b>>)
    /\ UNCHANGED <<cast, phase, reason, completion, cancelled, queues, slots, links,
                   pending, outside, history>>

\* Context::unlink -> unregister_link
Unlink(a, b) ==
    /\ Perform(a, "unlink", b)
    /\ phase[b] # "unborn"
    /\ SetOp(a, <<"unlinkOwn", b>>)
    /\ UNCHANGED <<cast, phase, reason, completion, cancelled, queues, slots, links,
                   pending, outside, history>>

\* Context::trap_exit
TrapExit(a) ==
    /\ \/ Perform(a, "trap", a) /\ trapExit' = [trapExit EXCEPT ![a] = TRUE]
       \/ Perform(a, "untrap", a) /\ trapExit' = [trapExit EXCEPT ![a] = FALSE]
    /\ UNCHANGED <<cast, phase, reason, completion, cancelled, queues, linkedReason,
                   requested, skipStopped, links, pending, op, outside, history>>

\* Context::stop
ContextStop(a) ==
    /\ Perform(a, "stop", a)
    /\ Cancel(a)
    /\ UNCHANGED <<cast, phase, reason, completion, queues, slots, links, pending, op,
                   outside, history>>

-----------------------------------------------------------------------------
(* link.rs.                                                                *)

PushEntry(a, b) ==
    /\ links' = [links EXCEPT ![a] = @ \union {b}]
    /\ pushed' = [pushed EXCEPT ![a][b] = IF b \in links[a] THEN @ ELSE @ + 1]

\* register_link: the owner's table, then, under another lock, the peer's.
RegisterOwn(a, b) ==
    /\ op[a] = <<"linkOwn", b>>
    /\ PushEntry(a, b)
    /\ SetOp(a, <<"linkPeer", b>>)
    /\ UNCHANGED <<cast, phase, reason, completion, cancelled, queues, slots, pending,
                   todo, outside, signals, linked, window>>

RegisterPeer(a, b) ==
    /\ op[a] = <<"linkPeer", b>>
    /\ PushEntry(b, a)
    /\ SetOp(a, <<"linkCheck", b>>)
    /\ UNCHANGED <<cast, phase, reason, completion, cancelled, queues, slots, pending,
                   todo, outside, signals, linked, window>>

\* link_handles: is the target already dead?  The link has returned if not.
LinkCheck(a, b) ==
    /\ op[a] = <<"linkCheck", b>>
    /\ IF completion[b] = NoReason
         THEN /\ SetOp(a, Idle)
              /\ linked' = linked \union {<<a, b>>}
              /\ window' = IF phase[b] = "signal" /\ a \in links[b]
                             THEN window \union {<<a, b>>} ELSE window
         ELSE /\ SetOp(a, <<"linkTake", b>>)
              /\ UNCHANGED <<linked, window>>
    /\ UNCHANGED <<cast, phase, reason, completion, cancelled, queues, slots, links,
                   pending, todo, outside, pushed, signals>>

\* Mutant: the entry is taken and nobody is told.
LinkTakeSilent(a, b) ==
    /\ op[a] = <<"linkTake", b>>
    /\ links' = [links EXCEPT ![b] = @ \ {a}]
    /\ SetOp(a, Idle)
    /\ linked' = linked \union {<<a, b>>}
    /\ UNCHANGED <<cast, phase, reason, completion, cancelled, queues, slots, pending,
                   todo, outside, pushed, signals, window>>

\* take_self_from_peer_table decides who signals: this call or propagate_exit.
LinkTake(a, b) ==
    /\ op[a] = <<"linkTake", b>>
    /\ links' = [links EXCEPT ![b] = @ \ {a}]
    /\ SetOp(a, IF a \in links[b] THEN <<"signal", b, a>> ELSE Idle)
    /\ linked' = IF a \in links[b] THEN linked ELSE linked \union {<<a, b>>}
    /\ UNCHANGED <<cast, phase, reason, completion, cancelled, queues, slots, pending,
                   todo, outside, pushed, signals, window>>

\* unregister_link: own table, then the peer's.
UnregisterOwn(a, b) ==
    /\ op[a] = <<"unlinkOwn", b>>
    /\ links' = [links EXCEPT ![a] = @ \ {b}]
    /\ SetOp(a, <<"unlinkPeer", b>>)
    /\ linked' = linked \ {<<a, b>>, <<b, a>>}
    /\ UNCHANGED <<cast, phase, reason, completion, cancelled, queues, slots, pending,
                   todo, outside, pushed, signals, window>>

UnregisterPeer(a, b) ==
    /\ op[a] = <<"unlinkPeer", b>>
    /\ links' = [links EXCEPT ![b] = @ \ {a}]
    /\ SetOp(a, Idle)
    /\ linked' = linked \ {<<a, b>>, <<b, a>>}
    /\ UNCHANGED <<cast, phase, reason, completion, cancelled, queues, slots, pending,
                   todo, outside, pushed, signals, window>>

\* The closure of make_signal, run by thread t: the exit of a is told to b.
\* Reading trap_exit and filling the slot or the mailbox is one step, the
\* cancellation another.
MakeSignal(t, a, b) ==
    LET r == IF t = a THEN reason[a] ELSE completion[a]
        cancels == r = "Kill" \/ (~trapExit[b] /\ r # "Normal")
        delivers == r # "Kill" /\ trapExit[b] /\ Receiving(b)
    IN  /\ op[t] = <<"signal", a, b>>
        /\ signals' = [signals EXCEPT ![a][b] = @ + 1]
        /\ linkedReason' = [linkedReason EXCEPT ![b] =
                               IF cancels /\ @ = NoReason THEN r ELSE @]
        /\ exits' = [exits EXCEPT ![b] = IF delivers THEN Append(@, <<a, r>>) ELSE @]
        /\ SetOp(t, IF cancels THEN <<"cancel", b>> ELSE Idle)
        /\ UNCHANGED <<cast, phase, reason, completion, cancelled, stopItem, osItem,
                       trapExit, requested, skipStopped, links, pending, todo, outside,
                       pushed, linked, window>>

\* Mutant: the slot is filled and the token left alone.
CancelPeerForgotten(t, b) ==
    /\ op[t] = <<"cancel", b>>
    /\ SetOp(t, Idle)
    /\ UNCHANGED <<cast, phase, reason, completion, cancelled, queues, slots, links,
                   pending, todo, outside, history>>

CancelPeer(t, b) ==
    /\ op[t] = <<"cancel", b>>
    /\ Cancel(b)
    /\ SetOp(t, Idle)
    /\ UNCHANGED <<cast, phase, reason, completion, queues, slots, links, pending, todo,
                   outside, history>>

\* propagate_exit: take the whole table, then per entry leave the peer's table
\* and signal the peer.
PropagateTake(a) ==
    /\ phase[a] = "drain"
    /\ pending' = [pending EXCEPT ![a] = links[a]]
    /\ links' = [links EXCEPT ![a] = {}]
    /\ Goto(a, "signal")
    /\ UNCHANGED <<cast, reason, completion, cancelled, queues, slots, op, todo,
                   outside, history>>

PropagateEntry(a, b) ==
    /\ phase[a] = "signal"
    /\ op[a] = Idle
    /\ b \in pending[a]
    /\ pending' = [pending EXCEPT ![a] = @ \ {b}]
    /\ links' = [links EXCEPT ![b] = @ \ {a}]
    /\ SetOp(a, <<"signal", a, b>>)
    /\ UNCHANGED <<cast, phase, reason, completion, cancelled, queues, slots, todo,
                   outside, history>>

-----------------------------------------------------------------------------
(* run_actor and the end of spawn's body.                                  *)

StartedReturns(a) ==
    /\ phase[a] = "starting"
    /\ op[a] = Idle
    /\ Goto(a, IF ~cancelled[a] THEN "loop"
               ELSE IF skipStopped[a] THEN "resolve" ELSE "stoppingEarly")
    /\ UNCHANGED <<cast, reason, completion, cancelled, queues, slots, links, pending,
                   op, todo, outside, history>>

\* A panic in started() returns at once, past stopped() and resolve.
StartedPanics(a) ==
    /\ phase[a] = "starting"
    /\ op[a] = Idle
    /\ a \in cast.panickers
    /\ Cancel(a)
    /\ reason' = [reason EXCEPT ![a] = "Panic"]
    /\ Goto(a, "drain")
    /\ UNCHANGED <<cast, completion, queues, slots, links, pending, op, todo, outside,
                   history>>

\* The task that waits for the token and sends the one stop item (threads: the
\* on_cancel callback).
TokenWatcher(a) ==
    /\ cancelled[a]
    /\ stopItem[a] = "none"
    /\ stopItem' = [stopItem EXCEPT ![a] = IF Receiving(a) THEN "queued" ELSE "taken"]
    /\ UNCHANGED <<cast, phase, reason, completion, cancelled, osItem, exits, slots,
                   links, pending, op, todo, outside, history>>

\* recv() polls the signal, stop, supervision and user channels in this order.
\* An item may arrive in a channel just after it was polled, so the item taken
\* may come from any of them.
RecvSignal(a) ==
    /\ phase[a] = "loop"
    /\ osItem[a]
    /\ osItem' = [osItem EXCEPT ![a] = FALSE]
    /\ requested' = [requested EXCEPT ![a] = "Shutdown"]
    /\ Goto(a, "exiting")
    /\ UNCHANGED <<cast, reason, completion, cancelled, stopItem, exits, trapExit,
                   linkedReason, skipStopped, links, pending, op, todo, outside,
                   history>>

RecvStop(a) ==
    /\ phase[a] = "loop"
    /\ stopItem[a] = "queued"
    /\ stopItem' = [stopItem EXCEPT ![a] = "taken"]
    /\ Goto(a, "exiting")
    /\ UNCHANGED <<cast, reason, completion, cancelled, osItem, exits, slots, links,
                   pending, op, todo, outside, history>>

RecvExit(a) ==
    /\ phase[a] = "loop"
    /\ exits[a] # <<>>
    /\ exits' = [exits EXCEPT ![a] = Tail(@)]
    /\ Goto(a, "handling")
    /\ UNCHANGED <<cast, reason, completion, cancelled, stopItem, osItem, slots, links,
                   pending, op, todo, outside, history>>

\* A user message; MailboxLimits models the channel it comes from.
RecvMessage(a) ==
    /\ phase[a] = "loop"
    /\ Goto(a, "handling")
    /\ UNCHANGED <<cast, reason, completion, cancelled, queues, slots, links, pending,
                   op, todo, outside, history>>

HandlerReturns(a) ==
    /\ phase[a] = "handling"
    /\ op[a] = Idle
    /\ Goto(a, IF cancelled[a] THEN "exiting" ELSE "loop")
    /\ UNCHANGED <<cast, reason, completion, cancelled, queues, slots, links, pending,
                   op, todo, outside, history>>

HandlerPanics(a) ==
    /\ phase[a] = "handling"
    /\ op[a] = Idle
    /\ a \in cast.panickers
    /\ reason' = [reason EXCEPT ![a] = "Panic"]
    /\ Goto(a, "exiting")
    /\ UNCHANGED <<cast, completion, cancelled, queues, slots, links, pending, op, todo,
                   outside, history>>

LeaveLoop(a) ==
    /\ phase[a] = "exiting"
    /\ Cancel(a)
    /\ Goto(a, IF skipStopped[a] THEN "resolve" ELSE "stopping")
    /\ UNCHANGED <<cast, reason, completion, queues, slots, links, pending, op, todo,
                   outside, history>>

\* stopped() returns, or panics: outside the early path a panic becomes the
\* reason unless there is an abnormal one already.
StoppedEnds(a) ==
    /\ phase[a] \in {"stopping", "stoppingEarly"}
    /\ op[a] = Idle
    /\ \/ UNCHANGED reason
       \/ /\ a \in cast.panickers
          /\ phase[a] = "stopping"
          /\ ~IsAbnormal(reason[a])
          /\ reason' = [reason EXCEPT ![a] = "Panic"]
    /\ Goto(a, "resolve")
    /\ UNCHANGED <<cast, completion, cancelled, queues, slots, links, pending, op, todo,
                   outside, history>>

ResolveLinkedFirst(a) ==
    /\ phase[a] = "resolve"
    /\ reason' = [reason EXCEPT ![a] =
          IF linkedReason[a] # NoReason THEN linkedReason[a]
          ELSE IF requested[a] # NoReason THEN requested[a] ELSE @]
    /\ requested' = [requested EXCEPT ![a] = NoReason]
    /\ Goto(a, "drain")
    /\ UNCHANGED <<cast, completion, cancelled, queues, trapExit, linkedReason, skipStopped,
                   links, pending, op, todo, outside, history>>

\* resolve_exit_reason: a requested reason wins; a linked one replaces Normal.
\* Each slot that is used is emptied.
ResolveExitReason(a) ==
    LET asks == requested[a] # NoReason
        inherits == ~asks /\ reason[a] = "Normal" /\ linkedReason[a] # NoReason
    IN  /\ phase[a] = "resolve"
        /\ reason' = [reason EXCEPT ![a] = IF asks THEN requested[a]
                                           ELSE IF inherits THEN linkedReason[a] ELSE @]
        /\ requested' = [requested EXCEPT ![a] = NoReason]
        /\ linkedReason' = [linkedReason EXCEPT ![a] = IF inherits THEN NoReason ELSE @]
        /\ Goto(a, "drain")
        /\ UNCHANGED <<cast, completion, cancelled, queues, trapExit, skipStopped,
                       links, pending, op, todo, outside, history>>

\* After propagate_exit (and pg::remove_actor) the reason is published.
Complete(a) ==
    /\ phase[a] = "signal"
    /\ op[a] = Idle
    /\ pending[a] = {}
    /\ completion' = [completion EXCEPT ![a] = reason[a]]
    /\ Goto(a, "dead")
    /\ UNCHANGED <<cast, reason, cancelled, queues, slots, links, pending, op, todo,
                   outside, history>>

-----------------------------------------------------------------------------
(* Requests from outside, through an ActorRef or a ChildHandle.            *)

Ask(a, q) ==
    /\ phase[a] # "unborn"
    /\ q \in cast.requests[a] \ asked[a]
    /\ asked' = [asked EXCEPT ![a] = @ \union {q}]

\* ChildHandle::stop
HandleStop(a) ==
    /\ Ask(a, "stop")
    /\ Cancel(a)
    /\ UNCHANGED <<cast, phase, reason, completion, queues, slots, links, pending, op,
                   todo, killing, history>>

\* ChildHandle::shutdown: the reason, then the cancellation.
HandleShutdown(a) ==
    /\ Ask(a, "shutdown")
    /\ requested' = [requested EXCEPT ![a] = "Shutdown"]
    /\ killing' = [killing EXCEPT ![a] = @ \union {"cancel"}]
    /\ UNCHANGED <<cast, phase, reason, completion, cancelled, queues, trapExit,
                   linkedReason, skipStopped, links, pending, op, todo, history>>

\* ChildHandle::kill: the reason, the flag, then the cancellation.
HandleKill(a) ==
    /\ Ask(a, "kill")
    /\ requested' = [requested EXCEPT ![a] = "Kill"]
    /\ killing' = [killing EXCEPT ![a] = @ \union {"skip"}]
    /\ UNCHANGED <<cast, phase, reason, completion, cancelled, queues, trapExit,
                   linkedReason, skipStopped, links, pending, op, todo, history>>

KillSkip(a) ==
    /\ "skip" \in killing[a]
    /\ skipStopped' = [skipStopped EXCEPT ![a] = TRUE]
    /\ killing' = [killing EXCEPT ![a] = (@ \ {"skip"}) \union {"killCancel"}]
    /\ UNCHANGED <<cast, phase, reason, completion, cancelled, queues, trapExit,
                   linkedReason, requested, links, pending, op, todo, asked, history>>

\* The cancellation that ends shutdown() or kill(); a kill() that ends before
\* the actor has resolved its reason is remembered as made in time.
RequestCancel(a, step) ==
    /\ step \in killing[a] \intersect {"cancel", "killCancel"}
    /\ Cancel(a)
    /\ killing' = [killing EXCEPT ![a] = @ \ {step}]
    /\ asked' = [asked EXCEPT ![a] =
                    IF step = "killCancel" /\ Receiving(a) THEN @ \union {"killed"} ELSE @]
    /\ UNCHANGED <<cast, phase, reason, completion, queues, slots, links, pending, op,
                   todo, history>>

\* An OS shutdown signal is enqueued for a registered actor.
OsShutdown(a) ==
    /\ Ask(a, "os")
    /\ osItem' = [osItem EXCEPT ![a] = Receiving(a)]
    /\ UNCHANGED <<cast, phase, reason, completion, cancelled, stopItem, exits, slots,
                   links, pending, op, todo, killing, history>>

-----------------------------------------------------------------------------
\* A step inside an operation that has begun.
OpStep(a) ==
    \/ \E b \in Actors :
         \/ RegisterOwn(a, b) \/ RegisterPeer(a, b) \/ LinkCheck(a, b) \/ LinkTake(a, b)
         \/ UnregisterOwn(a, b) \/ UnregisterPeer(a, b) \/ CancelPeer(a, b)
         \/ \E c \in Actors : MakeSignal(a, b, c)

CallbackStep(a) ==
    \/ \E b \in Actors : StartLinked(a, b) \/ Link(a, b) \/ Unlink(a, b)
    \/ TrapExit(a)
    \/ ContextStop(a)
    \/ StartedPanics(a)
    \/ HandlerPanics(a)

\* Steps the runtime takes by itself, given that callbacks return.
RunStep(a) ==
    \/ StartedReturns(a) \/ RecvSignal(a) \/ RecvStop(a) \/ RecvExit(a)
    \/ HandlerReturns(a) \/ LeaveLoop(a) \/ StoppedEnds(a) \/ ResolveExitReason(a)
    \/ PropagateTake(a) \/ Complete(a)
    \/ \E b \in Actors : PropagateEntry(a, b)

RequestStep(a) ==
    \/ KillSkip(a)
    \/ \E step \in {"cancel", "killCancel"} : RequestCancel(a, step)

Next ==
    \E a \in Actors :
        \/ OpStep(a)
        \/ CallbackStep(a)
        \/ RunStep(a)
        \/ RecvMessage(a)
        \/ TokenWatcher(a)
        \/ HandleStop(a) \/ HandleShutdown(a) \/ HandleKill(a) \/ OsShutdown(a)
        \/ RequestStep(a)

Spec == Init /\ [][Next]_vars

\* The runtime keeps running every actor and watcher task, callbacks return,
\* and a call that has begun goes on.
FairSpec ==
    /\ Spec
    /\ \A a \in Actors :
         /\ WF_vars(OpStep(a))
         /\ WF_vars(RunStep(a))
         /\ WF_vars(TokenWatcher(a))
         /\ WF_vars(RequestStep(a))

-----------------------------------------------------------------------------
(* Properties.                                                             *)

\* However link, unlink and the two exits interleave, an entry of a link table is
\* turned into one exit signal.  Never two: propagate_exit and the dead-target
\* check of link_handles do not both signal for it.  And none, while the owner of
\* a completed link runs and the target is dead, in one window only: the link
\* entered the target's table after propagate_exit had taken it and was checked
\* before the reason was published.
SignalledOnce ==
    /\ \A a, b \in Actors : signals[a][b] <= pushed[a][b]
    /\ \A <<a, b>> \in linked :
         Receiving(a) /\ completion[b] # NoReason /\ signals[b][a] = 0 => <<a, b>> \in window

\* A kill() that ends before the actor resolves its reason makes it Kill,
\* whatever links and stops say; a panic in started() is the exception, since
\* it skips the resolution and leaves the request in its slot.
KillReported ==
    \A a \in Actors :
        "killed" \in asked[a] /\ completion[a] # NoReason
            => \/ completion[a] = "Kill"
               \/ completion[a] = "Panic" /\ requested[a] = "Kill"

\* Fate sharing: once an actor has linked to one that died abnormally, it ends
\* too, unless it traps exits, has unlinked, or linked in the window.
FateShared ==
    \A a, b \in Actors :
        (/\ <<a, b>> \in linked \ window
         /\ completion[b] # NoReason
         /\ IsAbnormal(completion[b]))
        ~> (completion[a] # NoReason \/ trapExit[a] \/ <<a, b>> \notin linked)
=============================================================================
