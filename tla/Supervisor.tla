----------------------------- MODULE Supervisor ----------------------------
(***************************************************************************)
(* The static supervisor with local children: the policy engine            *)
(* (supervisor/mod.rs), the actor around it (tasks/supervisor.rs and       *)
(* threads/supervisor.rs, the same steps) and the way it ends a child      *)
(* (child_spec.rs: shutdown_child_async, shutdown_child_blocking).         *)
(*                                                                         *)
(* Child i is the i-th spec; start_index is its position.  A child has a   *)
(* sequence of instances, one actor each.  The exit of an instance is two  *)
(* steps, as in spawn: propagate_exit drains its link table ("gone"), then *)
(* the exit reason is published ("dead").  Linking is the abstraction of   *)
(* link_handles that ActorLinks details: an instance linked while "up" is  *)
(* signalled when it drains, one linked when "dead" at once, and one       *)
(* linked in between never.                                                *)
(***************************************************************************)
EXTENDS Integers, Sequences, FiniteSets

CONSTANTS
    Policies,       \* the supervisor specs studied, records of
                    \*   strategy:    "OneForOne", "OneForAll" or "RestForOne"
                    \*   restart:     per child "Permanent", "Transient" or
                    \*                "Temporary"
                    \*   shutdown:    per child "Infinity", "Timeout" or
                    \*                "BrutalKill"
                    \*   maxRestarts: RestartIntensity.max_restarts
                    \*   within:      RestartIntensity.within, in ticks
                    \*   requests:    what the outside may ask: {"stop", "kill"}
                    \*   maxCrashes:  bound: deaths of children nobody asked for
                    \*   maxTime:     bound: ticks of the clock
    None

Reasons == {"Normal", "Shutdown", "Panic", "Kill"}

ASSUME PoliciesAssumption ==
    \A p \in Policies :
        /\ p.strategy \in {"OneForOne", "OneForAll", "RestForOne"}
        /\ p.restart \in Seq({"Permanent", "Transient", "Temporary"})
        /\ p.shutdown \in Seq({"Infinity", "Timeout", "BrutalKill"})
        /\ Len(p.restart) = Len(p.shutdown) /\ Len(p.restart) > 0
        /\ p.maxRestarts \in Nat /\ p.within \in Nat
        /\ p.maxCrashes \in Nat /\ p.maxTime \in Nat
        /\ p.requests \subseteq {"stop", "kill"}

ASSUME NoneAssumption == None \notin Reasons

VARIABLES
    policy,         \* the spec of this supervisor, never changed
    inst,           \* per child, the sequence of its instances
    slot,           \* SupervisedChild.handle and the handles map: [gen, alive]
    exits,          \* supervision channel: sequence of <<child, gen, reason>>
    suppress,       \* suppress_restarts
    batch,          \* pending_batch_restart: None, or the first index targeted
    stamps,         \* restart_timestamps
    now,            \* the clock Instant::now() reads
    pc,             \* where the supervisor's task is
    work,           \* the child ids its current loop has left
    goal,           \* what the loop is for: "init", "restart", "batch", "stop"
    cancelled,      \* the supervisor's cancellation token
    inherited,      \* its linked_reason slot
    asked,          \* requests made of it
    completion,     \* its published exit reason
    crashes         \* deaths nobody asked for

\* History.
VARIABLES
    decided,        \* times of all restart decisions
    blamed,         \* instances whose exit led to one: <<child, gen>>
    lost            \* instances linked between drain and publication

logic == <<slot, suppress, batch, stamps>>
own == <<cancelled, inherited, asked, completion>>
history == <<decided, blamed, lost>>
vars == <<policy, inst, exits, logic, now, pc, work, goal, own, crashes, history>>

N == Len(policy.restart)
Kids == 1..N
Ids == [i \in Kids |-> i]

Init ==
    /\ policy \in Policies
    /\ inst = [i \in Kids |-> <<>>]
    /\ slot = [i \in Kids |-> [gen |-> 0, alive |-> FALSE]]
    /\ exits = <<>>
    /\ suppress = FALSE
    /\ batch = None
    /\ stamps = <<>>
    /\ now = 0
    /\ pc = "start" /\ work = Ids /\ goal = "init"
    /\ cancelled = FALSE
    /\ inherited = None
    /\ asked = {}
    /\ completion = None
    /\ crashes = 0
    /\ decided = <<>> /\ blamed = {} /\ lost = {}

Receiving == pc \notin {"end", "dead"}
Life(i, g) == inst[i][g].life
Up(i) == \E g \in 1..Len(inst[i]) : Life(i, g) = "up"

-----------------------------------------------------------------------------
(* Children.                                                               *)

\* started() calls trap_exit(true) before it starts a child.
Trapping == TRUE

\* The exit signal of an instance, given to the supervisor (make_signal).
Signal(i, g, r) ==
    IF r = "Kill" \/ (~Trapping /\ r # "Normal")
      THEN /\ cancelled' = TRUE
           /\ inherited' = IF inherited = None THEN r ELSE inherited
           /\ UNCHANGED exits
      ELSE /\ exits' = IF Receiving /\ Trapping THEN Append(exits, <<i, g, r>>) ELSE exits
           /\ UNCHANGED <<cancelled, inherited>>

\* run_actor returns and propagate_exit drains.  An instance ends with a reason
\* it was asked for, or, not asked or past looking at that, with its own.
Die(i, g, r) ==
    LET c == inst[i][g]
    IN  /\ c.life = "up"
        /\ \/ r \in c.asks /\ UNCHANGED crashes
           \/ /\ r \in {"Normal", "Panic"}
              /\ crashes < policy.maxCrashes
              /\ crashes' = crashes + 1
        /\ inst' = [inst EXCEPT ![i][g] = [c EXCEPT !.life = "gone", !.why = r]]
        /\ IF c.linked THEN Signal(i, g, r) ELSE UNCHANGED <<exits, cancelled, inherited>>
        /\ UNCHANGED <<policy, logic, now, pc, work, goal, asked, completion, history>>

Publish(i, g) ==
    /\ Life(i, g) = "gone"
    /\ inst' = [inst EXCEPT ![i][g].life = "dead"]
    /\ UNCHANGED <<policy, exits, logic, now, pc, work, goal, own, crashes, history>>

-----------------------------------------------------------------------------
(* Starting children.                                                      *)

\* Callbacks return to the loop, which looks at the token.
AfterCallback == pc' = IF cancelled' THEN "leave" ELSE "loop"

\* ChildSpec.start -> start_linked_to_handle: the actor is spawned ...
SpawnChild ==
    /\ pc = "start"
    /\ LET new == [life |-> "up", asks |-> {}, why |-> None, linked |-> FALSE]
       IN  inst' = [inst EXCEPT ![Head(work)] = Append(@, new)]
    /\ pc' = "link"
    /\ UNCHANGED <<policy, exits, logic, now, work, goal, own, crashes, history>>

\* ... then linked, then start_child or restart_child stores its handle.
LinkChild ==
    LET i == Head(work)
        g == Len(inst[i])
    IN  /\ pc = "link"
        /\ inst' = [inst EXCEPT ![i][g].linked = (Life(i, g) = "up")]
        /\ IF Life(i, g) = "dead" THEN Signal(i, g, inst[i][g].why)
                                  ELSE UNCHANGED <<exits, cancelled, inherited>>
        /\ lost' = IF Life(i, g) = "gone" THEN lost \union {<<i, g>>} ELSE lost
        /\ slot' = [slot EXCEPT ![i] = [gen |-> g, alive |-> TRUE]]
        /\ work' = Tail(work)
        /\ IF Len(work) = 1 THEN AfterCallback ELSE pc' = "start"
        /\ UNCHANGED <<policy, suppress, batch, stamps, now, goal, asked, completion,
                       crashes, decided, blamed>>

-----------------------------------------------------------------------------
(* supervisor/mod.rs.                                                      *)

\* should_restart
ShouldRestart(restart, r) ==
    \/ restart = "Permanent" /\ r # "Shutdown"
    \/ restart = "Transient" /\ r \in {"Panic", "Kill"}

\* Mutant: the child is looked up after it has been marked dead.
KnownAfterMark(i, g) == slot[i].gen = g /\ ~slot[i].alive

\* Mutant: any exit of a child is taken for the exit of its current instance.
KnownById(i, g) == slot[i].alive

\* child_index_by_actor finds the instance: it is the current one and alive.
KnownChild(i, g) == slot[i].gen = g /\ slot[i].alive

\* What is left of a sequence when its front is popped up to the first of the
\* given positions.
PopUpTo(s, stays) ==
    LET first == CHOOSE k \in stays \union {Len(s) + 1} : \A j \in stays : k <= j
    IN  SubSeq(s, first, Len(s))

\* Mutant: the boundary of the window is taken as outside it.
ExpireEarly(s) == PopUpTo(s, {k \in 1..Len(s) : now - s[k] < policy.within})

\* record_restart: the front goes as long as it is older than the window.
Expire(s) == PopUpTo(s, {k \in 1..Len(s) : now - s[k] <= policy.within})

IntensityExceeded(s) == Len(s) >= policy.maxRestarts

\* all_child_ids, rest_for_one_ids: the ids from an index on, in start order.
IdsFrom(first) == SubSeq(Ids, first, N)

\* pending_batch_restart_complete
BatchComplete(s) == \A i \in batch..N : ~s[i].alive

-----------------------------------------------------------------------------
(* exit_received -> handle_exit.                                           *)

\* maybe_complete_batch_restart and take_pending_restart_ids, given the slots.
MaybeCompleteBatch(s) ==
    IF batch # None /\ BatchComplete(s)
      THEN /\ work' = IdsFrom(batch)
           /\ goal' = "restart"
           /\ pc' = "start"
           /\ suppress' = FALSE
           /\ batch' = None
      ELSE /\ AfterCallback
           /\ work' = <<>>
           /\ UNCHANGED <<goal, suppress, batch>>

\* on_child_exit for a child to be restarted, and what handle_exit then does.
DecideRestart(i, g) ==
    LET recent == Expire(stamps)
    IN  IF IntensityExceeded(recent)
          THEN \* Meltdown: ctx.stop()
               /\ stamps' = recent
               /\ cancelled' = TRUE
               /\ AfterCallback
               /\ UNCHANGED <<suppress, batch, work, goal, decided, blamed>>
          ELSE /\ stamps' = Append(recent, now)
               /\ decided' = Append(decided, now)
               /\ blamed' = blamed \union {<<i, g>>}
               /\ IF policy.strategy = "OneForOne"
                    THEN /\ work' = <<i>> /\ goal' = "restart" /\ pc' = "start"
                         /\ UNCHANGED <<suppress, batch>>
                    ELSE LET first == IF policy.strategy = "OneForAll" THEN 1 ELSE i
                         IN  /\ work' = IdsFrom(first) /\ goal' = "batch" /\ pc' = "shut"
                             /\ suppress' = TRUE
                             /\ batch' = first
               /\ UNCHANGED cancelled

\* The loop receives an Exit.
HandleExit ==
    /\ pc = "loop"
    /\ exits # <<>>
    /\ exits' = Tail(exits)
    /\ LET i == Head(exits)[1]
           g == Head(exits)[2]
           known == KnownChild(i, g)
           marked == IF known THEN [slot EXCEPT ![i].alive = FALSE] ELSE slot
       IN  /\ slot' = marked
           /\ IF suppress
                THEN /\ UNCHANGED <<cancelled, stamps, decided, blamed>>
                     /\ MaybeCompleteBatch(marked)
              ELSE IF known /\ ShouldRestart(policy.restart[i], Head(exits)[3])
                THEN DecideRestart(i, g)
              ELSE /\ UNCHANGED <<cancelled, stamps, suppress, batch, work, goal, decided,
                                  blamed>>
                   /\ AfterCallback
    /\ UNCHANGED <<policy, inst, now, inherited, asked, completion, crashes, lost>>

-----------------------------------------------------------------------------
(* terminate_children, stopped and shutdown_child_*.                       *)

Request(i, g, q) == inst' = [inst EXCEPT ![i][g].asks = @ \union {q}]

\* Mutant: the child is asked and not waited for.
ShutdownNoWait ==
    LET i == Head(work)
        g == slot[i].gen
    IN  /\ pc = "shut"
        /\ Life(i, g) # "dead"
        /\ Request(i, g, IF policy.shutdown[i] = "BrutalKill" THEN "Kill" ELSE "Shutdown")
        /\ slot' = IF goal = "batch" THEN [slot EXCEPT ![i].alive = FALSE] ELSE slot
        /\ UNCHANGED <<policy, exits, cancelled, stamps, now, inherited, asked,
                       completion, crashes, history>>
        /\ IF Len(work) > 1
             THEN pc' = "shut" /\ work' = Tail(work) /\ UNCHANGED <<goal, suppress, batch>>
           ELSE IF goal = "batch" THEN MaybeCompleteBatch(slot')
           ELSE pc' = "end" /\ work' = <<>> /\ UNCHANGED <<goal, suppress, batch>>

\* A child that has not exited is asked to, by its policy.
ShutdownAsk ==
    LET i == Head(work)
        g == slot[i].gen
    IN  /\ pc = "shut"
        /\ Life(i, g) # "dead"
        /\ Request(i, g, IF policy.shutdown[i] = "BrutalKill" THEN "Kill" ELSE "Shutdown")
        /\ pc' = IF policy.shutdown[i] = "Timeout" THEN "timed" ELSE "wait"
        /\ UNCHANGED <<policy, exits, logic, now, work, goal, own, crashes, history>>

\* The wait times out and escalates to kill().
ShutdownTimeout ==
    LET i == Head(work)
    IN  /\ pc = "timed"
        /\ Request(i, slot[i].gen, "Kill")
        /\ pc' = "wait"
        /\ UNCHANGED <<policy, exits, logic, now, work, goal, own, crashes, history>>

\* The reason is published: terminate_children marks the child, then the next
\* one; the loop over, the batch is completed or stopped() returns.
ShutdownDone ==
    LET i == Head(work)
    IN  /\ pc \in {"shut", "wait", "timed"}
        /\ Life(i, slot[i].gen) = "dead"
        /\ slot' = IF goal = "batch" THEN [slot EXCEPT ![i].alive = FALSE] ELSE slot
        /\ UNCHANGED <<policy, inst, exits, cancelled, stamps, now, inherited, asked,
                       completion, crashes, history>>
        /\ IF Len(work) > 1
             THEN pc' = "shut" /\ work' = Tail(work) /\ UNCHANGED <<goal, suppress, batch>>
           ELSE IF goal = "batch" THEN MaybeCompleteBatch(slot')
           ELSE pc' = "end" /\ work' = <<>> /\ UNCHANGED <<goal, suppress, batch>>

\* The loop receives the stop item.
RecvStop ==
    /\ pc = "loop"
    /\ cancelled
    /\ pc' = "leave"
    /\ UNCHANGED <<policy, inst, exits, logic, now, work, goal, own, crashes, history>>

\* shutdown_order: reverse start index.
ShutdownOrder == [k \in Kids |-> N + 1 - k]

\* stopped(), which kill() skips.
Stopped ==
    /\ pc = "leave"
    /\ IF "kill" \in asked
         THEN pc' = "end" /\ UNCHANGED <<suppress, work, goal>>
         ELSE /\ suppress' = TRUE
              /\ work' = ShutdownOrder
              /\ goal' = "stop"
              /\ pc' = "shut"
    /\ UNCHANGED <<policy, inst, exits, slot, batch, stamps, now, own, crashes,
                   history>>

FinalReason ==
    IF "kill" \in asked THEN "Kill" ELSE IF inherited # None THEN inherited ELSE "Normal"

\* resolve_exit_reason, propagate_exit to the children, completion.  A child
\* cancelled through the link ends with that reason.
End ==
    LET Told(c) == IF c.asks = {} /\ FinalReason # "Normal"
                     THEN [c EXCEPT !.asks = {FinalReason}] ELSE c
    IN  /\ pc = "end"
        /\ inst' = [i \in Kids |-> [g \in 1..Len(inst[i]) |-> Told(inst[i][g])]]
        /\ completion' = FinalReason
        /\ pc' = "dead"
        /\ UNCHANGED <<policy, exits, logic, now, work, goal, cancelled, inherited,
                       asked, crashes, history>>

-----------------------------------------------------------------------------
\* stop() or kill() on the supervisor.
Ask(q) ==
    /\ pc # "dead"
    /\ q \in policy.requests \ asked
    /\ asked' = asked \union {q}
    /\ cancelled' = TRUE
    /\ UNCHANGED <<policy, inst, exits, logic, now, pc, work, goal, inherited,
                   completion, crashes, history>>

\* Time passes; a restart backoff only makes more of it pass.
Tick ==
    /\ now < policy.maxTime
    /\ now' = now + 1
    /\ UNCHANGED <<policy, inst, exits, logic, pc, work, goal, own, crashes, history>>

\* threads/supervisor.rs: the same operations on a thread, which blocks where a
\* task awaits.
ThreadsSpawnChild == SpawnChild
ThreadsLinkChild == LinkChild
ThreadsHandleExit == HandleExit
ThreadsShutdownDone == ShutdownDone
ThreadsStopped == Stopped
ThreadsTick == Tick

ThreadsStep ==
    \/ ThreadsSpawnChild \/ ThreadsLinkChild \/ ThreadsHandleExit
    \/ ThreadsShutdownDone \/ ThreadsStopped \/ ThreadsTick

SupervisorStep ==
    \/ SpawnChild \/ LinkChild \/ HandleExit \/ RecvStop \/ Stopped \/ End
    \/ ShutdownAsk \/ ShutdownTimeout \/ ShutdownDone

ChildStep(i) ==
    \E g \in 1..Len(inst[i]) : Publish(i, g) \/ \E r \in Reasons : Die(i, g, r)

Next ==
    \/ SupervisorStep \/ ThreadsStep
    \/ \E i \in Kids : ChildStep(i)
    \/ \E q \in policy.requests : Ask(q)
    \/ Tick

Spec == Init /\ [][Next]_vars

\* What a child does because it was asked to, and what follows its exit.
AskedChildStep(i) ==
    \E g \in 1..Len(inst[i]) :
        Publish(i, g) \/ (\E r \in inst[i][g].asks : Die(i, g, r))

\* The children and instances any policy may have.
Positions == UNION {1..Len(p.restart) : p \in Policies}
Generations == UNION {1..(p.maxCrashes + 1) : p \in Policies}

\* The supervisor's task runs and the callbacks of an asked child return.
FairSpec ==
    /\ Spec
    /\ WF_vars(SupervisorStep)
    /\ \A i \in Positions : WF_vars(i \in Kids /\ AskedChildStep(i))

-----------------------------------------------------------------------------
(* Properties.                                                             *)

\* No two instances of one child run at a time: a restart follows the exit of
\* the instance it replaces, whatever crashes, waits and escalates meanwhile.
\* And a batch begins a child only when every child of the batch still to be
\* started has exited: new instances never run beside old ones.
OneInstance ==
    /\ \A i \in Kids : \A g, h \in 1..Len(inst[i]) :
         Life(i, g) = "up" /\ Life(i, h) = "up" => g = h
    /\ goal = "restart" /\ policy.strategy # "OneForOne" /\ pc = "start"
         => \A k \in 1..Len(work) : ~Up(work[k])

\* In any window of length within there are at most max_restarts restarts.
IntensityBounded ==
    \A t \in 0..policy.maxTime :
        Cardinality({k \in 1..Len(decided) :
                        t <= decided[k] /\ decided[k] <= t + policy.within})
            <= policy.maxRestarts

\* on_child_exit acts on the current instance of a child, never on the late
\* exit of one already replaced, and that instance no longer runs.
RestartOnlyCurrent ==
    [][\A b \in blamed' \ blamed :
          b[2] = Len(inst[b[1]]) /\ Life(b[1], b[2]) # "up"]_vars

\* A supervisor asks its children to end in reverse start order, each when those
\* started after it have exited; when it has ended, except by kill(), none runs.
NoOrphans ==
    /\ goal = "stop" /\ pc \in {"wait", "timed"} => \A j \in Kids : j > Head(work) => ~Up(j)
    /\ pc = "dead" /\ "kill" \notin asked => \A i \in Kids : ~Up(i)

\* There is an instance after the g-th of child i, or the supervisor ends.
Replaced(i, g) ==
    \/ i \in Kids /\ Len(inst[i]) > g
    \/ goal = "stop"
    \/ pc \in {"leave", "end", "dead"}

DiedCurrent(i, g) ==
    /\ i \in Kids
    /\ Len(inst[i]) = g
    /\ Life(i, g) = "dead"
    /\ ShouldRestart(policy.restart[i], inst[i][g].why)

\* A child whose current instance died and whose policy says restart gets a new
\* one, unless the supervisor ends or the instance was linked between its drain
\* and its publication: handle_exit loses no signal it was given.
SignalledReplaced ==
    \A i \in Positions, g \in Generations :
        DiedCurrent(i, g) /\ <<i, g>> \notin lost ~> Replaced(i, g)
=============================================================================
