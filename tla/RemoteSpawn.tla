---------------------------- MODULE RemoteSpawn ----------------------------
(***************************************************************************)
(* Children on other nodes, as a supervisor at home has them: the spawn    *)
(* request with its retries, the broker of the placement node that spawns, *)
(* registers and watches the child, the ChildExit it sends home, and the   *)
(* shutdown that waits for it (supervision_remote.rs, remote_spawn.rs,     *)
(* supervision_broker.rs).  Every parent places its child on a node of its *)
(* own; every node numbers its actors from 1.                              *)
(***************************************************************************)
EXTENDS Placement

VARIABLES
    par,     \* per parent: step, attempt, child (number), mailbox of Exits,
             \* shutdown type, rx ("empty", "fired", "dropped") and result
    waits,   \* SHUTDOWN_WAITS: actor number -> parent whose sender it holds
    kids,    \* per node, the children in order of their numbers: state, parent
             \* and how the exit reached the broker (history)
    far      \* per node: broker up, its mailbox of Exits, handles, parents,
             \* the request being served

spawnVars == <<par, waits, kids, far>>

\* The parents of set P have spawned nothing yet, the others have given up.
SpawnInit(P) ==
    /\ \E how \in [Parents -> Hows] :
         par = [p \in Parents |-> IF p \in P THEN Parent("idle", 0, None, how[p])
                                 ELSE Parent("failed", MaxAttempts, None, "Infinity")]
    /\ waits = <<>>
    /\ kids = [n \in Placements |-> <<>>]
    /\ far = [n \in Placements |-> Broker({}, <<>>)]

\* Every parent has its child.
SpawnedInit ==
    /\ \E how \in [Parents -> Hows] : par = [p \in Parents |-> Parent("up", 1, 1, how[p])]
    /\ waits = <<>>
    /\ kids = [n \in Placements |-> <<Kid(CHOOSE p \in Parents : NodeOf[p] = n)>>]
    /\ far = [n \in Placements |-> Broker({1}, <<kids[n][1].parent>>)]

-----------------------------------------------------------------------------
(* The request.                                                            *)

RequestSpawn(p) ==
    /\ par[p].step = "idle"
    /\ par' = [par EXCEPT ![p].step = "request", ![p].attempt = 1]
    /\ Publish(<<SpawnRequest(p, 1)>>)
    /\ UNCHANGED <<waits, kids, far>>

\* Mutant: one attempt too many.
RetryOffByOne(p) ==
    /\ par[p].step = "request"
    /\ IF par[p].attempt <= MaxAttempts
         THEN /\ par' = [par EXCEPT ![p].attempt = @ + 1]
              /\ Resend(p, <<SpawnRequest(p, par[p].attempt + 1)>>)
         ELSE par' = [par EXCEPT ![p].step = "failed"] /\ Resend(p, <<>>)
    /\ UNCHANGED <<waits, kids, far>>

\* request_spawn_with_retry: a transport error, whatever became of the request,
\* which may still be served.
RetrySpawn(p) ==
    /\ par[p].step = "request"
    /\ IF par[p].attempt < MaxAttempts
         THEN /\ par' = [par EXCEPT ![p].attempt = @ + 1]
              /\ Resend(p, <<SpawnRequest(p, par[p].attempt + 1)>>)
         ELSE par' = [par EXCEPT ![p].step = "failed"] /\ Resend(p, <<>>)
    /\ UNCHANGED <<waits, kids, far>>

ThreadsRetrySpawn(p) == RetrySpawn(p)

\* The answer, on the connection of the request: it waits for no other event.
SpawnAnswer(p, i) ==
    /\ par[p].step = "request" /\ Takes(p, "SpawnReply", i)
    /\ IF At(i).body = None THEN par' = [par EXCEPT ![p].step = "failed"]
       ELSE par' = [par EXCEPT ![p].step = "up", ![p].child = At(i).body]
    /\ Exchange(i, <<>>)
    /\ UNCHANGED <<waits, kids, far>>

ThreadsSpawnAnswer(p, i) == SpawnAnswer(p, i)

-----------------------------------------------------------------------------
(* The broker of the placement node.                                       *)

\* An answer to a request that was given up goes nowhere.
Reply(n, p, attempt, k) ==
    IF par[p].step = "request" /\ par[p].attempt = attempt
      THEN <<Event(n, p, "SpawnReply", k)>> ELSE <<>>

\* apply_spawn: spawn_local starts the child, linked to the broker.
ApplySpawn(n, i) ==
    /\ n \in Placements /\ Takes(n, "SpawnRequest", i) /\ far[n].serving = <<>>
    /\ LET p == At(i).body[1]
       IN /\ kids' = [kids EXCEPT ![n] = Spawned(kids[n], p)]
          /\ far' = [far EXCEPT ![n] = Serving(far[n], p, At(i).body[2])]
    /\ Exchange(i, <<>>)
    /\ UNCHANGED <<par, waits>>

\* No such worker, or started refused: SpawnErr.
ApplySpawnFails(n, i) ==
    /\ n \in Placements /\ Takes(n, "SpawnRequest", i) /\ far[n].serving = <<>>
    /\ Exchange(i, Reply(n, At(i).body[1], At(i).body[2], None))
    /\ UNCHANGED spawnVars

ServeRegister(n) ==
    /\ far[n].serving # <<>> /\ far[n].serving[1] = "register"
    /\ far' = [far EXCEPT ![n] = Registered(far[n], Len(kids[n]))]
    /\ UNCHANGED <<netVars, par, waits, kids>>

\* The parent is noted, and SpawnOk is sent.
ServeReply(n) ==
    /\ far[n].serving # <<>> /\ far[n].serving[1] = "parent"
    /\ far' = [far EXCEPT ![n] = Noted(far[n], Len(kids[n]))]
    /\ Publish(Reply(n, far[n].serving[2], far[n].serving[3], Len(kids[n])))
    /\ UNCHANGED <<par, waits, kids>>

\* A child ends.  Its link tells the broker.
KidDies(n, k, reason) ==
    /\ k \in DOMAIN kids[n] /\ kids[n][k].state # "dead"
    /\ reason = "Kill" <=> kids[n][k].state = "killed"
    /\ far' = [far EXCEPT ![n] = Notified(far[n], k, reason)]
    /\ kids' = [kids EXCEPT ![n] = Ended(kids[n], far[n], k, reason)]
    /\ UNCHANGED <<netVars, par, waits>>

\* exit_received, propagate_child_exit: a child without a parent is not
\* reported; it ended before apply_spawn noted one.
PropagateChildExit(n) ==
    /\ far[n].broker /\ far[n].exits # <<>>
    /\ far' = [far EXCEPT ![n] = Propagated(far[n])]
    /\ kids' = [kids EXCEPT ![n] = Unreported(kids[n], far[n])]
    /\ LET k == Head(far[n].exits)
       IN Publish(IF Known(far[n]) THEN <<Event(n, Home, "ChildExit", <<far[n].parents[k], k>>)>>
                  ELSE <<>>)
    /\ UNCHANGED <<par, waits>>

\* apply_signal: an actor without a handle is unknown.
ApplySignal(n, i) ==
    /\ n \in Placements /\ Takes(n, "Signal", i)
    /\ kids' = [kids EXCEPT ![n] = Signalled(kids[n], far[n], At(i).body[1], At(i).body[2])]
    /\ Exchange(i, <<>>)
    /\ UNCHANGED <<par, waits, far>>

-----------------------------------------------------------------------------
(* Home.                                                                   *)

\* complete_remote_shutdown_wait: whoever waits for this number.
Complete(w, k) == [p \in Parents |->
    IF k \in DOMAIN w /\ w[k] = p THEN [par[p] EXCEPT !.rx = "fired"] ELSE par[p]]

\* apply_child_exit, at the broker of the parents.
ApplyChildExit(i) ==
    /\ Takes(Home, "ChildExit", i) /\ At(i).body \in Parents \X Nat
    /\ LET p == At(i).body[1]
           k == At(i).body[2]
       IN /\ par' = [Complete(waits, k) EXCEPT ![p].exits = Append(@, <<At(i).link[1], k>>)]
          /\ waits' = Del(waits, k)
    /\ Exchange(i, <<>>)
    /\ UNCHANGED <<kids, far>>

\* Mutant: Exits are handled while the request is under way.
HandleExitEarly(p) ==
    /\ par[p].step \in {"request", "up"} /\ par[p].exits # <<>>
    /\ par' = [par EXCEPT ![p].exits = Tail(@),
                 ![p].step = IF Head(par[p].exits) = <<NodeOf[p], par[p].child>> THEN "restart" ELSE @]
    /\ UNCHANGED <<netVars, waits, kids, far>>

\* handle_exit, between two messages of the parent: never while it awaits an
\* answer or a wait.  The exit of another instance is ignored.
HandleExit(p) ==
    /\ par[p].step \in {"up", "failed"} /\ par[p].exits # <<>>
    /\ par' = [par EXCEPT ![p].exits = Tail(@),
                 ![p].step = IF Head(par[p].exits) = <<NodeOf[p], par[p].child>> THEN "restart" ELSE @]
    /\ UNCHANGED <<netVars, waits, kids, far>>

\* The entry of a number goes: the sender it held is dropped, and its receiver
\* fails if it had not been sent to.
Dropped(k, f) == [p \in Parents |->
    IF k \in DOMAIN waits /\ waits[k] = p /\ f[p].rx = "empty"
      THEN [f[p] EXCEPT !.rx = "dropped"] ELSE f[p]]

\* register_shutdown_wait replaces an entry of the same number.
Register(p, step) ==
    LET k == par[p].child
        rest == Dropped(k, par)
    IN /\ par' = [rest EXCEPT ![p].rx = "empty", ![p].step = step]
       /\ waits' = Put(waits, k, p)

ShutdownRemoteAndWait(p) ==
    /\ par[p].step = "up"
    /\ Register(p, "signal")
    /\ UNCHANGED <<netVars, kids, far>>

ThreadsShutdownRemoteAndWait(p) == ShutdownRemoteAndWait(p)

Signal(p, signal) == Event(Home, NodeOf[p], "Signal", <<par[p].child, signal>>)

RemoteSignal(p) ==
    /\ par[p].step = "signal"
    /\ par' = [par EXCEPT ![p].step = "wait"]
    /\ Publish(<<Signal(p, IF par[p].how = "BrutalKill" THEN "Kill" ELSE "Shutdown")>>)
    /\ UNCHANGED <<waits, kids, far>>

\* clear_shutdown_wait on return: the entry of that number, whoever waits.
Return(p, result) ==
    LET k == par[p].child
    IN /\ par' = [Dropped(k, par) EXCEPT ![p].step = "returned", ![p].result = result,
                                         ![p].rx = "empty"]
       /\ waits' = Del(waits, k)
       /\ UNCHANGED <<netVars, kids, far>>

\* Mutant: an interrupted wait passes for a completed one.
WaitEndsLoosely(p) ==
    /\ par[p].step \in {"wait", "killed"} /\ par[p].rx # "empty"
    /\ Return(p, "Ok")

WaitEnds(p) ==
    /\ par[p].step \in {"wait", "killed"} /\ par[p].rx # "empty"
    /\ Return(p, IF par[p].rx = "fired" THEN "Ok" ELSE "Interrupted")

ThreadsWaitEnds(p) == WaitEnds(p)

\* The timed wait of a Timeout elapses: kill.
Escalate(p) ==
    /\ par[p].step = "wait" /\ par[p].rx = "empty" /\ par[p].how = "Timeout"
    /\ par' = [par EXCEPT ![p].step = "clear"]
    /\ Publish(<<Signal(p, "Kill")>>)
    /\ UNCHANGED <<waits, kids, far>>

\* tasks: the entry is cleared and a new one registered, its receiver not the
\* one an exit in between has fired.
Reregister(p) ==
    /\ par[p].step = "clear"
    /\ Register(p, "killed")
    /\ UNCHANGED <<netVars, kids, far>>

\* threads: the receiver is kept, and any failure of the first wait escalates.
ThreadsEscalate(p) ==
    /\ par[p].step = "wait" /\ par[p].rx # "fired" /\ par[p].how = "Timeout"
    /\ par' = [par EXCEPT ![p].step = "killed"]
    /\ Publish(<<Signal(p, "Kill")>>)
    /\ UNCHANGED <<waits, kids, far>>

\* Mutant: the wait after a kill has no limit.
KillGraceUnbounded(p) == par[p].step = "killed" /\ par[p].rx = "fired" /\ Return(p, "Timeout")

\* The grace after a kill elapses.
KillGrace(p) ==
    /\ par[p].step = "killed" \/ (par[p].step = "wait" /\ par[p].how = "BrutalKill")
    /\ par[p].rx = "empty"
    /\ Return(p, "Timeout")

-----------------------------------------------------------------------------
HomeStep(p) ==
    \/ HandleExit(p) \/ RemoteSignal(p) \/ WaitEnds(p)
    \/ Escalate(p) \/ Reregister(p) \/ ThreadsEscalate(p) \/ KillGrace(p)

ThreadsStep(p) ==
    ThreadsRetrySpawn(p) \/ ThreadsShutdownRemoteAndWait(p) \/ ThreadsWaitEnds(p)

FarStep(n) == ServeRegister(n) \/ ServeReply(n) \/ PropagateChildExit(n)

Delivered(i) ==
    \/ \E n \in Placements : ApplySpawn(n, i) \/ ApplySpawnFails(n, i) \/ ApplySignal(n, i)
    \/ ApplyChildExit(i)
    \/ \E p \in Parents : SpawnAnswer(p, i)

SpawnNext ==
    \/ \E p \in Parents : RequestSpawn(p) \/ RetrySpawn(p) \/ ShutdownRemoteAndWait(p) \/ HomeStep(p)
    \/ \E p \in Parents : ThreadsStep(p) \/ \E i \in Places : ThreadsSpawnAnswer(p, i)
    \/ \E n \in Placements : FarStep(n)
    \/ \E n \in Placements : \E k \in DOMAIN kids[n] : \E r \in {"Shutdown", "Kill"} : KidDies(n, k, r)
    \/ \E i \in Places : Delivered(i)

-----------------------------------------------------------------------------
(* Properties.                                                             *)

\* The instances a parent has on its node are at most its attempts, and it has
\* one it does not know of only if it tried again or gave up.
InstancesAccounted ==
    \A p \in Parents :
        LET mine == Len(kids[NodeOf[p]])
        IN /\ mine <= par[p].attempt /\ par[p].attempt <= MaxAttempts
           /\ par[p].child # None /\ par[p].attempt = 1 => mine = 1

\* Where the exit of child k of node n is on its way to parent p.
ExitUnderWay(p, n, k) ==
    \/ k \in Range(far[n].exits)
    \/ \E i \in Places : At(i).kind = "ChildExit" /\ At(i).link[1] = n /\ At(i).body = <<p, k>>
    \/ <<n, k>> \in Range(par[p].exits)

\* A parent that still counts on a child that is dead will be told, even if the
\* exit overtakes the answer that names the child; unless the child ended before
\* its parent was noted, the broker was killed by a child, or an event got lost.
DeadChildReported ==
    \A p \in Parents : LET n == NodeOf[p] k == par[p].child IN
        par[p].step = "up" /\ kids[n][k].state = "dead" =>
            ExitUnderWay(p, n, k) \/ kids[n][k].exit # "told" \/ "ChildExit" \in lost

\* A shutdown that returns Ok saw the exit of its child, or of a child of
\* another node with the same number: waits are kept by bare ActorId.
OkMeansExit ==
    \A p \in Parents : par[p].result = "Ok" =>
        \E n \in Placements : par[p].child \in DOMAIN kids[n] /\ kids[n][par[p].child].state = "dead"

\* A shutdown with a limit returns, whatever is lost and whoever was killed.
ShutdownReturns ==
    \A p \in Parents :
        par[p].step \in {"signal", "wait", "clear", "killed"} /\ par[p].how # "Infinity"
            ~> par[p].step = "returned"
=============================================================================
