--------------------------- MODULE ServicesProofs ---------------------------
(***************************************************************************)
(* Proofs about Services for any actors, monitors, requests, waits and     *)
(* groups: what a Down, the result of a request and the result of a wait   *)
(* mean, and who is a member, whatever the other services do to the same   *)
(* actors.                                                                 *)
(***************************************************************************)
EXTENDS Services, ActorProofs

Messages ==
    {DownMsg(ref) : ref \in MonitorRefs} \union {TickMsg(f) : f \in Timers}
        \union {ReqMsg(r) : r \in RequestIds} \union {CastMsg}

\* What a step of the composition may be, for the actors, monitors and requests.
Composed ==
    \/ Kinds(Others(Messages)) /\ UNCHANGED req /\ (UNCHANGED mon \/ MonitorNext)
    \/ UNCHANGED mon /\ RequestNext
    \/ /\ UNCHANGED mon
       /\ \E a \in Actors : DropRequests(a) \/ \E panics \in BOOLEAN : Handle(a, panics)

\* The messages of the other services are no requests.
LEMMA OtherMessages ==
    /\ \A ref \in MonitorRefs : DownMsg(ref) \in Others(Messages)
    /\ \A f \in Timers : TickMsg(f) \in Others(Messages)
    /\ CastMsg \in Others(Messages)
  BY DEF Others, Messages, ReqMsg, DownMsg, TickMsg, CastMsg

\* Every step of the composition is one of those.
LEMMA Composition == LifeInv(Messages) /\ [Next]_vars => Composed
  <1> SUFFICES ASSUME LifeInv(Messages), [Next]_vars PROVE Composed
    OBVIOUS
  <1> DEFINE Kind == Kinds(Others(Messages))
  <1>s. ASSUME NEW a, NEW m \in Others(Messages), SendOrDrop(a, m), UNCHANGED <<phase, handling>>
        PROVE  Kind
    <2>1. Sends(Others(Messages))
      BY <1>s DEF SendOrDrop, Push, Sends
    <2> QED
      BY <2>1 DEF Kinds
  <1>l. ASSUME UNCHANGED lifeVars PROVE Kind
    BY <1>l DEF lifeVars, Kinds
  <1>e. ASSUME NEW a \in Actors, handling[a] = Idle, phase[a] # "dead", UNCHANGED <<queue, handling>>,
               NEW p \in {"leaving", "dropped", "removed", "dead"}, phase' = [phase EXCEPT ![a] = p]
        PROVE  Kind
    <2>1. Ends
      BY <1>e DEF Ends
    <2> QED
      BY <2>1 DEF Kinds
  <1>k. ASSUME Kind, UNCHANGED <<mon, req>> PROVE Composed
    BY <1>k DEF Composed
  <1>1. CASE UNCHANGED vars
    BY <1>1, <1>l, <1>k DEF vars
  <1>2. ASSUME NEW a \in Actors, Runs(a) PROVE Composed
    <2>1. CASE Receive(a) /\ UNCHANGED <<mon, req>>
      BY <2>1, <1>k DEF Kinds
    <2>2. CASE (Leave(a) \/ Complete(a) \/ RemoveFromGroups(a)) /\ UNCHANGED <<mon, req>>
      <3>1. handling[a] = Idle /\ phase[a] # "dead"
        BY <2>2 DEF Leave, Complete, RemoveFromGroups, LifeInv
      <3>2. Kind
        BY <2>2, <3>1, <1>e DEF Leave, Complete, RemoveFromGroups
      <3> QED
        BY <2>2, <3>2, <1>k
    <2>3. CASE ((\E panics \in BOOLEAN : Handle(a, panics)) \/ DropRequests(a)) /\ UNCHANGED mon
      BY <2>3 DEF Composed
    <2> QED
      BY <1>2, <2>1, <2>2, <2>3 DEF Runs, CompletionGuard, ExitRemoves
  <1>3. ASSUME NEW a \in Actors, Stop(a), UNCHANGED <<mon, req>> PROVE Composed
    BY <1>3, <1>k DEF Stop, Kinds
  <1>4. ASSUME NEW a \in Actors, (\E panics \in BOOLEAN : ThreadsHandle(a, panics)), UNCHANGED mon
        PROVE  Composed
    BY <1>4 DEF ThreadsHandle, Composed
  <1>5. CASE MonitorNext /\ UNCHANGED req
    <2>1. ASSUME NEW ref \in MonitorRefs, DeliverDown(ref) PROVE Kind
      <3>1. CASE mon[ref].active
        BY <2>1, <3>1, <1>s, OtherMessages DEF DeliverDown
      <3>2. CASE ~mon[ref].active
        BY <2>1, <3>2 DEF DeliverDown, Kinds
      <3> QED
        BY <3>1, <3>2
    <2>2. Kind
      BY <1>5, <2>1, <1>l DEF MonitorNext, MonitorTask, Monitor, ThreadsMonitor, Demonitor,
         ThreadsDemonitor, TargetExited
    <2> QED
      BY <1>5, <2>2 DEF Composed
  <1>6. CASE RequestNext /\ UNCHANGED mon
    BY <1>6 DEF Composed
  <1>7. CASE ForwarderNext /\ UNCHANGED <<mon, req>>
    <2>1. ASSUME NEW f \in Timers, Forward(f) PROVE Kind
      BY <2>1, <1>s, OtherMessages DEF Forward
    <2>2. Kind
      BY <1>7, <2>1, <1>l DEF ForwarderNext, ForwarderStep, CancelTimer, TasksTimer, TasksMessageOn,
         TasksListener, ThreadsTimer, ThreadsMessageOn, ThreadsCheck, ThreadsListener, Step
    <2> QED
      BY <1>7, <2>2, <1>k
  <1>8. CASE SignalNext /\ UNCHANGED <<mon, req>>
    <2>1. ASSUME NEW a \in Actors, SignalReceived(a) PROVE Kind
      BY <2>1, <1>e DEF SignalReceived
    <2>2. Kind
      BY <1>8, <2>1, <1>l DEF SignalNext, SignalSteps, SpawnDispatcher, RegisterHandle, Started,
         RunWait, RunReturns, Listen, DispatchSignal, ThreadsSpawnDispatcher, ThreadsStarted,
         ThreadsRunReturns, OsSignal, ShutdownOnSignal, DropGuard
    <2> QED
      BY <1>8, <2>2, <1>k
  <1>9. CASE WaitNext /\ UNCHANGED <<mon, req>>
    <2>1. ASSUME Abort PROVE Kind
      <3>1. Aborts
        BY <2>1 DEF Abort, Aborts
      <3> QED
        BY <3>1 DEF Kinds
    <2>2. Kind
      BY <1>9, <2>1, <1>l DEF WaitNext, WaitStep, WaitExitAsync, WaitExitAsyncWithTimeout,
         ThreadsWaitBlocking, TasksWaitBlocking, Begin, Look, Changed, WaitTimeout, PoolTimeout,
         PoolReturns, SpuriousWakeup
    <2> QED
      BY <1>9, <2>2, <1>k
  <1>10. CASE GroupNext /\ UNCHANGED <<mon, req>>
    <2>1. ASSUME NEW a \in Actors, SendToMember(a) PROVE Kind
      BY <2>1, <1>s, OtherMessages DEF SendToMember
    <2>2. ASSUME Sending PROVE Kind
      BY <2>2, <2>1, <1>l DEF Sending, Answered, Returns
    <2>3. ASSUME ~Sending PROVE Kind
      <3>1. ASSUME NEW a \in Actors, NEW g \in GroupKeys,
                   Join(a, g) \/ LeaveGroup(a, g)
            PROVE  UNCHANGED lifeVars
        BY <3>1 DEF Join, LeaveGroup
      <3>2. ASSUME NEW g \in GroupKeys, CastScoped(g) \/ CallScoped(g)
            PROVE  UNCHANGED lifeVars
        BY <3>2 DEF CastScoped, CallScoped, Broadcast
      <3>3. ASSUME NEW g \in GroupKeys, NEW s, Dispatch(g, s) PROVE UNCHANGED lifeVars
        BY <3>3 DEF Dispatch
      <3>4. ASSUME NEW a \in Actors, JoinTyped(a) PROVE UNCHANGED lifeVars
        BY <3>4 DEF JoinTyped
      <3>5. ASSUME NEW g \in GroupKeys, Query(g) PROVE UNCHANGED lifeVars
        BY <3>5 DEF Query
      <3> QED
        BY <1>10, <2>3, <3>1, <3>2, <3>3, <3>4, <3>5, <1>l DEF GroupNext, ThreadsJoin,
           ThreadsLeaveGroup, ThreadsCastScoped, ThreadsCallScoped, ThreadsDispatch
    <2> QED
      BY <1>10, <2>2, <2>3, <1>k
  <1> QED
    BY <1>1, <1>2, <1>3, <1>4, <1>5, <1>6, <1>7, <1>8, <1>9, <1>10 DEF Next

\* Only a completion and the calls themselves change what a call waits for.
LEMMA WaitSteps ==
    [Next]_vars => UNCHANGED exiting \/ WaitNext \/ \E a \in Actors : CompletionGuard(a)
  BY DEF Next, vars, Runs

\* Nobody but the actor itself takes it out of the groups, and past that come only
\* actors that were out and one whose runtime is shut down.
LEMMA GroupSteps ==
    ASSUME LifeInv(Messages), [Next]_vars
    PROVE  \/ GroupNext
           \/ \E a \in Actors : ExitRemoves(a)
           \/ UNCHANGED groupVars /\ (Abort \/ \A a \in Actors : Removed(a)' => Removed(a))
  <1> DEFINE Kept == \A a \in Actors : Removed(a)' => Removed(a)
  <1>0. phase \in [Actors -> {"up", "leaving", "dropped", "removed", "dead"}]
    BY DEF LifeInv
  <1>u. ASSUME UNCHANGED phase PROVE Kept
    BY <1>u DEF Removed
  <1>l. ASSUME UNCHANGED lifeVars PROVE Kept
    BY <1>l, <1>u DEF lifeVars
  <1>p. ASSUME NEW a, NEW p \in {"leaving", "dropped", phase[a]}, phase' = [phase EXCEPT ![a] = p]
        PROVE  Kept
    BY <1>0, <1>p DEF Removed
  <1>h. ASSUME NEW a \in Actors, NEW panics, HandlerEnds(a, panics) PROVE Kept
    BY <1>h, <1>p DEF HandlerEnds
  <1>1. CASE UNCHANGED vars
    BY <1>1, <1>l DEF vars
  <1>2. ASSUME NEW a \in Actors, Runs(a), ~ExitRemoves(a) PROVE Kept /\ UNCHANGED groupVars
    <2>1. CASE Receive(a) /\ UNCHANGED groupVars
      BY <1>u, <2>1 DEF Receive
    <2>2. CASE Leave(a) /\ UNCHANGED groupVars
      BY <1>p, <2>2 DEF Leave
    <2>3. CASE CompletionGuard(a) /\ UNCHANGED groupVars
      BY <1>0, <2>3 DEF CompletionGuard, Complete, Removed
    <2>4. CASE (\E panics \in BOOLEAN : Handle(a, panics)) /\ UNCHANGED groupVars
      BY <1>h, <2>4 DEF Handle
    <2>5. CASE DropRequests(a) /\ UNCHANGED groupVars
      BY <1>p, <2>5 DEF DropRequests, DropReceiver
    <2> QED
      BY <1>2, <2>1, <2>2, <2>3, <2>4, <2>5 DEF Runs
  <1>3. ASSUME NEW a \in Actors, Stop(a) PROVE Kept
    BY <1>3, <1>u DEF Stop
  <1>4. ASSUME NEW a \in Actors, NEW panics, ThreadsHandle(a, panics) PROVE Kept
    BY <1>4, <1>h DEF ThreadsHandle, Handle
  <1>5. ASSUME MonitorNext PROVE Kept
    BY <1>5, <1>l, <1>u DEF MonitorNext, MonitorTask, Monitor, ThreadsMonitor, Demonitor,
       ThreadsDemonitor, TargetExited, DeliverDown
  <1>6. ASSUME RequestNext PROVE Kept
    <2>1. ASSUME NEW c, NEW a, NEW timed, NEW r, RequestRaw(c, a, timed, r) PROVE Kept
      BY <1>u, <2>1 DEF RequestRaw
    <2> QED
      BY <1>6, <2>1, <1>l DEF RequestNext, ActorRefRequest, ThreadsActorRefRequest, ContextRequest,
         ThreadsContextRequest, Caller, ThreadsResume, Timeout, Resume
  <1>7. ASSUME ForwarderNext PROVE Kept
    <2>1. ASSUME NEW t, Forward(t) PROVE Kept
      BY <1>u, <2>1 DEF Forward
    <2> QED
      BY <1>7, <2>1, <1>l DEF ForwarderNext, ForwarderStep, CancelTimer, TasksTimer, TasksMessageOn,
         TasksListener, ThreadsTimer, ThreadsMessageOn, ThreadsCheck, ThreadsListener, Step
  <1>8. ASSUME SignalNext PROVE Kept
    <2>1. ASSUME NEW a \in Actors, SignalReceived(a) PROVE Kept
      BY <1>p, <2>1 DEF SignalReceived
    <2> QED
      BY <1>8, <2>1, <1>l, <1>u DEF SignalNext, SignalSteps, SpawnDispatcher, RegisterHandle, Started,
         RunWait, RunReturns, Listen, DispatchSignal, ThreadsSpawnDispatcher, ThreadsStarted,
         ThreadsRunReturns, OsSignal, ShutdownOnSignal, DropGuard
  <1>9. ASSUME WaitNext, ~Abort PROVE Kept
    BY <1>9, <1>l DEF WaitNext, WaitStep, WaitExitAsync, WaitExitAsyncWithTimeout,
       ThreadsWaitBlocking, TasksWaitBlocking, Begin, Look, Changed, WaitTimeout, PoolTimeout,
       PoolReturns, SpuriousWakeup
  <1> HIDE DEF Kept
  <1>10. CASE ~UNCHANGED vars /\ ~GroupNext /\ ~\E a \in Actors : ExitRemoves(a)
    <2>1. ASSUME NEW a \in Actors, Runs(a) PROVE Kept /\ UNCHANGED groupVars
      BY <1>2, <1>10, <2>1
    <2>2. UNCHANGED groupVars /\ (Abort \/ Kept)
      BY <1>3, <1>4, <1>5, <1>6, <1>7, <1>8, <1>9, <1>10, <2>1 DEF Next
    <2> QED
      BY <2>2 DEF Kept
  <1> QED
    BY <1>1, <1>10 DEF Kept, vars

-----------------------------------------------------------------------------

Uses == {{"monitors"}, {"requests"}, {"timers"}, {"signals"}, {"waits"}, {"groups"}, {"pool"}}

\* What holds of the actors, and of each service.
ServicesInv ==
    /\ use \in Uses /\ LifeInv(Messages)
    /\ MonInv /\ ReqInv /\ WaitInv /\ GroupInv /\ GroupsUsed

\* It holds of actors just started, with nothing monitored or requested.
LEMMA ServicesInit == Init => ServicesInv
  <1> SUFFICES ASSUME Init PROVE ServicesInv
    OBVIOUS
  <1>1. LifeInv(Messages)
    <2>1. <<>> \in Seq(Messages)
      OBVIOUS
    <2> QED
      BY <2>1 DEF Init, LifeInit, LifeInv
  <1>2. MonInv
    BY DEF Init, MonitorInit, MonInv, MonType, OneMon
  <1>3. ReqInv
    <2>1. \A r \in RequestIds : Nowhere(r) /\ Once(r)
      BY IdleAssumption DEF Init, LifeInit, Nowhere, Once, Handled, Queued
    <2>2. req \in [RequestIds -> ReqType] /\ \A r \in RequestIds : req[r].state = "none" /\ ~req[r].done
      BY DEF Init, RequestInit, ReqType
    <2> QED
      BY <2>1, <2>2 DEF ReqInv, OneReq
  <1>4. WaitInv
    <2>1. NoCall \in CallType /\ NoCall.found = "none" /\ NoCall.result = "none"
      BY DEF NoCall, CallType, WaitResults
    <2>2. /\ exiting.runtime \in {"tasks", "threads"} /\ exiting.aborted = FALSE
          /\ exiting.calls = [w \in Waits |-> NoCall]
          /\ exiting = [runtime |-> exiting.runtime, aborted |-> exiting.aborted,
                        calls |-> exiting.calls]
      BY DEF Init, WaitInit
    <2> QED
      BY <2>1, <2>2 DEF WaitInv, Truthful
  <1>5. GroupInv /\ GroupsUsed
    <2>1. joining = [a \in Actors |-> Idle] /\ \A a \in Actors : phase[a] = "up"
      BY DEF Init, GroupInit, LifeInit
    <2>2. CASE "pool" \notin use
      <3>1. /\ IsStore(pg) /\ pg.groups = Empty /\ pg.remote = Empty /\ pg.typed = Empty
        BY <2>2 DEF Init, GroupInit, NoGroups, IsStore
      <3>2. \A h : Locals(pg, h) = {} /\ Remotes(pg, h) = {} /\ TypedOf(pg, h) = {}
        BY <3>1 DEF Locals, Remotes, TypedOf, Entry, Has, Empty
      <3>3. Sound(pg)
        BY <3>1, <3>2 DEF Sound, NoRemotes, Empty
      <3> QED
        BY <2>1, <3>2, <3>3, GroupKeysAssumption DEF GroupInv, GroupsUsed, Removed
    <2>3. CASE "pool" \in use
      <3>1. /\ IsStore(pg) /\ pg.remote = Empty
            /\ pg.groups = Put(Empty, PoolGroup, [a \in Actors |-> 1])
            /\ pg.index = [a \in Actors |-> {PoolGroup}]
            /\ pg.typed = Put(Empty, PoolGroup, Actors)
        BY <2>3 DEF Init, GroupInit, PoolStarted, NoGroups, IsStore
      <3>2. \A h : /\ Locals(pg, h) = IF h = PoolGroup THEN Actors ELSE {}
                   /\ TypedOf(pg, h) = IF h = PoolGroup THEN Actors ELSE {}
                   /\ Remotes(pg, h) = {}
        BY <3>1 DEF Locals, Remotes, TypedOf, Entry, Has, Put, Empty
      <3>3. /\ \A a \in Actors : Indexed(pg, a) = {PoolGroup}
            /\ DOMAIN pg.groups = {PoolGroup}
        BY <3>1 DEF Indexed, Entry, Has, Put, Empty
      <3>4. Sound(pg)
        BY <3>1, <3>2, <3>3, ActorsAssumption DEF Sound, NoRemotes
      <3> QED
        BY <2>1, <2>3, <3>2, <3>4, GroupKeysAssumption DEF GroupInv, GroupsUsed, Removed
    <2> QED
      BY <2>2, <2>3
  <1>6. use \in Uses
    BY DEF Init, Uses
  <1> QED
    BY <1>1, <1>2, <1>3, <1>4, <1>5, <1>6 DEF ServicesInv

\* Every step keeps it.
LEMMA ServicesStep == ServicesInv /\ [Next]_vars => ServicesInv'
  <1> SUFFICES ASSUME ServicesInv, [Next]_vars PROVE ServicesInv'
    OBVIOUS
  <1>1. LifeInv(Messages) /\ MonInv /\ ReqInv /\ Composed
    BY Composition DEF ServicesInv
  <1>2. IdleIsNoRequest /\ \A r \in RequestIds : ReqMsg(r) \in Messages
    BY IdleAssumption DEF IdleIsNoRequest, Messages
  <1>3. ReqInv'
    BY <1>1, <1>2, ReqStep DEF Composed
  <1>4. Kinds(Messages)
    <2>1. CASE Kinds(Others(Messages))
      BY <2>1 DEF Kinds, Sends, Others
    <2>2. ASSUME NEW c, NEW a \in Actors, NEW timed \in BOOLEAN, NEW r \in RequestIds,
                 RequestRaw(c, a, timed, r)
          PROVE  Kinds(Messages)
      <3>1. Sends(Messages)
        BY <1>2, <2>2 DEF RequestRaw, SendOrDrop, Push, Sends
      <3> QED
        BY <3>1 DEF Kinds
    <2>3. CASE RequestNext
      <3>1. ASSUME UNCHANGED lifeVars PROVE Kinds(Messages)
        BY <3>1 DEF lifeVars, Kinds
      <3> QED
        BY <2>2, <2>3, <3>1 DEF RequestNext, ActorRefRequest, ThreadsActorRefRequest, ContextRequest,
           ThreadsContextRequest, Caller, ThreadsResume, Timeout, Resume
    <2>4. ASSUME NEW a \in Actors, DropRequests(a) \/ \E panics \in BOOLEAN : Handle(a, panics)
          PROVE  Kinds(Messages)
      BY <2>4 DEF DropRequests, Handle, Kinds, Loses
    <2> QED
      BY <1>1, <2>1, <2>3, <2>4 DEF Composed
  <1>5. LifeInv(Messages)' /\ \A a \in Actors : phase[a] = "dead" => phase'[a] = "dead"
    BY <1>1, <1>4, LifeStep
  <1>6. UNCHANGED mon \/ MonitorNext
    BY <1>1 DEF Composed
  <1>7. MonInv'
    BY <1>1, <1>4, <1>6, MonStep
  <1>8. WaitInv'
    <2>1. Waited \in Actors /\ DOMAIN phase = Actors
      BY <1>1, ActorsAssumption DEF Waited, LifeInv
    <2>2. UNCHANGED exiting \/ WaitNext \/ \E a \in Actors : CompletionGuard(a)
      BY WaitSteps
    <2> QED
      BY <1>5, <2>1, <2>2, WaitKept DEF ServicesInv
  <1>9. UNCHANGED use
    BY DEF Next, vars
  <1>10. GroupInv' /\ GroupsUsed'
    <2>1. ASSUME Abort PROVE \A a, g : a \notin Locals(pg, g)
      <3>1. use = {"waits"}
        BY <2>1 DEF Abort, ServicesInv, Uses
      <3> QED
        BY <3>1 DEF ServicesInv, GroupsUsed
    <2>2. \/ GroupNext
          \/ \E a \in Actors : ExitRemoves(a)
          \/ /\ UNCHANGED groupVars
             /\ \A a \in Actors, g \in GroupKeys : Removed(a)' /\ a \in Locals(pg, g) => Removed(a)
      BY <1>1, <2>1, GroupSteps
    <2> QED
      BY <1>5, <1>9, <2>2, GroupKept DEF ServicesInv
  <1> QED
    BY <1>3, <1>5, <1>7, <1>8, <1>9, <1>10 DEF ServicesInv

\* Context::monitor and demonitor, in both runtimes: at most one Down, only for
\* a published exit, and none when demonitor() came before that exit.
THEOREM Downs == Spec => []DownOnce
  <1>1. ServicesInv => DownOnce
    BY DEF ServicesInv, MonInv, OneMon, DownOnce, MonType
  <1> QED
    BY <1>1, ServicesInit, ServicesStep, PTL DEF Spec

\* request and request_with_timeout, in both runtimes: Ok comes from a handler
\* that returned, ActorStopped means that it has not run and never will.
THEOREM Results == Spec => []ResultMeaning
  <1>1. ServicesInv => ResultMeaning
    <2> SUFFICES ASSUME ServicesInv, NEW r \in RequestIds
                 PROVE  /\ req[r].state = "Ok" => req[r].done
                        /\ req[r].state = "ActorStopped" =>
                             ~req[r].done /\ \A a \in Actors :
                                handling[a] # ReqMsg(r) /\ ReqMsg(r) \notin Range(queue[a])
      BY DEF ResultMeaning
    <2>1. Nowhere(r) => \A a \in Actors : handling[a] # ReqMsg(r) /\ ReqMsg(r) \notin Range(queue[a])
      <3>1. \A a \in Actors : queue[a] \in Seq(Messages)
        BY DEF ServicesInv, LifeInv
      <3>2. \A a \in Actors : ReqMsg(r) \in Range(queue[a]) => \E i \in Nat : Queued(a, i, r)
        BY <3>1 DEF Range, Queued
      <3> QED
        BY <3>2 DEF Nowhere, Handled
    <2> QED
      BY <2>1 DEF ServicesInv, ReqInv, OneReq
  <1> QED
    BY <1>1, ServicesInit, ServicesStep, PTL DEF Spec

\* wait_exit and join, in both runtimes: the reason returned is the one published,
\* and Kill is made up for an aborted task only.
THEOREM WaitsTruthful == Spec => []WaitTruthful
  <1>1. ServicesInv => WaitTruthful
    BY DEF ServicesInv, WaitInv, Truthful, WaitTruthful
  <1> QED
    BY <1>1, ServicesInit, ServicesStep, PTL DEF Spec

\* pg and pools, in both runtimes: past its removal an actor is a member only of
\* groups it was joined to afterwards, the typed members that live are the members
\* up to joins that are not finished, and no group is empty.
THEOREM GroupMembers == Spec => []GroupsAgree
  <1>1. ServicesInv => GroupsAgree
    BY InvAgrees DEF ServicesInv
  <1> QED
    BY <1>1, ServicesInit, ServicesStep, PTL DEF Spec
=============================================================================
