------------------------------ MODULE Services ------------------------------
(***************************************************************************)
(* Actors and the services around them: monitors, requests, timers and     *)
(* streams, OS signals and the application, waits for their exit, process  *)
(* groups and pools.                                                       *)
(***************************************************************************)
EXTENDS Monitors, Requests, Forwarders, ShutdownSignals, ExitWaits, Groups

\* There are actors; Idle is neither an actor nor a message.
ASSUME ActorsAssumption == Actors # {}
ASSUME IdleAssumption == Idle \notin Actors /\ \A r \in RequestIds : ReqMsg(r) # Idle

vars == <<use, lifeVars, mon, req, fwd, sig, exiting, groupVars>>

Init ==
    /\ use \in {{"monitors"}, {"requests"}, {"timers"}, {"signals"}, {"waits"},
              {"groups"}, {"pool"}}
    /\ LifeInit /\ MonitorInit /\ RequestInit /\ ForwarderInit /\ SignalInit /\ WaitInit
    /\ GroupInit

\* The steps of an actor by itself.
Runs(a) ==
    \/ (Receive(a) \/ Leave(a)) /\ UNCHANGED <<mon, req, fwd, sig, exiting, groupVars>>
    \/ CompletionGuard(a) /\ UNCHANGED <<mon, req, fwd, sig, groupVars>>
    \/ /\ (\E panics \in BOOLEAN : Handle(a, panics)) \/ DropRequests(a)
       /\ UNCHANGED <<mon, fwd, sig, exiting, groupVars>>
    \/ ExitRemoves(a) /\ UNCHANGED <<mon, req, fwd, sig, exiting>>

Next ==
    /\ UNCHANGED use
    /\ \/ \E a \in Actors :
            \/ Runs(a)
            \/ /\ "waits" \in use => a = Waited
               /\ Stop(a) /\ UNCHANGED <<mon, req, fwd, sig, exiting, groupVars>>
            \/ /\ \E panics \in BOOLEAN : ThreadsHandle(a, panics)
               /\ UNCHANGED <<mon, fwd, sig, exiting, groupVars>>
       \/ MonitorNext /\ UNCHANGED <<req, fwd, sig, exiting, groupVars>>
       \/ RequestNext /\ UNCHANGED <<mon, fwd, sig, exiting, groupVars>>
       \/ ForwarderNext /\ UNCHANGED <<mon, req, sig, exiting, groupVars>>
       \/ SignalNext /\ UNCHANGED <<mon, req, fwd, exiting, groupVars>>
       \/ WaitNext /\ UNCHANGED <<mon, req, fwd, sig, groupVars>>
       \/ GroupNext /\ UNCHANGED <<mon, req, fwd, sig, exiting>>

Spec == Init /\ [][Next]_vars

\* What the executor or the operating system runs sooner or later: actors
\* (their handlers return), the tasks and threads of the services, and the
\* callers.  Nobody has to stop an actor, send a request or raise a signal.
\* The behaviours about the group store itself are checked for safety only.
FairSpec ==
    /\ Spec
    /\ \A a \in Actors : WF_vars("groups" \notin use /\ Runs(a) /\ UNCHANGED use)
    /\ \A ref \in MonitorRefs :
         WF_vars(/\ "monitors" \in use /\ MonitorTask(ref)
                 /\ UNCHANGED <<use, req, fwd, sig, exiting, groupVars>>)
    /\ \A r \in RequestIds :
         WF_vars(/\ "requests" \in use /\ Caller(r)
                 /\ UNCHANGED <<use, mon, fwd, sig, exiting, groupVars>>)
    /\ \A f \in Timers :
         WF_vars(/\ "timers" \in use /\ ForwarderStep(f)
                 /\ UNCHANGED <<use, mon, req, sig, exiting, groupVars>>)
    /\ WF_vars(/\ "signals" \in use /\ SignalSteps
               /\ UNCHANGED <<use, mon, req, fwd, exiting, groupVars>>)
    /\ \A w \in Waits :
         WF_vars("waits" \in use /\ WaitStep(w) /\ UNCHANGED <<use, mon, req, fwd, sig, groupVars>>)
    /\ WF_vars("pool" \in use /\ Sending /\ UNCHANGED <<use, mon, req, fwd, sig, exiting>>)

=============================================================================
