---------------------------- MODULE MCSupervisor ---------------------------
(* Small supervisors: two or three children and a few crashes.             *)
EXTENDS Supervisor

\* Crashes close together and apart, on both sides of the window.
OneForOne ==
    [strategy |-> "OneForOne",
     restart |-> <<"Permanent", "Permanent">>, shutdown |-> <<"Infinity", "Infinity">>,
     maxRestarts |-> 1, within |-> 1, requests |-> {"stop"},
     maxCrashes |-> 3, maxTime |-> 3]

\* A child is killed by its supervisor while the other crashes.
OneForAll ==
    [strategy |-> "OneForAll",
     restart |-> <<"Permanent", "Permanent">>, shutdown |-> <<"BrutalKill", "Timeout">>,
     maxRestarts |-> 2, within |-> 1, requests |-> {"stop"},
     maxCrashes |-> 2, maxTime |-> 1]

\* The three restart types, and escalation of the wait.
RestForOne ==
    [strategy |-> "RestForOne",
     restart |-> <<"Permanent", "Temporary", "Transient">>,
     shutdown |-> <<"Timeout", "Timeout", "Timeout">>,
     maxRestarts |-> 2, within |-> 1, requests |-> {},
     maxCrashes |-> 2, maxTime |-> 0]

\* Supervisors that may be killed.
KilledOneForOne ==
    [OneForOne EXCEPT !.requests = {"kill"}, !.maxCrashes = 2, !.maxTime = 2]
KilledOneForAll == [OneForAll EXCEPT !.requests = {"kill"}, !.maxTime = 0]

SafetyPolicies == {OneForOne, OneForAll, RestForOne}
FairPolicies == {KilledOneForOne, KilledOneForAll}
=============================================================================
