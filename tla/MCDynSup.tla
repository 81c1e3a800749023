------------------------------ MODULE MCDynSup ------------------------------
(* Dynamic supervisors with two or three children.                         *)
EXTENDS DynamicSupervisor

CONSTANTS x

Local ==
    [maxChildren |-> 1, maxRestarts |-> 1, restarts |-> {"permanent", "temporary"},
     shutdown |-> "Timeout", names |-> {None, x}, remote |-> FALSE, first |-> 1,
     requests |-> {"stop"}, maxStarts |-> 2, maxCrashes |-> 2]

Killed ==
    [Local EXCEPT !.maxChildren = 2, !.restarts = {"transient"}, !.shutdown = "BrutalKill",
                  !.requests = {"kill"}, !.names = {None}]

\* Children on both nodes; ActorIds of the other node overlap or do not.
Far == [Local EXCEPT !.names = {None}, !.remote = TRUE, !.first = 10, !.maxChildren = 2,
                     !.restarts = {"permanent"}, !.shutdown = "Infinity", !.maxCrashes = 1]
Clashing == [Far EXCEPT !.first = 2]

AllConfigs == {Local, Killed, Far, Clashing}
=============================================================================
