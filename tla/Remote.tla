------------------------------- MODULE Remote -------------------------------
(***************************************************************************)
(* Supervision across nodes: a behaviour is one owner and one target that  *)
(* watch each other, or parents with children on nodes of their own: some  *)
(* of them spawn theirs, or all have one.                                  *)
(***************************************************************************)
EXTENDS RemoteWatch, RemoteSpawn

CONSTANTS
    Spawners,   \* the parents that spawn
    MaxLost     \* bound: kinds of event that get lost on the way

vars == <<netVars, watchVars, spawnVars>>

Init ==
    /\ NetInit /\ WatchInit
    /\ \/ watch \in {"monitors", "links"} /\ SpawnInit({})
       \/ watch = "nothing" /\ record = "registered" /\ SpawnInit(Spawners)
       \/ watch = "nothing" /\ record = "registered" /\ SpawnedInit /\ transport = "tcp"

Watching == watch # "nothing" /\ WatchNext /\ UNCHANGED spawnVars
Spawning == watch = "nothing" /\ SpawnNext /\ UNCHANGED watchVars
Losing ==
    /\ Cardinality(lost) < MaxLost
    /\ \E i \in Places : Lose(i)
    /\ UNCHANGED <<watchVars, spawnVars>>

Next == Watching \/ Spawning \/ Losing

Spec == Init /\ [][Next]_vars

\* What is delivered and the steps of tasks happen; so do the steps of a parent
\* that awaits.
FairSpec ==
    /\ Spec
    /\ WF_vars(watch # "nothing" /\ WatchStep /\ UNCHANGED spawnVars)
    /\ \A x \in Parents :
         WF_vars(watch = "nothing" /\ HomeStep(x) /\ UNCHANGED watchVars)
=============================================================================
