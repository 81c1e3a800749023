----------------------------- MODULE MCCluster -----------------------------
(***************************************************************************)
(* The transports on small instances: a behaviour is two nodes with a      *)
(* small budget of calls and failures over TCP, one libp2p node, or the    *)
(* nodes that a process builds and drops.                                  *)
(***************************************************************************)
EXTENDS TcpCluster, Libp2pCluster, NodeLife

vars == <<tcpVars, swarmVars, nodeVars>>

Budget(used, calls_, syncs, requests, failures) ==
    [use |-> used, calls |-> calls_, sync |-> syncs, request |-> requests, failures |-> failures]

SmallBudgets ==
    LET both == {"registry", "groups"}
    IN  {Budget(u, 3, 1, 0, 0) : u \in both}
        \union {Budget(u, 2, 0, 0, 1) : u \in both}
        \union {Budget(u, 1, 2, 0, 0) : u \in both}
        \union {Budget("registry", 0, 0, 2, 1), Budget("registry", 1, 0, 1, 1),
                Budget("groups", 2, 0, 1, 0),
                Budget("libp2p", 0, 0, 0, 0), Budget("node", 0, 0, 0, 0)}

\* The nodes are alike: if one of them begins with a connection, let it be this.
Warmer == CHOOSE n \in Nodes : TRUE

Init ==
    /\ TcpInit /\ SwarmInit(use = "libp2p") /\ NodeInit(use = "node")
    /\ use \in {"libp2p", "node"} => \A n \in Nodes : link[n] = Closed
    /\ \A n \in Nodes : link[n] = Warm => link[Warmer] = Warm

OfTcp == use \in {"registry", "groups"} /\ UNCHANGED <<swarmVars, nodeVars>>
OfSwarm == use = "libp2p" /\ UNCHANGED <<tcpVars, nodeVars>>
OfNode == use = "node" /\ UNCHANGED <<tcpVars, swarmVars>>

Next == (OfTcp /\ TcpNext) \/ (OfSwarm /\ SwarmNext) \/ (OfNode /\ NodeNext)

\* Threads that are not blocked run, and timed waits end.
FairSpec ==
    /\ Init /\ [][Next]_vars
    /\ \A n \in Nodes :
         /\ WF_vars(OfTcp /\ ServeStep(n))
         /\ \A t \in Threads : WF_vars(OfTcp /\ ThreadStep(n, t))
    /\ WF_vars(OfSwarm /\ LoopStep)
    /\ \A c \in Callers : WF_vars(OfSwarm /\ Waits(c))
=============================================================================
