------------------------------ MODULE NodeLife ------------------------------
(***************************************************************************)
(* Nodes of one process, built and dropped one after the other by one      *)
(* thread (cluster/node.rs).  What a build installs is global to the       *)
(* process and outlives the node: the name and the router are set once,    *)
(* the broker and the hooks by which events leave are replaced.  A build   *)
(* may fail after it has installed them.  Meanwhile the threads it has     *)
(* started run: the accept loop (tcp/listener.rs) or the swarm             *)
(* (libp2p/mod.rs), and the broker, an actor.                              *)
(***************************************************************************)
EXTENDS Naturals, Sequences

CONSTANTS
    MaxBuilds,  \* bound: builds
    MaxServed   \* bound: connections a node serves at a time

VARIABLES
    proc,   \* the statics: name, router, broker and hooks, by the number of the
            \* build, 0 for none; early: the router was used before any build
    nodes   \* per build: config, pc, how many hooks it has installed, broker,
            \* listener (of either transport), whether it has ever listened, the
            \* shutdown flag, the connections served

ASSUME BuildsAssumption == MaxBuilds \in Nat

nodeVars == <<proc, nodes>>
Builds == 1..MaxBuilds
Hooks == <<"registry", "groups", "publish", "request">>

Configs == [transport : {"tcp", "libp2p"}, listen : BOOLEAN, peers : BOOLEAN]

NodeInit(on) ==
    /\ \E name \in {"unset"} \union (IF on THEN {"default"} ELSE {}) :  \* was local_node() called?
         proc = [name |-> name, router |-> 0, early |-> FALSE, broker |-> 0,
                 hooks |-> [h \in {Hooks[i] : i \in DOMAIN Hooks} |-> 0]]
    /\ nodes = [b \in Builds |->
                  [config |-> [transport |-> "tcp", listen |-> FALSE, peers |-> FALSE],
                   pc |-> "none", hooks |-> 0, broker |-> "none", listener |-> "none",
                   listened |-> FALSE, flag |-> FALSE, served |-> 0]]

Set(b, field, value) == nodes' = [nodes EXCEPT ![b][field] = value]
At(b, pc) == nodes[b].pc = pc
Busy == \E b \in Builds : nodes[b].pc \notin {"none", "failed", "up", "dropped"}
Active(b) == nodes[b].config.listen \/ nodes[b].config.peers
OverTcp(b) == nodes[b].config.transport = "tcp"

-----------------------------------------------------------------------------
(* NodeBuilder::build.                                                     *)

\* Validation: the options of one transport only.
Invalid(b) ==
    /\ At(b, "none") /\ ~Busy /\ (\A e \in 1..(b - 1) : ~At(e, "none"))
    /\ Set(b, "pc", "failed")
    /\ UNCHANGED proc

\* The name, which an earlier node or use may have fixed.
BuildNode(b, config, named) ==
    /\ At(b, "none") /\ ~Busy /\ (\A e \in 1..(b - 1) : ~At(e, "none"))
    /\ proc' = [proc EXCEPT !.name = IF @ # "unset" THEN @ ELSE IF named THEN "given" ELSE "default"]
    /\ IF named /\ proc'.name # "given"
       THEN Set(b, "pc", "failed")
       ELSE nodes' = [nodes EXCEPT ![b].config = config, ![b].pc = "broker"]

\* start_supervision_broker, in a node that listens or has peers.
StartSupervisionBroker(b) ==
    /\ At(b, "broker")
    /\ nodes' = [nodes EXCEPT ![b].broker = IF Active(b) THEN "starting" ELSE "none",
                              ![b].pc = IF ~OverTcp(b) THEN "swarm"
                                        ELSE IF nodes[b].config.peers THEN "hooks" ELSE "router"]
    /\ proc' = IF Active(b) THEN [proc EXCEPT !.broker = b] ELSE proc

\* build_libp2p: a node that neither listens nor has peers fails; else the
\* thread of the swarm starts.
BuildLibp2p(b) ==
    /\ At(b, "swarm") /\ nodes[b].listener = "none"
    /\ IF Active(b) THEN Set(b, "listener", "starting") ELSE Set(b, "pc", "failed")
    /\ UNCHANGED proc

\* Libp2pCluster::start waits for an address, and goes on after a second.
SwarmStarted(b) ==
    /\ At(b, "swarm") /\ nodes[b].listener # "none"
    /\ Set(b, "pc", "hooks")
    /\ UNCHANGED proc

\* Mutant: a hook is installed once in a process.
InstallOnce(b) ==
    LET h == Hooks[nodes[b].hooks + 1]
    IN  /\ At(b, "hooks")
        /\ proc' = [proc EXCEPT !.hooks[h] = IF @ = 0 THEN b ELSE @]
        /\ nodes' = [nodes EXCEPT ![b].hooks = @ + 1,
                                  ![b].pc = IF h = "request" THEN "router" ELSE @]

\* registry_sync::install and the like, each under its own lock.
Install(b) ==
    LET h == Hooks[nodes[b].hooks + 1]
    IN  /\ At(b, "hooks")
        /\ proc' = [proc EXCEPT !.hooks[h] = b]
        /\ nodes' = [nodes EXCEPT ![b].hooks = @ + 1,
                                  ![b].pc = IF h = "request" THEN "router" ELSE @]

\* ClusterRouter::set_global: the first one stays.
SetGlobal(b) ==
    /\ At(b, "router")
    /\ proc' = [proc EXCEPT !.router = IF @ = 0 /\ ~proc.early THEN b ELSE @]
    /\ Set(b, "pc", IF OverTcp(b) /\ nodes[b].config.listen THEN "bind" ELSE "up")

\* bind_with_control_plane; the address may be taken.  What was installed stays.
Bind(b) ==
    /\ At(b, "bind")
    /\ \/ nodes' = [nodes EXCEPT ![b].pc = "up", ![b].listener = "check", ![b].listened = TRUE]
       \/ Set(b, "pc", "failed")
    /\ UNCHANGED proc

\* Something in the process needs the router before.
UseRouter ==
    /\ proc.router = 0 /\ ~proc.early /\ proc' = [proc EXCEPT !.early = TRUE]
    /\ UNCHANGED nodes

-----------------------------------------------------------------------------
(* The threads of a node.                                                  *)

\* started() of the broker leaves its handle; a killed child may end it.
BrokerStarted(b) ==
    /\ nodes[b].broker = "starting" /\ Set(b, "broker", "up")
    /\ UNCHANGED proc

BrokerEnds(b) ==
    /\ At(b, "up") /\ nodes[b].broker = "up" /\ Set(b, "broker", "dead")
    /\ UNCHANGED proc

\* accept_loop: the flag, ...
AcceptCheck(b) ==
    /\ nodes[b].listener = "check"
    /\ Set(b, "listener", IF nodes[b].flag THEN "ended" ELSE "accept")
    /\ UNCHANGED proc

\* ... then a connection, which a thread of its own serves, ...
Accept(b) ==
    /\ nodes[b].listener = "accept" /\ nodes[b].served < MaxServed
    /\ nodes' = [nodes EXCEPT ![b].listener = "check", ![b].served = @ + 1]
    /\ UNCHANGED proc

\* ... or none, or an error.
AcceptNone(b) ==
    /\ nodes[b].listener = "accept" /\ Set(b, "listener", "check")
    /\ UNCHANGED proc

\* The peer closes the connection, or never does.
ConnectionCloses(b) ==
    /\ nodes[b].served > 0 /\ nodes' = [nodes EXCEPT ![b].served = @ - 1]
    /\ UNCHANGED proc

\* The loop of the swarm: an address is there, ...
SwarmListens(b) ==
    /\ nodes[b].listener = "starting"
    /\ nodes' = [nodes EXCEPT ![b].listener = "listening", ![b].listened = TRUE]
    /\ UNCHANGED proc

\* ... it fails, to listen or by a frame it refuses, ...
SwarmFails(b) ==
    /\ nodes[b].listener \in {"starting", "listening"} /\ Set(b, "listener", "ended")
    /\ UNCHANGED proc

\* ... or sees the flag.
SwarmStops(b) ==
    /\ nodes[b].listener \in {"starting", "listening"} /\ nodes[b].flag
    /\ Set(b, "listener", "ended")
    /\ UNCHANGED proc

-----------------------------------------------------------------------------
(* Node::drop: the flag is set and the thread joined.                      *)

DropNode(b) ==
    /\ At(b, "up") /\ ~Busy
    /\ nodes' = [nodes EXCEPT ![b].pc = "dropping", ![b].flag = TRUE]
    /\ UNCHANGED proc

Dropped(b) ==
    /\ At(b, "dropping") /\ nodes[b].listener \in {"none", "ended"}
    /\ Set(b, "pc", "dropped")
    /\ UNCHANGED proc

-----------------------------------------------------------------------------
\* Mutant: the handle of the broker is there, be it dead.
BrokerRegistered(b) == nodes[b].broker \in {"up", "dead"}

\* broker_alive, listener_active, is_ready.
BrokerAlive(b) == nodes[b].broker = "up"
ListenerActive(b) == IF OverTcp(b) THEN nodes[b].listener # "none" ELSE nodes[b].listened
IsReady(b) ==
    /\ nodes[b].broker # "none" => BrokerAlive(b)
    /\ nodes[b].config.listen => ListenerActive(b)

BuildStep(b) ==
    \/ StartSupervisionBroker(b) \/ BuildLibp2p(b) \/ SwarmStarted(b) \/ Install(b)
    \/ SetGlobal(b) \/ Bind(b)
ListenerStep(b) == AcceptCheck(b) \/ Accept(b) \/ AcceptNone(b) \/ SwarmStops(b)

NodeNext ==
    \/ \E b \in Builds :
         \/ Invalid(b)
         \/ \E config \in Configs, named \in BOOLEAN : BuildNode(b, config, named)
         \/ BuildStep(b) \/ ListenerStep(b) \/ BrokerStarted(b) \/ BrokerEnds(b)
         \/ SwarmListens(b) \/ SwarmFails(b) \/ ConnectionCloses(b) \/ DropNode(b) \/ Dropped(b)
    \/ UseRouter

NodeSpec == NodeInit(TRUE) /\ [][NodeNext]_nodeVars

-----------------------------------------------------------------------------
(* Properties.                                                             *)

\* What the process asks of its broker and what its hooks take to a broker go to
\* the same one, however many nodes were built, failed or were dropped; unless
\* the last one only listens: it replaces the broker and none of the hooks.  With
\* one build, and no use of the router before it, messages and events leave by the
\* same transport, though the build failed half way.
HooksAgree ==
    ~Busy /\ proc.hooks["publish"] # 0 =>
        /\ proc.hooks["publish"] > 1 \/ proc.early \/ proc.router = 1
        /\ \A h \in DOMAIN proc.hooks : proc.hooks[h] = proc.hooks["publish"]
        /\ \/ proc.hooks["publish"] = proc.broker
           \/ OverTcp(proc.broker) /\ ~nodes[proc.broker].config.peers

\* A node that says it is ready has a broker that runs and, if it was told to
\* listen, a thread that accepts: of libp2p only, that it once did.  One that was
\* dropped has no such thread; the connections it serves, it serves on.
ReadyTruthful ==
    /\ \A b \in Builds : At(b, "up") /\ IsReady(b) =>
         /\ Active(b) => nodes[b].broker = "up"
         /\ nodes[b].config.listen => nodes[b].listened
         /\ nodes[b].config.listen /\ OverTcp(b) => nodes[b].listener # "ended"
    /\ \A b \in Builds : At(b, "dropped") => nodes[b].listener \in {"none", "ended"}

=============================================================================
