----------------------------- MODULE NodeProofs -----------------------------
(***************************************************************************)
(* Proofs about NodeLife for any number of builds.                         *)
(*                                                                         *)
(* Two invariants.  OneNode is about a node by itself: how far its build   *)
(* is, and what its threads can be by then.  Statics is about the process: *)
(* builds follow one another, and while one is between its broker and its  *)
(* last hook it owns the broker, the hooks it has installed, and no other. *)
(***************************************************************************)
EXTENDS NodeLife, TLAPS

HookNames == {"registry", "groups", "publish", "request"}
BuildSteps == {"none", "failed", "broker", "swarm", "hooks", "router", "bind", "up",
               "dropping", "dropped"}

\* The types of the statics and of a node.
ProcType ==
    proc \in [name : {"unset", "given", "default"}, router : Builds \union {0}, early : BOOLEAN,
              broker : Builds \union {0}, hooks : [HookNames -> Builds \union {0}]]
NodeType ==
    [config : Configs, pc : BuildSteps, hooks : 0..4,
     broker : {"none", "starting", "up", "dead"},
     listener : {"none", "starting", "check", "accept", "listening", "ended"},
     listened : BOOLEAN, flag : BOOLEAN, served : Nat]
NodesType == nodes \in [Builds -> NodeType]

\* What the threads of a node can be at each step of its build and drop.
OneNode(n) ==
    /\ n.pc \in {"none", "broker"} => n.listener = "none"
    /\ n.pc \in {"none", "broker", "swarm"} => n.hooks = 0
    /\ n.pc = "hooks" => n.hooks < 4
    /\ n.pc = "swarm" => /\ n.config.transport = "libp2p"
                         /\ n.listener # "none" => n.config.listen \/ n.config.peers
    /\ n.pc = "bind" => n.config.transport = "tcp" /\ n.config.listen
    /\ n.pc \notin {"none", "broker", "failed"} /\ (n.config.listen \/ n.config.peers)
         => n.broker # "none"
    /\ n.config.transport = "tcp" =>
         /\ n.listener \notin {"starting", "listening"}
         /\ n.listener = "ended" => n.flag
         /\ n.pc = "up" /\ n.config.listen => n.listened /\ n.listener # "none"
    /\ n.flag => n.pc \in {"dropping", "dropped"}
    /\ n.pc = "dropped" => n.listener \in {"none", "ended"}

LocalInv == NodesType /\ \A b \in Builds : OneNode(nodes[b])

\* The names of the four hooks.
LEMMA HookNamesAre == {Hooks[i] : i \in DOMAIN Hooks} = HookNames
  BY DEF Hooks, HookNames

\* No build has begun.
LEMMA LocalInit == NodeInit(TRUE) => ProcType /\ LocalInv
  BY HookNamesAre, BuildsAssumption
  DEF NodeInit, LocalInv, ProcType, NodesType, NodeType, OneNode, Builds, Configs, BuildSteps

\* The three record updates of a node that set several fields keep its type.
LEMMA TypeKept ==
  ASSUME NEW n \in NodeType
  PROVE  /\ [n EXCEPT !.listener = "listening", !.listened = TRUE] \in NodeType
         /\ \A i \in 0..4, x \in BuildSteps : [n EXCEPT !.hooks = i, !.pc = x] \in NodeType
         /\ \A s \in {"none", "starting"}, x \in BuildSteps :
              [n EXCEPT !.broker = s, !.pc = x] \in NodeType
  BY DEF NodeType

\* A step of the build, the broker, the listener or the drop of a node keeps
\* what its threads can be at each of these.
LEMMA LocalStep == LocalInv /\ [NodeNext]_nodeVars => LocalInv'
  <1> SUFFICES ASSUME LocalInv, [NodeNext]_nodeVars PROVE LocalInv'
    OBVIOUS
  <1> DEFINE Good(b) == /\ nodes' = [nodes EXCEPT ![b] = nodes'[b]]
                        /\ nodes'[b] \in NodeType /\ OneNode(nodes'[b])
  <1>1. \A b \in Builds : Good(b) => LocalInv'
    BY DEF LocalInv, NodesType
  <1>2. DOMAIN nodes = Builds /\ \A b \in Builds : nodes[b] \in NodeType /\ OneNode(nodes[b])
    BY DEF LocalInv, NodesType
  <1>3. ASSUME NEW b \in Builds, Install(b) PROVE Good(b)
    <2> DEFINE v == [nodes[b] EXCEPT !.hooks = nodes[b].hooks + 1,
                                     !.pc = IF nodes[b].hooks = 3 THEN "router" ELSE "hooks"]
    <2>1. nodes[b].hooks \in 0..3
      BY <1>2, <1>3 DEF Install, OneNode, NodeType, At
    <2>2. Hooks[nodes[b].hooks + 1] = "request" <=> nodes[b].hooks = 3
      BY <2>1 DEF Hooks
    <2>3. nodes' = [nodes EXCEPT ![b] = v]
      <3>1. nodes' = [nodes EXCEPT ![b].hooks = @ + 1,
                                   ![b].pc = IF nodes[b].hooks = 3 THEN "router" ELSE @]
        BY <1>3, <2>2 DEF Install
      <3>2. nodes[b].pc = "hooks"
        BY <1>3 DEF Install, At
      <3> QED
        BY <1>2, <3>1, <3>2 DEF NodeType
    <2>4. v \in NodeType
      <3>1. /\ nodes[b].hooks + 1 \in 0..4
            /\ (IF nodes[b].hooks = 3 THEN "router" ELSE "hooks") \in BuildSteps
        BY <2>1 DEF BuildSteps
      <3> QED
        BY <1>2, <3>1, TypeKept
    <2>5. OneNode(v)
      BY <1>2, <1>3, <2>1 DEF Install, At, OneNode, NodeType, Configs
    <2> QED
      BY <1>2, <2>3, <2>4, <2>5
  <1>4. ASSUME NEW b \in Builds, SwarmListens(b) PROVE Good(b)
    <2> DEFINE v == [nodes[b] EXCEPT !.listener = "listening", !.listened = TRUE]
    <2>1. nodes' = [nodes EXCEPT ![b] = v]
      BY <1>2, <1>4 DEF SwarmListens
    <2>2. v \in NodeType
      BY <1>2, TypeKept
    <2>3. OneNode(v)
      BY <1>2, <1>4 DEF SwarmListens, OneNode, NodeType, Configs
    <2> QED
      BY <1>2, <2>1, <2>2, <2>3
  <1>7. ASSUME NEW b \in Builds, StartSupervisionBroker(b) PROVE Good(b)
    <2> DEFINE s == IF Active(b) THEN "starting" ELSE "none"
               x == IF ~OverTcp(b) THEN "swarm"
                    ELSE IF nodes[b].config.peers THEN "hooks" ELSE "router"
               v == [nodes[b] EXCEPT !.broker = s, !.pc = x]
    <2>1. nodes' = [nodes EXCEPT ![b] = v]
      BY <1>2, <1>7 DEF StartSupervisionBroker
    <2>2. v \in NodeType
      BY <1>2, TypeKept DEF BuildSteps
    <2>3. /\ v.config = nodes[b].config /\ v.hooks = nodes[b].hooks /\ v.flag = nodes[b].flag
          /\ v.listener = nodes[b].listener /\ v.pc = x /\ v.broker = s
      BY <1>2 DEF NodeType
    <2>4. /\ nodes[b].listener = "none" /\ nodes[b].hooks = 0 /\ ~nodes[b].flag
          /\ nodes[b].config.transport \in {"tcp", "libp2p"}
      BY <1>2, <1>7 DEF StartSupervisionBroker, At, OneNode, NodeType, Configs
    <2>5. OneNode(v)
      <3> HIDE DEF v
      <3> QED
        BY <2>3, <2>4 DEF OneNode, Active, OverTcp
    <2> QED
      BY <1>2, <2>1, <2>2, <2>5
  <1> USE <1>2 DEF NodeType, OneNode, Configs, BuildSteps, Set, At, Active, OverTcp
  <1>5. ASSUME NEW b \in Builds, Invalid(b) PROVE Good(b)
    BY <1>5 DEF Invalid
  <1>6. ASSUME NEW b \in Builds,
               \E config \in Configs, named \in BOOLEAN : BuildNode(b, config, named)
        PROVE  Good(b)
    BY <1>6 DEF BuildNode
  <1>8. ASSUME NEW b \in Builds, BuildLibp2p(b) PROVE Good(b)
    BY <1>8 DEF BuildLibp2p
  <1>9. ASSUME NEW b \in Builds, SwarmStarted(b) PROVE Good(b)
    BY <1>9 DEF SwarmStarted
  <1>10. ASSUME NEW b \in Builds, SetGlobal(b) PROVE Good(b)
    BY <1>10 DEF SetGlobal
  <1>11. ASSUME NEW b \in Builds, Bind(b) PROVE Good(b)
    BY <1>11 DEF Bind
  <1>12. ASSUME NEW b \in Builds, BrokerStarted(b) PROVE Good(b)
    BY <1>12 DEF BrokerStarted
  <1>13. ASSUME NEW b \in Builds, BrokerEnds(b) PROVE Good(b)
    BY <1>13 DEF BrokerEnds
  <1>14. ASSUME NEW b \in Builds, AcceptCheck(b) PROVE Good(b)
    BY <1>14 DEF AcceptCheck
  <1>15. ASSUME NEW b \in Builds, AcceptNone(b) PROVE Good(b)
    BY <1>15 DEF AcceptNone
  <1>16. ASSUME NEW b \in Builds, Accept(b) PROVE Good(b)
    BY <1>16 DEF Accept
  <1>17. ASSUME NEW b \in Builds, SwarmFails(b) PROVE Good(b)
    BY <1>17 DEF SwarmFails
  <1>18. ASSUME NEW b \in Builds, SwarmStops(b) PROVE Good(b)
    BY <1>18 DEF SwarmStops
  <1>19. ASSUME NEW b \in Builds, ConnectionCloses(b) PROVE Good(b)
    BY <1>19 DEF ConnectionCloses
  <1>20. ASSUME NEW b \in Builds, DropNode(b) PROVE Good(b)
    BY <1>20 DEF DropNode
  <1>21. ASSUME NEW b \in Builds, Dropped(b) PROVE Good(b)
    BY <1>21 DEF Dropped
  <1>22. CASE UseRouter \/ UNCHANGED nodeVars
    BY <1>22 DEF UseRouter, LocalInv, NodesType, nodeVars
  <1> HIDE <1>2 DEF Good, NodeType, OneNode, Configs, BuildSteps, Set, At, Active, OverTcp
  <1> QED
    BY <1>1, <1>3, <1>4, <1>5, <1>6, <1>7, <1>8, <1>9, <1>10, <1>11, <1>12, <1>13, <1>14,
       <1>15, <1>16, <1>17, <1>18, <1>19, <1>20, <1>21, <1>22
    DEF NodeNext, BuildStep, ListenerStep

-----------------------------------------------------------------------------
(* The statics of the process.                                             *)

Finished == {"failed", "up", "dropping", "dropped"}
Installing(b) == At(b, "hooks") \/ (At(b, "swarm") /\ Active(b))

\* A build begins when those before it are over.
Ordered == \A b, c \in Builds : b < c /\ ~At(c, "none") => nodes[b].pc \in Finished

\* A static is set by a build that is that far.
RouterSet == proc.router # 0 => nodes[proc.router].pc \in Finished \union {"bind"}
HookSet == \A h \in HookNames :
    proc.hooks[h] # 0 => nodes[proc.hooks[h]].pc \notin {"none", "broker", "swarm"}
BrokerSet == proc.broker # 0 => nodes[proc.broker].pc \notin {"none", "broker"}

\* A build that has replaced the broker, and not yet all hooks: those it has
\* replaced are its own, the others still agree.
Replacing == \A b \in Builds : Installing(b) =>
    /\ proc.broker = b
    /\ \A i \in 1..4 : i <= nodes[b].hooks => proc.hooks[Hooks[i]] = b
    /\ \A i, j \in 1..4 : i > nodes[b].hooks /\ j > nodes[b].hooks
                            => proc.hooks[Hooks[i]] = proc.hooks[Hooks[j]]

\* When no build is at that point.
Settled == (\A b \in Builds : ~Installing(b)) =>
    /\ \A h \in HookNames : proc.hooks[h] = proc.hooks["publish"]
    /\ proc.hooks["publish"] # 0 =>
         /\ proc.broker # 0
         /\ \/ proc.hooks["publish"] = proc.broker
            \/ OverTcp(proc.broker) /\ ~nodes[proc.broker].config.peers

\* The router of the first build, if the hooks are its own.
FirstRouter == proc.hooks["publish"] = 1 /\ nodes[1].pc \in Finished \union {"bind"} =>
    proc.early \/ proc.router = 1

Statics ==
    /\ ProcType /\ LocalInv
    /\ Ordered /\ RouterSet /\ HookSet /\ BrokerSet /\ Replacing /\ Settled /\ FirstRouter

\* The statics of the process are empty before the first build.
LEMMA StaticsInit == NodeInit(TRUE) => Statics
  <1> SUFFICES ASSUME NodeInit(TRUE) PROVE Statics
    OBVIOUS
  <1>1. ProcType /\ LocalInv
    BY LocalInit
  <1>2. /\ proc.router = 0 /\ proc.broker = 0 /\ \A h \in HookNames : proc.hooks[h] = 0
        /\ \A b \in Builds : nodes[b].pc = "none"
    BY HookNamesAre DEF NodeInit
  <1> QED
    BY <1>1, <1>2 DEF Statics, Ordered, RouterSet, HookSet, BrokerSet, Replacing, Settled,
       FirstRouter, Installing, At, HookNames

\* A step that moves no build on and sets no static.
LEMMA Aside ==
  ASSUME Statics, ProcType', LocalInv', proc' = proc,
         \A c \in Builds : /\ nodes'[c].pc = nodes[c].pc /\ nodes'[c].config = nodes[c].config
                           /\ nodes'[c].hooks = nodes[c].hooks
  PROVE  Statics'
  <1>1. \A b \in Builds : Installing(b)' <=> Installing(b)
    BY DEF Installing, At, Active
  <1>2. Ordered' /\ RouterSet' /\ HookSet' /\ BrokerSet'
    BY DEF Statics, Ordered, RouterSet, HookSet, BrokerSet, At, ProcType
  <1>3. Replacing'
    BY <1>1 DEF Statics, Replacing
  <1>4. Settled'
    BY <1>1 DEF Statics, Settled, OverTcp, ProcType
  <1>5. FirstRouter'
    BY DEF Statics, FirstRouter, HookSet, ProcType, HookNames
  <1> QED
    BY <1>2, <1>3, <1>4, <1>5 DEF Statics

\* A step of one build that sets no static, and is not at their installation.
LEMMA Moves ==
  ASSUME Statics, ProcType', LocalInv', Ordered', NEW b \in Builds,
         /\ proc'.router = proc.router /\ proc'.broker = proc.broker
         /\ proc'.hooks = proc.hooks /\ proc'.early = proc.early,
         \A c \in Builds \ {b} : nodes'[c] = nodes[c],
         ~Installing(b), ~Installing(b)',
         nodes'[b].config = nodes[b].config \/ At(b, "none"),
         \/ nodes[b].pc \in {"none", "broker"}
         \/ At(b, "swarm") /\ At(b, "failed")'
         \/ nodes[b].pc \in Finished \union {"bind"} /\ nodes'[b].pc \in Finished \union {"bind"}
  PROVE  Statics'
  <1>1. \A c \in Builds : Installing(c)' <=> Installing(c)
    BY DEF Installing, At, Active
  <1>2. RouterSet'
    BY DEF Statics, RouterSet, ProcType, Finished, At
  <1>3. HookSet'
    BY DEF Statics, HookSet, ProcType, Finished, At
  <1>4. BrokerSet'
    BY DEF Statics, BrokerSet, ProcType, Finished, At
  <1>5. Replacing'
    <2> SUFFICES ASSUME NEW c \in Builds, Installing(c)
                 PROVE  /\ proc.broker = c
                        /\ nodes'[c].hooks = nodes[c].hooks
      BY <1>1 DEF Statics, Replacing
    <2> QED
      BY DEF Statics, Replacing
  <1>6. Settled'
    <2>1. proc.broker # 0 => nodes'[proc.broker].config = nodes[proc.broker].config
      BY DEF Statics, BrokerSet, ProcType, At
    <2> QED
      BY <1>1, <2>1 DEF Statics, Settled, OverTcp, ProcType
  <1>7. FirstRouter'
    <2> SUFFICES ASSUME proc.hooks["publish"] = 1, nodes'[1].pc \in Finished \union {"bind"}
                 PROVE  proc.early \/ proc.router = 1
      BY DEF FirstRouter
    <2>1. 1 \in Builds /\ nodes[1].pc \notin {"none", "broker", "swarm"}
      BY DEF Statics, HookSet, ProcType, HookNames
    <2>2. nodes[1].pc \in Finished \union {"bind"}
      BY <2>1 DEF At
    <2> QED
      BY <2>2 DEF Statics, FirstRouter
  <1> QED
    BY <1>2, <1>3, <1>4, <1>5, <1>6, <1>7 DEF Statics

\* Every build is over, or not begun, but the one that is at work.
LEMMA Others ==
  ASSUME Statics, NEW b \in Builds, nodes[b].pc \notin Finished \union {"none"}
  PROVE  \A c \in Builds \ {b} : nodes[c].pc \in Finished \union {"none"} /\ ~Installing(c)
  <1>1. ASSUME NEW c \in Builds \ {b} PROVE nodes[c].pc \in Finished \union {"none"}
    <2>1. CASE c < b
      BY <2>1 DEF Statics, Ordered, At, Finished
    <2>2. CASE b < c
      BY <2>2 DEF Statics, Ordered, At, Finished
    <2> QED
      BY <2>1, <2>2, BuildsAssumption DEF Builds
  <1> QED
    BY <1>1 DEF Installing, At, Finished

\* A build writes the statics in order: its broker, the four hooks, the router.
LEMMA StaticsStep == Statics /\ [NodeNext]_nodeVars => Statics'
  <1> SUFFICES ASSUME Statics, [NodeNext]_nodeVars PROVE Statics'
    OBVIOUS
  <1>1. LocalInv' /\ LocalInv
    BY LocalStep DEF Statics
  <1>2. DOMAIN nodes = Builds /\ \A b \in Builds : nodes[b] \in NodeType /\ OneNode(nodes[b])
    BY <1>1 DEF LocalInv, NodesType
  <1>3. ASSUME NEW b \in Builds, Invalid(b) PROVE Statics'
    <2>1. /\ proc' = proc /\ nodes[b].pc = "none" /\ nodes'[b].pc = "failed"
          /\ nodes'[b].config = nodes[b].config /\ \A c \in Builds \ {b} : nodes'[c] = nodes[c]
      BY <1>2, <1>3 DEF Invalid, Set, At, NodeType
    <2>2. Ordered'
      BY <1>3, <2>1, BuildsAssumption DEF Invalid, Busy, Statics, Ordered, At, Finished, Builds
    <2> QED
      BY <1>1, <2>1, <2>2, Moves DEF Statics, ProcType, Installing, At
  <1>4. ASSUME NEW b \in Builds, NEW config \in Configs, NEW named \in BOOLEAN,
               BuildNode(b, config, named)
        PROVE  Statics'
    <2>1. /\ nodes[b].pc = "none" /\ nodes'[b].pc \in {"failed", "broker"}
          /\ \A c \in Builds \ {b} : nodes'[c] = nodes[c]
      BY <1>2, <1>4 DEF BuildNode, Set, At, NodeType
    <2>2. /\ proc'.router = proc.router /\ proc'.broker = proc.broker
          /\ proc'.hooks = proc.hooks /\ proc'.early = proc.early /\ ProcType'
      BY <1>4 DEF BuildNode, Statics, ProcType
    <2>3. Ordered'
      BY <1>4, <2>1, BuildsAssumption DEF BuildNode, Busy, Statics, Ordered, At, Finished, Builds
    <2> QED
      BY <1>1, <2>1, <2>2, <2>3, Moves DEF Installing, At
  <1>5. ASSUME NEW b \in Builds, StartSupervisionBroker(b) PROVE Statics'
    <2>1. /\ nodes[b].pc = "broker" /\ nodes[b].hooks = 0
          /\ nodes'[b].pc = IF ~OverTcp(b) THEN "swarm"
                             ELSE IF nodes[b].config.peers THEN "hooks" ELSE "router"
          /\ nodes'[b].config = nodes[b].config /\ nodes'[b].hooks = 0
          /\ \A c \in Builds \ {b} : nodes'[c] = nodes[c]
      BY <1>2, <1>5 DEF StartSupervisionBroker, At, NodeType, OneNode
    <2>2. \A c \in Builds : ~Installing(c)
      BY <2>1, Others DEF Finished, Installing, At
    <2>3. Ordered'
      BY <2>1 DEF Statics, Ordered, At, Finished
    <2>4. CASE ~Active(b)
      <3>1. proc' = proc
        BY <1>5, <2>4 DEF StartSupervisionBroker
      <3>2. ~Installing(b)'
        BY <1>2, <2>1, <2>4 DEF Installing, At, Active, OverTcp, NodeType, Configs
      <3> QED
        BY <1>1, <2>1, <2>2, <2>3, <3>1, <3>2, Moves DEF Statics, ProcType, At
    <2>5. CASE Active(b)
      <3>1. /\ proc'.router = proc.router /\ proc'.broker = b
            /\ proc'.hooks = proc.hooks /\ proc'.early = proc.early /\ ProcType'
        BY <1>5, <2>5 DEF StartSupervisionBroker, Statics, ProcType
      <3>2. RouterSet' /\ HookSet'
        BY <2>1, <3>1 DEF Statics, RouterSet, HookSet, ProcType, Finished
      <3>3. BrokerSet'
        BY <2>1, <3>1 DEF BrokerSet
      <3>4. \A c \in Builds : Installing(c)' => c = b
        BY <2>1, <2>2 DEF Installing, At, Active
      <3>5. \A h \in HookNames : proc'.hooks[h] = proc'.hooks["publish"]
        BY <2>2, <3>1 DEF Statics, Settled
      <3>6. Replacing'
        <4>1. \A i \in 1..4 : Hooks[i] \in HookNames
          BY DEF Hooks, HookNames
        <4> QED
          BY <2>1, <3>1, <3>4, <3>5, <4>1 DEF Replacing
      <3>7. Settled'
        <4>1. ~Installing(b)' => OverTcp(b)' /\ ~nodes'[b].config.peers
          BY <2>1, <2>5 DEF Installing, At, Active, OverTcp
        <4>2. b # 0
          BY BuildsAssumption DEF Builds
        <4> QED
          BY <3>1, <3>5, <4>1, <4>2 DEF Settled
      <3>8. FirstRouter'
        BY <2>1, <3>1 DEF Statics, FirstRouter, Finished, HookSet, ProcType, HookNames
      <3> QED
        BY <1>1, <2>3, <3>1, <3>2, <3>3, <3>6, <3>7, <3>8 DEF Statics
    <2> QED
      BY <2>4, <2>5
  <1>6. ASSUME NEW b \in Builds, BuildLibp2p(b) PROVE Statics'
    <2>1. CASE Active(b)
      <3>1. /\ proc' = proc
            /\ \A c \in Builds : /\ nodes'[c].pc = nodes[c].pc /\ nodes'[c].config = nodes[c].config
                                 /\ nodes'[c].hooks = nodes[c].hooks
        BY <1>2, <1>6, <2>1 DEF BuildLibp2p, Set, NodeType
      <3> QED
        BY <1>1, <3>1, Aside DEF Statics, ProcType
    <2>2. CASE ~Active(b)
      <3>1. /\ proc' = proc /\ nodes[b].pc = "swarm" /\ nodes'[b].pc = "failed"
            /\ nodes'[b].config = nodes[b].config /\ \A c \in Builds \ {b} : nodes'[c] = nodes[c]
        BY <1>2, <1>6, <2>2 DEF BuildLibp2p, Set, At, NodeType
      <3>2. Ordered'
        BY <3>1 DEF Statics, Ordered, At, Finished
      <3> QED
        BY <1>1, <2>2, <3>1, <3>2, Moves DEF Statics, ProcType, Installing, At
    <2> QED
      BY <2>1, <2>2
  <1>7. ASSUME NEW b \in Builds, SwarmStarted(b) PROVE Statics'
    <2>1. /\ proc' = proc /\ nodes[b].pc = "swarm" /\ nodes'[b].pc = "hooks" /\ nodes[b].hooks = 0
          /\ nodes'[b].config = nodes[b].config /\ nodes'[b].hooks = 0 /\ Active(b)
          /\ \A c \in Builds \ {b} : nodes'[c] = nodes[c]
      BY <1>2, <1>7 DEF SwarmStarted, Set, At, NodeType, OneNode, Active
    <2>2. \A c \in Builds : Installing(c)' <=> Installing(c)
      BY <2>1 DEF Installing, At, Active
    <2>3. Ordered' /\ RouterSet' /\ HookSet' /\ BrokerSet'
      BY <2>1 DEF Statics, Ordered, RouterSet, HookSet, BrokerSet, ProcType, At, Finished
    <2>4. Replacing'
      BY <2>1, <2>2 DEF Statics, Replacing
    <2>5. Settled'
      BY <2>1, <2>2 DEF Statics, Settled, Installing, At
    <2>6. FirstRouter'
      BY <2>1 DEF Statics, FirstRouter, Finished, HookSet, ProcType, HookNames
    <2> QED
      BY <1>1, <2>1, <2>3, <2>4, <2>5, <2>6 DEF Statics, ProcType
  <1>8. ASSUME NEW b \in Builds, Install(b) PROVE Statics'
    <2> DEFINE k == nodes[b].hooks
    <2>1. k \in 0..3 /\ nodes[b].pc = "hooks"
      BY <1>2, <1>8 DEF Install, At, OneNode, NodeType
    <2>2. /\ \A i \in 1..4 : Hooks[i] \in HookNames
          /\ \A i, j \in 1..4 : i # j => Hooks[i] # Hooks[j]
          /\ \A h \in HookNames : \E i \in 1..4 : h = Hooks[i]
          /\ Hooks[k + 1] = "request" <=> k = 3
      BY <2>1 DEF Hooks, HookNames
    <2>3. /\ nodes'[b].pc = (IF k = 3 THEN "router" ELSE "hooks")
          /\ nodes'[b].config = nodes[b].config /\ nodes'[b].hooks = k + 1
          /\ \A c \in Builds \ {b} : nodes'[c] = nodes[c]
      BY <1>2, <1>8, <2>1, <2>2 DEF Install, NodeType
    <2>4. /\ proc'.router = proc.router /\ proc'.broker = proc.broker /\ proc'.early = proc.early
          /\ proc'.hooks = [proc.hooks EXCEPT ![Hooks[k + 1]] = b]
      BY <1>8 DEF Install, Statics, ProcType
    <2>5. ProcType'
      BY <1>8, <2>1, <2>2 DEF Install, Statics, ProcType
    <2>6. Ordered' /\ RouterSet' /\ BrokerSet'
      BY <2>1, <2>3, <2>4 DEF Statics, Ordered, RouterSet, BrokerSet, ProcType, At, Finished
    <2>7. HookSet'
      BY <2>1, <2>2, <2>3, <2>4 DEF Statics, HookSet, ProcType
    <2>8. /\ proc.broker = b
          /\ \A i \in 1..4 : i <= k => proc.hooks[Hooks[i]] = b
          /\ \A i, j \in 1..4 : i > k /\ j > k => proc.hooks[Hooks[i]] = proc.hooks[Hooks[j]]
      <3>1. Installing(b)
        BY <2>1 DEF Installing, At
      <3> QED
        BY <3>1 DEF Statics, Replacing
    <2>9. /\ \A i \in 1..4 : i <= k + 1 => proc'.hooks[Hooks[i]] = b
          /\ \A i \in 1..4 : i > k + 1 => proc'.hooks[Hooks[i]] = proc.hooks[Hooks[i]]
      BY <2>1, <2>2, <2>4, <2>8 DEF Statics, ProcType
    <2>10. \A c \in Builds : Installing(c)' => c = b
      BY <2>1, <2>3, Others DEF Installing, At, Active, Finished
    <2>11. Replacing'
      <3>1. \A i, j \in 1..4 : i > k + 1 /\ j > k + 1
                                => proc'.hooks[Hooks[i]] = proc'.hooks[Hooks[j]]
        BY <2>1, <2>8, <2>9
      <3>2. nodes'[b].hooks = k + 1 /\ proc'.broker = b
        BY <2>1, <2>3, <2>4, <2>8
      <3>3. ASSUME NEW c \in Builds, Installing(c)'
            PROVE  /\ proc'.broker = c
                   /\ \A i \in 1..4 : i <= nodes'[c].hooks => proc'.hooks[Hooks[i]] = c
                   /\ \A i, j \in 1..4 : i > nodes'[c].hooks /\ j > nodes'[c].hooks
                                           => proc'.hooks[Hooks[i]] = proc'.hooks[Hooks[j]]
        <4>1. c = b
          BY <2>10, <3>3
        <4> QED
          BY <2>9, <3>1, <3>2, <4>1
      <3> QED
        BY <3>3 DEF Replacing
    <2>12. Settled'
      <3>1. CASE k = 3
        <4>1. \A h \in HookNames : proc'.hooks[h] = b
          BY <2>2, <2>9, <3>1
        <4>2. "publish" \in HookNames /\ b # 0
          BY BuildsAssumption DEF HookNames, Builds
        <4>3. proc'.hooks["publish"] = b /\ proc'.broker = b
          BY <2>4, <2>8, <4>1, <4>2
        <4> QED
          BY <4>1, <4>2, <4>3 DEF Settled
      <3>2. CASE k # 3
        <4>1. Installing(b)'
          BY <2>3, <3>2 DEF Installing, At
        <4> QED
          BY <4>1 DEF Settled
      <3> QED
        BY <3>1, <3>2
    <2>13. FirstRouter'
      <3>1. CASE b = 1
        BY <2>3, <3>1 DEF FirstRouter, Finished
      <3>2. CASE b # 1
        BY <2>2, <2>3, <2>4, <3>2 DEF Statics, FirstRouter, ProcType, HookNames, HookSet
      <3> QED
        BY <3>1, <3>2
    <2> QED
      BY <1>1, <2>5, <2>6, <2>7, <2>11, <2>12, <2>13 DEF Statics
  <1>9. ASSUME NEW b \in Builds, SetGlobal(b) PROVE Statics'
    <2>1. /\ nodes[b].pc = "router" /\ nodes'[b].pc \in {"bind", "up"}
          /\ nodes'[b].config = nodes[b].config /\ nodes'[b].hooks = nodes[b].hooks
          /\ \A c \in Builds \ {b} : nodes'[c] = nodes[c]
      BY <1>2, <1>9 DEF SetGlobal, Set, At, NodeType
    <2>2. /\ proc'.router = (IF proc.router = 0 /\ ~proc.early THEN b ELSE proc.router)
          /\ proc'.broker = proc.broker /\ proc'.hooks = proc.hooks
          /\ proc'.early = proc.early /\ ProcType'
      BY <1>9 DEF SetGlobal, Statics, ProcType
    <2>3. \A c \in Builds : Installing(c)' <=> Installing(c)
      BY <2>1 DEF Installing, At, Active
    <2>4. Ordered' /\ RouterSet'
      BY <2>1, <2>2 DEF Statics, Ordered, RouterSet, ProcType, At, Finished
    <2>5. HookSet' /\ BrokerSet'
      BY <2>1, <2>2 DEF Statics, HookSet, BrokerSet, ProcType
    <2>6. Replacing'
      BY <2>1, <2>2, <2>3 DEF Statics, Replacing
    <2>7. Settled'
      BY <2>1, <2>2, <2>3 DEF Statics, Settled, ProcType, OverTcp
    <2>8. FirstRouter'
      <3>1. CASE b = 1
        <4>1. proc.router # 0 => proc.router = 1
          BY <2>1, <3>1, BuildsAssumption
          DEF Statics, RouterSet, Ordered, At, ProcType, Finished, Builds
        <4>2. proc.router # 1
          BY <2>1, <3>1 DEF Statics, RouterSet, Finished
        <4> QED
          BY <2>2, <3>1, <4>1, <4>2 DEF FirstRouter
      <3>2. CASE b # 1
        BY <2>1, <2>2, <3>2 DEF Statics, FirstRouter, HookSet, ProcType, HookNames, RouterSet
      <3> QED
        BY <3>1, <3>2
    <2> QED
      BY <1>1, <2>2, <2>4, <2>5, <2>6, <2>7, <2>8 DEF Statics
  <1>10. ASSUME NEW b \in Builds, Bind(b) PROVE Statics'
    <2>1. /\ proc' = proc /\ nodes[b].pc = "bind" /\ nodes'[b].pc \in {"up", "failed"}
          /\ nodes'[b].config = nodes[b].config /\ \A c \in Builds \ {b} : nodes'[c] = nodes[c]
      BY <1>2, <1>10 DEF Bind, Set, At, NodeType
    <2>2. Ordered'
      BY <2>1 DEF Statics, Ordered, At, Finished
    <2> QED
      BY <1>1, <2>1, <2>2, Moves DEF Statics, ProcType, Installing, At, Finished
  <1>11. ASSUME NEW b \in Builds, DropNode(b) \/ Dropped(b) PROVE Statics'
    <2>1. /\ proc' = proc /\ nodes[b].pc \in Finished /\ nodes'[b].pc \in {"dropping", "dropped"}
          /\ nodes'[b].config = nodes[b].config /\ \A c \in Builds \ {b} : nodes'[c] = nodes[c]
      BY <1>2, <1>11 DEF DropNode, Dropped, Set, At, NodeType, Finished
    <2>2. Ordered'
      BY <2>1 DEF Statics, Ordered, At, Finished
    <2> QED
      BY <1>1, <2>1, <2>2, Moves DEF Statics, ProcType, Installing, At, Finished
  <1>12. ASSUME NEW b \in Builds,
                \/ ListenerStep(b) \/ BrokerStarted(b) \/ BrokerEnds(b)
                \/ SwarmListens(b) \/ SwarmFails(b) \/ ConnectionCloses(b)
         PROVE  Statics'
    <2>1. /\ proc' = proc
          /\ \A c \in Builds : /\ nodes'[c].pc = nodes[c].pc /\ nodes'[c].config = nodes[c].config
                               /\ nodes'[c].hooks = nodes[c].hooks
      BY <1>2, <1>12 DEF ListenerStep, AcceptCheck, Accept, AcceptNone, SwarmStops, BrokerStarted,
         BrokerEnds, SwarmListens, SwarmFails, ConnectionCloses, Set, NodeType
    <2> QED
      BY <1>1, <2>1, Aside DEF Statics, ProcType
  <1>13. CASE UseRouter
    <2>1. /\ proc'.router = 0 /\ proc.router = 0
          /\ proc'.broker = proc.broker /\ proc'.hooks = proc.hooks
          /\ proc'.early /\ ProcType' /\ nodes' = nodes
      BY <1>13 DEF UseRouter, Statics, ProcType
    <2>2. Ordered' /\ RouterSet' /\ HookSet' /\ BrokerSet' /\ Replacing' /\ Settled'
      <3>0. \A c \in Builds : Installing(c)' <=> Installing(c)
        BY <2>1 DEF Installing, At, Active
      <3>1. Ordered' /\ RouterSet' /\ HookSet' /\ BrokerSet'
        BY <2>1 DEF Statics, Ordered, RouterSet, HookSet, BrokerSet, At
      <3>2. Replacing'
        BY <2>1, <3>0 DEF Statics, Replacing
      <3>3. Settled'
        BY <2>1, <3>0 DEF Statics, Settled, OverTcp
      <3> QED
        BY <3>1, <3>2, <3>3
    <2> QED
      BY <1>1, <2>1, <2>2 DEF Statics, FirstRouter
  <1>14. CASE UNCHANGED nodeVars
    BY <1>1, <1>14, Aside DEF nodeVars, Statics, ProcType
  <1> QED
    BY <1>3, <1>4, <1>5, <1>6, <1>7, <1>8, <1>9, <1>10, <1>11, <1>12, <1>13, <1>14
    DEF NodeNext, BuildStep

-----------------------------------------------------------------------------
\* A node that says it is ready has a broker that runs and, if it was told to
\* listen, a thread that accepts (is_ready of cluster/node.rs); dropping a node
\* ends that thread.
THEOREM Readiness == NodeSpec => []ReadyTruthful
  <1>1. LocalInv => ReadyTruthful
    BY DEF LocalInv, NodesType, NodeType, OneNode, ReadyTruthful, IsReady, BrokerAlive, ListenerActive,
           At, Active, OverTcp, Configs
  <1> QED
    BY <1>1, LocalInit, LocalStep, PTL DEF NodeSpec

\* Whatever builds fail or replace one another, once a build is over the hooks
\* by which events leave the process belong to one node, that of the broker
\* (cluster/node.rs), unless the last node only listens.
THEOREM HooksOfOneNode == NodeSpec => []HooksAgree
  <1>1. Statics => HooksAgree
    <2> SUFFICES ASSUME Statics, ~Busy, proc.hooks["publish"] # 0
                 PROVE  /\ proc.hooks["publish"] > 1 \/ proc.early \/ proc.router = 1
                        /\ \A h \in DOMAIN proc.hooks : proc.hooks[h] = proc.hooks["publish"]
                        /\ \/ proc.hooks["publish"] = proc.broker
                           \/ OverTcp(proc.broker) /\ ~nodes[proc.broker].config.peers
      BY DEF HooksAgree
    <2>1. \A b \in Builds : ~Installing(b)
      BY DEF Busy, Installing, At
    <2>2. DOMAIN proc.hooks = HookNames /\ proc.hooks["publish"] \in Builds
      BY DEF Statics, ProcType, HookNames
    <2>3. proc.hooks["publish"] = 1 => nodes[1].pc \in Finished
      <3> SUFFICES ASSUME proc.hooks["publish"] = 1 PROVE nodes[1].pc \in Finished
        OBVIOUS
      <3>1. 1 \in Builds /\ nodes[1].pc # "none"
        BY <2>2 DEF Statics, HookSet, HookNames
      <3> QED
        BY <3>1 DEF Busy, Finished
    <2> QED
      BY <2>1, <2>2, <2>3, BuildsAssumption DEF Statics, Settled, FirstRouter, Builds
  <1> QED
    BY <1>1, StaticsInit, StaticsStep, PTL DEF NodeSpec
=============================================================================
