---------------------------- MODULE RemoteWatch ----------------------------
(***************************************************************************)
(* Monitors and links to an actor of another node: monitor_address,        *)
(* demonitor, link_address and unlink_address (tasks/actor.rs), the events *)
(* they publish (supervision_monitor.rs, supervision_link.rs) and what the *)
(* brokers make of them (supervision_broker.rs).  The owner is at home,    *)
(* the target is far.                                                      *)
(***************************************************************************)
EXTENDS Network

CONSTANTS
    Far,        \* the node of the target
    Refs,       \* 1..n: MonitorRefs
    MaxLinks    \* bound: calls of link_address

VARIABLES
    watch,      \* what this behaviour uses: "monitors", "links" or "nothing"
    up,         \* whether the owner and the target run
    record,     \* what the far broker holds of the target: a handle, registered
                \* by hand or by a spawn, nothing, or the reason it exited with
    mons,       \* per ref: called at home; the installed entry and its task;
                \* history: demonitored, entry removed by it, Downs
                \* received
    table,      \* remote_links of the owner: whether it holds the target
    peers,      \* link_peers of the target at its broker: whether it holds the owner
    waiter,     \* the task of link_waits: "none", "waiting", "woken", "done"
    told,       \* Exits received by the owner and by the target
    links       \* calls of link

watchVars == <<watch, up, record, mons, table, peers, waiter, told, links>>

WatchInit ==
    /\ up = [home |-> TRUE, far |-> TRUE]
    /\ record \in {"registered", "spawned"}
    /\ mons = [r \in Refs |-> [called |-> FALSE, entry |-> FALSE, task |-> "none",
                               cancelled |-> FALSE, removed |-> FALSE, downs |-> 0]]
    /\ table = FALSE /\ peers = FALSE /\ waiter = "none"
    /\ told = [home |-> 0, far |-> 0]
    /\ links = 0

ToFar(kind, body) == Event(Home, Far, kind, body)
ToHome(kind, body) == Event(Far, Home, kind, body)

\* Between unregister and exited.insert the broker knows nothing of the target:
\* the event is refused, and the connection it came on closed.
Refuse(kind, i) ==
    /\ record = "gone" /\ Takes(Far, kind, i)
    /\ Lose(i)

-----------------------------------------------------------------------------
(* Monitors.                                                               *)

MonitorAddress(r) ==
    /\ watch = "monitors" /\ up.home /\ ~mons[r].called
    /\ \A q \in Refs : q < r => mons[q].called
    /\ mons' = [mons EXCEPT ![r].called = TRUE]
    /\ Publish(<<ToFar("Monitor", r)>>)
    /\ UNCHANGED <<watch, up, record, table, peers, waiter, told, links>>

\* demonitor: the event, and a flag no inbound Down is checked against.
DemonitorAddress(r) ==
    /\ up.home /\ mons[r].called /\ ~mons[r].cancelled
    /\ mons' = [mons EXCEPT ![r].cancelled = TRUE]
    /\ Publish(<<ToFar("Demonitor", r)>>)
    /\ UNCHANGED <<watch, up, record, table, peers, waiter, told, links>>

\* apply_monitor: a target that has exited, by its handle or by the exited
\* reasons, is answered with a Down; otherwise an entry and a task that waits.
ApplyMonitor(r, i) ==
    /\ Takes(Far, "Monitor", i) /\ At(i).body = r /\ record # "gone"
    /\ mons' = IF up.far THEN [mons EXCEPT ![r].entry = TRUE, ![r].task = "waiting"] ELSE mons
    /\ Exchange(i, IF up.far THEN <<>> ELSE <<ToHome("Down", r)>>)
    /\ UNCHANGED <<watch, up, record, table, peers, waiter, told, links>>

RefuseMonitor(i) == Refuse("Monitor", i) /\ UNCHANGED watchVars

\* Mutant: the entry is found and left.
ApplyDemonitorKeeps(r, i) ==
    /\ Takes(Far, "Demonitor", i) /\ At(i).body = r
    /\ mons' = [mons EXCEPT ![r].removed = @ \/ mons[r].entry]
    /\ Exchange(i, <<>>)
    /\ UNCHANGED <<watch, up, record, table, peers, waiter, told, links>>

ApplyDemonitor(r, i) ==
    /\ Takes(Far, "Demonitor", i) /\ At(i).body = r
    /\ mons' = [mons EXCEPT ![r].entry = FALSE, ![r].removed = @ \/ mons[r].entry]
    /\ Exchange(i, <<>>)
    /\ UNCHANGED <<watch, up, record, table, peers, waiter, told, links>>

\* The task: the target has exited; a Down if the entry was still there.
RemoteMonitorTask(r) ==
    /\ mons[r].task = "waiting" /\ ~up.far
    /\ mons' = [mons EXCEPT ![r].task = "done", ![r].entry = FALSE]
    /\ Publish(IF mons[r].entry THEN <<ToHome("Down", r)>> ELSE <<>>)
    /\ UNCHANGED <<watch, up, record, table, peers, waiter, told, links>>

\* apply_down: an owner that has stopped refuses the message.
ApplyDown(r, i) ==
    /\ Takes(Home, "Down", i) /\ At(i).body = r
    /\ mons' = [mons EXCEPT ![r].downs = IF up.home THEN @ + 1 ELSE @]
    /\ Exchange(i, <<>>)
    /\ UNCHANGED <<watch, up, record, table, peers, waiter, told, links>>

-----------------------------------------------------------------------------
(* Links.                                                                  *)

LinkAddress ==
    /\ watch = "links" /\ up.home /\ links < MaxLinks
    /\ table' = TRUE
    /\ links' = links + 1
    /\ Publish(<<ToFar("Link", 0)>>)
    /\ UNCHANGED <<watch, up, record, mons, peers, waiter, told>>

UnlinkAddress ==
    /\ up.home /\ table
    /\ table' = FALSE
    /\ Publish(<<ToFar("Unlink", 0)>>)
    /\ UNCHANGED <<watch, up, record, mons, peers, waiter, told, links>>

\* Mutant: no ChildExit for a target already dead.
ApplyLinkUnchecked(i) ==
    /\ Takes(Far, "Link", i) /\ record # "gone"
    /\ peers' = TRUE
    /\ waiter' = IF up.far /\ waiter # "waiting" THEN "waiting" ELSE waiter
    /\ Exchange(i, <<>>)
    /\ UNCHANGED <<watch, up, record, mons, table, told, links>>

\* apply_link: the peer is noted; then a target that has exited is reported, or
\* a task waits for it, one per target.
ApplyLink(i) ==
    /\ Takes(Far, "Link", i) /\ record # "gone"
    /\ peers' = TRUE
    /\ waiter' = IF up.far /\ waiter # "waiting" THEN "waiting" ELSE waiter
    /\ Exchange(i, IF up.far THEN <<>> ELSE <<ToHome("ChildExit", Far)>>)
    /\ UNCHANGED <<watch, up, record, mons, table, told, links>>

\* The peer is noted before the target is found to be unknown.
RefuseLink(i) ==
    /\ Refuse("Link", i)
    /\ peers' = TRUE
    /\ UNCHANGED <<watch, up, record, mons, table, waiter, told, links>>

ApplyUnlink(i) ==
    /\ Takes(Far, "Unlink", i)
    /\ peers' = FALSE
    /\ Exchange(i, <<>>)
    /\ UNCHANGED <<watch, up, record, mons, table, waiter, told, links>>

\* The task leaves link_waits, then takes the peers and reports to each.
LinkTaskWakes ==
    /\ waiter = "waiting" /\ ~up.far
    /\ waiter' = "woken"
    /\ UNCHANGED <<netVars, watch, up, record, mons, table, peers, told, links>>

LinkTaskReports ==
    /\ waiter = "woken"
    /\ waiter' = "done" /\ peers' = FALSE
    /\ Publish(IF peers THEN <<ToHome("ChildExit", Far)>> ELSE <<>>)
    /\ UNCHANGED <<watch, up, record, mons, table, told, links>>

\* propagate_remote_link_exits, on the way out of the owner.
OwnerDies ==
    /\ up.home /\ watch # "nothing"
    /\ up' = [up EXCEPT !.home = FALSE]
    /\ Publish(IF table THEN <<ToFar("ChildExit", Home)>> ELSE <<>>)
    /\ UNCHANGED <<watch, record, mons, table, peers, waiter, told, links>>

TargetDies ==
    /\ up.far /\ watch # "nothing"
    /\ up' = [up EXCEPT !.far = FALSE]
    /\ UNCHANGED <<netVars, watch, record, mons, table, peers, waiter, told, links>>

\* propagate_child_exit, for a target its broker spawned and is linked to,
\* unless the broker died of it.
BrokerUnregisters ==
    /\ record = "spawned" /\ ~up.far
    /\ record' = "gone"
    /\ UNCHANGED <<netVars, watch, up, mons, table, peers, waiter, told, links>>

BrokerRecordsExit ==
    /\ record = "gone"
    /\ record' = "exited"
    /\ UNCHANGED <<netVars, watch, up, mons, table, peers, waiter, told, links>>

\* apply_child_exit at either node: an Exit, whatever trap_exit says; a target
\* its broker has unregistered is unknown, one that has stopped refuses it.
ApplyLinkExit(n, i) ==
    /\ Takes(n, "ChildExit", i) /\ n \in {Home, Far} /\ At(i).body \in {Home, Far}
    /\ told' = IF n = Home
                 THEN [told EXCEPT !.home = IF up.home THEN @ + 1 ELSE @]
                 ELSE [told EXCEPT !.far = IF up.far THEN @ + 1 ELSE @]
    /\ Exchange(i, <<>>)
    /\ UNCHANGED <<watch, up, record, mons, table, peers, waiter, links>>

\* Events delivered, and the tasks of the brokers.
WatchStep ==
    \/ \E i \in Places :
         \/ \E r \in Refs : ApplyMonitor(r, i) \/ ApplyDemonitor(r, i) \/ ApplyDown(r, i)
         \/ RefuseMonitor(i) \/ RefuseLink(i)
         \/ ApplyLink(i) \/ ApplyUnlink(i) \/ ApplyLinkExit(Home, i) \/ ApplyLinkExit(Far, i)
    \/ \E r \in Refs : RemoteMonitorTask(r)
    \/ LinkTaskWakes \/ LinkTaskReports \/ BrokerRecordsExit

WatchNext ==
    \/ WatchStep
    \/ \E r \in Refs : MonitorAddress(r) \/ DemonitorAddress(r)
    \/ LinkAddress \/ UnlinkAddress \/ OwnerDies \/ TargetDies \/ BrokerUnregisters

-----------------------------------------------------------------------------
(* Properties.                                                             *)

\* A remote monitor delivers at most one Down, after the death of its target,
\* on whatever side of the installation the target dies, and none if a Demonitor
\* found its entry.  One that is lost, late or ahead of its Monitor finds none, and
\* the owner gets a Down for a monitor it has given up: nothing at home looks at
\* the flag.
RemoteDownOnce ==
    \A r \in Refs :
        mons[r].downs > 0 => mons[r].downs = 1 /\ ~up.far /\ ~mons[r].removed

\* Unless an event is lost, the death of a monitored target reaches the owner,
\* and that of either end of a link the other.  Over libp2p an Unlink may also
\* pass the Link that followed it.
RemoteDeathArrives ==
    /\ \A r \in Refs :
         mons[r].called /\ ~up.far ~>
             mons[r].downs = 1 \/ mons[r].cancelled \/ ~up.home \/ lost # {}
    /\ table /\ ~up.far ~>
         \/ told.home > 0 \/ ~table \/ ~up.home \/ lost # {}
         \/ transport = "libp2p" /\ links > 1
    /\ table /\ ~up.home ~> told.far > 0 \/ ~up.far \/ lost # {}
=============================================================================
