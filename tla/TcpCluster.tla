---------------------------- MODULE TcpCluster ----------------------------
(***************************************************************************)
(* Two nodes with each other as TCP peer: the pool of connections and its  *)
(* mutex (tcp/transport.rs), the threads that serve what comes in          *)
(* (tcp/listener.rs), the snapshots exchanged by a new connection          *)
(* (control.rs), the replicated names (named_registry.rs) and groups       *)
(* (pg.rs), whose locks are held while an event is published, and messages *)
(* to remote actors and to the remote members of a group (tasks/pg.rs,     *)
(* tasks/pool.rs and those of threads).  One name and one group: entries   *)
(* do not interact.                                                        *)
(***************************************************************************)
EXTENDS Naturals, Sequences, PgStore

CONSTANTS
    Nodes,
    Budgets      \* bounds: what a behaviour uses, and how many calls on it, syncs,
                 \* requests and failures of connections it may have

None == <<>>
Group == "g"

VARIABLES
    use,     \* "registry" or "groups": what the callers of this behaviour use
    reg,     \* per node, of the name: address (or None), owned (a handle is held)
    pg,      \* per node: the PgStore
    link,    \* per node, the connection it dialled: pooled, served ("none",
             \* "registry", "groups", "loop"), frames out and frames back
    th,      \* per node: the caller and the sender thread: where it is, what it
             \* does, the frame it sends, the members it has left to send to
    actor,   \* per node: number of the actor its caller registers or joins
    left,    \* calls, syncs, requests and failures left of the budget
    hist     \* history: events lost; an answer that matched no request; a
             \* snapshot applied after a later change of what it shows; a name
             \* owned by both nodes, or given up by one that does not own it

tcpVars == <<use, reg, pg, link, th, actor, left, hist>>

Peer(n) == CHOOSE m \in Nodes : m # n
Threads == {"call", "send"}
Closed == [pooled |-> FALSE, served |-> "none", out |-> <<>>, back |-> <<>>]
Warm == [Closed EXCEPT !.pooled = TRUE, !.served = "loop"]
Doing(pc, op, frame, rest) == [pc |-> pc, op |-> op, frame |-> frame, rest |-> rest]
Idle == Doing("idle", "none", <<>>, {})

TcpInit ==
    /\ left \in Budgets /\ use = left.use
    /\ reg = [n \in Nodes |-> [address |-> None, owned |-> FALSE]]
    /\ pg = [n \in Nodes |-> NoGroups]
    /\ link \in [Nodes -> {Closed, Warm}]
    /\ th = [n \in Nodes |-> [t \in Threads |-> Idle]]
    /\ actor = [n \in Nodes |-> 1]
    /\ hist = [lost |-> FALSE, mismatch |-> FALSE, stale |-> FALSE, contested |-> FALSE]

Me(n) == <<n, actor[n]>>

-----------------------------------------------------------------------------
(* Locks: who holds them follows from where the threads are.               *)

Publishing == {"conn", "dial", "snapRegistry", "snapGroups", "readRegistry", "readGroups",
               "write", "reply"}
RegistryOps == {"register", "unregister", "exitName"}
GroupOps == {"join", "leave"}

HoldsRegistry(n) == th[n]["call"].op \in RegistryOps /\ th[n]["call"].pc \in Publishing
HoldsGroups(n) == th[n]["call"].op \in GroupOps /\ th[n]["call"].pc \in Publishing
HoldsPool(n, t) == th[n][t].pc \in Publishing \ {"conn"}

\* A thread connects while a caller holds the lock of a store: it will ask for
\* that lock, and the caller, if it is another thread, for the pool.
Inverted(n) ==
    /\ HoldsRegistry(n) \/ HoldsGroups(n)
    /\ \E t \in Threads : th[n][t].pc \in Publishing \ {"conn", "write", "reply"}

\* The peer has hung up or is stuck: 30 s pass without an answer.
Silent(n) == link[n].served = "none" \/ Inverted(Peer(n))

Goto(n, t, pc) == th' = [th EXCEPT ![n][t].pc = pc]
Publishes(n, op, frame) ==
    th' = [th EXCEPT ![n]["call"] = Doing("conn", op, frame, {})]

-----------------------------------------------------------------------------
(* Calls.  The store is changed and the event published under its lock.    *)

Counted(n) ==
    /\ th[n]["call"].pc = "idle" /\ left.calls > 0
    /\ left' = [left EXCEPT !.calls = @ - 1]

RegisterNamed(n) ==
    /\ use = "registry" /\ Counted(n) /\ reg[n].address = None
    /\ reg' = [reg EXCEPT ![n] = [address |-> Me(n), owned |-> TRUE]]
    /\ Publishes(n, "register", <<"Register", Me(n)>>)
    /\ hist' = [hist EXCEPT !.contested = @ \/ reg[Peer(n)].owned]
    /\ UNCHANGED <<use, pg, link, actor>>

\* Any name, of another node too.
UnregisterNamed(n) ==
    /\ use = "registry" /\ Counted(n) /\ reg[n].address # None
    /\ reg' = [reg EXCEPT ![n] = [address |-> None, owned |-> FALSE]]
    /\ Publishes(n, "unregister", <<"Unregister", reg[n].address>>)
    /\ hist' = [hist EXCEPT !.contested = @ \/ ~reg[n].owned]
    /\ UNCHANGED <<use, pg, link, actor>>

\* Mutant: the join is not published.
JoinUnpublished(n) ==
    /\ use = "groups" /\ Counted(n)
    /\ pg' = [pg EXCEPT ![n] = JoinScoped(@, Group, Me(n))]
    /\ UNCHANGED <<use, reg, link, th, actor, hist>>

JoinGroup(n) ==
    /\ use = "groups" /\ Counted(n)
    /\ pg' = [pg EXCEPT ![n] = JoinScoped(@, Group, Me(n))]
    /\ Publishes(n, "join", <<"Join", Me(n)>>)
    /\ UNCHANGED <<use, reg, link, actor, hist>>

\* Only the last leave is published.
LeaveGroup(n) ==
    /\ use = "groups" /\ Counted(n) /\ CanLeave(pg[n], Group, Me(n))
    /\ pg' = [pg EXCEPT ![n] = LeaveScoped(@, Group, Me(n))]
    /\ IF LastLeave(pg[n], Group, Me(n)) THEN Publishes(n, "leave", <<"Leave", Me(n)>>)
       ELSE UNCHANGED th
    /\ UNCHANGED <<use, reg, link, actor, hist>>

\* remove_actor: out of the groups, then the Leaves without the lock ...
ActorExit(n) ==
    /\ Counted(n)
    /\ pg' = [pg EXCEPT ![n] = RemoveActor(@, Me(n))]
    /\ IF CanLeave(pg[n], Group, Me(n)) THEN Publishes(n, "exitGroups", <<"Leave", Me(n)>>)
       ELSE th' = [th EXCEPT ![n]["call"] = Doing("want", "exitName", <<>>, {})]
    /\ UNCHANGED <<use, reg, link, actor, hist>>

\* ... then remove_by_actor_id, under the lock of the names.
RemoveByActorId(n) ==
    /\ th[n]["call"].op = "exitName" /\ th[n]["call"].pc = "want"
    /\ IF reg[n].owned
         THEN /\ reg' = [reg EXCEPT ![n] = [address |-> None, owned |-> FALSE]]
              /\ Publishes(n, "exitName", <<"Unregister", Me(n)>>)
         ELSE th' = [th EXCEPT ![n]["call"] = Idle] /\ UNCHANGED reg
    /\ actor' = [actor EXCEPT ![n] = @ + 1]
    /\ UNCHANGED <<use, pg, link, left, hist>>

\* What needs a connection and locks no store: sync_peers, and messages to one
\* remote actor or to several, in turn.
Sends(n, op, budget, to, rest) ==
    /\ th[n]["send"].pc = "idle" /\ left[budget] > 0
    /\ left' = [left EXCEPT ![budget] = @ - 1]
    /\ th' = [th EXCEPT ![n]["send"] = Doing("conn", op, <<op, left[budget], to>>, rest)]
    /\ UNCHANGED <<use, reg, pg, link, actor, hist>>

SyncPeers(n) == Sends(n, "sync", "sync", None, {})
RequestRemote(n) == Sends(n, "request", "request", Me(Peer(n)), {})

\* cast_federated, call_federated: the remote members, read once.  What one
\* answers, or that it does not, keeps nobody from the others.
Federated(n, op) ==
    /\ ~HoldsGroups(n)
    /\ \E to \in Remotes(pg[n], Group) :
         Sends(n, op, "request", to, Remotes(pg[n], Group) \ {to})

CastFederated(n) == Federated(n, "cast")
CallFederated(n) == Federated(n, "request")
ThreadsCastFederated(n) == CastFederated(n)
ThreadsCallFederated(n) == CallFederated(n)

\* dispatch_federated, call_one_federated, when the target selected is remote.
DispatchFederated(n, op) ==
    /\ ~HoldsGroups(n)
    /\ \E to \in Remotes(pg[n], Group) : Sends(n, op, "request", to, {})

ThreadsDispatchFederated(n, op) == DispatchFederated(n, op)

-----------------------------------------------------------------------------
(* with_connection and connect.                                            *)

\* What comes after a frame: the name of an actor that ended, the next member.
Return(n, t) ==
    LET w == th[n][t]
    IN  IF w.op = "exitGroups"
          THEN th' = [th EXCEPT ![n][t] = Doing("want", "exitName", <<>>, {})]
        ELSE IF w.rest = {} THEN th' = [th EXCEPT ![n][t] = Idle]
        ELSE \E to \in w.rest :
               th' = [th EXCEPT ![n][t] = Doing("conn", w.op, <<w.op, w.frame[2], to>>, w.rest \ {to})]

LockPool(n, t) ==
    /\ th[n][t].pc = "conn" /\ \A u \in Threads : ~HoldsPool(n, u)
    /\ IF ~link[n].pooled THEN Goto(n, t, "dial")
       ELSE IF th[n][t].op = "sync" THEN Return(n, t)
       ELSE Goto(n, t, "write")
    /\ UNCHANGED <<use, reg, pg, link, actor, left, hist>>

\* The dial and the handshake.
Dial(n, t) ==
    /\ th[n][t].pc = "dial"
    /\ link' = [link EXCEPT ![n] = [Closed EXCEPT !.served = "registry"]]
    /\ Goto(n, t, "snapRegistry")
    /\ UNCHANGED <<use, reg, pg, actor, left, hist>>

\* Nothing is pooled, and the event is not sent again.
Unconnected(n, t) ==
    /\ link' = [link EXCEPT ![n] = Closed]
    /\ Return(n, t)
    /\ hist' = [hist EXCEPT !.lost = TRUE]
    /\ UNCHANGED <<use, reg, pg, actor>>

Reading(n, t) == th[n][t].pc \in {"readRegistry", "readGroups"} /\ link[n].back = <<>>

\* No peer, or no answer in 30 s, at any point of connect ...
ConnectFails(n, t) ==
    /\ th[n][t].pc = "dial" \/ Reading(n, t)
    /\ left.failures > 0
    /\ left' = [left EXCEPT !.failures = @ - 1]
    /\ Unconnected(n, t)

\* ... or a peer that says nothing more.
ConnectTimeout(n, t) == Reading(n, t) /\ Silent(n) /\ Unconnected(n, t) /\ UNCHANGED left

\* Snapshots are taken under the read lock: a caller that holds the lock of the
\* store, be it this thread, bars them.
RegistrySnapshot(n) == <<"Registry", IF reg[n].owned THEN {reg[n].address} ELSE {}>>
GroupsSnapshot(n) == <<"Groups", LocalSnapshot(pg[n])>>

SendSnapshots(n, t) ==
    \/ /\ th[n][t].pc = "snapRegistry" /\ ~HoldsRegistry(n)
       /\ link' = [link EXCEPT ![n].out = Append(@, RegistrySnapshot(n))]
       /\ Goto(n, t, "snapGroups")
       /\ UNCHANGED <<use, reg, pg, actor, left, hist>>
    \/ /\ th[n][t].pc = "snapGroups" /\ ~HoldsGroups(n)
       /\ link' = [link EXCEPT ![n].out = Append(@, GroupsSnapshot(n))]
       /\ Goto(n, t, "readRegistry")
       /\ UNCHANGED <<use, reg, pg, actor, left, hist>>

\* apply_remote_event: an owned name and an earlier entry stay.
ApplyRegister(r, address) ==
    IF ~r.owned /\ r.address \in {None, address} THEN [r EXCEPT !.address = address] ELSE r

\* Mutant: an entry once made stays.
UnregisterKeeps(r, address) == r

ApplyUnregister(r, address) ==
    IF ~r.owned /\ r.address = address THEN [r EXCEPT !.address = None] ELSE r

ApplyRegistrySnapshot(r, entries) ==
    IF entries = {} THEN r ELSE ApplyRegister(r, CHOOSE e \in entries : TRUE)

\* Each entry of a snapshot is one more join.
ApplyGroupsSnapshot(s, entries) == FoldSet(LAMBDA e, st : ApplyJoin(st, e[1], e[2]), s, entries)

\* The snapshot shows what its node no longer has: an event sent since then may
\* have been applied before it.
Outdated(m, frame) ==
    \/ frame[1] = "Registry" /\ frame # RegistrySnapshot(m)
    \/ frame[1] = "Groups" /\ frame # GroupsSnapshot(m)

Noted(m, frame) == [hist EXCEPT !.stale = @ \/ Outdated(m, frame)]

ReadSnapshots(n, t) ==
    /\ link[n].back # <<>>
    /\ LET frame == Head(link[n].back)
       IN \/ /\ th[n][t].pc = "readRegistry" /\ ~HoldsRegistry(n)
             /\ reg' = [reg EXCEPT ![n] = ApplyRegistrySnapshot(@, frame[2])]
             /\ link' = [link EXCEPT ![n].back = Tail(@)]
             /\ Goto(n, t, "readGroups")
             /\ hist' = Noted(Peer(n), frame)
             /\ UNCHANGED <<use, pg, actor, left>>
          \/ /\ th[n][t].pc = "readGroups" /\ ~HoldsGroups(n)
             /\ pg' = [pg EXCEPT ![n] = ApplyGroupsSnapshot(@, frame[2])]
             /\ link' = [link EXCEPT ![n].back = Tail(@), ![n].pooled = TRUE]
             /\ IF th[n][t].op = "sync" THEN Return(n, t) ELSE Goto(n, t, "write")
             /\ hist' = Noted(Peer(n), frame)
             /\ UNCHANGED <<use, reg, actor, left>>

WriteFrame(n, t) ==
    /\ th[n][t].pc = "write" /\ link[n].served # "none"
    /\ link' = [link EXCEPT ![n].out = Append(@, th[n][t].frame)]
    /\ IF th[n][t].op = "request" THEN Goto(n, t, "reply") ELSE Return(n, t)
    /\ UNCHANGED <<use, reg, pg, actor, left, hist>>

\* A peer that is gone takes the bytes, or refuses them: then the connection
\* leaves the pool.
WriteLost(n, t) ==
    /\ th[n][t].pc = "write" /\ link[n].served = "none"
    /\ link' \in {link, [link EXCEPT ![n] = Closed]}
    /\ IF th[n][t].op = "request" /\ link'[n].pooled THEN Goto(n, t, "reply") ELSE Return(n, t)
    /\ hist' = [hist EXCEPT !.lost = TRUE]
    /\ UNCHANGED <<use, reg, pg, actor, left>>

\* The reply carries the correlation id of the request.
ValidReply(frame, reply) == reply = <<"Reply", frame[2], frame[3]>>

ReadReply(n, t) ==
    /\ th[n][t].pc = "reply" /\ link[n].back # <<>>
    /\ LET ok == ValidReply(th[n][t].frame, Head(link[n].back))
       IN /\ link' = [link EXCEPT ![n] = IF ok THEN [@ EXCEPT !.back = Tail(@)] ELSE Closed]
          /\ hist' = [hist EXCEPT !.mismatch = @ \/ ~ok]
    /\ Return(n, t)
    /\ UNCHANGED <<use, reg, pg, actor, left>>

\* Mutant: the connection stays in the pool.
ReplyTimeoutKeeps(n, t) ==
    /\ th[n][t].pc = "reply" /\ link[n].back = <<>>
    /\ Silent(n) \/ left.failures > 0
    /\ left' = IF Silent(n) THEN left ELSE [left EXCEPT !.failures = @ - 1]
    /\ Return(n, t)
    /\ UNCHANGED <<use, reg, pg, link, actor, hist>>

\* Mutant: no limit on the wait for an answer.
ReplyNoTimeout(n, t) == FALSE /\ th[n][t].pc = "reply" /\ UNCHANGED tcpVars

\* The answer takes longer than 30 s, or the peer is gone: the connection leaves
\* the pool, with what is on it.
ReplyTimeout(n, t) ==
    /\ th[n][t].pc = "reply" /\ link[n].back = <<>>
    /\ Silent(n) \/ left.failures > 0
    /\ left' = IF Silent(n) THEN left ELSE [left EXCEPT !.failures = @ - 1]
    /\ link' = [link EXCEPT ![n] = Closed]
    /\ hist' = [hist EXCEPT !.lost = @ \/ link[n].out # <<>>]
    /\ Return(n, t)
    /\ UNCHANGED <<use, reg, pg, actor>>

\* The connection fails under both ends; the pool does not know yet.
Break(n) ==
    /\ link[n].served = "loop" /\ left.failures > 0
    /\ left' = [left EXCEPT !.failures = @ - 1]
    /\ link' = [link EXCEPT ![n].served = "none", ![n].out = <<>>, ![n].back = <<>>]
    /\ hist' = [hist EXCEPT !.lost = @ \/ link[n].out # <<>>]
    /\ UNCHANGED <<use, reg, pg, th, actor>>

-----------------------------------------------------------------------------
(* serve_connection, at the peer of n, for the connection n dialled.       *)

ServeSnapshots(n) ==
    LET m == Peer(n)
    IN /\ \/ /\ link[n].served = "registry" /\ ~HoldsRegistry(m)
             /\ link' = [link EXCEPT ![n].served = "groups", ![n].back = Append(@, RegistrySnapshot(m))]
          \/ /\ link[n].served = "groups" /\ ~HoldsGroups(m)
             /\ link' = [link EXCEPT ![n].served = "loop", ![n].back = Append(@, GroupsSnapshot(m))]
       /\ UNCHANGED <<use, reg, pg, th, actor, left, hist>>

\* A message to an actor that has ended.
Refused(m, frame) == frame[1] \in {"request", "cast"} /\ frame[3] # Me(m)

\* The dispatch of a request to its actor: the reply has its correlation id.
Answer(frame) == IF frame[1] = "request" THEN <<<<"Reply", frame[2], frame[3]>>>> ELSE <<>>

\* One frame, of whichever kind.  Applying an event needs the lock of its store.
ServeFrame(n) ==
    LET m == Peer(n)
        frame == Head(link[n].out)
    IN /\ link[n].served = "loop" /\ link[n].out # <<>> /\ ~Refused(m, frame)
       /\ frame[1] \in {"Register", "Unregister", "Registry"} => ~HoldsRegistry(m)
       /\ frame[1] \in {"Join", "Leave", "Groups"} => ~HoldsGroups(m)
       /\ reg' = [reg EXCEPT ![m] =
                    CASE frame[1] = "Register" -> ApplyRegister(@, frame[2])
                      [] frame[1] = "Unregister" -> ApplyUnregister(@, frame[2])
                      [] frame[1] = "Registry" -> ApplyRegistrySnapshot(@, frame[2])
                      [] OTHER -> @]
       /\ pg' = [pg EXCEPT ![m] =
                    CASE frame[1] = "Join" -> ApplyJoin(@, Group, frame[2])
                      [] frame[1] = "Leave" -> ApplyLeave(@, Group, frame[2])
                      [] frame[1] = "Groups" -> ApplyGroupsSnapshot(@, frame[2])
                      [] OTHER -> @]
       /\ link' = [link EXCEPT ![n].out = Tail(@), ![n].back = @ \o Answer(frame)]
       /\ hist' = Noted(n, frame)
       /\ UNCHANGED <<use, th, actor, left>>

\* The dispatch fails: the connection is closed, with the events behind.
ServeRefused(n) ==
    /\ link[n].served = "loop" /\ link[n].out # <<>> /\ Refused(Peer(n), Head(link[n].out))
    /\ link' = [link EXCEPT ![n].served = "none", ![n].out = <<>>]
    /\ hist' = [hist EXCEPT !.lost = @ \/ Len(link[n].out) > 1]
    /\ UNCHANGED <<use, reg, pg, th, actor, left>>

-----------------------------------------------------------------------------
ThreadStep(n, t) ==
    \/ LockPool(n, t) \/ Dial(n, t) \/ SendSnapshots(n, t) \/ ReadSnapshots(n, t)
    \/ WriteFrame(n, t) \/ WriteLost(n, t) \/ ReadReply(n, t) \/ ReplyTimeout(n, t)
    \/ ConnectTimeout(n, t)
    \/ t = "call" /\ RemoveByActorId(n)

ServeStep(n) == ServeSnapshots(n) \/ ServeFrame(n) \/ ServeRefused(n)

Messages(n) ==
    \/ RequestRemote(n) \/ SyncPeers(n)
    \/ CastFederated(n) \/ CallFederated(n) \/ ThreadsCastFederated(n) \/ ThreadsCallFederated(n)
    \/ \E op \in {"cast", "request"} : DispatchFederated(n, op) \/ ThreadsDispatchFederated(n, op)

TcpNext ==
    \E n \in Nodes :
        \/ RegisterNamed(n) \/ UnregisterNamed(n) \/ JoinGroup(n) \/ LeaveGroup(n) \/ ActorExit(n)
        \/ Messages(n)
        \/ \E t \in Threads : ThreadStep(n, t) \/ ConnectFails(n, t)
        \/ Break(n) \/ ServeStep(n)

-----------------------------------------------------------------------------
(* Properties.                                                             *)

Quiet ==
    \A n \in Nodes :
        /\ link[n].out = <<>> /\ link[n].back = <<>> /\ link[n].served \in {"none", "loop"}
        /\ \A t \in Threads : th[n][t].pc = "idle"

\* When nothing is under way, nothing was lost, no snapshot was overtaken and
\* the nodes did not contest the name, a node and its peer hold the same entry.
NamesConverge ==
    Quiet /\ ~hist.lost /\ ~hist.stale /\ ~hist.contested =>
        \A n \in Nodes : reg[n].owned /\ link[n].pooled => reg[Peer(n)].address = reg[n].address

\* A node that has had a connection to its peer knows every member there is: the
\* counts may drift up, and keep members that are gone, but never down.
MembersKnown ==
    Quiet /\ ~hist.lost =>
        \A n \in Nodes : link[n].pooled => Locals(pg[n], Group) \subseteq Remotes(pg[Peer(n)], Group)

\* Under the mutex every answer is that of the last request.
AnswersMatch == ~hist.mismatch

\* Calls of register_named, join_scoped and the like return, and so does every
\* message to remote actors and groups, be its target gone or the other node
\* stuck; unless, here, a connecting thread asks for a lock that a caller holds.
\* (Calls are counted, so "eventually none is under way" says it.)
TcpCallsReturn ==
    <>[](\A n \in Nodes, t \in Threads : th[n][t].pc = "idle" \/ Inverted(n))
=============================================================================
