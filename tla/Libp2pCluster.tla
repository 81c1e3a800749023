--------------------------- MODULE Libp2pCluster ---------------------------
(***************************************************************************)
(* One node of the libp2p transport (libp2p/mod.rs): callers that hand a   *)
(* command to the thread of the swarm and wait, and the loop of that       *)
(* thread, which takes commands, keeps sends until their peer is           *)
(* connected, keeps requests until their response comes, and applies what  *)
(* comes in.  There is one peer.                                           *)
(***************************************************************************)
EXTENDS Naturals, Sequences, Functions

CONSTANTS
    Callers,     \* each makes one call
    MaxInbound,  \* bound: frames that come in
    MaxDrops     \* bound: connections that are lost

VARIABLES
    loop,        \* "up", "applying" (a frame, under the lock of the stores), "ended"
    cmds,        \* the channel of commands: callers
    deferred,    \* deferred_sends: callers
    pending,     \* SharedState.pending: callers whose response is awaited
    calls,       \* per caller: kind, whether async, and state
    connected,   \* whether the swarm has a connection to the peer
    synced,      \* synced_peers: whether the peer was sent the snapshots
    sent,        \* requests the peer has and will answer
    budget       \* frames still to come in, connections still to be lost, and
                 \* whether the dials of this node succeed

swarmVars == <<loop, cmds, deferred, pending, calls, connected, synced, sent, budget>>

\* A Send that waits for no response, one that does, a Broadcast, a SyncPeer.
Kinds == {"send", "request", "broadcast", "sync"}

SwarmInit(on) ==
    /\ loop = "up" /\ cmds = <<>> /\ deferred = <<>> /\ pending = {} /\ sent = {}
    /\ connected = FALSE /\ synced = FALSE
    /\ \E async \in [Callers -> BOOLEAN], kind \in [Callers -> Kinds] :
         /\ \A c \in Callers : kind[c] \in {"broadcast", "sync"} => ~async[c]
         /\ ~on => \A c \in Callers : kind[c] = "send" /\ ~async[c]
         /\ calls = [c \in Callers |-> [kind |-> kind[c], async |-> async[c], state |-> "idle"]]
    /\ \E reachable \in IF on THEN BOOLEAN ELSE {FALSE} :
         budget = [inbound |-> IF on THEN MaxInbound ELSE 0, drops |-> IF on THEN MaxDrops ELSE 0,
                   reachable |-> reachable]

Ends(C, state) == [c \in Callers |->
    IF c \in C /\ calls[c].state = "waiting" THEN [calls[c] EXCEPT !.state = state] ELSE calls[c]]

\* A broadcast is published under the lock of the store whose change it tells.
StoreLocked == \E c \in Callers : calls[c].kind = "broadcast" /\ calls[c].state = "waiting"

\* The command goes to the thread of the swarm and its caller waits; a thread
\* that has ended refuses it.
Submit(c) ==
    /\ calls[c].state = "idle"
    /\ IF loop = "ended" THEN calls' = [calls EXCEPT ![c].state = "error"] /\ UNCHANGED cmds
       ELSE calls' = [calls EXCEPT ![c].state = "waiting"] /\ cmds' = Append(cmds, c)
    /\ UNCHANGED <<loop, deferred, pending, connected, synced, sent, budget>>

SendFrame(c) == calls[c].kind \in {"send", "request"} /\ ~calls[c].async /\ Submit(c)
SendFrameAsync(c) == calls[c].kind \in {"send", "request"} /\ calls[c].async /\ Submit(c)
BroadcastFrame(c) == calls[c].kind = "broadcast" /\ ~StoreLocked /\ Submit(c)
SyncPeer(c) == calls[c].kind = "sync" /\ Submit(c)

\* recv_timeout of a blocking caller; an async one has no limit.
RecvTimeout(c) ==
    /\ calls[c].state = "waiting" /\ ~calls[c].async
    /\ calls' = Ends({c}, "error")
    /\ UNCHANGED <<loop, cmds, deferred, pending, connected, synced, sent, budget>>

-----------------------------------------------------------------------------
(* The loop.                                                               *)

\* dispatch_send, for callers in order.
Dispatched(C) ==
    LET requests == {c \in C : calls[c].kind = "request"}
    IN /\ pending' = pending \union requests
       /\ sent' = sent \union requests
       /\ calls' = Ends(C \ requests, "ok")

\* A Send goes out or, its peer dialled, waits for the connection; a Broadcast
\* is given to the swarm; a SyncPeer takes the snapshots, under the locks.
HandleCommand ==
    /\ loop = "up" /\ cmds # <<>>
    /\ LET c == Head(cmds)
       IN /\ calls[c].kind = "sync" => ~StoreLocked
          /\ synced' = (synced \/ calls[c].kind = "sync")
          /\ IF connected \/ calls[c].kind \in {"broadcast", "sync"}
               THEN Dispatched({c}) /\ UNCHANGED deferred
               ELSE deferred' = Append(deferred, c) /\ UNCHANGED <<pending, sent, calls>>
    /\ cmds' = Tail(cmds)
    /\ UNCHANGED <<loop, connected, budget>>

\* ConnectionEstablished: the first time the snapshots, under the locks of the
\* stores, then flush_deferred_sends.  An OutgoingConnectionError changes nothing.
ConnectionEstablished ==
    /\ loop = "up" /\ ~connected /\ budget.reachable
    /\ ~synced => ~StoreLocked
    /\ connected' = TRUE /\ synced' = TRUE
    /\ Dispatched(Range(deferred)) /\ deferred' = <<>>
    /\ UNCHANGED <<loop, cmds, budget>>

\* The connection goes, with the requests on it: the OutboundFailure of each is
\* not looked at, and its entry of pending stays.
ConnectionLost ==
    /\ connected /\ budget.drops > 0
    /\ connected' = FALSE /\ sent' = {}
    /\ budget' = [budget EXCEPT !.drops = @ - 1]
    /\ UNCHANGED <<loop, cmds, deferred, pending, calls, synced>>

\* Message::Response: the entry goes, and its caller, if it still waits, is told.
Response(c) ==
    /\ loop = "up" /\ c \in sent
    /\ sent' = sent \ {c} /\ pending' = pending \ {c}
    /\ calls' = Ends({c}, "ok")
    /\ UNCHANGED <<loop, cmds, deferred, connected, synced, budget>>

\* Message::Request: a registry or group event is applied under the lock of its
\* store, which a broadcasting caller may hold.
InboundEvent ==
    /\ loop = "up" /\ connected /\ budget.inbound > 0
    /\ budget' = [budget EXCEPT !.inbound = @ - 1]
    /\ loop' = "applying"
    /\ UNCHANGED <<cmds, deferred, pending, calls, connected, synced, sent>>

Applied ==
    /\ loop = "applying" /\ ~StoreLocked
    /\ loop' = "up"
    /\ UNCHANGED <<cmds, deferred, pending, calls, connected, synced, sent, budget>>

\* Mutant: the callers of the queue and of the deferred sends are kept.
LoopEndsKeeping ==
    /\ loop' = "ended" /\ connected' = FALSE /\ sent' = {}
    /\ UNCHANGED <<cmds, deferred, pending, calls, synced>>

\* The loop returns: the callers of the queue and of the deferred sends fail;
\* those of pending, which the handle of the cluster shares, do not.
LoopEnds ==
    /\ loop' = "ended" /\ connected' = FALSE /\ sent' = {}
    /\ calls' = Ends(Range(cmds) \union Range(deferred), "error")
    /\ cmds' = <<>> /\ deferred' = <<>>
    /\ UNCHANGED <<pending, synced>>

\* Any frame that is refused (an unknown actor, a bad encoding) ends the loop.
InboundRefused ==
    /\ loop = "up" /\ connected /\ budget.inbound > 0
    /\ budget' = [budget EXCEPT !.inbound = @ - 1]
    /\ LoopEnds

\* signal_shutdown, which the loop looks at between two events.
SignalShutdown ==
    /\ loop = "up" /\ budget.inbound > 0
    /\ budget' = [budget EXCEPT !.inbound = 0]
    /\ LoopEnds

LoopStep == HandleCommand \/ Applied \/ ConnectionEstablished \/ \E c \in Callers : Response(c)
Waits(c) == RecvTimeout(c)

SwarmNext ==
    \/ LoopStep \/ ConnectionLost \/ InboundEvent \/ InboundRefused \/ SignalShutdown
    \/ \E c \in Callers :
         SendFrame(c) \/ SendFrameAsync(c) \/ BroadcastFrame(c) \/ SyncPeer(c) \/ Waits(c)

-----------------------------------------------------------------------------
(* Properties.                                                             *)

\* Every call returns: a blocking one whatever happens, though the loop may wait
\* for the lock its caller holds; an async one unless its request was on a
\* connection or in a loop that ended (nothing takes it out of pending) or the
\* dial failed (nothing takes it out of the deferred sends).  Each caller calls
\* at most once, so "eventually none waits" says it.
SwarmCallsReturn ==
    <>[](\A c \in Callers : calls[c].state = "waiting" =>
            /\ calls[c].async
            /\ c \in pending \ sent \/ (c \in Range(deferred) /\ ~budget.reachable))
=============================================================================
