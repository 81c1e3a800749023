------------------------------ MODULE Network ------------------------------
(***************************************************************************)
(* What lies between two nodes, as the supervision code sees it: published *)
(* events that arrive later or not at all.  Over TCP the events from one   *)
(* node to another keep their order; over libp2p every event is a request  *)
(* of its own, and they may pass each other.                               *)
(***************************************************************************)
EXTENDS Naturals, Sequences, Functions, FiniteSets, HashMaps

CONSTANTS Home   \* the node of the actors that watch or place others

VARIABLES
    transport,  \* "tcp" or "libp2p", never changed
    net,        \* <<from, to>> -> the events on their way, where there are any
    lost        \* history: kinds of event that got lost

netVars == <<transport, net, lost>>

NetInit == transport \in {"tcp", "libp2p"} /\ net = Empty /\ lost = {}

Event(from, to, kind, body) == [link |-> <<from, to>>, kind |-> kind, body |-> body]

\* Where an event is: its link and its place there.
Places == UNION {{l} \X DOMAIN net[l] : l \in DOMAIN net}
At(i) == net[i[1]][i[2]]

\* An event of a kind that node n can take next.
Takes(n, kind, i) ==
    /\ i[1][2] = n /\ At(i).kind = kind
    /\ transport = "tcp" => i[2] = 1

\* The event at place j of link l is taken out of m.
Rest(s, j) == SubSeq(s, 1, j - 1) \o SubSeq(s, j + 1, Len(s))
Cut(m, l, j) == IF Len(m[l]) = 1 THEN Del(m, l) ELSE [m EXCEPT ![l] = Rest(m[l], j)]

Without(i) == Cut(net, i[1], i[2])

\* One event more, or none.
With(m, events) ==
    IF events = <<>> THEN m
    ELSE LET l == events[1].link
         IN Put(m, l, (IF Has(m, l) THEN m[l] ELSE <<>>) \o events)

\* An event is taken and another published.
Exchange(i, events) == net' = With(Without(i), events) /\ UNCHANGED <<transport, lost>>
Publish(events) == net' = With(net, events) /\ UNCHANGED <<transport, lost>>

\* A write to a broken connection, a failed dial, a frame the peer refuses.
Lose(i) == net' = Without(i) /\ lost' = lost \union {At(i).kind} /\ UNCHANGED transport
=============================================================================
