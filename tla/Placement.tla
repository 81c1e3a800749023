----------------------------- MODULE Placement -----------------------------
(***************************************************************************)
(* Parents at home, the nodes they place their children on, what each of   *)
(* them keeps, and what the broker of a node makes of it (supervision_     *)
(* remote.rs, supervision_broker.rs).                                      *)
(***************************************************************************)
EXTENDS Network

CONSTANTS
    Parents,
    NodeOf,       \* parent -> the node it places its child on
    MaxAttempts   \* bound: RemoteSpawnRetryPolicy::max_attempts

ASSUME PlacementAssumption == \A p, q \in Parents : NodeOf[p] = NodeOf[q] => p = q
ASSUME HomeAssumption == Home \notin Parents
ASSUME AttemptsAssumption == MaxAttempts \in Nat \ {0}

None == 0

Placements == {NodeOf[p] : p \in Parents}

Hows == {"Timeout", "BrutalKill", "Infinity"}

Parent(step, attempt, child, how) ==
    [step |-> step, attempt |-> attempt, child |-> child, exits |-> <<>>,
     how |-> how, rx |-> "empty", result |-> "none"]

Kid(p) == [state |-> "up", parent |-> p, exit |-> "none"]

Broker(handles, parents) ==
    [broker |-> TRUE, exits |-> <<>>, handles |-> handles, parents |-> parents, serving |-> <<>>]

SpawnRequest(p, attempt) == Event(Home, NodeOf[p], "SpawnRequest", <<p, attempt>>)

\* The connection is given up, with the answer that may be on it.
Resend(p, events) ==
    /\ net' = With(Del(net, <<NodeOf[p], p>>), events)
    /\ UNCHANGED <<transport, lost>>

-----------------------------------------------------------------------------
(* A node: its children s, in order of their numbers, and its broker f.    *)

\* A request is being served: the child is there, and not known to the broker.
Spawned(s, p) == Append(s, Kid(p))
Serving(f, p, a) == [f EXCEPT !.serving = <<"register", p, a>>]

Registered(f, k) ==
    [f EXCEPT !.handles = @ \union {k}, !.serving = <<"parent", f.serving[2], f.serving[3]>>]

Noted(f, k) == [f EXCEPT !.parents = Put(@, k, f.serving[2]), !.serving = <<>>]

\* The broker traps the exit of child k, unless it is a Kill: that one ends it.
Notified(f, k, reason) ==
    IF ~f.broker THEN f
    ELSE IF reason = "Kill" THEN [f EXCEPT !.broker = FALSE, !.exits = <<>>]
    ELSE [f EXCEPT !.exits = Append(@, k)]

\* Child k ends; with its broker, so does every child still linked to it.
Ended(s, f, k, reason) ==
    [j \in DOMAIN s |->
       LET kid == s[j]
           kill == reason = "Kill" /\ f.broker
       IN IF j = k THEN [kid EXCEPT !.state = "dead",
                           !.exit = IF f.broker /\ ~kill THEN "told" ELSE "untold"]
          ELSE IF kill /\ kid.state # "dead" THEN [kid EXCEPT !.state = "killed"]
          ELSE IF kill /\ j \in Range(f.exits) THEN [kid EXCEPT !.exit = "untold"]
          ELSE kid]

\* The next exit the broker handles is of a child whose parent was noted.
Known(f) == Head(f.exits) \in DOMAIN f.parents

Propagated(f) ==
    IF Known(f)
      THEN [f EXCEPT !.exits = Tail(@), !.handles = @ \ {Head(f.exits)},
                     !.parents = Del(@, Head(f.exits))]
      ELSE [f EXCEPT !.exits = Tail(@)]

Unreported(s, f) == IF Known(f) THEN s ELSE [s EXCEPT ![Head(f.exits)].exit = "early"]

Signalled(s, f, k, signal) ==
    IF k \in f.handles /\ s[k].state # "dead"
      THEN [s EXCEPT ![k].state = IF signal = "Kill" \/ @ = "killed" THEN "killed" ELSE "asked"]
      ELSE s
=============================================================================
