------------------------------ MODULE MCLinks ------------------------------
(* Small casts of actors: who may do what, and what is asked of whom.      *)
EXTENDS ActorLinks

CONSTANTS a1, a2, a3

Pair == {a1, a2}
Trio == {a1, a2, a3}

Nothing == [a \in Actors |-> {}]
Does(x, ops) == [Nothing EXCEPT ![x] = ops]

\* Two actors link to each other while the second one may stop, panic, or be
\* shut down.
CrossLink ==
    [running |-> {a1, a2},
     script |-> [Does(a1, {<<"link", a2>>, <<"trap", a1>>})
                   EXCEPT ![a2] = {<<"link", a1>>, <<"stop", a2>>}],
     requests |-> Does(a2, {"shutdown", "os"}),
     panickers |-> {a2}]

CrossLinkAlone == [CrossLink EXCEPT !.requests = Nothing]

\* One links and unlinks, and the other may stop, panic, or be killed.
LinkThenUnlink ==
    [running |-> {a1, a2},
     script |-> [Does(a1, {<<"link", a2>>, <<"unlink", a2>>})
                   EXCEPT ![a2] = {<<"stop", a2>>}],
     requests |-> Does(a2, {"kill", "stop"}),
     panickers |-> {a2}]

\* A parent that may panic starts a linked child, which may stop or be killed.
KilledChild ==
    [running |-> {a1},
     script |-> [Does(a1, {<<"spawn", a2>>}) EXCEPT ![a2] = {<<"stop", a2>>}],
     requests |-> Does(a2, {"kill", "stop"}),
     panickers |-> {a1}]

\* A child of a parent that may trap exits, and a third actor that links to it.
Family ==
    [running |-> {a1, a3},
     script |-> [Does(a1, {<<"spawn", a2>>, <<"trap", a1>>, <<"untrap", a1>>})
                   EXCEPT ![a3] = {<<"link", a2>>}],
     requests |-> Nothing,
     panickers |-> {a2}]

AllCasts == {CrossLink, LinkThenUnlink, KilledChild, Family}
FairCasts == {CrossLinkAlone}
=============================================================================
