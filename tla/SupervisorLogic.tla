-------------------------- MODULE SupervisorLogic --------------------------
(***************************************************************************)
(* The bookkeeping of SupervisorLogic (supervisor/mod.rs) that a           *)
(* supervisor adding and removing children uses: the list of children, in  *)
(* order, each with the ActorId in its slot.  An ActorId is a bare number: *)
(* actors of two nodes can share one.                                      *)
(***************************************************************************)
EXTENDS Naturals, Sequences, SequencesExt

\* The first position, if any, whose child satisfies the test, as a set.
First(children, Test(_)) ==
    LET hits == {i \in DOMAIN children : Test(children[i])}
    IN  {i \in hits : \A j \in hits : i <= j}

ChildIndexByActor(children, n) == First(children, LAMBDA c : c.slot = n /\ c.alive)
ChildIdByActorAny(children, n) ==
    {children[i].id : i \in First(children, LAMBDA c : c.slot = n)}

ChildCount(children) == Len(SelectSeq(children, LAMBDA c : c.alive))

NextStartIndex(children) ==
    IF children = <<>> THEN 0
    ELSE 1 + (CHOOSE m \in {children[i].startIndex : i \in DOMAIN children} :
                \A i \in DOMAIN children : children[i].startIndex <= m)

RegisterChild(children, id, restart, n) ==
    Append(children, [id |-> id, restart |-> restart, slot |-> n, alive |-> TRUE,
                      startIndex |-> NextStartIndex(children)])

RemoveChildById(children, id) == SelectSeq(children, LAMBDA c : c.id # id)

MarkChildDead(children, n) ==
    [i \in DOMAIN children |->
        IF i \in ChildIndexByActor(children, n)
          THEN [children[i] EXCEPT !.alive = FALSE] ELSE children[i]]

ReplaceChildHandle(children, id, n) ==
    [i \in DOMAIN children |->
        IF children[i].id = id
          THEN [children[i] EXCEPT !.slot = n, !.alive = TRUE] ELSE children[i]]

\* should_restart (child_spec.rs)
ShouldRestart(restart, reason) ==
    \/ restart = "permanent" /\ reason # "Shutdown"
    \/ restart = "transient" /\ reason \in {"Panic", "Kill"}

\* Reverse start order.
ShutdownOrder(children) ==
    LET order == SortSeq(children, LAMBDA c, d : c.startIndex > d.startIndex)
    IN  [i \in DOMAIN order |-> order[i].id]
=============================================================================
