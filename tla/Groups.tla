------------------------------- MODULE Groups -------------------------------
(***************************************************************************)
(* Process groups and pools within one node (tasks/pg.rs, threads/pg.rs,   *)
(* tasks/pool.rs, threads/pool.rs): members join in two critical sections  *)
(* of the store, actors leave when they end, and a broadcast or a dispatch *)
(* sends to the members it has read before.                                *)
(***************************************************************************)
EXTENDS ActorLife, PgStore

CONSTANTS
    GroupKeys,  \* scope and name
    MaxJoins,   \* bound: joins in the store, of all actors to all groups
    Width,      \* the dispatcher's counter is modulo 2^Width
    MaxCast     \* bound: messages queued for an actor

ASSUME GroupKeysAssumption == Idle \notin GroupKeys

VARIABLES
    pg,         \* the store
    joining,    \* per actor: the group between the two sections, or Idle
    sender,     \* who casts, calls or dispatches: its kind, the members left,
                \* and the member whose answer it waits for, or Idle
    pool,       \* PoolDispatcher.next; history: the members, and what each was sent
                \* more than the least since they changed
    late, raced \* history: joined after its removal; left between the sections

groupVars == <<pg, joining, sender, pool, late, raced>>
PoolGroup == CHOOSE g \in GroupKeys : TRUE
CastMsg == <<"cast", 0>>
Quiet == [kind |-> "none", left |-> {}, waits |-> Idle]

\* ActorPoolBuilder::start: with_pg_group joins every worker.
PoolStarted ==
    [NoGroups EXCEPT !.groups = Put(@, PoolGroup, [a \in Actors |-> 1]),
                     !.index = [a \in Actors |-> {PoolGroup}],
                     !.typed = Put(@, PoolGroup, Actors)]

GroupInit ==
    /\ pg = IF "pool" \in use THEN PoolStarted ELSE NoGroups
    /\ joining = [a \in Actors |-> Idle]
    /\ sender = Quiet
    /\ pool = [next |-> 0, members |-> {}, sends |-> Empty]
    /\ late = {} /\ raced = {}

Live == {a \in Actors : phase[a] # "dead"}
Joins(a, g) == IF a \in Locals(pg, g) THEN pg.groups[g][a] ELSE 0
AllJoins == FoldSet(LAMBDA ag, n : n + Joins(ag[1], ag[2]), 0, Actors \X GroupKeys)

\* The history, as long as it matters: a late member is one; a raced actor is
\* typed, or about to be.
LateNow(pairs) == {p \in pairs : p[1] \in Locals(pg', p[2])}
RacedNow ==
    {p \in Actors \X GroupKeys :
        /\ p[1] \notin Locals(pg', p[2])
        /\ joining'[p[1]] = p[2] \/ (p \in raced /\ p[1] \in TypedOf(pg', p[2]))}

\* join_scoped: pg::join_scoped, then typed_join.  Nothing asks whether the
\* actor is alive.
Join(a, g) ==
    /\ "groups" \in use /\ joining[a] = Idle /\ AllJoins < MaxJoins
    /\ pg' = JoinScoped(pg, g, a)
    /\ joining' = [joining EXCEPT ![a] = g]
    /\ late' = LateNow(IF phase[a] \in {"removed", "dead"} THEN late \union {<<a, g>>} ELSE late)
    /\ raced' = RacedNow
    /\ UNCHANGED <<lifeVars, sender, pool>>

ThreadsJoin(a, g) == Join(a, g)

JoinTyped(a) ==
    /\ joining[a] # Idle
    /\ pg' = TypedJoin(pg, joining[a], a)
    /\ joining' = [joining EXCEPT ![a] = Idle]
    /\ late' = LateNow(late) /\ raced' = RacedNow
    /\ UNCHANGED <<lifeVars, sender, pool>>

\* Any of the holders of an ActorId may leave for it.
LeaveGroup(a, g) ==
    /\ CanLeave(pg, g, a)
    /\ pg' = LeaveScoped(pg, g, a)
    /\ UNCHANGED joining
    /\ late' = LateNow(late) /\ raced' = RacedNow
    /\ UNCHANGED <<lifeVars, sender, pool>>

ThreadsLeaveGroup(a, g) == LeaveGroup(a, g)

\* pg::remove_actor, on the way out of the actor.
ExitRemoves(a) ==
    /\ RemoveFromGroups(a)
    /\ pg' = RemoveActor(pg, a)
    /\ UNCHANGED joining
    /\ late' = LateNow(late) /\ raced' = RacedNow
    /\ UNCHANGED <<sender, pool>>

\* The untyped queries prune what has died.
Query(g) ==
    /\ \/ pg' = GetLocalMembers(pg, g, Live)
       \/ pg' = MemberAddresses(pg, g, Live)
    /\ UNCHANGED joining
    /\ late' = LateNow(late) /\ raced' = RacedNow
    /\ UNCHANGED <<lifeVars, sender, pool>>

\* members_scoped: the typed members that have not completed.
Members(g) == TypedOf(pg, g) \intersect Live

\* cast_scoped and call_scoped read the members once ...
Broadcast(kind, g) ==
    /\ sender = Quiet /\ \A a \in Actors : Len(queue[a]) < MaxCast
    /\ sender' = [sender EXCEPT !.kind = kind, !.left = Members(g)]
    /\ UNCHANGED <<lifeVars, pg, joining, pool, late, raced>>

CastScoped(g) == "pool" \in use /\ Members(g) # {} /\ Broadcast("cast", g)
CallScoped(g) == "pool" \in use /\ Members(g) # {} /\ Broadcast("call", g)
ThreadsCastScoped(g) == CastScoped(g)
ThreadsCallScoped(g) == CallScoped(g)

\* ... and send to one member after the other; a call waits for each.
SendToMember(a) ==
    /\ a \in sender.left /\ sender.waits = Idle
    /\ SendOrDrop(a, CastMsg)
    /\ sender' = [sender EXCEPT !.left = @ \ {a},
                    !.waits = IF sender.kind = "call" /\ CanSend(a) THEN a ELSE Idle]
    /\ UNCHANGED <<phase, cancelled, handling, pg, joining, pool, late, raced>>

\* The handler has ended, or the message was dropped with the receiver.
Answered ==
    /\ sender.waits # Idle /\ CastMsg \notin Range(queue[sender.waits])
    /\ handling[sender.waits] # CastMsg
    /\ sender' = [sender EXCEPT !.waits = Idle]
    /\ UNCHANGED <<lifeVars, pg, joining, pool, late, raced>>

Returns ==
    /\ sender.kind # "none" /\ sender.left = {} /\ sender.waits = Idle
    /\ sender' = Quiet
    /\ UNCHANGED <<lifeVars, pg, joining, pool, late, raced>>

\* Mutant: one more than there are members, and the last index clamped.
IndexSkewed(next, depths, strategy) ==
    LET i == next % (Len(depths) + 1) IN IF i = 0 THEN 1 ELSE i

\* select_member_index, from 1: RoundRobin, or the first of the least loaded.
SelectMemberIndex(next, depths, strategy) ==
    IF strategy = "RoundRobin" THEN (next % Len(depths)) + 1
    ELSE CHOOSE i \in DOMAIN depths :
            /\ \A j \in DOMAIN depths : depths[i] <= depths[j]
            /\ \A j \in 1..(i - 1) : depths[i] < depths[j]

\* dispatch, call_one: select_local_target, then the send.  The members come in
\* the order of a HashMap, which depends on nothing but the members.
Dispatch(g, strategy) ==
    LET members == InOrder(Members(g))
        depths == [i \in DOMAIN members |-> Len(queue[members[i]])]
        target == members[SelectMemberIndex(pool.next, depths, strategy)]
        before == IF pool.members = Members(g) THEN pool.sends ELSE [a \in Members(g) |-> 0]
        sends == [before EXCEPT ![target] = @ + 1]
        least == Min(Values(sends))
    IN  /\ "pool" \in use /\ sender = Quiet /\ Members(g) # {}
        /\ \A a \in Actors : Len(queue[a]) < MaxCast
        /\ sender' = [sender EXCEPT !.kind = "cast", !.left = {target}]
        /\ pool' = IF strategy = "RoundRobin"
                     THEN [next |-> (pool.next + 1) % 2^Width, members |-> Members(g),
                           sends |-> [a \in Members(g) |-> sends[a] - least]]
                     ELSE pool
        /\ UNCHANGED <<lifeVars, pg, joining, late, raced>>

ThreadsDispatch(g, strategy) == Dispatch(g, strategy)

Sending == (\E a \in Actors : SendToMember(a)) \/ Answered \/ Returns

GroupNext ==
    \/ \E a \in Actors, g \in GroupKeys :
         Join(a, g) \/ ThreadsJoin(a, g) \/ LeaveGroup(a, g) \/ ThreadsLeaveGroup(a, g)
    \/ \E a \in Actors : JoinTyped(a)
    \/ \E g \in GroupKeys :
         \/ Query(g) \/ CastScoped(g) \/ CallScoped(g)
         \/ ThreadsCastScoped(g) \/ ThreadsCallScoped(g)
         \/ \E s \in {"RoundRobin", "LeastLoaded"} : Dispatch(g, s) \/ ThreadsDispatch(g, s)
    \/ Sending

-----------------------------------------------------------------------------
(* Properties.                                                             *)

\* Who is a member.  pg::remove_actor finds every group of the actor through the index.  Past its
\* removal an actor is a member only of groups it was joined to afterwards, by
\* someone who held its ActorRef; those keep it until a query prunes them.  Of
\* those that live, the typed members, whom broadcasts reach, are the members: a
\* member is typed unless its join is between the two sections, and an actor that
\* is typed and no member left between them.  And no group is without members.
GroupsAgree ==
    /\ \A a \in Actors, g \in GroupKeys :
         phase[a] \in {"removed", "dead"} /\ a \in Locals(pg, g) => <<a, g>> \in late
    /\ \A a \in Live, g \in GroupKeys :
         /\ a \in Locals(pg, g) => a \in TypedOf(pg, g) \/ joining[a] = g
         /\ a \in TypedOf(pg, g) => a \in Locals(pg, g) \/ <<a, g>> \in raced
    /\ \A g \in DOMAIN pg.groups : Locals(pg, g) # {}

\* While the members stay the same the dispatcher gives each the same share, up
\* to one message; its counter may wrap.  (As it does, a number of members that
\* does not divide its range makes some shares one larger: so for two, not for all.)
FairShares ==
    \A a, b \in DOMAIN pool.sends : pool.sends[a] <= pool.sends[b] + 1

=============================================================================
