------------------------------ MODULE PgStore ------------------------------
(***************************************************************************)
(* The process group store of one node (pg.rs, PgStore), as functions from *)
(* a store to a store; each is one critical section of its RwLock.  Groups *)
(* stand for pairs of scope and name.                                      *)
(***************************************************************************)
EXTENDS Naturals, HashMaps, FiniteSetsExt

NoGroups == [groups |-> Empty, remote |-> Empty, index |-> Empty, typed |-> Empty]

Entry(m, k, default) == IF Has(m, k) THEN m[k] ELSE default
Locals(s, g) == DOMAIN Entry(s.groups, g, Empty)
Remotes(s, g) == DOMAIN Entry(s.remote, g, Empty)
TypedOf(s, g) == Entry(s.typed, g, {})

\* One more join of a member, in the local or the remote map.
Joined(m, g, a) ==
    LET members == Entry(m, g, Empty)
    IN  Put(m, g, Put(members, a, Entry(members, a, 0) + 1))

NonEmpty(m) == Retain(m, LAMBDA k, v : v # {})

\* Mutant: the group is not noted with the actor.
JoinUnindexed(s, g, a) == [s EXCEPT !.groups = Joined(@, g, a)]

JoinScoped(s, g, a) ==
    [s EXCEPT !.groups = Joined(@, g, a), !.index = Put(@, a, Entry(@, a, {}) \union {g})]

TypedJoin(s, g, a) == [s EXCEPT !.typed = Put(@, g, TypedOf(s, g) \union {a})]

\* remove_group_if_empty, of the groups gs of a loop, which do not touch one
\* another: without any member a group is forgotten altogether.
RemoveIfEmpty(s, gs) ==
    LET noLocal == {g \in gs : Locals(s, g) = {}}
        noRemote == {g \in gs : Remotes(s, g) = {}}
        gone == noLocal \intersect noRemote
    IN  [groups |-> DelAll(s.groups, noLocal), remote |-> DelAll(s.remote, noRemote),
         index |-> IF gone = {} THEN s.index
                   ELSE NonEmpty([a \in DOMAIN s.index |-> s.index[a] \ gone]),
         typed |-> DelAll(s.typed, gone)]

RemoveGroupIfEmpty(s, g) == RemoveIfEmpty(s, {g})

DelMember(m, gs, a) == [g \in DOMAIN m |-> IF g \in gs THEN Del(m[g], a) ELSE m[g]]

\* PgStore::remove_actor: out of every group its index names.
RemoveActor(s, a) ==
    LET gs == Entry(s.index, a, {})
        out == RemoveIfEmpty([groups |-> DelMember(s.groups, gs, a),
                              remote |-> DelMember(s.remote, gs, a),
                              index |-> Del(s.index, a), typed |-> s.typed], gs)
    IN  [out EXCEPT !.typed = NonEmpty([g \in DOMAIN @ |-> @[g] \ {a}])]

\* leave_scoped of a member: the last leave takes it out.
CanLeave(s, g, a) == a \in Locals(s, g)
LastLeave(s, g, a) == s.groups[g][a] = 1

LeaveScoped(s, g, a) ==
    IF ~LastLeave(s, g, a) THEN [s EXCEPT !.groups = Put(@, g, Put(@[g], a, @[g][a] - 1))]
    ELSE LET out == RemoveGroupIfEmpty([s EXCEPT !.groups = DelMember(@, {g}, a)], g)
         IN  [out EXCEPT !.index = NonEmpty(IF Has(@, a) THEN Put(@, a, @[a] \ {g}) ELSE @),
                         !.typed = NonEmpty(IF Has(@, g) THEN Put(@, g, @[g] \ {a}) ELSE @)]

\* get_local_members_scoped: the dead members go.
GetLocalMembers(s, g, live) ==
    IF Has(s.groups, g)
      THEN RemoveGroupIfEmpty([s EXCEPT !.groups = Put(@, g, Retain(@[g], LAMBDA a, k : a \in live))], g)
      ELSE s

\* member_addresses_scoped does this for a group without local members too.
MemberAddresses(s, g, live) == RemoveGroupIfEmpty(GetLocalMembers(s, g, live), g)

\* apply_remote_pg_event.
ApplyJoin(s, g, a) == [s EXCEPT !.remote = Joined(@, g, a)]
ApplyLeave(s, g, a) ==
    IF a \notin Remotes(s, g) THEN s
    ELSE LET k == s.remote[g][a]
         IN  RemoveGroupIfEmpty(
               [s EXCEPT !.remote = IF k <= 1 THEN DelMember(@, {g}, a)
                                    ELSE Put(@, g, Put(@[g], a, k - 1))], g)

\* local_pg_snapshot: every local membership, once.
LocalSnapshot(s) == UNION {{<<g, a>> : a \in Locals(s, g)} : g \in DOMAIN s.groups}
=============================================================================
