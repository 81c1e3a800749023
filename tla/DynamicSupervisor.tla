------------------------- MODULE DynamicSupervisor -------------------------
(***************************************************************************)
(* The dynamic supervisor (tasks/dynamic_supervisor.rs and                 *)
(* threads/dynamic_supervisor.rs, the same steps, the second with blocking *)
(* waits), its children here and on another node, and the global registry  *)
(* (registry.rs) its children may be named in.                             *)
(*                                                                         *)
(* An actor is <<node, n>>, n its ActorId; the tables of the supervisor    *)
(* hold the bare n.  Linking a child and the exit signals are those of     *)
(* Supervisor; a child may die between its spawn and its link in the       *)
(* window ActorLinks describes, and is then never reported.  What a remote *)
(* node answers is left open: RemoteSpawn details it.                      *)
(***************************************************************************)
EXTENDS SupervisorLogic, HashMaps, Integers

CONSTANTS
    Configs,    \* the supervisors studied, records of
                \*   maxChildren: the limit
                \*   maxRestarts: RestartIntensity.max_restarts
                \*   restarts:    restart types of the specs started
                \*   shutdown:    "Infinity", "Timeout" or "BrutalKill"
                \*   names:       registry names used (None: no name)
                \*   remote:      whether children are started on the other node
                \*   first:       the first ActorId the other node gives
                \*   requests:    what is asked of the supervisor
                \*   maxStarts, maxCrashes: bounds
    None

ASSUME ConfigsAssumption ==
    \A c \in Configs :
        /\ {c.maxChildren, c.maxRestarts, c.first, c.maxStarts, c.maxCrashes} \subseteq Nat
        /\ c.restarts \subseteq {"permanent", "transient", "temporary"}
        /\ c.shutdown \in {"Infinity", "Timeout", "BrutalKill"}
        /\ None \in c.names /\ c.remote \in BOOLEAN
        /\ c.requests \subseteq {"stop", "kill"}

VARIABLES
    config,     \* this supervisor, never changed
    life,       \* every child actor ever spawned: state, child id, linked
    exits,      \* the Exit messages queued for the supervisor
    t,          \* its tables
    idCounter,
    recent,     \* restart_timestamps inside the window: how many
    pc, work,   \* where its task is, and the child ids it is at
    own,        \* its cancelled flag, linked reason, and requests made of it
    registry,   \* name -> actor, or "other" for a value of somebody else's
    crashes,
    noted       \* history: names taken from under it, ids refused

vars == <<config, life, exits, t, idCounter, recent, pc, work, own, registry, crashes,
          noted>>
self == <<t, idCounter, recent, pc, work>>

Here(n) == <<"here", n>>
There(n) == <<"there", n>>
Alive(a) == Has(life, a) /\ life[a].state # "dead"

NoTables ==
    [children |-> <<>>, specs |-> {}, handles |-> Empty, actorToId |-> Empty,
     regNames |-> Empty, remoteHandles |-> Empty, remoteActorToId |-> Empty,
     remoteSpawnMeta |-> {}]

Init ==
    /\ config \in Configs
    /\ life = Empty /\ exits = <<>> /\ t = NoTables
    /\ idCounter = 0 /\ recent = 0 /\ pc = "loop" /\ work = <<>>
    /\ own = [cancelled |-> FALSE, inherited |-> None, asked |-> {}]
    /\ registry = Empty /\ crashes = 0
    /\ noted = [freed |-> {}, refused |-> {}]

\* A callback returns to the loop, which looks at the token.
Settle == pc' = (IF own'.cancelled THEN "leave" ELSE "loop") /\ work' = <<>>

-----------------------------------------------------------------------------
(* The children.                                                           *)

NextActorId(node) ==
    LET base == IF node = "here" THEN 1 ELSE config.first
    IN  base + Cardinality({a \in DOMAIN life : a[1] = node})

NewActor(id, linked) ==
    [state |-> IF linked THEN "up" ELSE "dead", id |-> id, linked |-> linked]

\* spec.start_child: the new actor runs and is linked, or died unreported.
Spawned(id, n) ==
    \E linked \in BOOLEAN : life' = Put(life, Here(n), NewActor(id, linked))

\* The exit of a child here: a Kill cancels the supervisor, others are queued.
Signal(n, reason) ==
    IF reason = "Kill"
      THEN /\ own' = [own EXCEPT !.cancelled = TRUE, !.inherited = "Kill"]
           /\ UNCHANGED exits
      ELSE /\ exits' = Append(exits, [n |-> n, reason |-> reason])
           /\ UNCHANGED own

\* A remote exit is reported by the broker, by the actor's own remote links, by
\* both, or, the message lost, not at all.
RemoteSignal(n, reason) ==
    /\ \E copies \in 0..2 :
         exits' = exits \o [i \in 1..copies |-> [n |-> n, reason |-> reason]]
    /\ UNCHANGED own

EndsWith(state, reason) ==
    \/ state = "asked" /\ reason = "Shutdown"
    \/ state = "killed" /\ reason = "Kill"

Die(a, reason) ==
    /\ Alive(a)
    /\ \/ EndsWith(life[a].state, reason) /\ UNCHANGED crashes
       \/ /\ reason \in {"Normal", "Panic"} /\ crashes < config.maxCrashes
          /\ crashes' = crashes + 1
    /\ life' = [life EXCEPT ![a].state = "dead"]
    /\ IF pc = "ended" THEN UNCHANGED <<exits, own>>
       ELSE IF a[1] = "there" THEN RemoteSignal(a[2], reason) ELSE Signal(a[2], reason)
    /\ UNCHANGED <<config, self, registry, noted>>

\* shutdown and kill of a handle.
Asked(a, how) == [life EXCEPT ![a].state = IF @ = "up" \/ how = "killed" THEN how ELSE @]

-----------------------------------------------------------------------------
(* The registry.                                                           *)

\* Mutant: the entry is replaced.
RegisterOverwrites(name) == TRUE

\* register fails when the name is taken.
CanRegister(name) == ~Has(registry, name)
Unregister(names) == [x \in DOMAIN registry \ names |-> registry[x]]

OtherRegisters(name) ==
    /\ CanRegister(name)
    /\ registry' = Put(registry, name, "other")
    /\ UNCHANGED <<config, life, exits, self, own, crashes, noted>>

\* Anybody may unregister any name, one of the supervisor's included.
OtherUnregisters(name) ==
    /\ Has(registry, name)
    /\ registry' = Unregister({name})
    /\ noted' = [noted EXCEPT !.freed = @ \union {name}]
    /\ UNCHANGED <<config, life, exits, self, own, crashes>>

-----------------------------------------------------------------------------
(* Starting children.                                                      *)

HasRoom == ChildCount(t.children) < config.maxChildren

\* Names of a child: at most one.
NamesOf(tab, id) == {x \in DOMAIN tab.regNames : tab.regNames[x] = id}

\* Mutant: the bookkeeping of the policy engine keeps the child.
CleanupKeepsLogic(tab, id) ==
    [tab EXCEPT !.regNames = [x \in DOMAIN @ \ NamesOf(tab, id) |-> @[x]],
                !.handles = Del(@, id),
                !.actorToId = IF Has(tab.handles, id) THEN Del(@, tab.handles[id]) ELSE @,
                !.remoteSpawnMeta = @ \ {id}, !.specs = @ \ {id}]

\* cleanup_child, but for the registry.
CleanupChild(tab, id) ==
    [tab EXCEPT !.regNames = [x \in DOMAIN @ \ NamesOf(tab, id) |-> @[x]],
                !.handles = Del(@, id),
                !.actorToId = IF Has(tab.handles, id) THEN Del(@, tab.handles[id]) ELSE @,
                !.remoteSpawnMeta = @ \ {id}, !.specs = @ \ {id},
                !.children = RemoveChildById(@, id)]

\* What start_child records of a new child.
Track(tab, id, restart, n) ==
    [tab EXCEPT !.children = RegisterChild(@, id, restart, n), !.specs = @ \union {id},
                !.handles = Put(@, id, n), !.actorToId = Put(@, n, id)]

\* start_child.  A child whose name is taken is cleaned up; nobody ends it.
StartChild(restart, name) ==
    LET id == idCounter + 1
        n == NextActorId("here")
        tracked == Track(t, id, restart, n)
    IN  /\ pc = "loop" /\ idCounter < config.maxStarts /\ HasRoom
        /\ idCounter' = id
        /\ Spawned(id, n)
        /\ IF name = None
             THEN t' = tracked /\ UNCHANGED <<registry, noted>>
           ELSE IF CanRegister(name)
             THEN /\ registry' = Put(registry, name, Here(n))
                  /\ t' = [tracked EXCEPT !.regNames = Put(@, name, id)]
                  /\ noted' = [noted EXCEPT !.freed = @ \ {name}]
             ELSE /\ t' = CleanupChild(tracked, id)
                  /\ noted' = [noted EXCEPT !.refused = @ \union {id}]
                  /\ UNCHANGED registry
        /\ UNCHANGED <<config, exits, recent, pc, work, own, crashes>>

\* Handler<StartChild> of the threads runtime: the same steps.
ThreadsStartChild(restart, name) == StartChild(restart, name)

\* start_child_remote up to its request.
StartChildRemote ==
    /\ pc = "loop" /\ config.remote /\ idCounter < config.maxStarts /\ HasRoom
    /\ idCounter' = idCounter + 1
    /\ pc' = "rpcStart" /\ work' = <<idCounter + 1>>
    /\ UNCHANGED <<config, life, exits, t, recent, own, registry, crashes, noted>>

ThreadsStartChildRemote == StartChildRemote

\* What is recorded of a new remote instance; its restart type is Permanent.
TrackRemote(tab, id, n) ==
    [tab EXCEPT !.children = RegisterChild(@, id, "permanent", n),
                !.remoteHandles = Put(@, id, n), !.remoteActorToId = Put(@, n, id),
                !.remoteSpawnMeta = @ \union {id}]
RetrackRemote(tab, id, n) ==
    [tab EXCEPT !.children = ReplaceChildHandle(@, id, n),
                !.remoteHandles = Put(@, id, n), !.remoteActorToId = Put(@, n, id)]

\* request_spawn_with_retry_async: an instance whose answer was lost is left
\* running by the retry.  The answer is an instance, or an error.
SpawnAnswer ==
    LET n == NextActorId("there")
        id == work[1]
        retried == Put(life, There(n), NewActor(None, TRUE))
    IN  /\ pc \in {"rpcStart", "rpcRestart"}
        /\ \/ \* Ok
              \E lost \in BOOLEAN :
                LET k == IF lost THEN n + 1 ELSE n
                IN  /\ life' = Put(IF lost THEN retried ELSE life, There(k),
                                      NewActor(id, TRUE))
                    /\ t' = IF pc = "rpcStart" THEN TrackRemote(t, id, k)
                                               ELSE RetrackRemote(t, id, k)
           \/ \* Err: a failed restart forgets the child
              /\ life' \in {life, retried}
              /\ t' = IF pc = "rpcStart" THEN t ELSE CleanupChild(t, id)
        /\ UNCHANGED <<config, exits, idCounter, recent, own, registry, crashes, noted>>
        /\ Settle

ThreadsSpawnAnswer == SpawnAnswer

-----------------------------------------------------------------------------
(* Exits and restarts.                                                     *)

\* record_restart: any number of the oldest stamps has left the window.
RecordRestart(kept) == kept + 1

\* handle_exit.
HandleExit ==
    LET n == Head(exits).n
        known == ChildIndexByActor(t.children, n)
        again == {i \in known : ShouldRestart(t.children[i].restart, Head(exits).reason)}
        marked == [t EXCEPT !.children = MarkChildDead(@, n)]
        gone == ChildIdByActorAny(marked.children, n)
    IN  /\ pc = "loop" /\ exits # <<>>
        /\ exits' = Tail(exits)
        /\ IF again = {}
             THEN \* Ignore: a child that is known is cleaned up
                  /\ t' = IF gone = {} THEN t ELSE CleanupChild(marked, CHOOSE id \in gone : TRUE)
                  /\ registry' = Unregister(UNION {NamesOf(t, id) : id \in gone})
                  /\ UNCHANGED <<recent, own, noted>> /\ Settle
             ELSE \E kept \in 0..recent :
                  /\ t' = marked
                  /\ IF kept >= config.maxRestarts
                       THEN \* Meltdown: ctx.stop()
                            /\ recent' = kept
                            /\ own' = [own EXCEPT !.cancelled = TRUE]
                            /\ UNCHANGED noted /\ Settle
                       ELSE \* RestartOne, after its backoff
                            /\ recent' = RecordRestart(kept)
                            /\ pc' = "sleep" /\ work' = <<t.children[CHOOSE i \in again : TRUE].id>>
                            /\ UNCHANGED <<own, noted>>
                  /\ UNCHANGED registry
        /\ UNCHANGED <<config, life, idCounter, crashes>>

ThreadsHandleExit == HandleExit

\* restart_child: a new instance in the tables; a name is not moved to it.
RestartChild(id) ==
    LET n == NextActorId("here")
    IN  /\ Spawned(id, n)
        /\ t' = [t EXCEPT !.children = ReplaceChildHandle(@, id, n),
                          !.handles = Put(@, id, n),
                          !.actorToId = Put(Del(@, t.handles[id]), n, id)]
        /\ Settle

\* restart_remote_child up to its request.
RestartRemoteChild(id) ==
    /\ t' = [t EXCEPT !.remoteHandles = Del(@, id),
                      !.remoteActorToId = Retain(@, LAMBDA n, other : other # id)]
    /\ pc' = "rpcRestart" /\ UNCHANGED <<work, life>>

\* restart_child_with_backoff, the delay over.
RestartAfterBackoff ==
    LET id == work[1]
    IN  /\ pc = "sleep"
        /\ UNCHANGED <<config, exits, idCounter, recent, own, registry, crashes, noted>>
        /\ IF id \in t.remoteSpawnMeta THEN RestartRemoteChild(id)
           ELSE IF id \in t.specs THEN RestartChild(id)
           ELSE UNCHANGED <<t, life>> /\ Settle

ThreadsRestartAfterBackoff == RestartAfterBackoff

-----------------------------------------------------------------------------
(* Ending children.                                                        *)

\* shutdown_child_async, shutdown_child_blocking: ask, unless it has exited ...
AskHow == IF config.shutdown = "BrutalKill" THEN "killed" ELSE "asked"

\* ... and escalate when a finite wait is over.
ShutdownTimeout ==
    /\ pc \in {"awaitTerminate", "awaitStop"}
    /\ config.shutdown = "Timeout"
    /\ Alive(Here(t.handles[work[1]]))
    /\ life' = Asked(Here(t.handles[work[1]]), "killed")
    /\ life' # life
    /\ UNCHANGED <<config, exits, self, own, registry, crashes, noted>>

\* shutdown_remote_and_wait: the request may get lost.
AskRemote(n) == life' \in {life, Asked(There(n), "asked")}

\* terminate_child_by_actor for a remote child ...
TerminateRemote(n) ==
    LET id == t.remoteActorToId[n]
    IN  /\ pc = "loop"
        /\ Has(t.remoteActorToId, n) /\ Has(t.remoteHandles, id)
        /\ t' = [t EXCEPT !.remoteHandles = Del(@, id)]
        /\ AskRemote(t.remoteHandles[id])
        /\ pc' = "remoteTerminate" /\ work' = <<id, n, t.remoteHandles[id]>>
        /\ UNCHANGED <<config, exits, idCounter, recent, own, registry, crashes, noted>>

\* ... whose wait returns when it has exited, or fails, leaving the rest.
TerminatedRemote ==
    /\ pc = "remoteTerminate"
    /\ \/ /\ ~Alive(There(work[3]))
          /\ t' = [t EXCEPT !.remoteActorToId = Del(@, work[2]),
                            !.remoteSpawnMeta = @ \ {work[1]},
                            !.children = RemoveChildById(@, work[1])]
       \/ UNCHANGED t
    /\ UNCHANGED <<config, life, exits, idCounter, recent, own, registry, crashes, noted>>
    /\ Settle

\* terminate_child_by_actor for one here: it leaves the policy engine first.
TerminateChild(n) ==
    LET id == t.actorToId[n]
        a == Here(t.handles[id])
    IN  /\ pc = "loop"
        /\ ~(Has(t.remoteActorToId, n) /\ Has(t.remoteHandles, t.remoteActorToId[n]))
        /\ Has(t.actorToId, n)
        /\ t' = [t EXCEPT !.children = RemoveChildById(@, id)]
        /\ life' = IF Alive(a) THEN Asked(a, AskHow) ELSE life
        /\ pc' = "awaitTerminate" /\ work' = <<id>>
        /\ UNCHANGED <<config, exits, idCounter, recent, own, registry, crashes, noted>>

ThreadsTerminate(n) == TerminateRemote(n) \/ TerminateChild(n)

\* The child has exited.
TerminatedChild ==
    /\ pc = "awaitTerminate"
    /\ ~Alive(Here(t.handles[work[1]]))
    /\ registry' = Unregister(NamesOf(t, work[1]))
    /\ t' = CleanupChild(t, work[1])
    /\ UNCHANGED <<config, life, exits, idCounter, recent, own, crashes, noted>>
    /\ Settle

ThreadsTerminatedChild == TerminatedChild

-----------------------------------------------------------------------------
(* The end of the supervisor.                                              *)

Ask(q) ==
    /\ pc # "ended" /\ q \in config.requests \ own.asked
    /\ own' = [own EXCEPT !.cancelled = TRUE, !.asked = @ \union {q}]
    /\ UNCHANGED <<config, life, exits, self, registry, crashes, noted>>

\* The loop receives the stop item; stopped() begins, unless killed.
RecvStop ==
    /\ pc = "leave" \/ (pc = "loop" /\ own.cancelled)
    /\ IF "kill" \in own.asked THEN pc' = "end" /\ work' = <<>>
       ELSE pc' = "shut" /\ work' = ShutdownOrder(t.children)
    /\ UNCHANGED <<config, life, exits, t, idCounter, recent, own, registry, crashes, noted>>

\* stopped(): the next child is asked to end and waited for.
ShutdownNext ==
    LET id == work[1]
    IN  /\ pc = "shut" /\ work # <<>>
        /\ IF Has(t.handles, id)
             THEN /\ pc' = "awaitStop"
                  /\ life' = IF Alive(Here(t.handles[id]))
                               THEN Asked(Here(t.handles[id]), AskHow) ELSE life
           ELSE IF Has(t.remoteHandles, id)
             THEN pc' = "remoteStop" /\ AskRemote(t.remoteHandles[id])
           ELSE pc' = "shut" /\ UNCHANGED life
        /\ work' = IF pc' = "shut" THEN Tail(work) ELSE work
        /\ UNCHANGED <<config, exits, t, idCounter, recent, own, registry, crashes, noted>>

\* It has exited; the wait for a remote one may also fail.
ShutdownDone ==
    /\ \/ pc = "awaitStop" /\ ~Alive(Here(t.handles[work[1]]))
       \/ pc = "remoteStop"
    /\ pc' = "shut" /\ work' = Tail(work)
    /\ UNCHANGED <<config, life, exits, t, idCounter, recent, own, registry, crashes, noted>>

\* Mutant: the names stay.
StoppedKeepsNames ==
    /\ pc = "shut" /\ work = <<>>
    /\ t' = [NoTables EXCEPT !.children = t.children]
    /\ pc' = "end"
    /\ UNCHANGED <<config, life, exits, idCounter, recent, work, own, registry, crashes, noted>>

\* The loop of stopped() is over: the tables are cleared, the names unregistered.
Stopped ==
    /\ pc = "shut" /\ work = <<>>
    /\ t' = [NoTables EXCEPT !.children = t.children]
    /\ registry' = Unregister(DOMAIN t.regNames)
    /\ pc' = "end"
    /\ UNCHANGED <<config, life, exits, idCounter, recent, work, own, crashes, noted>>

ThreadsStopped == Stopped

FinalReason ==
    IF "kill" \in own.asked THEN "Kill" ELSE IF own.inherited # None THEN own.inherited
    ELSE "Normal"

\* Mutant: the supervisor ends without telling its links.
EndSilently ==
    /\ pc = "end" /\ pc' = "ended"
    /\ UNCHANGED <<config, life, exits, t, idCounter, recent, work, own, registry, crashes,
                   noted>>

\* The exit of the supervisor cancels what it is linked to, unless Normal.
End ==
    /\ pc = "end" /\ pc' = "ended"
    /\ life' = [a \in DOMAIN life |->
                  IF a[1] = "here" /\ life[a].state = "up" /\ FinalReason # "Normal"
                    THEN [life[a] EXCEPT !.state = "asked"] ELSE life[a]]
    /\ UNCHANGED <<config, exits, t, idCounter, recent, work, own, registry, crashes, noted>>

-----------------------------------------------------------------------------
SupervisorStep ==
    \/ SpawnAnswer \/ HandleExit \/ RestartAfterBackoff \/ TerminatedRemote
    \/ TerminatedChild \/ ShutdownTimeout \/ RecvStop \/ ShutdownNext \/ ShutdownDone
    \/ Stopped \/ End

ThreadsStep ==
    \/ ThreadsSpawnAnswer \/ ThreadsHandleExit \/ ThreadsRestartAfterBackoff
    \/ ThreadsTerminatedChild \/ ThreadsStopped

\* What DynamicSupervisorApi sends; list_children and count_children only read.
Calls ==
    \/ \E r \in config.restarts, x \in config.names : StartChild(r, x)
    \/ StartChildRemote
    \/ \E a \in DOMAIN life : TerminateRemote(a[2]) \/ TerminateChild(a[2])

ThreadsCalls ==
    \/ \E r \in config.restarts, x \in config.names : ThreadsStartChild(r, x)
    \/ ThreadsStartChildRemote
    \/ \E a \in DOMAIN life : ThreadsTerminate(a[2])

Asks == \E q \in {"stop", "kill"} : Ask(q)

ChildDies == \E a \in DOMAIN life, r \in {"Normal", "Shutdown", "Panic", "Kill"} : Die(a, r)
AskedDies == \E a \in DOMAIN life, r \in {"Shutdown", "Kill"} : Die(a, r)

Others ==
    \E x \in config.names \ {None} : OtherRegisters(x) \/ OtherUnregisters(x)

Next ==
    \/ SupervisorStep \/ ThreadsStep \/ Calls \/ ThreadsCalls \/ Asks \/ ChildDies \/ Others

Spec == Init /\ [][Next]_vars

\* The supervisor's task runs, and a child asked to end does; an answer of the
\* other node may never come.
FairSpec ==
    Spec /\ WF_vars(~config.remote /\ SupervisorStep) /\ WF_vars(~config.remote /\ AskedDies)

-----------------------------------------------------------------------------
(* Properties.                                                             *)

\* Two actors of the two nodes with the same ActorId: the tables mix them up.
Clash == \E a \in DOMAIN life, b \in DOMAIN life : a # b /\ a[2] = b[2]

\* Between two handlers the five tables of children here agree: a child of the
\* policy engine has a spec and a handle, the handle is the actor in its slot,
\* and that actor leads back to the child, after every start, restart, refused
\* name, termination and late exit.  And they agree with what runs: unless
\* ActorIds of two nodes clash, a running child here is the one instance that its
\* id leads to, except one whose name was refused: cleanup_child forgets it.
TablesAgree ==
    pc = "loop" =>
        LET policies == {t.children[i].id : i \in DOMAIN t.children}
        IN  /\ t.specs = DOMAIN t.handles
            /\ policies \subseteq t.specs \union t.remoteSpawnMeta
            /\ t.specs \subseteq policies
            /\ \A i \in DOMAIN t.children :
                 Has(t.handles, t.children[i].id) => t.handles[t.children[i].id] = t.children[i].slot
            /\ \A n \in DOMAIN t.actorToId : Has(t.handles, t.actorToId[n])
            /\ \A id \in DOMAIN t.handles : t.actorToId[t.handles[id]] = id
            /\ Values(t.regNames) \subseteq t.specs
            /\ ~Clash => \A a \in DOMAIN life :
                 a[1] = "here" /\ Alive(a) /\ life[a].id \notin noted.refused
                     => Has(t.actorToId, a[2]) /\ t.actorToId[a[2]] = life[a].id

\* A supervisor that ended other than by kill(), in whatever handler that found
\* it, leaves no name of a child registered and, unless ActorIds clash, no child
\* here running, other than one that was refused its name.
EndsClean ==
    pc = "ended" /\ "kill" \notin own.asked =>
        /\ \A x \in DOMAIN registry : registry[x] = "other"
        /\ ~Clash => \A a \in DOMAIN life :
             a[1] = "here" /\ Alive(a) => life[a].id \in noted.refused

\* The supervisor replaces or unregisters a value of somebody else's only under
\* a name that was taken from its child by another unregister().
OnlyOwnNames ==
    [][\A x \in DOMAIN registry :
         registry[x] = "other" /\ (Has(registry', x) => registry'[x] # "other")
            => x \in noted'.freed]_vars

\* A cancelled supervisor of local children ends, in whatever handler, backoff
\* or wait the cancellation found it, and every child it was linked to ends.
StopEnds ==
    own.cancelled /\ ~config.remote ~>
        pc = "ended" /\ (FinalReason # "Normal" => \A a \in DOMAIN life : ~Alive(a))
=============================================================================
