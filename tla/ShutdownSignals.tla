-------------------------- MODULE ShutdownSignals --------------------------
(***************************************************************************)
(* OS signals (shutdown_signal.rs) and the application that ends on them   *)
(* (application.rs).  The dispatcher is one task or thread per process; it *)
(* waits for one signal, hands it to whatever is registered then, and      *)
(* ends.  An application starts it before it registers its root handles.   *)
(***************************************************************************)
EXTENDS ActorLife, HashMaps

VARIABLES
    sig         \* dispatcher; registered entries; actors with a signal queued;
                \* the application: roots, step, handles left to register or
                \* to wait for; history: roots registered after the dispatch

Roots == {roots \in {InOrder(S) : S \in SUBSET Actors} : Len(roots) > 0}

SignalInit ==
    sig \in {[dispatcher |-> "off", entries |-> {}, pending |-> {}, roots |-> roots,
              app |-> "starting", left |-> roots, missed |-> {}] :
                roots \in IF "signals" \in use THEN Roots ELSE {InOrder(Actors)}}

\* register_signal_shutdown, register_signal_shutdown_threads: the dispatcher
\* first, unless DISPATCHER_STARTED ...
SpawnDispatcher ==
    /\ "signals" \in use /\ sig.app = "starting"
    /\ sig' = [sig EXCEPT !.app = "registering",
                          !.dispatcher = IF @ = "off" THEN "spawned" ELSE @]
    /\ UNCHANGED lifeVars

ThreadsSpawnDispatcher == SpawnDispatcher

Registered(a) == [sig EXCEPT !.entries = @ \union {a},
                             !.missed = IF sig.dispatcher = "done" THEN @ \union {a} ELSE @]

\* Mutant: the guard of a handle is dropped at once.
RegisterDropsGuard ==
    /\ sig.app = "registering" /\ sig.left # <<>>
    /\ sig' = [sig EXCEPT !.left = Tail(@)]
    /\ UNCHANGED lifeVars

\* ... then register_shutdown_on_signal: the handles one by one.
RegisterHandle ==
    /\ sig.app = "registering" /\ sig.left # <<>>
    /\ sig' = [Registered(Head(sig.left)) EXCEPT !.left = Tail(@)]
    /\ UNCHANGED lifeVars

\* ApplicationBuilder::start returns; Application::run begins to wait.
Started ==
    /\ sig.app = "registering" /\ sig.left = <<>>
    /\ sig' = [sig EXCEPT !.app = "running", !.left = sig.roots]
    /\ UNCHANGED lifeVars

ThreadsStarted == Started

\* Another actor registers itself, and drops its guard.
ShutdownOnSignal(a) ==
    /\ "signals" \in use /\ a \notin Range(sig.roots) \union sig.entries
    /\ sig' = [sig EXCEPT !.entries = @ \union {a}]
    /\ UNCHANGED lifeVars

DropGuard(a) ==
    /\ a \in sig.entries \ Range(sig.roots)
    /\ sig' = [sig EXCEPT !.entries = @ \ {a}]
    /\ UNCHANGED lifeVars

\* wait_shutdown_signal: the handlers are installed, then a signal comes.
Listen ==
    /\ sig.dispatcher = "spawned"
    /\ sig' = [sig EXCEPT !.dispatcher = "waiting"]
    /\ UNCHANGED lifeVars

OsSignal ==
    /\ sig.dispatcher = "waiting"
    /\ sig' = [sig EXCEPT !.dispatcher = "got"]
    /\ UNCHANGED lifeVars

\* Registry::dispatch, under its lock: entries whose send fails are removed.
DispatchSignal ==
    /\ sig.dispatcher = "got"
    /\ LET ok == {a \in sig.entries : CanSend(a)}
       IN  sig' = [sig EXCEPT !.dispatcher = "done", !.entries = ok, !.pending = @ \union ok]
    /\ UNCHANGED lifeVars

\* MailboxItem::Signal in run_actor: the actor cancels itself and leaves.
SignalReceived(a) ==
    /\ phase[a] = "up" /\ handling[a] = Idle /\ a \in sig.pending
    /\ phase' = [phase EXCEPT ![a] = "leaving"]
    /\ cancelled' = [cancelled EXCEPT ![a] = TRUE]
    /\ sig' = [sig EXCEPT !.pending = @ \ {a}]
    /\ UNCHANGED <<queue, handling>>

\* Application::run, run_blocking: every root in turn; then the application,
\* and its guards, are dropped.
RunWait ==
    /\ sig.app = "running" /\ sig.left # <<>> /\ phase[Head(sig.left)] = "dead"
    /\ sig' = [sig EXCEPT !.left = Tail(@)]
    /\ UNCHANGED lifeVars

RunReturns ==
    /\ sig.app = "running" /\ sig.left = <<>>
    /\ sig' = [sig EXCEPT !.app = "finished", !.entries = @ \ Range(sig.roots)]
    /\ UNCHANGED lifeVars

ThreadsRunReturns == RunReturns

\* What the application, the dispatcher and the actors do by themselves.
SignalSteps ==
    \/ SpawnDispatcher \/ RegisterHandle \/ Started \/ RunWait \/ RunReturns
    \/ Listen \/ DispatchSignal \/ \E a \in Actors : SignalReceived(a)

SignalNext ==
    \/ SignalSteps \/ ThreadsSpawnDispatcher \/ ThreadsStarted \/ ThreadsRunReturns \/ OsSignal
    \/ \E a \in Actors : ShutdownOnSignal(a) \/ DropGuard(a)

-----------------------------------------------------------------------------
(* Properties.                                                             *)

\* A signal that finds every root registered ends the application.
SignalEndsApplication ==
    sig.app = "running" /\ sig.dispatcher = "got" ~> sig.app = "finished"
=============================================================================
