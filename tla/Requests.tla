------------------------------ MODULE Requests ------------------------------
(***************************************************************************)
(* request_raw, request_with_timeout and Response (tasks/actor.rs,         *)
(* threads/actor.rs, response.rs): a oneshot channel whose sender travels  *)
(* in the message.  The sender answers when the handler returns, and is    *)
(* dropped when the handler panics or the message is dropped unhandled.    *)
(* A handler may itself wait for a request it made.                        *)
(***************************************************************************)
EXTENDS ActorLife, Functions

CONSTANTS
    RequestIds, \* 1..n: the requests made
    Outside     \* a caller that is no actor

VARIABLES
    req         \* per request: caller, callee, whether it has a timeout, its
                \* state; history: whether its handler returned

ReqMsg(r) == <<"req", r>>
Pending == {"waiting", "answered", "disconnected"}

RequestInit ==
    req = [r \in RequestIds |->
             [from |-> Outside, to |-> Idle, timed |-> FALSE, state |-> "none", done |-> FALSE]]

\* An actor in a handler that awaits an answer.
Awaiting(a) == \E r \in RequestIds : req[r].from = a /\ req[r].state \in Pending

\* request_raw: the send fails when the receiver is gone.
RequestRaw(c, a, timed, r) ==
    /\ "requests" \in use
    /\ req[r].state = "none" /\ \A q \in RequestIds : q < r => req[q].state # "none"
    /\ SendOrDrop(a, ReqMsg(r))
    /\ req' = [req EXCEPT ![r] = [@ EXCEPT !.from = c, !.to = a, !.timed = timed,
                 !.state = IF CanSend(a) THEN "waiting" ELSE "ActorStopped"]]
    /\ UNCHANGED <<phase, cancelled, handling>>

\* request, request_with_timeout of an ActorRef, from outside ...
ActorRefRequest(a, timed, r) == RequestRaw(Outside, a, timed, r)
ThreadsActorRefRequest(a, timed, r) == ActorRefRequest(a, timed, r)

\* ... and of a Context, in a handler, which goes on when it has its answer.
ContextRequest(c, a, timed, r) ==
    handling[c] # Idle /\ ~Awaiting(c) /\ RequestRaw(c, a, timed, r)
ThreadsContextRequest(c, a, timed, r) == ContextRequest(c, a, timed, r)

\* What becomes of a set of requests whose sender is dropped.
Disconnected(rs) ==
    [r \in RequestIds |-> IF r \in rs /\ req[r].state = "waiting"
                            THEN [req[r] EXCEPT !.state = "disconnected"] ELSE req[r]]

\* Mutant: the answer is sent before the handler runs.
HandleAnswersFirst(a, panics) ==
    /\ ~Awaiting(a)
    /\ HandlerEnds(a, panics)
    /\ LET rs == {r \in RequestIds : handling[a] = ReqMsg(r)}
       IN  req' = [r \in RequestIds |->
                     IF r \in rs
                       THEN [req[r] EXCEPT !.done = ~panics,
                               !.state = IF @ = "waiting" THEN "answered" ELSE @]
                       ELSE req[r]]

\* MessageEnvelope::handle: the handler returns and answers, or panics.
Handle(a, panics) ==
    /\ ~Awaiting(a)
    /\ HandlerEnds(a, panics)
    /\ LET rs == {r \in RequestIds : handling[a] = ReqMsg(r)}
       IN  req' = IF panics THEN Disconnected(rs)
                  ELSE [r \in RequestIds |->
                          IF r \in rs
                            THEN [req[r] EXCEPT !.done = TRUE,
                                    !.state = IF @ = "waiting" THEN "answered" ELSE @]
                            ELSE req[r]]

ThreadsHandle(a, panics) == Handle(a, panics)

\* Mutant: what is queued stays in the channel.
DropLeaksRequests(a) == DropReceiver(a) /\ UNCHANGED req

\* The messages dropped with the receiver drop their senders.
DropRequests(a) ==
    /\ DropReceiver(a)
    /\ req' = Disconnected({r \in RequestIds : ReqMsg(r) \in Range(queue[a])})

\* request_with_timeout: what the caller sees ...
Timeout(r) ==
    /\ req[r].state = "waiting" /\ req[r].timed
    /\ req' = [req EXCEPT ![r].state = "RequestTimeout"]
    /\ UNCHANGED lifeVars

\* ... and the answer, or the loss of the sender (Response::poll).
Resume(r) ==
    /\ req[r].state \in {"answered", "disconnected"}
    /\ req' = [req EXCEPT ![r].state = IF @ = "answered" THEN "Ok" ELSE "ActorStopped"]
    /\ UNCHANGED lifeVars

ThreadsResume(r) == Timeout(r) \/ Resume(r)

Caller(r) == Timeout(r) \/ Resume(r)

RequestNext ==
    \E r \in RequestIds :
        \/ \E a \in Actors, timed \in BOOLEAN :
             \/ ActorRefRequest(a, timed, r) \/ ThreadsActorRefRequest(a, timed, r)
             \/ \E c \in Actors :
                  ContextRequest(c, a, timed, r) \/ ThreadsContextRequest(c, a, timed, r)
        \/ Caller(r) \/ ThreadsResume(r)

-----------------------------------------------------------------------------
(* Properties.                                                             *)

\* Ok means that the handler ran to its end; ActorStopped that it did not and
\* never will, so that the request may be made again elsewhere.
\* RequestTimeout says nothing: the handler may run later.
ResultMeaning ==
    \A r \in RequestIds :
        /\ req[r].state = "Ok" => req[r].done
        /\ req[r].state = "ActorStopped" =>
             ~req[r].done /\ \A a \in Actors :
                handling[a] # ReqMsg(r) /\ ReqMsg(r) \notin Range(queue[a])

\* Actors that await each other, with no timeout among them.
DeadlockedActors ==
    \E S \in SUBSET Actors \ {{}} :
        \A a \in S : \E r \in RequestIds :
            req[r].from = a /\ req[r].to \in S /\ req[r].state = "waiting" /\ ~req[r].timed

\* Every request is resolved: by an answer, by the end of the callee wherever
\* it finds the message, or by the timeout; one without a timeout is left
\* waiting only if actors await each other.
RequestsResolve == <>[]((\E r \in RequestIds : req[r].state \in Pending) => DeadlockedActors)
=============================================================================
