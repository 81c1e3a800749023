------------------------- MODULE CancellationToken -------------------------
(***************************************************************************)
(* The cancellation token of the threads runtime (rt/src/threads/mod.rs):  *)
(* an atomic flag and a mutex-protected list of callbacks.  Some threads   *)
(* call cancel(), others register one callback each with on_cancel().      *)
(* A callback is named by the thread that registers it.                    *)
(***************************************************************************)
EXTENDS Naturals

CONSTANTS
    Cancellers,     \* threads that call cancel()
    Registrants     \* threads that call on_cancel(), one callback each

Free == "free"

ASSUME ThreadsAssumption ==
    Cancellers \intersect Registrants = {} /\ Free \notin Registrants

VARIABLES
    isCancelled,    \* the atomic flag
    callbacks,      \* callbacks waiting in the list
    lock,           \* registrant holding the list's mutex, or Free
    canceller,      \* where each cancel() is
    taken,          \* callbacks each cancel() has drained and not yet run
    registrant,     \* where each on_cancel() is
    fired           \* how often each callback has run

tokenVars == <<isCancelled, callbacks, lock, canceller, taken, registrant, fired>>

TokenInit ==
    /\ isCancelled = FALSE
    /\ callbacks = {}
    /\ lock = Free
    /\ canceller = [k \in Cancellers |-> "start"]
    /\ taken = [k \in Cancellers |-> {}]
    /\ registrant = [r \in Registrants |-> "start"]
    /\ fired = [r \in Registrants |-> 0]

-----------------------------------------------------------------------------
(* cancel(): set the flag, then drain the list under the mutex, then run   *)
(* what was drained with the mutex released.                               *)

CancelStore(k) ==
    /\ canceller[k] = "start"
    /\ isCancelled' = TRUE
    /\ canceller' = [canceller EXCEPT ![k] = "drain"]
    /\ UNCHANGED <<callbacks, lock, taken, registrant, fired>>

\* Mutant: the list is copied, not drained.
CancelCopy(k) ==
    /\ canceller[k] = "drain"
    /\ lock = Free
    /\ taken' = [taken EXCEPT ![k] = callbacks]
    /\ canceller' = [canceller EXCEPT ![k] = "run"]
    /\ UNCHANGED <<isCancelled, callbacks, lock, registrant, fired>>

CancelDrain(k) ==
    /\ canceller[k] = "drain"
    /\ lock = Free
    /\ taken' = [taken EXCEPT ![k] = callbacks]
    /\ callbacks' = {}
    /\ canceller' = [canceller EXCEPT ![k] = "run"]
    /\ UNCHANGED <<isCancelled, lock, registrant, fired>>

CancelRun(k, r) ==
    /\ canceller[k] = "run"
    /\ r \in taken[k]
    /\ taken' = [taken EXCEPT ![k] = @ \ {r}]
    /\ fired' = [fired EXCEPT ![r] = @ + 1]
    /\ UNCHANGED <<isCancelled, callbacks, lock, canceller, registrant>>

CancelReturn(k) ==
    /\ canceller[k] = "run"
    /\ taken[k] = {}
    /\ canceller' = [canceller EXCEPT ![k] = "done"]
    /\ UNCHANGED <<isCancelled, callbacks, lock, taken, registrant, fired>>

(* on_cancel(): test the flag while holding the mutex; push, or release    *)
(* the mutex and run the callback at once.                                 *)

OnCancelLock(r) ==
    /\ registrant[r] = "start"
    /\ lock = Free
    /\ lock' = r
    /\ registrant' = [registrant EXCEPT ![r] = "test"]
    /\ UNCHANGED <<isCancelled, callbacks, canceller, taken, fired>>

\* Mutant: the mutex is released between the test and the push.
OnCancelTestUnlocked(r) ==
    /\ registrant[r] = "test"
    /\ registrant' = [registrant EXCEPT ![r] = IF isCancelled THEN "run" ELSE "push"]
    /\ lock' = Free
    /\ UNCHANGED <<isCancelled, callbacks, canceller, taken, fired>>

OnCancelTest(r) ==
    /\ registrant[r] = "test"
    /\ registrant' = [registrant EXCEPT ![r] = IF isCancelled THEN "run" ELSE "push"]
    /\ lock' = IF isCancelled THEN Free ELSE lock
    /\ UNCHANGED <<isCancelled, callbacks, canceller, taken, fired>>

OnCancelPush(r) ==
    /\ registrant[r] = "push"
    /\ callbacks' = callbacks \union {r}
    /\ lock' = Free
    /\ registrant' = [registrant EXCEPT ![r] = "done"]
    /\ UNCHANGED <<isCancelled, canceller, taken, fired>>

OnCancelRun(r) ==
    /\ registrant[r] = "run"
    /\ fired' = [fired EXCEPT ![r] = @ + 1]
    /\ registrant' = [registrant EXCEPT ![r] = "done"]
    /\ UNCHANGED <<isCancelled, callbacks, lock, canceller, taken>>

-----------------------------------------------------------------------------
CancelStep(k) ==
    \/ CancelDrain(k)
    \/ \E r \in Registrants : CancelRun(k, r)
    \/ CancelReturn(k)

RegisterStep(r) == OnCancelTest(r) \/ OnCancelPush(r) \/ OnCancelRun(r)

TokenNext ==
    \/ \E k \in Cancellers : CancelStore(k) \/ CancelStep(k)
    \/ \E r \in Registrants : OnCancelLock(r) \/ RegisterStep(r)

TokenSpec == TokenInit /\ [][TokenNext]_tokenVars

-----------------------------------------------------------------------------
(* Properties.                                                             *)

\* Every variable has its type.
TokenTypeOK ==
    /\ isCancelled \in BOOLEAN
    /\ callbacks \subseteq Registrants
    /\ lock \in Registrants \union {Free}
    /\ canceller \in [Cancellers -> {"start", "drain", "run", "done"}]
    /\ taken \in [Cancellers -> SUBSET Registrants]
    /\ registrant \in [Registrants -> {"start", "test", "push", "run", "done"}]
    /\ fired \in [Registrants -> Nat]

\* No callback runs twice, however many threads cancel while others register.
FiredAtMostOnce == \A r \in Registrants : fired[r] <= 1

\* No callback is stranded: once some cancel() has returned, a registered
\* callback has run or is in the hands of a cancel() that will run it.
NoneStranded ==
    (\E k \in Cancellers : canceller[k] = "done") =>
        \A r \in Registrants :
            registrant[r] = "done" =>
                \/ fired[r] = 1
                \/ \E k \in Cancellers : r \in taken[k]

=============================================================================
