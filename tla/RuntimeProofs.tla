--------------------------- MODULE RuntimeProofs ---------------------------
(***************************************************************************)
(* Proofs about what the runtimes give an actor: recv(), for both of them  *)
(* and any bound on the queues; the cancellation token, for any number of  *)
(* cancelling and registering threads; and the limits of a mailbox, for    *)
(* every capacity, every finite set of senders, both modes and both        *)
(* runtimes.                                                               *)
(***************************************************************************)
EXTENDS MailboxRecv, CancellationToken, MailboxLimits, FiniteSetTheorems, TLAPS

-----------------------------------------------------------------------------
(* The priority of recv().  OvertakenOnce is not inductive by itself: it   *)
(* needs where the receiver is in its round of polls.  An item is only     *)
(* overtaken after its channel was polled in this round, so a channel that *)
(* has been overtaken is still to be polled in the next.                   *)

\* An overtaken item still waits.
OvertakenWaits == \A c \in Channels : over[c] = 1 => queue[c] > 0

\* The round of polls has not passed a channel that was overtaken.
NotPassed == \A c \in Channels : step = "poll" /\ over[c] = 1 => at <= c

\* Before select!, every channel was found empty in this call.
NoneAtSelect == \A c \in Channels : step = "select" => over[c] = 0 /\ at = 1

RecvInv == RecvTypeOK /\ OvertakenOnce /\ OvertakenWaits /\ NotPassed /\ NoneAtSelect

\* Taking from a channel none of whose betters has been overtaken keeps the
\* bound: what Poll and the threads select! have in common.
LEMMA TakeKeeps ==
    ASSUME RecvInv, NEW c \in Channels, Take(c), at' = at, receiver' = receiver,
           \A d \in Channels : d < c => over[d] = 0
    PROVE  RecvInv'
<1>1. RecvTypeOK'
  <2>1. queue[c] - 1 \in 0..MaxQueued
    BY QueuedAssumption DEF RecvInv, RecvTypeOK, Take
  <2>2. queue' \in [Channels -> 0..MaxQueued]
    BY <2>1 DEF RecvInv, RecvTypeOK, Take
  <2>3. over' \in [Channels -> Nat]
    BY DEF RecvInv, RecvTypeOK, Take
  <2> QED BY <2>2, <2>3 DEF RecvInv, RecvTypeOK, Take
<1>2. OvertakenOnce' /\ OvertakenWaits'
  BY DEF RecvInv, RecvTypeOK, OvertakenOnce, OvertakenWaits, Take, Channels
<1>3. NotPassed' /\ NoneAtSelect'
  BY DEF NotPassed, NoneAtSelect, Take
<1> QED BY <1>1, <1>2, <1>3 DEF RecvInv

\* RecvInv is inductive.
THEOREM RecvInvariance == RecvSpec => []RecvInv
<1> USE QueuedAssumption
<1>1. RecvInit => RecvInv
  BY DEF RecvInit, RecvInv, RecvTypeOK, OvertakenOnce, OvertakenWaits, NotPassed, NoneAtSelect, Channels,
         User
<1>2. RecvInv /\ [RecvNext]_recvVars => RecvInv'
  <2> SUFFICES ASSUME RecvInv, [RecvNext]_recvVars PROVE RecvInv'
    OBVIOUS
  <2> USE DEF RecvInv, RecvTypeOK, OvertakenOnce, OvertakenWaits, NotPassed, NoneAtSelect, Channels
  <2>1. ASSUME NEW c \in Channels, SendTo(c) PROVE RecvInv'
    BY <2>1 DEF SendTo
  <2>2. CASE RecvCall
    BY <2>2 DEF RecvCall
  <2>3. CASE Poll
    <3>1. CASE queue[at] > 0
      <4>1. Take(at) /\ at' = at /\ receiver' = receiver
        BY <2>3, <3>1 DEF Poll
      <4>2. \A d \in Channels : d < at => over[d] = 0
        BY <2>3 DEF Poll
      <4> QED BY <4>1, <4>2, TakeKeeps
    <3>2. CASE ~(queue[at] > 0)
      <4>1. over[at] = 0
        BY <3>2
      <4>2. CASE at = 4
        BY <2>3, <3>2, <4>1, <4>2 DEF Poll
      <4>3. CASE at # 4
        BY <2>3, <3>2, <4>1, <4>3 DEF Poll
      <4> QED BY <4>2, <4>3
    <3> QED BY <3>1, <3>2
  <2>4. CASE SelectTasks
    BY <2>4 DEF SelectTasks
  <2>5. CASE SelectThreads
    <3>1. PICK c \in Channels : Take(c)
      BY <2>5 DEF SelectThreads
    <3>2. at' = at /\ receiver' = receiver /\ \A d \in Channels : d < c => over[d] = 0
      BY <2>5 DEF SelectThreads
    <3> QED BY <3>1, <3>2, TakeKeeps
  <2>6. CASE Handle
    BY <2>6 DEF Handle, Stop
  <2>7. CASE UNCHANGED recvVars
    BY <2>7 DEF recvVars
  <2> QED BY <2>1, <2>2, <2>3, <2>4, <2>5, <2>6, <2>7 DEF RecvNext, RecvStep
<1> QED BY <1>1, <1>2, PTL DEF RecvSpec

\* recv() keeps its channels within their types.
THEOREM RecvTyped == RecvSpec => []RecvTypeOK
<1>1. RecvInv => RecvTypeOK BY DEF RecvInv
<1> QED BY RecvInvariance, <1>1, PTL

\* Priority dequeue of recv(): at most one item of lower priority overtakes.
THEOREM Priority == RecvSpec => []OvertakenOnce
<1>1. RecvInv => OvertakenOnce BY DEF RecvInv
<1> QED BY RecvInvariance, <1>1, PTL

-----------------------------------------------------------------------------
(* The cancellation token.  The invariant follows a callback: it is with   *)
(* its registrant, in the list, with exactly one cancel(), or it has run.  *)
(* The race the code's comment argues about is Pending: while a registrant *)
(* that saw the flag clear still holds the mutex, no cancel() can be past  *)
(* its drain.                                                              *)

\* The registrant that tests or pushes is the one that holds the mutex.
LockHeld == \A r \in Registrants : registrant[r] \in {"test", "push"} => lock = r

\* Until on_cancel() is done its callback is nowhere else and has not run.
Unregistered ==
    \A r \in Registrants :
        registrant[r] # "done" =>
            /\ fired[r] = 0
            /\ r \notin callbacks
            /\ \A k \in Cancellers : r \notin taken[k]

\* A callback is in one place: the list, or one drained batch, and then it
\* has not run.
OnePlace ==
    \A r \in Registrants :
        /\ fired[r] <= 1
        /\ r \in callbacks =>
             fired[r] = 0 /\ \A k \in Cancellers : r \notin taken[k]
        /\ \A k \in Cancellers :
             r \in taken[k] => /\ fired[r] = 0
                               /\ \A j \in Cancellers : r \in taken[j] => j = k

\* A callback whose registration is done is somewhere.
Somewhere ==
    \A r \in Registrants :
        registrant[r] = "done" =>
            fired[r] = 1 \/ r \in callbacks \/ \E k \in Cancellers : r \in taken[k]

\* A cancel() past its drain implies an empty list and nobody about to push.
Pending ==
    (\E k \in Cancellers : canceller[k] \in {"run", "done"}) =>
        /\ isCancelled
        /\ callbacks = {}
        /\ \A r \in Registrants : registrant[r] # "push"

\* A cancel() that has set the flag has set it for good.
FlagSet == \A k \in Cancellers : canceller[k] # "start" => isCancelled

\* Only a cancel() past its drain holds callbacks.
BatchHeld == \A k \in Cancellers : canceller[k] # "run" => taken[k] = {}

TokenInv ==
    /\ TokenTypeOK
    /\ LockHeld
    /\ Unregistered
    /\ OnePlace
    /\ Somewhere
    /\ Pending
    /\ FlagSet
    /\ BatchHeld

\* No thread has begun.
LEMMA TokenInitInv == TokenInit => TokenInv
  <1> SUFFICES ASSUME TokenInit PROVE TokenInv
    OBVIOUS
  <1>1. TokenTypeOK
    BY DEF TokenInit, TokenTypeOK
  <1>2. LockHeld /\ Unregistered /\ OnePlace /\ Somewhere
    BY DEF TokenInit, LockHeld, Unregistered, OnePlace, Somewhere
  <1>3. Pending /\ FlagSet /\ BatchHeld
    BY DEF TokenInit, Pending, FlagSet, BatchHeld
  <1> QED BY <1>1, <1>2, <1>3 DEF TokenInv

\* A step of cancel or of on_cancel keeps the invariant.
LEMMA TokenNextInv == TokenInv /\ [TokenNext]_tokenVars => TokenInv'
  <1> SUFFICES ASSUME TokenInv, [TokenNext]_tokenVars PROVE TokenInv'
    OBVIOUS
  <1> USE ThreadsAssumption
      DEF TokenInv, TokenTypeOK, LockHeld, Unregistered, OnePlace, Somewhere, Pending, FlagSet,
          BatchHeld
  <1>1. CASE \E k \in Cancellers : CancelStore(k)
    BY <1>1 DEF CancelStore
  <1>2. ASSUME NEW k \in Cancellers, CancelDrain(k) PROVE TokenInv'
    <2> USE <1>2 DEF CancelDrain
    <2>1. TokenTypeOK' /\ LockHeld' /\ FlagSet' /\ BatchHeld'
      OBVIOUS
    <2>2. Unregistered' /\ Somewhere'
      OBVIOUS
    <2>3. OnePlace'
      OBVIOUS
    <2>4. Pending'
      OBVIOUS
    <2> QED BY <2>1, <2>2, <2>3, <2>4
  <1>3. CASE \E k \in Cancellers, r \in Registrants : CancelRun(k, r)
    BY <1>3 DEF CancelRun
  <1>4. CASE \E k \in Cancellers : CancelReturn(k)
    BY <1>4 DEF CancelReturn
  <1>5. CASE \E r \in Registrants : OnCancelLock(r)
    BY <1>5 DEF OnCancelLock
  <1>6. CASE \E r \in Registrants : OnCancelTest(r)
    BY <1>6 DEF OnCancelTest
  <1>7. CASE \E r \in Registrants : OnCancelPush(r)
    BY <1>7 DEF OnCancelPush
  <1>8. CASE \E r \in Registrants : OnCancelRun(r)
    BY <1>8 DEF OnCancelRun
  <1>9. CASE UNCHANGED tokenVars
    BY <1>9 DEF tokenVars
  <1> QED BY <1>1, <1>2, <1>3, <1>4, <1>5, <1>6, <1>7, <1>8, <1>9
          DEF TokenNext, CancelStep, RegisterStep

\* Every reachable state satisfies the invariant.
THEOREM TokenInvariance == TokenSpec => []TokenInv
  BY TokenInitInv, TokenNextInv, PTL DEF TokenSpec

\* No callback runs twice, for any number of threads.
THEOREM AtMostOnce == TokenSpec => []FiredAtMostOnce
  <1>1. TokenInv => FiredAtMostOnce
    BY DEF TokenInv, OnePlace, FiredAtMostOnce
  <1> QED BY <1>1, TokenInvariance, PTL

\* After a cancel() has returned, no registered callback has been forgotten.
THEOREM NoneForgotten == TokenSpec => []NoneStranded
  <1>1. TokenInv => NoneStranded
    BY DEF TokenInv, Somewhere, Pending, NoneStranded
  <1> QED BY <1>1, TokenInvariance, PTL

-----------------------------------------------------------------------------
(* The limits of a mailbox.  The invariant Inv adds to the type invariant  *)
(* and DepthAccounting what the capacity test needs: which locations a     *)
(* configuration can reach, who holds the mutex, and that a value loaded   *)
(* under the mutex is still an upper bound of depth when fetch_add runs.   *)

LockBased == mode = "Block" /\ runtime = "Threads"

\* The locations each configuration can reach.
Paths ==
    \A c \in Callers :
        /\ LockBased => pc[c] \notin {"load", "exchange"}
        /\ ~LockBased => pc[c] \notin {"lock", "locked", "add"}
        /\ mode = "FailFast" => pc[c] \notin {"park", "waiting"}
        /\ ~Bounded => pc[c] \in {"idle", "push", "undo", "wake"}

\* A caller between lock and fetch_add, or between lock and wait, holds the
\* mutex.
MutexHeld ==
    LockBased => \A c \in Callers : pc[c] \in {"locked", "add", "park"} => mutex = c

\* A loaded value that allows an acquire is below the capacity, and under the
\* mutex depth cannot have grown past it.
LoadedFresh ==
    \A c \in Callers :
        /\ pc[c] = "exchange" => current[c] < capacity
        /\ pc[c] = "add" => depth <= current[c] /\ current[c] < capacity

DepthBounded == depth <= capacity

ActorPath == ~Bounded => actor # "dequeued"

Inv ==
    /\ TypeOK
    /\ DepthAccounting
    /\ Paths
    /\ ActorPath
    /\ MutexHeld
    /\ LoadedFresh
    /\ DepthBounded

-----------------------------------------------------------------------------
(* The callers that hold a unit of depth, as a function of pc.             *)

HoldIn(p) == {c \in Callers : p[c] \in {"push", "undo"}}

\* There are finitely many callers.
LEMMA CallersFinite == IsFiniteSet(Callers)
  BY SendersAssumption, FS_AddElement DEF Callers

\* The callers that hold a unit of depth are finitely many.
LEMMA HoldFinite ==
    ASSUME NEW p
    PROVE  IsFiniteSet(HoldIn(p)) /\ Cardinality(HoldIn(p)) \in Nat
  <1>1. HoldIn(p) \subseteq Callers
    BY DEF HoldIn
  <1> QED BY <1>1, CallersFinite, FS_Subset, FS_CardinalityType

\* A caller that takes a unit adds one to the holders.
LEMMA HoldEnter ==
    ASSUME NEW p \in [Callers -> Locations], NEW c \in Callers,
           p[c] \notin {"push", "undo"}
    PROVE  Cardinality(HoldIn([p EXCEPT ![c] = "push"])) = Cardinality(HoldIn(p)) + 1
  <1>1. HoldIn([p EXCEPT ![c] = "push"]) = HoldIn(p) \union {c}
    BY DEF HoldIn
  <1>2. c \notin HoldIn(p)
    BY DEF HoldIn
  <1> QED BY <1>1, <1>2, HoldFinite, FS_AddElement

\* There is a holder when a caller holds a unit.
LEMMA HoldPositive ==
    ASSUME NEW p, NEW c \in Callers, p[c] \in {"push", "undo"}
    PROVE  Cardinality(HoldIn(p)) > 0
  <1>1. c \in HoldIn(p)
    BY DEF HoldIn
  <1> QED BY <1>1, HoldFinite, FS_EmptySet

\* A caller that gives up its unit takes one from the holders.
LEMMA HoldLeave ==
    ASSUME NEW p \in [Callers -> Locations], NEW c \in Callers,
           NEW v \in {"idle", "wake"}, p[c] \in {"push", "undo"}
    PROVE  Cardinality(HoldIn([p EXCEPT ![c] = v])) = Cardinality(HoldIn(p)) - 1
  <1>1. HoldIn([p EXCEPT ![c] = v]) = HoldIn(p) \ {c}
    BY DEF HoldIn
  <1>2. c \in HoldIn(p)
    BY DEF HoldIn
  <1> QED BY <1>1, <1>2, HoldFinite, FS_RemoveElement

\* Waking the sleeping callers takes and gives no unit.
LEMMA HoldNotify ==
    ASSUME NEW p \in [Callers -> Locations]
    PROVE  HoldIn(NotifyBlockers(p)) = HoldIn(p)
  BY DEF HoldIn, NotifyBlockers

\* Whoever is about to subtract holds a unit: fetch_sub never meets zero.
LEMMA UnitHeld ==
    ASSUME TypeOK, DepthAccounting, Bounded,
           (\E c \in Callers : pc[c] = "undo") \/ actor = "dequeued"
    PROVE  depth > 0
  <1>1. Holding = HoldIn(pc)
    BY DEF Holding, HoldIn
  <1>2. Cardinality(HoldIn(pc)) \in Nat
    BY HoldFinite
  <1>3. CASE actor = "dequeued"
    BY <1>1, <1>2, <1>3 DEF TypeOK, DepthAccounting
  <1>4. CASE \E c \in Callers : pc[c] = "undo"
    <2>1. PICK c \in Callers : pc[c] = "undo"
      BY <1>4
    <2>2. Cardinality(HoldIn(pc)) > 0
      BY <2>1, HoldPositive
    <2> QED BY <1>1, <1>2, <2>2 DEF TypeOK, DepthAccounting
  <1> QED BY <1>3, <1>4

-----------------------------------------------------------------------------
(* What an action does to the holders, and that Inv is inductive.          *)

\* DepthAccounting with the number of holders as a name of its own.
LEMMA AccountingForm ==
    /\ DepthAccounting <=>
         depth = IF ~Bounded THEN 0
                 ELSE queued + Cardinality(HoldIn(pc)) + dropped
                      + (IF actor = "dequeued" THEN 1 ELSE 0)
    /\ DepthAccounting' <=>
         depth' = IF ~Bounded' THEN 0
                  ELSE queued' + Cardinality(HoldIn(pc')) + dropped'
                       + (IF actor' = "dequeued" THEN 1 ELSE 0)
  BY DEF DepthAccounting, Holding, HoldIn, Bounded

\* The mailbox is empty and nobody sends.
LEMMA InitInv == Init => Inv
  <1> SUFFICES ASSUME Init PROVE Inv
    OBVIOUS
  <1>1. HoldIn(pc) = {}
    BY DEF Init, HoldIn
  <1>2. DepthAccounting
    BY <1>1, AccountingForm, FS_EmptySet DEF Init, Bounded
  <1> QED BY <1>2, CapacitiesAssumption, BoundAssumption
          DEF Init, Inv, TypeOK, Paths, ActorPath, MutexHeld, LoadedFresh,
              DepthBounded, Locations, Results, ActorStates, Bounded

\* The part of Inv that does not count.
Shape == Paths /\ ActorPath /\ MutexHeld /\ LoadedFresh /\ DepthBounded

\* Send keeps the invariant.
LEMMA SendInv ==
    ASSUME Inv, NEW c \in Callers, Send(c)
    PROVE  Inv'
  <1> USE CapacitiesAssumption, BoundAssumption DEF config, Bounded
  <1>1. TypeOK'
    BY DEF Inv, TypeOK, Send, SendTasks, SendThreads, Locations
  <1>2. Shape'
    BY DEF Inv, TypeOK, Send, SendTasks, SendThreads, Shape, Paths, ActorPath,
           MutexHeld, LoadedFresh, DepthBounded, LockBased, Bounded, Locations
  <1>3. DepthAccounting'
    <2>1. CASE Bounded
      <3>1. HoldIn(pc') = HoldIn(pc)
        BY <2>1 DEF Inv, TypeOK, Send, SendTasks, SendThreads, HoldIn
      <3> QED BY <2>1, <3>1, AccountingForm DEF Inv, Send
    <2>2. CASE ~Bounded
      BY <2>2, AccountingForm DEF Inv, Send
    <2> QED BY <2>1, <2>2
  <1> QED BY <1>1, <1>2, <1>3 DEF Inv, Shape

\* Load keeps the invariant.
LEMMA LoadInv ==
    ASSUME Inv, NEW c \in Callers, Load(c)
    PROVE  Inv'
  <1> USE CapacitiesAssumption, SendersAssumption DEF config, Bounded
  <1>1. TypeOK'
    BY DEF Inv, TypeOK, Load, TryAcquireFull, AcquireAsyncFull, Locations, Results
  <1>2. Shape'
    BY DEF Inv, TypeOK, Load, TryAcquireFull, AcquireAsyncFull, Shape, Paths, ActorPath,
           MutexHeld, LoadedFresh, DepthBounded, LockBased, Bounded, Locations
  <1>3. HoldIn(pc') = HoldIn(pc)
    BY DEF Inv, TypeOK, Load, TryAcquireFull, AcquireAsyncFull, HoldIn, Locations
  <1>4. DepthAccounting'
    BY <1>3, AccountingForm DEF Inv, Load, TryAcquireFull, AcquireAsyncFull
  <1> QED BY <1>1, <1>2, <1>4 DEF Inv, Shape

\* ExchangeFails keeps the invariant.
LEMMA ExchangeFailsInv ==
    ASSUME Inv, NEW c \in Callers, ExchangeFails(c)
    PROVE  Inv'
  <1> USE CapacitiesAssumption, SendersAssumption DEF config, Bounded
  <1>1. TypeOK'
    BY DEF Inv, TypeOK, ExchangeFails, Locations, Results
  <1>2. Shape'
    BY DEF Inv, TypeOK, ExchangeFails, Shape, Paths, ActorPath,
           MutexHeld, LoadedFresh, DepthBounded, LockBased, Bounded, Locations
  <1>3. HoldIn(pc') = HoldIn(pc)
    BY DEF Inv, TypeOK, ExchangeFails, HoldIn, Locations
  <1>4. DepthAccounting'
    BY <1>3, AccountingForm DEF Inv, ExchangeFails
  <1> QED BY <1>1, <1>2, <1>4 DEF Inv, Shape

\* Notified keeps the invariant.
LEMMA NotifiedInv ==
    ASSUME Inv, NEW c \in Callers, Notified(c)
    PROVE  Inv'
  <1> USE CapacitiesAssumption, SendersAssumption DEF config, Bounded
  <1>1. TypeOK'
    BY DEF Inv, TypeOK, Notified, Locations, Results
  <1>2. Shape'
    BY DEF Inv, TypeOK, Notified, Shape, Paths, ActorPath,
           MutexHeld, LoadedFresh, DepthBounded, LockBased, Bounded, Locations
  <1>3. HoldIn(pc') = HoldIn(pc)
    BY DEF Inv, TypeOK, Notified, HoldIn, Locations
  <1>4. DepthAccounting'
    BY <1>3, AccountingForm DEF Inv, Notified
  <1> QED BY <1>1, <1>2, <1>4 DEF Inv, Shape

\* LockAcquire keeps the invariant.
LEMMA LockAcquireInv ==
    ASSUME Inv, NEW c \in Callers, LockAcquire(c)
    PROVE  Inv'
  <1> USE CapacitiesAssumption, SendersAssumption DEF config, Bounded
  <1>1. TypeOK'
    BY DEF Inv, TypeOK, LockAcquire, Locations, Results
  <1>2. Shape'
    BY DEF Inv, TypeOK, LockAcquire, Shape, Paths, ActorPath,
           MutexHeld, LoadedFresh, DepthBounded, LockBased, Bounded, Locations
  <1>3. HoldIn(pc') = HoldIn(pc)
    BY DEF Inv, TypeOK, LockAcquire, HoldIn, Locations
  <1>4. DepthAccounting'
    BY <1>3, AccountingForm DEF Inv, LockAcquire
  <1> QED BY <1>1, <1>2, <1>4 DEF Inv, Shape

\* LoadLocked keeps the invariant.
LEMMA LoadLockedInv ==
    ASSUME Inv, NEW c \in Callers, LoadLocked(c)
    PROVE  Inv'
  <1> USE CapacitiesAssumption, SendersAssumption DEF config, Bounded
  <1>1. TypeOK'
    BY DEF Inv, TypeOK, LoadLocked, Locations, Results
  <1>2. Shape'
    BY DEF Inv, TypeOK, LoadLocked, Shape, Paths, ActorPath,
           MutexHeld, LoadedFresh, DepthBounded, LockBased, Bounded, Locations
  <1>3. HoldIn(pc') = HoldIn(pc)
    BY DEF Inv, TypeOK, LoadLocked, HoldIn, Locations
  <1>4. DepthAccounting'
    BY <1>3, AccountingForm DEF Inv, LoadLocked
  <1> QED BY <1>1, <1>2, <1>4 DEF Inv, Shape

\* CvarWait keeps the invariant.
LEMMA CvarWaitInv ==
    ASSUME Inv, NEW c \in Callers, CvarWait(c)
    PROVE  Inv'
  <1> USE CapacitiesAssumption, SendersAssumption DEF config, Bounded
  <1>1. TypeOK'
    BY DEF Inv, TypeOK, CvarWait, Locations, Results
  <1>2. Shape'
    BY DEF Inv, TypeOK, CvarWait, Shape, Paths, ActorPath,
           MutexHeld, LoadedFresh, DepthBounded, LockBased, Bounded, Locations
  <1>3. HoldIn(pc') = HoldIn(pc)
    BY DEF Inv, TypeOK, CvarWait, HoldIn, Locations
  <1>4. DepthAccounting'
    BY <1>3, AccountingForm DEF Inv, CvarWait
  <1> QED BY <1>1, <1>2, <1>4 DEF Inv, Shape

\* SpuriousWakeup keeps the invariant.
LEMMA SpuriousWakeupInv ==
    ASSUME Inv, NEW c \in Callers, SpuriousWakeup(c)
    PROVE  Inv'
  <1> USE CapacitiesAssumption, SendersAssumption DEF config, Bounded
  <1>1. TypeOK'
    BY DEF Inv, TypeOK, SpuriousWakeup, Locations, Results
  <1>2. Shape'
    BY DEF Inv, TypeOK, SpuriousWakeup, Shape, Paths, ActorPath,
           MutexHeld, LoadedFresh, DepthBounded, LockBased, Bounded, Locations
  <1>3. HoldIn(pc') = HoldIn(pc)
    BY DEF Inv, TypeOK, SpuriousWakeup, HoldIn, Locations
  <1>4. DepthAccounting'
    BY <1>3, AccountingForm DEF Inv, SpuriousWakeup
  <1> QED BY <1>1, <1>2, <1>4 DEF Inv, Shape

\* Exchange keeps the invariant.
LEMMA ExchangeInv ==
    ASSUME Inv, NEW c \in Callers, Exchange(c)
    PROVE  Inv' /\ depth < capacity
  <1> USE CapacitiesAssumption, SendersAssumption DEF config, Bounded
  <1>1. TypeOK' /\ Bounded /\ depth < capacity
    BY DEF Inv, TypeOK, Exchange, Locations, Paths, LoadedFresh, Bounded
  <1>2. Shape'
    BY <1>1 DEF Inv, TypeOK, Exchange, Shape, Paths, ActorPath,
           MutexHeld, LoadedFresh, DepthBounded, LockBased, Bounded, Locations
  <1>3. Cardinality(HoldIn(pc')) = Cardinality(HoldIn(pc)) + 1
    BY HoldEnter DEF Inv, TypeOK, Exchange
  <1>4. DepthAccounting'
    BY <1>1, <1>3, HoldFinite, AccountingForm DEF Inv, TypeOK, Exchange
  <1> QED BY <1>1, <1>2, <1>4 DEF Inv, Shape

\* FetchAdd keeps the invariant.
LEMMA FetchAddInv ==
    ASSUME Inv, NEW c \in Callers, FetchAdd(c)
    PROVE  Inv' /\ depth < capacity
  <1> USE CapacitiesAssumption, SendersAssumption DEF config, Bounded
  <1>1. TypeOK' /\ Bounded /\ depth < capacity
    BY DEF Inv, TypeOK, FetchAdd, Locations, Paths, LoadedFresh, Bounded
  <1>2. Shape'
    BY <1>1 DEF Inv, TypeOK, FetchAdd, Shape, Paths, ActorPath,
           MutexHeld, LoadedFresh, DepthBounded, LockBased, Bounded, Locations
  <1>3. Cardinality(HoldIn(pc')) = Cardinality(HoldIn(pc)) + 1
    BY HoldEnter DEF Inv, TypeOK, FetchAdd
  <1>4. DepthAccounting'
    BY <1>1, <1>3, HoldFinite, AccountingForm DEF Inv, TypeOK, FetchAdd
  <1> QED BY <1>1, <1>2, <1>4 DEF Inv, Shape

\* Push keeps the invariant.
LEMMA PushInv ==
    ASSUME Inv, NEW c \in Callers, Push(c)
    PROVE  Inv'
  <1> USE CapacitiesAssumption DEF config, Bounded
  <1>1. TypeOK'
    BY DEF Inv, TypeOK, Push, Locations, Results
  <1>2. Shape'
    BY DEF Inv, TypeOK, Push, Shape, Paths, ActorPath,
           MutexHeld, LoadedFresh, DepthBounded, LockBased, Bounded, Locations
  <1>3. DepthAccounting'
    <2>1. CASE actor # "gone"
      <3>1. Cardinality(HoldIn(pc')) = Cardinality(HoldIn(pc)) - 1
        BY <2>1, HoldLeave DEF Inv, TypeOK, Push
      <3> QED BY <2>1, <3>1, HoldFinite, AccountingForm DEF Inv, TypeOK, Push
    <2>2. CASE actor = "gone"
      <3>1. HoldIn(pc') = HoldIn(pc)
        BY <2>2 DEF Inv, TypeOK, Push, HoldIn
      <3> QED BY <2>2, <3>1, AccountingForm DEF Inv, Push
    <2> QED BY <2>1, <2>2
  <1> QED BY <1>1, <1>2, <1>3 DEF Inv, Shape

\* RollbackAcquire keeps the invariant.
LEMMA RollbackAcquireInv ==
    ASSUME Inv, NEW c \in Callers, RollbackAcquire(c)
    PROVE  Inv' /\ (Bounded => depth > 0)
  <1> USE CapacitiesAssumption DEF config, Bounded
  <1>1. Bounded => depth > 0
    BY UnitHeld DEF Inv, RollbackAcquire
  <1>2. TypeOK'
    BY <1>1 DEF Inv, TypeOK, RollbackAcquire, Locations
  <1>3. Shape'
    BY DEF Inv, TypeOK, RollbackAcquire, Shape, Paths, ActorPath,
           MutexHeld, LoadedFresh, DepthBounded, LockBased, Bounded, Locations
  <1>4. Cardinality(HoldIn(pc')) = Cardinality(HoldIn(pc)) - 1
    BY HoldLeave DEF Inv, TypeOK, RollbackAcquire
  <1>5. DepthAccounting'
    BY <1>4, HoldFinite, AccountingForm DEF Inv, TypeOK, RollbackAcquire
  <1> QED BY <1>1, <1>2, <1>3, <1>5 DEF Inv, Shape

\* RollbackNotify keeps the invariant.
LEMMA RollbackNotifyInv ==
    ASSUME Inv, NEW c \in Callers, RollbackNotify(c)
    PROVE  Inv'
  <1> USE CapacitiesAssumption DEF config, Bounded
  <1>1. TypeOK'
    BY DEF Inv, TypeOK, RollbackNotify, NotifyBlockers, Locations, Results
  <1>2. Shape'
    BY DEF Inv, TypeOK, RollbackNotify, NotifyBlockers, Shape, Paths, ActorPath,
           MutexHeld, LoadedFresh, DepthBounded, LockBased, Bounded, Locations
  <1>3. HoldIn(pc') = HoldIn(pc)
    BY DEF Inv, TypeOK, RollbackNotify, NotifyBlockers, HoldIn, Locations
  <1>4. DepthAccounting'
    BY <1>3, AccountingForm DEF Inv, RollbackNotify
  <1> QED BY <1>1, <1>2, <1>4 DEF Inv, Shape

\* DequeueNotify keeps the invariant.
LEMMA DequeueNotifyInv ==
    ASSUME Inv, DequeueNotify
    PROVE  Inv'
  <1> USE CapacitiesAssumption DEF config, Bounded
  <1>1. TypeOK'
    BY DEF Inv, TypeOK, DequeueNotify, NotifyBlockers, Locations, ActorStates
  <1>2. Shape'
    BY DEF Inv, TypeOK, DequeueNotify, NotifyBlockers, Shape, Paths, ActorPath,
           MutexHeld, LoadedFresh, DepthBounded, LockBased, Bounded, Locations
  <1>3. HoldIn(pc') = HoldIn(pc)
    BY HoldNotify DEF Inv, TypeOK, DequeueNotify
  <1>4. DepthAccounting'
    BY <1>3, AccountingForm DEF Inv, DequeueNotify
  <1> QED BY <1>1, <1>2, <1>4 DEF Inv, Shape

\* OnMessageDequeued keeps the invariant.
LEMMA OnMessageDequeuedInv ==
    ASSUME Inv, OnMessageDequeued
    PROVE  Inv' /\ Bounded /\ depth > 0
  <1> USE CapacitiesAssumption DEF config, Bounded
  <1>1. Bounded /\ depth > 0
    BY UnitHeld DEF Inv, ActorPath, OnMessageDequeued
  <1>2. TypeOK'
    BY <1>1 DEF Inv, TypeOK, OnMessageDequeued, ActorStates
  <1>3. Shape'
    BY DEF Inv, TypeOK, OnMessageDequeued, Shape, Paths, ActorPath,
           MutexHeld, LoadedFresh, DepthBounded, LockBased
  <1>4. pc' = pc
    BY DEF OnMessageDequeued
  <1>5. DepthAccounting'
    BY <1>1, <1>4, HoldFinite, AccountingForm DEF Inv, TypeOK, OnMessageDequeued
  <1> QED BY <1>1, <1>2, <1>3, <1>5 DEF Inv, Shape

\* The steps of the actor that leave the counter alone keep the invariant.
LEMMA RestInv ==
    ASSUME Inv, Recv \/ HandlerReturns \/ LeaveLoop \/ DropReceiver
    PROVE  Inv'
  <1> USE CapacitiesAssumption
      DEF config, Bounded, Recv, HandlerReturns, LeaveLoop, DropReceiver
  <1>1. TypeOK'
    BY DEF Inv, TypeOK, ActorStates
  <1>2. Shape'
    BY DEF Inv, TypeOK, Shape, Paths, ActorPath, MutexHeld, LoadedFresh, DepthBounded,
           LockBased
  <1>3. pc' = pc
    OBVIOUS
  <1>4. DepthAccounting'
    <2>1. CASE Recv
      BY <1>3, <2>1, HoldFinite, AccountingForm DEF Inv, TypeOK
    <2>2. CASE HandlerReturns \/ LeaveLoop
      BY <1>3, <2>2, AccountingForm DEF Inv
    <2>3. CASE DropReceiver
      BY <1>3, <2>3, HoldFinite, AccountingForm DEF Inv, TypeOK
    <2> QED BY <2>1, <2>2, <2>3
  <1> QED BY <1>1, <1>2, <1>4 DEF Inv, Shape

-----------------------------------------------------------------------------
(* The theorems.                                                           *)

\* Every step keeps the invariant.
LEMMA NextInv == Inv /\ [Next]_vars => Inv'
  <1> SUFFICES ASSUME Inv, [Next]_vars PROVE Inv'
    OBVIOUS
  <1>1. CASE \E c \in Callers : Send(c) \/ SendStep(c) \/ SpuriousWakeup(c)
    <2>1. PICK c \in Callers : Send(c) \/ SendStep(c) \/ SpuriousWakeup(c)
      BY <1>1
    <2> QED BY <2>1, SendInv, LoadInv, ExchangeInv, ExchangeFailsInv, NotifiedInv,
               LockAcquireInv, LoadLockedInv, FetchAddInv, CvarWaitInv,
               SpuriousWakeupInv, PushInv, RollbackAcquireInv, RollbackNotifyInv
            DEF SendStep
  <1>2. CASE ActorStep \/ LeaveLoop \/ DropReceiver
    BY <1>2, OnMessageDequeuedInv, DequeueNotifyInv, RestInv DEF ActorStep
  <1>3. CASE UNCHANGED vars
    <2>1. HoldIn(pc') = HoldIn(pc)
      BY <1>3 DEF vars, HoldIn
    <2>2. DepthAccounting'
      BY <1>3, <2>1, AccountingForm DEF Inv, vars, config, Bounded
    <2> QED BY <1>3, <2>2
            DEF Inv, vars, config, Bounded, LockBased, TypeOK, Paths, ActorPath,
                MutexHeld, LoadedFresh, DepthBounded
  <1> QED BY <1>1, <1>2, <1>3 DEF Next

\* Every reachable state satisfies the inductive invariant.
THEOREM Invariance == Spec => []Inv
  BY InitInv, NextInv, PTL DEF Spec

\* The types hold, so depth never wraps below zero: rollback_acquire and
\* on_message_dequeued only subtract a unit somebody holds.
THEOREM TypeCorrect == Spec => []TypeOK
  BY Invariance, PTL DEF Inv

\* The depth counter accounts for every queued, in-flight and lost item.
THEOREM Accounting == Spec => []DepthAccounting
  BY Invariance, PTL DEF Inv

\* The accounting and the capacity bound the queue.
LEMMA InvBoundsQueue == Inv => QueueBounded
  <1> SUFFICES ASSUME Inv, Bounded PROVE queued <= capacity
    BY DEF QueueBounded
  <1>1. depth = queued + Cardinality(HoldIn(pc)) + dropped
                + (IF actor = "dequeued" THEN 1 ELSE 0)
    BY AccountingForm DEF Inv
  <1> QED BY <1>1, HoldFinite, CapacitiesAssumption DEF Inv, TypeOK, DepthBounded

\* A bounded mailbox never holds more user messages than its capacity.
THEOREM Capped == Spec => []QueueBounded
  BY Invariance, InvBoundsQueue, PTL

\* A step of the mailbox is a step of the semaphore or leaves it alone.
LEMMA SemaphoreStep == Inv /\ [Next]_vars => [S!Next]_<<capacity, depth>>
  <1> SUFFICES ASSUME Inv, [Next]_vars
               PROVE  S!Acquire \/ S!Release \/ UNCHANGED <<capacity, depth>>
    BY DEF S!Next
  <1> USE CapacitiesAssumption DEF config, Bounded, Inv, TypeOK, S!Acquire, S!Release
  <1>1. CASE \E c \in Callers : Exchange(c)
    BY <1>1, ExchangeInv DEF Exchange
  <1>2. CASE \E c \in Callers : FetchAdd(c)
    BY <1>2, FetchAddInv DEF FetchAdd
  <1>3. CASE \E c \in Callers : RollbackAcquire(c)
    BY <1>3, RollbackAcquireInv DEF RollbackAcquire
  <1>4. CASE OnMessageDequeued
    BY <1>4, OnMessageDequeuedInv DEF OnMessageDequeued
  <1>5. CASE \E c \in Callers : Send(c) \/ Load(c) \/ ExchangeFails(c) \/ Notified(c)
               \/ LockAcquire(c) \/ LoadLocked(c) \/ CvarWait(c) \/ SpuriousWakeup(c)
               \/ Push(c) \/ RollbackNotify(c)
    BY <1>5 DEF Send, Load, ExchangeFails, Notified, LockAcquire, LoadLocked,
                CvarWait, SpuriousWakeup, Push, RollbackNotify
  <1>6. CASE Recv \/ DequeueNotify \/ HandlerReturns \/ LeaveLoop \/ DropReceiver
    BY <1>6 DEF Recv, DequeueNotify, HandlerReturns, LeaveLoop, DropReceiver
  <1>7. CASE UNCHANGED vars
    BY <1>7 DEF vars, config
  <1> QED BY <1>1, <1>2, <1>3, <1>4, <1>5, <1>6, <1>7 DEF Next, SendStep, ActorStep

\* The detailed counter implements the counting semaphore.
THEOREM ImplementsSemaphore == Spec => SemaphoreRefined
  <1>1. Init => S!Init
    BY DEF Init, S!Init
  <1> QED BY <1>1, SemaphoreStep, Invariance, PTL DEF Spec, SemaphoreRefined, S!Spec
=============================================================================
