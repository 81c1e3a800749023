---------------------------- MODULE ActorProofs ----------------------------
(***************************************************************************)
(* Proofs about an actor and who waits for it.  What every step of the     *)
(* services does to an actor, as far as its phase, its queue and its       *)
(* handler go, and what that keeps; then, one after the other, that every  *)
(* step keeps what is so of a monitor, of a request, whose message is in   *)
(* one place at most, and of a wait for an exit.  Last, the groups: what   *)
(* each critical section of the store does to the members, the typed       *)
(* members and the index, and that they agree.                             *)
(***************************************************************************)
EXTENDS Monitors, Requests, ExitWaits, Groups, TLAPS

\* Only an actor that runs is in a handler; M are the messages there are.
LifeInv(M) ==
    /\ phase \in [Actors -> {"up", "leaving", "dropped", "removed", "dead"}]
    /\ queue \in [Actors -> Seq(M)]
    /\ handling \in [Actors -> M \union {Idle}]
    /\ \A a \in Actors : handling[a] # Idle => phase[a] = "up"

-----------------------------------------------------------------------------
(* The kinds of steps.                                                     *)

\* An actor not in a handler goes on towards its end.
Ends ==
    \E a \in Actors :
        /\ handling[a] = Idle /\ phase[a] # "dead"
        /\ \E p \in {"leaving", "dropped", "removed", "dead"} : phase' = [phase EXCEPT ![a] = p]
        /\ UNCHANGED <<queue, handling>>

\* The task of an actor is aborted.
Aborts ==
    \E a :
        /\ phase' = [phase EXCEPT ![a] = "dead"]
        /\ queue' = [queue EXCEPT ![a] = <<>>]
        /\ handling' = [handling EXCEPT ![a] = Idle]

\* One of the messages ms is sent, or dropped.
Sends(ms) ==
    /\ UNCHANGED <<phase, handling>>
    /\ queue' = queue \/ \E a : \E m \in ms : queue' = [queue EXCEPT ![a] = Append(@, m)]

\* A handler ends, or a receiver is dropped with what is queued.
Loses == \E a \in Actors : DropReceiver(a) \/ \E p \in BOOLEAN : HandlerEnds(a, p)

Kinds(ms) ==
    \/ UNCHANGED <<phase, queue, handling>>
    \/ Ends \/ Aborts \/ Sends(ms) \/ Loses
    \/ \E a \in Actors : Receive(a)

-----------------------------------------------------------------------------

\* Push keeps the type of the queues.
LEMMA Pushed ==
    ASSUME NEW M, queue \in [Actors -> Seq(M)], NEW a, NEW m \in M
    PROVE  [queue EXCEPT ![a] = Append(@, m)] \in [Actors -> Seq(M)]
  <1>1. CASE a \in Actors
    <2>1. Append(queue[a], m) \in Seq(M)
      BY <1>1
    <2> QED
      BY <2>1
  <1>2. CASE a \notin Actors
    BY <1>2
  <1> QED
    BY <1>1, <1>2

\* No step brings an actor in a handler anywhere but to "up" or "leaving", and
\* a published exit stays published.
LEMMA LifeStep ==
    ASSUME NEW M, LifeInv(M), Kinds(M)
    PROVE  LifeInv(M)' /\ \A a \in Actors : phase[a] = "dead" => phase'[a] = "dead"
  <1> USE DEF LifeInv
  <1> DEFINE Goal == LifeInv(M)' /\ \A a \in Actors : phase[a] = "dead" => phase'[a] = "dead"
  <1>0. <<>> \in Seq(M)
    OBVIOUS
  <1>1. CASE UNCHANGED <<phase, queue, handling>>
    BY <1>1
  <1>2. CASE Ends
    BY <1>2 DEF Ends
  <1>3. CASE Aborts
    <2>1. PICK a : /\ phase' = [phase EXCEPT ![a] = "dead"] /\ queue' = [queue EXCEPT ![a] = <<>>]
                   /\ handling' = [handling EXCEPT ![a] = Idle]
      BY <1>3 DEF Aborts
    <2>2. queue' \in [Actors -> Seq(M)]
      BY <1>0, <2>1
    <2>3. handling' \in [Actors -> M \union {Idle}]
      BY <2>1
    <2>4. \A b \in Actors : /\ phase'[b] = phase[b] \/ phase'[b] = "dead"
                            /\ handling'[b] = IF b = a THEN Idle ELSE handling[b]
      BY <2>1
    <2> QED
      BY <2>1, <2>2, <2>3, <2>4
  <1>4. CASE Sends(M)
    <2>1. CASE queue' = queue
      BY <1>4, <2>1 DEF Sends
    <2>2. ASSUME NEW a, NEW m \in M, queue' = [queue EXCEPT ![a] = Append(@, m)] PROVE Goal
      <3>1. queue' \in [Actors -> Seq(M)]
        BY <2>2, Pushed
      <3> QED
        BY <1>4, <3>1 DEF Sends
    <2> QED
      BY <1>4, <2>1, <2>2 DEF Sends
  <1>5. ASSUME NEW a \in Actors, Receive(a) PROVE Goal
    <2>1. Head(queue[a]) \in M /\ Tail(queue[a]) \in Seq(M)
      BY <1>5 DEF Receive
    <2> QED
      BY <1>5, <2>1 DEF Receive
  <1>6. ASSUME NEW a \in Actors, NEW p \in BOOLEAN, HandlerEnds(a, p) PROVE Goal
    <2>1. phase[a] = "up"
      BY <1>6 DEF HandlerEnds
    <2>2. PICK x \in {"up", "leaving"} : phase' = [phase EXCEPT ![a] = x]
      BY <1>6, <2>1 DEF HandlerEnds
    <2> QED
      BY <1>6, <2>1, <2>2 DEF HandlerEnds
  <1>7. ASSUME NEW a \in Actors, DropReceiver(a) PROVE Goal
    BY <1>0, <1>7 DEF DropReceiver
  <1> QED
    BY <1>1, <1>2, <1>3, <1>4, <1>5, <1>6, <1>7 DEF Kinds, Loses

-----------------------------------------------------------------------------
(* Monitors.                                                               *)

MonType ==
    [by : Actors \union {Idle}, target : Actors \union {Idle}, listed : BOOLEAN,
     active : BOOLEAN, task : {"none", "waiting", "woken", "done"}, sent : Nat, early : BOOLEAN]

\* One monitor: the entry is listed while its task waits, unless demonitor() has
\* taken it out and cleared the flag; a task past its wait has seen the exit.
OneMon(m) ==
    /\ m.task = "none" => ~m.early
    /\ m.task # "none" => m.target \in Actors
    /\ m.task \in {"woken", "done"} => phase[m.target] = "dead" /\ ~m.listed
    /\ m.task = "waiting" /\ ~m.listed => ~m.active
    /\ m.early => ~m.active
    /\ m.sent > 0 => m.task = "done" /\ m.sent = 1 /\ ~m.early

MonInv == mon \in [MonitorRefs -> MonType] /\ \A ref \in MonitorRefs : OneMon(mon[ref])

\* Nothing that happens to the actors disturbs it, nor does any step of
\* monitor(), demonitor() and the watching tasks.
LEMMA MonStep ==
    ASSUME NEW M, LifeInv(M), MonInv, Kinds(M), UNCHANGED mon \/ MonitorNext
    PROVE  MonInv'
  <1>1. \A a \in Actors : phase[a] = "dead" => phase'[a] = "dead"
    BY LifeStep
  <1>2. CASE UNCHANGED mon
    <2>1. \A m \in MonType : OneMon(m) => OneMon(m)'
      BY <1>1 DEF OneMon
    <2> QED
      BY <1>2, <2>1 DEF MonInv, OneMon
  <1>3. CASE MonitorNext
    <2>1. PICK ref \in MonitorRefs :
            \/ \E w, x \in Actors : Monitor(w, x, ref)
            \/ Demonitor(ref) \/ TargetExited(ref) \/ DeliverDown(ref)
      BY <1>3 DEF MonitorNext, MonitorTask, ThreadsMonitor, ThreadsDemonitor
    <2>0. UNCHANGED phase
      BY <2>1 DEF Monitor, Demonitor, TargetExited, DeliverDown, lifeVars
    <2> DEFINE m == mon[ref]
    <2>2. m \in MonType /\ OneMon(m)
      BY DEF MonInv
    <2>3. ASSUME NEW v \in MonType, OneMon(v), mon' = [mon EXCEPT ![ref] = v]
          PROVE MonInv'
      BY <2>0, <2>3 DEF MonInv, OneMon
    <2>4. ASSUME NEW w \in Actors, NEW x \in Actors, Monitor(w, x, ref) PROVE MonInv'
      <3> DEFINE v == [m EXCEPT !.by = w, !.target = x, !.listed = TRUE, !.active = TRUE,
                                !.task = "waiting"]
      <3>1. mon' = [mon EXCEPT ![ref] = v]
        BY <2>4 DEF Monitor
      <3>2. m.task = "none"
        BY <2>4 DEF Monitor
      <3>3. v \in MonType
        BY <2>2 DEF MonType
      <3>4. OneMon(v)
        BY <2>2, <3>2 DEF MonType, OneMon
      <3> QED
        BY <2>3, <3>1, <3>3, <3>4
    <2>5. CASE Demonitor(ref)
      <3> DEFINE v == [m EXCEPT !.active = m.active /\ ~m.listed, !.listed = FALSE,
                                !.early = m.early \/ phase[m.target] # "dead"]
      <3>1. mon' = [mon EXCEPT ![ref] = v]
        BY <2>5 DEF Demonitor
      <3>2. m.task # "none"
        BY <2>5 DEF Demonitor
      <3>3. v \in MonType
        BY <2>2 DEF MonType
      <3>4. OneMon(v)
        BY <2>2, <3>2 DEF MonType, OneMon
      <3> QED
        BY <2>3, <3>1, <3>3, <3>4
    <2>6. CASE TargetExited(ref)
      <3> DEFINE v == [m EXCEPT !.listed = FALSE, !.task = "woken"]
      <3>1. mon' = [mon EXCEPT ![ref] = v]
        BY <2>6 DEF TargetExited
      <3>2. m.task = "waiting" /\ phase[m.target] = "dead"
        BY <2>6 DEF TargetExited
      <3>3. v \in MonType
        BY <2>2 DEF MonType
      <3>4. OneMon(v)
        BY <2>2, <3>2 DEF MonType, OneMon
      <3> QED
        BY <2>3, <3>1, <3>3, <3>4
    <2>7. CASE DeliverDown(ref)
      <3> DEFINE v == [m EXCEPT !.task = "done",
                                !.sent = IF m.active /\ CanSend(m.by) THEN m.sent + 1 ELSE m.sent]
      <3>1. mon' = [mon EXCEPT ![ref] = v]
        BY <2>7 DEF DeliverDown
      <3>2. m.task = "woken"
        BY <2>7 DEF DeliverDown
      <3>3. v \in MonType
        <4>1. (IF m.active /\ CanSend(m.by) THEN m.sent + 1 ELSE m.sent) \in Nat
          BY <2>2 DEF MonType
        <4> QED
          BY <2>2, <4>1 DEF MonType
      <3>4. OneMon(v)
        BY <2>2, <3>2 DEF MonType, OneMon
      <3> QED
        BY <2>3, <3>1, <3>3, <3>4
    <2> QED
      BY <2>1, <2>4, <2>5, <2>6, <2>7
  <1> QED
    BY <1>2, <1>3

-----------------------------------------------------------------------------
(* Requests.                                                               *)

ReqType ==
    [from : Actors \union {Outside}, to : Actors \union {Idle}, timed : BOOLEAN,
     state : Pending \union {"none", "Ok", "ActorStopped", "RequestTimeout"}, done : BOOLEAN]

Handled(a, r) == handling[a] = ReqMsg(r)
Queued(a, i, r) == i \in 1..Len(queue[a]) /\ queue[a][i] = ReqMsg(r)

\* The message of a request is in no queue and no handler; in one place at most.
Nowhere(r) == \A a \in Actors : ~Handled(a, r) /\ \A i \in Nat : ~Queued(a, i, r)
Once(r) ==
    \A a, b \in Actors :
        /\ Handled(a, r) => (Handled(b, r) => a = b) /\ \A i \in Nat : ~Queued(b, i, r)
        /\ \A i, j \in Nat : Queued(a, i, r) /\ Queued(b, j, r) => a = b /\ i = j

\* One request: what its state says of its handler and of its message.
OneReq(r, q) ==
    /\ Once(r)
    /\ q.state \in {"none", "waiting", "disconnected", "ActorStopped"} => ~q.done
    /\ q.state \in {"none", "disconnected", "ActorStopped"} => Nowhere(r)
    /\ q.state \in {"answered", "Ok"} => q.done

ReqInv == req \in [RequestIds -> ReqType] /\ \A r \in RequestIds : OneReq(r, req[r])

\* The messages that are no requests.
Others(M) == M \ {ReqMsg(r) : r \in RequestIds}
IdleIsNoRequest == \A r \in RequestIds : ReqMsg(r) # Idle

\* No step but the request itself puts its message anywhere.
LEMMA Placed ==
    ASSUME NEW M, LifeInv(M), IdleIsNoRequest, Kinds(Others(M)), NEW r \in RequestIds
    PROVE  (Nowhere(r) => Nowhere(r)') /\ (Once(r) => Once(r)')
  <1> DEFINE Goal == (Nowhere(r) => Nowhere(r)') /\ (Once(r) => Once(r)')
  <1>0. ReqMsg(r) # Idle
    BY DEF IdleIsNoRequest
  <1>a. ASSUME \A a \in Actors : Handled(a, r)' => Handled(a, r),
               \A a \in Actors, i \in Nat : Queued(a, i, r)' => Queued(a, i, r)
        PROVE  Goal
    BY <1>a DEF Nowhere, Once
  <1>1. CASE UNCHANGED <<queue, handling>>
    BY <1>1, <1>a DEF Handled, Queued
  <1>2. CASE Aborts
    <2>1. \A a \in Actors : Handled(a, r)' => Handled(a, r)
      BY <1>0, <1>2 DEF Aborts, Handled, LifeInv
    <2>2. \A a \in Actors, i \in Nat : Queued(a, i, r)' => Queued(a, i, r)
      BY <1>2 DEF Aborts, Queued, LifeInv
    <2> QED
      BY <1>a, <2>1, <2>2
  <1>3. CASE Sends(Others(M))
    <2>1. \A a \in Actors : Handled(a, r)' => Handled(a, r)
      BY <1>3 DEF Sends, Handled
    <2>2. CASE queue' = queue
      BY <1>a, <2>1, <2>2 DEF Queued
    <2>3. ASSUME NEW b, NEW m \in Others(M), queue' = [queue EXCEPT ![b] = Append(@, m)]
          PROVE  Goal
      <3>1. m # ReqMsg(r) /\ m \in M
        BY <2>3 DEF Others
      <3>2. ASSUME NEW a \in Actors, NEW i \in Nat, Queued(a, i, r)' PROVE Queued(a, i, r)
        <4>1. CASE a = b
          <5>1. queue[a] \in Seq(M) /\ queue'[a] = Append(queue[a], m)
            BY <2>3, <4>1 DEF LifeInv
          <5>2. Len(queue'[a]) = Len(queue[a]) + 1 /\ Len(queue[a]) \in Nat
            BY <3>1, <5>1
          <5>3. CASE i = Len(queue[a]) + 1
            BY <3>1, <3>2, <5>1, <5>3 DEF Queued
          <5>4. CASE i \in 1..Len(queue[a])
            BY <3>1, <3>2, <5>1, <5>4 DEF Queued
          <5> QED
            BY <3>2, <5>2, <5>3, <5>4 DEF Queued
        <4>2. CASE a # b
          BY <2>3, <3>2, <4>2 DEF Queued, LifeInv
        <4> QED
          BY <4>1, <4>2
      <3> QED
        BY <1>a, <2>1, <3>2
    <2> QED
      BY <1>3, <2>2, <2>3 DEF Sends
  <1>4. ASSUME NEW a \in Actors, Receive(a) PROVE Goal
    <2> DEFINE s == queue[a]
    <2>1. s \in Seq(M) /\ s # <<>>
      BY <1>4 DEF Receive, LifeInv
    <2>2. /\ Len(s) \in Nat \ {0} /\ Head(s) = s[1] /\ Len(Tail(s)) = Len(s) - 1
          /\ \A i \in 1..Len(s) - 1 : Tail(s)[i] = s[i + 1]
      BY <2>1
    <2>a. /\ handling' = [handling EXCEPT ![a] = Head(s)] /\ queue' = [queue EXCEPT ![a] = Tail(s)]
          /\ queue'[a] = Tail(s) /\ handling'[a] = Head(s)
          /\ \A b \in Actors \ {a} : queue'[b] = queue[b] /\ handling'[b] = handling[b]
      BY <1>4 DEF Receive, LifeInv
    <2>3. \A b \in Actors : Handled(b, r)' => IF b = a THEN Queued(a, 1, r) ELSE Handled(b, r)
      <3>1. Handled(a, r)' => Queued(a, 1, r)
        BY <2>2, <2>a DEF Handled, Queued
      <3>2. \A b \in Actors \ {a} : Handled(b, r)' => Handled(b, r)
        BY <2>a DEF Handled
      <3> QED
        BY <3>1, <3>2
    <2>4. \A b \in Actors, i \in Nat :
            Queued(b, i, r)' => IF b = a THEN i >= 1 /\ Queued(a, i + 1, r) ELSE Queued(b, i, r)
      <3>1. ASSUME NEW i \in Nat, Queued(a, i, r)' PROVE i >= 1 /\ Queued(a, i + 1, r)
        <4>1. i \in 1..Len(Tail(s)) /\ Tail(s)[i] = ReqMsg(r)
          BY <2>a, <3>1 DEF Queued
        <4>2. i \in 1..Len(s) - 1 /\ i + 1 \in 1..Len(s)
          BY <2>2, <4>1
        <4> QED
          BY <2>2, <4>1, <4>2 DEF Queued
      <3>2. \A b \in Actors \ {a}, i \in Nat : Queued(b, i, r)' => Queued(b, i, r)
        BY <2>a DEF Queued
      <3> QED
        BY <3>1, <3>2
    <2>5. Nowhere(r) => Nowhere(r)'
      BY <2>3, <2>4 DEF Nowhere
    <2>6. Once(r) => Once(r)'
      BY <2>3, <2>4 DEF Once
    <2> QED
      BY <2>5, <2>6
  <1>5. ASSUME NEW a \in Actors, DropReceiver(a) PROVE Goal
    <2>1. \A b \in Actors : Handled(b, r)' => Handled(b, r)
      BY <1>5 DEF DropReceiver, Handled
    <2>2. \A b \in Actors, i \in Nat : Queued(b, i, r)' => Queued(b, i, r)
      BY <1>5 DEF DropReceiver, Queued, LifeInv
    <2> QED
      BY <1>a, <2>1, <2>2
  <1>6. ASSUME NEW a \in Actors, NEW p \in BOOLEAN, HandlerEnds(a, p) PROVE Goal
    <2>1. \A b \in Actors : Handled(b, r)' => Handled(b, r)
      BY <1>0, <1>6 DEF HandlerEnds, Handled, LifeInv
    <2>2. \A b \in Actors, i \in Nat : Queued(b, i, r)' => Queued(b, i, r)
      BY <1>6 DEF HandlerEnds, Queued
    <2> QED
      BY <1>a, <2>1, <2>2
  <1> QED
    BY <1>1, <1>2, <1>3, <1>4, <1>5, <1>6 DEF Kinds, Ends, Loses

\* A request puts its message in one queue, once.
LEMMA PlacedNew ==
    ASSUME NEW M, LifeInv(M), NEW r \in RequestIds, ReqMsg(r) \in M, NEW a \in Actors,
           Nowhere(r), UNCHANGED handling,
           queue' = [queue EXCEPT ![a] = Append(@, ReqMsg(r))]
    PROVE  Once(r)' /\ \A q \in RequestIds \ {r} :
                         (Nowhere(q) => Nowhere(q)') /\ (Once(q) => Once(q)')
  <1> DEFINE s == queue[a]
  <1>1. ReqMsg(r) \in M /\ \A q \in RequestIds \ {r} : ReqMsg(q) # ReqMsg(r)
    BY DEF ReqMsg
  <1>2. /\ s \in Seq(M) /\ queue'[a] = Append(s, ReqMsg(r))
        /\ \A b \in Actors \ {a} : queue'[b] = queue[b]
    BY DEF LifeInv
  <1>3. /\ Len(s) \in Nat /\ Len(queue'[a]) = Len(s) + 1 /\ queue'[a][Len(s) + 1] = ReqMsg(r)
        /\ \A i \in 1..Len(s) : queue'[a][i] = s[i]
    BY <1>1, <1>2
  <1>4. ASSUME NEW b \in Actors, NEW i \in Nat, Queued(b, i, r)' PROVE b = a /\ i = Len(s) + 1
    <2>1. b = a
      BY <1>2, <1>4 DEF Nowhere, Queued
    <2>2. i \in 1..Len(s) + 1
      BY <1>3, <1>4, <2>1 DEF Queued
    <2>3. i \notin 1..Len(s)
      BY <1>3, <1>4, <2>1 DEF Nowhere, Queued
    <2> QED
      BY <1>3, <2>1, <2>2, <2>3
  <1>5. \A b \in Actors : ~Handled(b, r)'
    BY DEF Nowhere, Handled
  <1>6. Once(r)'
    BY <1>4, <1>5 DEF Once
  <1>7. ASSUME NEW q \in RequestIds \ {r}
        PROVE  (Nowhere(q) => Nowhere(q)') /\ (Once(q) => Once(q)')
    <2>1. \A b \in Actors : Handled(b, q)' => Handled(b, q)
      BY DEF Handled
    <2>2. ASSUME NEW b \in Actors, NEW i \in Nat, Queued(b, i, q)' PROVE Queued(b, i, q)
      <3>1. CASE b = a
        <4>1. i \in 1..Len(s) + 1 /\ i # Len(s) + 1
          BY <1>1, <1>3, <2>2, <3>1 DEF Queued
        <4>2. i \in 1..Len(s)
          BY <1>3, <4>1
        <4> QED
          BY <1>3, <2>2, <3>1, <4>2 DEF Queued
      <3>2. CASE b # a
        BY <1>2, <2>2, <3>2 DEF Queued
      <3> QED
        BY <3>1, <3>2
    <2> QED
      BY <2>1, <2>2 DEF Nowhere, Once
  <1> QED
    BY <1>6, <1>7

\* What the end of a handler, or of a receiver, leaves of its request.
LEMMA Gone ==
    ASSUME NEW M, LifeInv(M), IdleIsNoRequest, NEW r \in RequestIds, Once(r), NEW a \in Actors,
           \/ Handled(a, r) /\ \E p \in BOOLEAN : HandlerEnds(a, p)
           \/ DropReceiver(a) /\ \E i \in Nat : Queued(a, i, r)
    PROVE  Nowhere(r)'
  <1>1. ReqMsg(r) # Idle
    BY DEF IdleIsNoRequest
  <1>2. ASSUME Handled(a, r), NEW p \in BOOLEAN, HandlerEnds(a, p) PROVE Nowhere(r)'
    <2>1. \A b \in Actors, i \in Nat : ~Queued(b, i, r)'
      BY <1>2 DEF Once, HandlerEnds, Queued
    <2>2. \A b \in Actors : ~Handled(b, r)'
      BY <1>1, <1>2 DEF Once, HandlerEnds, Handled, LifeInv
    <2> QED
      BY <2>1, <2>2 DEF Nowhere
  <1>3. ASSUME DropReceiver(a), NEW i \in Nat, Queued(a, i, r) PROVE Nowhere(r)'
    <2>1. \A b \in Actors : ~Handled(b, r)'
      BY <1>3 DEF Once, DropReceiver, Handled
    <2>2. \A j \in Nat : ~Queued(a, j, r)'
      BY <1>3 DEF DropReceiver, Queued, LifeInv
    <2>3. \A b \in Actors \ {a}, j \in Nat : ~Queued(b, j, r)'
      BY <1>3 DEF Once, DropReceiver, Queued, LifeInv
    <2> QED
      BY <2>1, <2>2, <2>3 DEF Nowhere
  <1> QED
    BY <1>2, <1>3

\* Every step of the actors, of the callers and of the handlers keeps it.
LEMMA ReqStep ==
    ASSUME NEW M, LifeInv(M), IdleIsNoRequest, \A r \in RequestIds : ReqMsg(r) \in M, ReqInv,
           \/ Kinds(Others(M)) /\ UNCHANGED req
           \/ RequestNext
           \/ \E a \in Actors : DropRequests(a) \/ \E panics \in BOOLEAN : Handle(a, panics)
    PROVE  ReqInv'
  <1>t. req \in [RequestIds -> ReqType] /\ \A r \in RequestIds : req[r] \in ReqType /\ OneReq(r, req[r])
    BY DEF ReqInv
  <1>1. ASSUME UNCHANGED req,
               \A r \in RequestIds : (Nowhere(r) => Nowhere(r)') /\ (Once(r) => Once(r)')
        PROVE  ReqInv'
    BY <1>1 DEF ReqInv, OneReq
  <1>2. CASE Kinds(Others(M)) /\ UNCHANGED req
    BY <1>1, <1>2, Placed
  <1>3. ASSUME NEW r \in RequestIds, req'[r] \in ReqType, req' = [req EXCEPT ![r] = req'[r]],
               OneReq(r, req[r])',
               \A q \in RequestIds \ {r} : (Nowhere(q) => Nowhere(q)') /\ (Once(q) => Once(q)')
        PROVE  ReqInv'
    <2>1. req' \in [RequestIds -> ReqType]
      BY <1>t, <1>3
    <2>2. ASSUME NEW q \in RequestIds \ {r} PROVE OneReq(q, req[q])'
      <3>1. req'[q] = req[q]
        BY <1>t, <1>3
      <3> QED
        BY <1>t, <1>3, <3>1 DEF OneReq
    <2> QED
      BY <1>3, <2>1, <2>2 DEF ReqInv
  <1>4. CASE RequestNext
    <2>1. ASSUME NEW c \in Actors \union {Outside}, NEW a \in Actors, NEW timed \in BOOLEAN,
                 NEW r \in RequestIds, RequestRaw(c, a, timed, r)
          PROVE  ReqInv'
      <3> DEFINE q == req[r]
                 v == [q EXCEPT !.from = c, !.to = a, !.timed = timed,
                                !.state = IF CanSend(a) THEN "waiting" ELSE "ActorStopped"]
      <3>1. req' = [req EXCEPT ![r] = v] /\ req'[r] = v
        BY <1>t, <2>1 DEF RequestRaw
      <3>2. v \in ReqType /\ v.done = q.done
        BY <1>t DEF ReqType, Pending
      <3>3. q.state = "none" /\ ~q.done /\ Nowhere(r) /\ UNCHANGED handling
        BY <1>t, <2>1 DEF RequestRaw, OneReq
      <3>4. CASE CanSend(a)
        <4>1. queue' = [queue EXCEPT ![a] = Append(@, ReqMsg(r))]
          BY <2>1, <3>4 DEF RequestRaw, SendOrDrop, Push
        <4>2. Once(r)' /\ \A p \in RequestIds \ {r} :
                             (Nowhere(p) => Nowhere(p)') /\ (Once(p) => Once(p)')
          BY <3>3, <4>1, PlacedNew
        <4>3. v.state = "waiting"
          BY <1>t, <3>4 DEF ReqType
        <4>4. OneReq(r, req[r])'
          BY <3>1, <3>2, <3>3, <4>2, <4>3 DEF OneReq
        <4> QED
          BY <1>3, <3>1, <3>2, <4>2, <4>4
      <3>5. CASE ~CanSend(a)
        <4>1. UNCHANGED <<queue, handling>>
          BY <2>1, <3>5 DEF RequestRaw, SendOrDrop
        <4>2. \A p \in RequestIds : (Nowhere(p) => Nowhere(p)') /\ (Once(p) => Once(p)')
          BY <2>1, <4>1, Placed DEF RequestRaw, Kinds
        <4>3. v.state = "ActorStopped"
          BY <1>t, <3>5 DEF ReqType
        <4>4. OneReq(r, req[r])'
          BY <1>t, <3>1, <3>2, <3>3, <4>2, <4>3 DEF OneReq
        <4> QED
          BY <1>3, <3>1, <3>2, <4>2, <4>4
      <3> QED
        BY <3>4, <3>5
    <2>2. ASSUME NEW r \in RequestIds, Timeout(r) \/ Resume(r) PROVE ReqInv'
      <3> DEFINE q == req[r]
      <3>1. PICK x \in {"RequestTimeout", "Ok", "ActorStopped"} :
              /\ req' = [req EXCEPT ![r] = [q EXCEPT !.state = x]]
              /\ x = "Ok" => q.state = "answered"
              /\ x = "ActorStopped" => q.state = "disconnected"
        BY <2>2 DEF Timeout, Resume
      <3>2. \A p \in RequestIds : (Nowhere(p) => Nowhere(p)') /\ (Once(p) => Once(p)')
        BY <2>2, Placed DEF Timeout, Resume, lifeVars, Kinds
      <3> DEFINE v == [q EXCEPT !.state = x]
      <3>3. req'[r] = v /\ v \in ReqType /\ v.done = q.done /\ v.state = x
        BY <1>t, <3>1 DEF ReqType, Pending
      <3>4. OneReq(r, req[r])'
        BY <1>t, <3>1, <3>2, <3>3 DEF OneReq
      <3> QED
        BY <1>3, <3>1, <3>2, <3>3, <3>4
    <2> QED
      BY <1>4, <2>1, <2>2 DEF RequestNext, ActorRefRequest, ThreadsActorRefRequest, ContextRequest,
         ThreadsContextRequest, Caller, ThreadsResume
  <1>5. ASSUME NEW rs \in SUBSET RequestIds, req' = Disconnected(rs),
               \A r \in RequestIds : (Nowhere(r) => Nowhere(r)') /\ (Once(r) => Once(r)'),
               \A r \in rs : Nowhere(r)'
        PROVE  ReqInv'
    <2>1. ASSUME NEW r \in RequestIds PROVE req'[r] \in ReqType /\ OneReq(r, req[r])'
      <3>1. CASE r \in rs /\ req[r].state = "waiting"
        <4>1. req'[r] = [req[r] EXCEPT !.state = "disconnected"]
          BY <1>5, <3>1 DEF Disconnected
        <4>2. req'[r] \in ReqType /\ req'[r].state = "disconnected" /\ req'[r].done = req[r].done
          BY <1>t, <4>1 DEF ReqType, Pending
        <4> QED
          BY <1>t, <1>5, <3>1, <4>2 DEF OneReq
      <3>2. CASE ~(r \in rs /\ req[r].state = "waiting")
        <4>1. req'[r] = req[r]
          BY <1>5, <3>2 DEF Disconnected
        <4> QED
          BY <1>t, <1>5, <4>1 DEF OneReq
      <3> QED
        BY <3>1, <3>2
    <2>2. req' = [r \in RequestIds |-> req'[r]]
      BY <1>5 DEF Disconnected
    <2> QED
      BY <2>1, <2>2 DEF ReqInv
  <1>6. ASSUME NEW a \in Actors, DropRequests(a) PROVE ReqInv'
    <2> DEFINE rs == {r \in RequestIds : ReqMsg(r) \in Range(queue[a])}
    <2>1. DropReceiver(a) /\ req' = Disconnected(rs)
      BY <1>6 DEF DropRequests
    <2>2. ASSUME NEW r \in rs PROVE Nowhere(r)'
      <3>1. queue[a] \in Seq(M)
        BY DEF LifeInv
      <3>2. PICK i \in DOMAIN queue[a] : queue[a][i] = ReqMsg(r)
        BY <2>2 DEF Range
      <3>3. i \in Nat /\ Queued(a, i, r)
        BY <3>1, <3>2 DEF Queued
      <3> QED
        BY <1>t, <2>1, <3>3, Gone DEF OneReq
    <2>3. \A r \in RequestIds : (Nowhere(r) => Nowhere(r)') /\ (Once(r) => Once(r)')
      BY <2>1, Placed DEF Kinds, Loses
    <2> QED
      BY <1>5, <2>1, <2>2, <2>3
  <1>7. ASSUME NEW a \in Actors, NEW panics \in BOOLEAN, Handle(a, panics) PROVE ReqInv'
    <2> DEFINE rs == {r \in RequestIds : handling[a] = ReqMsg(r)}
    <2>1. HandlerEnds(a, panics)
      BY <1>7 DEF Handle
    <2>2. \A r \in rs : Nowhere(r)'
      BY <1>t, <2>1, Gone DEF OneReq, Handled
    <2>3. \A r \in RequestIds : (Nowhere(r) => Nowhere(r)') /\ (Once(r) => Once(r)')
      BY <2>1, Placed DEF Kinds, Loses
    <2>4. CASE panics
      <3>1. req' = Disconnected(rs)
        BY <1>7, <2>4 DEF Handle
      <3> QED
        BY <1>5, <2>2, <2>3, <3>1
    <2>5. CASE ~panics
      <3> DEFINE Done(q) == [q EXCEPT !.done = TRUE,
                               !.state = IF @ = "waiting" THEN "answered" ELSE @]
      <3>1. req' = [r \in RequestIds |-> IF r \in rs THEN Done(req[r]) ELSE req[r]]
        BY <1>7, <2>5 DEF Handle
      <3>2. ASSUME NEW r \in RequestIds PROVE req'[r] \in ReqType /\ OneReq(r, req[r])'
        <4>1. CASE r \in rs
          <5>1. req[r].state \in {"waiting", "answered", "Ok", "RequestTimeout"}
            BY <1>t, <4>1 DEF OneReq, Nowhere, Handled, ReqType, Pending
          <5>2. /\ Done(req[r]) \in ReqType /\ Done(req[r]).done
                /\ Done(req[r]).state \in {"answered", "Ok", "RequestTimeout"}
            BY <1>t, <5>1 DEF ReqType, Pending
          <5>3. req'[r] = Done(req[r])
            BY <3>1, <4>1
          <5> QED
            BY <1>t, <2>3, <5>2, <5>3 DEF OneReq
        <4>2. CASE r \notin rs
          <5>1. req'[r] = req[r]
            BY <3>1, <4>2
          <5> QED
            BY <1>t, <2>3, <5>1 DEF OneReq
        <4> QED
          BY <4>1, <4>2
      <3> QED
        BY <3>1, <3>2 DEF ReqInv
    <2> QED
      BY <2>4, <2>5
  <1> QED
    BY <1>2, <1>4, <1>6, <1>7

-----------------------------------------------------------------------------
(* Waits for an exit.                                                      *)

WaitResults == {"none", "Exited", "Kill", "None", "panic"}
CallType ==
    [step : {"none", "check", "asleep", "pooled", "returned"}, timed : BOOLEAN, pooled : BOOLEAN,
     found : WaitResults, result : WaitResults, spurious : Nat]

\* What a call says of the exit, to the thread that awaits it or to the caller.
Truthful(call, published, aborted) ==
    /\ "Exited" \in {call.found, call.result} => published
    /\ "Kill" \in {call.found, call.result} => aborted

\* What a pool thread has found is as true as what is returned, and only an
\* actor that is dead was aborted.
WaitInv ==
    /\ exiting \in [runtime : {"tasks", "threads"}, aborted : BOOLEAN, calls : [Waits -> CallType]]
    /\ exiting.aborted => phase[Waited] = "dead"
    /\ \A w \in Waits : Truthful(exiting.calls[w], Published, exiting.aborted)

\* The fields of a call are set.
LEMMA CallSet ==
    ASSUME WaitInv, NEW w \in Waits, NEW fields, Call(w, fields), UNCHANGED phase,
           Update(exiting.calls[w], fields) \in CallType,
           Truthful(Update(exiting.calls[w], fields), Published, exiting.aborted)
    PROVE  WaitInv'
  <1> DEFINE new == Update(exiting.calls[w], fields)
  <1>1. exiting' = [exiting EXCEPT !.calls = [exiting.calls EXCEPT ![w] = new]]
    BY DEF Call, WaitInv
  <1> HIDE DEF new
  <1>2. /\ exiting'.runtime = exiting.runtime /\ exiting'.aborted = exiting.aborted
        /\ exiting'.calls = [exiting.calls EXCEPT ![w] = new]
    BY <1>1 DEF WaitInv
  <1>3. \A v \in Waits : exiting'.calls[v] = IF v = w THEN new ELSE exiting.calls[v]
    BY <1>2 DEF WaitInv
  <1>4. exiting' \in [runtime : {"tasks", "threads"}, aborted : BOOLEAN, calls : [Waits -> CallType]]
    BY <1>1 DEF WaitInv, new
  <1>5. Published' = Published
    BY <1>2 DEF Published
  <1>6. Truthful(new, Published, exiting.aborted)
    BY DEF new
  <1>7. \A v \in Waits : Truthful(exiting'.calls[v], Published', exiting'.aborted)
    BY <1>2, <1>3, <1>5, <1>6 DEF WaitInv
  <1> QED
    BY <1>2, <1>4, <1>7 DEF WaitInv

\* The outcome of a wait, to the pool thread's own or to the caller.
LEMMA Finished ==
    ASSUME WaitInv, NEW w \in Waits, NEW result \in WaitResults, Finish(w, result), UNCHANGED phase,
           result = "Exited" => Published, result = "Kill" => exiting.aborted
    PROVE  WaitInv'
  <1> DEFINE c == exiting.calls[w]
  <1>1. c \in CallType /\ Truthful(c, Published, exiting.aborted)
    BY DEF WaitInv
  <1>2. CASE c.pooled
    <2> DEFINE fields == [step |-> "pooled", found |-> result]
    <2>1. Call(w, fields)
      BY <1>2 DEF Finish
    <2>2. Update(c, fields) \in CallType
      BY <1>1 DEF Update, CallType
    <2>3. Update(c, fields).found = result /\ Update(c, fields).result = c.result
      BY <1>1 DEF Update, CallType
    <2>4. Truthful(Update(c, fields), Published, exiting.aborted)
      BY <1>1, <2>3 DEF Truthful
    <2> HIDE DEF fields
    <2> QED
      BY <2>1, <2>2, <2>4, CallSet
  <1>3. CASE ~c.pooled
    <2> DEFINE fields == [step |-> "returned", result |-> result]
    <2>1. Call(w, fields)
      BY <1>3 DEF Finish, Returned
    <2>2. Update(c, fields) \in CallType
      BY <1>1 DEF Update, CallType
    <2>3. Update(c, fields).found = c.found /\ Update(c, fields).result = result
      BY <1>1 DEF Update, CallType
    <2>4. Truthful(Update(c, fields), Published, exiting.aborted)
      BY <1>1, <2>3 DEF Truthful
    <2> HIDE DEF fields
    <2> QED
      BY <2>1, <2>2, <2>4, CallSet
  <1> QED
    BY <1>2, <1>3

\* A call begins, at the check or with the answer.
LEMMA Begun ==
    ASSUME WaitInv, NEW w \in Waits, NEW timed \in BOOLEAN, NEW pooled \in BOOLEAN,
           Begin(w, timed, pooled)
    PROVE  WaitInv'
  <1> DEFINE c == exiting.calls[w]
  <1>1. c \in CallType /\ Truthful(c, Published, exiting.aborted) /\ UNCHANGED phase
    BY DEF WaitInv, Begin, lifeVars
  <1>2. CASE timed /\ Published
    <2> DEFINE fields == [step |-> "returned", result |-> "Exited", timed |-> TRUE]
    <2>1. Call(w, fields)
      BY <1>2 DEF Begin
    <2>2. /\ Update(c, fields) \in CallType
          /\ Update(c, fields).found = c.found /\ Update(c, fields).result = "Exited"
      BY <1>1 DEF Update, CallType, WaitResults
    <2>3. Truthful(Update(c, fields), Published, exiting.aborted)
      BY <1>1, <1>2, <2>2 DEF Truthful
    <2> HIDE DEF fields
    <2> QED
      BY <1>1, <2>1, <2>2, <2>3, CallSet
  <1>3. CASE ~(timed /\ Published)
    <2> DEFINE fields == [step |-> "check", timed |-> timed, pooled |-> pooled]
    <2>1. Call(w, fields)
      BY <1>3 DEF Begin
    <2>2. /\ Update(c, fields) \in CallType
          /\ Update(c, fields).found = c.found /\ Update(c, fields).result = c.result
      BY <1>1 DEF Update, CallType
    <2>3. Truthful(Update(c, fields), Published, exiting.aborted)
      BY <1>1, <2>2 DEF Truthful
    <2> HIDE DEF fields
    <2> QED
      BY <1>1, <2>1, <2>2, <2>3, CallSet
  <1> QED
    BY <1>2, <1>3

\* Every step keeps it, as long as a dead actor stays dead.
LEMMA WaitKept ==
    ASSUME WaitInv, Waited \in Actors, DOMAIN phase = Actors,
           phase[Waited] = "dead" => phase'[Waited] = "dead",
           UNCHANGED exiting \/ WaitNext \/ \E a \in Actors : CompletionGuard(a)
    PROVE  WaitInv'
  <1>0. \A w \in Waits : exiting.calls[w] \in CallType
                          /\ Truthful(exiting.calls[w], Published, exiting.aborted)
    BY DEF WaitInv
  <1>1. ASSUME NEW w \in Waits, NEW fields, Call(w, fields), UNCHANGED lifeVars,
               LET new == Update(exiting.calls[w], fields)
               IN  new \in CallType /\ Truthful(new, Published, exiting.aborted)
        PROVE  WaitInv'
    BY <1>1, CallSet DEF lifeVars
  <1>2. CASE UNCHANGED exiting
    <2>1. Published => Published'
      BY <1>2 DEF Published
    <2> QED
      BY <1>2, <2>1 DEF WaitInv, Truthful
  <1>3. ASSUME NEW a \in Actors, CompletionGuard(a) PROVE WaitInv'
    <2>1. CASE UNCHANGED exiting
      BY <1>2, <2>1
    <2>2. CASE ~UNCHANGED exiting
      <3> DEFINE calls == [w \in Waits |->
                             IF exiting.calls[w].step = "asleep"
                               THEN [exiting.calls[w] EXCEPT !.step = "check"] ELSE exiting.calls[w]]
      <3>1. exiting' = [exiting EXCEPT !.calls = calls]
        BY <1>3, <2>2 DEF CompletionGuard
      <3>2. \A w \in Waits : /\ calls[w] \in CallType /\ calls[w].found = exiting.calls[w].found
                             /\ calls[w].result = exiting.calls[w].result
        BY <1>0 DEF CallType
      <3>3. calls \in [Waits -> CallType]
        BY <3>2
      <3> HIDE DEF calls
      <3>4. /\ exiting'.calls = calls /\ exiting'.aborted = exiting.aborted
            /\ exiting' \in [runtime : {"tasks", "threads"}, aborted : BOOLEAN,
                             calls : [Waits -> CallType]]
        BY <3>1, <3>3 DEF WaitInv
      <3>5. Published => Published'
        BY <3>4 DEF Published
      <3>6. \A w \in Waits : Truthful(calls[w], Published', exiting.aborted)
        BY <1>0, <3>2, <3>5 DEF Truthful
      <3> QED
        BY <3>4, <3>6 DEF WaitInv
    <2> QED
      BY <2>1, <2>2
  <1>4. ASSUME NEW w \in Waits, NEW timed \in BOOLEAN,
               \/ WaitExitAsync(w) \/ WaitExitAsyncWithTimeout(w)
               \/ ThreadsWaitBlocking(w, timed)
        PROVE  WaitInv'
    <2>1. (exiting.runtime = "threads") \in BOOLEAN
      OBVIOUS
    <2> QED
      BY <1>4, <2>1, Begun DEF WaitExitAsync, WaitExitAsyncWithTimeout, ThreadsWaitBlocking
  <1>5. ASSUME NEW w \in Waits, NEW timed \in BOOLEAN, TasksWaitBlocking(w, timed) PROVE WaitInv'
    <2>1. CASE Begin(w, timed, FALSE)
      BY <2>1, Begun
    <2>2. CASE ~Begin(w, timed, FALSE)
      <3> DEFINE fields == [step |-> "returned", result |-> "panic"]
      <3>1. Call(w, fields) /\ UNCHANGED lifeVars
        BY <1>5, <2>2 DEF TasksWaitBlocking, Returned
      <3>2. LET new == Update(exiting.calls[w], fields)
            IN  new \in CallType /\ new.found = exiting.calls[w].found /\ new.result = "panic"
        BY <1>0 DEF Update, CallType, WaitResults
      <3>3. Truthful(Update(exiting.calls[w], fields), Published, exiting.aborted)
        BY <1>0, <3>2 DEF Truthful
      <3> HIDE DEF fields
      <3> QED
        BY <1>1, <3>1, <3>2, <3>3
    <2> QED
      BY <2>1, <2>2
  <1>6. ASSUME NEW w \in Waits, NEW fields \in {[step |-> "asleep"], [step |-> "check"]},
               Call(w, fields), UNCHANGED lifeVars
        PROVE  WaitInv'
    <2>1. LET new == Update(exiting.calls[w], fields)
          IN  /\ new \in CallType /\ new.found = exiting.calls[w].found
              /\ new.result = exiting.calls[w].result
      BY <1>0, <1>6 DEF Update, CallType
    <2>2. Truthful(Update(exiting.calls[w], fields), Published, exiting.aborted)
      BY <1>0, <2>1 DEF Truthful
    <2> QED
      BY <1>1, <1>6, <2>1, <2>2
  <1>7. ASSUME NEW w \in Waits, Look(w) \/ Changed(w) \/ WaitTimeout(w) PROVE WaitInv'
    <2>1. UNCHANGED lifeVars /\ UNCHANGED phase
      BY <1>7 DEF Look, Changed, WaitTimeout, lifeVars
    <2>2. ASSUME NEW result \in {"Exited", "Kill", "None"}, Finish(w, result),
                 result = "Exited" => Published, result = "Kill" => exiting.aborted
          PROVE  WaitInv'
      BY <2>1, <2>2, Finished DEF WaitResults
    <2>3. CASE Look(w)
      BY <1>6, <2>1, <2>2, <2>3 DEF Look
    <2>4. CASE Changed(w)
      <3>1. ~Published => exiting.aborted
        BY <2>4 DEF Changed, Published
      <3> QED
        BY <1>6, <2>1, <2>2, <2>4, <3>1 DEF Changed
    <2>5. CASE WaitTimeout(w)
      BY <2>2, <2>5 DEF WaitTimeout
    <2> QED
      BY <1>7, <2>3, <2>4, <2>5
  <1>8. ASSUME NEW w \in Waits, PoolTimeout(w) PROVE WaitInv'
    <2> DEFINE fields == [result |-> "None"]
    <2>1. Call(w, fields) /\ UNCHANGED lifeVars
      BY <1>8 DEF PoolTimeout
    <2>2. LET new == Update(exiting.calls[w], fields)
          IN  new \in CallType /\ new.found = exiting.calls[w].found /\ new.result = "None"
      BY <1>0 DEF Update, CallType, WaitResults
    <2>3. Truthful(Update(exiting.calls[w], fields), Published, exiting.aborted)
      BY <1>0, <2>2 DEF Truthful
    <2> HIDE DEF fields
    <2> QED
      BY <1>1, <2>1, <2>2, <2>3
  <1>9. ASSUME NEW w \in Waits, PoolReturns(w) PROVE WaitInv'
    <2> DEFINE c == exiting.calls[w]
               r == IF c.result = "none" THEN c.found ELSE c.result
               fields == [step |-> "returned", result |-> r]
    <2>1. Call(w, fields) /\ UNCHANGED lifeVars
      BY <1>9 DEF PoolReturns, Returned
    <2>2. r \in WaitResults /\ r \in {c.found, c.result} /\ c \in CallType
      BY <1>0 DEF CallType
    <2>3. /\ Update(c, fields) \in CallType /\ Update(c, fields).found = c.found
          /\ Update(c, fields).result = r
      <3> HIDE DEF r
      <3> QED
        BY <2>2 DEF Update, CallType
    <2>4. Truthful(Update(c, fields), Published, exiting.aborted)
      <3> HIDE DEF r, fields
      <3> QED
        BY <1>0, <2>2, <2>3 DEF Truthful
    <2> HIDE DEF fields
    <2> QED
      BY <1>1, <2>1, <2>3, <2>4
  <1>10. ASSUME NEW w \in Waits, SpuriousWakeup(w) PROVE WaitInv'
    <2> DEFINE c == exiting.calls[w]
               fields == [step |-> "check", spurious |-> c.spurious + 1]
    <2>1. Call(w, fields) /\ UNCHANGED lifeVars
      BY <1>10 DEF SpuriousWakeup
    <2>2. c \in CallType /\ c.spurious + 1 \in Nat
      BY <1>0 DEF CallType
    <2>3. /\ Update(c, fields) \in CallType /\ Update(c, fields).found = c.found
          /\ Update(c, fields).result = c.result
      BY <2>2 DEF Update, CallType
    <2>4. Truthful(Update(c, fields), Published, exiting.aborted)
      <3> HIDE DEF fields
      <3> QED
        BY <1>0, <2>3 DEF Truthful
    <2> HIDE DEF fields
    <2> QED
      BY <1>1, <2>1, <2>3, <2>4
  <1>11. CASE Abort
    <2>1. /\ exiting' = [exiting EXCEPT !.aborted = TRUE] /\ phase'[Waited] = "dead"
          /\ ~Published
      BY <1>11 DEF Abort, Published
    <2>2. /\ exiting' \in [runtime : {"tasks", "threads"}, aborted : BOOLEAN,
                           calls : [Waits -> CallType]]
          /\ exiting'.calls = exiting.calls /\ exiting'.aborted
      BY <2>1 DEF WaitInv
    <2>3. \A w \in Waits : Truthful(exiting.calls[w], Published', TRUE)
      BY <1>0, <2>1 DEF Truthful
    <2> QED
      BY <2>1, <2>2, <2>3 DEF WaitInv, Truthful
  <1> QED
    BY <1>2, <1>3, <1>4, <1>5, <1>7, <1>8, <1>9, <1>10, <1>11 DEF WaitNext, WaitStep

-----------------------------------------------------------------------------
(* The groups.                                                             *)

\* A store is a struct of four maps; the groups its index has for an actor.
IsStore(s) ==
    s = [groups |-> s.groups, remote |-> s.remote, index |-> s.index, typed |-> s.typed]
Indexed(s, a) == Entry(s.index, a, {})
NoRemotes(s) == \A h : Remotes(s, h) = {}

\* retain keeps every value that is not empty.
LEMMA Retained == \A m, k : Entry(NonEmpty(m), k, {}) = Entry(m, k, {})
  BY DEF NonEmpty, Retain, Entry, Has

\* join_scoped: one member more, in the group and in the index.
LEMMA JoinView ==
    ASSUME NEW s, IsStore(s), NEW g, NEW a, NEW t, t = JoinScoped(s, g, a)
    PROVE  /\ IsStore(t)
           /\ \A h : Locals(t, h) = IF h = g THEN Locals(s, g) \union {a} ELSE Locals(s, h)
           /\ \A b : Indexed(t, b) = IF b = a THEN Indexed(s, a) \union {g} ELSE Indexed(s, b)
           /\ \A h : TypedOf(t, h) = TypedOf(s, h) /\ Remotes(t, h) = Remotes(s, h)
           /\ DOMAIN t.groups = DOMAIN s.groups \union {g}
  <1>1. /\ IsStore(t) /\ t.groups = Joined(s.groups, g, a) /\ t.remote = s.remote
        /\ t.typed = s.typed /\ t.index = Put(s.index, a, Entry(s.index, a, {}) \union {g})
    BY DEF IsStore, JoinScoped
  <1>2. \A h : Locals(t, h) = IF h = g THEN Locals(s, g) \union {a} ELSE Locals(s, h)
    BY <1>1 DEF Locals, Joined, Put, Entry, Has
  <1>3. \A b : Indexed(t, b) = IF b = a THEN Indexed(s, a) \union {g} ELSE Indexed(s, b)
    BY <1>1 DEF Indexed, Put, Entry, Has
  <1>4. DOMAIN t.groups = DOMAIN s.groups \union {g}
    BY <1>1 DEF Joined, Put
  <1> QED
    BY <1>1, <1>2, <1>3, <1>4 DEF TypedOf, Remotes

\* typed_join: one typed member more.
LEMMA TypedView ==
    ASSUME NEW s, IsStore(s), NEW g, NEW a, NEW t, t = TypedJoin(s, g, a)
    PROVE  /\ IsStore(t) /\ t.groups = s.groups /\ t.index = s.index /\ t.remote = s.remote
           /\ \A h : TypedOf(t, h) = IF h = g THEN TypedOf(s, g) \union {a} ELSE TypedOf(s, h)
  <1>1. /\ IsStore(t) /\ t.groups = s.groups /\ t.index = s.index /\ t.remote = s.remote
        /\ t.typed = Put(s.typed, g, TypedOf(s, g) \union {a})
    BY DEF IsStore, TypedJoin
  <1>2. \A h : TypedOf(t, h) = IF h = g THEN TypedOf(s, g) \union {a} ELSE TypedOf(s, h)
    BY <1>1 DEF TypedOf, Put, Entry, Has
  <1> QED
    BY <1>1, <1>2

\* remove_group_if_empty: no member goes, and what is forgotten is about groups
\* without members.
LEMMA RemoveView ==
    ASSUME NEW s, IsStore(s), NoRemotes(s), NEW gs
    PROVE  LET t == RemoveIfEmpty(s, gs)
               gone == {h \in gs : Locals(s, h) = {}}
           IN  /\ IsStore(t) /\ NoRemotes(t)
               /\ \A h : Locals(t, h) = Locals(s, h)
               /\ \A h : TypedOf(t, h) = IF h \in gone THEN {} ELSE TypedOf(s, h)
               /\ \A b : Indexed(t, b) = Indexed(s, b) \ gone
               /\ DOMAIN t.groups = DOMAIN s.groups \ gone
  <1> DEFINE t == RemoveIfEmpty(s, gs)
             gone == {h \in gs : Locals(s, h) = {}}
  <1>1. /\ {h \in gs : Remotes(s, h) = {}} = gs
        /\ gone \intersect gs = gone
    BY DEF NoRemotes
  <1>2. t = [groups |-> DelAll(s.groups, gone), remote |-> DelAll(s.remote, gs),
             index |-> IF gone = {} THEN s.index
                       ELSE NonEmpty([a \in DOMAIN s.index |-> s.index[a] \ gone]),
             typed |-> DelAll(s.typed, gone)]
    BY <1>1 DEF RemoveIfEmpty
  <1>3. /\ IsStore(t) /\ t.groups = DelAll(s.groups, gone) /\ t.remote = DelAll(s.remote, gs)
        /\ t.typed = DelAll(s.typed, gone)
        /\ t.index = IF gone = {} THEN s.index
                     ELSE NonEmpty([a \in DOMAIN s.index |-> s.index[a] \ gone])
    BY <1>2 DEF IsStore
  <1> HIDE DEF t
  <1>4. \A h : Locals(t, h) = Locals(s, h)
    BY <1>3 DEF Locals, Entry, Has, DelAll, Empty
  <1>5. \A h : Remotes(t, h) = {}
    BY <1>3 DEF NoRemotes, Remotes, Entry, Has, DelAll, Empty
  <1>6. \A h : TypedOf(t, h) = IF h \in gone THEN {} ELSE TypedOf(s, h)
    BY <1>3 DEF TypedOf, Entry, Has, DelAll
  <1>7. \A b : Indexed(t, b) = Indexed(s, b) \ gone
    <2>1. CASE gone = {}
      BY <1>3, <2>1 DEF Indexed
    <2>2. CASE gone # {}
      <3>1. \A b : Indexed(t, b) = Entry([a \in DOMAIN s.index |-> s.index[a] \ gone], b, {})
        BY <1>3, <2>2, Retained DEF Indexed
      <3> QED
        BY <3>1 DEF Indexed, Entry, Has
    <2> QED
      BY <2>1, <2>2
  <1>8. DOMAIN t.groups = DOMAIN s.groups \ gone
    BY <1>3 DEF DelAll
  <1> QED
    BY <1>3, <1>4, <1>5, <1>6, <1>7, <1>8 DEF NoRemotes, t

-----------------------------------------------------------------------------
(* What members leave by.                                                  *)

\* A sound store: no group is empty, and the index has every group of a member.
Sound(s) ==
    /\ IsStore(s) /\ NoRemotes(s)
    /\ \A h \in DOMAIN s.groups : Locals(s, h) # {}
    /\ \A h : \A b \in Locals(s, h) : h \in Indexed(s, b)

\* Members leave: one that stays remains typed, one of those in live that leaves
\* does not.
Shrinks(s, t, live) ==
    /\ Sound(t)
    /\ \A h : Locals(t, h) \subseteq Locals(s, h) /\ TypedOf(t, h) \subseteq TypedOf(s, h)
    /\ \A h : \A b \in Locals(t, h) : b \in TypedOf(s, h) => b \in TypedOf(t, h)
    /\ \A h : \A b \in Locals(s, h) \ Locals(t, h) : b \in live => b \notin TypedOf(t, h)

\* members.remove of a key, in some groups.
LEMMA DelMemberView ==
    ASSUME NEW m, NEW gs, NEW a
    PROVE  /\ DOMAIN DelMember(m, gs, a) = DOMAIN m
           /\ \A h : DOMAIN Entry(DelMember(m, gs, a), h, Empty) =
                     DOMAIN Entry(m, h, Empty) \ {x \in {a} : h \in gs}
  BY DEF DelMember, Del, DelAll, Entry, Has, Empty

\* PgStore::remove_actor: the actor is in no group any more.
LEMMA RemoveActorView ==
    ASSUME NEW s, Sound(s), NEW a, NEW t, t = RemoveActor(s, a), NEW live
    PROVE  Shrinks(s, t, live) /\ \A h : a \notin Locals(t, h) /\ a \notin TypedOf(t, h)
  <1> DEFINE gs == Indexed(s, a)
             s1 == [groups |-> DelMember(s.groups, gs, a), remote |-> DelMember(s.remote, gs, a),
                    index |-> Del(s.index, a), typed |-> s.typed]
             out == RemoveIfEmpty(s1, gs)
             gone == {h \in gs : Locals(s1, h) = {}}
  <1>0. IsStore(s) /\ NoRemotes(s)
    BY DEF Sound
  <1>1. /\ IsStore(s1) /\ s1.groups = DelMember(s.groups, gs, a)
        /\ s1.remote = DelMember(s.remote, gs, a) /\ s1.index = Del(s.index, a)
        /\ s1.typed = s.typed
    <2> HIDE DEF gs
    <2> QED
      BY DEF IsStore
  <1>2. t = [out EXCEPT !.typed = NonEmpty([g \in DOMAIN @ |-> @[g] \ {a}])]
    BY DEF RemoveActor, Indexed
  <1> HIDE DEF s1
  <1>3. /\ \A h : Locals(s1, h) = Locals(s, h) \ {a}
        /\ \A h : Remotes(s1, h) = {} /\ TypedOf(s1, h) = TypedOf(s, h)
        /\ \A b : Indexed(s1, b) = IF b = a THEN {} ELSE Indexed(s, b)
        /\ DOMAIN s1.groups = DOMAIN s.groups
    <2>1. \A h : Locals(s1, h) = Locals(s, h) \ {x \in {a} : h \in gs}
      <3> HIDE DEF gs
      <3>1. \A h : DOMAIN Entry(DelMember(s.groups, gs, a), h, Empty) =
                   DOMAIN Entry(s.groups, h, Empty) \ {x \in {a} : h \in gs}
        BY DelMemberView
      <3> QED
        BY <1>1, <3>1 DEF Locals
    <2>2. \A h : Remotes(s1, h) = {}
      BY <1>0, <1>1, DelMemberView DEF Remotes, NoRemotes
    <2>3. \A b : Indexed(s1, b) = IF b = a THEN {} ELSE Indexed(s, b)
      BY <1>1 DEF Indexed, Del, DelAll, Entry, Has
    <2>4. DOMAIN s1.groups = DOMAIN s.groups
      BY <1>1, DelMemberView
    <2>5. \A h : TypedOf(s1, h) = TypedOf(s, h)
      BY <1>1 DEF TypedOf
    <2> QED
      BY <2>1, <2>2, <2>3, <2>4, <2>5 DEF Sound
  <1>4. /\ IsStore(out) /\ NoRemotes(out)
        /\ \A h : Locals(out, h) = Locals(s1, h)
        /\ \A h : TypedOf(out, h) = IF h \in gone THEN {} ELSE TypedOf(s1, h)
        /\ \A b : Indexed(out, b) = Indexed(s1, b) \ gone
        /\ DOMAIN out.groups = DOMAIN s1.groups \ gone
    <2>1. NoRemotes(s1)
      BY <1>3 DEF NoRemotes
    <2> QED
      BY <1>1, <2>1, RemoveView
  <1> HIDE DEF out
  <1>5. /\ IsStore(t) /\ t.groups = out.groups /\ t.remote = out.remote /\ t.index = out.index
        /\ t.typed = NonEmpty([g \in DOMAIN out.typed |-> out.typed[g] \ {a}])
    BY <1>2, <1>4 DEF IsStore
  <1>6. \A h : TypedOf(t, h) = TypedOf(out, h) \ {a}
    <2>1. \A h : TypedOf(t, h) = Entry([g \in DOMAIN out.typed |-> out.typed[g] \ {a}], h, {})
      BY <1>5, Retained DEF TypedOf
    <2> QED
      BY <2>1 DEF TypedOf, Entry, Has
  <1>7. /\ \A h : Locals(t, h) = Locals(s, h) \ {a} /\ Remotes(t, h) = {}
        /\ \A b : Indexed(t, b) = (IF b = a THEN {} ELSE Indexed(s, b)) \ gone
        /\ DOMAIN t.groups = DOMAIN s.groups \ gone
    <2>1. \A h : Locals(t, h) = Locals(s, h) \ {a}
      BY <1>3, <1>4, <1>5 DEF Locals
    <2>2. \A h : Remotes(t, h) = {}
      BY <1>4, <1>5 DEF Remotes, NoRemotes
    <2>3. \A b : Indexed(t, b) = (IF b = a THEN {} ELSE Indexed(s, b)) \ gone
      BY <1>3, <1>4, <1>5 DEF Indexed
    <2>4. DOMAIN t.groups = DOMAIN s.groups \ gone
      BY <1>3, <1>4, <1>5
    <2> QED
      BY <2>1, <2>2, <2>3, <2>4
  <1>8. /\ \A h \in gone : Locals(s, h) \ {a} = {}
        /\ \A h \in DOMAIN s.groups \ gone : Locals(s, h) \ {a} # {}
    BY <1>3 DEF Sound
  <1>9. \A h : TypedOf(t, h) = IF h \in gone THEN {} ELSE TypedOf(s, h) \ {a}
    BY <1>3, <1>4, <1>6
  <1> HIDE DEF gone, gs
  <1>10. Sound(t)
    BY <1>5, <1>7, <1>8 DEF Sound, NoRemotes
  <1> QED
    BY <1>7, <1>8, <1>9, <1>10 DEF Shrinks

\* leave_scoped: the last leave of a member takes it out, an earlier one nobody.
LEMMA LeaveView ==
    ASSUME NEW s, Sound(s), NEW g, NEW a, CanLeave(s, g, a), NEW t, t = LeaveScoped(s, g, a),
           NEW live
    PROVE  Shrinks(s, t, live)
  <1>0. IsStore(s) /\ NoRemotes(s) /\ a \in Locals(s, g)
    BY DEF Sound, CanLeave
  <1>1. CASE ~LastLeave(s, g, a)
    <2>1. /\ IsStore(t) /\ t.remote = s.remote /\ t.index = s.index /\ t.typed = s.typed
          /\ t.groups = Put(s.groups, g, Put(s.groups[g], a, s.groups[g][a] - 1))
      BY <1>0, <1>1 DEF LeaveScoped, IsStore
    <2>2. g \in DOMAIN s.groups /\ a \in DOMAIN s.groups[g]
      BY <1>0 DEF Locals, Entry, Has, Empty
    <2>3. DOMAIN t.groups = DOMAIN s.groups /\ \A h : Locals(t, h) = Locals(s, h)
      BY <2>1, <2>2 DEF Locals, Entry, Has, Put
    <2>4. /\ \A h : Remotes(t, h) = Remotes(s, h) /\ TypedOf(t, h) = TypedOf(s, h)
          /\ \A b : Indexed(t, b) = Indexed(s, b)
      BY <2>1 DEF Remotes, TypedOf, Indexed
    <2> QED
      BY <2>1, <2>3, <2>4 DEF Sound, NoRemotes, Shrinks
  <1>2. CASE LastLeave(s, g, a)
    <2> DEFINE s1 == [s EXCEPT !.groups = DelMember(@, {g}, a)]
               out == RemoveIfEmpty(s1, {g})
               gone == {h \in {g} : Locals(s1, h) = {}}
    <2>1. t = [out EXCEPT !.index = NonEmpty(IF Has(@, a) THEN Put(@, a, @[a] \ {g}) ELSE @),
                          !.typed = NonEmpty(IF Has(@, g) THEN Put(@, g, @[g] \ {a}) ELSE @)]
      BY <1>2 DEF LeaveScoped, RemoveGroupIfEmpty
    <2>2. /\ IsStore(s1) /\ s1.groups = DelMember(s.groups, {g}, a) /\ s1.remote = s.remote
          /\ s1.index = s.index /\ s1.typed = s.typed
      BY <1>0 DEF IsStore
    <2> HIDE DEF s1
    <2>3. /\ \A h : Locals(s1, h) = Locals(s, h) \ {x \in {a} : h \in {g}}
          /\ DOMAIN s1.groups = DOMAIN s.groups
      <3>1. PICK gs : gs = {g}
        OBVIOUS
      <3>2. s1.groups = DelMember(s.groups, gs, a)
        BY <2>2, <3>1
      <3>3. DOMAIN s1.groups = DOMAIN s.groups
        BY <3>2, DelMemberView
      <3>4. \A h : DOMAIN Entry(DelMember(s.groups, gs, a), h, Empty) =
                   DOMAIN Entry(s.groups, h, Empty) \ {x \in {a} : h \in gs}
        BY DEF DelMember, Del, DelAll, Entry, Has, Empty
      <3>5. \A h : Locals(s1, h) = Locals(s, h) \ {x \in {a} : h \in gs}
        BY <3>2, <3>4 DEF Locals
      <3> QED
        BY <3>1, <3>3, <3>5
    <2>4. /\ \A h : Remotes(s1, h) = {} /\ TypedOf(s1, h) = TypedOf(s, h)
          /\ \A b : Indexed(s1, b) = Indexed(s, b)
      BY <1>0, <2>2 DEF Remotes, NoRemotes, TypedOf, Indexed
    <2>5. /\ IsStore(out) /\ NoRemotes(out)
          /\ \A h : Locals(out, h) = Locals(s1, h)
          /\ \A h : TypedOf(out, h) = IF h \in gone THEN {} ELSE TypedOf(s1, h)
          /\ \A b : Indexed(out, b) = Indexed(s1, b) \ gone
          /\ DOMAIN out.groups = DOMAIN s1.groups \ gone
      <3>1. NoRemotes(s1)
        BY <2>4 DEF NoRemotes
      <3> QED
        BY <2>2, <3>1, RemoveView
    <2> HIDE DEF out
    <2>6. /\ IsStore(t) /\ t.groups = out.groups /\ t.remote = out.remote
          /\ t.index = NonEmpty(IF Has(out.index, a) THEN Put(out.index, a, out.index[a] \ {g})
                                ELSE out.index)
          /\ t.typed = NonEmpty(IF Has(out.typed, g) THEN Put(out.typed, g, out.typed[g] \ {a})
                                ELSE out.typed)
      BY <2>1, <2>5 DEF IsStore
    <2>7. \A h : TypedOf(t, h) = TypedOf(out, h) \ {x \in {a} : h \in {g}}
      <3> DEFINE m == IF Has(out.typed, g) THEN Put(out.typed, g, out.typed[g] \ {a}) ELSE out.typed
      <3>1. \A h : Entry(m, h, {}) = TypedOf(out, h) \ {x \in {a} : h \in {g}}
        BY DEF TypedOf, Entry, Has, Put
      <3> HIDE DEF m
      <3>2. \A h : TypedOf(t, h) = Entry(m, h, {})
        BY <2>6, Retained DEF TypedOf, m
      <3> QED
        BY <3>1, <3>2
    <2>8. \A b : Indexed(t, b) = Indexed(out, b) \ (IF b = a THEN {g} ELSE {})
      <3> DEFINE m == IF Has(out.index, a) THEN Put(out.index, a, out.index[a] \ {g}) ELSE out.index
      <3>1. \A b : Entry(m, b, {}) = Indexed(out, b) \ (IF b = a THEN {g} ELSE {})
        BY DEF Indexed, Entry, Has, Put
      <3> HIDE DEF m
      <3>2. \A b : Indexed(t, b) = Entry(m, b, {})
        BY <2>6, Retained DEF Indexed, m
      <3> QED
        BY <3>1, <3>2
    <2>9. /\ \A h : Locals(t, h) = Locals(s, h) \ {x \in {a} : h \in {g}}
          /\ \A h : Remotes(t, h) = {}
          /\ DOMAIN t.groups = DOMAIN s.groups \ gone
      BY <2>3, <2>5, <2>6 DEF Locals, Remotes, NoRemotes
    <2>10. /\ \A h \in gone : h = g /\ Locals(s, h) \ {a} = {}
           /\ \A h \in DOMAIN s.groups \ gone : Locals(t, h) # {}
      BY <2>3, <2>9 DEF Sound
    <2>11. \A h : TypedOf(t, h) =
                    (IF h \in gone THEN {} ELSE TypedOf(s, h)) \ {x \in {a} : h \in {g}}
      BY <2>4, <2>5, <2>7
    <2>12. \A b : Indexed(t, b) = (Indexed(s, b) \ gone) \ (IF b = a THEN {g} ELSE {})
      BY <2>4, <2>5, <2>8
    <2> HIDE DEF gone
    <2>13. Sound(t)
      <3>1. IsStore(t) /\ NoRemotes(t)
        BY Zenon, <2>6, <2>9 DEF NoRemotes
      <3>2. \A h \in DOMAIN t.groups : Locals(t, h) # {}
        BY Zenon, <2>9, <2>10
      <3>3. ASSUME NEW h, NEW b \in Locals(t, h)
            PROVE  h \in Indexed(t, b)
        <4>1. b \in Locals(s, h) /\ ~(b = a /\ h = g)
          BY <2>9
        <4>2. h \in Indexed(s, b)
          BY Zenon, <4>1 DEF Sound
        <4>3. h \notin gone
          BY <2>10, <4>1
        <4> QED
          BY <2>12, <4>1, <4>2, <4>3
      <3> QED
        BY Zenon, <3>1, <3>2, <3>3 DEF Sound
    <2> QED
      BY <2>9, <2>10, <2>11, <2>13 DEF Shrinks
  <1> QED
    BY <1>1, <1>2

\* One after the other.
LEMMA ShrinksTwice ==
    ASSUME NEW s, NEW t, NEW u, NEW live, Shrinks(s, t, live), Shrinks(t, u, live)
    PROVE  Shrinks(s, u, live)
  BY DEF Shrinks

\* remove_group_if_empty of a sound store forgets typed members at most.
LEMMA RemoveShrinks ==
    ASSUME NEW s, Sound(s), NEW gs, NEW live
    PROVE  Shrinks(s, RemoveIfEmpty(s, gs), live)
  <1> DEFINE gone == {h \in gs : Locals(s, h) = {}}
  <1>1. PICK t : t = RemoveIfEmpty(s, gs)
    OBVIOUS
  <1>2. /\ IsStore(t) /\ NoRemotes(t)
        /\ \A h : Locals(t, h) = Locals(s, h)
        /\ \A h : TypedOf(t, h) = IF h \in gone THEN {} ELSE TypedOf(s, h)
        /\ \A b : Indexed(t, b) = Indexed(s, b) \ gone
        /\ DOMAIN t.groups = DOMAIN s.groups \ gone
    BY <1>1, RemoveView DEF Sound
  <1>3. \A h \in gone : Locals(s, h) = {}
    OBVIOUS
  <1> HIDE DEF gone
  <1>4. Sound(t)
    BY <1>2, <1>3 DEF Sound
  <1>5. Shrinks(s, t, live)
    BY <1>2, <1>3, <1>4 DEF Shrinks
  <1> QED
    BY <1>1, <1>5

\* get_local_members_scoped, member_addresses_scoped: of those that live, nobody
\* goes.
LEMMA PruneView ==
    ASSUME NEW s, Sound(s), NEW g, NEW live
    PROVE  /\ Shrinks(s, GetLocalMembers(s, g, live), live)
           /\ Shrinks(s, MemberAddresses(s, g, live), live)
  <1>1. PICK t : t = GetLocalMembers(s, g, live)
    OBVIOUS
  <1>2. ASSUME ~Has(s.groups, g) PROVE Shrinks(s, t, live)
    <2>1. t = s
      BY <1>1, <1>2 DEF GetLocalMembers
    <2> QED
      BY <2>1 DEF Shrinks
  <1>3. ASSUME Has(s.groups, g) PROVE Shrinks(s, t, live)
    <2> DEFINE kept == [x \in {a \in DOMAIN s.groups[g] : a \in live} |-> s.groups[g][x]]
    <2>1. PICK s1 : s1 = [s EXCEPT !.groups = Put(@, g, kept)]
      OBVIOUS
    <2>2. t = RemoveIfEmpty(s1, {g})
      BY <1>1, <1>3, <2>1 DEF GetLocalMembers, RemoveGroupIfEmpty, Retain
    <2>3. DOMAIN kept = {a \in Locals(s, g) : a \in live}
      BY <1>3 DEF Locals, Entry
    <2> HIDE DEF kept
    <2>4. /\ IsStore(s1) /\ s1.groups = Put(s.groups, g, kept) /\ s1.remote = s.remote
          /\ s1.index = s.index /\ s1.typed = s.typed
      BY <2>1 DEF Sound, IsStore
    <2>5. /\ \A h : Locals(s1, h) = IF h = g THEN DOMAIN kept ELSE Locals(s, h)
          /\ DOMAIN s1.groups = DOMAIN s.groups
      BY <1>3, <2>4 DEF Locals, Entry, Has, Put
    <2>6. /\ \A h : Remotes(s1, h) = {} /\ TypedOf(s1, h) = TypedOf(s, h)
          /\ \A b : Indexed(s1, b) = Indexed(s, b)
      BY <2>4 DEF Remotes, TypedOf, Indexed, Sound, NoRemotes
    <2> DEFINE gone == {h \in {g} : Locals(s1, h) = {}}
    <2>7. /\ IsStore(t) /\ NoRemotes(t)
          /\ \A h : Locals(t, h) = Locals(s1, h)
          /\ \A h : TypedOf(t, h) = IF h \in gone THEN {} ELSE TypedOf(s1, h)
          /\ \A b : Indexed(t, b) = Indexed(s1, b) \ gone
          /\ DOMAIN t.groups = DOMAIN s1.groups \ gone
      <3>1. NoRemotes(s1)
        BY <2>6 DEF NoRemotes
      <3> QED
        BY <2>2, <2>4, <3>1, RemoveView
    <2>8. /\ \A h \in gone : h = g /\ Locals(t, h) = {}
          /\ \A h \in DOMAIN s.groups \ gone : Locals(t, h) # {}
      BY <2>5, <2>7 DEF Sound
    <2> HIDE DEF gone
    <2>9. Sound(t)
      BY <2>3, <2>5, <2>6, <2>7, <2>8 DEF Sound
    <2>10. /\ \A h : Locals(t, h) \subseteq Locals(s, h) /\ TypedOf(t, h) \subseteq TypedOf(s, h)
           /\ \A h : \A b \in Locals(t, h) : b \in TypedOf(s, h) => b \in TypedOf(t, h)
           /\ \A h : \A b \in Locals(s, h) \ Locals(t, h) : b \notin live
      BY <2>3, <2>5, <2>6, <2>7, <2>8
    <2> QED
      BY <2>9, <2>10 DEF Shrinks
  <1>4. Shrinks(s, t, live) /\ Sound(t)
    BY <1>2, <1>3 DEF Shrinks
  <1>5. Shrinks(t, RemoveIfEmpty(t, {g}), live)
    BY <1>4, RemoveShrinks
  <1>6. MemberAddresses(s, g, live) = RemoveIfEmpty(t, {g})
    BY <1>1 DEF MemberAddresses, RemoveGroupIfEmpty
  <1> QED
    BY <1>1, <1>4, <1>5, <1>6, ShrinksTwice

-----------------------------------------------------------------------------
(* The members and the typed members.                                      *)

Removed(a) == phase[a] \in {"removed", "dead"}

\* Between the sections of its join an actor is a member unless it has left.
GroupInv ==
    /\ Sound(pg) /\ joining = [a \in Actors |-> joining[a]]
    /\ \A a \in Actors, g \in GroupKeys :
         /\ Removed(a) /\ a \in Locals(pg, g) => <<a, g>> \in late
         /\ phase[a] # "dead" /\ a \in Locals(pg, g) => a \in TypedOf(pg, g) \/ joining[a] = g
         /\ phase[a] # "dead" /\ a \in TypedOf(pg, g) => a \in Locals(pg, g) \/ <<a, g>> \in raced
         /\ joining[a] = g => a \in Locals(pg, g) \/ <<a, g>> \in raced

\* Only a behaviour that uses groups or a pool has members.
GroupsUsed == "groups" \in use \/ "pool" \in use \/ \A g : Locals(pg, g) = {}

\* The invariant says what GroupsAgree does.
LEMMA InvAgrees == GroupInv => GroupsAgree
  BY DEF GroupInv, Removed, GroupsAgree, Live, Sound

\* The store as it was.
LEMMA SameStore ==
    ASSUME GroupInv, UNCHANGED <<pg, joining, late, raced>>,
           \A a \in Actors : phase[a] = "dead" => phase'[a] = "dead",
           \A a \in Actors, g \in GroupKeys : Removed(a)' /\ a \in Locals(pg, g) => Removed(a)
    PROVE  GroupInv'
  BY DEF GroupInv, Removed

\* Members leave it.
LEMMA MembersLeave ==
    ASSUME GroupInv, Shrinks(pg, pg', Live), UNCHANGED joining, late' = LateNow(late),
           raced' = RacedNow,
           \A a \in Actors : phase[a] = "dead" => phase'[a] = "dead",
           \A a \in Actors, g \in GroupKeys : Removed(a)' /\ a \in Locals(pg', g) => Removed(a)
    PROVE  GroupInv'
  <1>1. Sound(pg') /\ joining' = [a \in Actors |-> joining'[a]]
    BY DEF Shrinks, GroupInv
  <1> SUFFICES ASSUME NEW a \in Actors, NEW g \in GroupKeys
               PROVE  /\ Removed(a)' /\ a \in Locals(pg', g) => <<a, g>> \in late'
                      /\ phase'[a] # "dead" /\ a \in Locals(pg', g) =>
                           a \in TypedOf(pg', g) \/ joining'[a] = g
                      /\ phase'[a] # "dead" /\ a \in TypedOf(pg', g) =>
                           a \in Locals(pg', g) \/ <<a, g>> \in raced'
                      /\ joining'[a] = g => a \in Locals(pg', g) \/ <<a, g>> \in raced'
    BY <1>1 DEF GroupInv
  <1>2. /\ Locals(pg', g) \subseteq Locals(pg, g) /\ TypedOf(pg', g) \subseteq TypedOf(pg, g)
        /\ a \in Locals(pg', g) /\ a \in TypedOf(pg, g) => a \in TypedOf(pg', g)
        /\ a \in Locals(pg, g) \ Locals(pg', g) /\ phase[a] # "dead" => a \notin TypedOf(pg', g)
    BY DEF Shrinks, Live
  <1>3. /\ <<a, g>> \in late' <=> <<a, g>> \in late /\ a \in Locals(pg', g)
        /\ <<a, g>> \in raced' <=>
             /\ a \notin Locals(pg', g)
             /\ joining'[a] = g \/ (<<a, g>> \in raced /\ a \in TypedOf(pg', g))
    BY DEF LateNow, RacedNow
  <1> QED
    BY <1>2, <1>3 DEF GroupInv

\* join_scoped, the first section.
LEMMA JoinKept ==
    ASSUME GroupInv, NEW a \in Actors, NEW g \in GroupKeys, Join(a, g)
    PROVE  GroupInv'
  <1>1. /\ pg' = JoinScoped(pg, g, a) /\ joining' = [joining EXCEPT ![a] = g] /\ joining[a] = Idle
        /\ phase' = phase /\ raced' = RacedNow
        /\ late' = LateNow(IF Removed(a) THEN late \union {<<a, g>>} ELSE late)
    BY DEF Join, lifeVars, Removed
  <1>2. /\ IsStore(pg')
        /\ \A h : Locals(pg', h) = IF h = g THEN Locals(pg, g) \union {a} ELSE Locals(pg, h)
        /\ \A b : Indexed(pg', b) = IF b = a THEN Indexed(pg, a) \union {g} ELSE Indexed(pg, b)
        /\ \A h : TypedOf(pg', h) = TypedOf(pg, h) /\ Remotes(pg', h) = Remotes(pg, h)
        /\ DOMAIN pg'.groups = DOMAIN pg.groups \union {g}
    BY <1>1, JoinView DEF GroupInv, Sound
  <1>3. Sound(pg')
    BY <1>2 DEF Sound, NoRemotes, GroupInv
  <1>4. /\ joining' = [b \in Actors |-> joining'[b]]
        /\ \A b \in Actors : joining'[b] = IF b = a THEN g ELSE joining[b]
    BY <1>1 DEF GroupInv
  <1> SUFFICES ASSUME NEW b \in Actors, NEW h \in GroupKeys
               PROVE  /\ Removed(b)' /\ b \in Locals(pg', h) => <<b, h>> \in late'
                      /\ phase'[b] # "dead" /\ b \in Locals(pg', h) =>
                           b \in TypedOf(pg', h) \/ joining'[b] = h
                      /\ phase'[b] # "dead" /\ b \in TypedOf(pg', h) =>
                           b \in Locals(pg', h) \/ <<b, h>> \in raced'
                      /\ joining'[b] = h => b \in Locals(pg', h) \/ <<b, h>> \in raced'
    BY <1>3, <1>4 DEF GroupInv
  <1>5. Removed(b)' = Removed(b)
    BY <1>1 DEF Removed
  <1>6. /\ b \in Locals(pg', h) <=> b \in Locals(pg, h) \/ (b = a /\ h = g)
        /\ TypedOf(pg', h) = TypedOf(pg, h)
    BY <1>2
  <1>7. <<b, h>> \in late /\ b \in Locals(pg', h) => <<b, h>> \in late'
    BY <1>1 DEF LateNow
  <1>8. Removed(a) => <<a, g>> \in late'
    BY <1>1, <1>2 DEF LateNow
  <1>9. <<b, h>> \in raced' <=>
          /\ b \notin Locals(pg', h)
          /\ joining'[b] = h \/ (<<b, h>> \in raced /\ b \in TypedOf(pg', h))
    BY <1>1 DEF RacedNow
  <1>10. joining[a] # h
    BY <1>1, GroupKeysAssumption
  <1> QED
    BY <1>1, <1>4, <1>5, <1>6, <1>7, <1>8, <1>9, <1>10 DEF GroupInv

\* typed_join, the second.
LEMMA TypedKept ==
    ASSUME GroupInv, NEW a \in Actors, JoinTyped(a)
    PROVE  GroupInv'
  <1>1. PICK g : g = joining[a]
    OBVIOUS
  <1>2. /\ pg' = TypedJoin(pg, g, a) /\ joining' = [joining EXCEPT ![a] = Idle]
        /\ phase' = phase /\ raced' = RacedNow /\ late' = LateNow(late)
    BY <1>1 DEF JoinTyped, lifeVars
  <1>3. /\ IsStore(pg') /\ pg'.groups = pg.groups /\ pg'.index = pg.index /\ pg'.remote = pg.remote
        /\ \A h : TypedOf(pg', h) = IF h = g THEN TypedOf(pg, g) \union {a} ELSE TypedOf(pg, h)
    BY <1>2, TypedView DEF GroupInv, Sound
  <1>4. /\ \A h : Locals(pg', h) = Locals(pg, h) /\ Remotes(pg', h) = Remotes(pg, h)
        /\ \A b : Indexed(pg', b) = Indexed(pg, b)
    BY <1>3 DEF Locals, Remotes, Indexed
  <1>5. Sound(pg')
    BY <1>3, <1>4 DEF Sound, NoRemotes, GroupInv
  <1>6. /\ joining' = [b \in Actors |-> joining'[b]]
        /\ \A b \in Actors : joining'[b] = IF b = a THEN Idle ELSE joining[b]
    BY <1>2 DEF GroupInv
  <1> SUFFICES ASSUME NEW b \in Actors, NEW h \in GroupKeys
               PROVE  /\ Removed(b)' /\ b \in Locals(pg', h) => <<b, h>> \in late'
                      /\ phase'[b] # "dead" /\ b \in Locals(pg', h) =>
                           b \in TypedOf(pg', h) \/ joining'[b] = h
                      /\ phase'[b] # "dead" /\ b \in TypedOf(pg', h) =>
                           b \in Locals(pg', h) \/ <<b, h>> \in raced'
                      /\ joining'[b] = h => b \in Locals(pg', h) \/ <<b, h>> \in raced'
    BY <1>5, <1>6 DEF GroupInv
  <1>7. Removed(b)' = Removed(b)
    BY <1>2 DEF Removed
  <1>8. <<b, h>> \in late /\ b \in Locals(pg', h) => <<b, h>> \in late'
    BY <1>2 DEF LateNow
  <1>9. <<b, h>> \in raced' <=>
          /\ b \notin Locals(pg', h)
          /\ joining'[b] = h \/ (<<b, h>> \in raced /\ b \in TypedOf(pg', h))
    BY <1>2 DEF RacedNow
  <1>10. /\ Locals(pg', h) = Locals(pg, h)
         /\ b \in TypedOf(pg', h) <=> b \in TypedOf(pg, h) \/ (b = a /\ h = g)
    BY <1>3, <1>4
  <1>11. Idle # h
    BY GroupKeysAssumption
  <1> QED
    BY <1>1, <1>2, <1>6, <1>7, <1>8, <1>9, <1>10, <1>11 DEF GroupInv

\* Every step of the store, and of an actor on its way out, keeps it.
LEMMA GroupKept ==
    ASSUME GroupInv, GroupsUsed, UNCHANGED use,
           \A a \in Actors : phase[a] = "dead" => phase'[a] = "dead",
           \/ GroupNext
           \/ \E a \in Actors : ExitRemoves(a)
           \/ /\ UNCHANGED groupVars
              /\ \A a \in Actors, g \in GroupKeys : Removed(a)' /\ a \in Locals(pg, g) => Removed(a)
    PROVE  GroupInv' /\ GroupsUsed'
  <1>1. ASSUME Shrinks(pg, pg', Live) PROVE GroupsUsed'
    BY <1>1 DEF Shrinks, GroupsUsed
  <1>2. ASSUME UNCHANGED <<pg, joining, late, raced>>,
               \A a \in Actors, g \in GroupKeys : Removed(a)' /\ a \in Locals(pg, g) => Removed(a)
        PROVE  GroupInv' /\ GroupsUsed'
    BY <1>2, SameStore DEF GroupsUsed
  <1>3. ASSUME NEW a \in Actors, NEW g \in GroupKeys, Join(a, g)
        PROVE  GroupInv' /\ GroupsUsed'
    BY <1>3, JoinKept DEF Join, GroupsUsed
  <1>4. ASSUME NEW a \in Actors, NEW g \in GroupKeys, LeaveGroup(a, g)
        PROVE  GroupInv' /\ GroupsUsed'
    <2>1. Shrinks(pg, pg', Live)
      BY <1>4, LeaveView DEF LeaveGroup, GroupInv
    <2>2. /\ UNCHANGED <<joining, phase>> /\ late' = LateNow(late) /\ raced' = RacedNow
      BY <1>4 DEF LeaveGroup, lifeVars
    <2>3. \A b \in Actors : Removed(b)' => Removed(b)
      BY <2>2 DEF Removed
    <2> QED
      BY <1>1, <2>1, <2>2, <2>3, MembersLeave
  <1>5. ASSUME NEW a \in Actors, JoinTyped(a) PROVE GroupInv' /\ GroupsUsed'
    <2>1. \A h : Locals(pg', h) = Locals(pg, h)
      BY <1>5, TypedView DEF JoinTyped, GroupInv, Sound, Locals
    <2> QED
      BY <1>5, <2>1, TypedKept DEF GroupsUsed
  <1>6. ASSUME NEW g \in GroupKeys, Query(g) PROVE GroupInv' /\ GroupsUsed'
    <2>1. Shrinks(pg, pg', Live)
      BY <1>6, PruneView DEF Query, GroupInv
    <2>2. /\ UNCHANGED <<joining, phase>> /\ late' = LateNow(late) /\ raced' = RacedNow
      BY <1>6 DEF Query, lifeVars
    <2>3. \A b \in Actors : Removed(b)' => Removed(b)
      BY <2>2 DEF Removed
    <2> QED
      BY <1>1, <2>1, <2>2, <2>3, MembersLeave
  <1>7. ASSUME NEW a \in Actors, ExitRemoves(a) PROVE GroupInv' /\ GroupsUsed'
    <2>1. Shrinks(pg, pg', Live) /\ \A h : a \notin Locals(pg', h)
      BY <1>7, RemoveActorView DEF ExitRemoves, GroupInv
    <2>2. /\ UNCHANGED joining /\ late' = LateNow(late) /\ raced' = RacedNow
          /\ phase' = [phase EXCEPT ![a] = "removed"]
      BY <1>7 DEF ExitRemoves, RemoveFromGroups
    <2>3. \A b \in Actors : b # a /\ Removed(b)' => Removed(b)
      BY <2>2 DEF Removed
    <2> QED
      BY <1>1, <2>1, <2>2, <2>3, MembersLeave
  <1>8. ASSUME UNCHANGED <<pg, joining, late, raced, phase>> PROVE GroupInv' /\ GroupsUsed'
    BY <1>2, <1>8 DEF Removed
  <1>9. ASSUME NEW a \in Actors, SendToMember(a) PROVE GroupInv' /\ GroupsUsed'
    BY <1>8, <1>9 DEF SendToMember
  <1>10. ASSUME Answered \/ Returns PROVE GroupInv' /\ GroupsUsed'
    BY <1>8, <1>10 DEF Answered, Returns, lifeVars
  <1>11. ASSUME NEW g \in GroupKeys, CastScoped(g) \/ CallScoped(g) PROVE GroupInv' /\ GroupsUsed'
    BY <1>8, <1>11 DEF CastScoped, CallScoped, Broadcast, lifeVars
  <1>12. ASSUME NEW g \in GroupKeys, NEW s, Dispatch(g, s) PROVE GroupInv' /\ GroupsUsed'
    BY <1>8, <1>12 DEF Dispatch, lifeVars
  <1>13. CASE UNCHANGED groupVars /\ \A a \in Actors, g \in GroupKeys :
                                       Removed(a)' /\ a \in Locals(pg, g) => Removed(a)
    BY <1>2, <1>13 DEF groupVars
  <1> QED
    BY <1>3, <1>4, <1>5, <1>6, <1>7, <1>9, <1>10, <1>11, <1>12, <1>13 DEF GroupNext, ThreadsJoin,
       ThreadsLeaveGroup, ThreadsCastScoped, ThreadsCallScoped, ThreadsDispatch, Sending
=============================================================================
