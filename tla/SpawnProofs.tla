---------------------------- MODULE SpawnProofs ----------------------------
(***************************************************************************)
(* Children on other nodes: every step of RemoteSpawn keeps the invariant  *)
(* of the placements.  The lemmas of PlacementProofs say what becomes of   *)
(* one parent, of one node and of the events; here a step is taken apart   *)
(* into them.                                                              *)
(***************************************************************************)
EXTENDS RemoteSpawn, PlacementProofs

ParentsInv == par = [p \in Parents |-> par[p]] /\ \A p \in Parents : ParentOK(p, par[p], kids)

\* Whoever waits for a number has a child of that number.
WaitsInv ==
    /\ waits = [k \in DOMAIN waits |-> waits[k]]
    /\ \A k \in DOMAIN waits : /\ waits[k] \in Parents /\ par[waits[k]].child = k
                               /\ Started(par[waits[k]])

NodesInv ==
    /\ kids = [n \in Placements |-> kids[n]] /\ far = [n \in Placements |-> far[n]]
    /\ \A p \in Parents : NodeOK(p, kids[NodeOf[p]], far[NodeOf[p]])

PlacedInv == ParentsInv /\ WaitsInv /\ NodesInv /\ IsNet(net, SpawnEvents(kids))

\* The instances of a parent and its requests under way are at most its attempts.
CountInv == \A p \in Parents : CountOK(p, par[p].attempt, kids[NodeOf[p]], net)

\* The exit of a dead instance that its parent counts on is on its way.
ReportInv ==
    "ChildExit" \notin lost => \A p \in Parents : \A k \in Numbers(kids, p) :
        Told(kids[NodeOf[p]], k) /\ Counts(par[p], k) => Coming(p, k, far[NodeOf[p]], net, par[p])

ChildrenInv == PlacedInv /\ CountInv /\ ReportInv

-----------------------------------------------------------------------------
(* Steps at home.                                                          *)

\* The parents forget nothing.
ParentsKept ==
    par' = [p \in Parents |-> par'[p]] /\ \A p \in Parents : KeptParent(p, par[p], par'[p], kids)

WaitsKept ==
    /\ waits' = [k \in DOMAIN waits' |-> waits'[k]]
    /\ \A k \in DOMAIN waits' :
         \/ k \in DOMAIN waits /\ waits'[k] = waits[k]
         \/ waits'[k] \in Parents /\ par[waits'[k]].child = k /\ Started(par[waits'[k]])

\* An exit is on its way still, or has come.
ExitsFound ==
    \A p \in Parents : \A k :
        Carries(net, {ExitOf(p, k)}) => Carries(net', {ExitOf(p, k)}) \/ Heard(p, k, par'[p])

\* What the lemmas need of the invariant.
LEMMA ChildrenAre ==
    ASSUME ChildrenInv
    PROVE  /\ PlacedInv /\ CountInv /\ ReportInv /\ IsNet(net, SpawnEvents(kids))
           /\ par = [p \in Parents |-> par[p]]
           /\ kids = [n \in Placements |-> kids[n]] /\ far = [n \in Placements |-> far[n]]
           /\ \A p \in Parents :
                /\ ParentOK(p, par[p], kids) /\ NodeOK(p, kids[NodeOf[p]], far[NodeOf[p]])
                /\ CountOK(p, par[p].attempt, kids[NodeOf[p]], net)
                /\ par[p].attempt \in Nat /\ Len(kids[NodeOf[p]]) \in Nat /\ NodeOf[p] \in Placements
  <1>1. /\ ParentsInv /\ NodesInv /\ CountInv /\ IsNet(net, SpawnEvents(kids))
        /\ PlacedInv /\ ReportInv
    BY DEF ChildrenInv, PlacedInv
  <1>2. ASSUME NEW p \in Parents
        PROVE  par[p].attempt \in Nat /\ Len(kids[NodeOf[p]]) \in Nat /\ NodeOf[p] \in Placements
    <2>1. par[p] \in ParentType /\ kids[NodeOf[p]] \in Seq(KidType)
      BY <1>1 DEF ParentsInv, NodesInv, ParentOK, NodeOK
    <2>2. par[p].attempt \in Nat
      BY <2>1 DEF ParentType
    <2>3. Len(kids[NodeOf[p]]) \in Nat
      BY <2>1
    <2> QED
      BY <2>2, <2>3 DEF Placements
  <1> QED
    BY <1>1, <1>2 DEF ParentsInv, NodesInv, CountInv

\* A step of the parents, and of what is on its way.
LEMMA HomeKept ==
    ASSUME ChildrenInv, UNCHANGED kids, NodesInv', ParentsKept, WaitsKept,
           \A p \in Parents : far'[NodeOf[p]].exits = far[NodeOf[p]].exits,
           IsNet(net', SpawnEvents(kids)),
           "ChildExit" \notin lost' => "ChildExit" \notin lost /\ ExitsFound
    PROVE  PlacedInv' /\ ReportInv'
  <1>1. PlacedInv /\ ReportInv /\ WaitsInv
    BY DEF ChildrenInv, PlacedInv
  <1>2. ParentsInv'
    BY DEF ParentsKept, KeptParent, ParentsInv
  <1>3. ASSUME NEW k \in DOMAIN waits'
        PROVE  waits'[k] \in Parents /\ par'[waits'[k]].child = k /\ Started(par'[waits'[k]])
    <2>1. waits'[k] \in Parents /\ par[waits'[k]].child = k /\ Started(par[waits'[k]])
      BY <1>1, <1>3 DEF WaitsInv, WaitsKept
    <2> QED
      BY <2>1 DEF ParentsKept, KeptParent
  <1>4. WaitsInv'
    BY <1>3 DEF WaitsInv, WaitsKept
  <1>5. PlacedInv'
    BY <1>2, <1>4 DEF PlacedInv
  <1>6. ASSUME "ChildExit" \notin lost', NEW p \in Parents, NEW k \in Numbers(kids, p),
               Told(kids[NodeOf[p]], k), Counts(par'[p], k)
        PROVE  Coming(p, k, far'[NodeOf[p]], net', par'[p])
    <2>1. Counts(par[p], k) /\ (Heard(p, k, par[p]) => Heard(p, k, par'[p]))
      BY <1>6 DEF ParentsKept, KeptParent
    <2>2. Coming(p, k, far[NodeOf[p]], net, par[p])
      BY <1>1, <1>6, <2>1 DEF ReportInv
    <2>3. Queued(far[NodeOf[p]], k) => Queued(far'[NodeOf[p]], k)
      BY DEF Queued
    <2>4. Carries(net, {ExitOf(p, k)}) => Carries(net', {ExitOf(p, k)}) \/ Heard(p, k, par'[p])
      BY <1>6 DEF ExitsFound
    <2> QED
      BY <2>1, <2>2, <2>3, <2>4 DEF Coming
  <1>7. ReportInv'
    BY <1>6 DEF ReportInv
  <1> QED
    BY <1>5, <1>7

\* No request is added.
LEMMA CalmCounted ==
    ASSUME ChildrenInv, CalmNet(kids),
           \A p \in Parents : /\ par'[p].attempt = par[p].attempt
                              /\ Len(kids'[NodeOf[p]]) = Len(kids[NodeOf[p]])
    PROVE  CountInv'
  <1> SUFFICES ASSUME NEW p \in Parents
               PROVE  CountOK(p, par'[p].attempt, kids'[NodeOf[p]], net')
    BY DEF CountInv
  <1>1. PICK a, s, t : a = par[p].attempt /\ s = kids[NodeOf[p]] /\ t = kids'[NodeOf[p]]
    OBVIOUS
  <1>2. a \in Nat /\ CountOK(p, a, s, net) /\ Len(t) = Len(s) /\ Len(s) \in Nat
    BY <1>1, ChildrenAre
  <1>3. CountOK(p, a, t, net')
    BY <1>2, CalmCount
  <1> QED
    BY <1>1, <1>3

\* One parent changes, the others do not.
LEMMA OneParentKept ==
    ASSUME ChildrenInv, NEW p \in Parents, NEW m, par' = [par EXCEPT ![p] = m],
           KeptParent(p, par[p], m, kids), UNCHANGED <<waits, kids, far>>
    PROVE  /\ ParentsKept /\ WaitsKept /\ NodesInv' /\ par'[p] = m
           /\ \A q \in Parents : q # p => par'[q] = par[q]
           /\ \A q \in Parents : far'[NodeOf[q]].exits = far[NodeOf[q]].exits
  <1>1. /\ par' = [q \in Parents |-> par'[q]] /\ par'[p] = m
        /\ \A q \in Parents : q # p => par'[q] = par[q]
    BY ChildrenAre
  <1>2. \A q \in Parents : ParentOK(q, par[q], kids)
    BY ChildrenAre
  <1>3. ParentsKept
    BY <1>1, <1>2 DEF ParentsKept, KeptParent
  <1>4. WaitsKept /\ NodesInv'
    BY DEF ChildrenInv, PlacedInv, WaitsInv, NodesInv, WaitsKept
  <1> QED
    BY <1>1, <1>3, <1>4

\* A step of one parent that makes no attempt.
LEMMA ParentSteps ==
    ASSUME ChildrenInv, NEW p \in Parents, NEW m, par' = [par EXCEPT ![p] = m],
           KeptParent(p, par[p], m, kids), m.attempt = par[p].attempt,
           UNCHANGED <<waits, kids, far, lost>>, CalmNet(kids), ExitsKept
    PROVE  ChildrenInv'
  <1>1. /\ ParentsKept /\ WaitsKept /\ NodesInv' /\ par'[p] = m
        /\ \A q \in Parents : q # p => par'[q] = par[q]
        /\ \A q \in Parents : far'[NodeOf[q]].exits = far[NodeOf[q]].exits
    BY OneParentKept
  <1>2. IsNet(net', SpawnEvents(kids)) /\ ExitsFound
    BY DEF CalmNet, ExitsKept, ExitsFound
  <1>3. PlacedInv' /\ ReportInv'
    BY <1>1, <1>2, HomeKept
  <1>4. \A q \in Parents : /\ par'[q].attempt = par[q].attempt
                           /\ Len(kids'[NodeOf[q]]) = Len(kids[NodeOf[q]])
    BY <1>1
  <1>5. CountInv'
    BY <1>4, CalmCounted
  <1> QED
    BY <1>3, <1>5 DEF ChildrenInv

\* A step of one parent that makes its next attempt.
LEMMA AttemptSteps ==
    ASSUME ChildrenInv, NEW p \in Parents, NEW m, par' = [par EXCEPT ![p] = m],
           KeptParent(p, par[p], m, kids), NEW b \in Nat, m.attempt = b, b = par[p].attempt + 1,
           b <= MaxAttempts, UNCHANGED <<waits, kids, far, lost>>,
           Publish(<<SpawnRequest(p, b)>>) \/ Resend(p, <<SpawnRequest(p, b)>>)
    PROVE  ChildrenInv'
  <1>1. /\ ParentsKept /\ WaitsKept /\ NodesInv' /\ par'[p] = m
        /\ \A q \in Parents : q # p => par'[q] = par[q]
        /\ \A q \in Parents : far'[NodeOf[q]].exits = far[NodeOf[q]].exits
    BY OneParentKept
  <1>2. /\ IsNet(net, SpawnEvents(kids)) /\ par[p].attempt \in Nat
        /\ \A q \in Parents : /\ CountOK(q, par[q].attempt, kids[NodeOf[q]], net)
                              /\ par[q].attempt \in Nat /\ Len(kids[NodeOf[q]]) \in Nat
    BY ChildrenAre
  <1>3. PICK c, s : c = par[p].attempt /\ s = kids[NodeOf[p]]
    OBVIOUS
  <1>4. /\ IsNet(net', SpawnEvents(kids)) /\ ExitsKept /\ CountOK(p, b, s, net')
        /\ \A q \in Parents, a \in Nat : \A r :
             q # p /\ CountOK(q, a, r, net) /\ Len(r) \in Nat => CountOK(q, a, r, net')
    <2>1. c \in Nat /\ b = c + 1 /\ Len(s) \in Nat /\ CountOK(p, c, s, net)
      BY <1>2, <1>3
    <2> QED
      BY <1>2, <2>1, AttemptMade
  <1>5. ExitsFound
    BY <1>4 DEF ExitsKept, ExitsFound
  <1>6. PlacedInv' /\ ReportInv'
    BY <1>1, <1>4, <1>5, HomeKept
  <1>7. CountInv'
    BY <1>1, <1>2, <1>3, <1>4 DEF CountInv
  <1> QED
    BY <1>6, <1>7 DEF ChildrenInv

-----------------------------------------------------------------------------
(* The request.                                                            *)

\* A first SpawnRequest is attempt 1, and there is no other on its way.
LEMMA RequestKept ==
    ASSUME ChildrenInv, NEW p \in Parents, RequestSpawn(p)
    PROVE  ChildrenInv'
  <1>1. ParentOK(p, par[p], kids) /\ par = [q \in Parents |-> par[q]]
    BY ChildrenAre
  <1>2. PICK m : m = [par[p] EXCEPT !.step = "request", !.attempt = 1]
    OBVIOUS
  <1>3. par[p].step = "idle" /\ UNCHANGED <<waits, kids, far, lost>> /\ Publish(<<SpawnRequest(p, 1)>>)
    BY DEF RequestSpawn, Publish
  <1>4. par' = [par EXCEPT ![p] = m]
    BY <1>1, <1>2 DEF RequestSpawn
  <1>5. KeptParent(p, par[p], m, kids) /\ m.attempt = 1 /\ par[p].attempt = 0
    BY <1>1, <1>2, <1>3, Requests
  <1>6. 1 <= MaxAttempts /\ 1 = par[p].attempt + 1
    BY <1>5, AttemptsAssumption
  <1> QED
    BY <1>3, <1>4, <1>5, <1>6, AttemptSteps

\* request_spawn_with_retry: the next attempt, or none.
LEMMA RetryKept ==
    ASSUME ChildrenInv, NEW p \in Parents, RetrySpawn(p)
    PROVE  ChildrenInv'
  <1>1. /\ ParentOK(p, par[p], kids) /\ par = [q \in Parents |-> par[q]]
        /\ par[p].attempt \in Nat /\ IsNet(net, SpawnEvents(kids))
    BY ChildrenAre
  <1>2. par[p].step = "request" /\ UNCHANGED <<waits, kids, far>>
    BY DEF RetrySpawn
  <1>3. CASE par[p].attempt < MaxAttempts
    <2>1. PICK b \in Nat : b = par[p].attempt + 1
      BY <1>1
    <2>2. PICK m : m = [par[p] EXCEPT !.attempt = b]
      OBVIOUS
    <2>3. par' = [par EXCEPT ![p] = m] /\ Resend(p, <<SpawnRequest(p, b)>>)
      BY <1>1, <1>3, <2>1, <2>2 DEF RetrySpawn
    <2>4. KeptParent(p, par[p], m, kids) /\ m.attempt = b
      BY <1>1, <1>2, <2>2, Retries
    <2>5. b <= MaxAttempts
      BY <1>1, <1>3, <2>1, AttemptsAssumption
    <2>6. UNCHANGED lost
      BY <2>3 DEF Resend
    <2> QED
      BY <1>2, <2>1, <2>3, <2>4, <2>5, <2>6, AttemptSteps
  <1>4. CASE ~(par[p].attempt < MaxAttempts)
    <2>1. PICK m : m = [par[p] EXCEPT !.step = "failed"]
      OBVIOUS
    <2>2. par' = [par EXCEPT ![p] = m] /\ Resend(p, <<>>)
      BY <1>1, <1>4, <2>1 DEF RetrySpawn
    <2>3. KeptParent(p, par[p], m, kids) /\ m.attempt = par[p].attempt
      BY <1>1, <1>2, <2>1, Fails
    <2>4. UNCHANGED lost /\ CalmNet(kids) /\ ExitsKept
      BY <1>1, <2>2, CalmSteps DEF Resend
    <2> QED
      BY <1>2, <2>2, <2>3, <2>4, ParentSteps
  <1> QED
    BY <1>3, <1>4

\* The answer: the child it names is an instance of the parent.
LEMMA AnswerKept ==
    ASSUME ChildrenInv, NEW p \in Parents, NEW i \in Places, SpawnAnswer(p, i)
    PROVE  ChildrenInv'
  <1>1. /\ ParentOK(p, par[p], kids) /\ par = [q \in Parents |-> par[q]]
        /\ IsNet(net, SpawnEvents(kids))
    BY ChildrenAre
  <1>2. /\ par[p].step = "request" /\ UNCHANGED <<waits, kids, far>> /\ Exchange(i, <<>>)
        /\ Takes(p, "SpawnReply", i)
    BY DEF SpawnAnswer
  <1>3. At(i) \in SpawnEvents(kids) /\ At(i).kind = "SpawnReply" /\ At(i).link[2] = p
    BY <1>1, <1>2, Took DEF Takes
  <1>4. net' = Without(i) /\ UNCHANGED lost
    BY <1>2, NotPublished DEF Exchange
  <1>5. CalmNet(kids) /\ ExitsKept
    BY <1>1, <1>3, <1>4, CalmSteps
  <1>6. PICK q \in Parents : \E k \in Numbers(kids, q) \union {None} : At(i) = ReplyOf(q, k)
    BY <1>3, SpawnEventIs
  <1>7. PICK k \in Numbers(kids, q) \union {None} : At(i) = ReplyOf(q, k)
    BY <1>6
  <1>8. q = p /\ At(i).body = k
    BY <1>3, <1>7 DEF ReplyOf, Event
  <1>9. PICK m : /\ par' = [par EXCEPT ![p] = m]
                 /\ \/ m = [par[p] EXCEPT !.step = "failed"]
                    \/ k # None /\ m = [par[p] EXCEPT !.step = "up", !.child = k]
    BY <1>1, <1>8 DEF SpawnAnswer
  <1>10. KeptParent(p, par[p], m, kids) /\ m.attempt = par[p].attempt
    <2>1. CASE m = [par[p] EXCEPT !.step = "failed"]
      BY <1>1, <1>2, <2>1, Fails
    <2>2. CASE k # None /\ m = [par[p] EXCEPT !.step = "up", !.child = k]
      <3>1. PICK g : g = par[p]
        OBVIOUS
      <3>2. /\ ParentOK(p, g, kids) /\ g.step = "request" /\ k \in Numbers(kids, p)
            /\ m = [g EXCEPT !.step = "up", !.child = k]
        BY <1>1, <1>2, <1>7, <1>8, <2>2, <3>1
      <3>3. KeptParent(p, g, m, kids) /\ m.attempt = g.attempt
        BY <3>2, Answers
      <3> QED
        BY <3>1, <3>3
    <2> QED
      BY <1>9, <2>1, <2>2
  <1> QED
    BY <1>2, <1>4, <1>5, <1>9, <1>10, ParentSteps

-----------------------------------------------------------------------------
(* Home.                                                                   *)

\* A parent that goes on with its shutdown, and signals its child.
LEMMA SignalKept ==
    ASSUME ChildrenInv, NEW p \in Parents, RemoteSignal(p) \/ Escalate(p) \/ ThreadsEscalate(p)
    PROVE  ChildrenInv'
  <1>1. /\ ParentOK(p, par[p], kids) /\ par = [q \in Parents |-> par[q]]
        /\ IsNet(net, SpawnEvents(kids))
    BY ChildrenAre
  <1>2. par[p].child \in Nat
    BY <1>1 DEF ParentOK, ParentType
  <1>3. PICK s \in {"Kill", "Shutdown"} : Publish(<<Signal(p, s)>>)
    BY DEF RemoteSignal, Escalate, ThreadsEscalate
  <1>4. Signal(p, s) \in SpawnEvents(kids) /\ Signal(p, s).kind = "Signal"
    <2>1. PICK b \in Nat \X {"Kill", "Shutdown"} : b = <<par[p].child, s>>
      BY <1>2
    <2>2. Signal(p, s) = SignalOf(p, b)
      BY <2>1 DEF Signal, SignalOf
    <2> QED
      BY <2>2, SpawnEventsAre DEF SignalOf, Event
  <1>5. CalmNet(kids) /\ ExitsKept /\ UNCHANGED lost
    BY <1>1, <1>3, <1>4, CalmSteps DEF Publish
  <1>6. Started(par[p]) /\ UNCHANGED <<waits, kids, far>>
    BY DEF RemoteSignal, Escalate, ThreadsEscalate, Started
  <1>7. PICK x \in {"wait", "clear", "killed"} : par' = [par EXCEPT ![p].step = x]
    BY DEF RemoteSignal, Escalate, ThreadsEscalate
  <1>8. PICK m : m = [par[p] EXCEPT !.step = x]
    OBVIOUS
  <1>9. par' = [par EXCEPT ![p] = m]
    BY <1>1, <1>7, <1>8
  <1>10. KeptParent(p, par[p], m, kids) /\ m.attempt = par[p].attempt
    BY <1>1, <1>6, <1>8, Goes
  <1> QED
    BY <1>5, <1>6, <1>9, <1>10, ParentSteps

\* The parent handles an exit of its mailbox.
LEMMA HandleKept ==
    ASSUME ChildrenInv, NEW p \in Parents, HandleExit(p)
    PROVE  ChildrenInv'
  <1>1. /\ ParentOK(p, par[p], kids) /\ par = [q \in Parents |-> par[q]]
        /\ IsNet(net, SpawnEvents(kids))
    BY ChildrenAre
  <1>2. /\ par[p].step \in {"up", "failed"} /\ par[p].exits # <<>>
        /\ UNCHANGED <<net, lost, waits, kids, far>>
    BY DEF HandleExit, netVars
  <1>3. PICK m : m = Handled(p, par[p])
    OBVIOUS
  <1>4. par' = [par EXCEPT ![p] = m]
    BY <1>1, <1>3 DEF HandleExit, Handled
  <1>5. KeptParent(p, par[p], m, kids) /\ m.attempt = par[p].attempt
    BY <1>1, <1>2, <1>3, Handles
  <1>6. CalmNet(kids) /\ ExitsKept
    BY <1>1, <1>2, CalmSteps
  <1> QED
    BY <1>2, <1>4, <1>5, <1>6, ParentSteps

\* Dropped: a receiver fails, nothing else of a parent changes.
LEMMA DroppedView ==
    ASSUME ChildrenInv, NEW k, NEW f, f = Dropped(k, par)
    PROVE  /\ f = [q \in Parents |-> f[q]]
           /\ \A q \in Parents : KeptParent(q, par[q], f[q], kids) /\ f[q].attempt = par[q].attempt
  <1>1. /\ f = [q \in Parents |-> f[q]]
        /\ \A q \in Parents : f[q] = par[q] \/ f[q] = [par[q] EXCEPT !.rx = "dropped"]
    BY DEF Dropped
  <1>2. ASSUME NEW q \in Parents
        PROVE  KeptParent(q, par[q], f[q], kids) /\ f[q].attempt = par[q].attempt
    <2>1. PICK m, w : m = par[q] /\ w = f[q]
      OBVIOUS
    <2>2. ParentOK(q, m, kids) /\ (w = m \/ w = [m EXCEPT !.rx = "dropped"])
      BY <1>1, <2>1, ChildrenAre
    <2>3. CASE w = m
      BY <2>1, <2>2, <2>3 DEF KeptParent
    <2>4. CASE w = [m EXCEPT !.rx = "dropped"]
      <3>1. KeptParent(q, m, w, kids) /\ w.attempt = m.attempt
        BY <2>2, <2>4, Receives
      <3> QED
        BY <2>1, <3>1
    <2> QED
      BY <2>2, <2>3, <2>4
  <1> QED
    BY <1>1, <1>2

\* One of the parents f goes on to m.
LEMMA MovedKept ==
    ASSUME ChildrenInv, NEW p \in Parents, NEW f, NEW m,
           f = [q \in Parents |-> f[q]],
           \A q \in Parents : KeptParent(q, par[q], f[q], kids) /\ f[q].attempt = par[q].attempt,
           KeptParent(p, f[p], m, kids), m.attempt = f[p].attempt, par' = [f EXCEPT ![p] = m]
    PROVE  ParentsKept /\ \A q \in Parents : par'[q].attempt = par[q].attempt
  <1>1. /\ par' = [q \in Parents |-> par'[q]] /\ par'[p] = m
        /\ \A q \in Parents : q # p => par'[q] = f[q]
    OBVIOUS
  <1>2. KeptParent(p, par[p], m, kids)
    BY KeptTwice
  <1> QED
    BY <1>1, <1>2 DEF ParentsKept

\* The steps of a shutdown that register a wait or clear it.
WaitSteps(p) == ShutdownRemoteAndWait(p) \/ Reregister(p) \/ WaitEnds(p) \/ KillGrace(p)

\* The waits of a shutdown are registered, fired and dropped as the children end.
LEMMA WaitStepsKept ==
    ASSUME ChildrenInv, NEW p \in Parents, WaitSteps(p)
    PROVE  ChildrenInv'
  <1>1. Started(par[p]) /\ UNCHANGED <<net, lost, kids, far>>
    BY DEF WaitSteps, ShutdownRemoteAndWait, Reregister, WaitEnds, KillGrace, Return, Started, netVars
  <1>2. PICK f : f = Dropped(par[p].child, par)
    OBVIOUS
  <1>3. /\ f = [q \in Parents |-> f[q]]
        /\ \A q \in Parents : KeptParent(q, par[q], f[q], kids) /\ f[q].attempt = par[q].attempt
    BY <1>2, DroppedView
  <1>4. PICK g : g = f[p]
    OBVIOUS
  <1>5. /\ ParentOK(p, g, kids) /\ Started(g) /\ g.child = par[p].child
        /\ ParentOK(p, par[p], kids) /\ IsNet(net, SpawnEvents(kids))
    BY <1>1, <1>3, <1>4, ChildrenAre DEF KeptParent
  <1>6. ASSUME NEW m, KeptParent(p, g, m, kids), m.attempt = g.attempt, par' = [f EXCEPT ![p] = m]
        PROVE  ParentsKept /\ \A q \in Parents : par'[q].attempt = par[q].attempt
    BY <1>3, <1>4, <1>6, MovedKept
  <1>7. ParentsKept /\ WaitsKept /\ \A q \in Parents : par'[q].attempt = par[q].attempt
    <2>1. CASE ShutdownRemoteAndWait(p) \/ Reregister(p)
      <3>1. PICK x \in {"signal", "killed"} : Register(p, x)
        BY <2>1 DEF ShutdownRemoteAndWait, Reregister
      <3>2. PICK m : m = Waiting(g, x)
        OBVIOUS
      <3>3. par' = [f EXCEPT ![p] = m] /\ waits' = Put(waits, par[p].child, p)
        BY <1>2, <1>3, <1>4, <3>1, <3>2 DEF Register, Waiting
      <3>4. KeptParent(p, g, m, kids) /\ m.attempt = g.attempt
        BY <1>5, <3>2, Registers
      <3>5. WaitsKept
        BY <1>1, <3>3 DEF Put, WaitsKept
      <3> QED
        BY <1>6, <3>3, <3>4, <3>5
    <2>2. CASE WaitEnds(p) \/ KillGrace(p)
      <3>1. PICK r \in {"Ok", "Interrupted", "Timeout"} :
                   Return(p, r) /\ (r = "Ok" => par[p].rx = "fired")
        BY <2>2 DEF WaitEnds, KillGrace
      <3>2. PICK m : m = Returned(g, r)
        OBVIOUS
      <3>3. par' = [f EXCEPT ![p] = m] /\ waits' = Del(waits, par[p].child)
        BY <1>2, <1>3, <1>4, <3>1, <3>2 DEF Return, Returned
      <3>4. r = "Ok" => \E q \in Parents : g.child \in DeadOf(kids, q)
        BY <1>5, <3>1 DEF ParentOK
      <3>5. KeptParent(p, g, m, kids) /\ m.attempt = g.attempt
        BY <1>5, <3>2, <3>4, Returns
      <3>6. WaitsKept
        BY <3>3 DEF Del, DelAll, WaitsKept
      <3> QED
        BY <1>6, <3>3, <3>5, <3>6
    <2> QED
      BY <2>1, <2>2 DEF WaitSteps
  <1>8. NodesInv' /\ \A q \in Parents : far'[NodeOf[q]].exits = far[NodeOf[q]].exits
    BY <1>1 DEF ChildrenInv, PlacedInv, NodesInv
  <1>9. IsNet(net', SpawnEvents(kids)) /\ CalmNet(kids) /\ ExitsFound
    BY <1>1, <1>5, CalmSteps DEF ExitsFound
  <1>10. PlacedInv' /\ ReportInv'
    BY <1>1, <1>7, <1>8, <1>9, HomeKept
  <1>11. CountInv'
    BY <1>1, <1>7, <1>9, CalmCounted
  <1> QED
    BY <1>10, <1>11 DEF ChildrenInv

\* Whoever waits for the number of a dead instance is told.
LEMMA CompleteView ==
    ASSUME ChildrenInv, NEW p \in Parents, NEW k \in DeadOf(kids, p), NEW f, f = Complete(waits, k)
    PROVE  /\ f = [q \in Parents |-> f[q]]
           /\ \A q \in Parents : /\ KeptParent(q, par[q], f[q], kids) /\ f[q].attempt = par[q].attempt
                                 /\ f[q].exits = par[q].exits
  <1>1. WaitsInv
    BY DEF ChildrenInv, PlacedInv
  <1>2. /\ f = [q \in Parents |-> f[q]]
        /\ \A q \in Parents : \/ f[q] = par[q]
                              \/ /\ par[q].child = k /\ Started(par[q])
                                 /\ f[q] = [par[q] EXCEPT !.rx = "fired"]
    BY <1>1 DEF Complete, WaitsInv
  <1>3. ASSUME NEW q \in Parents
        PROVE  /\ KeptParent(q, par[q], f[q], kids) /\ f[q].attempt = par[q].attempt
               /\ f[q].exits = par[q].exits
    <2>1. PICK m, w : m = par[q] /\ w = f[q]
      OBVIOUS
    <2>2. /\ ParentOK(q, m, kids)
          /\ w = m \/ (m.child = k /\ Started(m) /\ w = [m EXCEPT !.rx = "fired"])
      BY <1>2, <2>1, ChildrenAre
    <2>3. CASE w = m
      BY <2>1, <2>2, <2>3 DEF KeptParent
    <2>4. CASE m.child = k /\ Started(m) /\ w = [m EXCEPT !.rx = "fired"]
      <3>1. \E o \in Parents : m.child \in DeadOf(kids, o)
        BY <2>4
      <3>2. KeptParent(q, m, w, kids) /\ w.attempt = m.attempt /\ w.exits = m.exits
        BY <2>2, <2>4, <3>1, Receives
      <3> QED
        BY <2>1, <3>2
    <2> QED
      BY <2>2, <2>3, <2>4
  <1> QED
    BY <1>2, <1>3

\* apply_child_exit: the exit of a dead instance goes to the mailbox of its
\* parent.
LEMMA ChildExitKept ==
    ASSUME ChildrenInv, NEW i \in Places, ApplyChildExit(i)
    PROVE  ChildrenInv'
  <1>1. IsNet(net, SpawnEvents(kids)) /\ UNCHANGED <<kids, far>> /\ Exchange(i, <<>>)
    BY ChildrenAre DEF ApplyChildExit
  <1>2. At(i) \in SpawnEvents(kids) /\ At(i).kind = "ChildExit"
    BY <1>1, Took DEF ApplyChildExit, Takes
  <1>3. PICK p \in Parents : \E k \in DeadOf(kids, p) : At(i) = ExitOf(p, k)
    BY <1>2, SpawnEventIs
  <1>4. PICK k \in DeadOf(kids, p) : At(i) = ExitOf(p, k)
    BY <1>3
  <1>5. At(i).body[1] = p /\ At(i).body[2] = k /\ At(i).link[1] = NodeOf[p] /\ k \in Nat
    BY <1>4 DEF ExitOf, Event, DeadOf, Numbers
  <1>6. PICK f : f = Complete(waits, k)
    OBVIOUS
  <1>7. /\ f = [q \in Parents |-> f[q]]
        /\ \A q \in Parents : /\ KeptParent(q, par[q], f[q], kids) /\ f[q].attempt = par[q].attempt
                              /\ f[q].exits = par[q].exits
    BY <1>6, CompleteView
  <1>8. PICK g, m : g = f[p] /\ m = Hearing(p, g, k)
    OBVIOUS
  <1>9. par' = [f EXCEPT ![p] = m] /\ waits' = Del(waits, k)
    BY <1>5, <1>6, <1>7, <1>8 DEF ApplyChildExit, Hearing
  <1>10. KeptParent(p, g, m, kids) /\ m.attempt = g.attempt /\ Heard(p, k, m)
    <2>1. ParentOK(p, g, kids)
      BY <1>7, <1>8 DEF KeptParent
    <2>2. m = Hearing(p, g, k) /\ k \in Nat
      BY <1>5, <1>8
    <2> QED
      BY <2>1, <2>2, Hears
  <1>11. ParentsKept /\ \A q \in Parents : par'[q].attempt = par[q].attempt
    <2>1. KeptParent(p, f[p], m, kids) /\ m.attempt = f[p].attempt
      BY <1>8, <1>10
    <2>2. \A q \in Parents : KeptParent(q, par[q], f[q], kids) /\ f[q].attempt = par[q].attempt
      BY <1>7
    <2> QED
      BY <1>7, <1>9, <2>1, <2>2, MovedKept
  <1>12. WaitsKept
    BY <1>9 DEF Del, DelAll, WaitsKept
  <1>13. net' = Without(i) /\ UNCHANGED lost
    BY <1>1, NotPublished DEF Exchange
  <1>14. CalmNet(kids)
    BY <1>1, <1>13, CalmSteps
  <1>15. ASSUME NEW q \in Parents, NEW j, Carries(net, {ExitOf(q, j)})
         PROVE  Carries(net', {ExitOf(q, j)}) \/ Heard(q, j, par'[q])
    <2>1. CASE q = p /\ j = k
      BY <1>7, <1>9, <1>10, <2>1
    <2>2. CASE ~(q = p /\ j = k)
      <3>1. ExitOf(q, j).body = <<q, j>> /\ ExitOf(p, k).body = <<p, k>>
        BY DEF ExitOf, Event
      <3>2. PICK T : T = {ExitOf(q, j)}
        OBVIOUS
      <3>3. At(i) \notin T /\ Carries(net, T)
        BY <1>4, <1>15, <2>2, <3>1, <3>2
      <3>4. Carries(net', T)
        BY <1>1, <1>13, <3>3, Took
      <3> QED
        BY <3>2, <3>4
    <2> QED
      BY <2>1, <2>2
  <1>16. ExitsFound /\ IsNet(net', SpawnEvents(kids))
    BY <1>14, <1>15 DEF ExitsFound, CalmNet
  <1>17. NodesInv' /\ \A q \in Parents : far'[NodeOf[q]].exits = far[NodeOf[q]].exits
    BY <1>1 DEF ChildrenInv, PlacedInv, NodesInv
  <1>18. PlacedInv' /\ ReportInv'
    BY <1>1, <1>11, <1>12, <1>13, <1>16, <1>17, HomeKept
  <1>19. CountInv'
    BY <1>1, <1>11, <1>14, CalmCounted
  <1> QED
    BY <1>18, <1>19 DEF ChildrenInv

\* An event is lost.
LEMMA LoseKept ==
    ASSUME ChildrenInv, NEW i \in Places, Lose(i), UNCHANGED spawnVars
    PROVE  ChildrenInv'
  <1>1. UNCHANGED <<par, waits, kids, far>> /\ net' = Without(i) /\ lost' = lost \union {At(i).kind}
    BY NotPublished DEF spawnVars, Lose
  <1>2. CalmNet(kids) /\ (At(i).kind # "ChildExit" => ExitsKept)
    BY <1>1, ChildrenAre, CalmSteps
  <1>3. "ChildExit" \notin lost' => "ChildExit" \notin lost /\ ExitsFound
    BY <1>1, <1>2 DEF ExitsKept, ExitsFound
  <1>4. \A q \in Parents : KeptParent(q, par[q], par[q], kids)
    BY ChildrenAre DEF KeptParent
  <1>5. ParentsKept /\ WaitsKept /\ NodesInv'
    BY <1>1, <1>4 DEF ParentsKept, WaitsKept, ChildrenInv, PlacedInv, ParentsInv, WaitsInv, NodesInv
  <1>6. PlacedInv' /\ ReportInv'
    BY <1>1, <1>2, <1>3, <1>5, HomeKept DEF CalmNet
  <1>7. CountInv'
    BY <1>1, <1>2, CalmCounted
  <1> QED
    BY <1>6, <1>7 DEF ChildrenInv

-----------------------------------------------------------------------------
(* Steps of a node.                                                        *)

\* Where the deaths told to the broker are, when s becomes t and f becomes g.
ToldKept(p, s, f, t, g) ==
    \A j \in 1..Len(t) : Told(t, j) =>
        \/ Queued(g, j)
        \/ /\ j \in 1..Len(s) /\ Told(s, j)
           /\ Queued(f, j) => Queued(g, j) \/ Carries(net', {ExitOf(p, j)})

\* A step of one node, its broker included, that reports no exit it had not to.
LEMMA NodeStepKept ==
    ASSUME ChildrenInv, NEW p \in Parents, NEW t, NEW g, UNCHANGED <<par, waits, lost>>,
           kids' = [kids EXCEPT ![NodeOf[p]] = t], far' = [far EXCEPT ![NodeOf[p]] = g],
           NodeOK(p, t, g), Longer(kids[NodeOf[p]], t),
           ToldKept(p, kids[NodeOf[p]], far[NodeOf[p]], t, g),
           IsNet(net', SpawnEvents(kids)), ExitsKept
    PROVE  /\ PlacedInv' /\ ReportInv' /\ kids'[NodeOf[p]] = t
           /\ \A q \in Parents : q # p => kids'[NodeOf[q]] = kids[NodeOf[q]]
  <1>1. NodesInv /\ ParentsInv /\ WaitsInv /\ ReportInv
    BY DEF ChildrenInv, PlacedInv
  <1>2. \A q \in Parents : NodeOf[q] \in Placements /\ (q # p => NodeOf[q] # NodeOf[p])
    BY PlacementAssumption DEF Placements
  <1>3. /\ kids' = [n \in Placements |-> kids'[n]] /\ far' = [n \in Placements |-> far'[n]]
        /\ kids'[NodeOf[p]] = t /\ far'[NodeOf[p]] = g
    BY <1>1, <1>2 DEF NodesInv
  <1>4. ASSUME NEW q \in Parents, q # p
        PROVE  kids'[NodeOf[q]] = kids[NodeOf[q]] /\ far'[NodeOf[q]] = far[NodeOf[q]]
    BY <1>1, <1>2, <1>4 DEF NodesInv
  <1>5. NodesInv'
    BY <1>1, <1>3, <1>4 DEF NodesInv
  <1>6. Older(kids, kids')
    <2> SUFFICES ASSUME NEW q \in Parents
                 PROVE  /\ Numbers(kids, q) \subseteq Numbers(kids', q)
                        /\ DeadOf(kids, q) \subseteq DeadOf(kids', q)
      BY DEF Older
    <2>1. CASE q = p
      BY <1>3, <2>1 DEF Numbers, DeadOf, Longer
    <2>2. CASE q # p
      BY <1>4, <2>2 DEF Numbers, DeadOf
    <2> QED
      BY <2>1, <2>2
  <1>7. ParentsInv' /\ WaitsInv' /\ IsNet(net', SpawnEvents(kids'))
    BY <1>1, <1>6, ParentGrows, EventsGrow DEF ParentsInv, WaitsInv
  <1>8. PlacedInv'
    BY <1>5, <1>7 DEF PlacedInv
  <1>9. ASSUME "ChildExit" \notin lost, NEW q \in Parents, NEW k \in Numbers(kids', q),
               Told(kids'[NodeOf[q]], k), Counts(par[q], k)
        PROVE  Coming(q, k, far'[NodeOf[q]], net', par[q])
    <2>1. Carries(net, {ExitOf(q, k)}) => Carries(net', {ExitOf(q, k)})
      BY DEF ExitsKept
    <2>2. CASE q # p
      <3>1. k \in Numbers(kids, q) /\ Told(kids[NodeOf[q]], k)
        BY <1>4, <1>9, <2>2 DEF Numbers
      <3>2. Coming(q, k, far[NodeOf[q]], net, par[q])
        BY <1>1, <1>9, <3>1 DEF ReportInv
      <3> QED
        BY <1>4, <2>1, <2>2, <3>2 DEF Coming
    <2>3. CASE q = p
      <3>1. k \in 1..Len(t) /\ Told(t, k)
        BY <1>3, <1>9, <2>3 DEF Numbers
      <3>2. CASE Queued(g, k)
        BY <1>3, <2>3, <3>2 DEF Coming
      <3>3. CASE ~Queued(g, k)
        <4>1. /\ k \in Numbers(kids, p) /\ Told(kids[NodeOf[p]], k)
              /\ Queued(far[NodeOf[p]], k) => Carries(net', {ExitOf(p, k)})
          BY <3>1, <3>3 DEF Numbers, ToldKept
        <4>2. Coming(p, k, far[NodeOf[p]], net, par[p])
          BY <1>1, <1>9, <2>3, <4>1 DEF ReportInv
        <4> QED
          BY <2>1, <2>3, <4>1, <4>2 DEF Coming
      <3> QED
        BY <3>2, <3>3
    <2> QED
      BY <2>2, <2>3
  <1>10. ReportInv'
    BY <1>9 DEF ReportInv
  <1> QED
    BY <1>3, <1>4, <1>8, <1>10

\* A step of a node that adds no instance.
LEMMA NodeSteps ==
    ASSUME ChildrenInv, NEW p \in Parents, NEW t, NEW g, UNCHANGED <<par, waits, lost>>,
           kids' = [kids EXCEPT ![NodeOf[p]] = t], far' = [far EXCEPT ![NodeOf[p]] = g],
           NodeOK(p, t, g), Longer(kids[NodeOf[p]], t), Len(t) = Len(kids[NodeOf[p]]),
           ToldKept(p, kids[NodeOf[p]], far[NodeOf[p]], t, g), CalmNet(kids), ExitsKept
    PROVE  ChildrenInv'
  <1>1. IsNet(net', SpawnEvents(kids))
    BY DEF CalmNet
  <1>2. /\ PlacedInv' /\ ReportInv' /\ kids'[NodeOf[p]] = t
        /\ \A q \in Parents : q # p => kids'[NodeOf[q]] = kids[NodeOf[q]]
    BY <1>1, NodeStepKept
  <1>3. \A q \in Parents : /\ par'[q].attempt = par[q].attempt
                           /\ Len(kids'[NodeOf[q]]) = Len(kids[NodeOf[q]])
    BY <1>2
  <1>4. CountInv'
    BY <1>3, CalmCounted
  <1> QED
    BY <1>2, <1>4 DEF ChildrenInv

\* A node answers a request once, with the number of the child, or not at all.
LEMMA ReplyView ==
    ASSUME NEW p, NEW a, NEW k
    PROVE  \/ Reply(NodeOf[p], p, a, k) = <<>>
           \/ Reply(NodeOf[p], p, a, k) = <<ReplyOf(p, k)>>
  BY DEF Reply, ReplyOf

\* A request that is taken is one of the parent of the node.
LEMMA RequestTaken ==
    ASSUME ChildrenInv, NEW n, NEW i \in Places, Takes(n, "SpawnRequest", i)
    PROVE  /\ At(i).kind # "ChildExit"
           /\ \E p \in Parents, a \in Nat : /\ n = NodeOf[p] /\ At(i) = SpawnRequest(p, a)
                                            /\ At(i).body[1] = p /\ At(i).body[2] = a
  <1>1. IsNet(net, SpawnEvents(kids))
    BY ChildrenAre
  <1>2. At(i) \in SpawnEvents(kids) /\ At(i).kind = "SpawnRequest" /\ At(i).link[2] = n
    BY <1>1, Took DEF Takes
  <1>3. PICK p \in Parents, a \in Nat : At(i) = SpawnRequest(p, a)
    BY <1>2, SpawnEventIs
  <1>4. n = NodeOf[p] /\ At(i).body[1] = p /\ At(i).body[2] = a
    BY <1>2, <1>3 DEF SpawnRequest, Event
  <1> QED
    BY <1>2, <1>3, <1>4

\* apply_spawn refuses: the parent may be answered.
LEMMA SpawnFailsKept ==
    ASSUME ChildrenInv, NEW n \in Placements, NEW i \in Places, ApplySpawnFails(n, i)
    PROVE  ChildrenInv'
  <1>1. Takes(n, "SpawnRequest", i) /\ UNCHANGED <<par, waits, kids, far>>
    BY DEF ApplySpawnFails, spawnVars
  <1>2. PICK p \in Parents, a \in Nat : /\ n = NodeOf[p] /\ At(i) = SpawnRequest(p, a)
                                        /\ At(i).body[1] = p /\ At(i).body[2] = a
    BY <1>1, RequestTaken
  <1>3. Exchange(i, Reply(NodeOf[p], p, a, None)) /\ UNCHANGED lost
    BY <1>2 DEF ApplySpawnFails, Exchange
  <1>4. net' = Without(i) \/ Exchange(i, <<ReplyOf(p, None)>>)
    BY <1>3, NotPublished, ReplyView
  <1>5. ReplyOf(p, None) \in SpawnEvents(kids) /\ ReplyOf(p, None).kind = "SpawnReply"
    BY SpawnEventsAre DEF ReplyOf, Event
  <1>6. CalmNet(kids) /\ ExitsKept
    BY <1>1, <1>4, <1>5, ChildrenAre, RequestTaken, CalmSteps
  <1>7. PICK m : m = par[p]
    OBVIOUS
  <1>8. KeptParent(p, par[p], m, kids) /\ par' = [par EXCEPT ![p] = m]
    BY <1>1, <1>7, ChildrenAre DEF KeptParent
  <1> QED
    BY <1>1, <1>3, <1>6, <1>7, <1>8, ParentSteps

\* apply_spawn: one more instance of the parent that asked.
LEMMA SpawnKept ==
    ASSUME ChildrenInv, NEW n \in Placements, NEW i \in Places, ApplySpawn(n, i)
    PROVE  ChildrenInv'
  <1>1. Takes(n, "SpawnRequest", i) /\ UNCHANGED <<par, waits>> /\ Exchange(i, <<>>)
    BY DEF ApplySpawn
  <1>2. PICK p \in Parents, a \in Nat : /\ n = NodeOf[p] /\ At(i) = SpawnRequest(p, a)
                                        /\ At(i).body[1] = p /\ At(i).body[2] = a
    BY <1>1, RequestTaken
  <1>3. net' = Without(i) /\ UNCHANGED lost
    BY <1>1, NotPublished DEF Exchange
  <1>4. CalmNet(kids) /\ ExitsKept
    BY <1>1, <1>3, ChildrenAre, RequestTaken, CalmSteps
  <1>5. PICK s, f, t, g : /\ s = kids[n] /\ f = far[n] /\ t = Spawned(s, p)
                          /\ g = Serving(f, p, a)
    OBVIOUS
  <1>6. kids' = [kids EXCEPT ![n] = t] /\ far' = [far EXCEPT ![n] = g]
    BY <1>2, <1>5, ChildrenAre DEF ApplySpawn
  <1>7. /\ NodeOK(p, t, g) /\ Longer(s, t) /\ Len(t) = Len(s) + 1 /\ Len(s) \in Nat
        /\ g.exits = f.exits /\ \A j \in 1..Len(t) : Told(t, j) => j \in 1..Len(s) /\ Told(s, j)
    <2>1. NodeOK(p, s, f)
      BY <1>2, <1>5, ChildrenAre
    <2>2. t = Spawned(s, p) /\ g = Serving(f, p, a)
      BY <1>5
    <2>3. NodeOK(p, t, g) /\ Longer(s, t)
      BY <2>1, <2>2, SpawnedOK
    <2>6. g.exits = f.exits
      BY <2>1, <2>2 DEF NodeOK, IsBroker, Serving
    <2>4. Len(t) = Len(s) + 1 /\ Len(s) \in Nat
      BY <2>1, <2>2, SpawnedOK
    <2>5. \A j \in 1..Len(t) : Told(t, j) => j \in 1..Len(s) /\ Told(s, j)
      BY <2>1, <2>2, SpawnedOK
    <2> QED
      BY <2>3, <2>4, <2>5, <2>6
  <1>8. ToldKept(p, s, f, t, g)
    BY <1>7 DEF ToldKept, Queued
  <1>9. IsNet(net', SpawnEvents(kids))
    BY <1>4 DEF CalmNet
  <1>10. /\ PlacedInv' /\ ReportInv' /\ kids'[NodeOf[p]] = t
         /\ \A q \in Parents : q # p => kids'[NodeOf[q]] = kids[NodeOf[q]]
    <2>1. /\ kids' = [kids EXCEPT ![NodeOf[p]] = t] /\ far' = [far EXCEPT ![NodeOf[p]] = g]
          /\ NodeOK(p, t, g) /\ Longer(kids[NodeOf[p]], t)
          /\ ToldKept(p, kids[NodeOf[p]], far[NodeOf[p]], t, g)
      BY <1>2, <1>5, <1>6, <1>7, <1>8
    <2> QED
      BY <1>1, <1>3, <1>4, <1>9, <2>1, NodeStepKept
  <1>11. ASSUME NEW q \in Parents PROVE CountOK(q, par'[q].attempt, kids'[NodeOf[q]], net')
    <2>1. PICK c, r : c = par[q].attempt /\ r = kids[NodeOf[q]]
      OBVIOUS
    <2>2. c \in Nat /\ CountOK(q, c, r, net) /\ Len(r) \in Nat
      BY <2>1, ChildrenAre
    <2>3. CASE q # p
      <3>1. CountOK(q, c, r, net')
        BY <1>4, <2>2, CalmCount
      <3> QED
        BY <1>1, <1>10, <2>1, <2>3, <3>1
    <2>4. CASE q = p
      <3>1. r = s
        BY <1>2, <1>5, <2>1, <2>4
      <3>2. Alone(net, {SpawnRequest(p, a)}) /\ Carries(net, {SpawnRequest(p, a)})
        <4>1. IsNet(net, SpawnEvents(kids)) /\ At(i) \in {SpawnRequest(p, a)}
          BY <1>2, ChildrenAre
        <4>2. Carries(net, {SpawnRequest(p, a)})
          BY <4>1, Took
        <4> QED
          BY <2>2, <2>4, <4>2 DEF CountOK
      <3>3. ~Carries(net', {SpawnRequest(p, a)})
        <4>1. PICK T : T = {SpawnRequest(p, a)}
          OBVIOUS
        <4>2. At(i) \in T /\ Alone(net, T) /\ IsNet(net, SpawnEvents(kids))
          BY <1>2, <3>2, <4>1, ChildrenAre
        <4>3. ~Carries(net', T)
          BY <1>3, <4>2, Took
        <4> QED
          BY <4>1, <4>3
      <3>4. CountOK(p, c, t, net')
        BY <1>4, <1>7, <2>2, <2>4, <3>1, <3>2, <3>3, AttemptServed
      <3> QED
        BY <1>1, <1>10, <2>1, <2>4, <3>4
    <2> QED
      BY <2>3, <2>4
  <1> QED
    BY <1>10, <1>11 DEF ChildrenInv, CountInv

\* The child is registered, its parent noted, and SpawnOk sent.
LEMMA ServeKept ==
    ASSUME ChildrenInv, NEW p \in Parents, ServeRegister(NodeOf[p]) \/ ServeReply(NodeOf[p])
    PROVE  ChildrenInv'
  <1>1. PICK n, s, f : n = NodeOf[p] /\ s = kids[n] /\ f = far[n]
    OBVIOUS
  <1>2. /\ NodeOK(p, s, f) /\ IsNet(net, SpawnEvents(kids)) /\ kids = [kids EXCEPT ![n] = s]
    BY <1>1, ChildrenAre
  <1>3. f.serving # <<>> /\ UNCHANGED <<par, waits, kids, lost>>
    BY <1>1 DEF ServeRegister, ServeReply, Publish, netVars
  <1>4. f.serving[2] = p /\ Len(s) \in Numbers(kids, p)
    <2>1. s \in Seq(KidType) /\ Len(s) > 0 /\ f.serving[2] = p
      BY <1>2, <1>3 DEF NodeOK
    <2>2. Len(s) \in 1..Len(s)
      BY <2>1
    <2> QED
      BY <1>1, <2>1, <2>2 DEF Numbers
  <1>5. PICK g : far' = [far EXCEPT ![n] = g] /\ NodeOK(p, s, g) /\ g.exits = f.exits
    <2>1. CASE ServeRegister(n)
      <3>1. PICK g : g = Registered(f, Len(s))
        OBVIOUS
      <3>2. NodeOK(p, s, g) /\ g.exits = f.exits
        BY <1>2, <1>3, <3>1, RegisteredOK
      <3> QED
        BY <1>1, <2>1, <3>1, <3>2 DEF ServeRegister
    <2>2. CASE ServeReply(n)
      <3>1. PICK g : g = Noted(f, Len(s))
        OBVIOUS
      <3>2. NodeOK(p, s, g) /\ g.exits = f.exits
        BY <1>2, <1>3, <3>1, NotedOK
      <3> QED
        BY <1>1, <2>2, <3>1, <3>2 DEF ServeReply
    <2> QED
      BY <1>1, <2>1, <2>2
  <1>6. CalmNet(kids) /\ ExitsKept
    <2>1. CASE ServeRegister(n)
      BY <1>2, <2>1, CalmSteps DEF ServeRegister, netVars
    <2>2. CASE ServeReply(n)
      <3>1. Publish(Reply(NodeOf[p], p, f.serving[3], Len(s)))
        BY <1>1, <1>4, <2>2 DEF ServeReply
      <3>2. net' = net \/ Publish(<<ReplyOf(p, Len(s))>>)
        BY <3>1, ReplyView, NotPublished
      <3>3. ReplyOf(p, Len(s)) \in SpawnEvents(kids) /\ ReplyOf(p, Len(s)).kind = "SpawnReply"
        BY <1>4, SpawnEventsAre DEF ReplyOf, Event
      <3> QED
        BY <1>2, <3>2, <3>3, CalmSteps
    <2> QED
      BY <1>1, <2>1, <2>2
  <1>7. ToldKept(p, s, f, s, g)
    BY <1>5 DEF ToldKept, Queued
  <1>8. /\ kids' = [kids EXCEPT ![NodeOf[p]] = s] /\ far' = [far EXCEPT ![NodeOf[p]] = g]
        /\ NodeOK(p, s, g) /\ Longer(kids[NodeOf[p]], s) /\ Len(s) = Len(kids[NodeOf[p]])
        /\ ToldKept(p, kids[NodeOf[p]], far[NodeOf[p]], s, g)
    BY <1>1, <1>2, <1>3, <1>5, <1>7, LongerSelf
  <1> QED
    BY <1>3, <1>6, <1>8, NodeSteps

\* A child ends; its broker hears of it, or ends with it.
LEMMA DiesKept ==
    ASSUME ChildrenInv, NEW p \in Parents, NEW k, NEW reason, KidDies(NodeOf[p], k, reason)
    PROVE  ChildrenInv'
  <1>1. PICK n, s, f : n = NodeOf[p] /\ s = kids[n] /\ f = far[n]
    OBVIOUS
  <1>2. PICK t, g : t = Ended(s, f, k, reason) /\ g = Notified(f, k, reason)
    OBVIOUS
  <1>3. NodeOK(p, s, f) /\ IsNet(net, SpawnEvents(kids))
    BY <1>1, ChildrenAre
  <1>4. k \in DOMAIN s /\ UNCHANGED <<net, lost, par, waits>>
    BY <1>1 DEF KidDies, netVars
  <1>5. kids' = [kids EXCEPT ![n] = t] /\ far' = [far EXCEPT ![n] = g]
    BY <1>1, <1>2 DEF KidDies
  <1>6. NodeOK(p, t, g) /\ Longer(s, t) /\ Len(t) = Len(s)
    BY <1>2, <1>3, <1>4, EndedOK
  <1>7. \A j \in 1..Len(t) : Told(t, j) => Queued(g, j) \/ (Told(s, j) /\ ~Queued(f, j))
    BY <1>2, <1>3, <1>4, EndedOK
  <1>8. ToldKept(p, s, f, t, g)
    BY <1>6, <1>7 DEF ToldKept
  <1>9. CalmNet(kids) /\ ExitsKept
    BY <1>3, <1>4, CalmSteps
  <1>10. /\ kids' = [kids EXCEPT ![NodeOf[p]] = t] /\ far' = [far EXCEPT ![NodeOf[p]] = g]
         /\ Longer(kids[NodeOf[p]], t) /\ Len(t) = Len(kids[NodeOf[p]])
         /\ ToldKept(p, kids[NodeOf[p]], far[NodeOf[p]], t, g)
    BY <1>1, <1>5, <1>6, <1>8
  <1> QED
    BY <1>4, <1>6, <1>9, <1>10, NodeSteps

\* The broker handles an exit: a child with a parent is reported to it.
LEMMA PropagateKept ==
    ASSUME ChildrenInv, NEW p \in Parents, PropagateChildExit(NodeOf[p])
    PROVE  ChildrenInv'
  <1>1. PICK n, s, f, k : n = NodeOf[p] /\ s = kids[n] /\ f = far[n] /\ k = Head(f.exits)
    OBVIOUS
  <1>2. PICK t, g : t = Unreported(s, f) /\ g = Propagated(f)
    OBVIOUS
  <1>3. NodeOK(p, s, f) /\ IsNet(net, SpawnEvents(kids))
    BY <1>1, ChildrenAre
  <1>4. f.exits # <<>> /\ UNCHANGED <<lost, par, waits>>
    BY <1>1 DEF PropagateChildExit, Publish
  <1>5. kids' = [kids EXCEPT ![n] = t] /\ far' = [far EXCEPT ![n] = g]
    BY <1>1, <1>2 DEF PropagateChildExit
  <1>6. NodeOK(p, t, g) /\ Longer(s, t) /\ Len(t) = Len(s)
    <2>1. k = Head(f.exits)
      BY <1>1
    <2> QED
      BY <1>2, <1>3, <1>4, <2>1, PropagatedOK
  <1>7. k \in 1..Len(s) /\ s[k].state = "dead" /\ (Known(f) => f.parents[k] = p)
    <2>1. k = Head(f.exits)
      BY <1>1
    <2>2. k \in 1..Len(s)
      BY <1>2, <1>3, <1>4, <2>1, PropagatedOK
    <2>3. s[k].state = "dead"
      BY <1>2, <1>3, <1>4, <2>1, PropagatedOK
    <2>4. Known(f) => f.parents[k] = p
      BY <1>2, <1>3, <1>4, <2>1, PropagatedOK
    <2> QED
      BY <2>2, <2>3, <2>4
  <1>8. \A j \in 1..Len(t) :
          Told(t, j) => Told(s, j) /\ (Queued(f, j) => Queued(g, j) \/ (j = k /\ Known(f)))
    <2>1. k = Head(f.exits)
      BY <1>1
    <2> QED
      BY <1>2, <1>3, <1>4, <2>1, PropagatedOK
  <1>9. ExitOf(p, k) \in SpawnEvents(kids) /\ ExitOf(p, k).kind # "SpawnRequest"
    <2>1. k \in DeadOf(kids, p)
      BY <1>1, <1>7 DEF DeadOf, Numbers
    <2> QED
      BY <2>1, SpawnEventsAre DEF ExitOf, Event
  <1>10. (Known(f) => Publish(<<ExitOf(p, k)>>)) /\ (~Known(f) => net' = net)
    <2>1. CASE Known(f)
      <3>1. Publish(<<Event(n, Home, "ChildExit", <<f.parents[k], k>>)>>)
        BY <1>1, <2>1 DEF PropagateChildExit
      <3> QED
        BY <1>1, <1>7, <2>1, <3>1 DEF ExitOf
    <2>2. CASE ~Known(f)
      BY <1>1, <2>2, NotPublished DEF PropagateChildExit
    <2> QED
      BY <2>1, <2>2
  <1>11. CalmNet(kids) /\ ExitsKept
    BY <1>3, <1>9, <1>10, CalmSteps
  <1>12. ToldKept(p, s, f, t, g)
    <2>1. Known(f) => Carries(net', {ExitOf(p, k)})
      BY <1>3, <1>9, <1>10, Published
    <2> QED
      BY <1>6, <1>8, <2>1 DEF ToldKept
  <1>13. /\ kids' = [kids EXCEPT ![NodeOf[p]] = t] /\ far' = [far EXCEPT ![NodeOf[p]] = g]
         /\ Longer(kids[NodeOf[p]], t) /\ Len(t) = Len(kids[NodeOf[p]])
         /\ ToldKept(p, kids[NodeOf[p]], far[NodeOf[p]], t, g)
    BY <1>1, <1>5, <1>6, <1>12
  <1> QED
    BY <1>4, <1>6, <1>11, <1>13, NodeSteps

\* A signal arrives.
LEMMA ApplySignalKept ==
    ASSUME ChildrenInv, NEW p \in Parents, NEW i \in Places, ApplySignal(NodeOf[p], i)
    PROVE  ChildrenInv'
  <1>1. PICK n, s, f, k, signal : /\ n = NodeOf[p] /\ s = kids[n] /\ f = far[n]
                                  /\ k = At(i).body[1] /\ signal = At(i).body[2]
    OBVIOUS
  <1>2. PICK t : t = Signalled(s, f, k, signal)
    OBVIOUS
  <1>3. NodeOK(p, s, f) /\ IsNet(net, SpawnEvents(kids)) /\ far = [far EXCEPT ![n] = f]
    BY <1>1, ChildrenAre
  <1>4. /\ net' = Without(i) /\ At(i).kind = "Signal" /\ UNCHANGED <<lost, par, waits, far>>
    BY NotPublished DEF ApplySignal, Exchange, Takes
  <1>5. kids' = [kids EXCEPT ![n] = t] /\ far' = [far EXCEPT ![n] = f]
    BY <1>1, <1>2, <1>3, <1>4 DEF ApplySignal
  <1>6. NodeOK(p, t, f) /\ Longer(s, t) /\ Len(t) = Len(s)
    BY <1>2, <1>3, SignalledOK
  <1>7. \A j \in 1..Len(t) : Told(t, j) => Told(s, j)
    BY <1>2, <1>3, SignalledOK
  <1>8. ToldKept(p, s, f, t, f)
    BY <1>6, <1>7 DEF ToldKept
  <1>9. CalmNet(kids) /\ ExitsKept
    BY <1>3, <1>4, CalmSteps
  <1>10. /\ kids' = [kids EXCEPT ![NodeOf[p]] = t] /\ far' = [far EXCEPT ![NodeOf[p]] = f]
         /\ Longer(kids[NodeOf[p]], t) /\ Len(t) = Len(kids[NodeOf[p]])
         /\ ToldKept(p, kids[NodeOf[p]], far[NodeOf[p]], t, f)
    BY <1>1, <1>5, <1>6, <1>8
  <1> QED
    BY <1>4, <1>6, <1>9, <1>10, NodeSteps

-----------------------------------------------------------------------------
(* All of the steps.                                                       *)

\* Every step of a parent.
LEMMA HomeStepKept ==
    ASSUME ChildrenInv, NEW p \in Parents,
           \/ RequestSpawn(p) \/ RetrySpawn(p) \/ ShutdownRemoteAndWait(p) \/ HomeStep(p)
           \/ ThreadsStep(p)
    PROVE  ChildrenInv'
  <1>1. \/ RequestSpawn(p) \/ RetrySpawn(p) \/ HandleExit(p) \/ WaitSteps(p)
        \/ RemoteSignal(p) \/ Escalate(p) \/ ThreadsEscalate(p)
    BY DEF HomeStep, ThreadsStep, ThreadsRetrySpawn, ThreadsShutdownRemoteAndWait, ThreadsWaitEnds,
           WaitSteps
  <1> QED
    BY <1>1, RequestKept, RetryKept, HandleKept, WaitStepsKept, SignalKept

\* Every step of a node, and the end of each of its children.
LEMMA FarStepKept ==
    ASSUME ChildrenInv, NEW n \in Placements,
           FarStep(n) \/ \E k \in DOMAIN kids[n] : \E r \in {"Shutdown", "Kill"} : KidDies(n, k, r)
    PROVE  ChildrenInv'
  <1>1. PICK p \in Parents : n = NodeOf[p]
    BY NodeIs
  <1>2. CASE FarStep(n)
    BY <1>1, <1>2, ServeKept, PropagateKept DEF FarStep
  <1>3. CASE \E k \in DOMAIN kids[n] : \E r \in {"Shutdown", "Kill"} : KidDies(n, k, r)
    BY <1>1, <1>3, DiesKept
  <1> QED
    BY <1>2, <1>3

\* Every delivery of an event, and every answer a thread waits for.
LEMMA DeliveredKept ==
    ASSUME ChildrenInv, NEW i \in Places,
           Delivered(i) \/ \E p \in Parents : ThreadsSpawnAnswer(p, i)
    PROVE  ChildrenInv'
  <1>1. CASE \E n \in Placements : ApplySpawn(n, i) \/ ApplySpawnFails(n, i)
    BY <1>1, SpawnKept, SpawnFailsKept
  <1>2. CASE \E n \in Placements : ApplySignal(n, i)
    BY <1>2, NodeIs, ApplySignalKept
  <1>3. CASE ApplyChildExit(i)
    BY <1>3, ChildExitKept
  <1>4. CASE \E p \in Parents : SpawnAnswer(p, i)
    BY <1>4, AnswerKept
  <1> QED
    BY <1>1, <1>2, <1>3, <1>4 DEF Delivered, ThreadsSpawnAnswer

\* Every step of the parents, the brokers and the children.
LEMMA SpawnNextKept ==
    ASSUME ChildrenInv, SpawnNext
    PROVE  ChildrenInv'
  <1>1. ASSUME \E p \in Parents : \/ RequestSpawn(p) \/ RetrySpawn(p) \/ ShutdownRemoteAndWait(p)
                                  \/ HomeStep(p) \/ ThreadsStep(p)
        PROVE  ChildrenInv'
    BY <1>1, HomeStepKept
  <1>2. ASSUME \E n \in Placements :
                 FarStep(n) \/ \E k \in DOMAIN kids[n] : \E r \in {"Shutdown", "Kill"} : KidDies(n, k, r)
        PROVE  ChildrenInv'
    BY <1>2, FarStepKept
  <1>3. ASSUME \E i \in Places : Delivered(i) \/ \E p \in Parents : ThreadsSpawnAnswer(p, i)
        PROVE  ChildrenInv'
    BY <1>3, DeliveredKept
  <1> QED
    BY <1>1, <1>2, <1>3 DEF SpawnNext

-----------------------------------------------------------------------------
(* The start.                                                              *)

\* Nobody waits at the start.
LEMMA NoWaits == waits = <<>> => WaitsInv
  <1> SUFFICES ASSUME waits = <<>> PROVE WaitsInv
    OBVIOUS
  <1>1. DOMAIN waits = {} /\ waits = [k \in {} |-> waits[k]]
    OBVIOUS
  <1> QED
    BY <1>1 DEF WaitsInv

\* Nothing was spawned yet.
LEMMA SpawnBegins ==
    ASSUME NetInit, NEW P, SpawnInit(P)
    PROVE  ChildrenInv
  <1>1. /\ kids = [n \in Placements |-> <<>>] /\ waits = <<>>
        /\ far = [n \in Placements |-> Broker({}, <<>>)]
    BY DEF SpawnInit
  <1>2. PICK how \in [Parents -> Hows] :
          par = [p \in Parents |-> IF p \in P THEN Parent("idle", 0, None, how[p])
                                  ELSE Parent("failed", MaxAttempts, None, "Infinity")]
    BY DEF SpawnInit
  <1>3. \A p \in Parents : /\ NodeOf[p] \in Placements /\ kids[NodeOf[p]] = <<>>
                           /\ far[NodeOf[p]] = Broker({}, <<>>)
    BY <1>1 DEF Placements
  <1>4. ASSUME NEW p \in Parents PROVE ParentOK(p, par[p], kids)
    <2>1. None \in Nat /\ how[p] \in Hows /\ "Infinity" \in Hows /\ MaxAttempts \in Nat
      BY AttemptsAssumption DEF None, Hows
    <2>2. \/ par[p] = Parent("idle", 0, None, how[p])
          \/ par[p] = Parent("failed", MaxAttempts, None, "Infinity")
      BY <1>2
    <2> QED
      BY <2>1, <2>2, ParentBegins
  <1>5. ParentsInv
    <2>1. par = [p \in Parents |-> par[p]]
      BY <1>2
    <2> QED
      BY <1>4, <2>1 DEF ParentsInv
  <1>6. ASSUME NEW p \in Parents PROVE NodeOK(p, kids[NodeOf[p]], far[NodeOf[p]])
    <2>1. PICK f : f = Broker({}, <<>>)
      OBVIOUS
    <2>2. IsBroker(f) /\ f.broker = TRUE /\ f.exits = <<>> /\ f.parents = <<>> /\ f.serving = <<>>
      BY <2>1 DEF Broker, IsBroker
    <2>6. <<>> \in Seq(KidType)
      OBVIOUS
    <2>3. PICK s \in Seq(KidType) : s = <<>>
      BY <2>6
    <2>4. 1..Len(s) = {} /\ DOMAIN f.parents = {}
      BY <2>2, <2>3
    <2>5. NodeOK(p, s, f)
      BY <2>2, <2>4, NodeBegins
    <2> QED
      BY <1>3, <2>1, <2>3, <2>5
  <1>7. NodesInv
    <2>1. kids = [n \in Placements |-> kids[n]] /\ far = [n \in Placements |-> far[n]]
      BY <1>1
    <2> QED
      BY <1>6, <2>1 DEF NodesInv
  <1>8. PlacedInv
    BY <1>1, <1>5, <1>7, NoWaits, EmptyNet DEF PlacedInv
  <1>9. ASSUME NEW p \in Parents PROVE CountOK(p, par[p].attempt, kids[NodeOf[p]], net)
    <2>1. par[p].attempt \in Nat /\ par[p].attempt <= MaxAttempts
      <3>1. par[p].attempt = 0 \/ par[p].attempt = MaxAttempts
        BY <1>2 DEF Parent
      <3> QED
        BY <3>1, AttemptsAssumption
    <2>2. Len(kids[NodeOf[p]]) = 0
      BY <1>3
    <2>3. Len(kids[NodeOf[p]]) <= par[p].attempt /\ Len(kids[NodeOf[p]]) \in Nat
      BY <2>1, <2>2
    <2> QED
      BY <2>1, <2>3, NothingAsked
  <1>10. ReportInv
    <2>1. \A p \in Parents : Numbers(kids, p) = {}
      <3>1. ASSUME NEW p \in Parents PROVE Numbers(kids, p) = {}
        <4>1. Len(kids[NodeOf[p]]) = 0
          BY <1>3
        <4> QED
          BY <4>1 DEF Numbers
      <3> QED
        BY <3>1
    <2> QED
      BY <2>1 DEF ReportInv
  <1> QED
    BY <1>8, <1>9, <1>10 DEF ChildrenInv, CountInv

\* Every parent has its child.
LEMMA SpawnedBegins ==
    ASSUME NetInit, SpawnedInit
    PROVE  ChildrenInv
  <1>1. /\ kids = [n \in Placements |-> <<Kid(CHOOSE p \in Parents : NodeOf[p] = n)>>]
        /\ waits = <<>>
        /\ far = [n \in Placements |-> Broker({1}, <<kids[n][1].parent>>)]
    BY DEF SpawnedInit
  <1>2. PICK how \in [Parents -> Hows] : par = [p \in Parents |-> Parent("up", 1, 1, how[p])]
    BY DEF SpawnedInit
  <1>3. ASSUME NEW p \in Parents
        PROVE  kids[NodeOf[p]] = <<Kid(p)>> /\ far[NodeOf[p]] = Broker({1}, <<p>>)
    <2>1. NodeOf[p] \in Placements
      BY DEF Placements
    <2>2. (CHOOSE q \in Parents : NodeOf[q] = NodeOf[p]) = p
      BY PlacementAssumption
    <2>3. kids[NodeOf[p]] = <<Kid(p)>>
      BY <1>1, <2>1, <2>2
    <2>4. kids[NodeOf[p]][1].parent = p
      BY <2>3 DEF Kid
    <2> QED
      BY <1>1, <2>1, <2>3, <2>4
  <1>4. ASSUME NEW p \in Parents
        PROVE  /\ Kid(p) \in KidType /\ Kid(p).parent = p /\ Kid(p).state = "up"
               /\ <<Kid(p)>> \in Seq(KidType) /\ Len(<<Kid(p)>>) = 1 /\ <<Kid(p)>>[1] = Kid(p)
    <2>1. Kid(p) \in KidType /\ Kid(p).parent = p /\ Kid(p).state = "up"
      BY DEF Kid, KidType
    <2> QED
      BY <2>1
  <1>5. \A p \in Parents : Len(kids[NodeOf[p]]) = 1
    BY <1>3, <1>4
  <1>6. ASSUME NEW p \in Parents PROVE ParentOK(p, par[p], kids)
    <2>1. 1 \in Numbers(kids, p) \union {None} /\ 1 # None /\ how[p] \in Hows
      <3>1. PICK l : l = Len(kids[NodeOf[p]])
        OBVIOUS
      <3>2. l = 1
        BY <1>5, <3>1
      <3>3. 1 \in 1..l
        BY <3>2
      <3> QED
        BY <3>1, <3>3 DEF Numbers, None
    <2>2. par[p] = Parent("up", 1, 1, how[p])
      BY <1>2
    <2> QED
      BY <2>1, <2>2, ParentBegins
  <1>7. ParentsInv
    <2>1. par = [p \in Parents |-> par[p]]
      BY <1>2
    <2> QED
      BY <1>6, <2>1 DEF ParentsInv
  <1>8. ASSUME NEW p \in Parents PROVE NodeOK(p, kids[NodeOf[p]], far[NodeOf[p]])
    <2>1. PICK f : f = Broker({1}, <<p>>)
      OBVIOUS
    <2>2. IsBroker(f) /\ f.broker = TRUE /\ f.exits = <<>> /\ f.parents = <<p>> /\ f.serving = <<>>
      BY <2>1 DEF Broker, IsBroker
    <2>3. \A k \in DOMAIN f.parents : f.parents[k] = p
      BY <2>2
    <2>4. PICK e : e = Kid(p)
      OBVIOUS
    <2>5. PICK s : s = <<e>>
      OBVIOUS
    <2>6. s \in Seq(KidType) /\ Len(s) = 1 /\ s[1].parent = p
      BY <1>4, <2>4, <2>5
    <2>7. \A k \in 1..Len(s) : s[k].parent = p
      BY <2>6
    <2>8. NodeOK(p, s, f)
      BY <2>2, <2>3, <2>6, <2>7, NodeBegins
    <2> QED
      BY <1>3, <2>1, <2>4, <2>5, <2>8
  <1>9. NodesInv
    <2>1. kids = [n \in Placements |-> kids[n]] /\ far = [n \in Placements |-> far[n]]
      BY <1>1
    <2> QED
      BY <1>8, <2>1 DEF NodesInv
  <1>10. PlacedInv
    BY <1>1, <1>7, <1>9, NoWaits, EmptyNet DEF PlacedInv
  <1>11. ASSUME NEW p \in Parents PROVE CountOK(p, par[p].attempt, kids[NodeOf[p]], net)
    <2>1. par[p].attempt = 1
      BY <1>2 DEF Parent
    <2>2. CountOK(p, 1, kids[NodeOf[p]], net)
      <3>1. PICK s : s = kids[NodeOf[p]]
        OBVIOUS
      <3>2. Len(s) = 1
        BY <1>5, <3>1
      <3>3. Len(s) \in Nat /\ Len(s) <= 1 /\ 1 <= MaxAttempts
        BY <3>2, AttemptsAssumption
      <3>4. CountOK(p, 1, s, net)
        BY <3>3, NothingAsked
      <3> QED
        BY <3>1, <3>4
    <2> QED
      BY <2>1, <2>2
  <1>12. ASSUME NEW p \in Parents, NEW k \in Numbers(kids, p) PROVE ~Told(kids[NodeOf[p]], k)
    <2>1. k = 1
      <3>1. PICK l : l = Len(kids[NodeOf[p]])
        OBVIOUS
      <3>2. l = 1
        BY <1>5, <3>1
      <3>3. k \in 1..l
        BY <3>1 DEF Numbers
      <3> QED
        BY <3>2, <3>3
    <2>2. kids[NodeOf[p]][1].state = "up"
      <3>1. PICK e : e = Kid(p)
        OBVIOUS
      <3>2. e.state = "up" /\ kids[NodeOf[p]] = <<e>>
        BY <1>3, <1>4, <3>1
      <3> QED
        BY <3>2
    <2> QED
      BY <2>1, <2>2 DEF Told
  <1> QED
    BY <1>10, <1>11, <1>12 DEF ChildrenInv, CountInv, ReportInv
=============================================================================
