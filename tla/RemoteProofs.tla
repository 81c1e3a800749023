---------------------------- MODULE RemoteProofs ----------------------------
(***************************************************************************)
(* Proofs about supervision across nodes, for any monitors, parents and    *)
(* nodes, over either transport and whatever gets lost.                    *)
(***************************************************************************)
EXTENDS Remote, SpawnProofs

-----------------------------------------------------------------------------
(* Monitors: a ref is one token, which goes from a Monitor on its way to a *)
(* task that waits to a Down on its way to a Down received, or is lost.    *)

WatchEvents ==
    {ToFar("Monitor", r) : r \in Refs} \union {ToFar("Demonitor", r) : r \in Refs}
      \union {ToHome("Down", r) : r \in Refs}
      \union {ToFar("Link", 0), ToFar("Unlink", 0), ToHome("ChildExit", Far), ToFar("ChildExit", Home)}

Asked(r) == {ToFar("Monitor", r)}
Answered(r) == {ToHome("Down", r)}
Token(r) == {ToFar("Monitor", r), ToHome("Down", r)}

WatchType ==
    [called : BOOLEAN, entry : BOOLEAN, task : {"none", "waiting", "done"}, cancelled : BOOLEAN,
     removed : BOOLEAN, downs : Nat]

OneWatch(r, m, alive, n) ==
    /\ m \in WatchType /\ Alone(n, Token(r))
    /\ ~m.called => m.task = "none" /\ ~m.removed /\ m.downs = 0 /\ ~Carries(n, Token(r))
    /\ m.entry => m.task = "waiting" /\ ~m.removed
    /\ m.task = "waiting" \/ m.removed => m.downs = 0 /\ ~Carries(n, Token(r))
    /\ Carries(n, Asked(r)) => m.downs = 0
    /\ Carries(n, Answered(r)) => m.downs = 0 /\ ~alive
    /\ m.downs > 0 => m.downs = 1 /\ ~alive /\ ~Carries(n, Token(r))

WatchInv ==
    /\ mons = [r \in Refs |-> mons[r]]
    /\ watch # "nothing" => /\ IsNet(net, WatchEvents)
                            /\ \A r \in Refs : OneWatch(r, mons[r], up.far, net)
    /\ watch = "nothing" => \A r \in Refs : mons[r].downs = 0

\* Either event is the token.
LEMMA Tokens == \A n, r : Carries(n, Token(r)) <=> Carries(n, Asked(r)) \/ Carries(n, Answered(r))
  BY DEF Carries, Token, Asked, Answered

\* No other event is.
LEMMA NotTokens ==
    ASSUME NEW r, NEW q
    PROVE  /\ q # r => ToFar("Monitor", q) \notin Token(r) /\ ToHome("Down", q) \notin Token(r)
           /\ ToFar("Demonitor", q) \notin Token(r) /\ ToFar("Link", 0) \notin Token(r)
           /\ ToFar("Unlink", 0) \notin Token(r) /\ ToFar("ChildExit", Home) \notin Token(r)
           /\ ToHome("ChildExit", Far) \notin Token(r)
  BY DEF Token, ToFar, ToHome, Event

\* What a ref knows is true with fewer events under way, and past the death of
\* the target.
LEMMA FewerKept ==
    ASSUME NEW r, NEW m, NEW alive, NEW later, NEW n, NEW w, OneWatch(r, m, alive, n),
           Alone(w, Token(r)), later => alive,
           Carries(w, Asked(r)) => Carries(n, Asked(r)),
           Carries(w, Answered(r)) => Carries(n, Answered(r))
    PROVE  OneWatch(r, m, later, w)
  BY Tokens DEF OneWatch

\* No token of a ref is published by this step.
Quiet(r) ==
    /\ Alone(net, Token(r)) => Alone(net', Token(r))
    /\ Carries(net', Asked(r)) => Carries(net, Asked(r))
    /\ Carries(net', Answered(r)) => Carries(net, Answered(r))

\* Such a step: a loss, an event taken, or the event of another kind or ref.
QuietStep(r) ==
    \/ UNCHANGED net
    \/ \E i \in Places : net' = Without(i)
    \/ \E e \in WatchEvents \ Token(r) : Publish(<<e>>)
    \/ \E e \in WatchEvents \ Token(r) : \E i \in Places : Exchange(i, <<e>>)

\* A step that is about other events leaves those of a monitor as they are.
LEMMA QuietNet ==
    ASSUME IsNet(net, WatchEvents), NEW r, QuietStep(r)
    PROVE  IsNet(net', WatchEvents) /\ Quiet(r)
  <1>0. \A e : e \notin Token(r) => e \notin Asked(r) /\ e \notin Answered(r)
    BY DEF Token, Asked, Answered
  <1>1. CASE UNCHANGED net
    BY <1>1 DEF Quiet
  <1>2. CASE \E i \in Places : net' = Without(i)
    <2>1. PICK i \in Places : net' = Without(i)
      BY <1>2
    <2>2. /\ IsNet(net', WatchEvents)
          /\ \A T : /\ Carries(net', T) => Carries(net, T)
                    /\ Alone(net, T) => Alone(net', T)
      BY <2>1, Took
    <2> QED
      BY <2>2 DEF Quiet
  <1>3. CASE \E e \in WatchEvents \ Token(r) : Publish(<<e>>)
    <2>1. PICK e \in WatchEvents \ Token(r) : Publish(<<e>>)
      BY <1>3
    <2>2. /\ IsNet(net', WatchEvents)
          /\ \A T : /\ Carries(net', T) <=> Carries(net, T) \/ e \in T
                    /\ Alone(net, T) /\ (e \notin T \/ ~Carries(net, T)) => Alone(net', T)
      BY <2>1, Published
    <2> QED
      BY <1>0, <2>1, <2>2 DEF Quiet
  <1>4. CASE \E e \in WatchEvents \ Token(r) : \E i \in Places : Exchange(i, <<e>>)
    <2>1. PICK e \in WatchEvents \ Token(r) : \E i \in Places : Exchange(i, <<e>>)
      BY <1>4
    <2>2. PICK i \in Places : Exchange(i, <<e>>)
      BY <2>1
    <2>3. /\ IsNet(net', WatchEvents)
          /\ \A T : /\ Carries(net', T) => Carries(net, T) \/ e \in T
                    /\ Alone(net, T) /\ (e \notin T \/ At(i) \in T) => Alone(net', T)
      BY <2>2, Exchanged
    <2> QED
      BY <1>0, <2>1, <2>3 DEF Quiet
  <1> QED
    BY <1>1, <1>2, <1>3, <1>4 DEF QuietStep

\* A step that publishes no token and changes no ref.
LEMMA EventKept ==
    ASSUME WatchInv, watch # "nothing", UNCHANGED <<watch, mons>>, up'.far => up.far,
           IsNet(net', WatchEvents), \A r \in Refs : Quiet(r)
    PROVE  WatchInv'
  <1>1. \A r \in Refs : OneWatch(r, mons[r], up.far, net)
    BY DEF WatchInv
  <1>2. ASSUME NEW r \in Refs PROVE OneWatch(r, mons[r], up'.far, net')
    <2>1. OneWatch(r, mons[r], up.far, net) /\ Alone(net, Token(r))
      BY <1>1 DEF OneWatch
    <2>2. /\ Alone(net', Token(r))
          /\ Carries(net', Asked(r)) => Carries(net, Asked(r))
          /\ Carries(net', Answered(r)) => Carries(net, Answered(r))
      BY <2>1 DEF Quiet
    <2> QED
      BY <2>1, <2>2, FewerKept
  <1> QED
    BY <1>2 DEF WatchInv

\* A step that changes one ref, and publishes no token of another.
LEMMA RefKept ==
    ASSUME WatchInv, watch # "nothing", UNCHANGED <<watch, up>>, NEW r \in Refs, NEW m,
           mons' = [mons EXCEPT ![r] = m], OneWatch(r, m, up.far, net'),
           IsNet(net', WatchEvents), \A q \in Refs \ {r} : Quiet(q)
    PROVE  WatchInv'
  <1>1. /\ \A q \in Refs : OneWatch(q, mons[q], up.far, net)
        /\ mons = [q \in Refs |-> mons[q]]
    BY DEF WatchInv
  <1>2. /\ mons' = [q \in Refs |-> mons'[q]] /\ mons'[r] = m
        /\ \A q \in Refs \ {r} : mons'[q] = mons[q]
    BY <1>1
  <1>3. ASSUME NEW q \in Refs \ {r} PROVE OneWatch(q, mons[q], up.far, net')
    <2>1. OneWatch(q, mons[q], up.far, net) /\ Alone(net, Token(q))
      BY <1>1 DEF OneWatch
    <2>2. /\ Alone(net', Token(q))
          /\ Carries(net', Asked(q)) => Carries(net, Asked(q))
          /\ Carries(net', Answered(q)) => Carries(net, Answered(q))
      BY <2>1 DEF Quiet
    <2> QED
      BY <2>1, <2>2, FewerKept
  <1>4. \A q \in Refs : OneWatch(q, mons'[q], up'.far, net')
    BY <1>2, <1>3
  <1> QED
    BY <1>2, <1>4 DEF WatchInv

\* The events that monitors and links send.
LEMMA WatchEventsAre ==
    /\ \A r \in Refs : /\ ToFar("Monitor", r) \in WatchEvents /\ ToFar("Demonitor", r) \in WatchEvents
                       /\ ToHome("Down", r) \in WatchEvents
    /\ {ToFar("Link", 0), ToFar("Unlink", 0), ToHome("ChildExit", Far), ToFar("ChildExit", Home)}
         \subseteq WatchEvents
  BY DEF WatchEvents

\* Which token is which.
LEMMA TokenIs ==
    ASSUME NEW r
    PROVE  /\ ToFar("Monitor", r) \in Token(r) /\ ToHome("Down", r) \in Token(r)
           /\ ToFar("Monitor", r) \in Asked(r) /\ ToHome("Down", r) \in Answered(r)
           /\ ToFar("Monitor", r) \notin Answered(r) /\ ToHome("Down", r) \notin Asked(r)
  BY DEF Token, Asked, Answered, ToFar, ToHome, Event

\* A place that holds a Monitor, or a Down, for a ref.
LEMMA Holds ==
    ASSUME IsNet(net, WatchEvents), NEW i \in Places, NEW r
    PROVE  /\ Takes(Far, "Monitor", i) /\ At(i).body = r => At(i) = ToFar("Monitor", r)
           /\ Takes(Home, "Down", i) /\ At(i).body = r => At(i) = ToHome("Down", r)
  <1>1. At(i) \in WatchEvents
    BY Took
  <1> QED
    BY <1>1 DEF WatchEvents, Takes, ToFar, ToHome, Event

\* monitor_address: the Monitor is the one event of its monitor.
LEMMA MonitorKept ==
    ASSUME WatchInv, watch # "nothing", NEW r \in Refs, MonitorAddress(r)
    PROVE  WatchInv'
  <1> DEFINE m == [mons[r] EXCEPT !.called = TRUE]
             e == ToFar("Monitor", r)
  <1>1. mons' = [mons EXCEPT ![r] = m] /\ UNCHANGED <<watch, up>> /\ Publish(<<e>>) /\ ~mons[r].called
    BY DEF MonitorAddress
  <1>2. OneWatch(r, mons[r], up.far, net) /\ IsNet(net, WatchEvents)
    BY DEF WatchInv
  <1>3. e \in WatchEvents /\ e \in Token(r) /\ e \notin Answered(r)
    BY WatchEventsAre, TokenIs
  <1>4. \A q \in Refs \ {r} : e \notin Token(q)
    BY NotTokens
  <1> HIDE DEF e
  <1>5. /\ IsNet(net', WatchEvents)
        /\ \A T : /\ Carries(net', T) <=> Carries(net, T) \/ e \in T
                  /\ Alone(net, T) /\ (e \notin T \/ ~Carries(net, T)) => Alone(net', T)
    BY <1>1, <1>2, <1>3, Published
  <1>6. \A q \in Refs \ {r} : Quiet(q)
    <2>1. \A q \in Refs \ {r} : QuietStep(q)
      BY <1>1, <1>3, <1>4 DEF QuietStep
    <2> QED
      BY <1>2, <2>1, QuietNet
  <1>7. /\ mons[r].task = "none" /\ ~mons[r].removed /\ mons[r].downs = 0 /\ mons[r] \in WatchType
        /\ Alone(net, Token(r)) /\ ~Carries(net, Token(r)) /\ ~mons[r].entry
    BY <1>1, <1>2 DEF OneWatch
  <1>8. Alone(net', Token(r)) /\ ~Carries(net', Answered(r))
    BY <1>3, <1>5, <1>7, Tokens
  <1>9. /\ m \in WatchType /\ m.task = "none" /\ ~m.removed /\ m.downs = 0 /\ m.called /\ ~m.entry
    BY <1>7 DEF WatchType
  <1> HIDE DEF m
  <1>10. OneWatch(r, m, up.far, net')
    BY <1>8, <1>9 DEF OneWatch
  <1> QED
    BY <1>1, <1>5, <1>6, <1>10, RefKept

\* The Monitor is delivered: a task waits for the actor, or a Down goes back at once.
LEMMA ApplyMonitorKept ==
    ASSUME WatchInv, watch # "nothing", NEW r \in Refs, NEW i \in Places, ApplyMonitor(r, i)
    PROVE  WatchInv'
  <1> DEFINE e == ToHome("Down", r)
  <1>1. UNCHANGED <<watch, up>> /\ Takes(Far, "Monitor", i) /\ At(i).body = r
    BY DEF ApplyMonitor
  <1>2. OneWatch(r, mons[r], up.far, net) /\ IsNet(net, WatchEvents)
    BY DEF WatchInv
  <1>3. /\ e \in WatchEvents /\ e \in Token(r) /\ e \notin Asked(r)
        /\ At(i) \in Token(r) /\ At(i) \in Asked(r)
    BY <1>1, <1>2, Holds, WatchEventsAre, TokenIs
  <1>4. \A q \in Refs \ {r} : e \notin Token(q)
    BY NotTokens
  <1>5. /\ mons[r] \in WatchType /\ mons[r].called /\ mons[r].task # "waiting"
        /\ ~mons[r].removed /\ mons[r].downs = 0 /\ ~mons[r].entry
        /\ Alone(net, Token(r)) /\ Carries(net, Token(r))
    BY <1>2, <1>3, Took DEF OneWatch
  <1>6. CASE up.far
    <2> DEFINE m == [mons[r] EXCEPT !.entry = TRUE, !.task = "waiting"]
    <2>1. mons' = [mons EXCEPT ![r] = m] /\ net' = Without(i)
      BY <1>6, NotPublished DEF ApplyMonitor
    <2>2. IsNet(net', WatchEvents) /\ Alone(net', Token(r)) /\ ~Carries(net', Token(r))
      BY <1>2, <1>3, <1>5, <2>1, Took
    <2>3. \A q \in Refs \ {r} : Quiet(q)
      BY <1>2, <2>1, QuietNet DEF QuietStep
    <2>4. /\ m \in WatchType /\ m.task = "waiting" /\ ~m.removed /\ m.downs = 0 /\ m.called
      BY <1>5 DEF WatchType
    <2> HIDE DEF m
    <2>5. OneWatch(r, m, up.far, net')
      BY <2>2, <2>4, Tokens DEF OneWatch
    <2> QED
      BY <1>1, <2>1, <2>2, <2>3, <2>5, RefKept
  <1>7. CASE ~up.far
    <2>1. mons' = mons /\ Exchange(i, <<e>>)
      BY <1>7 DEF ApplyMonitor
    <2>2. mons' = [mons EXCEPT ![r] = mons[r]]
      BY <2>1 DEF WatchInv
    <2> HIDE DEF e
    <2>3. IsNet(net', WatchEvents) /\ Alone(net', Token(r))
      BY <1>2, <1>3, <1>5, <2>1, Exchanged
    <2>4. \A q \in Refs \ {r} : Quiet(q)
      <3>1. \A q \in Refs \ {r} : QuietStep(q)
        BY <1>3, <1>4, <2>1 DEF QuietStep
      <3> QED
        BY <1>2, <3>1, QuietNet
    <2>5. OneWatch(r, mons[r], up.far, net')
      BY <1>5, <1>7, <2>3 DEF OneWatch
    <2> QED
      BY <1>1, <2>2, <2>3, <2>4, <2>5, RefKept
  <1> QED
    BY <1>6, <1>7

\* A ref changes, and no token is published.
LEMMA QuietKept ==
    ASSUME WatchInv, watch # "nothing", UNCHANGED <<watch, up>>, NEW r \in Refs, NEW m,
           mons' = [mons EXCEPT ![r] = m], OneWatch(r, m, up.far, net),
           \A q \in Refs : QuietStep(q)
    PROVE  WatchInv'
  <1>1. IsNet(net, WatchEvents)
    BY DEF WatchInv
  <1>2. IsNet(net', WatchEvents) /\ \A q \in Refs : Quiet(q)
    BY <1>1, QuietNet
  <1>3. Alone(net, Token(r))
    BY DEF OneWatch
  <1>4. /\ Alone(net', Token(r))
        /\ Carries(net', Asked(r)) => Carries(net, Asked(r))
        /\ Carries(net', Answered(r)) => Carries(net, Answered(r))
    BY <1>2, <1>3 DEF Quiet
  <1>5. OneWatch(r, m, up.far, net')
    BY <1>4, FewerKept
  <1> QED
    BY <1>2, <1>5, RefKept

\* demonitor_address cancels; its event, when delivered, ends the task.
LEMMA DemonitorKept ==
    ASSUME WatchInv, watch # "nothing", NEW r \in Refs,
           DemonitorAddress(r) \/ \E i \in Places : ApplyDemonitor(r, i)
    PROVE  WatchInv'
  <1>1. OneWatch(r, mons[r], up.far, net)
    BY DEF WatchInv
  <1>2. CASE DemonitorAddress(r)
    <2> DEFINE m == [mons[r] EXCEPT !.cancelled = TRUE]
    <2>1. mons' = [mons EXCEPT ![r] = m] /\ UNCHANGED <<watch, up>>
      BY <1>2 DEF DemonitorAddress
    <2>2. OneWatch(r, m, up.far, net)
      BY <1>1 DEF OneWatch, WatchType
    <2>3. \A q \in Refs : QuietStep(q)
      <3>1. Publish(<<ToFar("Demonitor", r)>>) /\ ToFar("Demonitor", r) \in WatchEvents
        BY <1>2, WatchEventsAre DEF DemonitorAddress
      <3>2. \A q \in Refs : ToFar("Demonitor", r) \notin Token(q)
        BY NotTokens
      <3> QED
        BY <3>1, <3>2 DEF QuietStep
    <2> HIDE DEF m
    <2> QED
      BY <2>1, <2>2, <2>3, QuietKept
  <1>3. CASE \E i \in Places : ApplyDemonitor(r, i)
    <2> DEFINE m == [mons[r] EXCEPT !.entry = FALSE, !.removed = @ \/ mons[r].entry]
    <2>1. PICK i \in Places : ApplyDemonitor(r, i)
      BY <1>3
    <2>2. mons' = [mons EXCEPT ![r] = m] /\ UNCHANGED <<watch, up>> /\ net' = Without(i)
      BY <2>1, NotPublished DEF ApplyDemonitor
    <2>3. /\ m \in WatchType /\ ~m.entry /\ (m.removed <=> mons[r].removed \/ mons[r].entry)
          /\ m.called = mons[r].called /\ m.task = mons[r].task /\ m.downs = mons[r].downs
      BY <1>1 DEF OneWatch, WatchType
    <2> HIDE DEF m
    <2>4. OneWatch(r, m, up.far, net)
      BY <1>1, <2>3 DEF OneWatch
    <2>5. \A q \in Refs : QuietStep(q)
      BY <2>2 DEF QuietStep
    <2> QED
      BY <2>2, <2>4, <2>5, QuietKept
  <1> QED
    BY <1>2, <1>3

\* The task sees the actor end, and the Down is the one event of its monitor.
LEMMA TaskKept ==
    ASSUME WatchInv, watch # "nothing", NEW r \in Refs, RemoteMonitorTask(r)
    PROVE  WatchInv'
  <1> DEFINE m == [mons[r] EXCEPT !.task = "done", !.entry = FALSE]
             e == ToHome("Down", r)
  <1>1. /\ mons' = [mons EXCEPT ![r] = m] /\ UNCHANGED <<watch, up>>
        /\ mons[r].task = "waiting" /\ ~up.far
    BY DEF RemoteMonitorTask
  <1>2. OneWatch(r, mons[r], up.far, net) /\ IsNet(net, WatchEvents)
    BY DEF WatchInv
  <1>3. /\ mons[r] \in WatchType /\ mons[r].called /\ mons[r].downs = 0
        /\ ~Carries(net, Token(r)) /\ Alone(net, Token(r))
        /\ mons[r].entry => ~mons[r].removed
    BY <1>1, <1>2 DEF OneWatch
  <1>4. /\ m \in WatchType /\ m.called /\ m.downs = 0 /\ m.task = "done" /\ ~m.entry
        /\ m.removed = mons[r].removed
    BY <1>3 DEF WatchType
  <1> HIDE DEF m
  <1>5. CASE ~mons[r].entry
    <2>1. net' = net
      BY <1>5, NotPublished DEF RemoteMonitorTask
    <2>2. OneWatch(r, m, up.far, net)
      BY <1>3, <1>4, Tokens DEF OneWatch
    <2>3. \A q \in Refs : QuietStep(q)
      BY <2>1 DEF QuietStep
    <2> QED
      BY <1>1, <2>2, <2>3, QuietKept
  <1>6. CASE mons[r].entry
    <2>1. Publish(<<e>>) /\ e \in WatchEvents /\ e \in Token(r) /\ e \notin Asked(r)
      BY <1>6, WatchEventsAre, TokenIs DEF RemoteMonitorTask
    <2>2. \A q \in Refs \ {r} : e \notin Token(q)
      BY NotTokens
    <2> HIDE DEF e
    <2>3. IsNet(net', WatchEvents) /\ Alone(net', Token(r)) /\ ~Carries(net', Asked(r))
      BY <1>2, <1>3, <2>1, Published, Tokens
    <2>4. \A q \in Refs \ {r} : QuietStep(q)
      BY <2>1, <2>2 DEF QuietStep
    <2>5. \A q \in Refs \ {r} : Quiet(q)
      BY <1>2, <2>4, QuietNet
    <2>6. OneWatch(r, m, up.far, net')
      BY <1>1, <1>3, <1>4, <1>6, <2>3 DEF OneWatch
    <2> QED
      BY <1>1, <2>3, <2>5, <2>6, RefKept
  <1> QED
    BY <1>5, <1>6

\* The Down is delivered: nothing of its monitor is left on its way.
LEMMA DownKept ==
    ASSUME WatchInv, watch # "nothing", NEW r \in Refs, NEW i \in Places, ApplyDown(r, i)
    PROVE  WatchInv'
  <1> DEFINE m == [mons[r] EXCEPT !.downs = IF up.home THEN @ + 1 ELSE @]
  <1>1. /\ mons' = [mons EXCEPT ![r] = m] /\ UNCHANGED <<watch, up>> /\ net' = Without(i)
        /\ Takes(Home, "Down", i) /\ At(i).body = r
    BY NotPublished DEF ApplyDown
  <1>2. OneWatch(r, mons[r], up.far, net) /\ IsNet(net, WatchEvents)
    BY DEF WatchInv
  <1>3. At(i) \in Token(r) /\ At(i) \in Answered(r)
    BY <1>1, <1>2, Holds, TokenIs
  <1>4. Carries(net, Token(r)) /\ Carries(net, Answered(r))
    BY <1>2, <1>3, Took
  <1>5. /\ mons[r] \in WatchType /\ mons[r].called /\ mons[r].task # "waiting"
        /\ ~mons[r].removed /\ mons[r].downs = 0 /\ ~mons[r].entry /\ ~up.far
        /\ Alone(net, Token(r))
    BY <1>2, <1>4 DEF OneWatch
  <1>6. IsNet(net', WatchEvents) /\ Alone(net', Token(r)) /\ ~Carries(net', Token(r))
    BY <1>1, <1>2, <1>3, <1>5, Took
  <1>7. /\ m \in WatchType /\ m.called /\ m.task # "waiting" /\ ~m.removed /\ ~m.entry
        /\ m.downs \in {0, 1}
    BY <1>5 DEF WatchType
  <1> HIDE DEF m
  <1>8. OneWatch(r, m, up.far, net')
    <2>1. ~Carries(net', Asked(r)) /\ ~Carries(net', Answered(r))
      BY <1>6, Tokens
    <2>2. m.downs > 0 => m.downs = 1
      BY <1>7
    <2> QED
      BY <1>5, <1>6, <1>7, <2>1, <2>2 DEF OneWatch
  <1>9. \A q \in Refs \ {r} : Quiet(q)
    BY <1>1, <1>2, QuietNet DEF QuietStep
  <1> QED
    BY <1>1, <1>6, <1>8, <1>9, RefKept

\* Links, deaths, refusals, losses: no token is published.
LinkEvents ==
    {ToFar("Link", 0), ToFar("Unlink", 0), ToHome("ChildExit", Far), ToFar("ChildExit", Home)}

\* A step that is about links keeps what is so of the monitors.
LEMMA RestKept ==
    ASSUME WatchInv, watch # "nothing", UNCHANGED <<watch, mons>>, up'.far => up.far,
           \/ UNCHANGED net
           \/ \E i \in Places : net' = Without(i)
           \/ \E e \in LinkEvents : Publish(<<e>>)
           \/ \E e \in LinkEvents : \E i \in Places : Exchange(i, <<e>>)
    PROVE  WatchInv'
  <1>1. IsNet(net, WatchEvents)
    BY DEF WatchInv
  <1>2. \A e \in LinkEvents : e \in WatchEvents /\ \A r : e \notin Token(r)
    BY WatchEventsAre, NotTokens DEF LinkEvents
  <1>3. \A r : QuietStep(r)
    BY <1>2 DEF QuietStep
  <1>4. IsNet(net', WatchEvents) /\ \A r \in Refs : Quiet(r)
    BY <1>1, <1>3, QuietNet
  <1> QED
    BY <1>4, EventKept

\* The steps of linked actors and of their brokers are such steps.
LEMMA LinksKept ==
    ASSUME WatchInv, watch # "nothing",
           \/ LinkAddress \/ UnlinkAddress \/ OwnerDies \/ TargetDies \/ BrokerUnregisters
           \/ LinkTaskWakes \/ LinkTaskReports \/ BrokerRecordsExit
    PROVE  WatchInv'
  <1>0. LinkEvents = {ToFar("Link", 0), ToFar("Unlink", 0),
                      ToHome("ChildExit", Far), ToFar("ChildExit", Home)}
    BY DEF LinkEvents
  <1>1. UNCHANGED <<watch, mons>>
    BY DEF LinkAddress, UnlinkAddress, OwnerDies, TargetDies, BrokerUnregisters, LinkTaskWakes,
           LinkTaskReports, BrokerRecordsExit
  <1>2. CASE LinkAddress \/ UnlinkAddress
    BY <1>0, <1>1, <1>2, RestKept DEF LinkAddress, UnlinkAddress
  <1>3. CASE OwnerDies
    <2>1. up'.far => up.far
      BY <1>3 DEF OwnerDies
    <2>2. Publish(<<ToFar("ChildExit", Home)>>) \/ UNCHANGED net
      BY <1>3, NotPublished DEF OwnerDies
    <2> QED
      BY <1>0, <1>1, <2>1, <2>2, RestKept
  <1>4. CASE TargetDies \/ BrokerUnregisters \/ LinkTaskWakes \/ BrokerRecordsExit
    <2>1. UNCHANGED net /\ (up'.far => up.far)
      BY <1>4 DEF TargetDies, BrokerUnregisters, LinkTaskWakes, BrokerRecordsExit, netVars
    <2> QED
      BY <1>1, <2>1, RestKept
  <1>5. CASE LinkTaskReports
    <2>1. up' = up
      BY <1>5 DEF LinkTaskReports
    <2>2. Publish(<<ToHome("ChildExit", Far)>>) \/ UNCHANGED net
      BY <1>5, NotPublished DEF LinkTaskReports
    <2> QED
      BY <1>0, <1>1, <2>1, <2>2, RestKept
  <1> QED
    BY <1>2, <1>3, <1>4, <1>5

\* So is the delivery of their events.
LEMMA LinksDeliveredKept ==
    ASSUME WatchInv, watch # "nothing", NEW i \in Places,
           \/ RefuseMonitor(i) \/ RefuseLink(i) \/ ApplyLink(i) \/ ApplyUnlink(i)
           \/ ApplyLinkExit(Home, i) \/ ApplyLinkExit(Far, i)
    PROVE  WatchInv'
  <1>1. UNCHANGED <<watch, mons, up>>
    BY DEF RefuseMonitor, RefuseLink, ApplyLink, ApplyUnlink, ApplyLinkExit, watchVars
  <1>2. CASE RefuseMonitor(i) \/ RefuseLink(i)
    <2>1. net' = Without(i)
      BY <1>2, NotPublished DEF RefuseMonitor, RefuseLink, Refuse
    <2> QED
      BY <1>1, <2>1, RestKept
  <1>3. CASE ApplyLink(i)
    <2>1. Exchange(i, <<ToHome("ChildExit", Far)>>) \/ net' = Without(i)
      BY <1>3, NotPublished DEF ApplyLink
    <2>2. ToHome("ChildExit", Far) \in LinkEvents
      BY DEF LinkEvents
    <2> QED
      BY <1>1, <2>1, <2>2, RestKept
  <1>4. CASE ApplyUnlink(i) \/ ApplyLinkExit(Home, i) \/ ApplyLinkExit(Far, i)
    <2>1. net' = Without(i)
      BY <1>4, NotPublished DEF ApplyUnlink, ApplyLinkExit
    <2> QED
      BY <1>1, <2>1, RestKept
  <1> QED
    BY <1>2, <1>3, <1>4

\* No monitor at the start.
LEMMA WatchInitInv == Init => WatchInv
  <1> SUFFICES ASSUME Init PROVE WatchInv
    OBVIOUS
  <1>1. WatchInit /\ NetInit
    BY DEF Init
  <1>2. net = [l \in {} |-> net[l]] /\ DOMAIN net = {}
    BY <1>1 DEF NetInit, Empty
  <1>3. IsNet(net, WatchEvents) /\ \A T : Alone(net, T) /\ ~Carries(net, T)
    BY <1>2 DEF IsNet, Alone, Carries
  <1>4. /\ mons = [r \in Refs |-> mons[r]]
        /\ \A r \in Refs : mons[r] = [called |-> FALSE, entry |-> FALSE, task |-> "none",
                               cancelled |-> FALSE, removed |-> FALSE, downs |-> 0]
    BY <1>1 DEF WatchInit
  <1>5. \A r \in Refs : mons[r] \in WatchType /\ mons[r].downs = 0
    <2> SUFFICES ASSUME NEW r \in Refs PROVE mons[r] \in WatchType /\ mons[r].downs = 0
      OBVIOUS
    <2>1. mons[r] = [called |-> FALSE, entry |-> FALSE, task |-> "none",
                     cancelled |-> FALSE, removed |-> FALSE, downs |-> 0]
      BY <1>4
    <2> QED
      BY <2>1 DEF WatchType
  <1>6. \A r \in Refs : OneWatch(r, mons[r], up.far, net)
    BY <1>3, <1>4, <1>5 DEF OneWatch
  <1> QED
    BY <1>3, <1>4, <1>5, <1>6 DEF WatchInv

\* Every step of the composition keeps what is so of the monitors.
LEMMA WatchNextInv == WatchInv /\ [Next]_vars => WatchInv'
  <1> SUFFICES ASSUME WatchInv, [Next]_vars PROVE WatchInv'
    OBVIOUS
  <1>1. CASE Watching
    <2>1. watch # "nothing" /\ WatchNext
      BY <1>1 DEF Watching
    <2>2. CASE WatchStep
      <3>1. CASE \E i \in Places, r \in Refs :
                   ApplyMonitor(r, i) \/ ApplyDemonitor(r, i) \/ ApplyDown(r, i)
        BY <2>1, <3>1, ApplyMonitorKept, DemonitorKept, DownKept
      <3>2. CASE \E i \in Places :
                   \/ RefuseMonitor(i) \/ RefuseLink(i) \/ ApplyLink(i) \/ ApplyUnlink(i)
                   \/ ApplyLinkExit(Home, i) \/ ApplyLinkExit(Far, i)
        BY <2>1, <3>2, LinksDeliveredKept
      <3>3. CASE \E r \in Refs : RemoteMonitorTask(r)
        BY <2>1, <3>3, TaskKept
      <3>4. CASE LinkTaskWakes \/ LinkTaskReports \/ BrokerRecordsExit
        BY <2>1, <3>4, LinksKept
      <3> QED
        BY <2>2, <3>1, <3>2, <3>3, <3>4 DEF WatchStep
    <2>3. CASE \E r \in Refs : MonitorAddress(r) \/ DemonitorAddress(r)
      BY <2>1, <2>3, MonitorKept, DemonitorKept
    <2>4. CASE LinkAddress \/ UnlinkAddress \/ OwnerDies \/ TargetDies \/ BrokerUnregisters
      BY <2>1, <2>4, LinksKept
    <2> QED
      BY <2>1, <2>2, <2>3, <2>4 DEF WatchNext
  <1>2. CASE Spawning
    BY <1>2 DEF Spawning, WatchInv, watchVars
  <1>3. CASE Losing
    <2>1. UNCHANGED <<watch, mons, up>> /\ \E i \in Places : net' = Without(i)
      BY <1>3, NotPublished DEF Losing, watchVars
    <2>2. CASE watch # "nothing"
      BY <2>1, <2>2, RestKept
    <2>3. CASE watch = "nothing"
      BY <2>1, <2>3 DEF WatchInv
    <2> QED
      BY <2>2, <2>3
  <1>4. CASE UNCHANGED vars
    BY <1>4 DEF vars, netVars, watchVars, WatchInv
  <1> QED
    BY <1>1, <1>2, <1>3, <1>4 DEF Next

\* RemoteDownOnce: a monitor of an actor of another node delivers at most one
\* Down, after the death of its target, and none once a Demonitor found its
\* entry; over either transport, and whatever gets lost or overtaken.
THEOREM RemoteMonitorOnce == Spec => []RemoteDownOnce
  <1>1. WatchInv => RemoteDownOnce
    <2> SUFFICES ASSUME WatchInv, NEW r \in Refs, mons[r].downs > 0
                 PROVE  mons[r].downs = 1 /\ ~up.far /\ ~mons[r].removed
      BY DEF RemoteDownOnce
    <2>1. watch # "nothing"
      BY DEF WatchInv
    <2> QED
      BY <2>1 DEF WatchInv, OneWatch
  <1> QED
    BY <1>1, WatchInitInv, WatchNextInv, PTL DEF Spec

-----------------------------------------------------------------------------
(* Children: their invariant, in a behaviour that is about them.           *)

SpawnInv ==
    /\ watch = "nothing" => ChildrenInv
    /\ watch # "nothing" => \A p \in Parents :
         /\ par[p].step = "failed" /\ par[p].result = "none" /\ par[p].child = None
         /\ par[p].attempt = MaxAttempts /\ kids[NodeOf[p]] = <<>>

\* The children and their parents at the start.
LEMMA SpawnInitInv == Init => SpawnInv
  <1> SUFFICES ASSUME Init PROVE SpawnInv
    OBVIOUS
  <1>1. NetInit
    BY DEF Init
  <1>2. CASE watch \in {"monitors", "links"} /\ SpawnInit({})
    <2>1. PICK how : par = [p \in Parents |-> IF p \in {} THEN Parent("idle", 0, None, how[p])
                                             ELSE Parent("failed", MaxAttempts, None, "Infinity")]
      BY <1>2 DEF SpawnInit
    <2>2. \A p \in Parents : par[p] = Parent("failed", MaxAttempts, None, "Infinity")
      BY <2>1
    <2>3. \A p \in Parents : kids[NodeOf[p]] = <<>>
      BY <1>2 DEF SpawnInit, Placements
    <2> QED
      BY <1>2, <2>2, <2>3 DEF SpawnInv, Parent
  <1>3. CASE watch = "nothing" /\ SpawnInit(Spawners)
    BY <1>1, <1>3, SpawnBegins DEF SpawnInv
  <1>4. CASE watch = "nothing" /\ SpawnedInit
    BY <1>1, <1>4, SpawnedBegins DEF SpawnInv
  <1> QED
    BY <1>2, <1>3, <1>4 DEF Init

\* What a behaviour watches is chosen at its start.
LEMMA WatchFixed == WatchNext => UNCHANGED watch
  <1> SUFFICES ASSUME WatchNext PROVE UNCHANGED watch
    OBVIOUS
  <1>1. CASE WatchStep
    BY <1>1 DEF WatchStep, ApplyMonitor, ApplyDemonitor, ApplyDown, RefuseMonitor, RefuseLink,
         ApplyLink, ApplyUnlink, ApplyLinkExit, RemoteMonitorTask, LinkTaskWakes, LinkTaskReports,
         BrokerRecordsExit, watchVars
  <1>2. CASE \E r \in Refs : MonitorAddress(r) \/ DemonitorAddress(r)
    BY <1>2 DEF MonitorAddress, DemonitorAddress
  <1>3. CASE LinkAddress \/ UnlinkAddress \/ OwnerDies \/ TargetDies \/ BrokerUnregisters
    BY <1>3 DEF LinkAddress, UnlinkAddress, OwnerDies, TargetDies, BrokerUnregisters
  <1> QED
    BY <1>1, <1>2, <1>3 DEF WatchNext

\* Every step of the composition keeps what is so of the children.
LEMMA SpawnNextInv == SpawnInv /\ [Next]_vars => SpawnInv'
  <1> SUFFICES ASSUME SpawnInv, [Next]_vars PROVE SpawnInv'
    OBVIOUS
  <1>1. CASE Watching
    <2>1. watch # "nothing" /\ UNCHANGED <<watch, par, kids>>
      BY <1>1, WatchFixed DEF Watching, spawnVars
    <2> QED
      BY <2>1 DEF SpawnInv
  <1>2. CASE Spawning
    <2>1. watch = "nothing" /\ SpawnNext /\ UNCHANGED watch
      BY <1>2 DEF Spawning, watchVars
    <2>2. ChildrenInv'
      BY <2>1, SpawnNextKept DEF SpawnInv
    <2> QED
      BY <2>1, <2>2 DEF SpawnInv
  <1>3. CASE Losing
    <2>1. UNCHANGED <<watch, spawnVars>>
      BY <1>3 DEF Losing, watchVars
    <2>2. PICK i \in Places : Lose(i)
      BY <1>3 DEF Losing
    <2>3. CASE watch = "nothing"
      BY <2>1, <2>2, <2>3, LoseKept DEF SpawnInv
    <2>4. CASE watch # "nothing"
      BY <2>1, <2>4 DEF SpawnInv, spawnVars
    <2> QED
      BY <2>3, <2>4
  <1>4. CASE UNCHANGED vars
    BY <1>4 DEF vars, netVars, watchVars, spawnVars, SpawnInv, ChildrenInv, PlacedInv, ParentsInv,
                WaitsInv, NodesInv, CountInv, ReportInv
  <1> QED
    BY <1>1, <1>2, <1>3, <1>4 DEF Next

\* The inductive invariant of remote supervision.
LEMMA ChildrenHold == Spec => []SpawnInv
  BY SpawnInitInv, SpawnNextInv, PTL DEF Spec

\* OkMeansExit: a shutdown that returned Ok did so after the death of a child
\* of the number it waited for, whatever waits for the same number came and
\* went meanwhile.
THEOREM ShutdownOk == Spec => []OkMeansExit
  <1>1. SpawnInv => OkMeansExit
    <2> SUFFICES ASSUME SpawnInv, NEW p \in Parents, par[p].result = "Ok"
                 PROVE  \E n \in Placements : /\ par[p].child \in DOMAIN kids[n]
                                              /\ kids[n][par[p].child].state = "dead"
      BY DEF OkMeansExit
    <2>1. PlacedInv
      BY DEF SpawnInv, ChildrenInv
    <2>2. PICK q \in Parents : par[p].child \in DeadOf(kids, q)
      BY <2>1 DEF PlacedInv, ParentsInv, ParentOK
    <2>3. kids[NodeOf[q]] \in Seq(KidType) /\ NodeOf[q] \in Placements
      BY <2>1 DEF PlacedInv, NodesInv, NodeOK, Placements
    <2> QED
      BY <2>2, <2>3 DEF DeadOf, Numbers
  <1> QED
    BY <1>1, ChildrenHold, PTL

\* InstancesAccounted: however often a request is retried, and whenever an
\* earlier one is served after all, a parent has at most one instance for each
\* attempt; with a single attempt, the instance it was told of is the only one.
THEOREM AttemptsBound == Spec => []InstancesAccounted
  <1>1. ASSUME SpawnInv, NEW p \in Parents
        PROVE  /\ Len(kids[NodeOf[p]]) <= par[p].attempt /\ par[p].attempt <= MaxAttempts
               /\ par[p].child # None /\ par[p].attempt = 1 => Len(kids[NodeOf[p]]) = 1
    <2>1. CASE watch # "nothing"
      <3>1. par[p].attempt = MaxAttempts /\ kids[NodeOf[p]] = <<>> /\ par[p].child = None
        BY <1>1, <2>1 DEF SpawnInv
      <3>2. Len(kids[NodeOf[p]]) = 0
        BY <3>1
      <3> QED
        BY <3>1, <3>2, AttemptsAssumption
    <2>2. CASE watch = "nothing"
      <3>1. PlacedInv /\ CountOK(p, par[p].attempt, kids[NodeOf[p]], net)
        BY <1>1, <2>2 DEF SpawnInv, ChildrenInv, CountInv
      <3>2. PICK s : s = kids[NodeOf[p]]
        OBVIOUS
      <3>3. par[p] \in ParentType /\ s \in Seq(KidType) /\ par[p].child \in 1..Len(s) \union {None}
        BY <3>1, <3>2 DEF PlacedInv, ParentsInv, ParentOK, NodesInv, NodeOK, Numbers
      <3>4. PICK a \in Nat : a = par[p].attempt
        BY <3>3 DEF ParentType
      <3>5. PICK c \in Nat : c = Cardinality(Asking(p, a, net))
        BY AskingFinite
      <3>6. Len(s) + c <= a /\ a <= MaxAttempts
        BY <3>1, <3>2, <3>4, <3>5 DEF CountOK
      <3>7. Len(s) \in Nat /\ Len(s) <= a
        BY <3>3, <3>6
      <3>8. ASSUME par[p].child # None, a = 1 PROVE Len(s) = 1
        <4>1. PICK l \in Nat : l = Len(s)
          BY <3>7
        <4>2. l <= 1 /\ par[p].child \in 1..l
          BY <3>3, <3>7, <3>8, <4>1
        <4> QED
          BY <4>1, <4>2
      <3> QED
        BY <3>2, <3>4, <3>6, <3>7, <3>8
    <2> QED
      BY <2>1, <2>2
  <1>2. SpawnInv => InstancesAccounted
    BY <1>1 DEF InstancesAccounted
  <1> QED
    BY <1>2, ChildrenHold, PTL

\* DeadChildReported: a parent that counts on a child that is dead has its exit
\* before it, at the broker, on its way or in its mailbox; even if the exit
\* overtook the answer that names the child, or belongs to an earlier attempt.
THEOREM DeathComes == Spec => []DeadChildReported
  <1>1. ASSUME NEW s, NEW k, NEW j \in 1..Len(s), s[j] = k, s \in Seq(Nat) \/ s \in Seq(Placements \X Nat)
        PROVE  k \in Range(s)
    <2>1. j \in DOMAIN s
      BY <1>1
    <2> QED
      BY <1>1, <2>1 DEF Range
  <1>2. ASSUME SpawnInv, NEW p \in Parents, NEW k, k = par[p].child, NEW n, n = NodeOf[p],
               par[p].step = "up", kids[n][k].state = "dead", kids[n][k].exit = "told",
               "ChildExit" \notin lost
        PROVE  ExitUnderWay(p, n, k)
    <2>1. PlacedInv /\ ReportInv
      BY <1>2 DEF SpawnInv, ChildrenInv
    <2>2. ParentOK(p, par[p], kids) /\ NodeOK(p, kids[n], far[n])
      BY <1>2, <2>1 DEF PlacedInv, ParentsInv, NodesInv
    <2>3. k \in Numbers(kids, p) /\ Told(kids[n], k) /\ Counts(par[p], k)
      BY <1>2, <2>2 DEF ParentOK, Told, Counts
    <2>4. Coming(p, k, far[n], net, par[p])
      BY <1>2, <2>1, <2>3 DEF ReportInv
    <2>5. CASE Queued(far[n], k)
      <3>1. PICK j \in 1..Len(far[n].exits) : far[n].exits[j] = k
        BY <2>5 DEF Queued
      <3>2. far[n].exits \in Seq(Nat)
        BY <2>2 DEF NodeOK
      <3> QED
        BY <1>1, <3>1, <3>2 DEF ExitUnderWay
    <2>6. CASE Carries(net, {ExitOf(p, k)})
      <3>1. PICK l \in DOMAIN net : \E j \in 1..Len(net[l]) : net[l][j] = ExitOf(p, k)
        BY <2>6 DEF Carries
      <3>2. PICK j \in 1..Len(net[l]) : net[l][j] = ExitOf(p, k)
        BY <3>1
      <3>3. net[l] \in Seq(SpawnEvents(kids))
        BY <2>1 DEF PlacedInv, IsNet
      <3>4. <<l, j>> \in Places /\ At(<<l, j>>) = ExitOf(p, k)
        BY <3>2, <3>3 DEF Places, At
      <3>5. ExitOf(p, k).kind = "ChildExit" /\ ExitOf(p, k).link[1] = n /\ ExitOf(p, k).body = <<p, k>>
        BY <1>2 DEF ExitOf, Event
      <3> QED
        BY <3>4, <3>5 DEF ExitUnderWay
    <2>7. CASE Heard(p, k, par[p])
      <3>1. PICK j \in 1..Len(par[p].exits) : par[p].exits[j] = <<n, k>>
        BY <1>2, <2>7 DEF Heard
      <3>2. par[p].exits \in Seq(Placements \X Nat)
        BY <2>2 DEF ParentOK, ParentType
      <3> QED
        BY <1>1, <3>1, <3>2 DEF ExitUnderWay
    <2> QED
      BY <2>4, <2>5, <2>6, <2>7 DEF Coming
  <1>3. SpawnInv => DeadChildReported
    BY <1>2 DEF DeadChildReported
  <1> QED
    BY <1>3, ChildrenHold, PTL
=============================================================================
