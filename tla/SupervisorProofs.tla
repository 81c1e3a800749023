-------------------------- MODULE SupervisorProofs --------------------------
(***************************************************************************)
(* Proofs about Supervisor, for any number of children, any policies, any  *)
(* number of crashes and any length of time.                               *)
(***************************************************************************)
EXTENDS Supervisor, FiniteSetTheorems, WellFoundedInduction, TLAPS

InstType ==
    [life : {"up", "gone", "dead"}, asks : SUBSET Reasons, why : Reasons \union {None},
     linked : BOOLEAN]

TypeInv ==
    /\ policy \in Policies
    /\ inst \in [Kids -> Seq(InstType)]
    /\ slot \in [Kids -> [gen : Nat, alive : BOOLEAN]]
    /\ exits \in Seq(Kids \X Nat \X (Reasons \union {None}))
    /\ batch \in Kids \union {None}
    /\ pc \in {"start", "link", "loop", "shut", "wait", "timed", "leave", "end", "dead"}
    /\ goal \in {"init", "restart", "batch", "stop"}
    /\ work \in Seq(Kids)
    /\ inherited \in Reasons \union {None}

-----------------------------------------------------------------------------
(* The inductive invariant.                                                *)

\* No instance of a child runs.
Quiet(i) == \A g \in 1..Len(inst[i]) : inst[i][g].life # "up"

\* An instance that has left its loop.
Over(i, g) == g \in 1..Len(inst[i]) /\ inst[i][g].life # "up"

\* The child spawned and not yet in its slot.
Starting(i) == pc = "link" /\ i = Head(work)

\* Only the last instance of a child runs, and an Exit comes from one that does not.
LastUp == \A i \in Kids : \A g \in 1..Len(inst[i]) : inst[i][g].life = "up" => g = Len(inst[i])
ExitsOver == \A k \in 1..Len(exits) : Over(exits[k][1], exits[k][2])

\* The slot has the last instance, and one that is not alive does not run.
SlotsAgree ==
    \A i \in Kids :
        /\ slot[i].gen = IF Starting(i) THEN Len(inst[i]) - 1 ELSE Len(inst[i])
        /\ ~slot[i].alive /\ ~Starting(i) => Quiet(i)

\* A loop names each child once, and only children that do not run are started.
Distinct(w) == \A j, k \in 1..Len(w) : w[j] = w[k] => j = k
WorkInv ==
    /\ Distinct(work)
    /\ pc \in {"start", "link", "shut", "wait", "timed"} => work # <<>>
    /\ pc = "start" => \A k \in 1..Len(work) : Quiet(work[k])
    /\ pc = "link" => \A k \in 2..Len(work) : Quiet(work[k])
    /\ pc \in {"shut", "wait", "timed"} => goal \in {"batch", "stop"}

\* The end: from the last child to the first, those behind do not run.
StopInv ==
    /\ goal = "stop" /\ pc \in {"shut", "wait", "timed"} =>
         /\ Len(work) <= N
         /\ \A k \in 1..Len(work) : work[k] = Len(work) + 1 - k
         /\ \A j \in Kids : j > Len(work) => Quiet(j)
    /\ pc \in {"end", "dead"} /\ "kill" \notin asked => \A i \in Kids : Quiet(i)

SupInv == TypeInv /\ LastUp /\ ExitsOver /\ SlotsAgree /\ WorkInv /\ StopInv

-----------------------------------------------------------------------------
(* Instances.                                                              *)

\* No instance is added and none runs again.
Fades ==
    /\ inst' \in [Kids -> Seq(InstType)]
    /\ \A i \in Kids : Len(inst'[i]) = Len(inst[i])
    /\ \A i \in Kids : \A g \in 1..Len(inst[i]) :
         inst[i][g].life # "up" => inst'[i][g].life # "up"

\* The children are numbered from 1 up.
LEMMA Numbered ==
    TypeInv => /\ N \in Nat \ {0} /\ Kids = 1..N
               /\ policy.restart \in Seq({"Permanent", "Transient", "Temporary"})
  BY PoliciesAssumption DEF TypeInv, N, Kids

\* One instance changes.
LEMMA OneFades ==
    ASSUME TypeInv, NEW i \in Kids, NEW g, NEW v,
           g \in 1..Len(inst[i]) => v \in InstType /\ (inst[i][g].life # "up" => v.life # "up"),
           inst' = [inst EXCEPT ![i] = [inst[i] EXCEPT ![g] = v]]
    PROVE  Fades
  <1> DEFINE s == inst[i]
             t == [s EXCEPT ![g] = v]
  <1>1. s \in Seq(InstType) /\ DOMAIN s = 1..Len(s) /\ Len(s) \in Nat
    BY DEF TypeInv
  <1>2. t \in Seq(InstType) /\ Len(t) = Len(s)
    <2>1. t \in [1..Len(s) -> InstType]
      <3>1. s \in [1..Len(s) -> InstType]
        BY <1>1
      <3>2. CASE g \in 1..Len(s)
        BY <3>1, <3>2
      <3>3. CASE g \notin 1..Len(s)
        <4>1. t = s
          BY <3>1, <3>3
        <4> QED
          BY <3>1, <4>1
      <3> QED
        BY <3>2, <3>3
    <2> QED
      BY <1>1, <2>1
  <1>3. \A h \in 1..Len(s) : s[h].life # "up" => t[h].life # "up"
    BY <1>1
  <1>4. inst'[i] = t /\ \A j \in Kids \ {i} : inst'[j] = inst[j]
    BY DEF TypeInv
  <1>5. inst' \in [Kids -> Seq(InstType)]
    BY <1>2 DEF TypeInv
  <1> QED
    BY <1>2, <1>3, <1>4, <1>5 DEF Fades

\* What fading keeps.
LEMMA Faded ==
    ASSUME TypeInv, Fades, UNCHANGED policy
    PROVE  /\ \A i \in Kids : Quiet(i) => Quiet(i)'
           /\ \A i \in Kids : \A g : Over(i, g) => Over(i, g)'
           /\ LastUp => LastUp'
  <1>1. Kids' = Kids
    BY DEF Kids, N
  <1>2. \A i \in Kids : Quiet(i) => Quiet(i)'
    BY DEF Fades, Quiet
  <1>3. \A i \in Kids : \A g : Over(i, g) => Over(i, g)'
    BY DEF Fades, Over
  <1>4. LastUp => LastUp'
    BY <1>1 DEF Fades, LastUp
  <1> QED
    BY <1>2, <1>3, <1>4

\* The steps of the children and of the outside: the supervisor's own state is
\* left alone, except that an Exit may be queued.
Outside ==
    /\ Fades
    /\ UNCHANGED <<policy, slot, batch, pc, work, goal>>
    /\ asked \subseteq asked' /\ inherited' \in Reasons \union {None}
    /\ \/ UNCHANGED exits
       \/ \E i \in Kids, g \in Nat, r \in Reasons \union {None} :
            exits' = Append(exits, <<i, g, r>>) /\ Over(i, g)'

\* A queue of exits with one more that is over.
LEMMA Queues ==
    ASSUME TypeInv, ExitsOver, Fades, UNCHANGED policy,
           \/ UNCHANGED exits
           \/ \E i \in Kids, g \in Nat, r \in Reasons \union {None} :
                exits' = Append(exits, <<i, g, r>>) /\ Over(i, g)'
    PROVE  exits' \in Seq(Kids \X Nat \X (Reasons \union {None})) /\ ExitsOver'
  <1> DEFINE T == Kids \X Nat \X (Reasons \union {None})
  <1>0. exits \in Seq(T)
    BY DEF TypeInv
  <1>1. ASSUME NEW k \in 1..Len(exits)
        PROVE  (Over(exits[k][1], exits[k][2]))' \/ exits'[k] # exits[k]
    <2>1. exits[k] \in T /\ exits[k][1] \in Kids
      BY <1>0
    <2>2. Over(exits[k][1], exits[k][2])
      BY DEF ExitsOver
    <2> QED
      BY <2>1, <2>2, Faded DEF Over
  <1>2. CASE UNCHANGED exits
    BY <1>0, <1>1, <1>2 DEF ExitsOver
  <1>3. ASSUME NEW i \in Kids, NEW g \in Nat, NEW r \in Reasons \union {None},
               exits' = Append(exits, <<i, g, r>>), Over(i, g)'
        PROVE  exits' \in Seq(T) /\ ExitsOver'
    <2>1. <<i, g, r>> \in T
      OBVIOUS
    <2>2. /\ exits' \in Seq(T) /\ Len(exits') = Len(exits) + 1 /\ Len(exits) \in Nat
          /\ exits'[Len(exits) + 1] = <<i, g, r>>
          /\ \A k \in 1..Len(exits) : exits'[k] = exits[k]
      BY <1>0, <1>3, <2>1
    <2>3. ASSUME NEW k \in 1..Len(exits) + 1 PROVE (Over(exits[k][1], exits[k][2]))'
      <3>1. CASE k = Len(exits) + 1
        <4>1. exits'[k][1] = i /\ exits'[k][2] = g
          BY <2>2, <3>1
        <4> QED
          BY <1>3, <4>1 DEF Over
      <3>2. CASE k \in 1..Len(exits)
        BY <1>1, <2>2, <3>2
      <3> QED
        BY <2>2, <3>1, <3>2
    <2> QED
      BY <2>2, <2>3 DEF ExitsOver
  <1> QED
    BY <1>2, <1>3

\* They keep the invariant.
LEMMA OutsideStep == SupInv /\ Outside => SupInv'
  <1> SUFFICES ASSUME SupInv, Outside PROVE SupInv'
    OBVIOUS
  <1>0. /\ TypeInv /\ Fades /\ UNCHANGED <<policy, slot, batch, pc, work, goal>>
        /\ N' = N /\ Kids' = Kids
    BY DEF SupInv, Outside, N, Kids
  <1>1. exits' \in Seq(Kids \X Nat \X (Reasons \union {None})) /\ ExitsOver'
    BY <1>0, Queues DEF Outside, SupInv
  <1>2. TypeInv'
    BY <1>0, <1>1 DEF TypeInv, Fades, Outside
  <1>3. LastUp' /\ \A i \in Kids : Quiet(i) => Quiet(i)'
    BY <1>0, Faded DEF SupInv
  <1>4. SlotsAgree'
    BY <1>0, <1>3 DEF SupInv, SlotsAgree, Starting, Fades
  <1>5. WorkInv'
    <2>1. \A k \in 1..Len(work) : work[k] \in Kids
      BY <1>0 DEF TypeInv
    <2> QED
      BY <1>0, <1>3, <2>1 DEF SupInv, WorkInv, Distinct
  <1>6. StopInv'
    BY <1>0, <1>3 DEF SupInv, StopInv, Outside
  <1> QED
    BY <1>1, <1>2, <1>3, <1>4, <1>5, <1>6 DEF SupInv

\* Die, Publish, stop() and kill() on the supervisor, and the clock are such steps.
LEMMA OutsideSteps ==
    ASSUME SupInv,
           \/ \E i \in Kids : ChildStep(i)
           \/ \E q \in policy.requests : Ask(q)
           \/ Tick
    PROVE  Outside
  <1>0. TypeInv
    BY DEF SupInv
  <1>1. ASSUME UNCHANGED inst PROVE Fades
    BY <1>0, <1>1 DEF TypeInv, Fades
  <1>2. ASSUME NEW i \in Kids, NEW g \in 1..Len(inst[i]), Publish(i, g) PROVE Outside
    <2> DEFINE v == [inst[i][g] EXCEPT !.life = "dead"]
    <2>1. inst[i][g] \in InstType
      BY <1>0 DEF TypeInv
    <2>2. v \in InstType /\ v.life # "up"
      BY <2>1 DEF InstType
    <2>3. inst' = [inst EXCEPT ![i] = [inst[i] EXCEPT ![g] = v]]
      BY <1>2 DEF Publish
    <2>4. Fades
      BY <1>0, <2>2, <2>3, OneFades
    <2> QED
      BY <1>0, <1>2, <2>4 DEF Publish, Outside, TypeInv, logic, own
  <1>3. ASSUME NEW i \in Kids, NEW g \in 1..Len(inst[i]), NEW r \in Reasons, Die(i, g, r)
        PROVE  Outside
    <2> DEFINE v == [inst[i][g] EXCEPT !.life = "gone", !.why = r]
    <2>1. inst[i][g] \in InstType /\ inst[i] \in Seq(InstType)
      BY <1>0 DEF TypeInv
    <2>2. v \in InstType /\ v.life # "up"
      BY <2>1 DEF InstType
    <2>3. inst' = [inst EXCEPT ![i] = [inst[i] EXCEPT ![g] = v]]
      BY <1>3 DEF Die
    <2>4. Fades
      BY <1>0, <2>2, <2>3, OneFades
    <2>5. Over(i, g)'
      <3>1. inst'[i] = [inst[i] EXCEPT ![g] = v] /\ Len(inst'[i]) = Len(inst[i])
        BY <1>0, <2>3, <2>4 DEF TypeInv, Fades
      <3>2. inst'[i][g] = v
        BY <2>1, <3>1
      <3> QED
        BY <2>2, <3>1, <3>2 DEF Over
    <2>6. UNCHANGED exits \/ exits' = Append(exits, <<i, g, r>>)
      BY <1>3 DEF Die, Signal
    <2>7. g \in Nat
      BY <2>1
    <2>8. UNCHANGED <<policy, slot, batch, pc, work, goal, asked>>
      BY <1>3 DEF Die, logic
    <2>9. inherited' \in Reasons \union {None}
      BY <1>0, <1>3 DEF Die, Signal, TypeInv
    <2> QED
      BY <2>4, <2>5, <2>6, <2>7, <2>8, <2>9 DEF Outside
  <1>4. ASSUME NEW q, Ask(q) PROVE Outside
    BY <1>0, <1>1, <1>4 DEF Ask, Outside, TypeInv, logic
  <1>5. CASE Tick
    BY <1>0, <1>1, <1>5 DEF Tick, Outside, TypeInv, logic, own
  <1> QED
    BY <1>2, <1>3, <1>4, <1>5 DEF ChildStep

-----------------------------------------------------------------------------
(* The supervisor.                                                         *)

\* A new instance is the only one of its child that runs.
LEMMA SpawnStep == SupInv /\ SpawnChild => SupInv'
  <1> SUFFICES ASSUME SupInv, SpawnChild PROVE SupInv'
    OBVIOUS
  <1> DEFINE i == Head(work)
             new == [life |-> "up", asks |-> {}, why |-> None, linked |-> FALSE]
             s == inst[i]
  <1>0. /\ TypeInv /\ pc = "start" /\ pc' = "link" /\ N' = N /\ Kids' = Kids
        /\ UNCHANGED <<policy, slot, exits, batch, work, goal, asked, inherited>>
    BY DEF SupInv, SpawnChild, N, Kids, logic, own
  <1>1. work \in Seq(Kids) /\ work # <<>> /\ i = work[1] /\ i \in Kids /\ Len(work) \in Nat \ {0}
    BY <1>0 DEF SupInv, TypeInv, WorkInv
  <1>2. new \in InstType
    BY DEF InstType
  <1>3. /\ inst'[i] = Append(s, new) /\ \A j \in Kids \ {i} : inst'[j] = inst[j]
        /\ inst' \in [Kids -> Seq(InstType)]
    BY <1>0, <1>1, <1>2 DEF SpawnChild, TypeInv
  <1>4. /\ s \in Seq(InstType) /\ Len(s) \in Nat /\ Len(inst'[i]) = Len(s) + 1
        /\ inst'[i][Len(s) + 1] = new
        /\ \A g \in 1..Len(s) : inst'[i][g] = s[g]
    <2>1. s \in Seq(InstType)
      BY <1>0, <1>1 DEF TypeInv
    <2> HIDE DEF s, new
    <2> QED
      BY <1>2, <1>3, <2>1
  <1>5. Quiet(i)
    BY <1>0, <1>1 DEF SupInv, WorkInv
  <1>6. TypeInv'
    BY <1>0, <1>3 DEF TypeInv
  <1>7. LastUp'
    <2>1. ASSUME NEW g \in 1..Len(s) + 1, inst'[i][g].life = "up" PROVE g = Len(s) + 1
      <3>1. CASE g \in 1..Len(s)
        BY <1>4, <1>5, <2>1, <3>1 DEF Quiet
      <3> QED
        BY <1>4, <3>1
    <2>2. ASSUME NEW j \in Kids, NEW g \in 1..Len(inst'[j]), inst'[j][g].life = "up"
          PROVE  g = Len(inst'[j])
      <3>1. CASE j = i
        BY <1>4, <2>1, <2>2, <3>1
      <3>2. CASE j # i
        BY <1>3, <2>2, <3>2 DEF SupInv, LastUp
      <3> QED
        BY <3>1, <3>2
    <2> QED
      BY <1>0, <2>2 DEF LastUp
  <1>8. ASSUME NEW j \in Kids, NEW g, Over(j, g) PROVE Over(j, g)'
    <2>1. CASE j = i
      BY <1>4, <1>8, <2>1 DEF Over
    <2>2. CASE j # i
      BY <1>3, <1>8, <2>2 DEF Over
    <2> QED
      BY <2>1, <2>2
  <1>9. ExitsOver'
    <2> SUFFICES ASSUME NEW k \in 1..Len(exits) PROVE Over(exits[k][1], exits[k][2])'
      BY <1>0 DEF ExitsOver
    <2>1. exits[k] \in Kids \X Nat \X (Reasons \union {None})
      BY <1>0 DEF TypeInv
    <2>2. exits[k][1] \in Kids
      BY <2>1
    <2>3. Over(exits[k][1], exits[k][2])
      BY DEF SupInv, ExitsOver
    <2>4. PICK j \in Kids : j = exits[k][1]
      BY <2>2
    <2>5. PICK g : g = exits[k][2]
      OBVIOUS
    <2>6. Over(j, g)'
      BY <1>8, <2>3, <2>4, <2>5
    <2>7. exits' = exits
      BY <1>0
    <2> QED
      BY <2>4, <2>5, <2>6, <2>7 DEF Over
  <1>10. \A j \in Kids \ {i} : Quiet(j) => Quiet(j)'
    BY <1>3 DEF Quiet
  <1>11. SlotsAgree'
    <2>1. \A j \in Kids : ~Starting(j) /\ (Starting(j)' <=> j = i)
      BY <1>0 DEF Starting
    <2>2. ASSUME NEW j \in Kids \ {i}
          PROVE  slot'[j].gen = Len(inst'[j]) /\ (~slot'[j].alive => Quiet(j)')
      <3>1. slot[j].gen = Len(inst[j]) /\ (~slot[j].alive => Quiet(j))
        BY <2>1 DEF SupInv, SlotsAgree
      <3> QED
        BY <1>0, <1>3, <1>10, <3>1
    <2>3. slot'[i].gen = Len(inst'[i]) - 1
      <3>1. slot[i].gen = Len(s)
        BY <1>1, <2>1 DEF SupInv, SlotsAgree
      <3> QED
        BY <1>0, <1>4, <3>1
    <2> HIDE DEF i, s
    <2> QED
      BY <1>0, <2>1, <2>2, <2>3 DEF SlotsAgree
  <1>12. WorkInv'
    <2>1. \A k \in 2..Len(work) : work[k] \in Kids \ {i} /\ Quiet(work[k])
      BY <1>0, <1>1 DEF SupInv, WorkInv, Distinct
    <2>2. \A k \in 2..Len(work) : Quiet(work[k])'
      BY <1>0, <1>10, <2>1
    <2> QED
      BY <1>0, <2>2 DEF SupInv, WorkInv
  <1>13. StopInv'
    BY <1>0 DEF StopInv
  <1> QED
    BY <1>6, <1>7, <1>9, <1>11, <1>12, <1>13 DEF SupInv

\* Where a step of the supervisor other than a spawn may leave it.
Reaches ==
    /\ pc' \in {"start", "loop", "shut", "wait", "timed", "leave", "end", "dead"}
    /\ goal' \in {"init", "restart", "batch", "stop"}
    /\ work' \in Seq(Kids) /\ Distinct(work')
    /\ batch' \in Kids \union {None}
    /\ pc' = "start" => work' # <<>> /\ \A k \in 1..Len(work') : Quiet(work'[k])
    /\ pc' \in {"shut", "wait", "timed"} =>
         /\ work' # <<>>
         /\ \/ goal' = "batch"
            \/ /\ goal' = "stop" /\ Len(work') <= N
               /\ \A k \in 1..Len(work') : work'[k] = Len(work') + 1 - k
               /\ \A j \in Kids : j > Len(work') => Quiet(j)
    /\ pc' \in {"end", "dead"} /\ "kill" \notin asked => \A i \in Kids : Quiet(i)

\* Such a step keeps the invariant if it leaves the slots in order.
LEMMA Moved ==
    ASSUME SupInv, Fades, Reaches, UNCHANGED <<policy, asked>>,
           inherited' \in Reasons \union {None},
           exits' \in Seq(Kids \X Nat \X (Reasons \union {None})), ExitsOver',
           slot' \in [Kids -> [gen : Nat, alive : BOOLEAN]],
           \A i \in Kids : slot'[i].gen = Len(inst[i]) /\ (~slot'[i].alive => Quiet(i))
    PROVE  SupInv'
  <1>0. TypeInv /\ N' = N /\ Kids' = Kids
    BY DEF SupInv, N, Kids
  <1>1. LastUp' /\ \A i \in Kids : Quiet(i) => Quiet(i)'
    BY <1>0, Faded DEF SupInv
  <1>2. TypeInv'
    BY <1>0 DEF TypeInv, Fades, Reaches
  <1>3. SlotsAgree'
    BY <1>0, <1>1 DEF SlotsAgree, Starting, Fades, Reaches
  <1>4. WorkInv'
    <2>1. \A k \in 1..Len(work') : work'[k] \in Kids
      BY DEF Reaches
    <2>2. pc' = "start" => \A k \in 1..Len(work') : (Quiet(work[k]))'
      BY <1>1, <2>1 DEF Reaches, Quiet
    <2> QED
      BY <2>2 DEF WorkInv, Reaches, Distinct
  <1>5. StopInv'
    BY <1>0, <1>1 DEF StopInv, Reaches
  <1> QED
    BY <1>1, <1>2, <1>3, <1>4, <1>5 DEF SupInv

\* The tail of a sequence of children.
LEMMA TailOf ==
    ASSUME NEW S, NEW w \in Seq(S), w # <<>>
    PROVE  /\ Len(w) \in Nat \ {0} /\ Head(w) = w[1] /\ Head(w) \in S
           /\ Tail(w) \in Seq(S) /\ Len(Tail(w)) = Len(w) - 1
           /\ \A k \in 1..Len(Tail(w)) : Tail(w)[k] = w[k + 1]
           /\ Distinct(w) => Distinct(Tail(w))
  <1>1. /\ Len(w) \in Nat \ {0} /\ Head(w) = w[1] /\ Head(w) \in S
        /\ Tail(w) \in Seq(S) /\ Len(Tail(w)) = Len(w) - 1
        /\ \A k \in 1..Len(Tail(w)) : Tail(w)[k] = w[k + 1]
    OBVIOUS
  <1>2. ASSUME Distinct(w), NEW j \in 1..Len(Tail(w)), NEW k \in 1..Len(Tail(w)),
               Tail(w)[j] = Tail(w)[k]
        PROVE  j = k
    <2>1. j + 1 \in 1..Len(w) /\ k + 1 \in 1..Len(w) /\ w[j + 1] = w[k + 1]
      BY <1>1, <1>2
    <2>2. j + 1 = k + 1
      BY <1>2, <2>1 DEF Distinct
    <2> QED
      BY <1>1, <2>2
  <1> QED
    BY <1>1, <1>2 DEF Distinct

\* The new instance is linked and put in its slot.
LEMMA LinkStep == SupInv /\ LinkChild => SupInv'
  <1> SUFFICES ASSUME SupInv, LinkChild PROVE SupInv'
    OBVIOUS
  <1>0. TypeInv /\ pc = "link" /\ UNCHANGED <<policy, asked, batch, goal>>
    BY DEF SupInv, LinkChild
  <1>w. work \in Seq(Kids) /\ work # <<>> /\ Distinct(work)
    BY <1>0 DEF SupInv, TypeInv, WorkInv
  <1>t. /\ Len(work) \in Nat \ {0} /\ Head(work) = work[1] /\ Head(work) \in Kids
        /\ Tail(work) \in Seq(Kids) /\ Len(Tail(work)) = Len(work) - 1
        /\ \A k \in 1..Len(Tail(work)) : Tail(work)[k] = work[k + 1]
        /\ Distinct(Tail(work))
    BY <1>w, TailOf
  <1>i. PICK i \in Kids : i = Head(work)
    BY <1>t
  <1>g. PICK g \in Nat : g = Len(inst[i])
    BY <1>0 DEF TypeInv
  <1> DEFINE v == [inst[i][g] EXCEPT !.linked = (Life(i, g) = "up")]
  <1>1. slot[i].gen = g - 1 /\ slot[i].gen \in Nat /\ inst[i] \in Seq(InstType) /\ g \in Nat
    BY <1>0, <1>i, <1>g DEF SupInv, SlotsAgree, Starting, TypeInv
  <1>2. g \in 1..Len(inst[i]) /\ inst[i][g] \in InstType
    BY <1>1, <1>g
  <1>3. v \in InstType /\ v.life = inst[i][g].life
    BY <1>2 DEF InstType
  <1>4. inst' = [inst EXCEPT ![i] = [inst[i] EXCEPT ![g] = v]]
    BY <1>i, <1>g DEF LinkChild
  <1>5. Fades
    BY <1>0, <1>3, <1>4, OneFades
  <1>6. exits' \in Seq(Kids \X Nat \X (Reasons \union {None})) /\ ExitsOver'
    <2>1. CASE Life(i, g) = "dead"
      <3>1. Over(i, g)
        BY <1>2, <2>1 DEF Over, Life
      <3>2. Over(i, g)'
        BY <1>0, <1>5, <3>1, Faded
      <3>3. inst[i][g].why \in Reasons \union {None}
        BY <1>2 DEF InstType
      <3>4. UNCHANGED exits \/ exits' = Append(exits, <<i, g, inst[i][g].why>>)
        BY <1>i, <1>g, <2>1 DEF LinkChild, Signal
      <3> QED
        BY <1>0, <1>1, <1>5, <3>2, <3>3, <3>4, Queues DEF SupInv
    <2>2. CASE Life(i, g) # "dead"
      <3>1. UNCHANGED exits
        BY <1>i, <1>g, <2>2 DEF LinkChild
      <3> QED
        BY <1>0, <1>5, <3>1, Queues DEF SupInv
    <2> QED
      BY <2>1, <2>2
  <1>7. slot' = [slot EXCEPT ![i] = [gen |-> g, alive |-> TRUE]]
    BY <1>i, <1>g DEF LinkChild
  <1>8. slot' \in [Kids -> [gen : Nat, alive : BOOLEAN]]
    BY <1>0, <1>1, <1>7 DEF TypeInv
  <1>9. \A j \in Kids : slot'[j].gen = Len(inst[j]) /\ (~slot'[j].alive => Quiet(j))
    BY <1>0, <1>i, <1>g, <1>7 DEF SupInv, TypeInv, SlotsAgree, Starting
  <1>10. Reaches
    <2>1. work' = Tail(work)
      BY DEF LinkChild
    <2>2. CASE Len(work) = 1
      <3>1. pc' \in {"leave", "loop"}
        BY <2>2 DEF LinkChild, AfterCallback
      <3> QED
        BY <1>0, <1>t, <2>1, <3>1 DEF Reaches, TypeInv
    <2>3. CASE Len(work) # 1
      <3>1. pc' = "start"
        BY <2>3 DEF LinkChild
      <3>2. \A k \in 1..Len(Tail(work)) : Quiet(Tail(work)[k])
        BY <1>0, <1>t DEF SupInv, WorkInv
      <3>3. Tail(work) # <<>>
        <4>1. Len(Tail(work)) # 0
          BY <1>t, <2>3
        <4>2. Len(<<>>) = 0
          OBVIOUS
        <4> QED
          BY <4>1, <4>2
      <3> QED
        BY <1>0, <1>t, <2>1, <3>1, <3>2, <3>3 DEF Reaches, TypeInv
    <2> QED
      BY <2>2, <2>3
  <1>11. inherited' \in Reasons \union {None}
    <2>1. inst[i][g].why \in Reasons \union {None}
      BY <1>2 DEF InstType
    <2> QED
      BY <1>0, <1>i, <1>g, <2>1 DEF LinkChild, Signal, TypeInv
  <1> QED
    BY <1>0, <1>5, <1>6, <1>8, <1>9, <1>10, <1>11, Moved

\* The ids from one on, in start order.
LEMMA IdsAre ==
    ASSUME TypeInv, NEW first \in Kids
    PROVE  /\ IdsFrom(first) \in Seq(Kids) /\ IdsFrom(first) # <<>> /\ Distinct(IdsFrom(first))
           /\ \A k \in 1..Len(IdsFrom(first)) : IdsFrom(first)[k] \in first..N
  <1>0. N \in Nat \ {0} /\ Kids = 1..N
    BY Numbered
  <1>1. Ids \in [1..N -> Kids] /\ \A k \in 1..N : Ids[k] = k
    BY <1>0 DEF Ids
  <1>2. Ids \in Seq(Kids) /\ Len(Ids) = N
    BY <1>0, <1>1
  <1> DEFINE w == SubSeq(Ids, first, N)
  <1>3. /\ w \in Seq(Kids) /\ Len(w) = N + 1 - first
        /\ \A k \in 1..Len(w) : w[k] = first + k - 1
    <2>1. first \in 1..N + 1 /\ N \in 0..Len(Ids)
      BY <1>0, <1>2
    <2>2. /\ w \in Seq(Kids) /\ Len(w) = N + 1 - first
          /\ \A k \in 1..Len(w) : w[k] = Ids[first + k - 1]
      BY <1>0, <1>2, <2>1
    <2>3. \A k \in 1..Len(w) : first + k - 1 \in 1..N
      BY <1>0, <2>2
    <2> QED
      BY <1>1, <2>2, <2>3
  <1>4. w # <<>>
    <2>1. Len(w) # 0 /\ Len(<<>>) = 0
      BY <1>0, <1>3
    <2> QED
      BY <2>1
  <1>5. Distinct(w) /\ \A k \in 1..Len(w) : w[k] \in first..N
    <2>1. first \in Nat /\ Len(w) \in Nat
      BY <1>0, <1>3
    <2> HIDE DEF w
    <2>2. \A j, k \in 1..Len(w) : w[j] = w[k] => j = k
      BY <1>3, <2>1
    <2>3. \A k \in 1..Len(w) : w[k] \in first..N
      BY <1>0, <1>3, <2>1
    <2> QED
      BY <2>2, <2>3 DEF Distinct
  <1> QED
    BY <1>3, <1>4, <1>5 DEF IdsFrom

\* The end of a callback, and the batch it may complete: the children of a
\* complete batch do not run.
LEMMA BatchDone ==
    ASSUME SupInv, NEW s \in [Kids -> [gen : Nat, alive : BOOLEAN]],
           \A i \in Kids : ~s[i].alive => Quiet(i),
           MaybeCompleteBatch(s)
    PROVE  Reaches
  <1>0. TypeInv /\ Kids = 1..N /\ N \in Nat
    BY Numbered DEF SupInv
  <1>1. CASE batch # None /\ BatchComplete(s)
    <2>1. batch \in Kids
      BY <1>0, <1>1 DEF TypeInv
    <2>2. work' = IdsFrom(batch) /\ goal' = "restart" /\ pc' = "start" /\ batch' = None
      BY <1>1 DEF MaybeCompleteBatch
    <2>3. /\ IdsFrom(batch) \in Seq(Kids) /\ IdsFrom(batch) # <<>> /\ Distinct(IdsFrom(batch))
          /\ \A k \in 1..Len(IdsFrom(batch)) : IdsFrom(batch)[k] \in batch..N
      BY <1>0, <2>1, IdsAre
    <2>4. \A i \in batch..N : Quiet(i)
      BY <1>0, <1>1, <2>1 DEF BatchComplete
    <2> QED
      BY <2>2, <2>3, <2>4 DEF Reaches
  <1>2. CASE ~(batch # None /\ BatchComplete(s))
    <2>1. pc' \in {"leave", "loop"} /\ work' = <<>> /\ UNCHANGED <<goal, batch>>
      BY <1>2 DEF MaybeCompleteBatch, AfterCallback
    <2>2. <<>> \in Seq(Kids) /\ Distinct(<<>>)
      BY DEF Distinct
    <2> QED
      BY <1>0, <2>1, <2>2 DEF Reaches, TypeInv
  <1> QED
    BY <1>1, <1>2

\* The front of the queue, looked up: an Exit known to the supervisor is that of
\* the last instance of its child, and the child does not run.
LEMMA KnownOver ==
    ASSUME SupInv, pc = "loop", exits # <<>>
    PROVE  /\ Head(exits)[1] \in Kids
           /\ Over(Head(exits)[1], Head(exits)[2])
           /\ KnownChild(Head(exits)[1], Head(exits)[2]) =>
                Head(exits)[2] = Len(inst[Head(exits)[1]]) /\ Quiet(Head(exits)[1])
  <1> DEFINE e == Head(exits)
  <1>1. exits \in Seq(Kids \X Nat \X (Reasons \union {None}))
    BY DEF SupInv, TypeInv
  <1>2. e = exits[1] /\ Len(exits) \in Nat \ {0} /\ e \in Kids \X Nat \X (Reasons \union {None})
    BY <1>1
  <1>3. e[1] \in Kids /\ e[2] \in Nat /\ Over(e[1], e[2])
    BY <1>2 DEF SupInv, ExitsOver
  <1>4. KnownChild(e[1], e[2]) => e[2] = Len(inst[e[1]])
    BY <1>3 DEF KnownChild, SupInv, SlotsAgree, Starting
  <1>5. e[2] = Len(inst[e[1]]) => Quiet(e[1])
    BY <1>3 DEF SupInv, LastUp, Over, Quiet
  <1> QED
    BY <1>3, <1>4, <1>5

\* An Exit is handled: nothing, a restart, a batch or a meltdown.
LEMMA HandleStep == SupInv /\ HandleExit => SupInv'
  <1> SUFFICES ASSUME SupInv, HandleExit PROVE SupInv'
    OBVIOUS
  <1>0. /\ TypeInv /\ pc = "loop" /\ exits # <<>> /\ exits' = Tail(exits)
        /\ UNCHANGED <<policy, inst, asked>> /\ N \in Nat \ {0} /\ Kids = 1..N
    BY Numbered DEF SupInv, HandleExit
  <1>e. PICK i \in Kids, g \in Nat : i = Head(exits)[1] /\ g = Head(exits)[2]
    <2> DEFINE T == Kids \X Nat \X (Reasons \union {None})
    <2>1. exits \in Seq(T)
      BY <1>0 DEF TypeInv
    <2>2. Head(exits) \in T
      BY <1>0, <2>1
    <2> QED
      BY <2>2
  <1> DEFINE known == KnownChild(i, g)
             marked == IF known THEN [slot EXCEPT ![i].alive = FALSE] ELSE slot
  <1>1. known => Quiet(i) /\ g = Len(inst[i])
    BY <1>0, <1>e, KnownOver
  <1>2. slot' = marked
    BY <1>e DEF HandleExit
  <1>3. /\ marked \in [Kids -> [gen : Nat, alive : BOOLEAN]]
        /\ \A j \in Kids : marked[j].gen = slot[j].gen
        /\ \A j \in Kids : ~marked[j].alive => ~slot[j].alive \/ (j = i /\ known)
    BY <1>0 DEF TypeInv
  <1>4. \A j \in Kids : marked[j].gen = Len(inst[j]) /\ (~marked[j].alive => Quiet(j))
    BY <1>0, <1>1, <1>3 DEF SupInv, SlotsAgree, Starting
  <1>5. Fades
    BY <1>0 DEF Fades, TypeInv
  <1>6. exits' \in Seq(Kids \X Nat \X (Reasons \union {None})) /\ ExitsOver'
    <2> DEFINE T == Kids \X Nat \X (Reasons \union {None})
    <2>1. exits \in Seq(T)
      BY <1>0 DEF TypeInv
    <2>2. /\ Tail(exits) \in Seq(T) /\ Len(Tail(exits)) = Len(exits) - 1 /\ Len(exits) \in Nat
          /\ \A k \in 1..Len(Tail(exits)) : Tail(exits)[k] = exits[k + 1]
      BY <1>0, <2>1
    <2>3. ASSUME NEW k \in 1..Len(Tail(exits)) PROVE Over(Tail(exits)[k][1], Tail(exits)[k][2])
      <3>1. k + 1 \in 1..Len(exits)
        BY <2>2
      <3> QED
        BY <2>2, <3>1 DEF SupInv, ExitsOver
    <2> QED
      BY <1>0, <2>2, <2>3 DEF ExitsOver, Over
  <1>7. Reaches
    <2>1. CASE suppress
      <3>1. MaybeCompleteBatch(marked)
        BY <1>e, <2>1 DEF HandleExit
      <3> QED
        BY <1>3, <1>4, <3>1, BatchDone
    <2>2. CASE ~suppress /\ known /\ DecideRestart(i, g)
      <3>1. CASE IntensityExceeded(Expire(stamps))
        <4>1. pc' \in {"leave", "loop"} /\ UNCHANGED <<work, goal, batch>>
          BY <2>2, <3>1 DEF DecideRestart, AfterCallback
        <4> QED
          BY <1>0, <4>1 DEF Reaches, SupInv, TypeInv, WorkInv
      <3>2. CASE ~IntensityExceeded(Expire(stamps)) /\ policy.strategy = "OneForOne"
        <4>1. work' = <<i>> /\ goal' = "restart" /\ pc' = "start" /\ UNCHANGED batch
          BY <2>2, <3>2 DEF DecideRestart
        <4>2. <<i>> \in Seq(Kids) /\ Len(<<i>>) = 1 /\ <<i>>[1] = i /\ <<i>> # <<>>
          OBVIOUS
        <4> QED
          BY <1>0, <1>1, <2>2, <4>1, <4>2 DEF Reaches, TypeInv, Distinct
      <3>3. CASE ~IntensityExceeded(Expire(stamps)) /\ policy.strategy # "OneForOne"
        <4>1. PICK first \in Kids : /\ work' = IdsFrom(first) /\ goal' = "batch" /\ pc' = "shut"
                                    /\ batch' = first
          <5>1. 1 \in Kids
            BY <1>0
          <5> QED
            BY <2>2, <3>3, <5>1 DEF DecideRestart
        <4> QED
          BY <1>0, <4>1, IdsAre DEF Reaches
      <3> QED
        BY <3>1, <3>2, <3>3
    <2>3. CASE UNCHANGED <<batch, work, goal>> /\ AfterCallback
      <3>1. pc' \in {"leave", "loop"}
        BY <2>3 DEF AfterCallback
      <3> QED
        BY <1>0, <2>3, <3>1 DEF Reaches, SupInv, TypeInv, WorkInv
    <2> QED
      BY <1>e, <2>1, <2>2, <2>3 DEF HandleExit
  <1>8. inherited' \in Reasons \union {None}
    BY <1>0 DEF HandleExit, TypeInv
  <1> QED
    BY <1>0, <1>2, <1>3, <1>4, <1>5, <1>6, <1>7, <1>8, Moved

\* A child is asked to end, or killed when it takes too long.
LEMMA AskStep == SupInv /\ (ShutdownAsk \/ ShutdownTimeout) => SupInv'
  <1> SUFFICES ASSUME SupInv, ShutdownAsk \/ ShutdownTimeout PROVE SupInv'
    OBVIOUS
  <1>0. /\ TypeInv /\ UNCHANGED <<policy, exits, slot, batch, work, goal, asked>>
        /\ pc \in {"shut", "timed"} /\ pc' \in {"timed", "wait"}
    BY DEF SupInv, ShutdownAsk, ShutdownTimeout, logic, own
  <1>1. work \in Seq(Kids) /\ work # <<>> /\ goal \in {"batch", "stop"}
    BY <1>0 DEF SupInv, TypeInv, WorkInv
  <1>2. PICK i \in Kids : i = Head(work)
    BY <1>1
  <1>3. PICK g \in Nat : g = slot[i].gen
    BY <1>0 DEF TypeInv
  <1>4. PICK q \in Reasons : Request(i, g, q)
    BY <1>2, <1>3 DEF ShutdownAsk, ShutdownTimeout, Reasons
  <1> DEFINE v == [inst[i][g] EXCEPT !.asks = inst[i][g].asks \union {q}]
  <1>5. inst' = [inst EXCEPT ![i] = [inst[i] EXCEPT ![g] = v]]
    BY <1>4 DEF Request
  <1>6. g \in 1..Len(inst[i]) => v \in InstType /\ v.life = inst[i][g].life
    <2>1. g \in 1..Len(inst[i]) => inst[i][g] \in InstType
      BY <1>0 DEF TypeInv
    <2> QED
      BY <2>1 DEF InstType
  <1>7. Fades
    BY <1>0, <1>5, <1>6, OneFades
  <1>8. exits' \in Seq(Kids \X Nat \X (Reasons \union {None})) /\ ExitsOver'
    BY <1>0, <1>7, Queues DEF SupInv
  <1>9. Reaches
    BY <1>0, <1>1 DEF Reaches, SupInv, TypeInv, WorkInv, StopInv
  <1>10. /\ slot' \in [Kids -> [gen : Nat, alive : BOOLEAN]]
         /\ \A j \in Kids : slot'[j].gen = Len(inst[j]) /\ (~slot'[j].alive => Quiet(j))
    BY <1>0 DEF SupInv, TypeInv, SlotsAgree, Starting
  <1>11. inherited' \in Reasons \union {None}
    BY <1>0 DEF ShutdownAsk, ShutdownTimeout, TypeInv, own
  <1> QED
    BY <1>0, <1>7, <1>8, <1>9, <1>10, <1>11, Moved

\* A child that has exited: the next one, the batch, or the end.
LEMMA DoneStep == SupInv /\ ShutdownDone => SupInv'
  <1> SUFFICES ASSUME SupInv, ShutdownDone PROVE SupInv'
    OBVIOUS
  <1>0. /\ TypeInv /\ UNCHANGED <<policy, inst, exits, asked>> /\ pc \in {"shut", "wait", "timed"}
        /\ N \in Nat \ {0} /\ Kids = 1..N
    BY Numbered DEF SupInv, ShutdownDone
  <1>1. work \in Seq(Kids) /\ work # <<>> /\ Distinct(work) /\ goal \in {"batch", "stop"}
    BY <1>0 DEF SupInv, TypeInv, WorkInv
  <1>t. /\ Len(work) \in Nat \ {0} /\ Head(work) = work[1] /\ Head(work) \in Kids
        /\ Tail(work) \in Seq(Kids) /\ Len(Tail(work)) = Len(work) - 1
        /\ \A k \in 1..Len(Tail(work)) : Tail(work)[k] = work[k + 1]
        /\ Distinct(Tail(work))
    BY <1>1, TailOf
  <1>2. PICK i \in Kids : i = Head(work)
    BY <1>t
  <1>3. \A j \in Kids : slot[j].gen = Len(inst[j]) /\ (~slot[j].alive => Quiet(j))
    BY <1>0 DEF SupInv, SlotsAgree, Starting
  <1>4. Quiet(i)
    <2>1. inst[i][Len(inst[i])].life = "dead"
      BY <1>2, <1>3 DEF ShutdownDone, Life
    <2> QED
      BY <2>1 DEF SupInv, LastUp, Quiet
  <1>5. slot' = IF goal = "batch" THEN [slot EXCEPT ![i].alive = FALSE] ELSE slot
    BY <1>2 DEF ShutdownDone
  <1>6. /\ slot' \in [Kids -> [gen : Nat, alive : BOOLEAN]]
        /\ \A j \in Kids : slot'[j].gen = slot[j].gen
        /\ \A j \in Kids : ~slot'[j].alive => ~slot[j].alive \/ j = i
    BY <1>0, <1>5 DEF TypeInv
  <1>7. \A j \in Kids : slot'[j].gen = Len(inst[j]) /\ (~slot'[j].alive => Quiet(j))
    BY <1>3, <1>4, <1>6
  <1>8. Fades
    BY <1>0 DEF Fades, TypeInv
  <1>9. exits' \in Seq(Kids \X Nat \X (Reasons \union {None})) /\ ExitsOver'
    BY <1>0, <1>8, Queues DEF SupInv
  <1>10. Reaches
    <2>1. CASE Len(work) > 1
      <3>1. pc' = "shut" /\ work' = Tail(work) /\ UNCHANGED <<goal, batch>>
        BY <2>1 DEF ShutdownDone
      <3>2. Tail(work) # <<>>
        <4>1. Len(Tail(work)) # 0 /\ Len(<<>>) = 0
          BY <1>t, <2>1
        <4> QED
          BY <4>1
      <3>3. goal = "stop" =>
              /\ Len(Tail(work)) <= N
              /\ \A k \in 1..Len(Tail(work)) : Tail(work)[k] = Len(Tail(work)) + 1 - k
              /\ \A j \in Kids : j > Len(Tail(work)) => Quiet(j)
        <4> SUFFICES ASSUME goal = "stop"
                     PROVE  /\ Len(Tail(work)) <= N
                            /\ \A k \in 1..Len(Tail(work)) : Tail(work)[k] = Len(Tail(work)) + 1 - k
                            /\ \A j \in Kids : j > Len(Tail(work)) => Quiet(j)
          OBVIOUS
        <4>1. /\ Len(work) <= N /\ \A k \in 1..Len(work) : work[k] = Len(work) + 1 - k
              /\ \A j \in Kids : j > Len(work) => Quiet(j)
          BY <1>0 DEF SupInv, StopInv
        <4>2. i = Len(work)
          BY <1>2, <1>t, <4>1
        <4>3. \A k \in 1..Len(Tail(work)) : k + 1 \in 1..Len(work)
          BY <1>t
        <4>4. \A k \in 1..Len(Tail(work)) : Tail(work)[k] = Len(Tail(work)) + 1 - k
          BY <1>t, <4>1, <4>3
        <4>5. \A j \in Kids : j > Len(Tail(work)) => Quiet(j)
          BY <1>0, <1>4, <1>t, <4>1, <4>2
        <4> QED
          BY <1>0, <1>t, <4>1, <4>4, <4>5
      <3> QED
        BY <1>0, <1>1, <1>t, <3>1, <3>2, <3>3 DEF Reaches, TypeInv
    <2>2. CASE ~(Len(work) > 1) /\ goal = "batch"
      <3>1. MaybeCompleteBatch(slot')
        BY <2>2 DEF ShutdownDone
      <3> QED
        BY <1>6, <1>7, <3>1, BatchDone
    <2>3. CASE ~(Len(work) > 1) /\ goal # "batch"
      <3>1. pc' = "end" /\ work' = <<>> /\ UNCHANGED <<goal, batch>>
        BY <2>3 DEF ShutdownDone
      <3>2. \A j \in Kids : Quiet(j)
        <4>1. Len(work) = 1 /\ goal = "stop"
          BY <1>1, <1>t, <2>3
        <4>2. \A j \in Kids : j > 1 => Quiet(j)
          BY <1>0, <4>1 DEF SupInv, StopInv
        <4>3. i = 1
          BY <1>0, <1>2, <1>t, <4>1 DEF SupInv, StopInv
        <4> QED
          BY <1>0, <1>4, <4>2, <4>3
      <3>3. <<>> \in Seq(Kids) /\ Distinct(<<>>)
        BY DEF Distinct
      <3> QED
        BY <1>0, <3>1, <3>2, <3>3 DEF Reaches, TypeInv
    <2> QED
      BY <2>1, <2>2, <2>3
  <1>11. inherited' \in Reasons \union {None}
    BY <1>0 DEF ShutdownDone, TypeInv
  <1> QED
    BY <1>0, <1>6, <1>7, <1>8, <1>9, <1>10, <1>11, Moved

\* The supervisor leaves its loop and ends.
LEMMA EndStep == SupInv /\ (RecvStop \/ Stopped \/ End) => SupInv'
  <1> SUFFICES ASSUME SupInv, RecvStop \/ Stopped \/ End PROVE SupInv'
    OBVIOUS
  <1>0. /\ TypeInv /\ UNCHANGED <<policy, exits, slot, batch, asked, inherited>>
        /\ N \in Nat \ {0} /\ Kids = 1..N /\ pc \notin {"start", "link"}
    BY Numbered DEF SupInv, RecvStop, Stopped, End, logic, own
  <1>1. /\ slot' \in [Kids -> [gen : Nat, alive : BOOLEAN]]
        /\ \A j \in Kids : slot'[j].gen = Len(inst[j]) /\ (~slot'[j].alive => Quiet(j))
    BY <1>0 DEF SupInv, TypeInv, SlotsAgree, Starting
  <1>2. Fades
    <2>1. CASE UNCHANGED inst
      BY <1>0, <2>1 DEF Fades, TypeInv
    <2>2. CASE End
      <3> DEFINE Told(c) == IF c.asks = {} /\ FinalReason # "Normal"
                              THEN [c EXCEPT !.asks = {FinalReason}] ELSE c
                 new(i) == [g \in 1..Len(inst[i]) |-> Told(inst[i][g])]
      <3>1. FinalReason \in Reasons
        BY <1>0 DEF FinalReason, TypeInv, Reasons
      <3>2. ASSUME NEW c \in InstType PROVE Told(c) \in InstType /\ Told(c).life = c.life
        BY <3>1 DEF InstType
      <3>3. \A i \in Kids : /\ new(i) \in Seq(InstType) /\ Len(new(i)) = Len(inst[i])
                            /\ \A g \in 1..Len(inst[i]) : new(i)[g].life = inst[i][g].life
        <4> SUFFICES ASSUME NEW i \in Kids
                     PROVE  /\ new(i) \in Seq(InstType) /\ Len(new(i)) = Len(inst[i])
                            /\ \A g \in 1..Len(inst[i]) : new(i)[g].life = inst[i][g].life
          OBVIOUS
        <4>1. inst[i] \in Seq(InstType) /\ Len(inst[i]) \in Nat
          BY <1>0 DEF TypeInv
        <4>2. \A g \in 1..Len(inst[i]) : inst[i][g] \in InstType
          BY <4>1
        <4>3. /\ new(i) \in [1..Len(inst[i]) -> InstType]
              /\ \A g \in 1..Len(inst[i]) : new(i)[g].life = inst[i][g].life
          BY <3>2, <4>2
        <4> QED
          BY <4>1, <4>3
      <3>4. inst' = [i \in Kids |-> new(i)]
        BY <2>2 DEF End
      <3> QED
        BY <3>3, <3>4 DEF Fades
    <2> QED
      BY <2>1, <2>2 DEF RecvStop, Stopped
  <1>3. exits' \in Seq(Kids \X Nat \X (Reasons \union {None})) /\ ExitsOver'
    BY <1>0, <1>2, Queues DEF SupInv
  <1>4. Reaches
    <2>1. CASE RecvStop
      <3>1. pc' = "leave" /\ UNCHANGED <<work, goal>>
        BY <2>1 DEF RecvStop
      <3> QED
        BY <1>0, <3>1 DEF Reaches, SupInv, TypeInv, WorkInv
    <2>2. CASE Stopped /\ "kill" \in asked
      <3>1. pc' = "end" /\ UNCHANGED <<work, goal>>
        BY <2>2 DEF Stopped
      <3> QED
        BY <1>0, <2>2, <3>1 DEF Reaches, SupInv, TypeInv, WorkInv
    <2>3. CASE Stopped /\ "kill" \notin asked
      <3>1. pc' = "shut" /\ work' = ShutdownOrder /\ goal' = "stop"
        BY <2>3 DEF Stopped
      <3> DEFINE w == ShutdownOrder
      <3>2. w \in [1..N -> Kids] /\ \A k \in 1..N : w[k] = N + 1 - k
        BY <1>0 DEF ShutdownOrder
      <3>3. w \in Seq(Kids) /\ Len(w) = N
        BY <1>0, <3>2
      <3>4. w # <<>>
        <4>1. Len(<<>>) = 0
          OBVIOUS
        <4> QED
          BY <1>0, <3>3, <4>1
      <3>5. Distinct(w)
        BY <1>0, <3>2, <3>3 DEF Distinct
      <3>6. Len(w) <= N /\ \A j \in Kids : ~(j > Len(w))
        BY <1>0, <3>3
      <3>7. \A k \in 1..Len(w) : w[k] = Len(w) + 1 - k
        BY <3>2, <3>3
      <3> QED
        BY <1>0, <3>1, <3>3, <3>4, <3>5, <3>6, <3>7 DEF Reaches, TypeInv
    <2>4. CASE End
      <3>1. pc = "end" /\ pc' = "dead" /\ UNCHANGED <<work, goal>>
        BY <2>4 DEF End
      <3> QED
        BY <1>0, <3>1 DEF Reaches, SupInv, TypeInv, WorkInv, StopInv
    <2> QED
      BY <2>1, <2>2, <2>3, <2>4
  <1>5. inherited' \in Reasons \union {None}
    BY <1>0 DEF TypeInv
  <1> QED
    BY <1>0, <1>1, <1>2, <1>3, <1>4, <1>5, Moved

\* Nothing is started at first.
LEMMA SupInit == Init => SupInv
  <1> SUFFICES ASSUME Init PROVE SupInv
    OBVIOUS
  <1>0. policy \in Policies /\ N \in Nat \ {0} /\ Kids = 1..N
    <2>1. policy \in Policies
      BY DEF Init
    <2> QED
      BY <2>1, PoliciesAssumption DEF N, Kids
  <1>1. Ids \in [1..N -> Kids] /\ \A k \in 1..N : Ids[k] = k
    BY <1>0 DEF Ids
  <1>2. Ids \in Seq(Kids) /\ Len(Ids) = N
    BY <1>0, <1>1
  <1>3. Ids # <<>>
    <2>1. Len(<<>>) = 0
      OBVIOUS
    <2> QED
      BY <1>0, <1>2, <2>1
  <1>4. /\ <<>> \in Seq(InstType) /\ Len(<<>>) = 0
        /\ <<>> \in Seq(Kids \X Nat \X (Reasons \union {None}))
    OBVIOUS
  <1>5. TypeInv
    BY <1>0, <1>2, <1>4 DEF Init, TypeInv
  <1>6. \A i \in Kids : inst[i] = <<>> /\ Quiet(i) /\ slot[i].gen = 0
    BY <1>4 DEF Init, Quiet
  <1>7. LastUp /\ ExitsOver /\ SlotsAgree
    <2>1. LastUp
      BY <1>4, <1>6 DEF LastUp
    <2>2. ExitsOver
      BY <1>4 DEF Init, ExitsOver
    <2>3. \A i \in Kids : ~Starting(i)
      BY DEF Init, Starting
    <2>4. SlotsAgree
      BY <1>4, <1>6, <2>3 DEF SlotsAgree
    <2> QED
      BY <2>1, <2>2, <2>4
  <1>8. WorkInv
    <2>1. Distinct(Ids)
      BY <1>1, <1>2 DEF Distinct
    <2> QED
      BY <1>1, <1>2, <1>3, <1>6, <2>1 DEF Init, WorkInv
  <1>9. StopInv
    BY DEF Init, StopInv
  <1> QED
    BY <1>5, <1>7, <1>8, <1>9 DEF SupInv

\* Every step of a child, of the supervisor in either runtime, of the outside.
LEMMA SupStep == SupInv /\ [Next]_vars => SupInv'
  <1> SUFFICES ASSUME SupInv, [Next]_vars PROVE SupInv'
    OBVIOUS
  <1>1. CASE UNCHANGED vars
    <2>1. Fades
      BY <1>1 DEF SupInv, TypeInv, Fades, vars
    <2>2. Outside
      BY <1>1, <2>1 DEF Outside, SupInv, TypeInv, vars, logic, own
    <2> QED
      BY <2>2, OutsideStep
  <1>2. CASE Next
    BY <1>2, OutsideSteps, OutsideStep, SpawnStep, LinkStep, HandleStep, AskStep, DoneStep, EndStep
    DEF Next, SupervisorStep, ThreadsStep, ThreadsSpawnChild, ThreadsLinkChild, ThreadsHandleExit,
        ThreadsShutdownDone, ThreadsStopped, ThreadsTick
  <1> QED
    BY <1>1, <1>2

-----------------------------------------------------------------------------
(* What it says.                                                           *)

\* start_child and restart_child, in both runtimes: no two instances of a child
\* run at a time, and a batch is started when all of it has exited.
THEOREM OneAtATime == Spec => []OneInstance
  <1>1. SupInv => OneInstance
    BY DEF SupInv, OneInstance, LastUp, WorkInv, Life, Up, Quiet
  <1> QED
    BY <1>1, SupInit, SupStep, PTL DEF Spec

\* stopped() and shutdown_order: children end in reverse start order, and a
\* supervisor that was not killed leaves none behind.
THEOREM NoneLeft == Spec => []NoOrphans
  <1>1. SupInv => NoOrphans
    <2> SUFFICES ASSUME SupInv PROVE NoOrphans
      OBVIOUS
    <2>1. \A i \in Kids : Quiet(i) => ~Up(i)
      BY DEF Quiet, Up, Life
    <2>2. ASSUME goal = "stop", pc \in {"wait", "timed"}, NEW j \in Kids, j > Head(work)
          PROVE  ~Up(j)
      <3>1. work \in Seq(Kids) /\ work # <<>>
        BY <2>2 DEF SupInv, TypeInv, WorkInv
      <3>2. Head(work) = work[1] /\ Len(work) \in Nat \ {0}
        BY <3>1
      <3>3. work[1] = Len(work)
        BY <2>2, <3>2 DEF SupInv, StopInv
      <3> QED
        BY <2>1, <2>2, <3>2, <3>3 DEF SupInv, StopInv
    <2> QED
      BY <2>1, <2>2 DEF SupInv, StopInv, NoOrphans
  <1> QED
    BY <1>1, SupInit, SupStep, PTL DEF Spec

\* on_child_exit: the exit that leads to a restart is the last instance's.
THEOREM CurrentOnly == Spec => RestartOnlyCurrent
  <1>1. SupInv /\ [Next]_vars =>
          [\A b \in blamed' \ blamed : b[2] = Len(inst[b[1]]) /\ Life(b[1], b[2]) # "up"]_vars
    <2> SUFFICES ASSUME SupInv, Next, NEW b \in blamed' \ blamed
                 PROVE  b[2] = Len(inst[b[1]]) /\ Life(b[1], b[2]) # "up"
      OBVIOUS
    <2>1. CASE HandleExit
      <3> DEFINE i == Head(exits)[1]
                 g == Head(exits)[2]
      <3>1. pc = "loop" /\ exits # <<>>
        BY <2>1 DEF HandleExit
      <3>2. KnownChild(i, g) /\ b = <<i, g>>
        BY <2>1 DEF HandleExit, DecideRestart
      <3> QED
        BY <3>1, <3>2, KnownOver DEF Over, Life
    <2>2. CASE UNCHANGED blamed
      BY <2>2
    <2>3. HandleExit \/ UNCHANGED blamed
      BY DEF Next, SupervisorStep, ThreadsStep, ThreadsSpawnChild, ThreadsLinkChild,
         ThreadsHandleExit, ThreadsShutdownDone, ThreadsStopped, ThreadsTick, SpawnChild, LinkChild,
         RecvStop, Stopped, End, ShutdownAsk, ShutdownTimeout, ShutdownDone, ChildStep, Publish, Die,
         Ask, Tick, history
    <2> QED
      BY <2>1, <2>2, <2>3
  <1> QED
    BY <1>1, SupInit, SupStep, PTL DEF Spec, RestartOnlyCurrent

-----------------------------------------------------------------------------
(* Restart intensity.                                                      *)

\* A sequence of stamps has the end of the history of decisions, and what it
\* lacks is older than the window.
EndOf(s) ==
    /\ s \in Seq(Nat) /\ Len(s) <= Len(decided)
    /\ \A k \in 1..Len(s) : s[k] = decided[Len(decided) - Len(s) + k]
    /\ \A k \in 1..Len(decided) - Len(s) : now - decided[k] > policy.within

\* Decisions are in time order, and any two that are max_restarts apart are
\* further apart than the window.
IntensityInv ==
    /\ policy \in Policies /\ now \in Nat /\ decided \in Seq(Nat)
    /\ \A k \in 1..Len(decided) : decided[k] <= now
    /\ \A j, k \in 1..Len(decided) : j <= k => decided[j] <= decided[k]
    /\ EndOf(stamps)
    /\ \A k \in 1..Len(decided) :
         k > policy.maxRestarts => decided[k] - decided[k - policy.maxRestarts] > policy.within

\* A set of numbers has a least one.
LEMMA Least ==
    ASSUME NEW T, T \subseteq Nat, T # {}
    PROVE  \E x \in T : \A y \in T : x <= y
  <1>1. PICK x \in T : \A y \in T : ~(<<y, x>> \in OpToRel(<, Nat))
    BY NatLessThanWellFounded, WFMin
  <1>2. \A y \in T : ~(y < x)
    BY <1>1 DEF OpToRel
  <1> QED
    BY <1>2

\* What is left of a sequence from some place on.
LEMMA Rest ==
    ASSUME NEW s \in Seq(Nat), NEW f \in 1..Len(s) + 1
    PROVE  /\ SubSeq(s, f, Len(s)) \in Seq(Nat) /\ Len(SubSeq(s, f, Len(s))) = Len(s) + 1 - f
           /\ \A k \in 1..Len(s) + 1 - f :
                f + k - 1 \in 1..Len(s) /\ SubSeq(s, f, Len(s))[k] = s[f + k - 1]
  <1>1. Len(s) \in Nat
    OBVIOUS
  <1>2. SubSeq(s, f, Len(s)) \in Seq(Nat) /\ Len(SubSeq(s, f, Len(s))) = Len(s) + 1 - f
    BY <1>1
  <1>3. \A k \in 1..Len(s) + 1 - f : f + k - 1 \in 1..Len(s)
    BY <1>1
  <1>4. \A k \in 1..Len(s) + 1 - f : SubSeq(s, f, Len(s))[k] = s[f + k - 1]
    BY <1>1
  <1> QED
    BY <1>2, <1>3, <1>4

\* Places in the history and in its end: e stamps are left of n, of d + n decisions.
LEMMA Places ==
    ASSUME NEW n \in Nat, NEW d \in Nat, NEW f \in 1..n + 1, NEW e, e = n + 1 - f, NEW h, h = d + n
    PROVE  /\ e \in Nat /\ e <= h
           /\ \A k \in 1..e : d + (f + k - 1) = h - e + k
           /\ \A k \in 1..h - e : k \in 1..h /\ (k \in 1..d \/ (k - d \in 1..n /\ k - d < f))
           /\ \A k \in 1..h : d + (k - d) = k
  OBVIOUS

\* record_restart drops stamps older than the window and no others.
LEMMA Expired == IntensityInv => EndOf(Expire(stamps))
  <1> SUFFICES ASSUME IntensityInv PROVE EndOf(Expire(stamps))
    OBVIOUS
  <1> DEFINE n == Len(stamps)
             d == Len(decided) - n
             stays == {k \in 1..n : now - stamps[k] <= policy.within}
             first == CHOOSE k \in stays \union {n + 1} : \A j \in stays : k <= j
             recent == SubSeq(stamps, first, n)
  <1>0. /\ stamps \in Seq(Nat) /\ n \in Nat /\ d \in Nat /\ now \in Nat /\ policy.within \in Nat
        /\ decided \in Seq(Nat) /\ Len(decided) \in Nat
    BY PoliciesAssumption DEF IntensityInv, EndOf
  <1>1. first \in 1..n + 1 /\ \A j \in stays : first <= j
    <2>1. stays \union {n + 1} \subseteq 1..n + 1
      BY <1>0
    <2>2. PICK x \in stays \union {n + 1} : \A y \in stays \union {n + 1} : x <= y
      <3>1. stays \union {n + 1} \subseteq Nat /\ stays \union {n + 1} # {}
        BY <1>0, <2>1
      <3> QED
        BY <3>1, Least
    <2>3. first \in stays \union {n + 1} /\ \A j \in stays : first <= j
      BY <2>2
    <2> QED
      BY <2>1, <2>3
  <1> HIDE DEF first
  <1> HIDE DEF stays
  <1>2. /\ recent \in Seq(Nat) /\ Len(recent) = n + 1 - first
        /\ \A k \in 1..Len(recent) : first + k - 1 \in 1..n /\ recent[k] = stamps[first + k - 1]
    BY <1>0, <1>1, Rest
  <1> HIDE DEF recent
  <1>3. Len(decided) = d + n
    BY <1>0
  <1>4. \A k \in 1..n : stamps[k] = decided[d + k]
    BY DEF IntensityInv, EndOf
  <1>9. \A k \in 1..d : now - decided[k] > policy.within
    BY DEF IntensityInv, EndOf
  <1> HIDE DEF n, d
  <1>7. /\ Len(recent) \in Nat /\ Len(recent) <= Len(decided)
        /\ \A k \in 1..Len(recent) : d + (first + k - 1) = Len(decided) - Len(recent) + k
        /\ \A k \in 1..Len(decided) - Len(recent) :
             k \in 1..Len(decided) /\ (k \in 1..d \/ (k - d \in 1..n /\ k - d < first))
        /\ \A k \in 1..Len(decided) : d + (k - d) = k
    BY <1>0, <1>1, <1>2, <1>3, Places
  <1>5. \A k \in 1..Len(recent) : recent[k] = decided[Len(decided) - Len(recent) + k]
    <2> SUFFICES ASSUME NEW k \in 1..Len(recent)
                 PROVE  recent[k] = decided[Len(decided) - Len(recent) + k]
      OBVIOUS
    <2>1. recent[k] = decided[d + (first + k - 1)]
      BY <1>2, <1>4
    <2> QED
      BY <2>1, <1>7
  <1>6. ASSUME NEW k \in 1..Len(decided) - Len(recent) PROVE now - decided[k] > policy.within
    <2>0. /\ k \in 1..Len(decided) /\ d + (k - d) = k
          /\ k \in 1..d \/ (k - d \in 1..n /\ k - d < first)
      <3>1. k \in 1..Len(decided) /\ (k \in 1..d \/ (k - d \in 1..n /\ k - d < first))
        BY <1>7
      <3>2. d + (k - d) = k
        BY <1>7, <3>1
      <3> QED
        BY <3>1, <3>2
    <2>1. CASE k \in 1..d
      BY <1>9, <2>1
    <2>2. CASE k - d \in 1..n /\ k - d < first
      <3>1. k - d \notin stays
        <4>1. PICK j \in 1..n : j = k - d /\ j < first
          BY <2>2
        <4>2. ~(first <= j)
          BY <1>0, <1>1, <4>1
        <4> QED
          BY <1>1, <4>1, <4>2
      <3>2. stamps[k - d] = decided[k]
        <4>1. stamps[k - d] = decided[d + (k - d)]
          BY <1>4, <2>2
        <4> QED
          BY <2>0, <4>1
      <3>3. ~(now - stamps[k - d] <= policy.within)
        BY <2>2, <3>1 DEF stays, n
      <3>4. decided[k] \in Nat
        BY <1>0, <2>0
      <3>5. PICK t \in Nat : t = decided[k] /\ ~(now - t <= policy.within)
        BY <3>2, <3>3, <3>4
      <3>6. now \in Nat /\ policy.within \in Nat
        BY <1>0
      <3>7. now - t > policy.within
        BY <3>5, <3>6
      <3> QED
        BY <3>5, <3>7
    <2> QED
      BY <2>0, <2>1, <2>2
  <1>8. Expire(stamps) = recent
    BY DEF Expire, PopUpTo, recent, first, stays, n
  <1> QED
    BY <1>2, <1>5, <1>6, <1>7, <1>8 DEF EndOf

\* Places when both grow by one.
LEMMA PlacesAfter ==
    ASSUME NEW n \in Nat, NEW r \in Nat, r <= n
    PROVE  /\ r + 1 <= n + 1 /\ (n + 1) - (r + 1) + (r + 1) = n + 1
           /\ \A k \in 1..r + 1 : k = r + 1 \/ k \in 1..r
           /\ \A k \in 1..r : (n + 1) - (r + 1) + k = n - r + k /\ n - r + k \in 1..n
           /\ \A k \in 1..(n + 1) - (r + 1) : k \in 1..n - r /\ k \in 1..n
           /\ \A k \in 1..n + 1 : k = n + 1 \/ k \in 1..n
           /\ \A m \in Nat : r < m /\ n + 1 > m => n + 1 - m \in 1..n - r /\ n + 1 - m \in 1..n
           /\ \A m \in Nat, k \in 1..n : k > m => k - m \in 1..n
  OBVIOUS

\* A restart is recorded: the one max_restarts before it has left the window.
LEMMA Recorded ==
    ASSUME IntensityInv, UNCHANGED <<policy, now>>, ~IntensityExceeded(Expire(stamps)),
           stamps' = Append(Expire(stamps), now), decided' = Append(decided, now)
    PROVE  IntensityInv'
  <1>0. PICK recent : recent = Expire(stamps)
    OBVIOUS
  <1>1. EndOf(recent)
    BY <1>0, Expired
  <1> DEFINE n == Len(decided)
             m == policy.maxRestarts
  <1>2. /\ recent \in Seq(Nat) /\ Len(recent) \in Nat /\ n \in Nat /\ decided \in Seq(Nat)
        /\ now \in Nat /\ m \in Nat /\ policy.within \in Nat /\ Len(recent) < m
    <2>1. policy.maxRestarts \in Nat /\ policy.within \in Nat /\ now \in Nat /\ decided \in Seq(Nat)
      BY PoliciesAssumption DEF IntensityInv
    <2>2. recent \in Seq(Nat)
      BY <1>1 DEF EndOf
    <2> QED
      BY <1>0, <2>1, <2>2 DEF IntensityExceeded
  <1>3. /\ decided' \in Seq(Nat) /\ Len(decided') = n + 1 /\ decided'[n + 1] = now
        /\ \A k \in 1..n : decided'[k] = decided[k] /\ decided[k] \in Nat
    BY <1>2
  <1>4. /\ stamps' \in Seq(Nat) /\ Len(stamps') = Len(recent) + 1
        /\ stamps'[Len(recent) + 1] = now
        /\ \A k \in 1..Len(recent) : stamps'[k] = recent[k]
    BY <1>0, <1>2
  <1>5. \A k \in 1..n + 1 : decided'[k] <= now
    BY <1>2, <1>3 DEF IntensityInv
  <1>6. ASSUME NEW j \in 1..n + 1, NEW k \in 1..n + 1, j <= k PROVE decided'[j] <= decided'[k]
    <2>1. CASE k = n + 1
      BY <1>3, <1>5, <2>1
    <2>2. CASE k # n + 1
      <3>1. j \in 1..n /\ k \in 1..n
        <4> HIDE DEF n
        <4> QED
          BY <1>2, <1>6, <2>2
      <3> QED
        BY <1>3, <1>6, <3>1 DEF IntensityInv
    <2> QED
      BY <2>1, <2>2
  <1>7. EndOf(stamps)'
    <2>1. \A k \in 1..Len(recent) : recent[k] = decided[n - Len(recent) + k]
      BY <1>1 DEF EndOf
    <2>2. Len(recent) <= n
      BY <1>1 DEF EndOf
    <2> HIDE DEF n
    <2>3. ASSUME NEW k \in 1..Len(recent) + 1
          PROVE  stamps'[k] = decided'[(n + 1) - (Len(recent) + 1) + k]
      <3>1. CASE k = Len(recent) + 1
        <4>1. (n + 1) - (Len(recent) + 1) + k = n + 1
          BY <1>2, <2>2, <3>1, PlacesAfter
        <4> QED
          BY <1>3, <1>4, <3>1, <4>1
      <3>2. CASE k \in 1..Len(recent)
        <4>1. (n + 1) - (Len(recent) + 1) + k = n - Len(recent) + k /\ n - Len(recent) + k \in 1..n
          BY <1>2, <2>2, <3>2, PlacesAfter
        <4> QED
          BY <1>3, <1>4, <2>1, <3>2, <4>1
      <3>3. k = Len(recent) + 1 \/ k \in 1..Len(recent)
        BY <1>2, <2>2, PlacesAfter
      <3> QED
        BY <3>1, <3>2, <3>3
    <2>4. ASSUME NEW k \in 1..(n + 1) - (Len(recent) + 1) PROVE now - decided'[k] > policy.within
      <3>1. k \in 1..n - Len(recent) /\ k \in 1..n
        BY <1>2, <2>2, PlacesAfter
      <3> QED
        BY <1>1, <1>3, <3>1 DEF EndOf, n
    <2>5. Len(stamps') <= Len(decided') /\ policy' = policy /\ now' = now
      <3>1. Len(recent) + 1 <= n + 1
        BY <1>2, <2>2, PlacesAfter
      <3> QED
        BY <1>3, <1>4, <3>1
    <2>6. \A k \in 1..Len(stamps') : stamps'[k] = decided'[Len(decided') - Len(stamps') + k]
      BY <1>3, <1>4, <2>3
    <2>7. \A k \in 1..Len(decided') - Len(stamps') : now - decided'[k] > policy.within
      BY <1>3, <1>4, <2>4
    <2> QED
      BY <1>4, <2>5, <2>6, <2>7 DEF EndOf
  <1>8. ASSUME NEW k \in 1..n + 1, k > m PROVE decided'[k] - decided'[k - m] > policy.within
    <2>0. Len(recent) <= n
      BY <1>1 DEF EndOf
    <2> HIDE DEF n, m
    <2>1. CASE k = n + 1
      <3>1. k - m \in 1..n - Len(recent) /\ k - m \in 1..n
        BY <1>2, <1>8, <2>0, <2>1, PlacesAfter
      <3>2. now - decided[k - m] > policy.within
        BY <1>1, <3>1 DEF EndOf, n
      <3> QED
        BY <1>3, <2>1, <3>1, <3>2
    <2>2. CASE k \in 1..n
      <3>1. k - m \in 1..n
        BY <1>2, <1>8, <2>0, <2>2, PlacesAfter
      <3>2. decided[k] - decided[k - m] > policy.within
        BY <1>8, <2>2 DEF IntensityInv, n, m
      <3> QED
        BY <1>3, <2>2, <3>1, <3>2
    <2> QED
      BY <1>2, <2>0, <2>1, <2>2, PlacesAfter
  <1> QED
    BY <1>3, <1>5, <1>6, <1>7, <1>8 DEF IntensityInv

\* Every step keeps it: the others record no restart, and time only passes.
LEMMA IntensityStep == IntensityInv /\ [Next]_vars => IntensityInv'
  <1> SUFFICES ASSUME IntensityInv, [Next]_vars PROVE IntensityInv'
    OBVIOUS
  <1>1. CASE UNCHANGED <<policy, now, stamps, decided>>
    BY <1>1 DEF IntensityInv, EndOf
  <1>2. CASE Tick
    <2>1. now \in Nat /\ now' = now + 1 /\ UNCHANGED <<policy, stamps, decided>>
      BY <1>2 DEF IntensityInv, Tick, logic, history
    <2>2. decided \in Seq(Nat) /\ \A k \in 1..Len(decided) : decided[k] \in Nat
      BY DEF IntensityInv
    <2>3. Len(stamps) \in Nat /\ policy.within \in Nat
      BY PoliciesAssumption DEF IntensityInv, EndOf
    <2>4. EndOf(stamps)'
      <3>1. EndOf(stamps)
        BY DEF IntensityInv
      <3>2. ASSUME NEW k \in 1..Len(decided) - Len(stamps)
            PROVE  decided[k] \in Nat /\ now + 1 - decided[k] > policy.within
        <4>1. decided[k] \in Nat
          <5>1. k \in 1..Len(decided)
            BY <2>2, <2>3
          <5> QED
            BY <2>2, <5>1
        <4>2. PICK t \in Nat : t = decided[k] /\ now - t > policy.within
          BY <3>1, <4>1 DEF EndOf
        <4>3. now + 1 - t > policy.within
          BY <2>1, <2>3, <4>2
        <4> QED
          BY <4>1, <4>2, <4>3
      <3>3. /\ stamps' = stamps /\ decided' = decided /\ now' = now + 1
            /\ policy'.within = policy.within
        BY <2>1
      <3>4. /\ stamps \in Seq(Nat) /\ Len(stamps) <= Len(decided)
            /\ \A k \in 1..Len(stamps) : stamps[k] = decided[Len(decided) - Len(stamps) + k]
        BY <3>1 DEF EndOf
      <3>5. \A k \in 1..Len(decided') - Len(stamps') : now' - decided'[k] > policy'.within
        <4> SUFFICES ASSUME NEW k \in 1..Len(decided') - Len(stamps')
                     PROVE  now' - decided'[k] > policy'.within
          OBVIOUS
        <4>1. k \in 1..Len(decided) - Len(stamps)
          BY <3>3
        <4>2. PICK t \in Nat : t = decided'[k] /\ now + 1 - t > policy.within
          BY <3>2, <3>3, <4>1
        <4> QED
          BY <2>1, <2>3, <3>3, <4>2
      <3>6. /\ stamps' \in Seq(Nat) /\ Len(stamps') <= Len(decided')
            /\ \A k \in 1..Len(stamps') : stamps'[k] = decided'[Len(decided') - Len(stamps') + k]
        BY <3>3, <3>4
      <3> QED
        BY <3>5, <3>6 DEF EndOf
    <2>5. \A k \in 1..Len(decided) : decided[k] <= now'
      BY <2>1, <2>2 DEF IntensityInv
    <2> QED
      BY <2>1, <2>4, <2>5 DEF IntensityInv
  <1>3. CASE HandleExit
    <2>1. UNCHANGED <<policy, now>>
      BY <1>3 DEF HandleExit
    <2>2. \/ UNCHANGED <<stamps, decided>>
          \/ IntensityExceeded(Expire(stamps)) /\ stamps' = Expire(stamps) /\ UNCHANGED decided
          \/ /\ ~IntensityExceeded(Expire(stamps))
             /\ stamps' = Append(Expire(stamps), now) /\ decided' = Append(decided, now)
      BY <1>3 DEF HandleExit, DecideRestart
    <2>3. CASE stamps' = Expire(stamps) /\ UNCHANGED decided
      <3>1. EndOf(Expire(stamps))
        BY Expired
      <3>2. EndOf(stamps)'
        BY <2>1, <2>3, <3>1 DEF EndOf
      <3> QED
        BY <2>1, <2>3, <3>2 DEF IntensityInv
    <2> QED
      BY <1>1, <2>1, <2>2, <2>3, Recorded
  <1>4. HandleExit \/ Tick \/ UNCHANGED <<policy, now, stamps, decided>>
    <2>1. ASSUME NEW i, ChildStep(i) PROVE UNCHANGED <<policy, now, stamps, decided>>
      BY <2>1 DEF ChildStep, Publish, Die, logic, history
    <2>2. ASSUME NEW q, Ask(q) PROVE UNCHANGED <<policy, now, stamps, decided>>
      BY <2>2 DEF Ask, logic, history
    <2>3. SpawnChild \/ LinkChild => UNCHANGED <<policy, now, stamps, decided>>
      BY DEF SpawnChild, LinkChild, logic, history
    <2>4. RecvStop \/ Stopped \/ End => UNCHANGED <<policy, now, stamps, decided>>
      BY DEF RecvStop, Stopped, End, logic, history
    <2>5. ShutdownAsk \/ ShutdownTimeout \/ ShutdownDone
            => UNCHANGED <<policy, now, stamps, decided>>
      BY DEF ShutdownAsk, ShutdownTimeout, ShutdownDone, logic, history
    <2>6. UNCHANGED vars => UNCHANGED <<policy, now, stamps, decided>>
      BY DEF vars, logic, history
    <2> QED
      BY <2>1, <2>2, <2>3, <2>4, <2>5, <2>6 DEF Next, SupervisorStep, ThreadsStep, ThreadsSpawnChild,
         ThreadsLinkChild, ThreadsHandleExit, ThreadsShutdownDone, ThreadsStopped, ThreadsTick
  <1> QED
    BY <1>1, <1>2, <1>3, <1>4

\* IntensityTracker::record_restart: no window of length within, wherever it
\* starts, has more than max_restarts restarts.
THEOREM Intensity == Spec => []IntensityBounded
  <1>1. Init => IntensityInv
    <2>1. <<>> \in Seq(Nat) /\ Len(<<>>) = 0
      OBVIOUS
    <2> QED
      BY <2>1 DEF Init, IntensityInv, EndOf
  <1>2. IntensityInv => IntensityBounded
    <2> SUFFICES ASSUME IntensityInv, NEW t \in 0..policy.maxTime
                 PROVE  Cardinality({k \in 1..Len(decided) :
                                       t <= decided[k] /\ decided[k] <= t + policy.within})
                          <= policy.maxRestarts
      BY DEF IntensityBounded
    <2> DEFINE S == {k \in 1..Len(decided) : t <= decided[k] /\ decided[k] <= t + policy.within}
               m == policy.maxRestarts
    <2>0. /\ m \in Nat /\ policy.within \in Nat /\ t \in Nat /\ Len(decided) \in Nat
          /\ \A k \in 1..Len(decided) : decided[k] \in Nat
      <3>1. m \in Nat /\ policy.within \in Nat
        BY PoliciesAssumption DEF IntensityInv
      <3>2. decided \in Seq(Nat)
        BY DEF IntensityInv
      <3>3. t \in Nat
        OBVIOUS
      <3> HIDE DEF S, m
      <3> QED
        BY <3>1, <3>2, <3>3
    <2>1. CASE S = {}
      <3>1. Cardinality(S) = 0
        BY <2>1, FS_EmptySet
      <3> QED
        BY <2>0, <3>1
    <2>2. CASE S # {}
      <3>1. PICK x \in S : \A y \in S : x <= y
        <4>1. S \subseteq Nat
          BY <2>0
        <4> QED
          BY <2>2, <4>1, Least
      <3>2. ASSUME NEW k \in S PROVE k \in x..(x + m - 1)
        <4>1. CASE k >= x + m
          <5>1. k - m \in 1..Len(decided) /\ k > m /\ x <= k - m
            <6>1. x \in 1..Len(decided) /\ k \in 1..Len(decided)
              OBVIOUS
            <6>2. k \in Int /\ x \in Int /\ 1 <= x /\ k <= Len(decided) /\ Len(decided) \in Nat
              BY <2>0, <6>1
            <6> HIDE DEF m, S
            <6> QED
              BY <2>0, <4>1, <6>2
          <5>2. decided[k] - decided[k - m] > policy.within /\ decided[x] <= decided[k - m]
            BY <5>1 DEF IntensityInv
          <5>3. /\ decided[k] \in Nat /\ decided[x] \in Nat /\ decided[k - m] \in Nat
                /\ t <= decided[x] /\ decided[k] <= t + policy.within
            BY <2>0, <3>1, <5>1
          <5> HIDE DEF m, S
          <5>4. FALSE
            <6>1. \A p, q, r, w \in Nat :
                    p - q > w /\ r <= q /\ t <= r /\ p <= t + w => FALSE
              BY <2>0
            <6> QED
              BY <2>0, <5>2, <5>3, <6>1
          <5> QED
            BY <5>4
        <4>2. CASE ~(k >= x + m)
          BY <2>0, <3>1, <4>2
        <4> QED
          BY <4>1, <4>2
      <3>3. IsFiniteSet(x..(x + m - 1)) /\ Cardinality(x..(x + m - 1)) = m
        <4>1. m > 0 /\ x \in Int
          BY <2>0, <3>2
        <4>2. m \in Nat
          BY <2>0
        <4> HIDE DEF m, S
        <4>3. x + m - 1 \in Int /\ (x + m - 1) - x + 1 = m /\ ~(x > x + m - 1)
          BY <4>1, <4>2
        <4> QED
          BY <4>1, <4>3, FS_Interval
      <3>4. Cardinality(S) <= Cardinality(x..(x + m - 1))
        <4>1. S \in SUBSET (x..(x + m - 1))
          BY <3>2
        <4> QED
          BY <3>3, <4>1, FS_Subset
      <3> QED
        BY <3>3, <3>4
    <2> QED
      BY <2>1, <2>2
  <1> QED
    BY <1>1, <1>2, IntensityStep, PTL DEF Spec
=============================================================================
