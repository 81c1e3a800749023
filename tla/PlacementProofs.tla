-------------------------- MODULE PlacementProofs --------------------------
(***************************************************************************)
(* What the proofs about remote supervision rest on: events on their way,  *)
(* and what a parent and the node of its child keep.                       *)
(***************************************************************************)
EXTENDS Placement, FiniteSetTheorems, TLAPS

-----------------------------------------------------------------------------
(* Events on their way.                                                    *)

\* Links with something on them, all of it events of E for that link.
IsNet(m, E) ==
    /\ m = [l \in DOMAIN m |-> m[l]]
    /\ \A l \in DOMAIN m : m[l] \in Seq(E) /\ Len(m[l]) > 0
    /\ \A l \in DOMAIN m : \A k \in 1..Len(m[l]) : m[l][k].link = l

\* An event of T is on its way; at most one of them is.
Carries(m, T) == \E l \in DOMAIN m : \E k \in 1..Len(m[l]) : m[l][k] \in T
Alone(m, T) ==
    \A l, h \in DOMAIN m : \A k \in 1..Len(m[l]), j \in 1..Len(m[h]) :
        m[l][k] \in T /\ m[h][j] \in T => l = h /\ k = j

\* What Cut leaves of a sequence.
LEMMA RestView ==
    ASSUME NEW E, NEW s \in Seq(E), NEW k \in 1..Len(s)
    PROVE  LET t == Rest(s, k)
           IN  /\ t \in Seq(E) /\ Len(t) = Len(s) - 1
               /\ \A j \in 1..Len(s) - 1 : t[j] = IF j < k THEN s[j] ELSE s[j + 1]
  <1> DEFINE a == SubSeq(s, 1, k - 1)
             b == SubSeq(s, k + 1, Len(s))
  <1>1. a \in Seq(E) /\ Len(a) = k - 1 /\ \A j \in 1..k - 1 : a[j] = s[j]
    OBVIOUS
  <1>2. b \in Seq(E) /\ Len(b) = Len(s) - k /\ \A j \in 1..Len(s) - k : b[j] = s[j + k]
    OBVIOUS
  <1>3. Rest(s, k) = a \o b
    BY DEF Rest
  <1> HIDE DEF a, b
  <1>4. a \o b \in Seq(E) /\ Len(a \o b) = Len(s) - 1
    <2>0. a \in Seq(E) /\ b \in Seq(E)
      BY <1>1, <1>2
    <2>1. a \o b \in Seq(E) /\ Len(a \o b) = Len(a) + Len(b)
      BY <2>0
    <2>2. (k - 1) + (Len(s) - k) = Len(s) - 1
      OBVIOUS
    <2> QED
      BY <1>1, <1>2, <2>1, <2>2
  <1>5. ASSUME NEW j \in 1..Len(s) - 1 PROVE (a \o b)[j] = IF j < k THEN s[j] ELSE s[j + 1]
    <2>1. CASE j < k
      BY <1>1, <1>2, <2>1
    <2>2. CASE ~(j < k)
      <3>1. j - (k - 1) \in 1..Len(s) - k /\ (j - (k - 1)) + k = j + 1
        BY <2>2
      <3>2. (a \o b)[j] = b[j - (k - 1)]
        BY <1>1, <1>2, <2>2
      <3>3. PICK h \in 1..Len(s) - k : h = j - (k - 1) /\ h + k = j + 1
        BY <3>1
      <3>4. b[h] = s[h + k]
        BY <1>2
      <3> QED
        BY <2>2, <3>2, <3>3, <3>4
    <2> QED
      BY <2>1, <2>2
  <1> QED
    BY <1>3, <1>4, <1>5

\* One event less: Without.
LEMMA Less ==
    ASSUME NEW E, NEW m, IsNet(m, E), NEW l \in DOMAIN m, NEW k \in 1..Len(m[l]), NEW w,
           w = Cut(m, l, k)
    PROVE  /\ IsNet(w, E)
           /\ \A T : /\ Carries(w, T) => Carries(m, T)
                     /\ Alone(m, T) => Alone(w, T)
                     /\ Alone(m, T) /\ m[l][k] \in T => ~Carries(w, T)
                     /\ Carries(m, T) /\ m[l][k] \notin T => Carries(w, T)
  <1>0. /\ \A h \in DOMAIN m : m[h] \in Seq(E) /\ Len(m[h]) \in Nat /\ Len(m[h]) > 0
        /\ m[l] \in Seq(E)
    BY DEF IsNet
  <1>1. CASE Len(m[l]) = 1
    <2>1. /\ DOMAIN w = DOMAIN m \ {l} /\ w = [h \in DOMAIN w |-> w[h]]
          /\ \A h \in DOMAIN w : w[h] = m[h]
      BY <1>1 DEF Cut, Del, DelAll
    <2>2. k = 1
      BY <1>0, <1>1
    <2>3. IsNet(w, E)
      BY <2>1 DEF IsNet
    <2>4. \A T : /\ Carries(w, T) => Carries(m, T)
                 /\ Alone(m, T) => Alone(w, T)
      BY <2>1 DEF Carries, Alone
    <2>5. \A T : Alone(m, T) /\ m[l][k] \in T => ~Carries(w, T)
      BY <2>1 DEF Carries, Alone
    <2>6. \A T : Carries(m, T) /\ m[l][k] \notin T => Carries(w, T)
      <3> SUFFICES ASSUME NEW T, Carries(m, T), m[l][k] \notin T PROVE Carries(w, T)
        OBVIOUS
      <3>1. PICK h \in DOMAIN m : \E j \in 1..Len(m[h]) : m[h][j] \in T
        BY DEF Carries
      <3>2. h # l
        BY <1>0, <1>1, <2>2, <3>1
      <3> QED
        BY <2>1, <3>1, <3>2 DEF Carries
    <2> QED
      BY <2>3, <2>4, <2>5, <2>6
  <1>2. CASE Len(m[l]) # 1
    <2>1. PICK t : t = Rest(m[l], k)
      OBVIOUS
    <2>2. /\ t \in Seq(E) /\ Len(t) = Len(m[l]) - 1
          /\ \A j \in 1..Len(m[l]) - 1 : t[j] = IF j < k THEN m[l][j] ELSE m[l][j + 1]
      <3>1. PICK s \in Seq(E) : s = m[l]
        BY <1>0
      <3>2. k \in 1..Len(s) /\ t = Rest(s, k)
        BY <2>1, <3>1
      <3>3. /\ t \in Seq(E) /\ Len(t) = Len(s) - 1
            /\ \A j \in 1..Len(s) - 1 : t[j] = IF j < k THEN s[j] ELSE s[j + 1]
        BY <3>2, RestView
      <3> QED
        BY <3>1, <3>3
    <2>3. /\ DOMAIN w = DOMAIN m /\ w = [h \in DOMAIN w |-> w[h]]
          /\ \A h \in DOMAIN w : w[h] = IF h = l THEN t ELSE m[h]
      <3>1. w = [m EXCEPT ![l] = t] /\ m = [h \in DOMAIN m |-> m[h]]
        BY <1>2, <2>1 DEF IsNet, Cut
      <3> QED
        BY <3>1
    <2>4. \A h \in DOMAIN w : w[h] \in Seq(E) /\ Len(w[h]) > 0
      <3>1. Len(t) > 0
        BY <1>0, <1>2, <2>2
      <3>2. ASSUME NEW h \in DOMAIN w PROVE w[h] \in Seq(E) /\ Len(w[h]) > 0
        <4>1. CASE h = l
          BY <2>2, <2>3, <3>1, <4>1
        <4>2. CASE h # l
          BY <1>0, <2>3, <4>2
        <4> QED
          BY <4>1, <4>2
      <3> QED
        BY <3>2
    <2> DEFINE from(h, j) == IF h = l /\ j >= k THEN j + 1 ELSE j
    <2>5. \A h \in DOMAIN w : \A j \in 1..Len(w[h]) :
            /\ from(h, j) \in 1..Len(m[h]) /\ w[h][j] = m[h][from(h, j)]
            /\ h = l => from(h, j) # k
      <3> SUFFICES ASSUME NEW h \in DOMAIN w, NEW j \in 1..Len(w[h])
                   PROVE  /\ from(h, j) \in 1..Len(m[h]) /\ w[h][j] = m[h][from(h, j)]
                          /\ h = l => from(h, j) # k
        OBVIOUS
      <3>1. CASE h # l
        BY <2>3, <3>1
      <3>2. CASE h = l
        <4>1. w[h] = t /\ j \in 1..Len(m[l]) - 1
          BY <2>2, <2>3, <3>2
        <4>2. t[j] = IF j < k THEN m[l][j] ELSE m[l][j + 1]
          BY <2>2, <4>1
        <4>3. j \in 1..Len(m[l]) /\ j + 1 \in 1..Len(m[l])
          BY <1>0, <4>1
        <4> QED
          BY <3>2, <4>1, <4>2, <4>3
      <3> QED
        BY <3>1, <3>2
    <2>6. \A h \in DOMAIN w : \A i, j \in 1..Len(w[h]) : from(h, i) = from(h, j) => i = j
      BY <1>0, <2>2, <2>3
    <2>7. \A h \in DOMAIN m : \A j \in 1..Len(m[h]) :
            (h = l /\ j = k) \/ \E i \in 1..Len(w[h]) : w[h][i] = m[h][j]
      <3> SUFFICES ASSUME NEW h \in DOMAIN m, NEW j \in 1..Len(m[h]), ~(h = l /\ j = k)
                   PROVE  \E i \in 1..Len(w[h]) : w[h][i] = m[h][j]
        OBVIOUS
      <3>1. CASE h # l
        BY <2>3, <3>1
      <3>2. CASE h = l /\ j < k
        <4>1. j \in 1..Len(m[l]) - 1 /\ w[h] = t
          BY <1>0, <2>3, <3>2
        <4>2. t[j] = m[l][j]
          BY <2>2, <3>2, <4>1
        <4> QED
          BY <2>2, <3>2, <4>1, <4>2
      <3>3. CASE h = l /\ j > k
        <4>1. j - 1 \in 1..Len(m[l]) - 1 /\ ~(j - 1 < k) /\ (j - 1) + 1 = j
          BY <1>0, <3>3
        <4>2. t[j - 1] = m[l][j]
          BY <2>2, <4>1
        <4> QED
          BY <2>2, <2>3, <3>3, <4>1, <4>2
      <3> QED
        BY <1>0, <3>1, <3>2, <3>3
    <2> HIDE DEF from
    <2>12. \A h \in DOMAIN w : \A j \in 1..Len(w[h]) : w[h][j].link = h
      BY <2>3, <2>5 DEF IsNet
    <2>13. IsNet(w, E)
      BY <2>3, <2>4, <2>12 DEF IsNet
    <2>8. \A T : Carries(w, T) => Carries(m, T)
      BY <2>3, <2>5 DEF Carries
    <2>9. \A T : Alone(m, T) => Alone(w, T)
      <3> SUFFICES ASSUME NEW T, Alone(m, T) PROVE Alone(w, T)
        OBVIOUS
      <3>1. ASSUME NEW h \in DOMAIN w, NEW g \in DOMAIN w,
                   NEW i \in 1..Len(w[h]), NEW j \in 1..Len(w[g]), w[h][i] \in T, w[g][j] \in T
            PROVE  h = g /\ i = j
        <4>1. /\ h \in DOMAIN m /\ from(h, i) \in 1..Len(m[h]) /\ m[h][from(h, i)] \in T
              /\ g \in DOMAIN m /\ from(g, j) \in 1..Len(m[g]) /\ m[g][from(g, j)] \in T
          BY <2>3, <2>5, <3>1
        <4>2. h = g /\ from(h, i) = from(g, j)
          BY <4>1 DEF Alone
        <4> QED
          BY <2>6, <4>2
      <3> QED
        BY <3>1 DEF Alone
    <2>10. \A T : Alone(m, T) /\ m[l][k] \in T => ~Carries(w, T)
      <3> SUFFICES ASSUME NEW T, Alone(m, T), m[l][k] \in T, Carries(w, T) PROVE FALSE
        OBVIOUS
      <3>1. PICK h \in DOMAIN w : \E j \in 1..Len(w[h]) : w[h][j] \in T
        BY DEF Carries
      <3>2. PICK j \in 1..Len(w[h]) : w[h][j] \in T
        BY <3>1
      <3>3. h = l /\ from(h, j) = k
        BY <2>3, <2>5, <3>2 DEF Alone
      <3> QED
        BY <2>5, <3>3
    <2>11. \A T : Carries(m, T) /\ m[l][k] \notin T => Carries(w, T)
      BY <2>3, <2>7 DEF Carries
    <2> QED
      BY <2>8, <2>9, <2>10, <2>11, <2>13
  <1> QED
    BY <1>1, <1>2

\* One event more.
LEMMA More ==
    ASSUME NEW E, NEW m, IsNet(m, E), NEW e \in E, NEW w, w = With(m, <<e>>)
    PROVE  /\ IsNet(w, E)
           /\ \A T : /\ Carries(w, T) <=> Carries(m, T) \/ e \in T
                     /\ Alone(m, T) /\ (e \notin T \/ ~Carries(m, T)) => Alone(w, T)
  <1> DEFINE l == e.link
             s == IF Has(m, l) THEN m[l] ELSE <<>>
             n == Len(s) + 1
  <1>1. w = Put(m, l, s \o <<e>>)
    BY DEF With
  <1>2. PICK t : t = s \o <<e>>
    OBVIOUS
  <1>3. s \in Seq(E) /\ Len(s) \in Nat
    BY DEF IsNet, Has
  <1>4. /\ t \in Seq(E) /\ Len(t) = n /\ t[n] = e /\ \A k \in 1..Len(s) : t[k] = s[k]
    <2> HIDE DEF s
    <2> QED
      BY <1>2, <1>3
  <1>5. /\ DOMAIN w = DOMAIN m \union {l} /\ w = [h \in DOMAIN w |-> w[h]] /\ w[l] = t
        /\ \A h \in DOMAIN m : h # l => w[h] = m[h]
    <2> HIDE DEF l, s
    <2> QED
      BY <1>1, <1>2 DEF Put
  <1>6. \A h \in DOMAIN w : w[h] \in Seq(E) /\ Len(w[h]) > 0
    <2>1. Len(t) > 0
      BY <1>3, <1>4
    <2> HIDE DEF l, s, n
    <2>2. ASSUME NEW h \in DOMAIN w PROVE w[h] \in Seq(E) /\ Len(w[h]) > 0
      <3>1. CASE h = l
        BY <1>4, <1>5, <2>1, <3>1
      <3>2. CASE h # l
        BY <1>5, <3>2 DEF IsNet
      <3> QED
        BY <3>1, <3>2
    <2> QED
      BY <2>2
  <1>7. n \in 1..n /\ \A k \in 1..n : k = n \/ k \in 1..Len(s)
    <2> HIDE DEF s
    <2> QED
      BY <1>3
  <1>8. /\ l \in DOMAIN m => s = m[l]
        /\ l \notin DOMAIN m => Len(s) = 0
    BY DEF Has
  <1>9. \A h \in DOMAIN w, k \in Nat :
          k \in 1..Len(w[h]) =>
            \/ h = l /\ k = n /\ w[h][k] = e
            \/ h \in DOMAIN m /\ k \in 1..Len(m[h]) /\ w[h][k] = m[h][k]
    <2> SUFFICES ASSUME NEW h \in DOMAIN w, NEW k \in 1..Len(w[h]),
                        ~(h = l /\ k = n /\ w[h][k] = e)
                 PROVE  h \in DOMAIN m /\ k \in 1..Len(m[h]) /\ w[h][k] = m[h][k]
      OBVIOUS
    <2> HIDE DEF l, s, n
    <2>1. CASE h # l
      BY <1>5, <2>1
    <2>2. CASE h = l
      <3>1. k \in 1..n /\ k # n
        BY <1>4, <1>5, <2>2
      <3>2. k \in 1..Len(s) /\ t[k] = s[k]
        BY <1>4, <1>7, <3>1
      <3>3. l \in DOMAIN m
        BY <1>8, <3>2
      <3> QED
        BY <1>5, <1>8, <2>2, <3>2, <3>3
    <2> QED
      BY <2>1, <2>2
  <1>10. /\ n \in 1..Len(w[l]) /\ w[l][n] = e /\ l \in DOMAIN w
         /\ \A h \in DOMAIN m : \A k \in 1..Len(m[h]) :
              h \in DOMAIN w /\ k \in 1..Len(w[h]) /\ w[h][k] = m[h][k]
    <2>1. \A h \in DOMAIN m : \A k \in 1..Len(m[h]) :
            h = l => k \in 1..Len(t) /\ t[k] = m[h][k]
      <3>1. \A k \in 1..Len(s) : k \in 1..n
        <4> HIDE DEF s
        <4> QED
          BY <1>3
      <3> HIDE DEF l, s, n
      <3> QED
        BY <1>4, <1>8, <3>1
    <2> HIDE DEF l, s, n
    <2> QED
      BY <1>4, <1>5, <1>7, <2>1
  <1>13. IsNet(w, E)
    <2>1. \A h \in DOMAIN w : \A k \in 1..Len(w[h]) : w[h][k].link = h
      <3> SUFFICES ASSUME NEW h \in DOMAIN w, NEW k \in 1..Len(w[h]) PROVE w[h][k].link = h
        OBVIOUS
      <3>1. k \in Nat
        OBVIOUS
      <3>2. CASE h = l /\ w[h][k] = e
        BY <3>2
      <3>3. CASE h \in DOMAIN m /\ k \in 1..Len(m[h]) /\ w[h][k] = m[h][k]
        BY <3>3 DEF IsNet
      <3> HIDE DEF l, s, n
      <3> QED
        BY <1>9, <3>1, <3>2, <3>3
    <2> HIDE DEF l, s, n
    <2> QED
      BY <1>5, <1>6, <2>1 DEF IsNet
  <1> HIDE DEF l, s, n
  <1>11. \A T : Carries(w, T) <=> Carries(m, T) \/ e \in T
    <2> SUFFICES ASSUME NEW T PROVE Carries(w, T) <=> Carries(m, T) \/ e \in T
      OBVIOUS
    <2>1. Carries(m, T) \/ e \in T => Carries(w, T)
      BY <1>10 DEF Carries
    <2>2. ASSUME Carries(w, T), e \notin T PROVE Carries(m, T)
      <3>1. PICK h \in DOMAIN w : \E k \in 1..Len(w[h]) : w[h][k] \in T
        BY <2>2 DEF Carries
      <3>2. PICK k \in 1..Len(w[h]) : w[h][k] \in T
        BY <3>1
      <3>3. h \in DOMAIN m /\ k \in 1..Len(m[h]) /\ w[h][k] = m[h][k]
        BY <1>9, <2>2, <3>2
      <3> QED
        BY <3>2, <3>3 DEF Carries
    <2> QED
      BY <2>1, <2>2
  <1>12. ASSUME NEW T, Alone(m, T), e \notin T \/ ~Carries(m, T) PROVE Alone(w, T)
    <2>1. ASSUME NEW h \in DOMAIN w, NEW g \in DOMAIN w,
                 NEW i \in 1..Len(w[h]), NEW j \in 1..Len(w[g]), w[h][i] \in T, w[g][j] \in T
          PROVE  h = g /\ i = j
      <3>1. CASE e \notin T
        <4>1. /\ h \in DOMAIN m /\ i \in 1..Len(m[h]) /\ m[h][i] \in T
              /\ g \in DOMAIN m /\ j \in 1..Len(m[g]) /\ m[g][j] \in T
          BY <1>9, <2>1, <3>1
        <4> QED
          BY <1>12, <4>1 DEF Alone
      <3>2. CASE e \in T
        <4>1. \A f \in DOMAIN m : \A k \in 1..Len(m[f]) : m[f][k] \notin T
          BY <1>12, <3>2 DEF Carries
        <4>2. h = l /\ i = n /\ g = l /\ j = n
          BY <1>9, <2>1, <4>1
        <4> QED
          BY <4>2
      <3> QED
        BY <3>1, <3>2
    <2> QED
      BY <2>1 DEF Alone
  <1> QED
    BY <1>11, <1>12, <1>13

\* An event that is taken, or lost, was on its way.
LEMMA Took ==
    ASSUME NEW E, IsNet(net, E), NEW i \in Places
    PROVE  /\ At(i) \in E /\ At(i).link = i[1] /\ IsNet(Without(i), E)
           /\ \A T : /\ At(i) \in T => Carries(net, T)
                     /\ Carries(Without(i), T) => Carries(net, T)
                     /\ Alone(net, T) => Alone(Without(i), T)
                     /\ Alone(net, T) /\ At(i) \in T => ~Carries(Without(i), T)
                     /\ Carries(net, T) /\ At(i) \notin T => Carries(Without(i), T)
  <1>1. PICK l \in DOMAIN net : i \in {l} \X DOMAIN net[l]
    BY DEF Places
  <1>2. PICK k \in DOMAIN net[l] : i = <<l, k>>
    BY <1>1
  <1>3. net[l] \in Seq(E) /\ k \in 1..Len(net[l]) /\ net[l][k] \in E /\ net[l][k].link = l
    BY <1>2 DEF IsNet
  <1>4. PICK w : w = Without(i)
    OBVIOUS
  <1>5. w = Cut(net, l, k)
    BY <1>2, <1>4 DEF Without
  <1>6. /\ IsNet(w, E)
        /\ \A T : /\ Carries(w, T) => Carries(net, T)
                  /\ Alone(net, T) => Alone(w, T)
                  /\ Alone(net, T) /\ net[l][k] \in T => ~Carries(w, T)
                  /\ Carries(net, T) /\ net[l][k] \notin T => Carries(w, T)
    BY <1>3, <1>5, Less
  <1>7. At(i) = net[l][k]
    BY <1>2 DEF At
  <1>8. \A T : At(i) \in T => Carries(net, T)
    BY <1>3, <1>7 DEF Carries
  <1>9. At(i) \in E /\ At(i).link = i[1]
    BY <1>2, <1>3, <1>7
  <1> QED
    BY <1>4, <1>6, <1>7, <1>8, <1>9

\* Publish.
LEMMA Published ==
    ASSUME NEW E, IsNet(net, E), NEW e \in E, Publish(<<e>>)
    PROVE  /\ IsNet(net', E)
           /\ \A T : /\ Carries(net', T) <=> Carries(net, T) \/ e \in T
                     /\ Alone(net, T) /\ (e \notin T \/ ~Carries(net, T)) => Alone(net', T)
  BY More DEF Publish

\* Exchange, when something is published.
LEMMA Exchanged ==
    ASSUME NEW E, IsNet(net, E), NEW e \in E, NEW i \in Places, Exchange(i, <<e>>)
    PROVE  /\ IsNet(net', E)
           /\ \A T : /\ Carries(net', T) => Carries(net, T) \/ e \in T
                     /\ e \in T => Carries(net', T)
                     /\ Carries(net, T) /\ At(i) \notin T => Carries(net', T)
                     /\ Alone(net, T) /\ (e \notin T \/ At(i) \in T) => Alone(net', T)
  <1>1. PICK w : w = Without(i)
    OBVIOUS
  <1>2. net' = With(w, <<e>>)
    BY <1>1 DEF Exchange
  <1>3. IsNet(w, E) /\ \A T : /\ Carries(w, T) => Carries(net, T)
                              /\ Alone(net, T) => Alone(w, T)
                              /\ Alone(net, T) /\ At(i) \in T => ~Carries(w, T)
                              /\ Carries(net, T) /\ At(i) \notin T => Carries(w, T)
    BY <1>1, Took
  <1>4. /\ IsNet(net', E)
        /\ \A T : /\ Carries(net', T) <=> Carries(w, T) \/ e \in T
                  /\ Alone(w, T) /\ (e \notin T \/ ~Carries(w, T)) => Alone(net', T)
    BY <1>2, <1>3, More
  <1> QED
    BY <1>3, <1>4

\* Nothing is published.
LEMMA NotPublished ==
    /\ Publish(<<>>) => net' = net
    /\ \A i : Exchange(i, <<>>) \/ Lose(i) => net' = Without(i)
  BY DEF Publish, Exchange, Lose, With

\* The connection of the answer is given up, with what is on it.
LEMMA GivenUp ==
    ASSUME NEW E, IsNet(net, E), NEW l, NEW w, w = Del(net, l)
    PROVE  /\ IsNet(w, E)
           /\ \A T : /\ Carries(w, T) => Carries(net, T)
                     /\ Alone(net, T) => Alone(w, T)
                     /\ Carries(net, T) /\ (\A e \in T : e.link # l) => Carries(w, T)
  <1>1. /\ DOMAIN w = DOMAIN net \ {l} /\ w = [h \in DOMAIN w |-> w[h]]
        /\ \A h \in DOMAIN w : w[h] = net[h]
    BY DEF Del, DelAll
  <1>2. IsNet(w, E)
    BY <1>1 DEF IsNet
  <1>3. \A T : Carries(w, T) => Carries(net, T)
    BY <1>1 DEF Carries
  <1>4. \A T : Alone(net, T) => Alone(w, T)
    BY <1>1 DEF Alone
  <1>5. ASSUME NEW T, Carries(net, T), \A e \in T : e.link # l PROVE Carries(w, T)
    <2>1. PICK h \in DOMAIN net : \E k \in 1..Len(net[h]) : net[h][k] \in T
      BY <1>5 DEF Carries
    <2>2. PICK k \in 1..Len(net[h]) : net[h][k] \in T
      BY <2>1
    <2>3. h # l
      BY <1>5, <2>2 DEF IsNet
    <2> QED
      BY <1>1, <2>2, <2>3 DEF Carries
  <1> QED
    BY <1>2, <1>3, <1>4, <1>5

\* Resend.
LEMMA Resent ==
    ASSUME NEW E, IsNet(net, E), NEW e \in E, NEW p, Resend(p, <<e>>)
    PROVE  /\ IsNet(net', E)
           /\ \A T : /\ Carries(net', T) => Carries(net, T) \/ e \in T
                     /\ Alone(net, T) /\ (e \notin T \/ ~Carries(net, T)) => Alone(net', T)
                     /\ Carries(net, T) /\ (\A f \in T : f.link # <<NodeOf[p], p>>)
                          => Carries(net', T)
  <1>1. PICK w : w = Del(net, <<NodeOf[p], p>>)
    OBVIOUS
  <1>2. net' = With(w, <<e>>)
    BY <1>1 DEF Resend
  <1>3. /\ IsNet(w, E)
        /\ \A T : /\ Carries(w, T) => Carries(net, T)
                  /\ Alone(net, T) => Alone(w, T)
                  /\ Carries(net, T) /\ (\A f \in T : f.link # <<NodeOf[p], p>>) => Carries(w, T)
    BY <1>1, GivenUp
  <1>4. /\ IsNet(net', E)
        /\ \A T : /\ Carries(net', T) <=> Carries(w, T) \/ e \in T
                  /\ Alone(w, T) /\ (e \notin T \/ ~Carries(w, T)) => Alone(net', T)
    BY <1>2, <1>3, More
  <1> QED
    BY <1>3, <1>4

\* Resend, when no attempt is left.
LEMMA NotResent ==
    ASSUME NEW E, IsNet(net, E), NEW p, Resend(p, <<>>)
    PROVE  /\ IsNet(net', E)
           /\ \A T : /\ Carries(net', T) => Carries(net, T)
                     /\ Alone(net, T) => Alone(net', T)
                     /\ Carries(net, T) /\ (\A f \in T : f.link # <<NodeOf[p], p>>)
                          => Carries(net', T)
  <1>1. net' = Del(net, <<NodeOf[p], p>>)
    BY DEF Resend, With
  <1> QED
    BY <1>1, GivenUp

\* Nothing is on its way at first.
LEMMA EmptyNet ==
    ASSUME NetInit, NEW E
    PROVE  IsNet(net, E) /\ \A T : Alone(net, T) /\ ~Carries(net, T)
  <1>1. net = [l \in {} |-> net[l]] /\ DOMAIN net = {}
    BY DEF NetInit, Empty
  <1> QED
    BY <1>1 DEF IsNet, Alone, Carries
-----------------------------------------------------------------------------
(* Parents, nodes, and the events between them.                            *)

ReplyOf(p, k) == Event(NodeOf[p], p, "SpawnReply", k)
ExitOf(p, k) == Event(NodeOf[p], Home, "ChildExit", <<p, k>>)
SignalOf(p, body) == Event(Home, NodeOf[p], "Signal", body)

\* The instances of a parent, and those that are dead.
Numbers(K, p) == 1..Len(K[NodeOf[p]])
DeadOf(K, p) == {k \in Numbers(K, p) : K[NodeOf[p]][k].state = "dead"}

\* What may be on its way: an answer names an instance, a ChildExit a dead one.
SpawnEvents(K) ==
    UNION {{SpawnRequest(p, a) : a \in Nat} \union {SignalOf(p, b) : b \in Nat \X {"Kill", "Shutdown"}}
             \union {ReplyOf(p, k) : k \in Numbers(K, p) \union {None}}
             \union {ExitOf(p, k) : k \in DeadOf(K, p)} : p \in Parents}

ParentType ==
    [step : {"idle", "request", "failed", "up", "restart", "signal", "wait", "clear", "killed", "returned"},
     attempt : Nat, child : Nat, exits : Seq(Placements \X Nat), how : Hows,
     rx : {"empty", "fired", "dropped"}, result : {"none", "Ok", "Interrupted", "Timeout"}]

KidType ==
    [state : {"up", "asked", "killed", "dead"}, parent : Parents,
     exit : {"none", "told", "untold", "early"}]

\* A parent: its child is one of its instances; a wait that fired, or returned
\* Ok, did for a dead child of this number.
ParentOK(p, m, K) ==
    /\ m \in ParentType
    /\ m.child \in Numbers(K, p) \union {None}
    /\ m.step = "up" => m.child # None
    /\ m.step = "idle" => m.attempt = 0
    /\ m.step \in {"idle", "request"} => m.child = None /\ m.rx # "fired" /\ m.result # "Ok"
    /\ m.rx = "fired" \/ m.result = "Ok" => \E q \in Parents : m.child \in DeadOf(K, q)

IsBroker(f) ==
    /\ DOMAIN f = {"broker", "exits", "handles", "parents", "serving"}
    /\ f = [x \in DOMAIN f |-> f[x]]

\* A node: whatever it runs is its parent's; the exits its broker was told of
\* are those of dead instances.
NodeOK(p, s, f) ==
    /\ s \in Seq(KidType) /\ \A k \in 1..Len(s) : s[k].parent = p
    /\ IsBroker(f) /\ f.broker \in BOOLEAN /\ f.exits \in Seq(Nat)
    /\ \A j \in 1..Len(f.exits) : f.exits[j] \in 1..Len(s) /\ s[f.exits[j]].state = "dead"
    /\ \A k \in DOMAIN f.parents : f.parents[k] = p
    /\ f.serving # <<>> => f.serving[2] = p /\ f.serving[3] \in Nat /\ Len(s) > 0

\* Every attempt whose request is on its way; an instance, or none, came of
\* each of the others.
Asking(p, tries, n) == {a \in 1..tries : Carries(n, {SpawnRequest(p, a)})}

CountOK(p, tries, s, n) ==
    /\ tries <= MaxAttempts
    /\ \A a \in Nat : Alone(n, {SpawnRequest(p, a)})
    /\ \A a \in Nat : Carries(n, {SpawnRequest(p, a)}) => a \in 1..tries
    /\ Len(s) + Cardinality(Asking(p, tries, n)) <= tries

\* A death its broker was told of, and has not handled.
Told(s, j) == s[j].state = "dead" /\ s[j].exit = "told"
Queued(f, j) == \E h \in 1..Len(f.exits) : f.exits[h] = j

\* A parent that counts on this instance, or may yet be told of it.
Counts(m, k) == m.step \in {"idle", "request"} \/ (m.step = "up" /\ m.child = k)

\* Its exit is in the mailbox of the parent.
Heard(p, k, m) == \E j \in 1..Len(m.exits) : m.exits[j] = <<NodeOf[p], k>>

\* The exit of instance k is on its way.
Coming(p, k, f, n, m) ==
    \/ Queued(f, k)
    \/ Carries(n, {ExitOf(p, k)})
    \/ Heard(p, k, m)

\* A parent that has asked, and had an answer or given up.
Started(m) == m.step \notin {"idle", "request"}

\* Nothing is forgotten of parent p when m becomes w.
KeptParent(p, m, w, K) ==
    /\ ParentOK(p, w, K)
    /\ Started(m) => Started(w) /\ w.child = m.child
    /\ \A k : Counts(w, k) => Counts(m, k) /\ (Heard(p, k, m) => Heard(p, k, w))

\* Instances are added, the dead stay dead.
Longer(s, t) ==
    \A k \in 1..Len(s) : k \in 1..Len(t) /\ (s[k].state = "dead" => t[k].state = "dead")

\* The events that may be on their way.
LEMMA SpawnEventsAre ==
    ASSUME NEW K, NEW p \in Parents
    PROVE  /\ \A a \in Nat : SpawnRequest(p, a) \in SpawnEvents(K)
           /\ \A b \in Nat \X {"Kill", "Shutdown"} : SignalOf(p, b) \in SpawnEvents(K)
           /\ \A k \in Numbers(K, p) \union {None} : ReplyOf(p, k) \in SpawnEvents(K)
           /\ \A k \in DeadOf(K, p) : ExitOf(p, k) \in SpawnEvents(K)
  BY DEF SpawnEvents

\* What an event is, by its kind.
LEMMA SpawnEventIs ==
    ASSUME NEW K, NEW e \in SpawnEvents(K)
    PROVE  /\ e.kind = "SpawnRequest" => \E p \in Parents, a \in Nat : e = SpawnRequest(p, a)
           /\ e.kind = "SpawnReply" =>
                \E p \in Parents : \E k \in Numbers(K, p) \union {None} : e = ReplyOf(p, k)
           /\ e.kind = "ChildExit" => \E p \in Parents : \E k \in DeadOf(K, p) : e = ExitOf(p, k)
  <1>1. PICK p \in Parents :
              \/ \E a \in Nat : e = SpawnRequest(p, a)
              \/ \E b \in Nat \X {"Kill", "Shutdown"} : e = SignalOf(p, b)
              \/ \E k \in Numbers(K, p) \union {None} : e = ReplyOf(p, k)
              \/ \E k \in DeadOf(K, p) : e = ExitOf(p, k)
    BY DEF SpawnEvents
  <1>2. /\ \A a : SpawnRequest(p, a).kind = "SpawnRequest"
        /\ \A b : SignalOf(p, b).kind = "Signal"
        /\ \A k : ReplyOf(p, k).kind = "SpawnReply" /\ ExitOf(p, k).kind = "ChildExit"
    BY DEF SpawnRequest, SignalOf, ReplyOf, ExitOf, Event
  <1> QED
    BY <1>1, <1>2

\* Instances are added, and the dead stay dead.
Older(K, J) ==
    \A p \in Parents : Numbers(K, p) \subseteq Numbers(J, p) /\ DeadOf(K, p) \subseteq DeadOf(J, p)

\* What is on its way may still be so.
LEMMA EventsGrow ==
    ASSUME NEW K, NEW J, Older(K, J), NEW m, IsNet(m, SpawnEvents(K))
    PROVE  IsNet(m, SpawnEvents(J))
  <1>1. SpawnEvents(K) \subseteq SpawnEvents(J)
    BY DEF SpawnEvents, Older
  <1>2. \A l \in DOMAIN m : m[l] \in Seq(SpawnEvents(J))
    <2> SUFFICES ASSUME NEW l \in DOMAIN m PROVE m[l] \in Seq(SpawnEvents(J))
      OBVIOUS
    <2>1. m[l] \in Seq(SpawnEvents(K))
      BY DEF IsNet
    <2> QED
      BY <1>1, <2>1
  <1> QED
    BY <1>2 DEF IsNet

\* What a parent knows stays true.
LEMMA ParentGrows ==
    ASSUME NEW K, NEW J, Older(K, J), NEW p \in Parents, NEW m, ParentOK(p, m, K)
    PROVE  ParentOK(p, m, J)
  BY DEF ParentOK, Older

\* A step that publishes no request; one that takes no ChildExit.
CalmNet(K) ==
    /\ IsNet(net', SpawnEvents(K))
    /\ \A p \in Parents, a \in Nat :
         /\ Carries(net', {SpawnRequest(p, a)}) => Carries(net, {SpawnRequest(p, a)})
         /\ Alone(net, {SpawnRequest(p, a)}) => Alone(net', {SpawnRequest(p, a)})

ExitsKept ==
    \A p \in Parents : \A k : Carries(net, {ExitOf(p, k)}) => Carries(net', {ExitOf(p, k)})

\* The steps that are both.
LEMMA CalmSteps ==
    ASSUME NEW K, IsNet(net, SpawnEvents(K))
    PROVE  /\ UNCHANGED net => CalmNet(K) /\ ExitsKept
           /\ \A i \in Places : net' = Without(i) =>
                CalmNet(K) /\ (At(i).kind # "ChildExit" => ExitsKept)
           /\ \A e \in SpawnEvents(K) : Publish(<<e>>) =>
                (e.kind # "SpawnRequest" => CalmNet(K)) /\ ExitsKept
           /\ \A e \in SpawnEvents(K), i \in Places : Exchange(i, <<e>>) =>
                /\ e.kind # "SpawnRequest" => CalmNet(K)
                /\ At(i).kind # "ChildExit" => ExitsKept
           /\ \A p \in Parents : Resend(p, <<>>) => CalmNet(K) /\ ExitsKept
           /\ \A p \in Parents, e \in SpawnEvents(K) : Resend(p, <<e>>) => ExitsKept
  <1>1. \A p, a : \A e \in {SpawnRequest(p, a)} : e.kind = "SpawnRequest"
    BY DEF SpawnRequest, Event
  <1>2. \A p \in Parents : \A k : \A e \in {ExitOf(p, k)} :
          e.kind = "ChildExit" /\ \A q \in Parents : e.link # <<NodeOf[q], q>>
    <2>1. ASSUME NEW p, NEW k PROVE /\ ExitOf(p, k).kind = "ChildExit"
                                    /\ ExitOf(p, k).link = <<NodeOf[p], Home>>
      BY DEF ExitOf, Event
    <2> QED
      BY <2>1, HomeAssumption
  <1>3. ASSUME IsNet(net', SpawnEvents(K)),
               \A T : (\A e \in T : e.kind = "SpawnRequest") =>
                        (Carries(net', T) => Carries(net, T)) /\ (Alone(net, T) => Alone(net', T))
        PROVE  CalmNet(K)
    BY <1>1, <1>3 DEF CalmNet
  <1>4. ASSUME \A T : (\A e \in T : e.kind = "ChildExit" /\ \A q \in Parents : e.link # <<NodeOf[q], q>>)
                        => (Carries(net, T) => Carries(net', T))
        PROVE  ExitsKept
    BY <1>2, <1>4 DEF ExitsKept
  <1>5. UNCHANGED net => CalmNet(K) /\ ExitsKept
    BY DEF CalmNet, ExitsKept
  <1>6. ASSUME NEW i \in Places, net' = Without(i)
        PROVE  CalmNet(K) /\ (At(i).kind # "ChildExit" => ExitsKept)
    <2>1. /\ IsNet(net', SpawnEvents(K))
          /\ \A T : /\ Carries(net', T) => Carries(net, T)
                    /\ Alone(net, T) => Alone(net', T)
                    /\ Carries(net, T) /\ At(i) \notin T => Carries(net', T)
      BY <1>6, Took
    <2> QED
      BY <1>3, <1>4, <2>1
  <1>7. ASSUME NEW e \in SpawnEvents(K), Publish(<<e>>)
        PROVE  (e.kind # "SpawnRequest" => CalmNet(K)) /\ ExitsKept
    <2>1. /\ IsNet(net', SpawnEvents(K))
          /\ \A T : /\ Carries(net', T) <=> Carries(net, T) \/ e \in T
                    /\ Alone(net, T) /\ (e \notin T \/ ~Carries(net, T)) => Alone(net', T)
      BY <1>7, Published
    <2> QED
      BY <1>3, <1>4, <2>1
  <1>8. ASSUME NEW e \in SpawnEvents(K), NEW i \in Places, Exchange(i, <<e>>)
        PROVE  /\ e.kind # "SpawnRequest" => CalmNet(K)
               /\ At(i).kind # "ChildExit" => ExitsKept
    <2>1. /\ IsNet(net', SpawnEvents(K))
          /\ \A T : /\ Carries(net', T) => Carries(net, T) \/ e \in T
                    /\ Carries(net, T) /\ At(i) \notin T => Carries(net', T)
                    /\ Alone(net, T) /\ (e \notin T \/ At(i) \in T) => Alone(net', T)
      BY <1>8, Exchanged
    <2> QED
      BY <1>3, <1>4, <2>1
  <1>9. ASSUME NEW p \in Parents, Resend(p, <<>>) PROVE CalmNet(K) /\ ExitsKept
    <2>1. /\ IsNet(net', SpawnEvents(K))
          /\ \A T : /\ Carries(net', T) => Carries(net, T)
                    /\ Alone(net, T) => Alone(net', T)
                    /\ Carries(net, T) /\ (\A f \in T : f.link # <<NodeOf[p], p>>) => Carries(net', T)
      BY <1>9, NotResent
    <2> QED
      BY <1>3, <1>4, <2>1
  <1>10. ASSUME NEW p \in Parents, NEW e \in SpawnEvents(K), Resend(p, <<e>>) PROVE ExitsKept
    <2>1. \A T : Carries(net, T) /\ (\A f \in T : f.link # <<NodeOf[p], p>>) => Carries(net', T)
      BY <1>10, Resent
    <2> QED
      BY <1>4, <2>1
  <1> QED
    BY <1>5, <1>6, <1>7, <1>8, <1>9, <1>10

-----------------------------------------------------------------------------
(* Attempts.                                                               *)

\* The attempts under way are finitely many.
LEMMA AskingFinite ==
    ASSUME NEW tries \in Nat, NEW p, NEW n
    PROVE  /\ IsFiniteSet(Asking(p, tries, n)) /\ Cardinality(Asking(p, tries, n)) \in Nat
           /\ \A S \in SUBSET Asking(p, tries, n) :
                /\ IsFiniteSet(S) /\ Cardinality(S) \in Nat
                /\ Cardinality(S) <= Cardinality(Asking(p, tries, n))
  <1>1. IsFiniteSet(1..tries)
    BY FS_Interval
  <1>2. IsFiniteSet(Asking(p, tries, n))
    BY <1>1, FS_Subset DEF Asking
  <1> QED
    BY <1>2, FS_Subset, FS_CardinalityType

\* Fewer requests under way.
LEMMA CountFewer ==
    ASSUME NEW p, NEW tries \in Nat, NEW s, NEW t, NEW n, NEW w, CountOK(p, tries, s, n),
           Len(t) = Len(s), Len(s) \in Nat,
           \A a \in Nat : /\ Carries(w, {SpawnRequest(p, a)}) => Carries(n, {SpawnRequest(p, a)})
                          /\ Alone(w, {SpawnRequest(p, a)})
    PROVE  CountOK(p, tries, t, w)
  <1>1. Asking(p, tries, w) \subseteq Asking(p, tries, n)
    BY DEF Asking
  <1>2. PICK b \in Nat : b = Cardinality(Asking(p, tries, n))
    BY AskingFinite
  <1>3. PICK c \in Nat : c = Cardinality(Asking(p, tries, w)) /\ c <= b
    BY <1>1, <1>2, AskingFinite
  <1>4. Len(t) + c <= tries
    BY <1>2, <1>3 DEF CountOK
  <1> QED
    BY <1>3, <1>4 DEF CountOK

\* A step that publishes no request.
LEMMA CalmCount ==
    ASSUME NEW K, CalmNet(K), NEW p \in Parents, NEW tries \in Nat, NEW s, NEW t,
           CountOK(p, tries, s, net), Len(t) = Len(s), Len(s) \in Nat
    PROVE  CountOK(p, tries, t, net')
  <1>1. \A a \in Nat : Alone(net, {SpawnRequest(p, a)})
    BY DEF CountOK
  <1>2. \A a \in Nat : /\ Carries(net', {SpawnRequest(p, a)}) => Carries(net, {SpawnRequest(p, a)})
                       /\ Alone(net', {SpawnRequest(p, a)})
    BY <1>1 DEF CalmNet
  <1> QED
    BY <1>2, CountFewer

\* Nothing was asked yet.
LEMMA NothingAsked ==
    ASSUME NetInit, NEW p \in Parents, NEW tries \in Nat, NEW s, Len(s) <= tries, Len(s) \in Nat,
           tries <= MaxAttempts
    PROVE  CountOK(p, tries, s, net)
  <1>1. \A T : Alone(net, T) /\ ~Carries(net, T)
    BY EmptyNet
  <1>2. Asking(p, tries, net) = {}
    BY <1>1 DEF Asking
  <1>3. Cardinality(Asking(p, tries, net)) = 0
    BY <1>2, FS_EmptySet
  <1>4. Len(s) + Cardinality(Asking(p, tries, net)) <= tries
    BY <1>3
  <1> QED
    BY <1>1, <1>4 DEF CountOK

\* An attempt more, whose request is published.
LEMMA AttemptMade ==
    ASSUME NEW K, IsNet(net, SpawnEvents(K)), NEW p \in Parents, NEW c \in Nat, NEW b \in Nat,
           b = c + 1, b <= MaxAttempts, NEW s, Len(s) \in Nat, CountOK(p, c, s, net),
           Publish(<<SpawnRequest(p, b)>>) \/ Resend(p, <<SpawnRequest(p, b)>>)
    PROVE  /\ IsNet(net', SpawnEvents(K)) /\ ExitsKept /\ CountOK(p, b, s, net')
           /\ \A q \in Parents, a \in Nat : \A r :
                q # p /\ CountOK(q, a, r, net) /\ Len(r) \in Nat => CountOK(q, a, r, net')
  <1>1. PICK e \in SpawnEvents(K) : e = SpawnRequest(p, b)
    BY SpawnEventsAre
  <1>2. Publish(<<e>>) \/ Resend(p, <<e>>)
    BY <1>1
  <1>3. /\ IsNet(net', SpawnEvents(K))
        /\ \A T : /\ Carries(net', T) => Carries(net, T) \/ e \in T
                  /\ Alone(net, T) /\ (e \notin T \/ ~Carries(net, T)) => Alone(net', T)
    <2>1. CASE Publish(<<e>>)
      BY <2>1, Published
    <2>2. CASE Resend(p, <<e>>)
      BY <2>2, Resent
    <2> QED
      BY <1>2, <2>1, <2>2
  <1>4. ExitsKept
    BY <1>2, CalmSteps
  <1>5. \A q, a : SpawnRequest(q, a) = e => q = p /\ a = b
    <2>1. \A q, a : SpawnRequest(q, a).body = <<q, a>>
      BY DEF SpawnRequest, Event
    <2> QED
      BY <1>1, <2>1
  <1>6. \A a \in Nat : /\ Alone(net, {SpawnRequest(p, a)})
                       /\ Carries(net, {SpawnRequest(p, a)}) => a \in 1..c
    BY DEF CountOK
  <1>7. ~Carries(net, {SpawnRequest(p, b)})
    <2>1. b \notin 1..c
      OBVIOUS
    <2> QED
      BY <1>6, <2>1
  <1>8. \A a \in Nat : Alone(net', {SpawnRequest(p, a)})
    BY <1>1, <1>3, <1>5, <1>6, <1>7
  <1>9. CountOK(p, b, s, net')
    <2>1. \A a \in Nat : Carries(net', {SpawnRequest(p, a)}) => Carries(net, {SpawnRequest(p, a)}) \/ a = b
      BY <1>3, <1>5
    <2>2. ASSUME NEW a \in Nat, Carries(net', {SpawnRequest(p, a)}) PROVE a \in 1..b
      <3>1. a \in 1..c \/ a = b
        BY <1>6, <2>1, <2>2
      <3> QED
        BY <3>1
    <2>3. PICK S : S = Asking(p, c, net)
      OBVIOUS
    <2>4. Asking(p, b, net') \subseteq S \union {b}
      BY <1>6, <2>1, <2>3 DEF Asking
    <2>5. IsFiniteSet(S) /\ Cardinality(S) \in Nat
      BY <2>3, AskingFinite
    <2>6. b \notin S
      BY <2>3 DEF Asking
    <2>7. IsFiniteSet(S \union {b}) /\ Cardinality(S \union {b}) = Cardinality(S) + 1
      BY <2>5, <2>6, FS_AddElement
    <2>8. Cardinality(Asking(p, b, net')) <= Cardinality(S) + 1
      BY <2>4, <2>7, FS_Subset
    <2>9. Cardinality(Asking(p, b, net')) \in Nat
      BY AskingFinite
    <2>10. Len(s) + Cardinality(S) <= c
      BY <2>3 DEF CountOK
    <2>11. Len(s) + Cardinality(Asking(p, b, net')) <= b
      BY <2>5, <2>8, <2>9, <2>10
    <2> QED
      BY <1>8, <2>2, <2>11 DEF CountOK
  <1>10. ASSUME NEW q \in Parents, NEW a \in Nat, NEW r,
                q # p, CountOK(q, a, r, net), Len(r) \in Nat
         PROVE  CountOK(q, a, r, net')
    <2>1. \A h \in Nat : SpawnRequest(q, h) # e /\ Alone(net, {SpawnRequest(q, h)})
      BY <1>5, <1>10 DEF CountOK
    <2>2. \A h \in Nat : /\ Carries(net', {SpawnRequest(q, h)}) => Carries(net, {SpawnRequest(q, h)})
                         /\ Alone(net', {SpawnRequest(q, h)})
      BY <1>3, <2>1
    <2> QED
      BY <1>10, <2>2, CountFewer
  <1> QED
    BY <1>3, <1>4, <1>9, <1>10

\* The request that is served becomes an instance.
LEMMA AttemptServed ==
    ASSUME NEW K, CalmNet(K), NEW p \in Parents, NEW b \in Nat,
           Carries(net, {SpawnRequest(p, b)}), ~Carries(net', {SpawnRequest(p, b)}),
           NEW c \in Nat, NEW s, NEW t, CountOK(p, c, s, net), Len(s) \in Nat, Len(t) = Len(s) + 1
    PROVE  CountOK(p, c, t, net')
  <1>1. /\ c <= MaxAttempts
        /\ \A a \in Nat : Alone(net, {SpawnRequest(p, a)})
        /\ \A a \in Nat : Carries(net, {SpawnRequest(p, a)}) => a \in 1..c
    BY DEF CountOK
  <1>2. /\ \A a \in Nat : Alone(net', {SpawnRequest(p, a)})
        /\ \A a \in Nat : Carries(net', {SpawnRequest(p, a)}) => Carries(net, {SpawnRequest(p, a)})
    BY <1>1 DEF CalmNet
  <1>3. PICK S : S = Asking(p, c, net)
    OBVIOUS
  <1>4. b \in S
    BY <1>1, <1>3 DEF Asking
  <1>5. Asking(p, c, net') \subseteq S \ {b}
    <2> SUFFICES ASSUME NEW a \in Asking(p, c, net') PROVE a \in S \ {b}
      OBVIOUS
    <2>1. a \in 1..c /\ a \in Nat /\ Carries(net', {SpawnRequest(p, a)})
      BY DEF Asking
    <2>2. a # b /\ Carries(net, {SpawnRequest(p, a)})
      BY <1>2, <2>1
    <2> QED
      BY <1>3, <2>1, <2>2 DEF Asking
  <1>6. IsFiniteSet(S) /\ Cardinality(S) \in Nat
    BY <1>3, AskingFinite
  <1>7. IsFiniteSet(S \ {b}) /\ Cardinality(S \ {b}) = Cardinality(S) - 1
    BY <1>4, <1>6, FS_RemoveElement
  <1>8. Cardinality(Asking(p, c, net')) <= Cardinality(S) - 1
    BY <1>5, <1>7, FS_Subset
  <1>9. Cardinality(Asking(p, c, net')) \in Nat
    BY AskingFinite
  <1>10. Len(s) + Cardinality(S) <= c
    BY <1>3 DEF CountOK
  <1>11. Len(t) + Cardinality(Asking(p, c, net')) <= c
    BY <1>6, <1>8, <1>9, <1>10
  <1> QED
    BY <1>1, <1>2, <1>11 DEF CountOK

-----------------------------------------------------------------------------
(* What a broker does.                                                     *)

\* A function on the numbers of the instances is again a sequence of them.
LEMMA SameLength ==
    ASSUME NEW S, NEW s \in Seq(S), NEW t, t = [j \in 1..Len(s) |-> t[j]],
           \A j \in 1..Len(s) : t[j] \in S
    PROVE  t \in Seq(S) /\ Len(t) = Len(s)
  <1>1. Len(s) \in Nat
    OBVIOUS
  <1> QED
    BY <1>1

\* What is left of a mailbox when its first message is taken.
LEMMA TailView ==
    ASSUME NEW S, NEW s \in Seq(S), s # <<>>
    PROVE  /\ Tail(s) \in Seq(S) /\ 1 \in 1..Len(s) /\ Head(s) = s[1]
           /\ \A j \in 1..Len(Tail(s)) : \E h \in 1..Len(s) : Tail(s)[j] = s[h]
           /\ \A h \in 1..Len(s) : s[h] = Head(s) \/ \E j \in 1..Len(Tail(s)) : Tail(s)[j] = s[h]
  <1>1. Len(s) \in Nat /\ Len(s) > 0
    OBVIOUS
  <1>2. /\ Tail(s) \in Seq(S) /\ Len(Tail(s)) = Len(s) - 1 /\ Head(s) = s[1] /\ 1 \in 1..Len(s)
        /\ \A j \in 1..Len(s) - 1 : Tail(s)[j] = s[j + 1]
    BY <1>1
  <1>3. PICK t : t = Tail(s)
    OBVIOUS
  <1>4. \A j \in 1..Len(t) : \E h \in 1..Len(s) : t[j] = s[h]
    <2> SUFFICES ASSUME NEW j \in 1..Len(t) PROVE \E h \in 1..Len(s) : t[j] = s[h]
      OBVIOUS
    <2>1. j \in 1..Len(s) - 1 /\ j + 1 \in 1..Len(s)
      BY <1>1, <1>2, <1>3
    <2> QED
      BY <1>2, <1>3, <2>1
  <1>5. ASSUME NEW h \in 1..Len(s), h # 1 PROVE \E j \in 1..Len(t) : t[j] = s[h]
    <2>1. h - 1 \in 1..Len(s) - 1 /\ (h - 1) + 1 = h
      BY <1>1, <1>5
    <2>2. t[h - 1] = s[h] /\ h - 1 \in 1..Len(t)
      BY <1>2, <1>3, <2>1
    <2> QED
      BY <2>2
  <1> QED
    BY <1>2, <1>3, <1>4, <1>5

\* A message more in a mailbox.
LEMMA AppendView ==
    ASSUME NEW S, NEW s \in Seq(S), NEW e \in S, NEW t, t = Append(s, e)
    PROVE  /\ t \in Seq(S) /\ Len(t) = Len(s) + 1 /\ Len(s) \in Nat /\ Len(t) \in 1..Len(t)
           /\ t[Len(t)] = e /\ \A j \in 1..Len(s) : j \in 1..Len(t) /\ t[j] = s[j]
           /\ \A j \in 1..Len(t) : j \in 1..Len(s) \/ (j = Len(t) /\ t[j] = e)
  <1>1. /\ t \in Seq(S) /\ Len(t) = Len(s) + 1 /\ Len(s) \in Nat /\ t[Len(s) + 1] = e
        /\ \A j \in 1..Len(s) : t[j] = s[j]
    OBVIOUS
  <1>2. /\ Len(t) \in 1..Len(t) /\ \A j \in 1..Len(s) : j \in 1..Len(t)
        /\ \A j \in 1..Len(t) : j \in 1..Len(s) \/ j = Len(t)
    BY <1>1
  <1> QED
    BY <1>1, <1>2

\* The request being served goes on: registered.
LEMMA RegisteredOK ==
    ASSUME NEW p, NEW s, NEW f, NodeOK(p, s, f), f.serving # <<>>, NEW k, NEW g, g = Registered(f, k)
    PROVE  NodeOK(p, s, g) /\ g.exits = f.exits
  <1>1. f.serving[2] = p /\ f.serving[3] \in Nat /\ Len(s) > 0 /\ IsBroker(f)
    BY DEF NodeOK
  <1>2. PICK x, y : x = f.handles \union {k} /\ y = <<"parent", f.serving[2], f.serving[3]>>
    OBVIOUS
  <1>3. g = [f EXCEPT !.handles = x, !.serving = y]
    BY <1>2 DEF Registered
  <1>4. /\ IsBroker(g) /\ g.broker = f.broker /\ g.exits = f.exits /\ g.parents = f.parents
        /\ g.serving = y
    BY <1>1, <1>3 DEF IsBroker
  <1>5. y[2] = p /\ y[3] \in Nat
    BY <1>1, <1>2
  <1> QED
    BY <1>1, <1>4, <1>5 DEF NodeOK

\* Its parent is noted.
LEMMA NotedOK ==
    ASSUME NEW p, NEW s, NEW f, NodeOK(p, s, f), f.serving # <<>>, NEW k, NEW g, g = Noted(f, k)
    PROVE  NodeOK(p, s, g) /\ g.exits = f.exits
  <1>1. f.serving[2] = p /\ IsBroker(f) /\ \A j \in DOMAIN f.parents : f.parents[j] = p
    BY DEF NodeOK
  <1>2. PICK x : x = Put(f.parents, k, p)
    OBVIOUS
  <1>3. g = [f EXCEPT !.parents = x, !.serving = <<>>]
    BY <1>1, <1>2 DEF Noted
  <1>4. /\ IsBroker(g) /\ g.broker = f.broker /\ g.exits = f.exits /\ g.parents = x
        /\ g.serving = <<>>
    BY <1>1, <1>3 DEF IsBroker
  <1>5. \A j \in DOMAIN x : x[j] = p
    BY <1>1, <1>2 DEF Put
  <1> QED
    BY <1>4, <1>5 DEF NodeOK

\* apply_spawn: one instance more, which is up.
LEMMA SpawnedOK ==
    ASSUME NEW p \in Parents, NEW s, NEW f, NodeOK(p, s, f), NEW a \in Nat, NEW t, NEW g,
           t = Spawned(s, p), g = Serving(f, p, a)
    PROVE  /\ NodeOK(p, t, g) /\ Longer(s, t) /\ Len(t) = Len(s) + 1 /\ Len(s) \in Nat
           /\ g.exits = f.exits /\ \A j \in 1..Len(t) : Told(t, j) => j \in 1..Len(s) /\ Told(s, j)
  <1>1. PICK e : e = Kid(p)
    OBVIOUS
  <1>2. e \in KidType /\ e.parent = p /\ e.state = "up"
    BY <1>1 DEF Kid, KidType
  <1>3. s \in Seq(KidType) /\ IsBroker(f) /\ t = Append(s, e) /\ \A j \in 1..Len(s) : s[j].parent = p
    BY <1>1 DEF NodeOK, Spawned
  <1>4. /\ t \in Seq(KidType) /\ Len(t) = Len(s) + 1 /\ Len(s) \in Nat
        /\ \A j \in 1..Len(s) : j \in 1..Len(t) /\ t[j] = s[j]
        /\ \A j \in 1..Len(t) : j \in 1..Len(s) \/ t[j] = e
    BY <1>2, <1>3, AppendView
  <1>5. PICK y : y = <<"register", p, a>>
    OBVIOUS
  <1>6. /\ IsBroker(g) /\ g.broker = f.broker /\ g.exits = f.exits /\ g.parents = f.parents
        /\ g.serving = y
    BY <1>3, <1>5 DEF IsBroker, Serving
  <1>7. y[2] = p /\ y[3] \in Nat /\ Len(t) > 0
    BY <1>4, <1>5
  <1>8. \A j \in 1..Len(t) : t[j].parent = p /\ (Told(t, j) => j \in 1..Len(s) /\ Told(s, j))
    BY <1>2, <1>3, <1>4 DEF Told
  <1>9. Longer(s, t)
    BY <1>4 DEF Longer
  <1>10. \A j \in 1..Len(g.exits) : g.exits[j] \in 1..Len(t) /\ t[g.exits[j]].state = "dead"
    BY <1>6, <1>9 DEF NodeOK, Longer
  <1>11. NodeOK(p, t, g)
    BY <1>4, <1>6, <1>7, <1>8, <1>10 DEF NodeOK
  <1> QED
    BY <1>4, <1>6, <1>8, <1>9, <1>11

\* One instance changes, and the dead stay dead.
LEMMA OneKidView ==
    ASSUME NEW s \in Seq(KidType), NEW k, NEW t, t = [j \in 1..Len(s) |-> t[j]],
           t[k] \in KidType, t[k].parent = s[k].parent, s[k].state = "dead" => t[k].state = "dead",
           ~Told(t, k), \A j \in 1..Len(s) : j # k => t[j] = s[j]
    PROVE  /\ t \in Seq(KidType) /\ Len(t) = Len(s)
           /\ \A j \in 1..Len(s) : t[j].parent = s[j].parent
           /\ \A j \in 1..Len(s) : s[j].state = "dead" => t[j].state = "dead"
           /\ \A j \in 1..Len(s) : Told(t, j) => Told(s, j) /\ j # k
  <1>1. \A j \in 1..Len(s) : t[j] \in KidType
    OBVIOUS
  <1>2. t \in Seq(KidType) /\ Len(t) = Len(s)
    BY <1>1, SameLength
  <1> QED
    BY <1>2 DEF Told

\* What becomes of the instances when one ends.
LEMMA EndedView ==
    ASSUME NEW p \in Parents, NEW s, NEW f, NodeOK(p, s, f), NEW k \in DOMAIN s, NEW reason, NEW t,
           t = Ended(s, f, k, reason)
    PROVE  /\ t \in Seq(KidType) /\ Len(t) = Len(s) /\ \A j \in 1..Len(s) : t[j].parent = p
           /\ \A j \in 1..Len(s) : s[j].state = "dead" => t[j].state = "dead"
           /\ t[k].state = "dead" /\ (Told(t, k) => f.broker /\ reason # "Kill")
           /\ \A j \in 1..Len(s) :
                j # k /\ Told(t, j) => Told(s, j) /\ ~(reason = "Kill" /\ f.broker /\ Queued(f, j))
  <1>1. s \in Seq(KidType) /\ DOMAIN s = 1..Len(s) /\ f.broker \in BOOLEAN /\ f.exits \in Seq(Nat)
        /\ \A j \in 1..Len(s) : s[j].parent = p
    BY DEF NodeOK
  <1>2. \A j : j \in Range(f.exits) <=> Queued(f, j)
    BY <1>1 DEF Range, Queued
  <1>3. /\ t = [j \in 1..Len(s) |-> t[j]]
        /\ t[k] = [s[k] EXCEPT !.state = "dead",
                               !.exit = IF f.broker /\ reason # "Kill" THEN "told" ELSE "untold"]
        /\ \A j \in 1..Len(s) : j # k =>
             \/ t[j] = [s[j] EXCEPT !.state = "killed"] /\ s[j].state # "dead"
             \/ t[j] = [s[j] EXCEPT !.exit = "untold"]
             \/ t[j] = s[j] /\ ~(reason = "Kill" /\ f.broker /\ Queued(f, j) /\ s[j].state = "dead")
    BY <1>1, <1>2 DEF Ended
  <1>4. /\ t[k] \in KidType /\ t[k].parent = p /\ t[k].state = "dead"
        /\ Told(t, k) => f.broker /\ reason # "Kill"
    <2>1. PICK x \in {"told", "untold"} :
                 /\ t[k] = [s[k] EXCEPT !.state = "dead", !.exit = x]
                 /\ x = "told" => f.broker /\ reason # "Kill"
      BY <1>3
    <2>2. s[k] \in KidType /\ s[k].parent = p
      BY <1>1
    <2> QED
      BY <2>1, <2>2 DEF KidType, Told
  <1>5. ASSUME NEW j \in 1..Len(s), j # k
        PROVE  /\ t[j] \in KidType /\ t[j].parent = p
               /\ s[j].state = "dead" => t[j].state = "dead"
               /\ Told(t, j) => Told(s, j) /\ ~(reason = "Kill" /\ f.broker /\ Queued(f, j))
    <2>1. s[j] \in KidType /\ s[j].parent = p
      BY <1>1
    <2>2. CASE t[j] = [s[j] EXCEPT !.state = "killed"] /\ s[j].state # "dead"
      BY <2>1, <2>2 DEF KidType, Told
    <2>3. CASE t[j] = [s[j] EXCEPT !.exit = "untold"]
      BY <2>1, <2>3 DEF KidType, Told
    <2>4. CASE t[j] = s[j] /\ ~(reason = "Kill" /\ f.broker /\ Queued(f, j) /\ s[j].state = "dead")
      BY <2>1, <2>4 DEF Told
    <2> QED
      BY <1>3, <1>5, <2>2, <2>3, <2>4
  <1>6. \A j \in 1..Len(s) : t[j] \in KidType /\ t[j].parent = p /\ (s[j].state = "dead" => t[j].state = "dead")
    BY <1>4, <1>5
  <1>7. t \in Seq(KidType) /\ Len(t) = Len(s)
    BY <1>1, <1>3, <1>6, SameLength
  <1> QED
    BY <1>4, <1>5, <1>6, <1>7

\* A child ends: a death its broker is told of is queued; the broker dies of a
\* Kill, and forgets what was.
LEMMA EndedOK ==
    ASSUME NEW p \in Parents, NEW s, NEW f, NodeOK(p, s, f), NEW k \in DOMAIN s, NEW reason,
           NEW t, NEW g, t = Ended(s, f, k, reason), g = Notified(f, k, reason)
    PROVE  /\ NodeOK(p, t, g) /\ Longer(s, t) /\ Len(t) = Len(s)
           /\ \A j \in 1..Len(t) : Told(t, j) => Queued(g, j) \/ (Told(s, j) /\ ~Queued(f, j))
  <1>1. /\ t \in Seq(KidType) /\ Len(t) = Len(s) /\ \A j \in 1..Len(s) : t[j].parent = p
        /\ \A j \in 1..Len(s) : s[j].state = "dead" => t[j].state = "dead"
        /\ t[k].state = "dead" /\ (Told(t, k) => f.broker /\ reason # "Kill")
        /\ \A j \in 1..Len(s) :
             j # k /\ Told(t, j) => Told(s, j) /\ ~(reason = "Kill" /\ f.broker /\ Queued(f, j))
    BY EndedView
  <1>2. /\ IsBroker(f) /\ f.exits \in Seq(Nat) /\ f.broker \in BOOLEAN
        /\ \A j \in 1..Len(f.exits) : f.exits[j] \in 1..Len(s) /\ s[f.exits[j]].state = "dead"
        /\ \A j \in DOMAIN f.parents : f.parents[j] = p
        /\ f.serving # <<>> => f.serving[2] = p /\ f.serving[3] \in Nat /\ Len(s) > 0
    BY DEF NodeOK
  <1>3. k \in 1..Len(s) /\ k \in Nat
    <2>1. s \in Seq(KidType)
      BY DEF NodeOK
    <2> QED
      BY <2>1
  <1>4. ASSUME IsBroker(g), g.broker \in BOOLEAN, g.exits \in Seq(Nat), g.parents = f.parents,
               g.serving = f.serving,
               \A j \in 1..Len(g.exits) : g.exits[j] \in 1..Len(s) /\ t[g.exits[j]].state = "dead"
        PROVE  NodeOK(p, t, g) /\ Longer(s, t)
    <2>1. NodeOK(p, t, g)
      BY <1>1, <1>2, <1>4 DEF NodeOK
    <2>2. Longer(s, t)
      BY <1>1 DEF Longer
    <2> QED
      BY <2>1, <2>2
  <1>5. CASE ~f.broker
    <2>1. g = f
      BY <1>5 DEF Notified
    <2>2. NodeOK(p, t, g) /\ Longer(s, t)
      BY <1>1, <1>2, <1>4, <2>1
    <2>3. \A j \in 1..Len(t) : Told(t, j) => Told(s, j)
      BY <1>1, <1>5
    <2> QED
      BY <1>1, <2>1, <2>2, <2>3
  <1>6. CASE f.broker /\ reason = "Kill"
    <2>1. g = [f EXCEPT !.broker = FALSE, !.exits = <<>>]
      BY <1>6 DEF Notified
    <2>2. /\ IsBroker(g) /\ g.broker = FALSE /\ g.exits = <<>> /\ g.parents = f.parents
          /\ g.serving = f.serving
      BY <1>2, <2>1 DEF IsBroker
    <2>3. g.exits \in Seq(Nat) /\ 1..Len(g.exits) = {}
      BY <2>2
    <2>4. NodeOK(p, t, g) /\ Longer(s, t)
      BY <1>4, <2>2, <2>3
    <2>5. \A j \in 1..Len(t) : Told(t, j) => Told(s, j) /\ ~Queued(f, j)
      BY <1>1, <1>6
    <2> QED
      BY <1>1, <2>4, <2>5
  <1>7. CASE f.broker /\ reason # "Kill"
    <2>1. PICK x : x = Append(f.exits, k)
      OBVIOUS
    <2>2. g = [f EXCEPT !.exits = x]
      BY <1>7, <2>1 DEF Notified
    <2>3. /\ IsBroker(g) /\ g.broker = f.broker /\ g.exits = x /\ g.parents = f.parents
          /\ g.serving = f.serving
      BY <1>2, <2>2 DEF IsBroker
    <2>4. /\ x \in Seq(Nat) /\ Len(x) \in 1..Len(x) /\ x[Len(x)] = k
          /\ \A j \in 1..Len(f.exits) : j \in 1..Len(x) /\ x[j] = f.exits[j]
          /\ \A j \in 1..Len(x) : j \in 1..Len(f.exits) \/ x[j] = k
      BY <1>2, <1>3, <2>1, AppendView
    <2>5. \A j \in 1..Len(x) : x[j] \in 1..Len(s) /\ t[x[j]].state = "dead"
      BY <1>1, <1>2, <1>3, <2>4
    <2>6. NodeOK(p, t, g) /\ Longer(s, t)
      BY <1>2, <1>4, <2>3, <2>4, <2>5
    <2>7. Queued(g, k) /\ \A j : Queued(f, j) => Queued(g, j)
      BY <2>3, <2>4 DEF Queued
    <2>8. \A j \in 1..Len(t) : Told(t, j) => Queued(g, j) \/ (Told(s, j) /\ ~Queued(f, j))
      BY <1>1, <2>7
    <2> QED
      BY <1>1, <2>6, <2>8
  <1> QED
    BY <1>2, <1>5, <1>6, <1>7

\* An exit is handled: it is the next, and of a dead instance.
LEMMA PropagatedOK ==
    ASSUME NEW p \in Parents, NEW s, NEW f, NodeOK(p, s, f), f.exits # <<>>, NEW t, NEW g, NEW k,
           t = Unreported(s, f), g = Propagated(f), k = Head(f.exits)
    PROVE  /\ NodeOK(p, t, g) /\ Longer(s, t) /\ Len(t) = Len(s)
           /\ k \in 1..Len(s) /\ s[k].state = "dead"
           /\ Known(f) => f.parents[k] = p
           /\ \A j \in 1..Len(t) : Told(t, j) =>
                Told(s, j) /\ (Queued(f, j) => Queued(g, j) \/ (j = k /\ Known(f)))
  <1>1. /\ IsBroker(f) /\ f.exits \in Seq(Nat) /\ f.broker \in BOOLEAN /\ s \in Seq(KidType)
        /\ \A j \in 1..Len(s) : s[j].parent = p
        /\ \A j \in 1..Len(f.exits) : f.exits[j] \in 1..Len(s) /\ s[f.exits[j]].state = "dead"
        /\ \A j \in DOMAIN f.parents : f.parents[j] = p
        /\ f.serving # <<>> => f.serving[2] = p /\ f.serving[3] \in Nat /\ Len(s) > 0
    BY DEF NodeOK
  <1>2. PICK x : x = Tail(f.exits)
    OBVIOUS
  <1>3. /\ x \in Seq(Nat) /\ 1 \in 1..Len(f.exits) /\ k = f.exits[1]
        /\ \A j \in 1..Len(x) : \E h \in 1..Len(f.exits) : x[j] = f.exits[h]
        /\ \A h \in 1..Len(f.exits) : f.exits[h] = k \/ \E j \in 1..Len(x) : x[j] = f.exits[h]
    BY <1>1, <1>2, TailView
  <1>4. k \in 1..Len(s) /\ s[k].state = "dead"
    BY <1>1, <1>3
  <1>5. Known(f) => f.parents[k] = p
    BY <1>1 DEF Known
  <1>6. /\ IsBroker(g) /\ g.broker = f.broker /\ g.exits = x /\ g.serving = f.serving
        /\ \A j \in DOMAIN g.parents : g.parents[j] = p
    <2>1. CASE Known(f)
      <3>1. PICK y, z : y = f.handles \ {k} /\ z = Del(f.parents, k)
        OBVIOUS
      <3>2. g = [f EXCEPT !.exits = x, !.handles = y, !.parents = z]
        BY <1>2, <2>1, <3>1 DEF Propagated
      <3>3. /\ IsBroker(g) /\ g.broker = f.broker /\ g.exits = x /\ g.serving = f.serving
            /\ g.parents = z
        BY <1>1, <3>2 DEF IsBroker
      <3>4. \A j \in DOMAIN z : z[j] = p
        BY <1>1, <3>1 DEF Del, DelAll
      <3> QED
        BY <3>3, <3>4
    <2>2. CASE ~Known(f)
      <3>1. g = [f EXCEPT !.exits = x]
        BY <1>2, <2>2 DEF Propagated
      <3> QED
        BY <1>1, <3>1 DEF IsBroker
    <2> QED
      BY <2>1, <2>2
  <1>7. \A j : Queued(f, j) => j = k \/ Queued(g, j)
    <2>1. ASSUME NEW h \in 1..Len(f.exits)
          PROVE  f.exits[h] = k \/ \E j \in 1..Len(g.exits) : g.exits[j] = f.exits[h]
      BY <1>3, <1>6
    <2> QED
      BY <2>1 DEF Queued
  <1>8. \A j \in 1..Len(x) : x[j] \in 1..Len(s) /\ s[x[j]].state = "dead"
    <2>1. ASSUME NEW j \in 1..Len(x) PROVE x[j] \in 1..Len(s) /\ s[x[j]].state = "dead"
      <3>1. PICK h \in 1..Len(f.exits) : x[j] = f.exits[h]
        BY <1>3
      <3> QED
        BY <1>1, <3>1
    <2> QED
      BY <2>1
  <1>9. /\ t \in Seq(KidType) /\ Len(t) = Len(s)
        /\ \A j \in 1..Len(s) : /\ t[j].parent = p /\ (s[j].state = "dead" => t[j].state = "dead")
                                /\ Told(t, j) => Told(s, j) /\ (j = k => Known(f))
    <2>1. CASE Known(f)
      BY <1>1, <2>1 DEF Unreported
    <2>2. ASSUME NEW h \in 1..Len(s), s[h].state = "dead", t = [s EXCEPT ![h].exit = "early"]
          PROVE  /\ t \in Seq(KidType) /\ Len(t) = Len(s)
                 /\ \A j \in 1..Len(s) : t[j].parent = s[j].parent
                 /\ \A j \in 1..Len(s) : s[j].state = "dead" => t[j].state = "dead"
                 /\ \A j \in 1..Len(s) : Told(t, j) => Told(s, j) /\ j # h
      <3>1. DOMAIN s = 1..Len(s)
        BY <1>1
      <3>2. /\ t = [j \in 1..Len(s) |-> t[j]] /\ t[h] = [s[h] EXCEPT !.exit = "early"]
            /\ \A j \in 1..Len(s) : j # h => t[j] = s[j]
        BY <2>2, <3>1
      <3>3. t[h] \in KidType /\ t[h].parent = s[h].parent /\ t[h].state = "dead" /\ ~Told(t, h)
        <4>1. s[h] \in KidType
          BY <1>1
        <4> QED
          BY <2>2, <3>2, <4>1 DEF KidType, Told
      <3>4. t = [j \in 1..Len(s) |-> t[j]] /\ \A j \in 1..Len(s) : j # h => t[j] = s[j]
        BY <3>2
      <3>5. \A j \in 1..Len(s) : s[j] \in KidType /\ t[j] \in KidType
        BY <1>1, <3>3, <3>4
      <3>6. t \in Seq(KidType) /\ Len(t) = Len(s)
        BY <1>1, <3>4, <3>5, SameLength
      <3> QED
        BY <3>3, <3>4, <3>6 DEF Told
    <2>3. CASE ~Known(f)
      <3>1. t = [s EXCEPT ![k].exit = "early"]
        BY <2>3 DEF Unreported
      <3> QED
        BY <1>1, <1>4, <2>2, <3>1
    <2> QED
      BY <2>1, <2>3
  <1>10. NodeOK(p, t, g) /\ Longer(s, t)
    <2>1. \A j \in 1..Len(g.exits) : g.exits[j] \in 1..Len(s) /\ t[g.exits[j]].state = "dead"
      BY <1>6, <1>8, <1>9
    <2> QED
      BY <1>1, <1>3, <1>6, <1>9, <2>1 DEF NodeOK, Longer
  <1> QED
    BY <1>4, <1>5, <1>7, <1>9, <1>10

\* A signal: an instance that is not dead is asked to end, or killed.
LEMMA SignalledOK ==
    ASSUME NEW p \in Parents, NEW s, NEW f, NodeOK(p, s, f), NEW k, NEW signal, NEW t,
           t = Signalled(s, f, k, signal)
    PROVE  /\ NodeOK(p, t, f) /\ Longer(s, t) /\ Len(t) = Len(s)
           /\ \A j \in 1..Len(t) : Told(t, j) => Told(s, j)
  <1>1. /\ IsBroker(f) /\ f.exits \in Seq(Nat) /\ f.broker \in BOOLEAN /\ s \in Seq(KidType)
        /\ \A j \in 1..Len(s) : s[j].parent = p
        /\ \A j \in 1..Len(f.exits) : f.exits[j] \in 1..Len(s) /\ s[f.exits[j]].state = "dead"
        /\ \A j \in DOMAIN f.parents : f.parents[j] = p
        /\ f.serving # <<>> => f.serving[2] = p /\ f.serving[3] \in Nat /\ Len(s) > 0
    BY DEF NodeOK
  <1>2. /\ t \in Seq(KidType) /\ Len(t) = Len(s)
        /\ \A j \in 1..Len(s) : /\ t[j].parent = p /\ (s[j].state = "dead" => t[j].state = "dead")
                                /\ Told(t, j) => Told(s, j)
    <2>1. CASE t = s
      BY <1>1, <2>1
    <2>2. CASE t # s
      <3>1. PICK v \in {"killed", "asked"} : t = [s EXCEPT ![k].state = v] /\ s[k].state # "dead"
        BY <2>2 DEF Signalled
      <3>2. k \in 1..Len(s) /\ DOMAIN s = 1..Len(s)
        BY <1>1, <2>2, <3>1
      <3>3. /\ t = [j \in 1..Len(s) |-> t[j]] /\ t[k] = [s[k] EXCEPT !.state = v]
            /\ \A j \in 1..Len(s) : j # k => t[j] = s[j]
        BY <3>1, <3>2
      <3>4. t[k] \in KidType /\ t[k].parent = s[k].parent /\ ~Told(t, k)
        <4>1. s[k] \in KidType
          BY <1>1, <3>2
        <4> QED
          BY <3>3, <4>1 DEF KidType, Told
      <3>5. /\ t \in Seq(KidType) /\ Len(t) = Len(s)
            /\ \A j \in 1..Len(s) : t[j].parent = s[j].parent
            /\ \A j \in 1..Len(s) : s[j].state = "dead" => t[j].state = "dead"
            /\ \A j \in 1..Len(s) : Told(t, j) => Told(s, j) /\ j # k
        BY <1>1, <3>1, <3>3, <3>4, OneKidView
      <3> QED
        BY <1>1, <3>5
    <2> QED
      BY <2>1, <2>2
  <1>3. NodeOK(p, t, f) /\ Longer(s, t)
    <2>1. \A j \in 1..Len(f.exits) : f.exits[j] \in 1..Len(s) /\ t[f.exits[j]].state = "dead"
      BY <1>1, <1>2
    <2> QED
      BY <1>1, <1>2, <2>1 DEF NodeOK, Longer
  <1> QED
    BY <1>2, <1>3

\* Every node of a child is the node of a parent.
LEMMA NodeIs == \A n \in Placements : \E p \in Parents : n = NodeOf[p]
  BY DEF Placements

\* What is at the start.
LEMMA ParentBegins ==
    ASSUME NEW p \in Parents, NEW K, NEW how \in Hows, NEW k \in Numbers(K, p) \union {None},
           NEW x \in {"idle", "failed", "up"}, NEW a \in Nat, NEW m, m = Parent(x, a, k, how),
           k \in Nat, x = "up" => k # None, x = "idle" => a = 0 /\ k = None
    PROVE  ParentOK(p, m, K)
  <1>1. <<>> \in Seq(Placements \X Nat)
    OBVIOUS
  <1>2. m \in ParentType
    BY <1>1 DEF Parent, ParentType
  <1>3. /\ m.child = k /\ m.step = x /\ m.attempt = a /\ m.rx = "empty" /\ m.result = "none"
    BY DEF Parent
  <1> QED
    BY <1>2, <1>3 DEF ParentOK

\* A node begins with children of its parent, if any, and a broker with nothing to do.
LEMMA NodeBegins ==
    ASSUME NEW p, NEW s \in Seq(KidType), \A k \in 1..Len(s) : s[k].parent = p, NEW f, IsBroker(f),
           f.broker = TRUE, f.exits = <<>>, \A k \in DOMAIN f.parents : f.parents[k] = p,
           f.serving = <<>>
    PROVE  NodeOK(p, s, f)
  <1>1. f.exits \in Seq(Nat) /\ 1..Len(f.exits) = {}
    OBVIOUS
  <1> QED
    BY <1>1 DEF NodeOK

\* A node that does nothing keeps its children.
LEMMA LongerSelf == \A s : Longer(s, s)
  BY DEF Longer

-----------------------------------------------------------------------------
(* What a parent does.                                                     *)

\* A parent that keeps its mailbox, and counts on nothing new.
LEMMA KeptAlike ==
    ASSUME NEW p, NEW m, NEW w, NEW K, ParentOK(p, w, K), w.exits = m.exits,
           Started(m) => Started(w) /\ w.child = m.child,
           \A k : Counts(w, k) => Counts(m, k)
    PROVE  KeptParent(p, m, w, K)
  BY DEF KeptParent, Heard

\* What two steps of a parent keep, both of them keep.
LEMMA KeptTwice ==
    ASSUME NEW p, NEW m, NEW w, NEW u, NEW K, KeptParent(p, m, w, K), KeptParent(p, w, u, K)
    PROVE  KeptParent(p, m, u, K)
  BY DEF KeptParent

\* The first attempt.
LEMMA Requests ==
    ASSUME NEW p, NEW m, NEW w, NEW K, ParentOK(p, m, K), m.step = "idle",
           w = [m EXCEPT !.step = "request", !.attempt = 1]
    PROVE  KeptParent(p, m, w, K) /\ w.attempt = 1 /\ m.attempt = 0
  <1>1. m \in ParentType /\ m.attempt = 0
    BY DEF ParentOK
  <1>2. /\ w \in ParentType /\ w.step = "request" /\ w.attempt = 1 /\ w.child = m.child
        /\ w.exits = m.exits /\ w.rx = m.rx /\ w.result = m.result
    BY <1>1 DEF ParentType
  <1>3. ParentOK(p, w, K)
    BY <1>2 DEF ParentOK
  <1>4. ~Started(m) /\ \A k : Counts(m, k)
    BY DEF Started, Counts
  <1>5. KeptParent(p, m, w, K)
    BY <1>2, <1>3, <1>4, KeptAlike
  <1> QED
    BY <1>1, <1>2, <1>5

\* The next attempt.
LEMMA Retries ==
    ASSUME NEW p, NEW m, NEW w, NEW K, ParentOK(p, m, K), m.step = "request", NEW a \in Nat,
           w = [m EXCEPT !.attempt = a]
    PROVE  KeptParent(p, m, w, K) /\ w.attempt = a
  <1>1. m \in ParentType
    BY DEF ParentOK
  <1>2. /\ w \in ParentType /\ w.step = "request" /\ w.attempt = a /\ w.child = m.child
        /\ w.exits = m.exits /\ w.rx = m.rx /\ w.result = m.result
    BY <1>1 DEF ParentType
  <1>3. ParentOK(p, w, K)
    BY <1>2 DEF ParentOK
  <1>4. ~Started(m) /\ \A k : Counts(m, k)
    BY DEF Started, Counts
  <1>5. KeptParent(p, m, w, K)
    BY <1>2, <1>3, <1>4, KeptAlike
  <1> QED
    BY <1>2, <1>5

\* The request fails.
LEMMA Fails ==
    ASSUME NEW p, NEW m, NEW w, NEW K, ParentOK(p, m, K), m.step = "request",
           w = [m EXCEPT !.step = "failed"]
    PROVE  KeptParent(p, m, w, K) /\ w.attempt = m.attempt
  <1>1. m \in ParentType
    BY DEF ParentOK
  <1>2. /\ w \in ParentType /\ w.step = "failed" /\ w.attempt = m.attempt /\ w.child = m.child
        /\ w.exits = m.exits /\ w.rx = m.rx /\ w.result = m.result
    BY <1>1 DEF ParentType
  <1>3. ParentOK(p, w, K)
    BY <1>2 DEF ParentOK
  <1>4. ~Started(m) /\ \A k : Counts(m, k)
    BY DEF Started, Counts
  <1>5. KeptParent(p, m, w, K)
    BY <1>2, <1>3, <1>4, KeptAlike
  <1> QED
    BY <1>2, <1>5

\* The answer names an instance.
LEMMA Answers ==
    ASSUME NEW p, NEW m, NEW w, NEW K, ParentOK(p, m, K), m.step = "request", NEW k \in Numbers(K, p),
           w = [m EXCEPT !.step = "up", !.child = k]
    PROVE  KeptParent(p, m, w, K) /\ w.attempt = m.attempt
  <1>1. m \in ParentType /\ m.rx # "fired" /\ m.result # "Ok"
    BY DEF ParentOK
  <1>2. k \in Nat /\ k # None
    BY DEF Numbers, None
  <1>3. /\ w \in ParentType /\ w.step = "up" /\ w.attempt = m.attempt /\ w.child = k
        /\ w.exits = m.exits /\ w.rx = m.rx /\ w.result = m.result
    BY <1>1, <1>2 DEF ParentType
  <1>4. ParentOK(p, w, K)
    BY <1>1, <1>2, <1>3 DEF ParentOK
  <1>5. ~Started(m) /\ \A j : Counts(m, j)
    BY DEF Started, Counts
  <1>6. KeptParent(p, m, w, K)
    BY <1>3, <1>4, <1>5, KeptAlike
  <1> QED
    BY <1>3, <1>6

\* A parent goes on with its shutdown.
LEMMA Goes ==
    ASSUME NEW p, NEW m, NEW w, NEW K, ParentOK(p, m, K), Started(m),
           NEW x \in {"wait", "clear", "killed"}, w = [m EXCEPT !.step = x]
    PROVE  KeptParent(p, m, w, K) /\ w.attempt = m.attempt
  <1>1. m \in ParentType
    BY DEF ParentOK
  <1>2. /\ w \in ParentType /\ w.step = x /\ w.attempt = m.attempt /\ w.child = m.child
        /\ w.exits = m.exits /\ w.rx = m.rx /\ w.result = m.result
    BY <1>1 DEF ParentType
  <1>3. ParentOK(p, w, K)
    BY <1>2 DEF ParentOK
  <1>4. Started(w) /\ \A k : ~Counts(w, k)
    BY <1>2 DEF Started, Counts
  <1>5. KeptParent(p, m, w, K)
    BY <1>2, <1>3, <1>4, KeptAlike
  <1> QED
    BY <1>2, <1>5

\* Its receiver fails, or is fired for a dead child of that number.
LEMMA Receives ==
    ASSUME NEW p, NEW m, NEW w, NEW K, ParentOK(p, m, K), NEW x \in {"dropped", "fired"},
           x = "fired" => Started(m) /\ \E q \in Parents : m.child \in DeadOf(K, q),
           w = [m EXCEPT !.rx = x]
    PROVE  KeptParent(p, m, w, K) /\ w.attempt = m.attempt /\ w.exits = m.exits
  <1>1. m \in ParentType
    BY DEF ParentOK
  <1>2. /\ w \in ParentType /\ w.step = m.step /\ w.attempt = m.attempt /\ w.child = m.child
        /\ w.exits = m.exits /\ w.rx = x /\ w.result = m.result
    BY <1>1 DEF ParentType
  <1>3. ParentOK(p, w, K)
    BY <1>2 DEF ParentOK, Started
  <1>4. (Started(m) => Started(w)) /\ \A k : Counts(w, k) => Counts(m, k)
    BY <1>2 DEF Started, Counts
  <1>5. KeptParent(p, m, w, K)
    BY <1>2, <1>3, <1>4, KeptAlike
  <1> QED
    BY <1>2, <1>5

\* A wait is registered.
Waiting(m, x) == [m EXCEPT !.rx = "empty", !.step = x]

\* shutdown_remote_and_wait registers a wait: the parent is still started.
LEMMA Registers ==
    ASSUME NEW p, NEW m, NEW w, NEW K, ParentOK(p, m, K), Started(m), NEW x \in {"signal", "killed"},
           w = Waiting(m, x)
    PROVE  KeptParent(p, m, w, K) /\ w.attempt = m.attempt
  <1>1. m \in ParentType
    BY DEF ParentOK
  <1>2. /\ w \in ParentType /\ w.step = x /\ w.attempt = m.attempt /\ w.child = m.child
        /\ w.exits = m.exits /\ w.rx = "empty" /\ w.result = m.result
    BY <1>1 DEF ParentType, Waiting
  <1>3. ParentOK(p, w, K)
    BY <1>2 DEF ParentOK
  <1>4. Started(w) /\ \A k : ~Counts(w, k)
    BY <1>2 DEF Started, Counts
  <1>5. KeptParent(p, m, w, K)
    BY <1>2, <1>3, <1>4, KeptAlike
  <1> QED
    BY <1>2, <1>5

\* The shutdown returns: Ok if the wait fired.
Returned(m, r) == [m EXCEPT !.step = "returned", !.result = r, !.rx = "empty"]

\* shutdown_remote_and_wait returns Ok only for a child that is dead.
LEMMA Returns ==
    ASSUME NEW p, NEW m, NEW w, NEW K, ParentOK(p, m, K), Started(m),
           NEW r \in {"Ok", "Interrupted", "Timeout"},
           r = "Ok" => \E q \in Parents : m.child \in DeadOf(K, q),
           w = Returned(m, r)
    PROVE  KeptParent(p, m, w, K) /\ w.attempt = m.attempt
  <1>1. m \in ParentType
    BY DEF ParentOK
  <1>2. /\ w \in ParentType /\ w.step = "returned" /\ w.attempt = m.attempt /\ w.child = m.child
        /\ w.exits = m.exits /\ w.rx = "empty" /\ w.result = r
    BY <1>1 DEF ParentType, Returned
  <1>3. ParentOK(p, w, K)
    BY <1>2 DEF ParentOK
  <1>4. Started(w) /\ \A k : ~Counts(w, k)
    BY <1>2 DEF Started, Counts
  <1>5. KeptParent(p, m, w, K)
    BY <1>2, <1>3, <1>4, KeptAlike
  <1> QED
    BY <1>2, <1>5

\* An exit comes to its mailbox.
Hearing(p, m, k) == [m EXCEPT !.exits = Append(@, <<NodeOf[p], k>>)]

\* An exit delivered to the mailbox of a parent is there.
LEMMA Hears ==
    ASSUME NEW p \in Parents, NEW m, NEW w, NEW K, ParentOK(p, m, K), NEW k \in Nat,
           w = Hearing(p, m, k)
    PROVE  KeptParent(p, m, w, K) /\ w.attempt = m.attempt /\ Heard(p, k, w)
  <1>1. m \in ParentType
    BY DEF ParentOK
  <1>2. PICK e \in Placements \X Nat : e = <<NodeOf[p], k>>
    BY DEF Placements
  <1>3. PICK t : m.exits \in Seq(Placements \X Nat) /\ t = Append(m.exits, e)
    BY <1>1 DEF ParentType
  <1>4. /\ t \in Seq(Placements \X Nat) /\ Len(t) \in 1..Len(t) /\ t[Len(t)] = e
        /\ \A j \in 1..Len(m.exits) : j \in 1..Len(t) /\ t[j] = m.exits[j]
    BY <1>3, AppendView
  <1>5. /\ w \in ParentType /\ w.step = m.step /\ w.attempt = m.attempt /\ w.child = m.child
        /\ w.exits = t /\ w.rx = m.rx /\ w.result = m.result
    <2>1. w = [m EXCEPT !.exits = t]
      BY <1>2, <1>3 DEF Hearing
    <2> QED
      BY <1>1, <1>4, <2>1 DEF ParentType
  <1>6. ParentOK(p, w, K)
    BY <1>5 DEF ParentOK
  <1>7. (Started(m) => Started(w)) /\ \A j : Counts(w, j) => Counts(m, j)
    BY <1>5 DEF Started, Counts
  <1>8. Heard(p, k, w) /\ \A j : Heard(p, j, m) => Heard(p, j, w)
    BY <1>2, <1>4, <1>5 DEF Heard
  <1>9. KeptParent(p, m, w, K)
    BY <1>5, <1>6, <1>7, <1>8 DEF KeptParent
  <1> QED
    BY <1>5, <1>8, <1>9

\* handle_exit: the exit that is taken is another's, or the parent restarts.
Handled(p, m) ==
    [m EXCEPT !.exits = Tail(@),
              !.step = IF Head(m.exits) = <<NodeOf[p], m.child>> THEN "restart" ELSE @]

\* A parent takes an exit: it restarts the child that is its own, and drops the others.
LEMMA Handles ==
    ASSUME NEW p, NEW m, NEW w, NEW K, ParentOK(p, m, K), m.step \in {"up", "failed"}, m.exits # <<>>,
           w = Handled(p, m)
    PROVE  KeptParent(p, m, w, K) /\ w.attempt = m.attempt
  <1>1. m \in ParentType
    BY DEF ParentOK
  <1>2. PICK t : t = Tail(m.exits)
    OBVIOUS
  <1>3. /\ t \in Seq(Placements \X Nat)
        /\ \A h \in 1..Len(m.exits) :
             m.exits[h] = Head(m.exits) \/ \E j \in 1..Len(t) : t[j] = m.exits[h]
    <2>1. m.exits \in Seq(Placements \X Nat)
      BY <1>1 DEF ParentType
    <2> QED
      BY <1>2, <2>1, TailView
  <1>4. PICK x \in {"restart", "up", "failed"} :
               /\ w = [m EXCEPT !.exits = t, !.step = x]
               /\ x = "restart" \/ (x = m.step /\ Head(m.exits) # <<NodeOf[p], m.child>>)
    BY <1>2 DEF Handled
  <1>5. /\ w \in ParentType /\ w.step = x /\ w.attempt = m.attempt /\ w.child = m.child
        /\ w.exits = t /\ w.rx = m.rx /\ w.result = m.result
    BY <1>1, <1>3, <1>4 DEF ParentType
  <1>6. ParentOK(p, w, K)
    BY <1>4, <1>5 DEF ParentOK
  <1>7. Started(w)
    BY <1>4, <1>5 DEF Started
  <1>8. ASSUME NEW k, Counts(w, k) PROVE Counts(m, k) /\ (Heard(p, k, m) => Heard(p, k, w))
    <2>1. m.step = "up" /\ m.child = k /\ Head(m.exits) # <<NodeOf[p], k>>
      BY <1>4, <1>5, <1>8 DEF Counts
    <2>2. ASSUME Heard(p, k, m) PROVE Heard(p, k, w)
      <3>1. PICK h \in 1..Len(m.exits) : m.exits[h] = <<NodeOf[p], k>>
        BY <2>2 DEF Heard
      <3>2. \E j \in 1..Len(t) : t[j] = <<NodeOf[p], k>>
        BY <1>3, <2>1, <3>1
      <3> QED
        BY <1>5, <3>2 DEF Heard
    <2> QED
      BY <2>1, <2>2 DEF Counts
  <1> QED
    BY <1>5, <1>6, <1>7, <1>8 DEF KeptParent
=============================================================================
