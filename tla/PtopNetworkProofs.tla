------------------------- MODULE PtopNetworkProofs -------------------------
(***************************************************************************)
(* Proofs about a point-to-point network, for every topology file, every   *)
(* traffic and every length of the run: first that ArbiterEcmpHelper       *)
(* computes shortest ways and packets keep to them, then that the log of a *)
(* link's queue is what the queue held.                                    *)
(***************************************************************************)
EXTENDS EcmpRouting, PtopLinkQueueTracker, FiniteSetTheorems, WellFoundedInduction, TLAPS

-----------------------------------------------------------------------------
(*****************************************************************************)
(* Walks in a graph: a walk of h links is a function from 0..h to its nodes. *)
(*****************************************************************************)
(* Natural numbers are well ordered. *)
LEMMA LeastElement ==
    ASSUME NEW T, T \subseteq Nat, T # {}
    PROVE  \E x \in T : \A y \in T : x <= y
<1>1. PICK x \in T : \A y \in T : ~ (<<y, x>> \in OpToRel(<, Nat))
  BY NatLessThanWellFounded, WFMin
<1>2. \A y \in T : ~ (y < x) BY <1>1 DEF OpToRel
<1> QED BY <1>2

(* So a bounded set of natural numbers that is not empty has a greatest one. *)
LEMMA GreatestElement ==
    ASSUME NEW n \in Nat, NEW T, T \subseteq 0..n, T # {}
    PROVE  \E x \in T : \A y \in T : y <= x
<1> DEFINE U == {n - x : x \in T}
<1>1. U \subseteq Nat /\ U # {}
  <2>1. \A x \in T : x \in Nat /\ x <= n OBVIOUS
  <2>2. \A x \in T : n - x \in Nat BY <2>1
  <2> QED BY <2>2
<1>2. PICK u \in U : \A w \in U : u <= w
  <2> HIDE DEF U
  <2> QED BY <1>1, LeastElement
<1>3. PICK x \in T : u = n - x OBVIOUS
<1>4. ASSUME NEW y \in T PROVE y <= x
  <2>1. n - y \in U OBVIOUS
  <2>2. n - x <= n - y BY <1>2, <1>3, <2>1
  <2>3. x \in 0..n /\ y \in 0..n OBVIOUS
  <2> QED BY ONLY n \in Nat, <2>2, <2>3
<1> QED BY <1>4
-----------------------------------------------------------------------------
(***************************************************************************)
(* Walks along the links L of the nodes V, which may also stay where they  *)
(* are.                                                                    *)
(***************************************************************************)
Walks(V, L, h) ==
    {p \in [0..h -> V] : \A i \in 0..(h - 1) : p[i] = p[i + 1] \/ <<p[i], p[i + 1]>> \in L}
Part(p, i, j) == [x \in 0..(j - i) |-> p[i + x]]
Join(p, h, q, j) == [x \in 0..(h + j) |-> IF x <= h THEN p[x] ELSE q[x - h]]

(* A part of a walk is a walk. *)
LEMMA PartIsWalk ==
    ASSUME NEW V, NEW L, NEW h \in Nat, NEW p \in Walks(V, L, h),
           NEW i \in 0..h, NEW j \in 0..h, i <= j
    PROVE  /\ Part(p, i, j) \in Walks(V, L, j - i)
           /\ Part(p, i, j)[0] = p[i] /\ Part(p, i, j)[j - i] = p[j]
           /\ \A x \in 0..(j - i) : Part(p, i, j)[x] = p[i + x]
<1>1. p \in [0..h -> V] /\ j - i \in Nat BY DEF Walks
<1>2. \A x \in 0..(j - i) : i + x \in 0..h /\ p[i + x] \in V BY <1>1
<1>3. Part(p, i, j) \in [0..(j - i) -> V] BY <1>2 DEF Part
<1>4. ASSUME NEW x \in 0..(j - i - 1)
      PROVE  \/ Part(p, i, j)[x] = Part(p, i, j)[x + 1]
             \/ <<Part(p, i, j)[x], Part(p, i, j)[x + 1]>> \in L
  <2>1. x \in 0..(j - i) /\ x + 1 \in 0..(j - i) /\ i + x \in 0..(h - 1) /\ i + (x + 1) = (i + x) + 1
    BY <1>1
  <2>2. p[i + x] = p[(i + x) + 1] \/ <<p[i + x], p[(i + x) + 1]>> \in L BY <2>1 DEF Walks
  <2> QED BY <2>1, <2>2 DEF Part
<1>5. 0 \in 0..(j - i) /\ j - i \in 0..(j - i) /\ i + 0 = i /\ i + (j - i) = j BY <1>1
<1>6. Part(p, i, j) \in Walks(V, L, j - i) BY <1>3, <1>4 DEF Walks
<1> QED BY <1>5, <1>6 DEF Part

(* Two walks, the second from where the first ends, join into one. *)
LEMMA JoinIsWalk ==
    ASSUME NEW V, NEW L, NEW h \in Nat, NEW j \in Nat,
           NEW p \in Walks(V, L, h), NEW q \in Walks(V, L, j), p[h] = q[0]
    PROVE  /\ Join(p, h, q, j) \in Walks(V, L, h + j)
           /\ Join(p, h, q, j)[0] = p[0] /\ Join(p, h, q, j)[h + j] = q[j]
<1> DEFINE r == Join(p, h, q, j)
<1>1. p \in [0..h -> V] /\ q \in [0..j -> V] BY DEF Walks
<1>2. \A x \in 0..(h + j) : r[x] = IF x <= h THEN p[x] ELSE q[x - h] BY DEF Join
<1>3. r \in [0..(h + j) -> V]
  <2>1. \A x \in 0..(h + j) : (IF x <= h THEN p[x] ELSE q[x - h]) \in V
    <3>1. \A x \in 0..(h + j) : (x <= h => x \in 0..h) /\ (~(x <= h) => x - h \in 0..j) OBVIOUS
    <3> QED BY <1>1, <3>1
  <2> QED BY <2>1 DEF Join
<1>4. ASSUME NEW x \in 0..(h + j - 1)
      PROVE  r[x] = r[x + 1] \/ <<r[x], r[x + 1]>> \in L
  <2>0. x \in 0..(h + j) /\ x + 1 \in 0..(h + j) OBVIOUS
  <2>1. CASE x + 1 <= h
    <3>1. x \in 0..(h - 1) /\ r[x] = p[x] /\ r[x + 1] = p[x + 1] BY <1>2, <2>0, <2>1
    <3>2. p[x] = p[x + 1] \/ <<p[x], p[x + 1]>> \in L BY <3>1 DEF Walks
    <3> QED BY <3>1, <3>2
  <2>2. CASE x = h
    <3>1. 0 \in 0..(j - 1) /\ r[x] = q[0] /\ r[x + 1] = q[0 + 1] BY <1>2, <2>0, <2>2
    <3>2. q[0] = q[0 + 1] \/ <<q[0], q[0 + 1]>> \in L BY <3>1 DEF Walks
    <3> QED BY <3>1, <3>2
  <2>3. CASE x > h
    <3>1. x - h \in 0..(j - 1) /\ r[x] = q[x - h] /\ r[x + 1] = q[(x - h) + 1]
      <4>1. ~(x <= h) /\ ~(x + 1 <= h) /\ x + 1 - h = (x - h) + 1 /\ x - h \in 0..(j - 1)
        BY <2>3
      <4> QED BY <1>2, <2>0, <4>1
    <3>2. q[x - h] = q[(x - h) + 1] \/ <<q[x - h], q[(x - h) + 1]>> \in L BY <3>1 DEF Walks
    <3> QED BY <3>1, <3>2
  <2>4. x + 1 <= h \/ x = h \/ x > h OBVIOUS
  <2> QED BY <2>1, <2>2, <2>3, <2>4
<1>5. r \in Walks(V, L, h + j)
  <2> HIDE DEF r
  <2> QED BY <1>3, <1>4 DEF Walks
<1>6. r[0] = p[0] /\ r[h + j] = q[j]
  <2>1. 0 \in 0..(h + j) /\ h + j \in 0..(h + j) OBVIOUS
  <2>2. CASE j = 0 BY <1>2, <2>1, <2>2
  <2>3. CASE j # 0
    <3>1. ~(h + j <= h) /\ h + j - h = j BY <2>3
    <3> QED BY <1>2, <2>1, <3>1
  <2> QED BY <2>2, <2>3
<1> QED BY <1>5, <1>6

(* The same way back. *)
LEMMA ReverseIsWalk ==
    ASSUME NEW V, NEW L, \A l \in L : <<l[2], l[1]>> \in L,
           NEW h \in Nat, NEW p \in Walks(V, L, h)
    PROVE  \E q \in Walks(V, L, h) : q[0] = p[h] /\ q[h] = p[0]
<1> DEFINE q == [x \in 0..h |-> p[h - x]]
<1>1. p \in [0..h -> V] BY DEF Walks
<1>2. \A x \in 0..h : h - x \in 0..h OBVIOUS
<1>3. q \in [0..h -> V] BY <1>1, <1>2
<1>4. ASSUME NEW x \in 0..(h - 1) PROVE q[x] = q[x + 1] \/ <<q[x], q[x + 1]>> \in L
  <2>1. h - (x + 1) \in 0..(h - 1) /\ (h - (x + 1)) + 1 = h - x /\ x \in 0..h /\ x + 1 \in 0..h
    OBVIOUS
  <2>2. PICK y \in 0..(h - 1) : y = h - (x + 1) /\ y + 1 = h - x BY <2>1
  <2>3. p[y] = p[y + 1] \/ <<p[y], p[y + 1]>> \in L BY DEF Walks
  <2>4. <<p[y], p[y + 1]>> \in L => <<p[y + 1], p[y]>> \in L
    <3>1. \A u, w : <<u, w>> \in L => <<w, u>> \in L OBVIOUS
    <3> QED BY <3>1
  <2>5. q[x] = p[y + 1] /\ q[x + 1] = p[y] BY <2>1, <2>2
  <2> HIDE DEF q
  <2> QED BY <2>3, <2>4, <2>5
<1>5. q[0] = p[h] /\ q[h] = p[0] OBVIOUS
<1>6. q \in Walks(V, L, h)
  <2> HIDE DEF q
  <2> QED BY <1>3, <1>4 DEF Walks
<1> QED BY <1>5, <1>6

-----------------------------------------------------------------------------
(***************************************************************************)
(* The algorithm of Floyd and Warshall.                                    *)
(***************************************************************************)
(* What the matrix d of distances is after k rounds.  An entry below the   *)
(* infinite one is the length of a walk, and no walk whose inner nodes are *)
(* below k is shorter than its entry.                                      *)
Relaxed(d, r, V, L) ==
    /\ d \in [V \X V -> 0..Infinite]
    /\ \A a, b \in V : d[<<a, b>>] < Infinite =>
         \E p \in Walks(V, L, d[<<a, b>>]) : p[0] = a /\ p[d[<<a, b>>]] = b
    /\ \A h \in Nat : \A p \in Walks(V, L, h) :
         (\A i \in 1..(h - 1) : p[i] < r) => d[<<p[0], p[h]>>] <= h

(* All that is needed of the distance that counts as infinite. *)
LEMMA InfiniteIsLarge == Infinite \in Nat /\ Infinite > 1
BY SMT DEF Infinite

(* The matrix starts with the walks of no link and of one link. *)
LEMMA RelaxedAtFirst ==
    ASSUME NEW V, V \subseteq Nat, NEW L, L \subseteq V \X V, \A a \in V : <<a, a>> \notin L,
           NEW d, d = [p \in V \X V |-> IF p \in L THEN 1 ELSE IF p[1] = p[2] THEN 0 ELSE Infinite]
    PROVE  Relaxed(d, 0, V, L)
<1>1. d \in [V \X V -> 0..Infinite] BY InfiniteIsLarge
<1>2. \A a, b \in V : d[<<a, b>>] = IF <<a, b>> \in L THEN 1 ELSE IF a = b THEN 0 ELSE Infinite
  OBVIOUS
<1>3. ASSUME NEW a \in V, NEW b \in V, d[<<a, b>>] < Infinite
      PROVE  \E p \in Walks(V, L, d[<<a, b>>]) : p[0] = a /\ p[d[<<a, b>>]] = b
  <2>1. CASE <<a, b>> \in L
    <3> DEFINE p == [i \in 0..1 |-> IF i = 0 THEN a ELSE b]
    <3>1. d[<<a, b>>] = 1 BY <1>2, <2>1
    <3>2. p[0] = a /\ p[1] = b OBVIOUS
    <3>3. p \in [0..1 -> V] OBVIOUS
    <3>4. \A i \in 0..(1 - 1) : i = 0 /\ i + 1 = 1 OBVIOUS
    <3>5. p \in Walks(V, L, 1)
      <4> HIDE DEF p
      <4> QED BY <2>1, <3>2, <3>3, <3>4 DEF Walks
    <3> QED BY <3>1, <3>2, <3>5
  <2>2. CASE <<a, b>> \notin L
    <3> DEFINE p == [i \in 0..0 |-> a]
    <3>1. d[<<a, b>>] = 0 /\ a = b
      BY <1>2, <1>3, <2>2, InfiniteIsLarge
    <3>2. p[0] = a /\ p \in [0..0 -> V] OBVIOUS
    <3>3. \A i \in 0..(0 - 1) : FALSE OBVIOUS
    <3>4. p \in Walks(V, L, 0)
      <4> HIDE DEF p
      <4> QED BY <3>2, <3>3 DEF Walks
    <3> QED BY <3>1, <3>2, <3>4
  <2> QED BY <2>1, <2>2
<1>4. ASSUME NEW h \in Nat, NEW p \in Walks(V, L, h), \A i \in 1..(h - 1) : p[i] < 0
      PROVE  d[<<p[0], p[h]>>] <= h
  <2>1. p \in [0..h -> V] /\ 0 \in 0..h /\ h \in 0..h BY DEF Walks
  <2>2. p[0] \in V /\ p[h] \in V BY <2>1
  <2>3. CASE h = 0
    <3>1. p[0] = p[h] BY <2>3
    <3>2. <<p[0], p[h]>> \notin L BY <2>2, <3>1
    <3>3. d[<<p[0], p[h]>>] = 0 BY <1>2, <2>2, <3>1, <3>2
    <3> QED BY <2>3, <3>3
  <2>4. CASE h = 1
    <3>1. 0 \in 0..(h - 1) /\ 0 + 1 = h BY <2>4
    <3>2. p[0] = p[h] \/ <<p[0], p[h]>> \in L BY <3>1 DEF Walks
    <3>3. d[<<p[0], p[h]>>] \in {0, 1} BY <1>2, <2>2, <3>2
    <3> QED BY <2>4, <3>3
  <2>5. CASE h > 1
    <3>1. 1 \in 1..(h - 1) /\ 1 \in 0..h BY <2>5
    <3>2. p[1] \in Nat BY <2>1, <3>1
    <3>3. p[1] < 0 BY <1>4, <3>1
    <3> QED BY <3>2, <3>3
  <2> QED BY <2>3, <2>4, <2>5
<1> QED BY <1>1, <1>3, <1>4 DEF Relaxed

(* One round of the algorithm of Floyd and Warshall: node r becomes an inner node. *)
LEMMA RelaxedOneMore ==
    ASSUME NEW V, V \subseteq Nat, NEW L, NEW r \in V, NEW d, Relaxed(d, r, V, L), NEW e,
           e = [p \in V \X V |->
                  LET via == d[<<p[1], r>>] + d[<<r, p[2]>>]
                  IN  IF d[p] > via THEN via ELSE d[p]]
    PROVE  Relaxed(e, r + 1, V, L)
<1> DEFINE Via(a, b) == d[<<a, r>>] + d[<<r, b>>]
<1>0. r \in Nat OBVIOUS
<1>1. \A a, b \in V : d[<<a, b>>] \in Nat /\ d[<<a, b>>] <= Infinite /\ Infinite \in Nat
  <2>1. \A a, b \in V : d[<<a, b>>] \in 0..Infinite BY DEF Relaxed
  <2>2. \A x \in 0..Infinite : x \in Nat /\ x <= Infinite BY ONLY InfiniteIsLarge
  <2> QED BY ONLY <2>1, <2>2, InfiniteIsLarge
<1>2. \A a, b \in V : Via(a, b) \in Nat
  <2>1. \A a, b \in V : d[<<a, r>>] \in Nat /\ d[<<r, b>>] \in Nat BY ONLY <1>1, r \in V
  <2> QED BY ONLY <2>1
<1>3. \A a, b \in V : e[<<a, b>>] = IF d[<<a, b>>] > Via(a, b) THEN Via(a, b) ELSE d[<<a, b>>]
  OBVIOUS
<1>4. \A a, b \in V : e[<<a, b>>] \in Nat /\ e[<<a, b>>] <= d[<<a, b>>] /\ e[<<a, b>>] <= Via(a, b)
  <2> HIDE DEF Via
  <2>1. TAKE a \in V, b \in V
  <2>2. PICK x \in Nat : x = d[<<a, b>>] BY <1>1
  <2>3. PICK y \in Nat : y = Via(a, b) BY <1>2
  <2>4. e[<<a, b>>] = IF x > y THEN y ELSE x BY <1>3, <2>2, <2>3
  <2> QED BY <2>2, <2>3, <2>4
<1>5. e \in [V \X V -> 0..Infinite]
  <2>1. \A p \in V \X V : \E a, b \in V : p = <<a, b>>
    <3> QED BY ONLY TRUE
  <2>2. \A a, b \in V : e[<<a, b>>] \in 0..Infinite
    <3> TAKE a \in V, b \in V
    <3>1. PICK x \in Nat : x = d[<<a, b>>] BY <1>1
    <3>2. PICK y \in Nat : y = e[<<a, b>>] BY <1>4
    <3>3. y <= x /\ x <= Infinite /\ Infinite \in Nat BY <1>1, <1>4, <3>1, <3>2
    <3> QED BY <3>2, <3>3
  <2>3. \A p \in V \X V : e[p] \in 0..Infinite BY <2>1, <2>2
  <2>4. DOMAIN e = V \X V /\ e = [p \in DOMAIN e |-> e[p]] OBVIOUS
  <2> QED BY <2>3, <2>4
<1>6. ASSUME NEW a \in V, NEW b \in V, e[<<a, b>>] < Infinite
      PROVE  \E p \in Walks(V, L, e[<<a, b>>]) : p[0] = a /\ p[e[<<a, b>>]] = b
  <2> HIDE DEF Via
  <2>1. CASE e[<<a, b>>] = d[<<a, b>>]
    <3>1. d[<<a, b>>] < Infinite BY ONLY <1>6, <2>1
    <3>2. \E p \in Walks(V, L, d[<<a, b>>]) : p[0] = a /\ p[d[<<a, b>>]] = b BY <3>1 DEF Relaxed
    <3> QED BY ONLY <3>2, <2>1
  <2>2. CASE e[<<a, b>>] # d[<<a, b>>]
    <3>1. e[<<a, b>>] = Via(a, b) BY <1>3, <2>2
    <3>2. PICK x \in Nat : x = d[<<a, r>>] BY <1>1
    <3>3. PICK y \in Nat : y = d[<<r, b>>] BY <1>1
    <3>4. Via(a, b) = x + y BY <3>2, <3>3 DEF Via
    <3>5. x < Infinite /\ y < Infinite
      <4>1. x + y < Infinite BY <1>6, <3>1, <3>4
      <4> QED BY <4>1, InfiniteIsLarge
    <3>6. PICK p \in Walks(V, L, x) : p[0] = a /\ p[x] = r BY <3>2, <3>5 DEF Relaxed
    <3>7. PICK q \in Walks(V, L, y) : q[0] = r /\ q[y] = b BY <3>3, <3>5 DEF Relaxed
    <3>8. Join(p, x, q, y) \in Walks(V, L, x + y) /\ Join(p, x, q, y)[0] = a /\ Join(p, x, q, y)[x + y] = b
      BY <3>6, <3>7, JoinIsWalk
    <3> QED BY <3>1, <3>4, <3>8
  <2> QED BY <2>1, <2>2
<1>7. ASSUME NEW h \in Nat, NEW p \in Walks(V, L, h), \A i \in 1..(h - 1) : p[i] < r + 1
      PROVE  e[<<p[0], p[h]>>] <= h
  <2> DEFINE T == {i \in 1..(h - 1) : p[i] = r}
  <2> HIDE DEF Via
  <2>0. p \in [0..h -> V] /\ 0 \in 0..h /\ h \in 0..h BY DEF Walks
  <2>00. \A i \in 1..(h - 1) : p[i] \in Nat
    <3>1. \A i \in 1..(h - 1) : i \in 0..h OBVIOUS
    <3> QED BY <2>0, <3>1
  <2>1. PICK a \in V, b \in V : a = p[0] /\ b = p[h] BY <2>0
  <2>2. PICK m \in Nat : m = e[<<a, b>>] BY <1>4
  <2>3. PICK x \in Nat : x = d[<<a, b>>] /\ m <= x BY <1>1, <1>4, <2>2
  <2>4. CASE T = {}
    <3>1. \A i \in 1..(h - 1) : p[i] \in Nat /\ p[i] # r /\ p[i] < r + 1
      BY <1>7, <2>00, <2>4
    <3>2. \A i \in 1..(h - 1) : p[i] < r BY <1>0, <3>1
    <3>3. d[<<a, b>>] <= h BY <2>1, <3>2 DEF Relaxed
    <3> QED BY <2>1, <2>2, <2>3, <3>3
  <2>5. CASE T # {}
    <3>1. T \subseteq Nat /\ T \subseteq 0..h OBVIOUS
    <3> HIDE DEF T
    <3>2. PICK i \in T : \A j \in T : i <= j BY <2>5, <3>1, LeastElement
    <3>3. PICK j \in T : \A l \in T : l <= j BY <2>5, <3>1, GreatestElement
    <3>4. i \in 1..(h - 1) /\ p[i] = r /\ j \in 1..(h - 1) /\ p[j] = r /\ i <= j
      BY <3>2, <3>3 DEF T
    <3>5. \A l \in 1..(h - 1) : p[l] \in Nat /\ p[l] < r + 1 /\ (l \notin T => p[l] # r)
      BY <1>7, <2>00 DEF T
    <3>6. d[<<a, r>>] <= i
      <4>1. i - 0 = i /\ i \in 0..h /\ 0 <= i BY <3>4
      <4> DEFINE q == Part(p, 0, i)
      <4>01. /\ Part(p, 0, i) \in Walks(V, L, i - 0)
             /\ Part(p, 0, i)[0] = p[0] /\ Part(p, 0, i)[i - 0] = p[i]
             /\ \A l \in 0..(i - 0) : Part(p, 0, i)[l] = p[0 + l]
        <5> HIDE DEF q
        <5> QED BY ONLY h \in Nat, p \in Walks(V, L, h), <2>0, <4>1, PartIsWalk
      <4>2. q \in Walks(V, L, i) /\ q[0] = a /\ q[i] = r /\ \A l \in 0..i : q[l] = p[0 + l]
        BY <2>0, <2>1, <3>4, <4>1, <4>01
      <4> HIDE DEF q
      <4>3. ASSUME NEW l \in 1..(i - 1) PROVE q[l] < r
        <5>1. l \in 0..i /\ 0 + l = l /\ l \in 1..(h - 1) /\ ~ (i <= l) BY <3>4
        <5>2. l \notin T BY <3>2, <5>1
        <5>3. p[l] \in Nat /\ p[l] < r + 1 /\ p[l] # r BY <3>5, <5>1, <5>2
        <5>4. p[l] < r BY <1>0, <5>3
        <5> QED BY <4>2, <5>1, <5>4
      <4> QED BY <3>4, <4>2, <4>3 DEF Relaxed
    <3>7. d[<<r, b>>] <= h - j
      <4>1. j \in 0..h /\ j <= h /\ h - j \in Nat BY <3>4
      <4> DEFINE q == Part(p, j, h)
      <4>01. /\ Part(p, j, h) \in Walks(V, L, h - j)
             /\ Part(p, j, h)[0] = p[j] /\ Part(p, j, h)[h - j] = p[h]
             /\ \A l \in 0..(h - j) : Part(p, j, h)[l] = p[j + l]
        <5> HIDE DEF q
        <5> QED BY ONLY h \in Nat, p \in Walks(V, L, h), <2>0, <4>1, PartIsWalk
      <4>2. q \in Walks(V, L, h - j) /\ q[0] = r /\ q[h - j] = b /\ \A l \in 0..(h - j) : q[l] = p[j + l]
        BY <2>1, <3>4, <4>01
      <4> HIDE DEF q
      <4>3. ASSUME NEW l \in 1..(h - j - 1) PROVE q[l] < r
        <5>1. l \in 0..(h - j) /\ j + l \in 1..(h - 1) /\ ~ (j + l <= j) BY <3>4
        <5>2. j + l \notin T BY <3>3, <5>1
        <5>3. p[j + l] \in Nat /\ p[j + l] < r + 1 /\ p[j + l] # r BY <3>5, <5>1, <5>2
        <5>4. p[j + l] < r BY <1>0, <5>3
        <5> QED BY <4>2, <5>1, <5>4
      <4>4. \A l \in 1..((h - j) - 1) : q[l] < r BY <4>3
      <4> QED BY <4>1, <4>2, <4>4 DEF Relaxed
    <3>8. PICK y \in Nat : y = d[<<a, r>>] BY <1>1
    <3>9. PICK z \in Nat : z = d[<<r, b>>] BY <1>1
    <3>10. m <= y + z BY <1>4, <2>2, <3>8, <3>9 DEF Via
    <3>11. y <= i /\ z <= h - j /\ i <= j /\ i \in Nat /\ j \in Nat BY <3>4, <3>6, <3>7, <3>8, <3>9
    <3>12. m <= h BY <3>10, <3>11
    <3> QED BY <2>1, <2>2, <3>12
  <2> QED BY <2>4, <2>5
<1> QED BY <1>5, <1>6, <1>7 DEF Relaxed

(* After the last round the matrix tells the shortest walks. *)
LEMMA RelaxedInTheEnd ==
    ASSUME NEW n \in Nat, NEW L, NEW d, Relaxed(d, n, 0..(n - 1), L),
           NEW h \in Nat, NEW p \in Walks(0..(n - 1), L, h)
    PROVE  d[<<p[0], p[h]>>] <= h
<1>1. \A i \in 1..(h - 1) : p[i] < n
  <2>1. p \in [0..h -> 0..(n - 1)] BY DEF Walks
  <2>2. \A i \in 1..(h - 1) : i \in 0..h OBVIOUS
  <2>3. \A i \in 1..(h - 1) : p[i] \in 0..(n - 1) BY <2>1, <2>2
  <2> QED BY <2>3
<1> QED BY <1>1 DEF Relaxed

-----------------------------------------------------------------------------
(***************************************************************************)
(* What its result says of a graph whose links lead both ways.             *)
(***************************************************************************)
(* The links L of n nodes have no direction and lead to other nodes.       *)
IsGraph(n, L) ==
    /\ n \in Nat
    /\ L \subseteq (0..(n - 1)) \X (0..(n - 1))
    /\ \A a, b : <<a, b>> \in L => <<b, a>> \in L /\ a # b
Shortest(d, n, L) == n < Infinite /\ IsGraph(n, L) /\ Relaxed(d, n, 0..(n - 1), L)

(* Distances are numbers. *)
LEMMA ShortestIsNat ==
    ASSUME NEW n, NEW L, NEW d, Shortest(d, n, L), NEW a \in 0..(n - 1), NEW b \in 0..(n - 1)
    PROVE  d[<<a, b>>] \in Nat /\ d[<<a, b>>] <= Infinite
<1>1. d[<<a, b>>] \in 0..Infinite BY DEF Shortest, Relaxed
<1>2. \A x \in 0..Infinite : x \in Nat /\ x <= Infinite BY ONLY InfiniteIsLarge
<1> QED BY ONLY <1>1, <1>2

(* No walk is shorter than the distance. *)
LEMMA ShortestIsLeast ==
    ASSUME NEW n, NEW L, NEW d, Shortest(d, n, L), NEW a, NEW b,
           NEW h \in Nat, NEW p \in Walks(0..(n - 1), L, h), p[0] = a, p[h] = b
    PROVE  d[<<a, b>>] <= h
<1>1. n \in Nat /\ Relaxed(d, n, 0..(n - 1), L) BY DEF Shortest, IsGraph
<1>2. d[<<p[0], p[h]>>] <= h BY <1>1, RelaxedInTheEnd
<1> QED BY <1>2

(* A finite distance is the length of a walk. *)
LEMMA ShortestIsWalk ==
    ASSUME NEW n, NEW L, NEW d, Shortest(d, n, L), NEW a \in 0..(n - 1), NEW b \in 0..(n - 1),
           NEW h, h = d[<<a, b>>], h < Infinite
    PROVE  \E p \in Walks(0..(n - 1), L, h) : p[0] = a /\ p[h] = b
<1>1. d[<<a, b>>] < Infinite OBVIOUS
<1>2. \E p \in Walks(0..(n - 1), L, d[<<a, b>>]) : p[0] = a /\ p[d[<<a, b>>]] = b
  BY <1>1 DEF Shortest, Relaxed
<1> QED BY <1>2

(* Only a node itself is at distance 0. *)
LEMMA ShortestIsZero ==
    ASSUME NEW n, NEW L, NEW d, Shortest(d, n, L), NEW a \in 0..(n - 1), NEW b \in 0..(n - 1)
    PROVE  d[<<a, b>>] = 0 <=> a = b
<1> DEFINE V == 0..(n - 1)
<1>1. ASSUME a = b PROVE d[<<a, b>>] = 0
  <2> DEFINE p == [i \in 0..0 |-> a]
  <2>2. p[0] = a /\ p \in [0..0 -> V] OBVIOUS
  <2>3. \A i \in 0..(0 - 1) : FALSE OBVIOUS
  <2>4. 0 \in Nat /\ p \in Walks(V, L, 0)
    <3> HIDE DEF p, V
    <3> QED BY <2>2, <2>3 DEF Walks
  <2> HIDE DEF p
  <2>5. d[<<a, b>>] <= 0 BY <1>1, <2>2, <2>4, ShortestIsLeast
  <2>6. d[<<a, b>>] \in Nat BY ShortestIsNat
  <2> QED BY ONLY <2>5, <2>6
<1>2. ASSUME d[<<a, b>>] = 0 PROVE a = b
  <2>1. 0 = d[<<a, b>>] /\ 0 < Infinite BY <1>2, InfiniteIsLarge
  <2>2. \E p \in Walks(V, L, 0) : p[0] = a /\ p[0] = b BY <2>1, ShortestIsWalk
  <2> QED BY <2>2
<1> QED BY <1>1, <1>2

(* Links lead both ways, so a distance is the same both ways. *)
LEMMA ShortestBothWays ==
    ASSUME NEW n, NEW L, NEW d, Shortest(d, n, L), NEW a \in 0..(n - 1), NEW b \in 0..(n - 1)
    PROVE  d[<<a, b>>] = d[<<b, a>>]
<1> DEFINE V == 0..(n - 1)
<1>1. ASSUME NEW x \in V, NEW y \in V PROVE d[<<y, x>>] <= d[<<x, y>>]
  <2>1. PICK h \in Nat : h = d[<<x, y>>] BY ShortestIsNat
  <2>2. d[<<y, x>>] \in Nat /\ d[<<y, x>>] <= Infinite BY ShortestIsNat
  <2>3. CASE h < Infinite
    <3>1. PICK p \in Walks(V, L, h) : p[0] = x /\ p[h] = y BY <2>1, <2>3, ShortestIsWalk
    <3>2. \A l \in L : <<l[2], l[1]>> \in L BY DEF Shortest, IsGraph
    <3>3. PICK q \in Walks(V, L, h) : q[0] = y /\ q[h] = x
      <4> HIDE DEF V
      <4> QED BY <3>1, <3>2, ReverseIsWalk
    <3>4. d[<<y, x>>] <= h BY <3>3, ShortestIsLeast
    <3> QED BY <2>1, <3>4
  <2>4. CASE ~ (h < Infinite)
    <3>1. \A z \in Nat : z <= Infinite => z <= h BY <2>4, InfiniteIsLarge
    <3> QED BY <2>1, <2>2, <3>1
  <2> QED BY <2>3, <2>4
<1>2. PICK x \in Nat : x = d[<<a, b>>] BY ShortestIsNat
<1>3. PICK y \in Nat : y = d[<<b, a>>] BY ShortestIsNat
<1>4. x <= y /\ y <= x BY <1>1, <1>2, <1>3
<1> QED BY <1>2, <1>3, <1>4

(* A link is a walk. *)
LEMMA LinkIsWalk ==
    ASSUME NEW V, NEW L, NEW a \in V, NEW b \in V, <<a, b>> \in L
    PROVE  \E p \in Walks(V, L, 1) : p[0] = a /\ p[1] = b
<1> DEFINE p == [i \in 0..1 |-> IF i = 0 THEN a ELSE b]
<1>1. p[0] = a /\ p[1] = b /\ p \in [0..1 -> V] OBVIOUS
<1>2. \A i \in 0..(1 - 1) : i = 0 /\ i + 1 = 1 OBVIOUS
<1> HIDE DEF p
<1>3. p \in Walks(V, L, 1) BY <1>1, <1>2 DEF Walks
<1> QED BY <1>1, <1>3

(* The first link of a walk adds one at most. *)
LEMMA OneLinkMore ==
    ASSUME NEW n, NEW L, NEW d, Shortest(d, n, L), NEW a \in 0..(n - 1), NEW b \in 0..(n - 1),
           NEW t \in 0..(n - 1), <<a, b>> \in L, d[<<b, t>>] < Infinite
    PROVE  d[<<a, t>>] <= 1 + d[<<b, t>>]
<1> DEFINE V == 0..(n - 1)
<1>1. PICK h \in Nat : h = d[<<b, t>>] BY ShortestIsNat
<1>2. PICK p \in Walks(V, L, h) : p[0] = b /\ p[h] = t BY <1>1, ShortestIsWalk
<1>3. PICK q \in Walks(V, L, 1) : q[0] = a /\ q[1] = b
  <2> a \in V /\ b \in V OBVIOUS
  <2> HIDE DEF V
  <2> QED BY LinkIsWalk
<1>4. \E w \in Walks(V, L, 1 + h) : w[0] = a /\ w[1 + h] = t
  <2> HIDE DEF V
  <2>1. 1 \in Nat /\ q[1] = p[0] BY <1>2, <1>3
  <2> QED BY ONLY h \in Nat, p \in Walks(V, L, h), q \in Walks(V, L, 1), <2>1, <1>2, <1>3, JoinIsWalk
<1>5. 1 + h \in Nat OBVIOUS
<1>6. d[<<a, t>>] <= 1 + h
  <2> DEFINE m == 1 + h
  <2>1. m \in Nat /\ \E w \in Walks(V, L, m) : w[0] = a /\ w[m] = t BY <1>4
  <2> HIDE DEF m
  <2>2. d[<<a, t>>] <= m BY <2>1, ShortestIsLeast
  <2> QED BY <2>2 DEF m
<1> QED BY <1>1, <1>6

(* The first link of a shortest walk. *)
LEMMA NextOnShortest ==
    ASSUME NEW n, NEW L, NEW d, Shortest(d, n, L), NEW a \in 0..(n - 1), NEW t \in 0..(n - 1),
           a # t, d[<<a, t>>] < Infinite
    PROVE  \E b \in 0..(n - 1) : <<a, b>> \in L /\ d[<<a, t>>] - 1 = d[<<b, t>>]
<1> DEFINE V == 0..(n - 1)
<1>1. PICK h \in Nat : h = d[<<a, t>>] BY ShortestIsNat
<1>2. PICK p \in Walks(V, L, h) : p[0] = a /\ p[h] = t BY <1>1, ShortestIsWalk
<1>3. h # 0 BY <1>1, ShortestIsZero
<1>4. 1 \in 0..h /\ h \in 0..h /\ 1 <= h /\ h - 1 \in Nat /\ 0 \in 0..(h - 1) /\ 0 + 1 = 1 BY <1>3
<1>5. p[1] \in V BY <1>4 DEF Walks
<1>6. p[0] = p[1] \/ <<p[0], p[1]>> \in L BY <1>4 DEF Walks
<1>7. \E q \in Walks(V, L, h - 1) : q[0] = p[1] /\ q[h - 1] = t
  <2> HIDE DEF V
  <2> QED BY ONLY h \in Nat, p \in Walks(V, L, h), <1>2, <1>4, PartIsWalk
<1>8. d[<<p[1], t>>] <= h - 1
  <2> DEFINE m == h - 1
  <2>1. m \in Nat /\ \E q \in Walks(V, L, m) : q[0] = p[1] /\ q[m] = t BY <1>4, <1>7
  <2> HIDE DEF m
  <2>2. d[<<p[1], t>>] <= m BY <1>5, <2>1, ShortestIsLeast
  <2> QED BY <2>2 DEF m
<1>9. PICK y \in Nat : y = d[<<p[1], t>>] BY <1>5, ShortestIsNat
<1>10. y <= h - 1 BY <1>8, <1>9
<1>11. p[1] # a
  <2>1. ASSUME p[1] = a PROVE FALSE
    <3>1. y = h BY <1>1, <1>9, <2>1
    <3> QED BY <1>10, <3>1
  <2> QED BY <2>1
<1>12. <<a, p[1]>> \in L BY <1>2, <1>6, <1>11
<1>13. y < Infinite
  <2>1. h < Infinite BY <1>1
  <2> QED BY <1>10, <2>1, InfiniteIsLarge
<1>14. h <= 1 + y
  <2>1. d[<<p[1], t>>] < Infinite BY <1>9, <1>13
  <2>2. d[<<a, t>>] <= 1 + d[<<p[1], t>>] BY <1>5, <1>12, <2>1, OneLinkMore
  <2> QED BY <1>1, <1>9, <2>2
<1>15. h - 1 = y BY <1>10, <1>14
<1> QED BY <1>1, <1>5, <1>9, <1>12, <1>15

-----------------------------------------------------------------------------
(***************************************************************************)
(* Shortest walks visit no node twice; the nodes within so many links.     *)
(***************************************************************************)
(* A shortest walk comes to no node twice: else what lies between could be *)
(* left out.                                                               *)
LEMMA ShortestVisitsOnce ==
    ASSUME NEW n, NEW L, NEW d, Shortest(d, n, L), NEW a, NEW b, NEW h \in Nat, h = d[<<a, b>>],
           NEW p \in Walks(0..(n - 1), L, h), p[0] = a, p[h] = b,
           NEW i \in 0..h, NEW j \in 0..h, i < j
    PROVE  p[i] # p[j]
<1> DEFINE V == 0..(n - 1)
<1> SUFFICES ASSUME p[i] = p[j] PROVE FALSE OBVIOUS
<1>1. 0 \in 0..h /\ h \in 0..h /\ 0 <= i /\ j <= h /\ i - 0 = i /\ h - j \in Nat /\ i \in Nat
  OBVIOUS
<1>00. p \in Walks(V, L, h) OBVIOUS
<1>2. PICK q \in Walks(V, L, i) : q[0] = a /\ q[i] = p[i]
  <2> HIDE DEF V
  <2>1. /\ Part(p, 0, i) \in Walks(V, L, i - 0)
        /\ Part(p, 0, i)[0] = p[0] /\ Part(p, 0, i)[i - 0] = p[i]
    BY ONLY <1>00, h \in Nat, i \in 0..h, <1>1, PartIsWalk
  <2> QED BY <1>1, <2>1
<1>3. PICK w \in Walks(V, L, h - j) : w[0] = p[j] /\ w[h - j] = b
  <2> HIDE DEF V
  <2>1. /\ Part(p, j, h) \in Walks(V, L, h - j)
        /\ Part(p, j, h)[0] = p[j] /\ Part(p, j, h)[h - j] = p[h]
    BY ONLY <1>00, h \in Nat, j \in 0..h, <1>1, PartIsWalk
  <2> QED BY <2>1
<1>4. PICK m \in Nat : m = i + (h - j) BY <1>1
<1>5. \E x \in Walks(V, L, m) : x[0] = a /\ x[m] = b
  <2> HIDE DEF V
  <2>1. q[i] = w[0] BY <1>2, <1>3
  <2>2. PICK z \in Nat : z = h - j BY <1>1
  <2>3. w \in Walks(V, L, z) /\ w[z] = b BY <1>3, <2>2
  <2>4. /\ Join(q, i, w, z) \in Walks(V, L, i + z)
        /\ Join(q, i, w, z)[0] = q[0] /\ Join(q, i, w, z)[i + z] = w[z]
    BY ONLY <1>1, <1>2, <2>1, <2>3, q \in Walks(V, L, i), z \in Nat, JoinIsWalk
  <2> QED BY <1>2, <1>4, <2>2, <2>3, <2>4
<1>6. h <= m BY <1>5, ShortestIsLeast
<1> QED BY <1>4, <1>6

(* A shortest walk has fewer links than the graph has nodes, *)
LEMMA ShortestIsShort ==
    ASSUME NEW n, NEW L, NEW d, Shortest(d, n, L), NEW a \in 0..(n - 1), NEW b \in 0..(n - 1),
           d[<<a, b>>] < Infinite
    PROVE  d[<<a, b>>] < n
<1> DEFINE V == 0..(n - 1)
<1>0. n \in Nat BY DEF Shortest, IsGraph
<1>1. PICK h \in Nat : h = d[<<a, b>>] BY ShortestIsNat
<1>2. PICK p \in Walks(V, L, h) : p[0] = a /\ p[h] = b BY <1>1, ShortestIsWalk
<1> SUFFICES ASSUME ~ (h < n) PROVE FALSE BY <1>1
<1>3. IsFiniteSet(0..h) /\ Cardinality(0..h) = h + 1
  <2>1. 0 \in Int /\ h \in Int /\ ~ (0 > h) /\ h - 0 + 1 = h + 1 OBVIOUS
  <2> QED BY <2>1, FS_Interval
<1>4. IsFiniteSet(V) /\ Cardinality(V) = n
  <2>1. 0 \in Int /\ n - 1 \in Int /\ (0 > n - 1 => n = 0) /\ (n - 1) - 0 + 1 = n BY <1>0
  <2> QED BY <2>1, FS_Interval
<1>5. Cardinality(V) < Cardinality(0..h) BY <1>0, <1>3, <1>4
<1>6. p \in [0..h -> V] BY DEF Walks
<1>7. PICK i \in 0..h, j \in 0..h : i # j /\ p[i] = p[j]
  <2> HIDE DEF V
  <2> QED BY <1>3, <1>4, <1>5, <1>6, FS_PigeonHole
<1>8. i < j \/ j < i BY <1>7
<1> QED BY <1>1, <1>2, <1>7, <1>8, ShortestVisitsOnce

(* It takes each edge E at most once. *)
LEMMA ShortestByEdges ==
    ASSUME NEW n, NEW L, NEW d, Shortest(d, n, L), NEW a \in 0..(n - 1), NEW b \in 0..(n - 1),
           d[<<a, b>>] < Infinite,
           NEW E, IsFiniteSet(E), \A l \in L : l \in E \/ <<l[2], l[1]>> \in E
    PROVE  d[<<a, b>>] <= Cardinality(E)
<1> DEFINE V == 0..(n - 1)
           Step(p, i) == IF <<p[i], p[i + 1]>> \in E THEN <<p[i], p[i + 1]>> ELSE <<p[i + 1], p[i]>>
<1>1. PICK h \in Nat : h = d[<<a, b>>] BY ShortestIsNat
<1>2. PICK p \in Walks(V, L, h) : p[0] = a /\ p[h] = b BY <1>1, ShortestIsWalk
<1> DEFINE f == [i \in 0..(h - 1) |-> Step(p, i)]
<1>0. Cardinality(E) \in Nat BY FS_CardinalityType
<1> SUFFICES ASSUME ~ (h <= Cardinality(E)) PROVE FALSE BY <1>1
<1>3. \A i, j \in 0..h : i < j => p[i] # p[j] BY <1>1, <1>2, ShortestVisitsOnce
<1>4. ASSUME NEW i \in 0..(h - 1) PROVE Step(p, i) \in E
  <2>1. i \in 0..h /\ i + 1 \in 0..h /\ i < i + 1 OBVIOUS
  <2>2. p[i] # p[i + 1] BY <1>3, <2>1
  <2>3. <<p[i], p[i + 1]>> \in L BY <2>2 DEF Walks
  <2>4. <<p[i], p[i + 1]>> \in E \/ <<p[i + 1], p[i]>> \in E
    <3>1. PICK l \in L : l = <<p[i], p[i + 1]>> BY <2>3
    <3>2. l[1] = p[i] /\ l[2] = p[i + 1] BY <3>1
    <3> QED BY <3>1, <3>2
  <2> QED BY <2>4
<1>5. f \in [0..(h - 1) -> E]
  <2> HIDE DEF Step
  <2> QED BY <1>4
<1>6. IsFiniteSet(0..(h - 1)) /\ Cardinality(0..(h - 1)) = h
  <2>1. 0 \in Int /\ h - 1 \in Int /\ (0 > h - 1 => h = 0) /\ (h - 1) - 0 + 1 = h OBVIOUS
  <2> QED BY <2>1, FS_Interval
<1>7. Cardinality(E) < Cardinality(0..(h - 1)) BY <1>0, <1>6
<1>8. PICK i \in 0..(h - 1), j \in 0..(h - 1) : i # j /\ f[i] = f[j]
  <2> HIDE DEF f
  <2> QED BY <1>5, <1>6, <1>7, FS_PigeonHole
<1>9. ASSUME NEW x \in 0..(h - 1), NEW y \in 0..(h - 1), x < y, Step(p, x) = Step(p, y) PROVE FALSE
  <2>1. p[x] = p[y] \/ p[x] = p[y + 1] BY <1>9
  <2>2. x \in 0..h /\ y \in 0..h /\ y + 1 \in 0..h /\ x < y + 1 BY <1>9
  <2> QED BY <1>3, <1>9, <2>1, <2>2
<1>10. Step(p, i) = Step(p, j) /\ (i < j \/ j < i)
  <2> HIDE DEF Step
  <2>1. i < j \/ j < i BY <1>8
  <2> QED BY <1>8, <2>1
<1> HIDE DEF Step, f
<1> QED BY <1>9, <1>10
-----------------------------------------------------------------------------
(* What is within h links is where walks of length h lead to.              *)
Reached(n, L, a, h) == {b \in 0..(n - 1) : \E p \in Walks(0..(n - 1), L, h) : p[0] = a /\ p[h] = b}

(* Walks of one link more end where a link leads from those that are one shorter. *)
LEMMA ReachedOneMore ==
    ASSUME NEW n \in Nat, NEW L, L \subseteq (0..(n - 1)) \X (0..(n - 1)),
           NEW a \in 0..(n - 1), NEW h \in Nat, NEW b
    PROVE  b \in Reached(n, L, a, h + 1) <=>
             b \in Reached(n, L, a, h) \/ \E m \in Reached(n, L, a, h) : <<m, b>> \in L
<1> DEFINE V == 0..(n - 1)
<1> HIDE DEF V
<1>a. h + 1 \in Nat /\ L \subseteq V \X V BY DEF V
<1>b. \A x \in Nat : \A y : y \in Reached(n, L, a, x) <=>
        y \in V /\ \E p \in Walks(V, L, x) : p[0] = a /\ p[x] = y
  BY DEF Reached, V
<1>1. ASSUME b \in Reached(n, L, a, h + 1)
      PROVE  b \in Reached(n, L, a, h) \/ \E m \in Reached(n, L, a, h) : <<m, b>> \in L
  <2>1. PICK p \in Walks(V, L, h + 1) : p[0] = a /\ p[h + 1] = b BY <1>1, <1>a, <1>b
  <2>2. 0 \in 0..(h + 1) /\ h \in 0..(h + 1) /\ 0 <= h /\ h - 0 = h /\ h \in 0..(h + 1 - 1) OBVIOUS
  <2>3. \E q \in Walks(V, L, h) : q[0] = a /\ q[h] = p[h]
    <3>1. /\ Part(p, 0, h) \in Walks(V, L, h - 0)
          /\ Part(p, 0, h)[0] = p[0] /\ Part(p, 0, h)[h - 0] = p[h]
      BY ONLY <1>a, p \in Walks(V, L, h + 1), <2>2, PartIsWalk
    <3> QED BY <2>1, <2>2, <3>1
  <2>4. p[h] = b \/ <<p[h], b>> \in L BY <2>1, <2>2 DEF Walks
  <2>5. p[h] \in V BY <2>2 DEF Walks
  <2>6. p[h] \in Reached(n, L, a, h) BY <1>b, <2>3, <2>5
  <2> QED BY <2>4, <2>6
<1>2. ASSUME NEW m \in Reached(n, L, a, h), NEW w \in V, m = w \/ <<m, w>> \in L
      PROVE  w \in Reached(n, L, a, h + 1)
  <2>1. PICK p \in Walks(V, L, h) : p[0] = a /\ p[h] = m BY <1>b
  <2>2. m \in V BY <1>b
  <2>3. PICK q \in Walks(V, L, 1) : q[0] = m /\ q[1] = w
    <3> DEFINE q == [i \in 0..1 |-> IF i = 0 THEN m ELSE w]
    <3>1. q[0] = m /\ q[1] = w /\ q \in [0..1 -> V] BY <2>2
    <3>2. \A i \in 0..(1 - 1) : i = 0 /\ i + 1 = 1 OBVIOUS
    <3> HIDE DEF q
    <3>3. q \in Walks(V, L, 1) BY <1>2, <3>1, <3>2 DEF Walks
    <3> QED BY <3>1, <3>3
  <2>4. \E x \in Walks(V, L, h + 1) : x[0] = a /\ x[h + 1] = w
    <3>1. 1 \in Nat /\ p[h] = q[0] BY <2>1, <2>3
    <3> QED BY ONLY h \in Nat, p \in Walks(V, L, h), q \in Walks(V, L, 1), <2>1, <2>3, <3>1, JoinIsWalk
  <2> QED BY <1>a, <1>b, <2>4
<1>3. ASSUME b \in Reached(n, L, a, h) PROVE b \in Reached(n, L, a, h + 1)
  <2>1. b \in V BY <1>3, <1>b
  <2> QED BY <1>2, <1>3, <2>1
<1>4. ASSUME NEW m \in Reached(n, L, a, h), <<m, b>> \in L PROVE b \in Reached(n, L, a, h + 1)
  <2>1. b \in V BY <1>4, <1>a
  <2> QED BY <1>2, <1>4, <2>1
<1> QED BY <1>1, <1>3, <1>4

(* Without a link only the start is reached. *)
LEMMA ReachedAtFirst ==
    ASSUME NEW n \in Nat, NEW L, NEW a \in 0..(n - 1)
    PROVE  Reached(n, L, a, 0) = {a}
<1> DEFINE V == 0..(n - 1)
           p == [i \in 0..0 |-> a]
<1>1. p[0] = a /\ p \in [0..0 -> V] OBVIOUS
<1>2. \A i \in 0..(0 - 1) : FALSE OBVIOUS
<1>3. p \in Walks(V, L, 0)
  <2> HIDE DEF p, V
  <2> QED BY <1>1, <1>2 DEF Walks
<1> HIDE DEF p
<1> QED BY <1>1, <1>3 DEF Reached

-----------------------------------------------------------------------------
(***************************************************************************)
(* The graph of a topology file that is accepted.                          *)
(***************************************************************************)
(* The graph of a file that is accepted. *)
LEMMA AcceptedGraph ==
    ASSUME NEW c \in TopologyFiles, TopologyAccepted(c)
    PROVE  /\ NumNodes(c) \in Nat
           /\ IsGraph(NumNodes(c), Links(c))
           /\ IsFiniteSet(Edges(c))
           /\ \A e \in Edges(c) : e = <<e[1], e[2]>> /\ e[1] \in Node(c) /\ e[2] \in Node(c) /\ e[1] < e[2]
<1> DEFINE texts == c["undirected_edges"]
           n == NumNodes(c)
<1>1. ReadTopologyConfig(c) /\ ParseTopologyGraph(c) BY DEF TopologyAccepted
<1>2. n \in Nat /\ Int64Of[c["num_undirected_edges"]] \in Nat
  <2>1. {c["num_nodes"], c["num_undirected_edges"]} \subseteq parse_positive_int64
    BY <1>1 DEF ParseTopologyGraph
  <2>2. \A t \in parse_positive_int64 : Int64Of[t] \in Nat
    BY Int64Assumption DEF parse_positive_int64, parse_int64
  <2> QED BY <2>1, <2>2 DEF NumNodes
<1>3. ParseEdges(c) BY <1>1 DEF ParseTopologyGraph
<1>5. "undirected_edges" \in DOMAIN c BY <1>1 DEF ReadTopologyConfig, Properties
<1>6. Len(texts) \in Nat /\ DOMAIN texts = 1..Len(texts)
  <2>1. Len(texts) \in Nat BY <1>2, <1>3 DEF ParseEdges
  <2>2. IsList(texts) BY <1>5, FilesAssumption
  <2> QED BY <2>1, <2>2 DEF IsList
<1>7. ASSUME NEW t \in SetOf(texts)
      PROVE  /\ Pair(t)[1] \in Nat /\ Pair(t)[2] \in Nat
             /\ Pair(t)[1] < n /\ Pair(t)[2] < n /\ Pair(t)[1] < Pair(t)[2]
             /\ Pair(t) = <<Pair(t)[1], Pair(t)[2]>>
  <2>1. IsPair(t) BY <1>3 DEF ParseEdges
  <2>2. IsList(t) BY <1>5, FilesAssumption
  <2>3. t[1] \in SetOf(t) /\ t[2] \in SetOf(t)
    <3>1. DOMAIN t = 1..2 BY <2>1, <2>2 DEF IsPair, IsList
    <3>2. 1 \in 1..2 /\ 2 \in 1..2 OBVIOUS
    <3> QED BY <3>1, <3>2 DEF SetOf
  <2>4. Int64Of[t[1]] \in Nat /\ Int64Of[t[2]] \in Nat
    <3>1. t[1] \in parse_positive_int64 /\ t[2] \in parse_positive_int64 BY <2>1, <2>3 DEF IsPair
    <3> QED BY <3>1, Int64Assumption DEF parse_positive_int64, parse_int64
  <2>5. /\ Pair(t)[1] # Pair(t)[2] /\ Pair(t)[1] < n /\ Pair(t)[2] < n
        /\ ~ Pair(t)[2] < Pair(t)[1]
    BY <1>3 DEF ParseEdges
  <2>6. Pair(t) = <<Int64Of[t[1]], Int64Of[t[2]]>> BY DEF Pair
  <2>7. Pair(t)[1] \in Nat /\ Pair(t)[2] \in Nat BY <2>4, <2>6
  <2> QED BY <2>5, <2>6, <2>7
<1>8. \A e \in Edges(c) :
        /\ e = <<e[1], e[2]>> /\ e[1] \in 0..(n - 1) /\ e[2] \in 0..(n - 1) /\ e[1] < e[2]
  <2> TAKE e \in Edges(c)
  <2>1. PICK t \in SetOf(texts) : e = Pair(t) BY DEF Edges
  <2>2. e[1] \in Nat /\ e[2] \in Nat /\ e[1] < n /\ e[2] < n /\ e[1] < e[2] /\ e = <<e[1], e[2]>>
    BY <1>7, <2>1
  <2> QED BY <1>2, <2>2
<1>9. IsFiniteSet(Edges(c))
  <2> DEFINE f == [i \in DOMAIN texts |-> Pair(texts[i])]
  <2>1. IsFiniteSet(DOMAIN texts)
    <3>1. 1 \in Int /\ Len(texts) \in Int BY <1>6
    <3> QED BY <1>6, <3>1, FS_Interval
  <2>2. Edges(c) = {Pair(texts[i]) : i \in DOMAIN texts} BY DEF Edges, SetOf
  <2>3. f \in Surjection(DOMAIN texts, Edges(c)) BY <2>2 DEF Surjection
  <2> QED BY <2>1, <2>3, FS_Surjection
<1>10. IsGraph(n, Links(c))
  <2>1. \A l \in Links(c) : \E e \in Edges(c) : l = e \/ l = <<e[2], e[1]>> BY DEF Links
  <2>2. \A e \in Edges(c) : e \in Links(c) /\ <<e[2], e[1]>> \in Links(c) BY DEF Links
  <2>3. ASSUME NEW l \in Links(c) PROVE l \in (0..(n - 1)) \X (0..(n - 1))
    <3>1. PICK e \in Edges(c) : l = e \/ l = <<e[2], e[1]>> BY <2>1
    <3>2. e = <<e[1], e[2]>> /\ e[1] \in 0..(n - 1) /\ e[2] \in 0..(n - 1) BY <1>8
    <3>3. <<e[1], e[2]>> \in (0..(n - 1)) \X (0..(n - 1)) /\ <<e[2], e[1]>> \in (0..(n - 1)) \X (0..(n - 1))
      BY <3>2
    <3> QED BY <3>1, <3>2, <3>3
  <2>4. ASSUME NEW a, NEW b, <<a, b>> \in Links(c) PROVE <<b, a>> \in Links(c) /\ a # b
    <3>1. PICK e \in Edges(c) : <<a, b>> = e \/ <<a, b>> = <<e[2], e[1]>> BY <2>1, <2>4
    <3>2. e = <<e[1], e[2]>> /\ e[1] \in Int /\ e[2] \in Int /\ e[1] < e[2] BY <1>8
    <3>3. e[1] # e[2] BY <3>2
    <3>4. e \in Links(c) /\ <<e[2], e[1]>> \in Links(c) BY <2>2
    <3> QED BY <3>1, <3>2, <3>3, <3>4
  <2> QED BY <1>2, <2>3, <2>4 DEF IsGraph
<1>11. Node(c) = 0..(n - 1) BY DEF Node
<1> QED BY <1>2, <1>8, <1>9, <1>10, <1>11

(* The recursion of Within computes what is reached. *)
LEMMA WithinIsReached ==
    ASSUME NEW c \in TopologyFiles, TopologyAccepted(c), NEW a \in Node(c),
           NEW h \in 0..NumNodes(c)
    PROVE  Within(c, a)[h] = Reached(NumNodes(c), Links(c), a, h)
<1> DEFINE n == NumNodes(c)
           L == Links(c)
           R(x) == Reached(n, L, a, x)
           D(g) == g = [x \in 0..n |-> IF x = 0 THEN {a}
                          ELSE LET near == g[x - 1]
                               IN  near \cup UNION {AdjacencyList(c, m) : m \in near}]
           Grown(S) == S \cup UNION {AdjacencyList(c, m) : m \in S}
<1>0. n \in Nat /\ L \subseteq (0..(n - 1)) \X (0..(n - 1)) /\ a \in 0..(n - 1)
  BY AcceptedGraph DEF IsGraph, Node
<1> HIDE DEF n, L
<1>1. \A x \in Nat : R(x + 1) = Grown(R(x))
  <2> TAKE x \in Nat
  <2>1. \A b : b \in R(x + 1) <=> b \in R(x) \/ \E m \in R(x) : <<m, b>> \in L
    BY <1>0, ReachedOneMore
  <2>2. \A b : b \in UNION {AdjacencyList(c, m) : m \in R(x)} <=> \E m \in R(x) : b \in AdjacencyList(c, m)
    OBVIOUS
  <2>3. \A b, m : b \in AdjacencyList(c, m) <=> <<m, b>> \in L
    <3>1. \A b, m : b \in AdjacencyList(c, m) <=> b \in 0..(n - 1) /\ <<m, b>> \in L
      BY DEF AdjacencyList, Node, n, L
    <3>2. \A b, m : <<m, b>> \in L => b \in 0..(n - 1) BY <1>0
    <3> QED BY <3>1, <3>2
  <2> HIDE DEF R
  <2> QED BY <2>1, <2>2, <2>3
<1>2. R(0) = {a} BY <1>0, ReachedAtFirst
<1> HIDE DEF R
<1>3. \E g : D(g)
  <2> DEFINE g == [x \in 0..n |-> R(x)]
  <2>1. ASSUME NEW x \in 0..n PROVE g[x] = IF x = 0 THEN {a} ELSE Grown(g[x - 1])
    <3>1. CASE x = 0 BY <1>2, <3>1
    <3>2. CASE x # 0
      <4>1. x - 1 \in Nat /\ x - 1 \in 0..n /\ (x - 1) + 1 = x BY <1>0, <3>2
      <4>2. R(x) = Grown(R(x - 1))
        <5> HIDE DEF Grown
        <5> QED BY <1>1, <4>1
      <4>3. g[x] = R(x) /\ g[x - 1] = R(x - 1) BY <4>1
      <4> HIDE DEF g, Grown
      <4> QED BY <3>2, <4>2, <4>3
    <3> QED BY <3>1, <3>2
  <2>2. g = [x \in 0..n |-> g[x]] OBVIOUS
  <2> HIDE DEF g
  <2>3. D(g) BY <2>1, <2>2
  <2> QED BY <2>3
<1>4. Within(c, a) = CHOOSE g : D(g) BY DEF Within, n
<1> HIDE DEF D
<1>5. D(Within(c, a)) BY <1>3, <1>4
<1>6. PICK W : W = Within(c, a) OBVIOUS
<1>7. \A x \in 0..n : W[x] = IF x = 0 THEN {a} ELSE Grown(W[x - 1])
  BY <1>5, <1>6 DEF D
<1> DEFINE T == {x \in 0..n : W[x] # R(x)}
<1>8. T = {}
  <2> SUFFICES ASSUME T # {} PROVE FALSE OBVIOUS
  <2>1. PICK x \in T : \A y \in T : x <= y
    <3>1. T \subseteq Nat OBVIOUS
    <3> HIDE DEF T
    <3> QED BY <3>1, LeastElement
  <2>2. x \in 0..n /\ W[x] # R(x) OBVIOUS
  <2>3. x # 0 BY <1>2, <1>7, <2>2
  <2>4. x - 1 \in 0..n /\ x - 1 \in Nat /\ (x - 1) + 1 = x /\ ~ (x <= x - 1) BY <1>0, <2>2, <2>3
  <2>5. W[x - 1] = R(x - 1) BY <2>1, <2>4
  <2> HIDE DEF Grown, T
  <2>6. W[x] = Grown(W[x - 1]) BY <1>7, <2>2, <2>3
  <2>7. R(x) = Grown(R(x - 1)) BY <1>1, <2>4
  <2> QED BY <2>2, <2>5, <2>6, <2>7
<1>9. h \in 0..n BY DEF n
<1> HIDE DEF T
<1>10. W[h] = R(h) BY <1>8, <1>9 DEF T
<1> QED BY <1>6, <1>10 DEF R, n, L

-----------------------------------------------------------------------------
(***************************************************************************)
(* The model's distances are those of the walks.                           *)
(***************************************************************************)
LEMMA LowestIsLeast ==
    ASSUME NEW S, S \subseteq Int, NEW x \in S, \A y \in S : x <= y
    PROVE  Lowest(S) = x
<1>1. Lowest(S) \in S /\ \A y \in S : Lowest(S) <= y BY DEF Lowest
<1>2. PICK l \in S : l = Lowest(S) /\ l <= x BY <1>1
<1>3. x <= l /\ l \in Int /\ x \in Int OBVIOUS
<1>4. l = x BY ONLY <1>2, <1>3
<1> QED BY <1>2, <1>4

(* The reference tells the same distances as a matrix of shortest walks.   *)
LEMMA DistanceIsShortest ==
    ASSUME NEW c \in TopologyFiles, TopologyAccepted(c),
           NEW d, Shortest(d, NumNodes(c), Links(c)), NEW a \in Node(c), NEW b \in Node(c)
    PROVE  /\ Connected(c, a, b) <=> d[<<a, b>>] < Infinite
           /\ d[<<a, b>>] < Infinite => Distance(c, a, b) = d[<<a, b>>]
<1> DEFINE n == NumNodes(c)
           L == Links(c)
           V == 0..(n - 1)
<1>1. n \in Nat /\ n < Infinite /\ a \in V /\ b \in V /\ Shortest(d, n, L)
  BY AcceptedGraph DEF Node, IsGraph, Shortest
<1>2. PICK x \in Nat : x = d[<<a, b>>] /\ x <= Infinite BY <1>1, ShortestIsNat
<1>3. x < Infinite => x < n BY <1>1, <1>2, ShortestIsShort
<1>4. ASSUME NEW h \in 0..n PROVE b \in Within(c, a)[h] <=> x <= h
  <2>1. Within(c, a)[h] = Reached(n, L, a, h) BY WithinIsReached
  <2>2. b \in Reached(n, L, a, h) <=> \E p \in Walks(V, L, h) : p[0] = a /\ p[h] = b
    BY <1>1 DEF Reached
  <2>3. h \in Nat BY <1>1
  <2>4. ASSUME NEW p \in Walks(V, L, h), p[0] = a, p[h] = b PROVE x <= h
    BY <1>1, <1>2, <2>3, <2>4, ShortestIsLeast
  <2>5. ASSUME x <= h PROVE \E p \in Walks(V, L, h) : p[0] = a /\ p[h] = b
    <3>0. x < Infinite
      <4>1. h <= n /\ h \in Int BY <1>1, <2>3
      <4> QED BY <1>1, <2>5, <4>1, InfiniteIsLarge
    <3>1. PICK p \in Walks(V, L, x) : p[0] = a /\ p[x] = b BY <1>1, <1>2, <3>0, ShortestIsWalk
    <3>2. PICK z \in Nat : z = h - x /\ x + z = h BY <2>3, <2>5
    <3> DEFINE q == [i \in 0..z |-> b]
    <3>3. q \in [0..z -> V] /\ q[0] = b /\ q[z] = b BY <1>1
    <3>4. \A i \in 0..(z - 1) : q[i] = q[i + 1]
      <4>1. \A i \in 0..(z - 1) : i \in 0..z /\ i + 1 \in 0..z OBVIOUS
      <4> QED BY <4>1
    <3> HIDE DEF q, V
    <3>5. q \in Walks(V, L, z) BY <3>3, <3>4 DEF Walks
    <3>6. p[x] = q[0] BY <3>1, <3>3
    <3>7. /\ Join(p, x, q, z) \in Walks(V, L, x + z)
          /\ Join(p, x, q, z)[0] = p[0] /\ Join(p, x, q, z)[x + z] = q[z]
      BY ONLY <3>5, <3>6, x \in Nat, z \in Nat, p \in Walks(V, L, x), JoinIsWalk
    <3> QED BY <3>1, <3>2, <3>3, <3>7
  <2> QED BY <2>1, <2>2, <2>4, <2>5
<1>5. Connected(c, a, b) <=> x <= n
  <2>1. n \in 0..n BY <1>1
  <2>2. b \in Within(c, a)[n] <=> x <= n BY <1>4, <2>1
  <2> QED BY <2>2 DEF Connected
<1>6. x <= n <=> x < Infinite
  <2>1. x <= n => x < Infinite BY <1>1, InfiniteIsLarge
  <2>2. x < Infinite => x <= n BY <1>1, <1>3
  <2> QED BY <2>1, <2>2
<1>7. ASSUME x < Infinite PROVE Distance(c, a, b) = x
  <2> DEFINE S == {h \in 0..n : b \in Within(c, a)[h]}
  <2>1. x \in 0..n /\ x <= x BY <1>1, <1>3, <1>7
  <2>2. x \in S /\ S \subseteq Int BY <1>4, <2>1
  <2>3. \A y \in S : x <= y BY <1>4
  <2> HIDE DEF S
  <2>4. Lowest(S) = x BY <2>2, <2>3, LowestIsLeast
  <2> QED BY <2>4 DEF Distance, S
<1> QED BY <1>2, <1>5, <1>6, <1>7

(* The rounds of the algorithm. *)
LEMMA InitialIsRelaxed ==
    ASSUME NEW c \in TopologyFiles, TopologyAccepted(c)
    PROVE  Relaxed(InitialDistance(c), 0, Node(c), Links(c))
<1> DEFINE V == Node(c)
           L == Links(c)
<1>1. V \subseteq Nat /\ L \subseteq V \X V /\ \A a \in V : <<a, a>> \notin L
  BY AcceptedGraph DEF IsGraph, Node
<1>2. InitialDistance(c) =
        [p \in V \X V |-> IF p \in L THEN 1 ELSE IF p[1] = p[2] THEN 0 ELSE Infinite]
  BY DEF InitialDistance
<1> HIDE DEF V, L
<1>3. Relaxed(InitialDistance(c), 0, V, L) BY <1>1, <1>2, RelaxedAtFirst
<1> QED BY <1>3 DEF V, L

(* One run of the loop over k is one such round. *)
LEMMA RoundRelaxes ==
    ASSUME NEW c \in TopologyFiles, TopologyAccepted(c), NEW r \in Nat, r < NumNodes(c),
           NEW d, Relaxed(d, r, Node(c), Links(c)), NEW e,
           e = [p \in DOMAIN d |->
                  LET via == d[<<p[1], r>>] + d[<<r, p[2]>>]
                  IN  IF d[p] > via THEN via ELSE d[p]]
    PROVE  Relaxed(e, r + 1, Node(c), Links(c))
<1> DEFINE V == Node(c)
           L == Links(c)
<1>1. V \subseteq Nat /\ r \in V BY AcceptedGraph DEF Node
<1>2. DOMAIN d = V \X V /\ Relaxed(d, r, V, L) BY DEF Relaxed
<1> HIDE DEF V, L
<1>3. Relaxed(e, r + 1, V, L) BY <1>1, <1>2, RelaxedOneMore
<1> QED BY <1>3 DEF V, L

-----------------------------------------------------------------------------
(***************************************************************************)
(* The next hops of the arbiter.                                           *)
(***************************************************************************)
(* Both ends of a link have a path to a node, or neither. *)
LEMMA LinkConnects ==
    ASSUME NEW n, NEW L, NEW d, Shortest(d, n, L), NEW a \in 0..(n - 1), NEW b \in 0..(n - 1),
           NEW t \in 0..(n - 1), <<a, b>> \in L, d[<<b, t>>] < Infinite
    PROVE  d[<<a, t>>] < Infinite
<1>1. n \in Nat /\ n < Infinite BY DEF Shortest, IsGraph
<1>2. d[<<b, t>>] < n BY ShortestIsShort
<1>3. PICK x \in Nat : x = d[<<b, t>>] BY ShortestIsNat
<1>4. PICK y \in Nat : y = d[<<a, t>>] BY ShortestIsNat
<1>5. d[<<a, t>>] <= 1 + d[<<b, t>>] BY OneLinkMore
<1>6. y <= 1 + x /\ x < n BY <1>2, <1>3, <1>4, <1>5
<1>7. y < Infinite BY ONLY <1>1, <1>6, InfiniteIsLarge, x \in Nat, y \in Nat
<1> QED BY <1>4, <1>7

(* The candidates are the neighbours on shortest paths. *)
LEMMA CandidatesFacts ==
    ASSUME NEW c \in TopologyFiles, TopologyAccepted(c),
           NEW d, Shortest(d, NumNodes(c), Links(c)), NEW a \in Node(c), NEW t \in Node(c)
    PROVE  CandidatesOf(c, d)[a][t] =
             IF Connected(c, a, t)
             THEN {b \in AdjacencyList(c, a) : Distance(c, b, t) + 1 = Distance(c, a, t)}
             ELSE {}
<1> DEFINE n == NumNodes(c)
           L == Links(c)
           V == 0..(n - 1)
           C == CandidatesOf(c, d)[a][t]
<1>1. n \in Nat /\ n < Infinite /\ Shortest(d, n, L) /\ Node(c) = V /\ a \in V /\ t \in V
  BY AcceptedGraph DEF Node, IsGraph, Shortest
<1>2. \A u, w \in V : <<u, w>> \in L => <<w, u>> \in L BY AcceptedGraph DEF IsGraph
<1>3. C = {b \in AdjacencyList(c, a) : d[<<a, t>>] - 1 = d[<<b, t>>]} BY DEF CandidatesOf
<1>4. \A b : b \in AdjacencyList(c, a) <=> b \in V /\ <<a, b>> \in L BY <1>1 DEF AdjacencyList
<1>5. \A u, w \in V : Connected(c, u, w) <=> d[<<u, w>>] < Infinite
  BY <1>1, DistanceIsShortest
<1>6. \A u, w \in V : d[<<u, w>>] < Infinite => Distance(c, u, w) = d[<<u, w>>]
  BY <1>1, DistanceIsShortest
<1>7. \A u, w \in V : d[<<u, w>>] \in Nat /\ d[<<u, w>>] <= Infinite BY <1>1, ShortestIsNat
<1>8. \A u, w \in V : <<u, w>> \in L /\ d[<<w, t>>] < Infinite => d[<<u, t>>] < Infinite
  BY <1>1, LinkConnects
<1> HIDE DEF n, L, V
<1>9. ASSUME NEW b \in V, <<a, b>> \in L
      PROVE  b \in C <=>
               Connected(c, a, t) /\ b \in {m \in AdjacencyList(c, a) : Distance(c, m, t) + 1 = Distance(c, a, t)}
  <2> HIDE DEF C
  <2>1. PICK x \in Nat : x = d[<<a, t>>] /\ x <= Infinite BY <1>1, <1>7
  <2>2. PICK y \in Nat : y = d[<<b, t>>] /\ y <= Infinite BY <1>1, <1>7
  <2>3. b \in C <=> x - 1 = y BY <1>3, <1>4, <1>9, <2>1, <2>2
  <2>4. CASE x < Infinite
    <3>1. y < Infinite BY <1>1, <1>2, <1>8, <1>9, <2>1, <2>2, <2>4
    <3>2. Connected(c, a, t) /\ Distance(c, a, t) = x /\ Distance(c, b, t) = y
      BY <1>1, <1>5, <1>6, <2>1, <2>2, <2>4, <3>1
    <3>3. x - 1 = y <=> y + 1 = x BY ONLY x \in Nat, y \in Nat
    <3> QED BY <1>4, <1>9, <2>3, <3>2, <3>3
  <2>5. CASE ~ (x < Infinite)
    <3>1. ~ (y < Infinite) BY <1>1, <1>8, <1>9, <2>1, <2>2, <2>5
    <3>2. x - 1 # y
      <4>1. x <= Infinite /\ y <= Infinite BY <2>1, <2>2
      <4> QED BY ONLY <2>5, <3>1, <4>1, x \in Nat, y \in Nat, InfiniteIsLarge
    <3>3. ~ Connected(c, a, t) BY <1>1, <1>5, <2>1, <2>5
    <3> QED BY <2>3, <3>2, <3>3
  <2> QED BY <2>4, <2>5
<1>10. \A b \in C : b \in V /\ <<a, b>> \in L /\ d[<<a, t>>] - 1 = d[<<b, t>>] BY <1>3, <1>4
<1>11. C = IF Connected(c, a, t)
           THEN {b \in AdjacencyList(c, a) : Distance(c, b, t) + 1 = Distance(c, a, t)}
           ELSE {}
  <2> HIDE DEF C
  <2>1. \A b \in AdjacencyList(c, a) : b \in V /\ <<a, b>> \in L BY <1>4
  <2> QED BY <1>9, <1>10, <2>1
<1> QED BY <1>11

(* What the arbiter takes is a neighbour that is one nearer to the target. *)
LEMMA CandidatesAreNearer ==
    ASSUME NEW c, NEW d, NEW a \in Node(c), NEW t \in Node(c), NEW b \in CandidatesOf(c, d)[a][t]
    PROVE  b \in Node(c) /\ <<a, b>> \in Links(c) /\ d[<<a, t>>] - 1 = d[<<b, t>>]
BY DEF CandidatesOf, AdjacencyList

(* If the target is connected there is one. *)
LEMMA CandidatesExist ==
    ASSUME NEW c \in TopologyFiles, TopologyAccepted(c),
           NEW d, Shortest(d, NumNodes(c), Links(c)), NEW a \in Node(c), NEW t \in Node(c),
           Connected(c, a, t), a # t
    PROVE  CandidatesOf(c, d)[a][t] # {}
<1>1. CandidatesOf(c, d)[a][t] = {b \in AdjacencyList(c, a) : d[<<a, t>>] - 1 = d[<<b, t>>]}
  BY DEF CandidatesOf
<1>2. d[<<a, t>>] < Infinite BY DistanceIsShortest
<1>3. \E b \in Node(c) : <<a, b>> \in Links(c) /\ d[<<a, t>>] - 1 = d[<<b, t>>]
  <2>1. a \in 0..(NumNodes(c) - 1) /\ t \in 0..(NumNodes(c) - 1) BY DEF Node
  <2>2. \E b \in 0..(NumNodes(c) - 1) : <<a, b>> \in Links(c) /\ d[<<a, t>>] - 1 = d[<<b, t>>]
    BY <1>2, <2>1, NextOnShortest
  <2> QED BY <2>2 DEF Node
<1> QED BY <1>1, <1>3 DEF AdjacencyList
-----------------------------------------------------------------------------
(* m_undirected_edges lists every edge: an edge is as many places behind   *)
(* the first as there are edges before it.                                 *)
LEMMA UndirectedEdgesFacts ==
    ASSUME NEW c \in TopologyFiles, TopologyAccepted(c)
    PROVE  /\ Cardinality(Edges(c)) \in Nat
           /\ \A i \in 1..Cardinality(Edges(c)) : UndirectedEdges(c)[i] \in Edges(c)
           /\ \A e \in Edges(c) : \E i \in 1..Cardinality(Edges(c)) : UndirectedEdges(c)[i] = e
<1> DEFINE E == Edges(c)
           m == Cardinality(E)
           Lower(e) == {d \in E : Before(d, e)}
           rank == [e \in E |-> Cardinality(Lower(e))]
<1>1. IsFiniteSet(E) /\ \A e \in E : e = <<e[1], e[2]>> /\ e[1] \in Nat /\ e[2] \in Nat
  BY AcceptedGraph DEF Node
<1>2. m \in Nat BY <1>1, FS_CardinalityType
<1> HIDE DEF E
<1>3. \A d, e \in E : d # e => Before(d, e) \/ Before(e, d)
  <2> TAKE d \in E, e \in E
  <2>1. HAVE d # e
  <2>2. d[1] # e[1] \/ d[2] # e[2] BY <1>1, <2>1
  <2>3. d[1] \in Nat /\ d[2] \in Nat /\ e[1] \in Nat /\ e[2] \in Nat BY <1>1
  <2> QED BY <2>2, <2>3 DEF Before
<1>4. \A x, d, e \in E : Before(x, d) /\ Before(d, e) => Before(x, e)
  <2> TAKE x \in E, d \in E, e \in E
  <2>1. d[1] \in Nat /\ d[2] \in Nat /\ e[1] \in Nat /\ e[2] \in Nat /\ x[1] \in Nat /\ x[2] \in Nat BY <1>1
  <2> QED BY <2>1 DEF Before
<1>5. \A e \in E : ~ Before(e, e)
  <2> TAKE e \in E
  <2>1. e[1] \in Nat /\ e[2] \in Nat BY <1>1
  <2> QED BY <2>1 DEF Before
<1>6. \A e \in E : IsFiniteSet(Lower(e)) /\ Cardinality(Lower(e)) \in Nat
  <2> TAKE e \in E
  <2>1. Lower(e) \in SUBSET E OBVIOUS
  <2> HIDE DEF Lower
  <2>2. IsFiniteSet(Lower(e)) BY <1>1, <2>1, FS_Subset
  <2> QED BY <2>2, FS_CardinalityType
<1>7. ASSUME NEW d \in E, NEW e \in E, Before(d, e) PROVE Cardinality(Lower(d)) < Cardinality(Lower(e))
  <2>1. Lower(d) \in SUBSET Lower(e) BY <1>4, <1>7
  <2>2. d \in Lower(e) /\ d \notin Lower(d) BY <1>5, <1>7
  <2> HIDE DEF Lower
  <2>3. Cardinality(Lower(d)) <= Cardinality(Lower(e)) /\ Cardinality(Lower(d)) # Cardinality(Lower(e))
    BY <1>6, <2>1, <2>2, FS_Subset
  <2>4. Cardinality(Lower(d)) \in Nat /\ Cardinality(Lower(e)) \in Nat BY <1>6
  <2> QED BY <2>3, <2>4
<1>8. ASSUME NEW e \in E PROVE Cardinality(Lower(e)) \in 0..(m - 1)
  <2>1. Lower(e) \in SUBSET E /\ e \notin Lower(e) BY <1>5
  <2> HIDE DEF Lower, m
  <2>2. Cardinality(Lower(e)) <= m /\ Cardinality(Lower(e)) # m
    BY <1>1, <2>1, FS_Subset DEF m
  <2> QED BY <1>2, <1>6, <2>2
<1>9. rank \in [E -> 0..(m - 1)]
  <2> HIDE DEF Lower, m
  <2> QED BY <1>8
<1>10. \A d, e \in E : rank[d] = rank[e] => d = e
  <2> TAKE d \in E, e \in E
  <2>1. HAVE rank[d] = rank[e]
  <2> HIDE DEF Lower
  <2>2. Cardinality(Lower(d)) = Cardinality(Lower(e)) BY <2>1
  <2>3. ~ Before(d, e) /\ ~ Before(e, d) BY <1>6, <1>7, <2>2
  <2> QED BY <1>3, <2>3
<1>11. \A r \in 0..(m - 1) : \E e \in E : rank[e] = r
  <2> HIDE DEF rank
  <2>1. rank \in Injection(E, 0..(m - 1))
    <3> HIDE DEF m
    <3> QED BY <1>9, <1>10 DEF Injection, IsInjective
  <2>2. IsFiniteSet(0..(m - 1)) /\ Cardinality(0..(m - 1)) = m
    <3>1. 0 \in Int /\ m - 1 \in Int /\ (0 > m - 1 => m = 0) /\ (m - 1) - 0 + 1 = m BY <1>2
    <3> HIDE DEF m
    <3> QED BY <3>1, FS_Interval
  <2>3. rank \in Surjection(E, 0..(m - 1))
    <3> HIDE DEF m
    <3>1. Cardinality(E) = m BY DEF m
    <3> QED BY <2>1, <2>2, <3>1, FS_Injection
  <2> QED BY <2>3 DEF Surjection
<1>12. \A i \in 1..m : UndirectedEdges(c)[i] = CHOOSE e \in E : Cardinality(Lower(e)) = i - 1
  BY DEF UndirectedEdges, E
<1> HIDE DEF Lower, m
<1>13. ASSUME NEW i \in 1..m
       PROVE  UndirectedEdges(c)[i] \in E /\ Cardinality(Lower(UndirectedEdges(c)[i])) = i - 1
  <2>1. i - 1 \in 0..(m - 1) BY <1>2
  <2>2. \E e \in E : Cardinality(Lower(e)) = i - 1 BY <1>11, <2>1
  <2> QED BY <1>12, <2>2
<1>14. ASSUME NEW e \in E PROVE \E i \in 1..m : UndirectedEdges(c)[i] = e
  <2>1. PICK i \in 1..m : Cardinality(Lower(e)) = i - 1
    <3>1. Cardinality(Lower(e)) \in 0..(m - 1) BY <1>8
    <3>2. Cardinality(Lower(e)) + 1 \in 1..m /\ (Cardinality(Lower(e)) + 1) - 1 = Cardinality(Lower(e))
      BY <1>2, <3>1
    <3> QED BY <3>2
  <2>2. rank[UndirectedEdges(c)[i]] = rank[e] BY <1>13, <2>1
  <2>3. UndirectedEdges(c)[i] = e
    <3> HIDE DEF rank
    <3> QED BY <1>10, <1>13, <2>2
  <2> QED BY <2>3
<1> QED BY <1>2, <1>13, <1>14 DEF E, m

-----------------------------------------------------------------------------
(***************************************************************************)
(* The properties of the links: their maps have the right keys.            *)
(***************************************************************************)
(* A map without two entries for one key has as many keys as entries. *)
LEMMA KeysAreCounted ==
    ASSUME NEW entries, IsList(entries), Len(entries) \in Nat, ParseKeys(entries)
    PROVE  IsFiniteSet(Keys(entries)) /\ Cardinality(Keys(entries)) = Len(entries)
<1> DEFINE I == 1..Len(entries)
           f == [i \in I |-> Pair(entries[i][1])]
<1>1. DOMAIN entries = I BY DEF IsList
<1>2. IsFiniteSet(I) /\ Cardinality(I) = Len(entries)
  <2>1. 1 \in Int /\ Len(entries) \in Int /\ (1 > Len(entries) => Len(entries) = 0)
        /\ Len(entries) - 1 + 1 = Len(entries)
    OBVIOUS
  <2> QED BY <2>1, FS_Interval
<1> HIDE DEF I
<1>3. Keys(entries) = {Pair(entries[i][1]) : i \in I} BY <1>1 DEF Keys, SetOf
<1>4. f \in Surjection(I, Keys(entries)) BY <1>3 DEF Surjection
<1>5. \A i, j \in DOMAIN f : f[i] = f[j] => i = j BY <1>1 DEF ParseKeys
<1>6. f \in [I -> Keys(entries)] BY <1>3
<1> HIDE DEF f
<1>7. f \in Injection(I, Keys(entries)) BY <1>5, <1>6 DEF Injection, IsInjective
<1> QED BY <1>2, <1>4, <1>7, FS_Surjection

(* The keys of a map that is accepted are the edges of the topology, *)
LEMMA KeysAreEdges ==
    ASSUME NEW c \in TopologyFiles, TopologyAccepted(c), NEW entries, IsList(entries),
           ParseUndirectedEdgeMap(c, entries)
    PROVE  Keys(entries) = Edges(c)
<1>1. IsFiniteSet(Edges(c)) /\ Cardinality(Edges(c)) \in Nat BY AcceptedGraph, FS_CardinalityType
<1>2. Len(entries) \in Nat /\ Cardinality(Edges(c)) = Len(entries) /\ ParseKeys(entries)
  BY <1>1 DEF ParseUndirectedEdgeMap
<1>3. Cardinality(Keys(entries)) = Len(entries) BY <1>2, KeysAreCounted
<1>4. Keys(entries) \in SUBSET Edges(c) BY DEF ParseUndirectedEdgeMap
<1> QED BY <1>1, <1>2, <1>3, <1>4, FS_Subset

(* or their two directions. *)
LEMMA KeysAreLinks ==
    ASSUME NEW c \in TopologyFiles, TopologyAccepted(c), NEW entries, IsList(entries),
           ParseDirectedEdgeMap(c, entries)
    PROVE  Keys(entries) = Links(c)
<1> DEFINE E == Edges(c)
           Back == {<<e[2], e[1]>> : e \in E}
           f == [e \in E |-> <<e[2], e[1]>>]
<1>1. IsFiniteSet(E) /\ Cardinality(E) \in Nat BY AcceptedGraph, FS_CardinalityType
<1>2. IsFiniteSet(Back) /\ Cardinality(Back) <= Cardinality(E)
  <2>1. f \in Surjection(E, Back) BY DEF Surjection
  <2> HIDE DEF f, E, Back
  <2> QED BY <1>1, <2>1, FS_Surjection
<1>3. IsFiniteSet(Links(c)) /\ Cardinality(Links(c)) <= 2 * Cardinality(E)
  <2>1. Links(c) = E \cup Back BY DEF Links
  <2> HIDE DEF E, Back
  <2>2. /\ IsFiniteSet(E \cup Back)
        /\ Cardinality(E \cup Back) = Cardinality(E) + Cardinality(Back) - Cardinality(E \cap Back)
    BY <1>1, <1>2, FS_Union
  <2>3. Cardinality(E \cap Back) \in Nat
    <3>1. E \cap Back \in SUBSET E OBVIOUS
    <3> QED BY <1>1, <3>1, FS_Subset, FS_CardinalityType
  <2>4. Cardinality(Back) \in Nat BY <1>2, FS_CardinalityType
  <2> QED BY <1>1, <1>2, <2>1, <2>2, <2>3, <2>4
<1>4. Cardinality(E) * 2 = Len(entries) /\ ParseKeys(entries) BY DEF ParseDirectedEdgeMap
<1>5. Len(entries) \in Nat BY <1>1, <1>4
<1>6. Cardinality(Keys(entries)) = Len(entries) BY <1>4, <1>5, KeysAreCounted
<1>7. Keys(entries) \in SUBSET Links(c)
  <2> SUFFICES ASSUME NEW x \in Keys(entries) PROVE x \in Links(c) OBVIOUS
  <2>1. x = <<x[1], x[2]>> BY DEF Keys, Pair
  <2>2. x \in E \/ <<x[2], x[1]>> \in E BY DEF ParseDirectedEdgeMap
  <2>3. CASE x \in E BY <2>3 DEF Links
  <2>4. CASE <<x[2], x[1]>> \in E
    <3>1. PICK e \in E : e = <<x[2], x[1]>> BY <2>4
    <3>2. <<e[2], e[1]>> = x BY <2>1, <3>1
    <3> QED BY <3>2 DEF Links
  <2> QED BY <2>2, <2>3, <2>4
<1>8. Cardinality(Keys(entries)) <= Cardinality(Links(c)) BY <1>3, <1>7, FS_Subset
<1>9. Cardinality(Links(c)) \in Nat BY <1>3, FS_CardinalityType
<1>10. Cardinality(Links(c)) = Cardinality(Keys(entries)) 
  <2> HIDE DEF E
  <2>1. PICK m \in Nat : m = Cardinality(E) BY <1>1
  <2>2. PICK x \in Nat : x = Cardinality(Links(c)) BY <1>9
  <2>3. m * 2 = Cardinality(Keys(entries)) /\ x <= 2 * m /\ m * 2 <= x
    BY <1>3, <1>4, <1>6, <1>8, <2>1, <2>2
  <2> QED BY <2>1, <2>2, <2>3
<1> QED BY <1>3, <1>7, <1>10, FS_Subset

(* A property that is accepted has a value of its kind for every link. *)
LEMMA PropertyFacts ==
    ASSUME NEW value, NEW all, NEW takes, value.map => Keys(value.entries) = all,
           ValuesOf(value) \subseteq takes
    PROVE  /\ DOMAIN LinkProperty(value, all) = all
           /\ \A x \in all : LinkProperty(value, all)[x] \in takes
<1>1. CASE value.map
  <2> DEFINE entries == value.entries
  <2>1. LinkProperty(value, all) = [x \in Keys(entries) |-> EntryOf(entries, x)]
    BY <1>1 DEF LinkProperty
  <2>2. Keys(entries) = all BY <1>1
  <2>3. ASSUME NEW x \in Keys(entries) PROVE EntryOf(entries, x) \in takes
    <3>1. \E e \in SetOf(entries) : Pair(e[1]) = x BY DEF Keys
    <3>2. PICK e \in SetOf(entries) : EntryOf(entries, x) = e[2] BY <3>1 DEF EntryOf
    <3>3. e[2] \in ValuesOf(value) BY <1>1, <3>2 DEF ValuesOf
    <3> QED BY <3>2, <3>3
  <2> QED BY <2>1, <2>2, <2>3
<1>2. CASE ~ value.map
  <2>1. LinkProperty(value, all) = [x \in all |-> value.text] BY <1>2 DEF LinkProperty
  <2>2. value.text \in takes BY <1>2 DEF ValuesOf
  <2> QED BY <2>1, <2>2
<1> QED BY <1>1, <1>2

(* What a property of the links is accepted with. *)
LEMMA DirectedPropertyFacts ==
    ASSUME NEW c \in TopologyFiles, TopologyAccepted(c), NEW property \in LinkPropertyNames,
           NEW takes, DirectedProperty(c, c[property], takes)
    PROVE  /\ DOMAIN LinkProperty(c[property], Links(c)) = Links(c)
           /\ \A x \in Links(c) : LinkProperty(c[property], Links(c))[x] \in takes
<1> DEFINE value == c[property]
<1>1. property \in DOMAIN c
  <2>1. property \in Properties \ {"all_nodes_are_endpoints"} BY DEF Properties, LinkPropertyNames
  <2> QED BY <2>1 DEF TopologyAccepted, ReadTopologyConfig
<1>2. value.map => IsList(value.entries) BY <1>1, FilesAssumption
<1>3. value.map => ParseDirectedEdgeMap(c, value.entries) BY DEF DirectedProperty
<1>4. ValuesOf(value) \subseteq takes BY DEF DirectedProperty
<1>5. value.map => Keys(value.entries) = Links(c) BY <1>2, <1>3, KeysAreLinks
<1> HIDE DEF value
<1>6. /\ DOMAIN LinkProperty(value, Links(c)) = Links(c)
      /\ \A x \in Links(c) : LinkProperty(value, Links(c))[x] \in takes
  BY <1>4, <1>5, PropertyFacts
<1> QED BY <1>6 DEF value

(* Every property of an accepted file has a value of its kind for each edge or link. *)
LEMMA AcceptedProperties ==
    ASSUME NEW c \in TopologyFiles, TopologyAccepted(c)
    PROVE  /\ DOMAIN Delay(c) = Edges(c) /\ \A e \in Edges(c) : Delay(c)[e] \in parse_positive_int64
           /\ DOMAIN DataRate(c) = Links(c)
           /\ DOMAIN Queue(c) = Links(c) /\ \A l \in Links(c) : Queue(c)[l] \in ParseQueueValue
           /\ DOMAIN TcQdisc(c) = Links(c)
<1>1. ParseTopologyLinkProperties(c) BY DEF TopologyAccepted
<1>2. DOMAIN Delay(c) = Edges(c) /\ \A e \in Edges(c) : Delay(c)[e] \in parse_positive_int64
  <2> DEFINE value == c["link_channel_delay_ns"]
  <2>1. "link_channel_delay_ns" \in LinkPropertyNames \cap DOMAIN c
    <3>1. "link_channel_delay_ns" \in Properties \ {"all_nodes_are_endpoints"}
      BY DEF Properties, LinkPropertyNames
    <3>2. "link_channel_delay_ns" \in LinkPropertyNames BY DEF LinkPropertyNames
    <3> QED BY <3>1, <3>2 DEF TopologyAccepted, ReadTopologyConfig
  <2>2. ParseLinkChannelDelayNsProperty(c) BY <1>1 DEF ParseTopologyLinkProperties
  <2>3. value.map => IsList(value.entries) BY <2>1, FilesAssumption
  <2>4. value.map => ParseUndirectedEdgeMap(c, value.entries)
    BY <2>2 DEF ParseLinkChannelDelayNsProperty
  <2>5. ValuesOf(value) \subseteq parse_positive_int64 BY <2>2 DEF ParseLinkChannelDelayNsProperty
  <2>6. value.map => Keys(value.entries) = Edges(c) BY <2>3, <2>4, KeysAreEdges
  <2>7. Delay(c) = LinkProperty(value, Edges(c)) BY DEF Delay
  <2> HIDE DEF value
  <2>8. /\ DOMAIN LinkProperty(value, Edges(c)) = Edges(c)
        /\ \A x \in Edges(c) : LinkProperty(value, Edges(c))[x] \in parse_positive_int64
    BY <2>5, <2>6, PropertyFacts
  <2> QED BY <2>7, <2>8
<1>3. DOMAIN DataRate(c) = Links(c)
  <2> DEFINE property == "link_device_data_rate_megabit_per_s"
  <2>1. property \in LinkPropertyNames BY DEF LinkPropertyNames
  <2>2. DirectedProperty(c, c[property], parse_positive_double)
    BY <1>1 DEF ParseTopologyLinkProperties, ParseLinkDeviceDataRateMegabitPerSecProperty
  <2>3. DataRate(c) = LinkProperty(c[property], Links(c)) BY DEF DataRate
  <2> HIDE DEF property
  <2> QED BY <2>1, <2>2, <2>3, DirectedPropertyFacts
<1>4. DOMAIN Queue(c) = Links(c) /\ \A l \in Links(c) : Queue(c)[l] \in ParseQueueValue
  <2> DEFINE property == "link_device_queue"
  <2>1. property \in LinkPropertyNames BY DEF LinkPropertyNames
  <2>2. DirectedProperty(c, c[property], ParseQueueValue)
    BY <1>1 DEF ParseTopologyLinkProperties, ParseLinkDeviceQueueProperty
  <2>3. Queue(c) = LinkProperty(c[property], Links(c)) BY DEF Queue
  <2> HIDE DEF property
  <2> QED BY <2>1, <2>2, <2>3, DirectedPropertyFacts
<1>5. DOMAIN TcQdisc(c) = Links(c)
  <2> DEFINE property == "link_interface_traffic_control_qdisc"
  <2>1. property \in LinkPropertyNames BY DEF LinkPropertyNames
  <2>2. DirectedProperty(c, c[property], ParseTcQdiscValue)
    BY <1>1 DEF ParseTopologyLinkProperties, ParseLinkInterfaceTrafficControlQdiscProperty
  <2>3. TcQdisc(c) = LinkProperty(c[property], Links(c)) BY DEF TcQdisc
  <2> HIDE DEF property
  <2> QED BY <2>1, <2>2, <2>3, DirectedPropertyFacts
<1> QED BY <1>2, <1>3, <1>4, <1>5

-----------------------------------------------------------------------------
(***************************************************************************)
(* The greatest and the least of a finite set; division.                   *)
(***************************************************************************)
(* A finite set of numbers has a greatest one. *)
LEMMA FiniteHasGreatest ==
    ASSUME NEW S, S \subseteq Nat, IsFiniteSet(S), S # {}
    PROVE  \E x \in S : \A y \in S : y <= x
<1> DEFINE Bad(T) == T \subseteq Nat /\ IsFiniteSet(T) /\ T # {} /\ ~ \E x \in T : \A y \in T : y <= x
           Sizes == {n \in Nat : \E T : Bad(T) /\ Cardinality(T) = n}
<1>1. Sizes = {}
  <2> SUFFICES ASSUME Sizes # {} PROVE FALSE OBVIOUS
  <2>1. PICK n \in Sizes : \A m \in Sizes : n <= m
    <3>1. Sizes \subseteq Nat OBVIOUS
    <3> HIDE DEF Sizes
    <3> QED BY <3>1, LeastElement
  <2>2. PICK T : Bad(T) /\ Cardinality(T) = n OBVIOUS
  <2>3. PICK z \in T : TRUE BY <2>2
  <2> DEFINE U == T \ {z}
  <2>4. n \in Nat OBVIOUS
  <2>5. IsFiniteSet(U) /\ Cardinality(U) = n - 1 BY <2>2, <2>3, FS_RemoveElement
  <2>6. CASE U = {}
    <3>1. T = {z} BY <2>3, <2>6
    <3>2. z \in Nat /\ z <= z BY <2>2, <2>3
    <3> QED BY <2>2, <3>1, <3>2
  <2>7. CASE U # {}
    <3>1. Cardinality(U) \in Nat BY <2>5, FS_CardinalityType
    <3>2. ~ (n <= n - 1) BY <2>4
    <3>3. ~ Bad(U)
      <4>1. n - 1 \notin Sizes BY <2>1, <3>2
      <4>2. n - 1 \in Nat BY <2>5, <3>1
      <4> HIDE DEF Bad
      <4> QED BY <2>5, <4>1, <4>2
    <3>4. PICK x \in U : \A y \in U : y <= x BY <2>2, <2>5, <2>7, <3>3
    <3>5. x \in Nat /\ z \in Nat BY <2>2, <2>3
    <3>6. \E w \in T : \A y \in T : y <= w
      <4>1. CASE z <= x
        <5>1. \A y \in T : y <= x BY <3>4, <4>1
        <5> QED BY <5>1
      <4>2. CASE ~ (z <= x)
        <5>1. \A y \in U : y \in Nat /\ y <= x BY <2>2, <3>4
        <5>2. \A y \in U : y <= z BY <3>5, <4>2, <5>1
        <5>3. z <= z BY <3>5
        <5>4. \A y \in T : y <= z BY <5>2, <5>3
        <5> QED BY <2>3, <5>4
      <4> QED BY <4>1, <4>2
    <3> QED BY <2>2, <3>6
  <2> QED BY <2>6, <2>7
<1>2. ~ Bad(S)
  <2>1. Cardinality(S) \in Nat BY FS_CardinalityType
  <2> HIDE DEF Bad
  <2> QED BY <1>1, <2>1
<1> QED BY <1>2

(* What Highest and Lowest choose. *)
LEMMA HighestIsGreatest ==
    ASSUME NEW S, S \subseteq Nat, IsFiniteSet(S), S # {}
    PROVE  Highest(S) \in S /\ \A y \in S : y <= Highest(S)
BY FiniteHasGreatest DEF Highest

(* The same of the lowest. *)
LEMMA LowestIsThere ==
    ASSUME NEW S, S \subseteq Nat, S # {}
    PROVE  Lowest(S) \in S /\ \A y \in S : Lowest(S) <= y
BY LeastElement DEF Lowest

(* A division rounds down, and grows with the dividend and falls with the divisor. *)
LEMMA DivMonotone ==
    ASSUME NEW q \in Nat, NEW B \in Nat, NEW r \in Nat, NEW R \in Nat, q <= B, R <= r, R >= 1
    PROVE  q \div r \in Nat /\ B \div R \in Nat /\ q \div r <= B \div R
<1>1. q \div r \in Nat /\ (q \div r) * r <= q
  OBVIOUS
<1>2. B \div R \in Nat /\ B < (B \div R + 1) * R
  OBVIOUS
<1>3. PICK u \in Nat : u = q \div r BY <1>1
<1>4. PICK v \in Nat : v = B \div R BY <1>2
<1>5. u * r <= q /\ B < (v + 1) * R BY <1>1, <1>2, <1>3, <1>4
<1>6. u <= v
  <2> SUFFICES ASSUME v + 1 <= u PROVE FALSE OBVIOUS
  <2>1. (v + 1) * R <= u * R OBVIOUS
  <2>2. u * R <= u * r OBVIOUS
  <2>3. (v + 1) * R \in Int /\ u * R \in Int /\ u * r \in Int OBVIOUS
  <2> QED BY <1>5, <2>1, <2>2, <2>3
<1> QED BY <1>3, <1>4, <1>6

-----------------------------------------------------------------------------
(***************************************************************************)
(* The estimate of the worst round trip counts a bound for every hop.      *)
(***************************************************************************)
(* What the estimate counts for one hop. *)
DelayBound(c) == Highest({0} \cup {Int64Of[Delay(c)[e]] : e \in Edges(c)})
RateBound(c) == Lowest({1000000} \cup {Int64Of[DataRate(c)[l]] : l \in Links(c)})
ByteBound(c) == Highest({0} \cup {QueueByte(Queue(c)[l]) : l \in Links(c)})
HopBound(c) == ByteBound(c) \div RateBound(c) + DelayBound(c)

(* The estimate counts this bound twice for every edge. *)
LEMMA EstimateIsPerHop ==
    ASSUME NEW c \in TopologyFiles, TopologyAccepted(c), Cardinality(Edges(c)) <= 10
    PROVE  EstimateWorstCaseRtt(c) = (Cardinality(Edges(c)) * 2) * HopBound(c)
<1>1. Cardinality(Edges(c)) \in Nat BY AcceptedGraph, FS_CardinalityType
<1>2. PICK m \in Nat : m = Cardinality(Edges(c)) /\ m <= 10 BY <1>1
<1>3. Lowest({20, m * 2}) = m * 2
  <2>1. {20, m * 2} \subseteq Int /\ m * 2 \in {20, m * 2} OBVIOUS
  <2>2. \A y \in {20, m * 2} : m * 2 <= y BY <1>2
  <2> QED BY <2>1, <2>2, LowestIsLeast
<1>4. EstimateWorstCaseRtt(c) = Lowest({20, m * 2}) * HopBound(c)
  BY SMT, <1>2 DEF EstimateWorstCaseRtt, HopBound, ByteBound, RateBound, DelayBound
<1> QED BY <1>2, <1>3, <1>4

(* A file has finitely many links. *)
LEMMA LinksAreFinite ==
    ASSUME NEW c \in TopologyFiles, TopologyAccepted(c)
    PROVE  IsFiniteSet(Links(c))
<1> DEFINE E == Edges(c)
           Back == {<<e[2], e[1]>> : e \in E}
           f == [e \in E |-> <<e[2], e[1]>>]
<1>1. IsFiniteSet(E) BY AcceptedGraph
<1>2. f \in Surjection(E, Back) BY DEF Surjection
<1>3. Links(c) = E \cup Back BY DEF Links
<1> HIDE DEF E, Back, f
<1> QED BY <1>1, <1>2, <1>3, FS_Surjection, FS_Union

(* The bounds of the delays, rates and queues hold for each edge and link. *)
LEMMA BoundsHold ==
    ASSUME NEW c \in TopologyFiles, TopologyAccepted(c)
    PROVE  /\ DelayBound(c) \in Nat
           /\ \A e \in Edges(c) : Int64Of[Delay(c)[e]] \in Nat /\ Int64Of[Delay(c)[e]] <= DelayBound(c)
           /\ ByteBound(c) \in Nat
           /\ \A l \in Links(c) : QueueByte(Queue(c)[l]) \in Nat /\ QueueByte(Queue(c)[l]) <= ByteBound(c)
           /\ RateBound(c) \in Nat /\ RateBound(c) >= 1
           /\ \A l \in Links(c) : Int64Of[DataRate(c)[l]] \in Nat /\ RateBound(c) <= Int64Of[DataRate(c)[l]]
<1> DEFINE D(e) == Int64Of[Delay(c)[e]]
           R(x) == Int64Of[DataRate(c)[x]]
           Q(x) == QueueByte(Queue(c)[x])
           Ds == {D(e) : e \in Edges(c)}
           Rs == {R(x) : x \in Links(c)}
           Qs == {Q(x) : x \in Links(c)}
<1>0. \A t \in parse_positive_int64 : Int64Of[t] \in Nat
  BY Int64Assumption DEF parse_positive_int64, parse_int64
<1>1. \A e \in Edges(c) : D(e) \in Nat BY <1>0, AcceptedProperties
<1>2. \A x \in Links(c) : R(x) \in Nat /\ R(x) >= 1
  <2>1. \A x \in Links(c) : DataRate(c)[x] \in parse_geq_one_int64
    BY AcceptedProperties, RatesAssumption
  <2>2. \A t \in parse_geq_one_int64 : Int64Of[t] \in Nat /\ Int64Of[t] >= 1
    BY <1>0 DEF parse_geq_one_int64
  <2> QED BY <2>1, <2>2
<1>3. \A x \in Links(c) : Q(x) \in Nat
  <2> TAKE x \in Links(c)
  <2>1. Queue(c)[x] \in ParseQueueValue BY AcceptedProperties
  <2>2. Int64Of[Queue(c)[x].size] \in Nat
    <3>1. Queue(c)[x].size \in parse_geq_one_int64 BY <2>1 DEF ParseQueueValue
    <3> QED BY <1>0, <3>1 DEF parse_geq_one_int64
  <2>3. PICK z \in Nat : z = Int64Of[Queue(c)[x].size] BY <2>2
  <2>4. (z + 2) * FrameByte \in Nat /\ z + 2 * FrameByte \in Nat BY DEF FrameByte
  <2>5. \A y \in Nat : y % UintSize \in Nat BY WidthAssumption
  <2> QED BY <2>3, <2>4, <2>5 DEF QueueByte
<1>4. IsFiniteSet(Edges(c)) /\ IsFiniteSet(Links(c)) BY AcceptedGraph, LinksAreFinite
<1>5. IsFiniteSet({0} \cup Ds) /\ IsFiniteSet({0} \cup Qs)
  <2> DEFINE f == [e \in Edges(c) |-> D(e)]
             g == [x \in Links(c) |-> Q(x)]
  <2>1. f \in Surjection(Edges(c), Ds)
    <3> HIDE DEF D
    <3> QED BY DEF Surjection
  <2>2. g \in Surjection(Links(c), Qs)
    <3> HIDE DEF Q
    <3> QED BY DEF Surjection
  <2> HIDE DEF f, g, Ds, Qs
  <2>3. IsFiniteSet(Ds) /\ IsFiniteSet(Qs) BY <1>4, <2>1, <2>2, FS_Surjection
  <2> QED BY <2>3, FS_Singleton, FS_Union
<1> HIDE DEF D, R, Q
<1>6. DelayBound(c) \in Nat /\ \A e \in Edges(c) : D(e) <= DelayBound(c)
  <2>1. {0} \cup Ds \subseteq Nat /\ {0} \cup Ds # {} BY <1>1
  <2>2. DelayBound(c) = Highest({0} \cup Ds) BY DEF DelayBound, D
  <2> DEFINE S == {0} \cup Ds
  <2>3. \A e \in Edges(c) : D(e) \in S OBVIOUS
  <2> HIDE DEF S
  <2>4. Highest(S) \in S /\ \A y \in S : y <= Highest(S) BY <1>5, <2>1, HighestIsGreatest DEF S
  <2>5. S \subseteq Nat /\ DelayBound(c) = Highest(S) BY <2>1, <2>2 DEF S
  <2> QED BY <2>3, <2>4, <2>5
<1>7. ByteBound(c) \in Nat /\ \A x \in Links(c) : Q(x) <= ByteBound(c)
  <2>1. {0} \cup Qs \subseteq Nat /\ {0} \cup Qs # {} BY <1>3
  <2>2. ByteBound(c) = Highest({0} \cup Qs) BY DEF ByteBound, Q
  <2> DEFINE S == {0} \cup Qs
  <2>3. \A x \in Links(c) : Q(x) \in S OBVIOUS
  <2> HIDE DEF S
  <2>4. Highest(S) \in S /\ \A y \in S : y <= Highest(S) BY <1>5, <2>1, HighestIsGreatest DEF S
  <2>5. S \subseteq Nat /\ ByteBound(c) = Highest(S) BY <2>1, <2>2 DEF S
  <2> QED BY <2>3, <2>4, <2>5
<1>8. RateBound(c) \in Nat /\ RateBound(c) >= 1 /\ \A x \in Links(c) : RateBound(c) <= R(x)
  <2>0. PICK most \in Nat : most >= 1 /\ RateBound(c) = Lowest({most} \cup Rs)
    <3>1. 1000000 \in Nat /\ 1000000 >= 1 /\ RateBound(c) = Lowest({1000000} \cup Rs)
      BY SMT DEF RateBound, R
    <3> QED BY SMT, <3>1
  <2> DEFINE S == {most} \cup Rs
  <2>1. S \subseteq Nat /\ S # {} /\ \A y \in S : y >= 1 BY <1>2, <2>0
  <2>3. \A x \in Links(c) : R(x) \in S OBVIOUS
  <2> HIDE DEF S
  <2>4. Lowest(S) \in S /\ \A y \in S : Lowest(S) <= y BY <2>1, LowestIsThere
  <2>5. S \subseteq Nat /\ (\A y \in S : y >= 1) /\ RateBound(c) = Lowest(S) BY <2>0, <2>1 DEF S
  <2> QED BY <2>3, <2>4, <2>5
<1> QED BY <1>1, <1>2, <1>3, <1>6, <1>7, <1>8 DEF D, Q, R

(* The bound of a hop is a number. *)
LEMMA HopBoundIsNat ==
    ASSUME NEW c \in TopologyFiles, TopologyAccepted(c)
    PROVE  HopBound(c) \in Nat
<1>1. DelayBound(c) \in Nat /\ ByteBound(c) \in Nat /\ RateBound(c) \in Nat /\ RateBound(c) >= 1
  BY BoundsHold
<1>2. ByteBound(c) \div RateBound(c) \in Nat BY <1>1, DivMonotone
<1> QED BY <1>1, <1>2 DEF HopBound

(* Where it does not wrap, the estimate counts all that can be ahead of a packet. *)
LEMMA QueueByteFits ==
    ASSUME TopologyAccepted(topology), topology \in TopologyFiles, QueuesFit,
           NEW l \in Links(topology)
    PROVE  LongestWait(Queue(topology)[l]) = QueueByte(Queue(topology)[l])
<1>1. PICK q \in ParseQueueValue : q = Queue(topology)[l] BY AcceptedProperties
<1>2. PICK z \in Nat : z = Int64Of[q.size]
  <2>1. q.size \in parse_positive_int64 BY DEF ParseQueueValue, parse_geq_one_int64
  <2> QED BY <2>1, Int64Assumption DEF parse_positive_int64, parse_int64
<1>3. LongestWait(q) < UintSize BY <1>1 DEF QueuesFit
<1>4. \A y \in Nat : y < UintSize => y % UintSize = y BY WidthAssumption
<1>5. CASE q.unit = "p"
  <2>1. LongestWait(q) = (z + 2) * FrameByte /\ (z + 2) * FrameByte \in Nat
    BY <1>2, <1>5 DEF LongestWait, FullQueue, FrameByte
  <2>2. QueueByte(q) = ((z + 2) * FrameByte) % UintSize BY <1>2, <1>5 DEF QueueByte
  <2> QED BY <1>1, <1>3, <1>4, <2>1, <2>2
<1>6. CASE q.unit # "p"
  <2>1. LongestWait(q) = z + 2 * FrameByte /\ z + 2 * FrameByte \in Nat
    BY <1>2, <1>6 DEF LongestWait, FullQueue, FrameByte
  <2>2. QueueByte(q) = (z + 2 * FrameByte) % UintSize BY <1>2, <1>6 DEF QueueByte
  <2> QED BY <1>1, <1>3, <1>4, <2>1, <2>2
<1> QED BY <1>5, <1>6

(* No hop takes longer than its bound. *)
LEMMA HopIsBounded ==
    ASSUME TopologyAccepted(topology), topology \in TopologyFiles, QueuesFit,
           NEW a, NEW b, <<a, b>> \in Links(topology)
    PROVE  LongestTime(a, b) \in Nat /\ LongestTime(a, b) <= HopBound(topology)
<1> DEFINE c == topology
           l == <<a, b>>
           D(e) == Int64Of[Delay(c)[e]]
           R(x) == Int64Of[DataRate(c)[x]]
           Q(x) == QueueByte(Queue(c)[x])
<1>1. /\ DelayBound(c) \in Nat /\ \A e \in Edges(c) : D(e) \in Nat /\ D(e) <= DelayBound(c)
      /\ ByteBound(c) \in Nat /\ \A x \in Links(c) : Q(x) \in Nat /\ Q(x) <= ByteBound(c)
      /\ RateBound(c) \in Nat /\ RateBound(c) >= 1
      /\ \A x \in Links(c) : R(x) \in Nat /\ RateBound(c) <= R(x)
  BY BoundsHold
<1>9. PICK e \in Edges(c) : e = IF a < b THEN <<a, b>> ELSE <<b, a>>
  <2>1. PICK e \in Edges(c) : <<a, b>> = e \/ <<a, b>> = <<e[2], e[1]>> BY DEF Links
  <2>2. e = <<e[1], e[2]>> /\ e[1] \in Nat /\ e[2] \in Nat /\ e[1] < e[2] BY AcceptedGraph DEF Node
  <2>3. ~ (e[2] < e[1]) BY <2>2
  <2>4. CASE <<a, b>> = e
    <3>1. a = e[1] /\ b = e[2] BY <2>4
    <3> QED BY <2>2, <2>4, <3>1
  <2>5. CASE <<a, b>> = <<e[2], e[1]>>
    <3>1. a = e[2] /\ b = e[1] BY <2>5
    <3> QED BY <2>2, <2>3, <3>1
  <2> QED BY <2>1, <2>4, <2>5
<1>10. LongestTime(a, b) = Q(l) \div R(l) + D(e) BY <1>9, QueueByteFits DEF LongestTime
<1> HIDE DEF D, R, Q
<1>11. PICK q \in Nat : q = Q(l) /\ q <= ByteBound(c) BY <1>1
<1>12. PICK r \in Nat : r = R(l) /\ RateBound(c) <= r BY <1>1
<1>13. PICK t \in Nat : t = D(e) /\ t <= DelayBound(c) BY <1>1
<1>14. q \div r \in Nat /\ ByteBound(c) \div RateBound(c) \in Nat /\ q \div r <= ByteBound(c) \div RateBound(c)
  BY <1>1, <1>11, <1>12, DivMonotone
<1>15. PICK u \in Nat : u = q \div r BY <1>14
<1>16. PICK v \in Nat : v = ByteBound(c) \div RateBound(c) BY <1>14
<1>17. HopBound(c) = v + DelayBound(c) /\ LongestTime(a, b) = u + t /\ u <= v
  BY <1>10, <1>11, <1>12, <1>13, <1>14, <1>15, <1>16 DEF HopBound
<1> QED BY <1>1, <1>13, <1>17

-----------------------------------------------------------------------------
(***************************************************************************)
(* The inductive invariant: the interfaces, the distances, the packet.     *)
(***************************************************************************)
(* The interfaces and the indexes kept of them lead to the same links. *)
Wired ==
    /\ DOMAIN interfaces = Node(topology)
    /\ \A n \in Node(topology) : interfaces[n] \in Seq(Nat)
    /\ ifIdxs \in Seq(Nat \X Nat)
    /\ EdgesDone <= Cardinality(Edges(topology))
    /\ \A i \in 1..EdgesDone :
         LET e == UndirectedEdges(topology)[i]
         IN  /\ ifIdxs[i][1] \in DOMAIN interfaces[e[1]] /\ interfaces[e[1]][ifIdxs[i][1]] = i
             /\ ifIdxs[i][2] \in DOMAIN interfaces[e[2]] /\ interfaces[e[2]][ifIdxs[i][2]] = i
AllWired == Wired /\ EdgesDone = Cardinality(Edges(topology))

(* The next hops are those of the matrix of shortest walks.                *)
Ready ==
    /\ Shortest(dist, NumNodes(topology), Links(topology))
    /\ candidates = CandidatesOf(topology, dist)

(* A packet on its way has come as far as it is nearer. *)
Far(a, t) == dist[<<a, t>>]
PacketOf(p) ==
    [state |-> p.state, from |-> p.from, at |-> p.at, source |-> p.source,
     destination |-> p.destination, back |-> p.back, hops |-> p.hops, spent |-> p.spent]
Underway ==
    LET t == packet.destination.node
    IN  /\ packet = PacketOf(packet) /\ packet.state \in {"travels", "done"}
        /\ packet.from \in Node(topology) /\ packet.at \in Node(topology) /\ t \in Node(topology)
        /\ packet.source.node = packet.from /\ packet.hops \in Nat /\ packet.back \in BOOLEAN
        /\ Far(packet.from, t) < Infinite
        /\ packet.hops + Far(packet.at, t) = Far(packet.from, t)

EcmpInv ==
    /\ topology \in TopologyFiles
    /\ \/ phase = "parsing" /\ packet = NoPacket /\ interfaces = <<>> /\ ifIdxs = <<>>
       \/ phase = "links" /\ packet = NoPacket /\ TopologyAccepted(topology) /\ Wired
       \/ /\ phase = "distances" /\ packet = NoPacket /\ TopologyAccepted(topology) /\ AllWired
          /\ ~ NumNodes(topology) > MaxNodes
          /\ k \in Nat /\ k <= NumNodes(topology)
          /\ Relaxed(dist, k, Node(topology), Links(topology))
       \/ /\ phase = "running" /\ TopologyAccepted(topology) /\ AllWired /\ Ready
          /\ packet = NoPacket \/ Underway
       \/ phase = "crashed" /\ packet.state = "failed" /\ ~ Connected(topology, packet.at, packet.target)
       \/ /\ phase = "refused" /\ packet = NoPacket
          /\ \/ interfaces = <<>>
             \/ /\ EdgesDone = Cardinality(Edges(topology))
                /\ candidates # <<>> \/ NumNodes(topology) > MaxNodes

(* It holds at first. *)
LEMMA EcmpInvInit == Init => EcmpInv
BY DEF Init, EcmpInv

(* The constructor has read the file. *)
LEMMA EcmpInvParse == EcmpInv /\ ParseTopology => EcmpInv'
<1> SUFFICES ASSUME EcmpInv, ParseTopology PROVE EcmpInv' OBVIOUS
<1>1. /\ phase = "parsing" /\ packet = NoPacket /\ interfaces = <<>> /\ ifIdxs = <<>>
      /\ topology \in TopologyFiles
  BY DEF EcmpInv, ParseTopology
<1>2. topology' = topology /\ packet' = packet /\ ifIdxs' = ifIdxs BY DEF ParseTopology
<1>3. CASE TopologyAccepted(topology)
  <2>1. phase' = "links" /\ interfaces' = [n \in Node(topology) |-> <<>>]
    BY <1>3 DEF ParseTopology
  <2>2. EdgesDone' = 0 BY <1>1, <1>2 DEF EdgesDone
  <2>3. Cardinality(Edges(topology)) \in Nat BY <1>1, <1>3, UndirectedEdgesFacts
  <2>4. \A n \in Node(topology) : interfaces'[n] \in Seq(Nat) BY <2>1
  <2>5. ifIdxs' \in Seq(Nat \X Nat) BY <1>1, <1>2
  <2>6. \A i \in 1..EdgesDone' : FALSE BY <2>2
  <2>7. Wired' BY <1>2, <2>1, <2>2, <2>3, <2>4, <2>5, <2>6 DEF Wired
  <2> QED BY <1>1, <1>2, <1>3, <2>1, <2>7 DEF EcmpInv
<1>4. CASE ~ TopologyAccepted(topology)
  <2>1. phase' = "refused" /\ interfaces' = interfaces BY <1>4 DEF ParseTopology
  <2> QED BY <1>1, <1>2, <2>1 DEF EcmpInv
<1> QED BY <1>3, <1>4

(* A link more is installed. *)
LEMMA EcmpInvSetupLink == EcmpInv /\ SetupLink => EcmpInv'
<1> SUFFICES ASSUME EcmpInv, SetupLink PROVE EcmpInv' OBVIOUS
<1> DEFINE i == EdgesDone + 1
           e == UndirectedEdges(topology)[i]
           E == Edges(topology)
<1>1. /\ phase = "links" /\ packet = NoPacket /\ TopologyAccepted(topology) /\ Wired
      /\ topology \in TopologyFiles /\ EdgesDone < Cardinality(E)
  BY DEF EcmpInv, SetupLink
<1>2. topology' = topology /\ packet' = packet BY DEF SetupLink
<1>3. /\ Cardinality(E) \in Nat
      /\ \A x \in 1..Cardinality(E) : UndirectedEdges(topology)[x] \in E
  BY <1>1, UndirectedEdgesFacts
<1>4. EdgesDone \in Nat BY <1>1 DEF Wired, EdgesDone
<1>5. i \in 1..Cardinality(E) /\ e \in E BY <1>1, <1>3, <1>4
<1>6. HasProperties(e)
  <2>1. e \in Links(topology) /\ <<e[2], e[1]>> \in Links(topology) BY <1>5 DEF Links
  <2> QED BY <1>1, <1>5, <2>1, AcceptedProperties DEF HasProperties
<1>7. \A d \in E : d[1] \in Node(topology) /\ d[2] \in Node(topology) /\ d[1] # d[2]
  <2> TAKE d \in E
  <2>1. d[1] \in Node(topology) /\ d[2] \in Node(topology) /\ d[1] < d[2] BY <1>1, AcceptedGraph
  <2>2. d[1] \in Int /\ d[2] \in Int BY <2>1 DEF Node
  <2> QED BY <2>1, <2>2
<1>8. /\ interfaces' = [n \in Node(topology) |->
                          IF n \in {e[1], e[2]} THEN Append(interfaces[n], i) ELSE interfaces[n]]
      /\ ifIdxs' = Append(ifIdxs, <<Len(interfaces'[e[1]]), Len(interfaces'[e[2]])>>)
      /\ phase' = phase
  BY <1>6 DEF SetupLink
<1> HIDE DEF e, i, E
<1>9. \A n \in Node(topology) : interfaces[n] \in Seq(Nat) BY <1>1 DEF Wired
<1>10. i \in Nat /\ i = EdgesDone + 1 BY <1>4 DEF i
<1>11. ASSUME NEW n \in Node(topology)
       PROVE  /\ interfaces'[n] \in Seq(Nat)
              /\ DOMAIN interfaces[n] \subseteq DOMAIN interfaces'[n]
              /\ \A x \in DOMAIN interfaces[n] : interfaces'[n][x] = interfaces[n][x]
              /\ n \in {e[1], e[2]} =>
                   /\ Len(interfaces'[n]) \in Nat /\ Len(interfaces'[n]) \in DOMAIN interfaces'[n]
                   /\ interfaces'[n][Len(interfaces'[n])] = i
  <2>1. PICK s \in Seq(Nat) : s = interfaces[n] BY <1>9
  <2>2. interfaces'[n] = IF n \in {e[1], e[2]} THEN Append(s, i) ELSE s BY <1>8, <2>1
  <2>3. /\ Append(s, i) \in Seq(Nat) /\ Len(Append(s, i)) = Len(s) + 1 /\ Len(s) \in Nat
        /\ \A x \in 1..Len(s) : Append(s, i)[x] = s[x]
        /\ Append(s, i)[Len(s) + 1] = i
        /\ DOMAIN Append(s, i) = 1..(Len(s) + 1) /\ DOMAIN s = 1..Len(s)
    BY <1>10
  <2>4. Len(s) + 1 \in 1..(Len(s) + 1) /\ 1..Len(s) \subseteq 1..(Len(s) + 1) BY <2>3
  <2>5. CASE n \in {e[1], e[2]} BY <2>1, <2>2, <2>3, <2>4, <2>5
  <2>6. CASE n \notin {e[1], e[2]} BY <2>1, <2>2, <2>6
  <2> QED BY <2>5, <2>6
<1>12. Wired'
  <2>1. DOMAIN interfaces' = Node(topology') BY <1>2, <1>8
  <2>2. \A n \in Node(topology') : interfaces'[n] \in Seq(Nat) BY <1>2, <1>11
  <2>3. e[1] \in Node(topology) /\ e[2] \in Node(topology) BY <1>5, <1>7
  <2> DEFINE new == <<Len(interfaces'[e[1]]), Len(interfaces'[e[2]])>>
  <2>4. new \in Nat \X Nat BY <1>11, <2>3
  <2>5. ifIdxs \in Seq(Nat \X Nat) BY <1>1 DEF Wired
  <2>6. /\ ifIdxs' \in Seq(Nat \X Nat) /\ EdgesDone' = EdgesDone + 1
        /\ \A x \in 1..EdgesDone : ifIdxs'[x] = ifIdxs[x]
        /\ ifIdxs'[EdgesDone + 1] = new
    <3> HIDE DEF new
    <3>1. ifIdxs' = Append(ifIdxs, new) BY <1>8 DEF new
    <3>2. PICK s : s = ifIdxs OBVIOUS
    <3>3. s \in Seq(Nat \X Nat) /\ Len(s) = EdgesDone BY <2>5, <3>2 DEF EdgesDone
    <3>4. /\ Append(s, new) \in Seq(Nat \X Nat) /\ Len(Append(s, new)) = Len(s) + 1
          /\ \A x \in 1..Len(s) : Append(s, new)[x] = s[x]
          /\ Append(s, new)[Len(s) + 1] = new
      <4> DEFINE P == Nat \X Nat
      <4> HIDE DEF P
      <4>1. s \in Seq(P) /\ new \in P BY <2>4, <3>3 DEF P
      <4>2. /\ Append(s, new) \in Seq(P) /\ Len(Append(s, new)) = Len(s) + 1
            /\ \A x \in 1..Len(s) : Append(s, new)[x] = s[x]
            /\ Append(s, new)[Len(s) + 1] = new
        BY <4>1
      <4> QED BY <4>2 DEF P
    <3> QED BY <3>1, <3>2, <3>3, <3>4 DEF EdgesDone
  <2>7. EdgesDone' <= Cardinality(Edges(topology')) BY <1>2, <1>5, <1>10, <2>6 DEF E
  <2>8. ASSUME NEW x \in 1..EdgesDone'
        PROVE  LET d == UndirectedEdges(topology')[x]
               IN  /\ ifIdxs'[x][1] \in DOMAIN interfaces'[d[1]] /\ interfaces'[d[1]][ifIdxs'[x][1]] = x
                   /\ ifIdxs'[x][2] \in DOMAIN interfaces'[d[2]] /\ interfaces'[d[2]][ifIdxs'[x][2]] = x
    <3> DEFINE d == UndirectedEdges(topology)[x]
    <3>1. CASE x = EdgesDone + 1
      <4>1. x = i /\ d = e BY <1>10, <3>1 DEF e
      <4>2. ifIdxs'[x] = new BY <2>6, <3>1
      <4>3. ifIdxs'[x][1] = Len(interfaces'[e[1]]) /\ ifIdxs'[x][2] = Len(interfaces'[e[2]]) BY <4>2
      <4>4. /\ ifIdxs'[x][1] \in DOMAIN interfaces'[e[1]] /\ interfaces'[e[1]][ifIdxs'[x][1]] = i
            /\ ifIdxs'[x][2] \in DOMAIN interfaces'[e[2]] /\ interfaces'[e[2]][ifIdxs'[x][2]] = i
        BY <1>11, <2>3, <4>3
      <4> QED BY <1>2, <4>1, <4>4
    <3>2. CASE x # EdgesDone + 1
      <4>1. x \in 1..EdgesDone BY <1>4, <2>6, <3>2
      <4>2. /\ ifIdxs[x][1] \in DOMAIN interfaces[d[1]] /\ interfaces[d[1]][ifIdxs[x][1]] = x
            /\ ifIdxs[x][2] \in DOMAIN interfaces[d[2]] /\ interfaces[d[2]][ifIdxs[x][2]] = x
        BY <1>1, <4>1 DEF Wired
      <4>3. d \in E
        <5>1. x \in 1..Cardinality(E) BY <1>1, <1>3, <1>4, <4>1
        <5> QED BY <1>3, <5>1
      <4>4. d[1] \in Node(topology) /\ d[2] \in Node(topology) BY <1>7, <4>3
      <4>5. ifIdxs'[x] = ifIdxs[x] BY <2>6, <4>1
      <4>6. /\ ifIdxs[x][1] \in DOMAIN interfaces'[d[1]] /\ interfaces'[d[1]][ifIdxs[x][1]] = x
            /\ ifIdxs[x][2] \in DOMAIN interfaces'[d[2]] /\ interfaces'[d[2]][ifIdxs[x][2]] = x
        <5> HIDE DEF d
        <5> QED BY <1>11, <4>2, <4>4
      <4> QED BY <1>2, <4>5, <4>6
    <3> QED BY <3>1, <3>2
  <2> QED BY <2>1, <2>2, <2>6, <2>7, <2>8 DEF Wired
<1> QED BY <1>1, <1>2, <1>8, <1>12 DEF EcmpInv

(* The rounds of the algorithm, and the next hops computed from its result. *)
LEMMA EcmpInvDistances == EcmpInv /\ (StartDistances \/ RelaxAll \/ InstallArbiters) => EcmpInv'
<1> SUFFICES ASSUME EcmpInv, StartDistances \/ RelaxAll \/ InstallArbiters PROVE EcmpInv' OBVIOUS
<1>1. CASE StartDistances
  <2>1. /\ phase = "links" /\ packet = NoPacket /\ TopologyAccepted(topology) /\ AllWired
        /\ topology \in TopologyFiles
    BY <1>1 DEF EcmpInv, StartDistances, AllWired
  <2>2. Relaxed(InitialDistance(topology), 0, Node(topology), Links(topology))
    BY <2>1, InitialIsRelaxed
  <2>3. topology' = topology /\ interfaces' = interfaces /\ ifIdxs' = ifIdxs /\ packet' = packet
    BY <1>1 DEF StartDistances
  <2>4. AllWired' BY <2>1, <2>3 DEF AllWired, Wired, EdgesDone
  <2>5. NumNodes(topology) \in Nat BY <2>1, AcceptedGraph
  <2>6. CASE NumNodes(topology) > MaxNodes
    <3>1. phase' = "refused" BY <1>1, <2>6 DEF StartDistances
    <3>2. EdgesDone' = Cardinality(Edges(topology)) BY <2>1, <2>3 DEF AllWired, EdgesDone
    <3> QED BY <2>1, <2>3, <2>6, <3>1, <3>2 DEF EcmpInv
  <2>7. CASE ~ NumNodes(topology) > MaxNodes
    <3>1. phase' = "distances" /\ dist' = InitialDistance(topology) /\ k' = 0
      BY <1>1, <2>7 DEF StartDistances
    <3> QED BY <2>1, <2>2, <2>3, <2>4, <2>5, <2>7, <3>1 DEF EcmpInv
  <2> QED BY <2>6, <2>7
<1>2. CASE RelaxAll
  <2>1. /\ phase = "distances" /\ packet = NoPacket /\ TopologyAccepted(topology) /\ AllWired
        /\ topology \in TopologyFiles /\ k \in Nat /\ k < NumNodes(topology)
        /\ ~ NumNodes(topology) > MaxNodes
        /\ Relaxed(dist, k, Node(topology), Links(topology))
    BY <1>2 DEF EcmpInv, RelaxAll
  <2>2. /\ k' = k + 1 /\ phase' = phase /\ topology' = topology /\ interfaces' = interfaces
        /\ ifIdxs' = ifIdxs /\ packet' = packet
        /\ dist' = [p \in DOMAIN dist |->
                      LET via == dist[<<p[1], k>>] + dist[<<k, p[2]>>]
                      IN  IF dist[p] > via THEN via ELSE dist[p]]
    BY <1>2 DEF RelaxAll
  <2>3. Relaxed(dist', k + 1, Node(topology), Links(topology))
    BY <2>1, <2>2, RoundRelaxes
  <2>4. AllWired' BY <2>1, <2>2 DEF AllWired, Wired, EdgesDone
  <2>5. NumNodes(topology) \in Nat BY <2>1, AcceptedGraph
  <2>6. k + 1 \in Nat /\ k + 1 <= NumNodes(topology) BY <2>1, <2>5
  <2> QED BY <2>1, <2>2, <2>3, <2>4, <2>6 DEF EcmpInv
<1>3. CASE InstallArbiters
  <2>1. /\ phase = "distances" /\ packet = NoPacket /\ TopologyAccepted(topology) /\ AllWired
        /\ topology \in TopologyFiles /\ k = NumNodes(topology)
        /\ ~ NumNodes(topology) > MaxNodes
        /\ Relaxed(dist, k, Node(topology), Links(topology))
    BY <1>3 DEF EcmpInv, InstallArbiters
  <2>2. /\ phase' = "running" /\ candidates' = CandidatesOf(topology, dist) /\ topology' = topology
        /\ interfaces' = interfaces /\ ifIdxs' = ifIdxs /\ dist' = dist /\ packet' = packet
    BY <1>3 DEF InstallArbiters
  <2>3. Shortest(dist, NumNodes(topology), Links(topology))
    <3>1. IsGraph(NumNodes(topology), Links(topology)) /\ NumNodes(topology) \in Nat
      BY <2>1, AcceptedGraph
    <3>2. NumNodes(topology) < Infinite BY <2>1, <3>1, NodesAssumption, InfiniteIsLarge
    <3> QED BY <2>1, <3>1, <3>2 DEF Shortest, Node
  <2>4. AllWired' BY <2>1, <2>2 DEF AllWired, Wired, EdgesDone
  <2>5. Ready' BY <2>2, <2>3 DEF Ready
  <2> QED BY <2>1, <2>2, <2>4, <2>5 DEF EcmpInv
<1> QED BY <1>1, <1>2, <1>3

-----------------------------------------------------------------------------
(***************************************************************************)
(* The packet's steps keep the invariant.                                  *)
(***************************************************************************)
(* What leaves by the interface towards a neighbour arrives there. *)
LEMMA HopArrives ==
    ASSUME topology \in TopologyFiles, TopologyAccepted(topology), AllWired,
           NEW n, NEW m, <<n, m>> \in Links(topology)
    PROVE  OtherEnd(n, InterfaceTo(n, m)) = m
<1> DEFINE U(x) == UndirectedEdges(topology)[x]
           E == Edges(topology)
<1>1. /\ Cardinality(E) \in Nat
      /\ \A x \in 1..Cardinality(E) : U(x) \in E
      /\ \A e \in E : \E x \in 1..Cardinality(E) : U(x) = e
  BY UndirectedEdgesFacts
<1>2. EdgesDone = Cardinality(E) BY DEF AllWired
<1>3. \A e \in E : e = <<e[1], e[2]>> /\ e[1] # e[2]
  <2> TAKE e \in E
  <2>1. e = <<e[1], e[2]>> /\ e[1] \in Node(topology) /\ e[2] \in Node(topology) /\ e[1] < e[2]
    BY AcceptedGraph
  <2>2. e[1] \in Int /\ e[2] \in Int BY <2>1 DEF Node
  <2> QED BY <2>1, <2>2
<1>4. \A x, y : SetOf(<<x, y>>) = {x, y}
  <2>1. \A x, y : DOMAIN <<x, y>> = {1, 2} OBVIOUS
  <2> QED BY <2>1 DEF SetOf
<1>5. \A e \in E : SetOf(e) = {e[1], e[2]} BY <1>3, <1>4
<1>6. \E x \in 1..EdgesDone : {n, m} = SetOf(U(x))
  <2>1. PICK e \in E : <<n, m>> = e \/ <<n, m>> = <<e[2], e[1]>> BY DEF Links
  <2>2. {n, m} = {e[1], e[2]} BY <2>1
  <2>3. {n, m} = SetOf(e) BY <1>5, <2>2
  <2> HIDE DEF U, E
  <2> QED BY <1>1, <1>2, <2>3
<1> DEFINE i == CHOOSE x \in 1..EdgesDone : {n, m} = SetOf(U(x))
<1> HIDE DEF U
<1>7. i \in 1..EdgesDone /\ {n, m} = SetOf(U(i)) BY <1>6
<1>8. InterfaceTo(n, m) = IF U(i)[1] = n THEN ifIdxs[i][1] ELSE ifIdxs[i][2]
  BY DEF InterfaceTo, U
<1> HIDE DEF i
<1>9. U(i) \in E BY <1>1, <1>2, <1>7
<1>10. {n, m} = {U(i)[1], U(i)[2]} /\ U(i)[1] # U(i)[2] BY <1>3, <1>5, <1>7, <1>9
<1>11. n # m BY <1>10
<1>12. /\ interfaces[U(i)[1]][ifIdxs[i][1]] = i
       /\ interfaces[U(i)[2]][ifIdxs[i][2]] = i
  BY <1>7 DEF AllWired, Wired, U
<1>13. interfaces[n][InterfaceTo(n, m)] = i
  <2>1. CASE U(i)[1] = n BY <1>8, <1>12, <2>1
  <2>2. CASE U(i)[1] # n
    <3>1. U(i)[2] = n BY <1>10, <2>2
    <3> QED BY <1>8, <1>12, <2>2, <3>1
  <2> QED BY <2>1, <2>2
<1>14. OtherEnd(n, InterfaceTo(n, m)) = CHOOSE x \in {n, m} : x # n
  BY <1>7, <1>13 DEF OtherEnd, U
<1> QED BY <1>11, <1>14

(* A node with a path to another one has an interface. *)
LEMMA ConnectedHasInterface ==
    ASSUME topology \in TopologyFiles, TopologyAccepted(topology), AllWired, Ready,
           NEW a \in Node(topology), NEW b \in Node(topology), a # b, Connected(topology, a, b)
    PROVE  interfaces[b] # <<>>
<1> DEFINE n == NumNodes(topology)
           L == Links(topology)
           E == Edges(topology)
<1>1. Shortest(dist, n, L) /\ a \in 0..(n - 1) /\ b \in 0..(n - 1) BY DEF Ready, Node
<1>2. dist[<<a, b>>] < Infinite BY <1>1, DistanceIsShortest
<1>3. dist[<<b, a>>] < Infinite
  <2>1. dist[<<a, b>>] = dist[<<b, a>>] BY <1>1, ShortestBothWays
  <2> QED BY <1>2, <2>1
<1>4. PICK m \in 0..(n - 1) : <<b, m>> \in L BY <1>1, <1>3, NextOnShortest
<1>5. PICK e \in E : <<b, m>> = e \/ <<b, m>> = <<e[2], e[1]>> BY <1>4 DEF Links
<1>6. b = e[1] \/ b = e[2] BY <1>5
<1>7. PICK i \in 1..EdgesDone : UndirectedEdges(topology)[i] = e
  BY UndirectedEdgesFacts DEF AllWired
<1>8. /\ ifIdxs[i][1] \in DOMAIN interfaces[e[1]]
      /\ ifIdxs[i][2] \in DOMAIN interfaces[e[2]]
  BY <1>7 DEF AllWired, Wired
<1>9. \E x : x \in DOMAIN interfaces[b] BY <1>6, <1>8
<1>10. \A x : x \notin DOMAIN <<>> OBVIOUS
<1> QED BY <1>9, <1>10

(* A packet sets out, or its route cannot be found. *)
LEMMA EcmpInvSend == ASSUME EcmpInv, NEW s, NEW t, Send(s, t) PROVE EcmpInv'
<1> DEFINE n == NumNodes(topology)
<1>1. /\ phase = "running" /\ packet = NoPacket /\ TopologyAccepted(topology) /\ AllWired /\ Ready
      /\ topology \in TopologyFiles
  BY DEF EcmpInv, Send
<1>2. UNCHANGED network BY DEF Send
<1>3. /\ topology' = topology /\ interfaces' = interfaces /\ ifIdxs' = ifIdxs /\ dist' = dist
      /\ candidates' = candidates
  BY <1>2 DEF network
<1>4. AllWired' /\ Ready' BY <1>1, <1>3 DEF AllWired, Wired, EdgesDone, Ready
<1>5. Shortest(dist, n, Links(topology)) BY <1>1 DEF Ready
<1> DEFINE valid == IsValidEndpoint(topology, s) /\ IsValidEndpoint(topology, t) /\ s # t
           able == {s, t} \subseteq Node(topology) /\ interfaces[t] # <<>> /\ TopologyPtopDecide(s, t) # {}
<1>6. CASE ~ valid
  <2>1. phase' = "refused" /\ packet' = packet BY <1>6 DEF Send
  <2>2. interfaces = <<>> \/ candidates # <<>>
    <3>1. DOMAIN interfaces = Node(topology) BY <1>1 DEF AllWired, Wired
    <3>2. DOMAIN candidates = Node(topology) BY <1>1 DEF Ready, CandidatesOf
    <3>3. CASE Node(topology) = {}
      <4>1. interfaces = [x \in {} |-> interfaces[x]]
        <5>1. PICK f : f = interfaces OBVIOUS
        <5> QED BY <3>1, <3>3
      <4> QED BY <4>1
    <3>4. CASE Node(topology) # {}
      <4>1. DOMAIN <<>> = {} OBVIOUS
      <4> QED BY <3>2, <3>4, <4>1
    <3> QED BY <3>3, <3>4
  <2>3. EdgesDone' = Cardinality(Edges(topology)) BY <1>1, <1>3 DEF AllWired, EdgesDone
  <2> QED BY <1>1, <1>3, <2>1, <2>2, <2>3 DEF EcmpInv
<1>7. CASE valid /\ able
  <2>1. PICK next \in TopologyPtopDecide(s, t) :
          packet' = Packet(s, Address(s, InterfaceTo(s, next)), Address(t, 1), FALSE)
    BY <1>7 DEF Send
  <2>2. phase' = phase BY <1>7 DEF Send
  <2>3. s \in Node(topology) /\ t \in Node(topology) BY <1>7
  <2>4. next \in CandidatesOf(topology, dist)[s][t] BY <1>1 DEF TopologyPtopDecide, Ready
  <2>5. Connected(topology, s, t) BY <1>1, <1>5, <2>3, <2>4, CandidatesFacts
  <2>6. dist[<<s, t>>] < Infinite BY <1>1, <1>5, <2>3, <2>5, DistanceIsShortest
  <2>7. dist[<<s, t>>] \in Nat BY <1>5, <2>3, ShortestIsNat DEF Node
  <2>8. Underway'
    <3>1. PICK from : from = Address(s, InterfaceTo(s, next)) OBVIOUS
    <3>2. PICK to : to = Address(t, 1) OBVIOUS
    <3>3. from.node = s /\ to.node = t BY <3>1, <3>2 DEF Address
    <3>4. packet' = [state |-> "travels", from |-> s, at |-> s, source |-> from, destination |-> to,
                     back |-> FALSE, hops |-> 0, spent |-> 0]
      BY <2>1, <3>1, <3>2 DEF Packet
    <3>5. packet' = PacketOf(packet') BY <3>4 DEF PacketOf
    <3>6. 0 + dist[<<s, t>>] = dist[<<s, t>>] BY <2>7
    <3> QED BY <1>3, <2>3, <2>6, <3>3, <3>4, <3>5, <3>6 DEF Underway, Far
  <2> QED BY <1>1, <1>3, <1>4, <2>2, <2>8 DEF EcmpInv
<1>8. CASE valid /\ ~ able
  <2>1. phase' = "crashed" /\ packet' = Failed(s, t) BY <1>8 DEF Send
  <2>2. ~ Connected(topology, s, t)
    <3> SUFFICES ASSUME Connected(topology, s, t) PROVE FALSE OBVIOUS
    <3>1. s \in Node(topology) /\ t \in Node(topology) /\ s # t BY <1>8 DEF Connected
    <3>2. interfaces[t] # <<>> BY <1>1, <3>1, ConnectedHasInterface
    <3>3. CandidatesOf(topology, dist)[s][t] # {} BY <1>1, <1>5, <3>1, CandidatesExist
    <3>4. TopologyPtopDecide(s, t) # {} BY <1>1, <3>3 DEF TopologyPtopDecide, Ready
    <3> QED BY <1>8, <3>1, <3>2, <3>4
  <2>3. packet'.state = "failed" /\ packet'.at = s /\ packet'.target = t BY <2>1 DEF Failed
  <2> QED BY <1>1, <1>3, <2>1, <2>2, <2>3 DEF EcmpInv
<1> QED BY <1>6, <1>7, <1>8

(* On its way a packet always finds a next hop. *)
LEMMA UnderwayHasNext ==
    ASSUME topology \in TopologyFiles, TopologyAccepted(topology), Ready, Underway,
           packet.at # packet.destination.node
    PROVE  LET t == packet.destination.node
           IN  /\ TopologyPtopDecide(packet.at, t) # {}
               /\ \A next \in TopologyPtopDecide(packet.at, t) :
                    /\ next \in Node(topology) /\ <<packet.at, next>> \in Links(topology)
                    /\ Far(packet.at, t) - 1 = Far(next, t)
<1> DEFINE t == packet.destination.node
           a == packet.at
           n == NumNodes(topology)
<1>1. /\ a \in Node(topology) /\ t \in Node(topology) /\ packet.from \in Node(topology)
      /\ packet.hops \in Nat /\ Far(packet.from, t) < Infinite
      /\ packet.hops + Far(a, t) = Far(packet.from, t)
  BY DEF Underway
<1>2. Shortest(dist, n, Links(topology)) /\ candidates = CandidatesOf(topology, dist) BY DEF Ready
<1>3. PICK x \in Nat : x = dist[<<a, t>>] BY <1>1, <1>2, ShortestIsNat DEF Node
<1>4. PICK y \in Nat : y = dist[<<packet.from, t>>] BY <1>1, <1>2, ShortestIsNat DEF Node
<1>5. x < Infinite
  <2>1. PICK h \in Nat : h = packet.hops BY <1>1
  <2>2. h + x = y /\ y < Infinite BY <1>1, <1>3, <1>4, <2>1 DEF Far
  <2> QED BY ONLY <2>2, x \in Nat, y \in Nat, h \in Nat, InfiniteIsLarge
<1>6. Connected(topology, a, t) BY <1>1, <1>2, <1>3, <1>5, DistanceIsShortest
<1>7. TopologyPtopDecide(a, t) = CandidatesOf(topology, dist)[a][t] BY <1>2 DEF TopologyPtopDecide
<1>8. CandidatesOf(topology, dist)[a][t] # {} BY <1>1, <1>2, <1>6, CandidatesExist
<1>9. \A b \in CandidatesOf(topology, dist)[a][t] :
        b \in Node(topology) /\ <<a, b>> \in Links(topology) /\ dist[<<a, t>>] - 1 = dist[<<b, t>>]
  BY <1>1, <1>2, CandidatesAreNearer
<1> QED BY <1>7, <1>8, <1>9 DEF Far

(* A hop: the packet is at a neighbour, and nothing else of it has changed. *)
LEMMA RouteMoves ==
    ASSUME EcmpInv, Route
    PROVE  LET t == packet.destination.node
           IN  \E next \in Node(topology) :
                 /\ <<packet.at, next>> \in Links(topology)
                 /\ Far(packet.at, t) - 1 = Far(next, t)
                 /\ packet' = [state |-> packet.state, from |-> packet.from, at |-> next,
                               source |-> packet.source, destination |-> packet.destination,
                               back |-> packet.back, hops |-> packet.hops + 1,
                               spent |-> packet.spent + LongestTime(packet.at, next)]
                 /\ phase' = phase
<1> DEFINE t == packet.destination.node
<1>0. phase = "running" /\ packet.state = "travels" BY DEF Route
<1>1. /\ TopologyAccepted(topology) /\ AllWired /\ Ready /\ Underway
      /\ topology \in TopologyFiles
  BY <1>0 DEF EcmpInv, NoPacket
<1>5. packet.at # t BY DEF Route, ResolveNodeIdFromIp
<1>6. TopologyPtopDecide(packet.at, t) # {} BY <1>1, <1>5, UnderwayHasNext
<1>7. (\E next \in TopologyPtopDecide(packet.at, t) : Hop(packet.at, next)) /\ phase' = phase
  BY <1>6 DEF Route, ResolveNodeIdFromIp
<1>8. PICK next \in TopologyPtopDecide(packet.at, t) : Hop(packet.at, next) BY <1>7
<1>9. /\ next \in Node(topology) /\ <<packet.at, next>> \in Links(topology)
      /\ Far(packet.at, t) - 1 = Far(next, t)
  BY <1>1, <1>5, UnderwayHasNext
<1>10. packet' = [packet EXCEPT !.at = next, !.hops = packet.hops + 1,
                                !.spent = packet.spent + LongestTime(packet.at, next)]
  <2>1. OtherEnd(packet.at, InterfaceTo(packet.at, next)) = next BY <1>1, <1>9, HopArrives
  <2> QED BY <1>8, <2>1 DEF Hop
<1>11. packet' = [state |-> packet.state, from |-> packet.from, at |-> next, source |-> packet.source,
                  destination |-> packet.destination, back |-> packet.back, hops |-> packet.hops + 1,
                  spent |-> packet.spent + LongestTime(packet.at, next)]
  <2>1. PICK new : new = packet.spent + LongestTime(packet.at, next) OBVIOUS
  <2>2. packet = PacketOf(packet) BY <1>1 DEF Underway
  <2>3. packet' = [packet EXCEPT !.at = next, !.hops = packet.hops + 1, !.spent = new] BY <1>10, <2>1
  <2>4. packet' = [state |-> packet.state, from |-> packet.from, at |-> next, source |-> packet.source,
                   destination |-> packet.destination, back |-> packet.back, hops |-> packet.hops + 1,
                   spent |-> new]
    BY ONLY <2>2, <2>3 DEF PacketOf
  <2> QED BY <2>1, <2>4
<1> QED BY <1>7, <1>9, <1>11

(* So a hop keeps it, *)
LEMMA EcmpInvRoute == EcmpInv /\ Route => EcmpInv'
<1> SUFFICES ASSUME EcmpInv, Route PROVE EcmpInv' OBVIOUS
<1> DEFINE t == packet.destination.node
<1>0. phase = "running" /\ packet.state = "travels" BY DEF Route
<1>1. /\ TopologyAccepted(topology) /\ AllWired /\ Ready /\ Underway
      /\ topology \in TopologyFiles
  BY <1>0 DEF EcmpInv, NoPacket
<1>2. UNCHANGED network BY DEF Route
<1>3. /\ topology' = topology /\ interfaces' = interfaces /\ ifIdxs' = ifIdxs /\ dist' = dist
      /\ candidates' = candidates
  BY <1>2 DEF network
<1>4. AllWired' /\ Ready' BY <1>1, <1>3 DEF AllWired, Wired, EdgesDone, Ready
<1>5. PICK next \in Node(topology) :
        /\ <<packet.at, next>> \in Links(topology)
        /\ Far(packet.at, t) - 1 = Far(next, t)
        /\ packet' = [state |-> packet.state, from |-> packet.from, at |-> next,
                      source |-> packet.source, destination |-> packet.destination,
                      back |-> packet.back, hops |-> packet.hops + 1,
                      spent |-> packet.spent + LongestTime(packet.at, next)]
        /\ phase' = phase
  BY RouteMoves
<1>6. Underway'
  <2>1. packet' = PacketOf(packet') BY <1>5 DEF PacketOf
  <2>2. packet.hops \in Nat /\ packet.hops + Far(packet.at, t) = Far(packet.from, t)
    BY <1>1 DEF Underway
  <2>3. Far(packet.at, t) \in Nat
    <3>1. packet.at \in Node(topology) /\ t \in Node(topology) BY <1>1 DEF Underway
    <3> QED BY <1>1, <3>1, ShortestIsNat DEF Ready, Far, Node
  <2>4. packet.hops + 1 \in Nat /\ (packet.hops + 1) + Far(next, t) = Far(packet.from, t)
    <3>1. PICK h \in Nat : h = packet.hops BY <2>2
    <3>2. PICK x \in Nat : x = Far(packet.at, t) BY <2>3
    <3>3. Far(next, t) = x - 1 /\ h + x = Far(packet.from, t) BY <1>5, <2>2, <3>1, <3>2
    <3>4. (h + 1) + (x - 1) = h + x /\ h + 1 \in Nat OBVIOUS
    <3> QED BY <3>1, <3>3, <3>4
  <2> QED BY <1>1, <1>3, <1>5, <2>1, <2>4 DEF Underway, Far
<1> QED BY <1>0, <1>1, <1>3, <1>4, <1>5, <1>6 DEF EcmpInv

(* A packet that arrives turns back, or is done. *)
LEMMA DeliverTurns ==
    ASSUME EcmpInv, Deliver
    PROVE  LET t == packet.destination.node
           IN  /\ packet.at = t /\ phase' = phase
               /\ packet.back =>
                    packet' = [state |-> "done", from |-> packet.from, at |-> packet.at,
                               source |-> packet.source, destination |-> packet.destination,
                               back |-> packet.back, hops |-> packet.hops, spent |-> packet.spent]
               /\ ~ packet.back =>
                    packet' = [state |-> packet.state, from |-> packet.at, at |-> packet.at,
                               source |-> packet.destination, destination |-> packet.source,
                               back |-> TRUE, hops |-> 0, spent |-> packet.spent]
<1>0. phase = "running" /\ packet.state = "travels" BY DEF Deliver
<1>1. packet = PacketOf(packet) BY <1>0 DEF EcmpInv, NoPacket, Underway
<1>2. packet.at = packet.destination.node /\ phase' = phase BY DEF Deliver, ResolveNodeIdFromIp
<1>3. ASSUME packet.back
      PROVE  packet' = [state |-> "done", from |-> packet.from, at |-> packet.at,
                        source |-> packet.source, destination |-> packet.destination,
                        back |-> packet.back, hops |-> packet.hops, spent |-> packet.spent]
  <2>1. packet' = [packet EXCEPT !.state = "done"] BY <1>3 DEF Deliver
  <2> QED BY ONLY <1>1, <2>1 DEF PacketOf
<1>4. ASSUME ~ packet.back
      PROVE  packet' = [state |-> packet.state, from |-> packet.at, at |-> packet.at,
                        source |-> packet.destination, destination |-> packet.source,
                        back |-> TRUE, hops |-> 0, spent |-> packet.spent]
  <2>1. packet' = [packet EXCEPT !.back = TRUE, !.from = packet.at, !.hops = 0,
                     !.source = packet.destination, !.destination = packet.source]
    BY <1>4 DEF Deliver
  <2> QED BY ONLY <1>1, <2>1 DEF PacketOf
<1> QED BY <1>2, <1>3, <1>4

(* and an arrival does. *)
LEMMA EcmpInvDeliver == EcmpInv /\ Deliver => EcmpInv'
<1> SUFFICES ASSUME EcmpInv, Deliver PROVE EcmpInv' OBVIOUS
<1> DEFINE t == packet.destination.node
           n == NumNodes(topology)
<1>0. phase = "running" /\ packet.state = "travels" BY DEF Deliver
<1>1. /\ TopologyAccepted(topology) /\ AllWired /\ Ready /\ Underway
      /\ topology \in TopologyFiles
  BY <1>0 DEF EcmpInv, NoPacket
<1>2. UNCHANGED network /\ phase' = phase BY DEF Deliver
<1>3. /\ topology' = topology /\ interfaces' = interfaces /\ ifIdxs' = ifIdxs /\ dist' = dist
      /\ candidates' = candidates
  BY <1>2 DEF network
<1>4. AllWired' /\ Ready' BY <1>1, <1>3 DEF AllWired, Wired, EdgesDone, Ready
<1>5. packet.at = t BY DeliverTurns
<1>6. Shortest(dist, n, Links(topology)) BY <1>1 DEF Ready
<1>7. Underway'
  <2>1. CASE packet.back
    <3>1. packet' = [state |-> "done", from |-> packet.from, at |-> packet.at, source |-> packet.source,
                     destination |-> packet.destination, back |-> packet.back, hops |-> packet.hops,
                     spent |-> packet.spent]
      BY <2>1, DeliverTurns
    <3>2. packet' = PacketOf(packet') BY <3>1 DEF PacketOf
    <3> QED BY <1>1, <1>3, <3>1, <3>2 DEF Underway, Far
  <2>2. CASE ~ packet.back
    <3>1. packet' = [state |-> packet.state, from |-> packet.at, at |-> packet.at,
                     source |-> packet.destination, destination |-> packet.source, back |-> TRUE,
                     hops |-> 0, spent |-> packet.spent]
      BY <2>2, DeliverTurns
    <3>2. packet' = PacketOf(packet') BY <3>1 DEF PacketOf
    <3>3. packet.from \in Node(topology) /\ t \in Node(topology) /\ packet.source.node = packet.from
          /\ Far(packet.from, t) < Infinite
      BY <1>1 DEF Underway
    <3>4. Far(t, packet.from) = Far(packet.from, t) /\ Far(t, packet.from) \in Nat
      BY <1>6, <3>3, ShortestBothWays, ShortestIsNat DEF Far, Node
    <3>5. 0 + Far(t, packet.from) = Far(t, packet.from) BY <3>4
    <3> QED BY <1>0, <1>3, <1>5, <3>1, <3>2, <3>3, <3>4, <3>5 DEF Underway, Far
  <2> QED BY <2>1, <2>2
<1> QED BY <1>0, <1>1, <1>2, <1>3, <1>4, <1>7 DEF EcmpInv

(* A step that changes nothing keeps it. *)
LEMMA EcmpInvStutter == EcmpInv /\ UNCHANGED vars => EcmpInv'
BY DEF EcmpInv, vars, network, AllWired, Wired, EdgesDone, Ready, Underway, Far

(***************************************************************************)
(* The invariant, of every topology file and every packet.                 *)
(***************************************************************************)
THEOREM EcmpInvHolds == Spec => []EcmpInv
<1>1. EcmpInv /\ [Next]_vars => EcmpInv'
  <2> SUFFICES ASSUME EcmpInv, [Next]_vars PROVE EcmpInv' OBVIOUS
  <2>1. CASE ParseTopology BY <2>1, EcmpInvParse
  <2>2. CASE SetupLink BY <2>2, EcmpInvSetupLink
  <2>3. CASE StartDistances \/ RelaxAll \/ InstallArbiters BY <2>3, EcmpInvDistances
  <2>4. CASE \E s, t \in NodeIds : Send(s, t) BY <2>4, EcmpInvSend
  <2>5. CASE Route BY <2>5, EcmpInvRoute
  <2>6. CASE Deliver BY <2>6, EcmpInvDeliver
  <2>7. CASE UNCHANGED vars BY <2>7, EcmpInvStutter
  <2> QED BY <2>1, <2>2, <2>3, <2>4, <2>5, <2>6, <2>7 DEF Next
<1> QED BY EcmpInvInit, <1>1, PTL DEF Spec

-----------------------------------------------------------------------------
(***************************************************************************)
(* What follows for the packets and for the estimate.                      *)
(***************************************************************************)
(******************************************************************************)
(* The next hops that ArbiterEcmpHelper installs are, at every node and for   *)
(* every target, exactly the neighbours on a shortest way, in every topology. *)
(******************************************************************************)
THEOREM EcmpCandidatesAreShortest == Spec => []CandidatesAreShortest
<1>1. EcmpInv => CandidatesAreShortest
  <2> SUFFICES ASSUME EcmpInv, phase = "running", NEW a \in Node(topology), NEW t \in Node(topology)
               PROVE  candidates[a][t] =
                        IF Connected(topology, a, t)
                        THEN {b \in AdjacencyList(topology, a) :
                                Distance(topology, b, t) + 1 = Distance(topology, a, t)}
                        ELSE {}
    BY DEF CandidatesAreShortest
  <2>1. TopologyAccepted(topology) /\ topology \in TopologyFiles /\ Ready BY DEF EcmpInv
  <2> QED BY <2>1, CandidatesFacts DEF Ready
<1> QED BY <1>1, EcmpInvHolds, PTL

(*********************************************************************************)
(* At every hop of a packet and of its answer the hops done and the distance     *)
(* left make up the distance it set out at: whichever next hops the hashes pick, *)
(* RouteOutput and RouteInput lead along a shortest way and never round a loop.  *)
(*********************************************************************************)
THEOREM EcmpRouteIsShortest == Spec => []RouteIsShortest
<1>1. EcmpInv => RouteIsShortest
  <2> SUFFICES ASSUME EcmpInv, packet.state \in {"travels", "done"}
               PROVE  LET t == packet.destination.node
                      IN  packet.hops + Distance(topology, packet.at, t) = Distance(topology, packet.from, t)
    BY DEF RouteIsShortest
  <2> DEFINE t == packet.destination.node
  <2>1. /\ TopologyAccepted(topology) /\ topology \in TopologyFiles
        /\ Shortest(dist, NumNodes(topology), Links(topology)) /\ Underway
    BY DEF EcmpInv, NoPacket, Ready
  <2>2. /\ packet.at \in Node(topology) /\ packet.from \in Node(topology) /\ t \in Node(topology)
        /\ dist[<<packet.from, t>>] < Infinite /\ packet.hops \in Nat
        /\ packet.hops + dist[<<packet.at, t>>] = dist[<<packet.from, t>>]
    BY <2>1 DEF Underway, Far
  <2>3. PICK x \in Nat : x = dist[<<packet.at, t>>] BY <2>1, <2>2, ShortestIsNat DEF Node
  <2>4. PICK y \in Nat : y = dist[<<packet.from, t>>] BY <2>1, <2>2, ShortestIsNat DEF Node
  <2>5. PICK h \in Nat : h = packet.hops BY <2>2
  <2>6. h + x = y /\ y < Infinite BY <2>2, <2>3, <2>4, <2>5
  <2>7. x < Infinite BY ONLY <2>6, x \in Nat, y \in Nat, h \in Nat, InfiniteIsLarge
  <2>8. Distance(topology, packet.at, t) = x BY <2>1, <2>2, <2>3, <2>7, DistanceIsShortest
  <2>9. Distance(topology, packet.from, t) = y BY <2>1, <2>2, <2>4, <2>6, DistanceIsShortest
  <2> QED BY <2>5, <2>6, <2>8, <2>9
<1> QED BY <1>1, EcmpInvHolds, PTL

(*******************************************************************************)
(* The links of a file that the constructor of TopologyPtop accepts are all    *)
(* installed, every map it reads then has the keys it is asked for; what is    *)
(* refused after that has too many nodes or comes from a schedule.             *)
(*******************************************************************************)
THEOREM EcmpSetupSucceeds == Spec => []SetupSucceeds
<1>1. EcmpInv => SetupSucceeds BY DEF EcmpInv, SetupSucceeds
<1> QED BY <1>1, EcmpInvHolds, PTL

(*****************************************************************************)
(* The arbiter's exception, that no next hop exists, is met only when no way *)
(* leads to the target.                                                      *)
(*****************************************************************************)
THEOREM EcmpFailsOnlyIfDisconnected == Spec => []FailsOnlyIfDisconnected
<1>1. EcmpInv => FailsOnlyIfDisconnected BY DEF EcmpInv, FailsOnlyIfDisconnected
<1> QED BY <1>1, EcmpInvHolds, PTL
-----------------------------------------------------------------------------
(* A packet has spent no more than the estimate counts for its hops.       *)
HopsSoFar ==
    packet.hops + (IF packet.back THEN Far(packet.from, packet.destination.node) ELSE 0)
SpentBound ==
    packet.state \in {"travels", "done"} =>
        packet.spent \in Nat /\ packet.spent <= HopsSoFar * HopBound(topology)
SpentInv == QueuesFit => SpentBound

(* One hop more. *)
LEMMA OneHopMore ==
    ASSUME NEW s \in Nat, NEW h \in Nat, NEW m \in Nat, NEW x \in Nat, s <= h * m, x <= m
    PROVE  s + x \in Nat /\ s + x <= (h + 1) * m
<1>1. (h + 1) * m = h * m + m /\ h * m \in Nat OBVIOUS
<1> QED BY <1>1

(* Every step keeps it. *)
LEMMA SpentBoundStep == ASSUME EcmpInv, QueuesFit, SpentBound, [Next]_vars PROVE SpentBound'
<1> DEFINE t == packet.destination.node
           m == HopBound(topology)
<1>1. CASE packet' = packet /\ topology' = topology /\ (packet.state \notin {"travels", "done"} \/ dist' = dist)
  BY <1>1 DEF SpentBound, HopsSoFar, Far
<1>2. CASE UNCHANGED vars
  BY <1>1, <1>2 DEF vars, network
<1>3. CASE ParseTopology \/ SetupLink \/ StartDistances \/ RelaxAll \/ InstallArbiters
  <2>1. packet' = packet /\ topology' = topology
    BY <1>3 DEF ParseTopology, SetupLink, StartDistances, RelaxAll, InstallArbiters
  <2>2. phase \in {"parsing", "links", "distances"}
    BY <1>3 DEF ParseTopology, SetupLink, StartDistances, RelaxAll, InstallArbiters
  <2>3. packet.state \notin {"travels", "done"} BY <2>2 DEF EcmpInv, NoPacket
  <2> QED BY <1>1, <2>1, <2>3
<1>4. CASE \E s, r \in NodeIds : Send(s, r)
  <2>1. PICK s \in NodeIds, r \in NodeIds : Send(s, r) BY <1>4
  <2>2. packet = NoPacket /\ phase = "running" /\ topology' = topology BY <2>1 DEF Send, network
  <2>3. \/ packet' = packet
        \/ packet' = Failed(s, r)
        \/ \E next : packet' = Packet(s, Address(s, InterfaceTo(s, next)), Address(r, 1), FALSE)
    BY <2>1 DEF Send
  <2>4. CASE packet' = packet \/ packet' = Failed(s, r)
    BY <2>2, <2>4 DEF NoPacket, Failed, SpentBound
  <2>5. CASE \E next : packet' = Packet(s, Address(s, InterfaceTo(s, next)), Address(r, 1), FALSE)
    <3>1. packet'.hops = 0 /\ packet'.spent = 0 /\ packet'.back = FALSE BY <2>5 DEF Packet
    <3>2. HopsSoFar' = 0 BY <3>1 DEF HopsSoFar
    <3>3. m \in Nat BY <2>2, HopBoundIsNat DEF EcmpInv
    <3>4. 0 <= 0 * m /\ 0 \in Nat BY <3>3
    <3> QED BY <2>2, <3>1, <3>2, <3>4 DEF SpentBound
  <2> QED BY <2>3, <2>4, <2>5
<1>5. CASE Route \/ Deliver
  <2>1. /\ topology \in TopologyFiles /\ TopologyAccepted(topology) /\ Underway
        /\ Shortest(dist, NumNodes(topology), Links(topology))
        /\ packet.state \in {"travels", "done"}
    BY <1>5 DEF Route, Deliver, EcmpInv, NoPacket, Ready, Underway
  <2>2. topology' = topology /\ dist' = dist BY <1>5 DEF Route, Deliver, network
  <2>3. m \in Nat BY <2>1, HopBoundIsNat
  <2>4. /\ packet.from \in Node(topology) /\ packet.at \in Node(topology) /\ t \in Node(topology)
        /\ packet.hops \in Nat /\ packet.source.node = packet.from
        /\ packet.hops + Far(packet.at, t) = Far(packet.from, t) /\ packet.back \in BOOLEAN
    BY <2>1 DEF Underway
  <2>5. PICK f \in Nat : f = Far(packet.from, t) BY <2>1, <2>4, ShortestIsNat DEF Far, Node
  <2>6. PICK h \in Nat : h = HopsSoFar
    <3>1. packet.hops + f \in Nat /\ packet.hops + 0 \in Nat BY <2>4
    <3> QED BY <2>4, <2>5, <3>1 DEF HopsSoFar
  <2>7. PICK s \in Nat : s = packet.spent /\ s <= h * m BY <2>1, <2>6 DEF SpentBound
  <2>8. CASE Route
    <3>1. PICK next \in Node(topology) :
            /\ <<packet.at, next>> \in Links(topology)
            /\ packet' = [state |-> packet.state, from |-> packet.from, at |-> next,
                          source |-> packet.source, destination |-> packet.destination,
                          back |-> packet.back, hops |-> packet.hops + 1,
                          spent |-> packet.spent + LongestTime(packet.at, next)]
      BY <2>8, RouteMoves
    <3>2. PICK x \in Nat : x = LongestTime(packet.at, next) /\ x <= m BY <2>1, <3>1, HopIsBounded
    <3>3. s + x \in Nat /\ s + x <= (h + 1) * m BY <2>3, <2>7, <3>2, OneHopMore
    <3>4. packet'.spent = s + x BY <2>7, <3>1, <3>2
    <3>5. HopsSoFar' = h + 1
      <4>1. HopsSoFar' = (packet.hops + 1) + (IF packet.back THEN Far(packet.from, t) ELSE 0)
        BY <2>2, <3>1 DEF HopsSoFar, Far
      <4>2. h = packet.hops + (IF packet.back THEN Far(packet.from, t) ELSE 0)
        BY <2>6 DEF HopsSoFar
      <4>3. PICK y \in Nat : y = IF packet.back THEN Far(packet.from, t) ELSE 0 BY <2>5
      <4>4. PICK z \in Nat : z = packet.hops BY <2>4
      <4> QED BY <4>1, <4>2, <4>3, <4>4
    <3> QED BY <2>2, <3>3, <3>4, <3>5 DEF SpentBound
  <2>9. CASE Deliver
    <3>1. packet.at = t BY <2>9, DeliverTurns
    <3>2. HopsSoFar' = h /\ packet'.spent = s
      <4>1. CASE packet.back
        <5>1. packet' = [state |-> "done", from |-> packet.from, at |-> packet.at,
                         source |-> packet.source, destination |-> packet.destination,
                         back |-> packet.back, hops |-> packet.hops, spent |-> packet.spent]
          BY <2>9, <4>1, DeliverTurns
        <5> QED BY <2>2, <2>6, <2>7, <5>1 DEF HopsSoFar, Far
      <4>2. CASE ~ packet.back
        <5>1. packet' = [state |-> packet.state, from |-> packet.at, at |-> packet.at,
                         source |-> packet.destination, destination |-> packet.source,
                         back |-> TRUE, hops |-> 0, spent |-> packet.spent]
          BY <2>9, <4>2, DeliverTurns
        <5>2. HopsSoFar' = 0 + Far(t, packet.from) BY <2>2, <2>4, <3>1, <5>1 DEF HopsSoFar, Far
        <5>3. Far(t, packet.from) = f BY <2>1, <2>4, <2>5, ShortestBothWays DEF Far, Node
        <5>4. Far(t, t) = 0 BY <2>1, <2>4, ShortestIsZero DEF Far, Node
        <5>5. packet.hops + 0 = f BY <2>4, <2>5, <3>1, <5>4
        <5>6. h = packet.hops + 0 BY <2>6, <4>2 DEF HopsSoFar
        <5>7. 0 + f = f OBVIOUS
        <5> QED BY <2>7, <5>1, <5>2, <5>3, <5>5, <5>6, <5>7
      <4> QED BY <4>1, <4>2
    <3> QED BY <2>2, <2>7, <3>2 DEF SpentBound
  <2> QED BY <1>5, <2>8, <2>9
<1> QED BY <1>2, <1>3, <1>4, <1>5 DEF Next

(* The topology of a run stays. *)
LEMMA SpentInvStep == ASSUME EcmpInv, SpentInv, [Next]_vars PROVE SpentInv'
<1>1. topology' = topology
  BY DEF Next, ParseTopology, SetupLink, StartDistances, RelaxAll, InstallArbiters, Send, Route,
         Deliver, network, vars
<1>2. QueuesFit' => QueuesFit BY <1>1 DEF QueuesFit
<1> QED BY <1>2, SpentBoundStep DEF SpentInv

(*****************************************************************************************)
(* GetWorstCaseRttEstimateNs, which the TCP configuration takes for its timeouts,        *)
(* is no less than what a packet and its answer can take through full queues, in         *)
(* every topology of at most ten edges; its own cap of 20 hops undoes it in larger ones, *)
(* and the wrap of its 32-bit product for queues of about 2.8 million packets.           *)
(*****************************************************************************************)
THEOREM EcmpEstimateCoversRoundTrip == Spec => []EstimateCoversRoundTrip
<1>1. Init => SpentInv BY DEF Init, NoPacket, SpentInv, SpentBound
<1>2. EcmpInv /\ SpentInv /\ [Next]_vars => SpentInv' BY SpentInvStep
<1>3. EcmpInv /\ SpentInv => EstimateCoversRoundTrip
  <2> DEFINE E == Edges(topology)
             t == packet.destination.node
             m == HopBound(topology)
  <2> SUFFICES ASSUME EcmpInv, SpentBound, packet.state = "done", Cardinality(E) <= 10
               PROVE  packet.spent <= EstimateWorstCaseRtt(topology)
    BY DEF EstimateCoversRoundTrip, SpentInv
  <2>1. /\ topology \in TopologyFiles /\ TopologyAccepted(topology) /\ Underway
        /\ Shortest(dist, NumNodes(topology), Links(topology))
    BY DEF EcmpInv, NoPacket, Ready
  <2>2. m \in Nat BY <2>1, HopBoundIsNat
  <2>3. /\ packet.from \in Node(topology) /\ packet.at \in Node(topology) /\ t \in Node(topology)
        /\ packet.hops \in Nat /\ Far(packet.from, t) < Infinite
        /\ packet.hops + Far(packet.at, t) = Far(packet.from, t)
    BY <2>1 DEF Underway
  <2>4. PICK f \in Nat : f = Far(packet.from, t) BY <2>1, <2>3, ShortestIsNat DEF Far, Node
  <2>5. PICK x \in Nat : x = Far(packet.at, t) BY <2>1, <2>3, ShortestIsNat DEF Far, Node
  <2>6. PICK h \in Nat : h = packet.hops BY <2>3
  <2>7. PICK e \in Nat : e = Cardinality(E) BY <2>1, AcceptedGraph, FS_CardinalityType
  <2>8. f <= e
    <3>1. IsFiniteSet(E) BY <2>1, AcceptedGraph
    <3>2. \A l \in Links(topology) : l \in E \/ <<l[2], l[1]>> \in E
      <4>1. ASSUME NEW l \in Links(topology) PROVE l \in E \/ <<l[2], l[1]>> \in E
        <5>1. PICK d \in E : l = d \/ l = <<d[2], d[1]>> BY DEF Links
        <5>2. d = <<d[1], d[2]>> BY <2>1, AcceptedGraph
        <5>3. CASE l = d BY <5>3
        <5>4. CASE l = <<d[2], d[1]>>
          <6>1. l[2] = d[1] /\ l[1] = d[2] BY <5>4
          <6> QED BY <5>2, <6>1
        <5> QED BY <5>1, <5>3, <5>4
      <4> QED BY <4>1
    <3>3. packet.from \in 0..(NumNodes(topology) - 1) /\ t \in 0..(NumNodes(topology) - 1)
      BY <2>3 DEF Node
    <3>4. dist[<<packet.from, t>>] < Infinite BY <2>3 DEF Far
    <3> HIDE DEF E, t
    <3>5. dist[<<packet.from, t>>] <= Cardinality(E) BY <2>1, <3>1, <3>2, <3>3, <3>4, ShortestByEdges
    <3> QED BY <2>4, <2>7, <3>5 DEF Far, t
  <2>9. HopsSoFar <= e * 2 /\ HopsSoFar \in Nat
    <3>1. h + x = f BY <2>3, <2>4, <2>5, <2>6
    <3>2. HopsSoFar = h + f \/ HopsSoFar = h + 0 BY <2>4, <2>6 DEF HopsSoFar
    <3> QED BY ONLY <2>8, <3>1, <3>2, h \in Nat, x \in Nat, f \in Nat, e \in Nat
  <2>10. PICK n \in Nat : n = HopsSoFar /\ n <= e * 2 BY <2>9
  <2>11. packet.spent \in Nat /\ packet.spent <= n * m BY <2>10 DEF SpentBound
  <2>12. n * m <= (e * 2) * m
    <3>1. PICK d \in Nat : e * 2 = n + d
      <4>1. e * 2 - n \in Nat /\ e * 2 = n + (e * 2 - n) BY <2>10
      <4> QED BY <4>1
    <3>2. (n + d) * m = n * m + d * m /\ d * m \in Nat /\ n * m \in Nat BY <2>2
    <3> QED BY <3>1, <3>2
  <2>13. EstimateWorstCaseRtt(topology) = (e * 2) * m BY <2>1, <2>7, EstimateIsPerHop
  <2>14. PICK a \in Nat : a = packet.spent BY <2>11
  <2>15. n * m \in Nat /\ (e * 2) * m \in Nat BY <2>2
  <2> QED BY <2>11, <2>12, <2>13, <2>14, <2>15
<1> QED BY <1>1, <1>2, <1>3, EcmpInvHolds, PTL DEF Spec
-----------------------------------------------------------------------------
(***************************************************************************)
(* What a LogUpdateHelper keeps between two updates, for a history h of    *)
(* values from V.  Alpha is closed, non-empty, behind the log and          *)
(* different from the end of it; beta begins at the last update, and from  *)
(* there on the history has the last value.                                *)
(***************************************************************************)
Entry(V) == [from : Nat, to : Nat, value : V]
Intervals(V) == Seq(Entry(V))
Logs(V) == [log : Intervals(V), last : V, check : Nat, alpha : Nat, alphaValue : V,
            beta : Int]

OneMoment(l) == l.beta = None /\ l.log = <<>> /\ l.alpha = 0 /\ l.check = 0

Prefix(log, end, value, h) ==
    /\ Chained(log, end) /\ Truthful(log, h) /\ Merged(log)
    /\ log # <<>> => log[Len(log)].value # value

TwoIntervals(l, h) ==
    /\ l.beta = l.check /\ l.alpha < l.beta
    /\ \A t \in l.alpha..(l.beta - 1) : h[t] = l.alphaValue
    /\ Prefix(l.log, l.alpha, l.alphaValue, h)

LogInv(l, h, V) ==
    /\ l \in Logs(V)
    /\ l.check <= EndTime
    /\ OneMoment(l) \/ TwoIntervals(l, h)
    /\ \A t \in l.check..EndTime : h[t] = l.last

(* Appending to a sequence. *)
LEMMA AppendFacts ==
    ASSUME NEW S, NEW s \in Seq(S), NEW x \in S
    PROVE  /\ Append(s, x) \in Seq(S)
           /\ Len(Append(s, x)) = Len(s) + 1 /\ Len(s) \in Nat
           /\ DOMAIN Append(s, x) = 1..(Len(s) + 1) /\ DOMAIN s = 1..Len(s)
           /\ \A i \in 1..Len(s) : Append(s, x)[i] = s[i]
           /\ Append(s, x)[Len(s) + 1] = x
           /\ Append(s, x) # <<>>
           /\ s = <<>> <=> Len(s) = 0
OBVIOUS

(* The intervals of a log. *)
LEMMA ElementFacts ==
    ASSUME NEW V, NEW log \in Intervals(V)
    PROVE  /\ Len(log) \in Nat /\ DOMAIN log = 1..Len(log)
           /\ log = <<>> <=> Len(log) = 0
           /\ \A i \in 1..Len(log) :
                  /\ log[i] \in Entry(V)
                  /\ log[i].from \in Nat /\ log[i].to \in Nat /\ log[i].value \in V
<1> DEFINE S == Entry(V)
<1>1. log \in Seq(S) BY DEF Intervals
<1>2. \A x \in S : x.from \in Nat /\ x.to \in Nat /\ x.value \in V BY DEF Entry
<1> HIDE DEF S
<1>3. \A i \in 1..Len(log) : log[i] \in S BY <1>1
<1>4. Len(log) \in Nat /\ DOMAIN log = 1..Len(log) /\ (log = <<>> <=> Len(log) = 0)
  BY <1>1
<1> QED BY <1>2, <1>3, <1>4 DEF S

(***************************************************************************)
(* An interval that continues a log and has another value than its end can *)
(* be appended to it.                                                      *)
(***************************************************************************)
LEMMA AppendKeepsPrefix ==
    ASSUME NEW V, NEW log \in Intervals(V), NEW h,
           NEW i \in Entry(V),
           Prefix(log, i.from, i.value, h), i.from < i.to,
           \A t \in i.from..(i.to - 1) : h[t] = i.value
    PROVE  /\ Append(log, i) \in Intervals(V)
           /\ Chained(Append(log, i), i.to)
           /\ Truthful(Append(log, i), h)
           /\ Merged(Append(log, i))
           /\ Append(log, i)[Len(Append(log, i))].value = i.value
<1> DEFINE new == Append(log, i)
           n == Len(log)
<1>1. /\ new \in Intervals(V) /\ Len(new) = n + 1 /\ n \in Nat
      /\ DOMAIN new = 1..(n + 1) /\ DOMAIN log = 1..n
      /\ \A j \in 1..n : new[j] = log[j]
      /\ new[n + 1] = i
      /\ new # <<>>
      /\ log = <<>> <=> n = 0
  <2> DEFINE S == Entry(V)
  <2>1. log \in Seq(S) /\ i \in S BY DEF Intervals
  <2>2. Intervals(V) = Seq(S) BY DEF Intervals
  <2> HIDE DEF S
  <2> QED BY <2>1, <2>2, AppendFacts
<1>2. /\ i.from \in Nat /\ i.to \in Nat
      /\ \A j \in 1..n : log[j].from \in Nat /\ log[j].to \in Nat
  BY ElementFacts DEF Entry
<1>3. Chained(log, i.from) /\ Truthful(log, h) /\ Merged(log)
      /\ (log # <<>> => log[n].value # i.value)
  BY DEF Prefix
<1> HIDE DEF new, n
<1>4. Chained(new, i.to)
  <2>1. (new = <<>>) <=> (i.to = 0) BY <1>1, <1>2
  <2>2. ASSUME NEW j \in DOMAIN new
        PROVE  /\ new[j].from < new[j].to /\ new[j].to <= i.to
               /\ new[j].from = (IF j = 1 THEN 0 ELSE new[j - 1].to)
               /\ j = Len(new) => new[j].to = i.to
    <3>1. CASE j = n + 1
      <4>1. CASE n = 0 BY <1>1, <1>2, <1>3, <3>1, <4>1 DEF Chained
      <4>2. CASE n # 0
        <5>1. n \in DOMAIN log BY <1>1, <4>2
        <5>2. log[n].to = i.from BY <1>1, <1>3, <5>1 DEF Chained, n
        <5> QED BY <1>1, <1>2, <3>1, <4>2, <5>1, <5>2
      <4> QED BY <4>1, <4>2
    <3>2. CASE j # n + 1
      <4>1. j \in 1..n /\ j # Len(new) BY <1>1, <3>2
      <4>2. j # 1 => j - 1 \in 1..n BY <1>1, <4>1
      <4>3. /\ log[j].from < log[j].to /\ log[j].to <= i.from
            /\ log[j].from = (IF j = 1 THEN 0 ELSE log[j - 1].to)
        BY <1>1, <1>3, <4>1 DEF Chained
      <4>4. log[j].to <= i.to BY <1>2, <4>1, <4>3
      <4> QED BY <1>1, <4>1, <4>2, <4>3, <4>4
    <3> QED BY <3>1, <3>2
  <2> QED BY <2>1, <2>2 DEF Chained
<1>5. Truthful(new, h)
  <2> SUFFICES ASSUME NEW j \in DOMAIN new, NEW t \in new[j].from..(new[j].to - 1)
               PROVE  h[t] = new[j].value
    BY DEF Truthful
  <2>1. CASE j = n + 1 BY <1>1, <2>1
  <2>2. CASE j # n + 1
    <3>1. j \in DOMAIN log /\ new[j] = log[j] BY <1>1, <2>2
    <3> QED BY <1>3, <3>1 DEF Truthful
  <2> QED BY <2>1, <2>2
<1>6. Merged(new)
  <2> SUFFICES ASSUME NEW j \in DOMAIN new, j > 1
               PROVE  new[j].value # new[j - 1].value
    BY DEF Merged
  <2>1. CASE j = n + 1
    <3>1. j - 1 = n /\ n \in 1..n BY <1>1, <2>1
    <3> QED BY <1>1, <1>3, <2>1, <3>1
  <2>2. CASE j # n + 1
    <3>1. j \in DOMAIN log /\ j - 1 \in 1..n /\ j \in 1..n BY <1>1, <2>2
    <3> QED BY <1>1, <1>3, <3>1 DEF Merged
  <2> QED BY <2>1, <2>2
<1>7. new[Len(new)].value = i.value BY <1>1
<1> QED BY <1>1, <1>4, <1>5, <1>6, <1>7 DEF new

(* A log that ends by the time t says nothing of what changes from t on.   *)
LEMMA PrefixIsPast ==
    ASSUME NEW V, NEW log \in Intervals(V), NEW h, NEW g, NEW end \in Nat, NEW value,
           Prefix(log, end, value, h),
           \A t \in 0..(end - 1) : g[t] = h[t]
    PROVE  Prefix(log, end, value, g)
<1>1. ASSUME NEW i \in DOMAIN log, NEW t \in log[i].from..(log[i].to - 1)
      PROVE  g[t] = log[i].value
  <2>1. h[t] = log[i].value BY DEF Prefix, Truthful
  <2>2. log[i].from \in Nat /\ log[i].to \in Nat BY ElementFacts
  <2>3. log[i].to <= end BY DEF Prefix, Chained
  <2> QED BY <2>1, <2>2, <2>3
<1> QED BY <1>1 DEF Prefix, Truthful

(* What the type of the helper's state says of its fields. *)
LEMMA FieldFacts ==
    ASSUME NEW V, NEW l \in Logs(V)
    PROVE  /\ l.log \in Intervals(V) /\ l.last \in V /\ l.check \in Nat /\ l.alpha \in Nat
           /\ l.alphaValue \in V /\ l.beta \in Int
BY DEF Logs

(* The two ways in which NextMoment changes several fields. *)
StartBeta(l, t) == [l EXCEPT !.beta = t, !.alphaValue = l.last]

(* The first of them, *)
LEMMA StartBetaFields ==
    ASSUME NEW V, NEW l \in Logs(V), NEW t \in Nat
    PROVE  /\ StartBeta(l, t) \in Logs(V)
           /\ StartBeta(l, t).beta = t /\ StartBeta(l, t).alphaValue = l.last
           /\ StartBeta(l, t).alpha = l.alpha /\ StartBeta(l, t).log = l.log
<1> DEFINE w == l.last
           m == [l EXCEPT !.beta = t, !.alphaValue = w]
<1>1. w \in V /\ t \in Int BY FieldFacts
<1>2. StartBeta(l, t) = m BY DEF StartBeta
<1> HIDE DEF w
<1>3. m \in Logs(V) BY <1>1 DEF Logs
<1>4. m.beta = t /\ m.alphaValue = w /\ m.alpha = l.alpha /\ m.log = l.log BY DEF Logs
<1> QED BY <1>2, <1>3, <1>4 DEF w

(* and the second. *)
LEMMA PushAlphaFields ==
    ASSUME NEW V, NEW l \in Logs(V), NEW t \in Nat, l.beta \in Nat,
           Append(l.log, Interval(l.alpha, l.beta, l.alphaValue)) \in Intervals(V)
    PROVE  /\ PushAlpha(l, t) \in Logs(V)
           /\ PushAlpha(l, t).beta = t /\ PushAlpha(l, t).alphaValue = l.last
           /\ PushAlpha(l, t).alpha = l.beta
           /\ PushAlpha(l, t).log = Append(l.log, Interval(l.alpha, l.beta, l.alphaValue))
<1> DEFINE w == l.last
           b == l.beta
           new == Append(l.log, Interval(l.alpha, l.beta, l.alphaValue))
           m == [l EXCEPT !.log = new, !.alpha = b, !.alphaValue = w, !.beta = t]
<1>1. w \in V /\ t \in Int /\ b \in Nat BY FieldFacts
<1>2. PushAlpha(l, t) = m BY DEF PushAlpha
<1>3. new \in Intervals(V) OBVIOUS
<1> HIDE DEF w, b, new
<1>4. m \in Logs(V) BY <1>1, <1>3 DEF Logs
<1>5. m.beta = t /\ m.alphaValue = w /\ m.alpha = b /\ m.log = new BY DEF Logs
<1> QED BY <1>2, <1>4, <1>5 DEF w, b, new

(* Update, at any time from the last update on, keeps the helper's state in *)
(* step with the history.                                                   *)
LEMMA UpdateKeepsLog ==
    ASSUME NEW V, NEW h, DOMAIN h = 0..EndTime, NEW l, LogInv(l, h, V),
           NEW t \in 0..EndTime, l.check <= t, NEW v \in V
    PROVE  /\ LogInv(Updated(l, t, v), FromOn(h, t, v), V)
           /\ Updated(l, t, v).check = t
<1> DEFINE g == FromOn(h, t, v)
           u == Updated(l, t, v)
<1>1. /\ \A s \in 0..(t - 1) : g[s] = h[s]
      /\ \A s \in t..EndTime : g[s] = v
  BY QueueTrackerAssumption DEF FromOn
<1>2. /\ l \in Logs(V) /\ (OneMoment(l) \/ TwoIntervals(l, h))
      /\ \A s \in l.check..EndTime : h[s] = l.last
  BY DEF LogInv
<1>3. /\ l.log \in Intervals(V) /\ l.last \in V /\ l.check \in Nat /\ l.alpha \in Nat
      /\ l.alphaValue \in V /\ l.beta \in Int
  BY <1>2, FieldFacts
<1>4. t \in Nat /\ EndTime \in Nat /\ t <= EndTime BY QueueTrackerAssumption
<1> HIDE DEF g
<1>5. SUFFICES u \in Logs(V) /\ u.check = t /\ u.last = v
               /\ (OneMoment(u) \/ TwoIntervals(u, g))
  BY <1>1, <1>4 DEF LogInv, g
<1>6. CASE t = l.check
  <2>1. u = [l EXCEPT !.last = v] BY <1>3, <1>6 DEF Updated
  <2>2. /\ u \in Logs(V) /\ u.check = t /\ u.last = v /\ u.beta = l.beta /\ u.log = l.log
        /\ u.alpha = l.alpha /\ u.alphaValue = l.alphaValue
    BY <1>2, <1>6, <2>1 DEF Logs
  <2> HIDE DEF u
  <2>3. CASE OneMoment(l) BY <2>2, <2>3, <1>6 DEF OneMoment
  <2>4. CASE TwoIntervals(l, h)
    <3>1. l.beta = t /\ l.alpha < t BY <1>6, <2>4 DEF TwoIntervals
    <3>2. \A s \in l.alpha..(l.beta - 1) : g[s] = l.alphaValue
      BY <1>1, <1>3, <1>4, <2>4, <3>1 DEF TwoIntervals
    <3>3. \A s \in 0..(l.alpha - 1) : g[s] = h[s]
      BY <1>1, <1>3, <1>4, <3>1
    <3>4. Prefix(l.log, l.alpha, l.alphaValue, h) BY <2>4 DEF TwoIntervals
    <3>5. Prefix(l.log, l.alpha, l.alphaValue, g)
      BY <1>3, <3>3, <3>4, PrefixIsPast
    <3> QED BY <2>2, <3>1, <3>2, <3>5 DEF TwoIntervals
  <2> QED BY <1>2, <2>2, <2>3, <2>4
<1>7. CASE t > l.check
  <2> DEFINE m == NextMoment(l, t)
  <2>1. u = [[m EXCEPT !.check = t] EXCEPT !.last = v] BY <1>7 DEF Updated
  <2>2. l.alpha # None BY <1>3 DEF None
  <2>3. CASE OneMoment(l)
    <3>1. m = StartBeta(l, t)
      BY <2>2, <2>3 DEF NextMoment, OneMoment, StartBeta
    <3> HIDE DEF m
    <3>2. /\ m \in Logs(V) /\ m.beta = t /\ m.alphaValue = l.last
          /\ m.alpha = l.alpha /\ m.log = l.log
      BY <1>2, <1>4, <3>1, StartBetaFields
    <3>3. /\ u \in Logs(V) /\ u.check = t /\ u.last = v /\ u.beta = t
          /\ u.alphaValue = l.last /\ u.alpha = 0 /\ u.log = <<>>
      BY <1>4, <2>1, <2>3, <3>2 DEF Logs, OneMoment
    <3> HIDE DEF u
    <3>4. t > 0 /\ l.check = 0 BY <1>7, <2>3 DEF OneMoment
    <3>5. \A s \in 0..(t - 1) : g[s] = l.last BY <1>1, <1>2, <1>4, <3>4
    <3>6. Prefix(<<>>, 0, l.last, g) BY DEF Prefix, Chained, Truthful, Merged
    <3> QED BY <3>3, <3>4, <3>5, <3>6 DEF TwoIntervals
  <2>4. CASE TwoIntervals(l, h)
    <3>1. l.beta = l.check /\ l.alpha < l.beta /\ l.beta \in Nat /\ l.beta # None
      BY <1>3, <2>4 DEF TwoIntervals, None
    <3>2. /\ \A s \in l.alpha..(l.beta - 1) : h[s] = l.alphaValue
          /\ Prefix(l.log, l.alpha, l.alphaValue, h)
      BY <2>4 DEF TwoIntervals
    <3>3. CASE l.alphaValue = l.last
      <4>1. m = [l EXCEPT !.beta = t] BY <2>2, <3>1, <3>3 DEF NextMoment
      <4> HIDE DEF m
      <4>2. /\ m \in Logs(V) /\ m.beta = t /\ m.alphaValue = l.alphaValue
            /\ m.alpha = l.alpha /\ m.log = l.log
        BY <1>2, <1>4, <4>1 DEF Logs
      <4>3. /\ u \in Logs(V) /\ u.check = t /\ u.last = v /\ u.beta = t
            /\ u.alphaValue = l.alphaValue /\ u.alpha = l.alpha /\ u.log = l.log
        BY <1>4, <2>1, <4>2 DEF Logs
      <4> HIDE DEF u
      <4>4. \A s \in l.alpha..(t - 1) : g[s] = l.alphaValue
        <5> TAKE s \in l.alpha..(t - 1)
        <5>1. g[s] = h[s] BY <1>1, <1>3, <1>4
        <5>2. CASE s < l.beta BY <1>3, <3>1, <3>2, <5>1, <5>2
        <5>3. CASE ~(s < l.beta)
          <6>1. s \in l.check..EndTime BY <1>3, <1>4, <3>1, <5>3
          <6> QED BY <1>2, <3>3, <5>1, <6>1
        <5> QED BY <5>2, <5>3
      <4>5. \A s \in 0..(l.alpha - 1) : g[s] = h[s] BY <1>1, <1>3, <1>4, <1>7, <3>1
      <4>6. Prefix(l.log, l.alpha, l.alphaValue, g)
        BY <1>3, <3>2, <4>5, PrefixIsPast
      <4>7. l.alpha < t BY <1>3, <1>4, <1>7, <3>1
      <4> QED BY <4>3, <4>4, <4>6, <4>7 DEF TwoIntervals
    <3>4. CASE l.alphaValue # l.last
      <4> DEFINE i == Interval(l.alpha, l.beta, l.alphaValue)
                 new == Append(l.log, i)
      <4>1. m = PushAlpha(l, t)
        BY <2>2, <3>1, <3>4 DEF NextMoment
      <4>2. /\ i \in Entry(V)
            /\ i.from = l.alpha /\ i.to = l.beta /\ i.value = l.alphaValue
        BY <1>3, <3>1 DEF Interval, Entry
      <4> HIDE DEF i
      <4>3. /\ new \in Intervals(V)
            /\ Chained(new, l.beta) /\ Truthful(new, h) /\ Merged(new)
            /\ new[Len(new)].value = l.alphaValue
        <5>1. Prefix(l.log, i.from, i.value, h) /\ i.from < i.to
          BY <3>1, <3>2, <4>2
        <5>2. \A s \in i.from..(i.to - 1) : h[s] = i.value
          BY <3>2, <4>2
        <5>3. l.log \in Intervals(V) /\ i \in Entry(V)
          BY <1>3, <4>2
        <5>4. /\ Append(l.log, i) \in Intervals(V)
              /\ Chained(Append(l.log, i), i.to)
              /\ Truthful(Append(l.log, i), h)
              /\ Merged(Append(l.log, i))
              /\ Append(l.log, i)[Len(Append(l.log, i))].value = i.value
          BY ONLY <5>1, <5>2, <5>3, AppendKeepsPrefix
        <5> QED BY <4>2, <5>4
      <4> HIDE DEF new, m
      <4>4. /\ m \in Logs(V) /\ m.beta = t /\ m.alphaValue = l.last
            /\ m.alpha = l.beta /\ m.log = new
        <5>1. Append(l.log, Interval(l.alpha, l.beta, l.alphaValue)) = new
          BY DEF new, i
        <5> QED BY <1>2, <1>4, <3>1, <4>1, <4>3, <5>1, PushAlphaFields
      <4>5. /\ u \in Logs(V) /\ u.check = t /\ u.last = v /\ u.beta = t
            /\ u.alphaValue = l.last /\ u.alpha = l.beta /\ u.log = new
        BY <1>4, <2>1, <4>4 DEF Logs
      <4> HIDE DEF u
      <4>6. Prefix(new, l.beta, l.last, h) BY <3>4, <4>3 DEF Prefix
      <4>7. \A s \in 0..(l.beta - 1) : g[s] = h[s] BY <1>1, <1>3, <1>4, <1>7, <3>1
      <4>8. Prefix(new, l.beta, l.last, g) BY <3>1, <4>3, <4>6, <4>7, PrefixIsPast
      <4>9. \A s \in l.beta..(t - 1) : g[s] = l.last
        <5> TAKE s \in l.beta..(t - 1)
        <5>1. s \in 0..(t - 1) /\ s \in l.check..EndTime BY <1>3, <1>4, <3>1
        <5> QED BY <1>1, <1>2, <5>1
      <4>10. l.beta < t BY <1>7, <3>1
      <4> QED BY <4>5, <4>8, <4>9, <4>10 DEF TwoIntervals
    <3> QED BY <3>3, <3>4
  <2> QED BY <1>2, <2>3, <2>4
<1> QED BY <1>3, <1>4, <1>6, <1>7

(* What Finalize may append. *)
LEMMA ConcatFacts ==
    ASSUME NEW S, NEW s \in Seq(S), NEW a \in S, NEW b \in S
    PROVE  /\ s \o <<>> = s
           /\ s \o <<a>> = Append(s, a)
           /\ s \o (<<a>> \o <<>>) = Append(s, a)
           /\ s \o (<<a>> \o <<b>>) = Append(Append(s, a), b)
OBVIOUS

IsHistory(log, h) == Chained(log, EndTime) /\ Truthful(log, h) /\ Merged(log)

(* Finalize turns the helper's state into the encoding of the whole history. *)
LEMMA FinalizedIsHistory ==
    ASSUME NEW V, NEW h, NEW l, LogInv(l, h, V)
    PROVE  IsHistory(FinalizedLog(l, EndTime).log, h)
<1> DEFINE f == l.log \o Remaining(l, EndTime)
<1>1. /\ l \in Logs(V) /\ (OneMoment(l) \/ TwoIntervals(l, h)) /\ l.check <= EndTime
      /\ \A t \in l.check..EndTime : h[t] = l.last
  BY DEF LogInv
<1>2. /\ l.log \in Intervals(V) /\ l.last \in V /\ l.check \in Nat /\ l.alpha \in Nat
      /\ l.alphaValue \in V /\ l.beta \in Int
  BY <1>1, FieldFacts
<1>3. FinalizedLog(l, EndTime).log = f BY <1>1 DEF FinalizedLog, Logs
<1>4. EndTime \in Nat /\ l.alpha # None BY <1>2, QueueTrackerAssumption DEF None
<1>5. ASSUME NEW from \in Nat, NEW to \in Nat, NEW value \in V
      PROVE  /\ Interval(from, to, value) \in Entry(V)
             /\ Interval(from, to, value).from = from
             /\ Interval(from, to, value).to = to
             /\ Interval(from, to, value).value = value
  BY DEF Interval, Entry
<1>6. CASE OneMoment(l)
  <2> DEFINE i == Interval(0, EndTime, l.last)
  <2>1. f = <<>> \o IfNotEmpty(i) BY <1>4, <1>6 DEF OneMoment, Remaining
  <2>2. i \in Entry(V) /\ i.from = 0 /\ i.to = EndTime /\ i.value = l.last
    BY <1>2, <1>4, <1>5
  <2> HIDE DEF i
  <2>3. CASE EndTime = 0
    <3>1. f = <<>> BY <2>1, <2>2, <2>3 DEF IfNotEmpty
    <3>2. IsHistory(<<>>, h) BY <2>3 DEF IsHistory, Chained, Truthful, Merged
    <3> QED BY <1>3, <3>1, <3>2
  <2>4. CASE EndTime # 0
    <3>1. f = Append(<<>>, i) BY <2>1, <2>2, <2>4 DEF IfNotEmpty
    <3>2. Prefix(<<>>, i.from, i.value, h)
      BY <2>2 DEF Prefix, Chained, Truthful, Merged
    <3>3. i.from < i.to BY <1>4, <2>2, <2>4
    <3>4. \A t \in i.from..(i.to - 1) : h[t] = i.value
      BY <1>1, <1>4, <1>6, <2>2 DEF OneMoment
    <3>5. <<>> \in Intervals(V) BY DEF Intervals
    <3>6. /\ Chained(Append(<<>>, i), i.to) /\ Truthful(Append(<<>>, i), h)
          /\ Merged(Append(<<>>, i))
      BY ONLY <2>2, <3>2, <3>3, <3>4, <3>5, AppendKeepsPrefix
    <3> QED BY <1>3, <2>2, <3>1, <3>6 DEF IsHistory
  <2> QED BY <2>3, <2>4
<1>7. CASE TwoIntervals(l, h)
  <2>1. l.beta = l.check /\ l.alpha < l.beta /\ l.beta \in Nat /\ l.beta # None
    BY <1>2, <1>7 DEF TwoIntervals, None
  <2>2. /\ \A t \in l.alpha..(l.beta - 1) : h[t] = l.alphaValue
        /\ Prefix(l.log, l.alpha, l.alphaValue, h)
    BY <1>7 DEF TwoIntervals
  <2>3. CASE l.alphaValue = l.last
    <3> DEFINE i == Interval(l.alpha, EndTime, l.alphaValue)
    <3>1. f = l.log \o <<i>> BY <1>4, <2>1, <2>3 DEF Remaining
    <3>2. /\ i \in Entry(V) /\ i.from = l.alpha /\ i.to = EndTime
          /\ i.value = l.alphaValue
      BY <1>2, <1>4, <1>5
    <3> HIDE DEF i
    <3>3. f = Append(l.log, i) BY <1>2, <3>1, <3>2, ConcatFacts DEF Intervals
    <3>4. Prefix(l.log, i.from, i.value, h) /\ i.from < i.to
      BY <1>1, <1>2, <1>4, <2>1, <2>2, <3>2
    <3>5. \A t \in i.from..(i.to - 1) : h[t] = i.value
      <4> TAKE t \in i.from..(i.to - 1)
      <4>1. CASE t < l.beta BY <1>2, <1>4, <2>1, <2>2, <3>2, <4>1
      <4>2. CASE ~(t < l.beta)
        <5>1. t \in l.check..EndTime BY <1>2, <1>4, <2>1, <3>2, <4>2
        <5> QED BY <1>1, <2>3, <3>2, <5>1
      <4> QED BY <4>1, <4>2
    <3>6. /\ Chained(Append(l.log, i), i.to) /\ Truthful(Append(l.log, i), h)
          /\ Merged(Append(l.log, i))
      BY ONLY <1>2, <3>2, <3>4, <3>5, AppendKeepsPrefix
    <3> QED BY <1>3, <3>2, <3>3, <3>6 DEF IsHistory
  <2>4. CASE l.alphaValue # l.last
    <3> DEFINE i == Interval(l.alpha, l.beta, l.alphaValue)
               rest == Interval(l.beta, EndTime, l.last)
               new == Append(l.log, i)
    <3>1. f = l.log \o (<<i>> \o IfNotEmpty(rest)) BY <1>4, <2>1, <2>4 DEF Remaining
    <3>2. /\ i \in Entry(V) /\ i.from = l.alpha /\ i.to = l.beta /\ i.value = l.alphaValue
      BY <1>2, <2>1, <1>5
    <3>3. /\ rest \in Entry(V) /\ rest.from = l.beta /\ rest.to = EndTime /\ rest.value = l.last
      BY <1>2, <1>4, <2>1, <1>5
    <3> HIDE DEF i, rest
    <3>4. /\ Append(l.log, i) \in Intervals(V)
          /\ Chained(Append(l.log, i), i.to)
          /\ Truthful(Append(l.log, i), h)
          /\ Merged(Append(l.log, i))
          /\ Append(l.log, i)[Len(Append(l.log, i))].value = i.value
      <4>1. Prefix(l.log, i.from, i.value, h) /\ i.from < i.to
        BY <2>1, <2>2, <3>2
      <4>2. \A t \in i.from..(i.to - 1) : h[t] = i.value
        BY <2>2, <3>2
      <4> QED BY ONLY <1>2, <3>2, <4>1, <4>2, AppendKeepsPrefix
    <3> HIDE DEF new
    <3>5. CASE l.beta = EndTime
      <4>1. f = l.log \o (<<i>> \o <<>>) BY <3>1, <3>3, <3>5 DEF IfNotEmpty
      <4>2. f = Append(l.log, i) BY <1>2, <3>2, <4>1, ConcatFacts DEF Intervals
      <4> QED BY <1>3, <3>2, <3>4, <3>5, <4>2 DEF IsHistory
    <3>6. CASE l.beta # EndTime
      <4>1. f = l.log \o (<<i>> \o <<rest>>) BY <3>1, <3>3, <3>6 DEF IfNotEmpty
      <4>2. f = Append(new, rest)
        <5>1. l.log \in Seq(Entry(V)) BY <1>2 DEF Intervals
        <5>2. l.log \o (<<i>> \o <<rest>>) = Append(Append(l.log, i), rest)
          <6>1. i \in Entry(V) /\ rest \in Entry(V) BY <3>2, <3>3
          <6> QED BY ONLY <5>1, <6>1, ConcatFacts
        <5> QED BY ONLY <4>1, <5>2 DEF new
      <4>3. Prefix(new, rest.from, rest.value, h) /\ rest.from < rest.to /\ new \in Intervals(V)
        BY <1>1, <1>2, <1>4, <2>1, <2>4, <3>2, <3>3, <3>4, <3>6 DEF Prefix, new
      <4>4. \A t \in rest.from..(rest.to - 1) : h[t] = rest.value
        BY <1>1, <1>2, <1>4, <2>1, <3>3
      <4>5. Chained(Append(new, rest), rest.to) /\ Truthful(Append(new, rest), h)
            /\ Merged(Append(new, rest))
        BY ONLY <3>3, <4>3, <4>4, AppendKeepsPrefix
      <4> QED BY <1>3, <3>3, <4>2, <4>5 DEF IsHistory
    <3> QED BY <3>5, <3>6
  <2> QED BY <2>3, <2>4
<1> QED BY <1>1, <1>6, <1>7

-----------------------------------------------------------------------------
(***************************************************************************)
(* The inductive invariant of the tracker: before the results are written  *)
(* both helpers are in step with their histories, afterwards both logs     *)
(* encode them.                                                            *)
(***************************************************************************)
Values == Int \cup {BytesIn(q) : q \in Seq(Size)}

InStep(l, h) == LogInv(l, h, Values) /\ l.check <= now

TrackerInv ==
    /\ now \in 0..EndTime
    /\ queue \in Seq(Size)
    /\ DOMAIN pkts = 0..EndTime /\ DOMAIN bytes = 0..EndTime
    /\ failed = FALSE
    /\ ~written => InStep(pktLog, pkts) /\ InStep(byteLog, bytes)
    /\ written => IsHistory(pktLog.log, pkts) /\ IsHistory(byteLog.log, bytes)

(* The state of a helper after the constructor's Update(0, 0). *)
LEMMA FirstUpdate ==
    LET l == Updated(NewLog, 0, 0)
        h == [t \in 0..EndTime |-> 0]
    IN  LogInv(l, h, Values) /\ l.check = 0
<1> DEFINE l == Updated(NewLog, 0, 0)
           h == [t \in 0..EndTime |-> 0]
<1>1. l = [log |-> <<>>, last |-> 0, check |-> 0, alpha |-> 0,
           alphaValue |-> None, beta |-> None]
  <2>1. NextMoment(NewLog, 0) = [NewLog EXCEPT !.alpha = 0]
    BY DEF NewLog, NextMoment
  <2>2. 0 > NewLog.check BY DEF NewLog, None
  <2>3. l = [[NextMoment(NewLog, 0) EXCEPT !.check = 0] EXCEPT !.last = 0]
    BY <2>2 DEF Updated
  <2> QED BY <2>1, <2>3 DEF NewLog
<1>2. <<>> \in Intervals(Values) BY DEF Intervals
<1>3. 0 \in Values /\ None \in Values BY DEF Values, None
<1>4. l \in Logs(Values)
  <2> HIDE DEF l
  <2>1. None \in Int BY DEF None
  <2> QED BY <1>1, <1>2, <1>3, <2>1 DEF Logs
<1>5. OneMoment(l) BY <1>1 DEF OneMoment
<1>6. l.check = 0 /\ l.last = 0 BY <1>1
<1> HIDE DEF l
<1>7. \A t \in l.check..EndTime : h[t] = l.last BY <1>6, QueueTrackerAssumption
<1>8. l.check <= EndTime BY <1>6, QueueTrackerAssumption
<1>9. LogInv(l, h, Values) BY <1>4, <1>5, <1>7, <1>8 DEF LogInv
<1> QED BY <1>6, <1>9 DEF l

(* The initial state satisfies the invariant. *)
THEOREM TrackerInitially == TrackerInit => TrackerInv
<1> SUFFICES ASSUME TrackerInit PROVE TrackerInv OBVIOUS
<1> DEFINE l == Updated(NewLog, 0, 0)
           h == [t \in 0..EndTime |-> 0]
<1>1. LogInv(l, h, Values) /\ l.check = 0 BY FirstUpdate
<1>2. DOMAIN h = 0..EndTime OBVIOUS
<1>3. /\ now = 0 /\ queue = <<>> /\ pktLog = l /\ byteLog = l
      /\ failed = FALSE /\ written = FALSE /\ pkts = h /\ bytes = h
  BY DEF TrackerInit
<1> HIDE DEF l, h
<1>4. now \in 0..EndTime BY <1>3, QueueTrackerAssumption
<1>5. queue \in Seq(Size) BY <1>3
<1> QED BY <1>1, <1>2, <1>3, <1>4, <1>5 DEF TrackerInv, InStep

(* The callbacks, called when the queue has become q. *)
LEMMA CallbacksKeep ==
    ASSUME TrackerInv, ~written, NEW q \in Seq(Size), NEW t \in 0..EndTime,
           now <= t, now' = t, Callbacks(q, t), written' = written, queue' = q
    PROVE  TrackerInv'
<1>1. /\ LogInv(pktLog, pkts, Values) /\ pktLog.check <= now
      /\ LogInv(byteLog, bytes, Values) /\ byteLog.check <= now
      /\ DOMAIN pkts = 0..EndTime /\ DOMAIN bytes = 0..EndTime
      /\ now \in Nat
  BY QueueTrackerAssumption DEF TrackerInv, InStep
<1>2. pktLog.check \in Nat /\ byteLog.check \in Nat
  BY <1>1, FieldFacts DEF LogInv
<1>3. t \in Nat BY QueueTrackerAssumption
<1>4. pktLog.check <= t /\ byteLog.check <= t BY <1>1, <1>2, <1>3
<1>5. Len(q) \in Values /\ BytesIn(q) \in Values BY DEF Values
<1>6. /\ pktLog' = Updated(pktLog, t, Len(q)) /\ pkts' = FromOn(pkts, t, Len(q))
      /\ byteLog' = Updated(byteLog, t, BytesIn(q)) /\ bytes' = FromOn(bytes, t, BytesIn(q))
      /\ failed' = (InThePast(pktLog, t) \/ InThePast(byteLog, t))
  BY DEF Callbacks
<1>7. failed' = FALSE
  <2>1. ~InThePast(pktLog, t) /\ ~InThePast(byteLog, t)
    BY <1>2, <1>3, <1>4 DEF InThePast
  <2> QED BY <1>6, <2>1, Zenon
<1>8. LogInv(pktLog', pkts', Values) /\ pktLog'.check = t
  <2>1. /\ LogInv(Updated(pktLog, t, Len(q)), FromOn(pkts, t, Len(q)), Values)
        /\ Updated(pktLog, t, Len(q)).check = t
    BY ONLY <1>1, <1>4, <1>5, t \in 0..EndTime, UpdateKeepsLog
  <2> QED BY <1>6, <2>1
<1>9. LogInv(byteLog', bytes', Values) /\ byteLog'.check = t
  <2> DEFINE b == BytesIn(q)
  <2>1. b \in Values BY <1>5
  <2>2. LogInv(byteLog, bytes, Values) /\ DOMAIN bytes = 0..EndTime
        /\ byteLog.check <= t
    BY <1>1, <1>4
  <2>3. byteLog' = Updated(byteLog, t, b) /\ bytes' = FromOn(bytes, t, b) BY <1>6
  <2> HIDE DEF b
  <2>4. LogInv(Updated(byteLog, t, b), FromOn(bytes, t, b), Values)
        /\ Updated(byteLog, t, b).check = t
    BY ONLY <2>1, <2>2, t \in 0..EndTime, UpdateKeepsLog
  <2> QED BY <2>3, <2>4
<1>10. DOMAIN pkts' = 0..EndTime /\ DOMAIN bytes' = 0..EndTime
  BY <1>1, <1>6 DEF FromOn
<1>11. t <= t BY <1>3
<1>12. InStep(pktLog, pkts)' /\ InStep(byteLog, bytes)'
  BY <1>8, <1>9, <1>11 DEF InStep
<1> QED BY <1>7, <1>10, <1>12 DEF TrackerInv

(* Every step keeps the invariant. *)
THEOREM TrackerPreserved == TrackerInv /\ [TrackerNext]_trackerVars => TrackerInv'
<1> SUFFICES ASSUME TrackerInv, [TrackerNext]_trackerVars PROVE TrackerInv' OBVIOUS
<1>1. ASSUME NEW size \in Size, NEW t \in 0..EndTime, Enqueue(size, t) PROVE TrackerInv'
  <2>1. Append(queue, size) \in Seq(Size) BY DEF TrackerInv
  <2> QED BY <1>1, <2>1, CallbacksKeep DEF Enqueue
<1>2. ASSUME NEW t \in 0..EndTime, Dequeue(t) PROVE TrackerInv'
  <2>1. Tail(queue) \in Seq(Size) BY <1>2 DEF TrackerInv, Dequeue
  <2> QED BY <1>2, <2>1, CallbacksKeep DEF Dequeue
<1>3. ASSUME WriteResults PROVE TrackerInv'
  <2>1. /\ ~written /\ now' = EndTime /\ written' = TRUE
        /\ failed' = (InThePast(pktLog, EndTime) \/ InThePast(byteLog, EndTime))
        /\ pktLog' = FinalizedLog(pktLog, EndTime)
        /\ byteLog' = FinalizedLog(byteLog, EndTime)
        /\ UNCHANGED <<queue, pkts, bytes>>
    BY <1>3 DEF WriteResults
  <2>2. /\ LogInv(pktLog, pkts, Values) /\ LogInv(byteLog, bytes, Values)
        /\ DOMAIN pkts = 0..EndTime /\ DOMAIN bytes = 0..EndTime /\ queue \in Seq(Size)
    BY <2>1 DEF TrackerInv, InStep
  <2>3. IsHistory(pktLog'.log, pkts') /\ IsHistory(byteLog'.log, bytes')
    BY <2>1, <2>2, FinalizedIsHistory
  <2>4. /\ pktLog.check \in Nat /\ byteLog.check \in Nat
        /\ pktLog.check <= EndTime /\ byteLog.check <= EndTime
    BY <2>2, FieldFacts DEF LogInv
  <2>5. failed' = FALSE
    <3>1. ~InThePast(pktLog, EndTime) /\ ~InThePast(byteLog, EndTime)
      BY <2>4, QueueTrackerAssumption DEF InThePast
    <3> QED BY <2>1, <3>1, Zenon
  <2>6. now' \in 0..EndTime BY <2>1, QueueTrackerAssumption
  <2>7. (written => IsHistory(pktLog.log, pkts) /\ IsHistory(byteLog.log, bytes))'
    BY <2>3
  <2> QED BY <2>1, <2>2, <2>5, <2>6, <2>7 DEF TrackerInv
<1>4. CASE UNCHANGED trackerVars
  BY <1>4 DEF TrackerInv, InStep, trackerVars, IsHistory, Chained, Truthful, Merged, LogInv,
              OneMoment, TwoIntervals, Prefix
<1> QED BY <1>1, <1>2, <1>3, <1>4 DEF TrackerNext

(* So it holds of every state. *)
LEMMA TrackerInvHolds == TrackerSpec => []TrackerInv
<1> QED BY TrackerInitially, TrackerPreserved, PTL DEF TrackerSpec

(***************************************************************************)
(* Both written logs are the run-length encodings of what the queue really *)
(* held, for every length of the run and every traffic: the log of the     *)
(* packets in it,                                                          *)
(***************************************************************************)
THEOREM PktQueueLogIsHistory == TrackerSpec => []PktLogIsHistory
<1>1. TrackerInv => PktLogIsHistory BY DEF TrackerInv, IsHistory, PktLogIsHistory
<1> QED BY <1>1, TrackerInvHolds, PTL

(* and that of the bytes in it. *)
THEOREM ByteQueueLogIsHistory == TrackerSpec => []ByteLogIsHistory
<1>1. TrackerInv => ByteLogIsHistory BY DEF TrackerInv, IsHistory, ByteLogIsHistory
<1> QED BY <1>1, TrackerInvHolds, PTL

-----------------------------------------------------------------------------
(***************************************************************************)
(* The bytes of a queue.  The community modules sum by a recursive         *)
(* function on the subsets of a set; its equation has one solution, the    *)
(* number of pairs of a position and one of the units at it.               *)
(***************************************************************************)
Pick(R) == CHOOSE i \in R : TRUE
IsSum(g, q, T) == g = [R \in SUBSET T |-> IF R = {} THEN 0 ELSE q[Pick(R)] + g[R \ {Pick(R)}]]
Units(q, R) == UNION {{i} \X (0..(q[i] - 1)) : i \in R}

(* The equation has one solution. *)
LEMMA SumUnique ==
    ASSUME NEW q, NEW T, IsFiniteSet(T), NEW f, NEW g, IsSum(f, q, T), IsSum(g, q, T)
    PROVE  f[T] = g[T]
<1> DEFINE Bad == {R \in SUBSET T : f[R] # g[R]}
           Sizes == {Cardinality(R) : R \in Bad}
<1>1. SUFFICES ASSUME Bad # {} PROVE FALSE OBVIOUS
<1>2. \A R \in SUBSET T : IsFiniteSet(R) /\ Cardinality(R) \in Nat
  <2> TAKE R \in SUBSET T
  <2>1. IsFiniteSet(R) BY FS_Subset
  <2> QED BY <2>1, FS_CardinalityType
<1>3. Sizes \subseteq Nat /\ Sizes # {} BY <1>1, <1>2
<1>4. PICK n \in Sizes : \A m \in Sizes : n <= m
  <2> HIDE DEF Sizes
  <2> QED BY <1>3, LeastElement
<1>5. PICK R \in Bad : n = Cardinality(R) OBVIOUS
<1>6. /\ f[R] = IF R = {} THEN 0 ELSE q[Pick(R)] + f[R \ {Pick(R)}]
      /\ g[R] = IF R = {} THEN 0 ELSE q[Pick(R)] + g[R \ {Pick(R)}]
  BY Zenon DEF IsSum
<1>7. R # {} /\ R \in SUBSET T BY <1>6
<1>8. PICK x : x = Pick(R) OBVIOUS
<1>9. x \in R BY <1>7, <1>8 DEF Pick
<1>10. R \ {x} \in SUBSET T /\ Cardinality(R \ {x}) = n - 1
  BY <1>2, <1>5, <1>7, <1>9, FS_RemoveElement
<1>11. f[R \ {x}] # g[R \ {x}] BY <1>6, <1>7, <1>8
<1>12. n - 1 \in Sizes BY <1>10, <1>11
<1>13. n \in Nat /\ n <= n - 1 BY <1>3, <1>4, <1>12
<1> QED BY <1>13

(* One position more. *)
LEMMA UnitsOneMore ==
    ASSUME NEW T, IsFiniteSet(T), NEW q, \A i \in T : q[i] \in Nat, NEW R \in SUBSET T, NEW x \in R
    PROVE  /\ Cardinality(Units(q, R)) = q[x] + Cardinality(Units(q, R \ {x}))
           /\ Cardinality(Units(q, R)) \in Nat
<1> DEFINE A(i) == {i} \X (0..(q[i] - 1))
           B == Units(q, R \ {x})
<1>1. ASSUME NEW i \in T PROVE IsFiniteSet(A(i)) /\ Cardinality(A(i)) = q[i]
  <2>1. PICK m \in Nat : m = q[i] OBVIOUS
  <2>2. IsFiniteSet(0..(m - 1)) /\ Cardinality(0..(m - 1)) = m
    <3>1. 0 \in Int /\ m - 1 \in Int /\ (IF 0 > m - 1 THEN 0 ELSE (m - 1) - 0 + 1) = m OBVIOUS
    <3> QED BY <3>1, FS_Interval
  <2>3. IsFiniteSet({i}) /\ Cardinality({i}) = 1 BY FS_Singleton
  <2>4. IsFiniteSet({i} \X (0..(m - 1))) /\ Cardinality({i} \X (0..(m - 1))) = 1 * m
    <3> DEFINE X == {i}
               Y == 0..(m - 1)
    <3> HIDE DEF X, Y
    <3>1. IsFiniteSet(X) /\ IsFiniteSet(Y) /\ Cardinality(X) = 1 /\ Cardinality(Y) = m
      BY <2>2, <2>3 DEF X, Y
    <3>2. IsFiniteSet(X \X Y) /\ Cardinality(X \X Y) = Cardinality(X) * Cardinality(Y)
      BY ONLY <3>1, FS_Product
    <3> QED BY ONLY <3>1, <3>2 DEF X, Y
  <2>5. 1 * m = m OBVIOUS
  <2> QED BY <2>1, <2>4, <2>5
<1>2. Units(q, R) = A(x) \cup B BY Zenon DEF Units
<1>3. A(x) \cap B = {} BY DEF Units
<1>4. IsFiniteSet(B)
  <2> DEFINE F == {A(i) : i \in R \ {x}}
             f == [i \in R \ {x} |-> A(i)]
  <2> HIDE DEF A
  <2>1. IsFiniteSet(R \ {x}) BY FS_Subset
  <2>2. f \in Surjection(R \ {x}, F) BY DEF Surjection
  <2>3. IsFiniteSet(F) BY <2>1, <2>2, FS_Surjection, Zenon
  <2>4. \A S \in F : IsFiniteSet(S) BY <1>1
  <2>5. B = UNION F BY DEF Units, A
  <2> QED BY <2>3, <2>4, <2>5, FS_UNION
<1>5. IsFiniteSet(A(x)) /\ Cardinality(A(x)) = q[x] BY <1>1
<1>6. q[x] \in Nat /\ Cardinality(B) \in Nat BY <1>4, FS_CardinalityType
<1> HIDE DEF A, B
<1>7. Cardinality(A(x) \cup B) = Cardinality(A(x)) + Cardinality(B) - Cardinality(A(x) \cap B)
  BY <1>4, <1>5, FS_Union
<1>8. Cardinality(A(x) \cap B) = 0 BY <1>3, FS_EmptySet
<1> QED BY <1>2, <1>5, <1>6, <1>7, <1>8 DEF B

(* So the bytes of a queue are a number. *)
LEMMA BytesAreUnits ==
    ASSUME NEW q \in Seq(Nat)
    PROVE  BytesIn(q) = Cardinality(Units(q, DOMAIN q)) /\ BytesIn(q) \in Nat
<1> DEFINE T == DOMAIN q
           c == [R \in SUBSET T |-> Cardinality(Units(q, R))]
<1>1. IsFiniteSet(T) /\ \A i \in T : q[i] \in Nat
  <2>1. Len(q) \in Int /\ 1 \in Int /\ T = 1..Len(q) OBVIOUS
  <2>2. IsFiniteSet(1..Len(q)) BY <2>1, FS_Interval
  <2> QED BY <2>1, <2>2
<1> HIDE DEF T
<1>2. Cardinality(Units(q, {})) = 0
  <2>1. Units(q, {}) = {} BY DEF Units
  <2> QED BY <2>1, FS_EmptySet
<1>3. IsSum(c, q, T)
  <2>1. ASSUME NEW R \in SUBSET T
        PROVE  c[R] = IF R = {} THEN 0 ELSE q[Pick(R)] + c[R \ {Pick(R)}]
    <3>1. CASE R = {} BY <1>2, <3>1
    <3>2. CASE R # {}
      <4>1. PICK x : x = Pick(R) OBVIOUS
      <4>2. x \in R BY <3>2, <4>1 DEF Pick
      <4>3. R \ {x} \in SUBSET T OBVIOUS
      <4>4. Cardinality(Units(q, R)) = q[x] + Cardinality(Units(q, R \ {x}))
        BY <1>1, <4>2, UnitsOneMore
      <4> QED BY <3>2, <4>1, <4>3, <4>4
    <3> QED BY <3>1, <3>2
  <2> QED BY <2>1 DEF IsSum
<1>4. PICK f : f = CHOOSE g : IsSum(g, q, T) OBVIOUS
<1>5. IsSum(f, q, T)
  <2> HIDE DEF c
  <2> QED BY <1>3, <1>4
<1>6. f[T] = c[T]
  <2> HIDE DEF c
  <2> QED BY <1>1, <1>3, <1>5, SumUnique
<1>7. BytesIn(q) = f[T]
  BY <1>4 DEF BytesIn, MapThenSumSet, MapThenFoldSet, IsSum, Pick, T
<1>8. Cardinality(Units(q, T)) \in Nat
  <2>1. CASE T = {} BY <1>2, <2>1
  <2>2. CASE T # {} BY <1>1, <2>2, UnitsOneMore
  <2> QED BY <2>1, <2>2
<1> QED BY <1>6, <1>7, <1>8 DEF T

(***************************************************************************)
(* The types.  Once beta has begun, the value of alpha is known.           *)
(***************************************************************************)
LogType(l) == l \in LogState /\ (l.beta # None => l.alphaValue # None)
TrackerTypeInv ==
    TypeOK /\ (pktLog.beta # None => pktLog.alphaValue # None)
           /\ (byteLog.beta # None => byteLog.alphaValue # None)

(* The types of the fields. *)
LEMMA LogFields ==
    ASSUME NEW l \in LogState
    PROVE  /\ l.log \in Seq(Entry(Nat)) /\ l.last \in Nat /\ l.check \in Nat /\ l.alpha \in Nat
           /\ l.alphaValue \in Nat \cup {None} /\ l.beta \in Nat \cup {None}
BY DEF LogState, Entry

(* An update by a value that is a number, *)
LEMMA UpdatedType ==
    ASSUME NEW l, LogType(l), NEW t \in Nat, NEW v \in Nat
    PROVE  LogType(Updated(l, t, v))
<1> DEFINE m == NextMoment(l, t)
<1>1. l \in LogState /\ (l.beta # None => l.alphaValue # None) BY DEF LogType
<1>2. /\ l.log \in Seq(Entry(Nat)) /\ l.last \in Nat /\ l.check \in Nat /\ l.alpha \in Nat
      /\ l.alphaValue \in Nat \cup {None} /\ l.beta \in Nat \cup {None}
  BY <1>1, LogFields
<1>3. l.alpha # None /\ t # None BY <1>2 DEF None
<1>4. m \in LogState /\ (m.beta # None => m.alphaValue # None)
  <2>1. CASE l.beta = None
    <3>1. m = [l EXCEPT !.beta = t, !.alphaValue = l.last] BY <1>3, <2>1 DEF NextMoment
    <3> DEFINE w == l.last
    <3>2. w \in Nat /\ w # None BY <1>2 DEF None
    <3> HIDE DEF w
    <3>3. [l EXCEPT !.beta = t, !.alphaValue = w] \in LogState BY <1>1, <3>2 DEF LogState
    <3>4. [l EXCEPT !.beta = t, !.alphaValue = w].alphaValue = w BY <1>1 DEF LogState
    <3>5. m = [l EXCEPT !.beta = t, !.alphaValue = w] BY <3>1 DEF w
    <3> HIDE DEF m
    <3> QED BY <3>2, <3>3, <3>4, <3>5
  <2>2. CASE l.beta # None /\ l.alphaValue = l.last
    <3>1. m = [l EXCEPT !.beta = t] BY <1>3, <2>2 DEF NextMoment
    <3> HIDE DEF m
    <3>2. m \in LogState /\ m.alphaValue = l.alphaValue BY <1>1, <3>1 DEF LogState
    <3> QED BY <1>1, <2>2, <3>2
  <2>3. CASE l.beta # None /\ l.alphaValue # l.last
    <3> DEFINE w == l.last
               b == l.beta
               i == Interval(l.alpha, l.beta, l.alphaValue)
               new == Append(l.log, i)
    <3>1. m = [l EXCEPT !.log = new, !.alpha = b, !.alphaValue = w, !.beta = t]
      BY <1>3, <2>3 DEF NextMoment, PushAlpha
    <3>2. l.alphaValue \in Nat /\ b \in Nat /\ w \in Nat /\ w # None
      BY <1>1, <1>2, <2>3 DEF None
    <3>3. i \in Entry(Nat) BY <1>2, <3>2 DEF Interval, Entry
    <3>4. new \in Seq(Entry(Nat))
      <4> HIDE DEF i
      <4> QED BY <1>2, <3>3
    <3> HIDE DEF w, b, new, m, i
    <3>5. m \in LogState BY <1>1, <3>1, <3>2, <3>4 DEF LogState, Entry
    <3>6. m.alphaValue = w BY <1>1, <3>1 DEF LogState
    <3> QED BY <3>2, <3>5, <3>6
  <2> QED BY <2>1, <2>2, <2>3
<1> HIDE DEF m
<1>5. PICK u \in LogState :
        /\ u = IF t > l.check THEN [m EXCEPT !.check = t] ELSE l
        /\ u.beta # None => u.alphaValue # None
  <2>1. [m EXCEPT !.check = t] \in LogState BY <1>4 DEF LogState
  <2>2. /\ [m EXCEPT !.check = t].beta = m.beta
        /\ [m EXCEPT !.check = t].alphaValue = m.alphaValue
    BY <1>4 DEF LogState
  <2>3. CASE t > l.check BY <1>4, <2>1, <2>2, <2>3
  <2>4. CASE ~ (t > l.check) BY <1>1, <2>4
  <2> QED BY <2>3, <2>4
<1>6. Updated(l, t, v) = [u EXCEPT !.last = v]
  <2>1. CASE t > l.check
    <3>1. Updated(l, t, v) = [[m EXCEPT !.check = t] EXCEPT !.last = v] BY <2>1 DEF Updated, m
    <3>2. u = [m EXCEPT !.check = t] BY <1>5, <2>1
    <3> QED BY <3>1, <3>2
  <2>2. CASE ~ (t > l.check)
    <3>1. Updated(l, t, v) = [l EXCEPT !.last = v] BY <2>2 DEF Updated
    <3>2. u = l BY <1>5, <2>2
    <3> QED BY <3>1, <3>2
  <2> QED BY <2>1, <2>2
<1>7. [u EXCEPT !.last = v] \in LogState BY DEF LogState
<1>8. [u EXCEPT !.last = v].beta = u.beta /\ [u EXCEPT !.last = v].alphaValue = u.alphaValue
  BY DEF LogState
<1> QED BY <1>5, <1>6, <1>7, <1>8 DEF LogType

(* and the end. *)
LEMMA FinalizedType ==
    ASSUME NEW l, LogType(l), NEW t \in Nat
    PROVE  LogType(FinalizedLog(l, t))
<1>1. l \in LogState /\ (l.beta # None => l.alphaValue # None) BY DEF LogType
<1>2. /\ l.log \in Seq(Entry(Nat)) /\ l.last \in Nat /\ l.check \in Nat /\ l.alpha \in Nat
      /\ l.alphaValue \in Nat \cup {None} /\ l.beta \in Nat \cup {None}
  BY <1>1, LogFields
<1>3. \A a, b, w \in Nat : Interval(a, b, w) \in Entry(Nat) BY DEF Interval, Entry
<1>4. \A i \in Entry(Nat) : IfNotEmpty(i) \in Seq(Entry(Nat))
  <2> TAKE i \in Entry(Nat)
  <2>1. <<i>> \in Seq(Entry(Nat)) OBVIOUS
  <2> QED BY <2>1 DEF IfNotEmpty
<1>5. Remaining(l, t) \in Seq(Entry(Nat))
  <2>1. CASE l.alpha = None BY <2>1 DEF Remaining
  <2>2. CASE l.alpha # None /\ l.beta = None
    <3>1. Remaining(l, t) = IfNotEmpty(Interval(l.alpha, t, l.last)) BY <2>2 DEF Remaining
    <3> QED BY <1>2, <1>3, <1>4, <3>1
  <2>3. CASE l.alpha # None /\ l.beta # None
    <3>1. l.beta \in Nat /\ l.alphaValue \in Nat BY <1>1, <1>2, <2>3
    <3>2. CASE l.alphaValue = l.last
      <4>1. Remaining(l, t) = <<Interval(l.alpha, t, l.alphaValue)>> BY <2>3, <3>2 DEF Remaining
      <4> QED BY <1>2, <1>3, <3>1, <4>1
    <3>3. CASE l.alphaValue # l.last
      <4>1. Remaining(l, t) = <<Interval(l.alpha, l.beta, l.alphaValue)>>
                                  \o IfNotEmpty(Interval(l.beta, t, l.last))
        BY <2>3, <3>3 DEF Remaining
      <4>2. <<Interval(l.alpha, l.beta, l.alphaValue)>> \in Seq(Entry(Nat))
        BY <1>2, <1>3, <3>1
      <4>3. IfNotEmpty(Interval(l.beta, t, l.last)) \in Seq(Entry(Nat))
        BY <1>2, <1>3, <1>4, <3>1
      <4>4. \A x, y \in Seq(Entry(Nat)) : x \o y \in Seq(Entry(Nat)) OBVIOUS
      <4> QED BY ONLY <4>1, <4>2, <4>3, <4>4
    <3> QED BY <3>2, <3>3
  <2> QED BY <2>1, <2>2, <2>3
<1>6. PICK new \in Seq(Entry(Nat)) : new = l.log \o Remaining(l, t)
  <2>1. \A x, y \in Seq(Entry(Nat)) : x \o y \in Seq(Entry(Nat)) OBVIOUS
  <2> QED BY ONLY <1>2, <1>5, <2>1
<1>7. FinalizedLog(l, t) = [l EXCEPT !.log = new] BY <1>6 DEF FinalizedLog
<1>8. [l EXCEPT !.log = new] \in LogState BY <1>1 DEF LogState, Entry
<1>9. [l EXCEPT !.log = new].beta = l.beta /\ [l EXCEPT !.log = new].alphaValue = l.alphaValue
  BY <1>1 DEF LogState
<1> QED BY <1>1, <1>7, <1>8, <1>9 DEF LogType

(* The constructor's Update(0, 0). *)
LEMMA TypesInitially == TrackerInit => TrackerTypeInv
<1> SUFFICES ASSUME TrackerInit PROVE TrackerTypeInv OBVIOUS
<1> DEFINE l == Updated(NewLog, 0, 0)
           first == [log |-> <<>>, last |-> 0, check |-> 0, alpha |-> 0,
                     alphaValue |-> None, beta |-> None]
<1>1. l = first
  <2>1. NextMoment(NewLog, 0) = [NewLog EXCEPT !.alpha = 0]
    BY DEF NewLog, NextMoment
  <2>2. 0 > NewLog.check BY DEF NewLog, None
  <2>3. l = [[NextMoment(NewLog, 0) EXCEPT !.check = 0] EXCEPT !.last = 0]
    BY <2>2 DEF Updated
  <2> QED BY <2>1, <2>3 DEF NewLog
<1>2. first \in LogState /\ first.beta = None
  <2>1. <<>> \in Seq([from : Nat, to : Nat, value : Nat]) OBVIOUS
  <2> QED BY <2>1 DEF LogState
<1> HIDE DEF l, first
<1>3. /\ now = 0 /\ queue = <<>> /\ pktLog = l /\ byteLog = l
      /\ failed = FALSE /\ written = FALSE
      /\ pkts = [t \in 0..EndTime |-> 0] /\ bytes = [t \in 0..EndTime |-> 0]
  BY DEF TrackerInit, l
<1>4. now \in 0..EndTime /\ queue \in Seq(Size) /\ Len(queue) <= MaxQueueSize
  BY <1>3, QueueTrackerAssumption
<1>5. pkts \in [0..EndTime -> Nat] /\ bytes \in [0..EndTime -> Nat] BY <1>3
<1>6. pktLog \in LogState /\ byteLog \in LogState /\ pktLog.beta = None /\ byteLog.beta = None
  BY <1>1, <1>2, <1>3
<1>7. failed \in BOOLEAN /\ written \in BOOLEAN BY <1>3
<1> QED BY <1>4, <1>5, <1>6, <1>7 DEF TypeOK, TrackerTypeInv

(* The callbacks. *)
LEMMA CallbacksType ==
    ASSUME TrackerTypeInv, NEW q \in Seq(Size), Len(q) <= MaxQueueSize, NEW t \in 0..EndTime,
           now' = t, Callbacks(q, t), written' = written, queue' = q
    PROVE  TrackerTypeInv'
<1>1. t \in Nat BY QueueTrackerAssumption
<1>2. PICK n \in Nat : n = Len(q) OBVIOUS
<1>3. PICK b \in Nat : b = BytesIn(q)
  <2>1. q \in Seq(Nat)
    <3>1. \A i \in 1..Len(q) : q[i] \in Size OBVIOUS
    <3>2. \A i \in 1..Len(q) : q[i] \in Nat BY <3>1, QueueTrackerAssumption
    <3>3. Len(q) \in Nat /\ q = [i \in 1..Len(q) |-> q[i]] OBVIOUS
    <3> QED BY <3>2, <3>3
  <2> QED BY <2>1, BytesAreUnits
<1>4. /\ failed' = (InThePast(pktLog, t) \/ InThePast(byteLog, t))
      /\ pktLog' = Updated(pktLog, t, n) /\ byteLog' = Updated(byteLog, t, b)
      /\ pkts' = FromOn(pkts, t, n) /\ bytes' = FromOn(bytes, t, b)
  BY <1>2, <1>3 DEF Callbacks
<1>5. LogType(pktLog) /\ LogType(byteLog) BY DEF TrackerTypeInv, TypeOK, LogType
<1>6. LogType(pktLog') /\ LogType(byteLog') BY <1>1, <1>4, <1>5, UpdatedType
<1>7. failed' \in BOOLEAN BY <1>4 DEF InThePast
<1>8. pkts' \in [0..EndTime -> Nat] /\ bytes' \in [0..EndTime -> Nat]
  BY <1>4 DEF FromOn, TrackerTypeInv, TypeOK
<1>9. written' \in BOOLEAN BY DEF TrackerTypeInv, TypeOK
<1> QED BY <1>6, <1>7, <1>8, <1>9 DEF TrackerTypeInv, TypeOK, LogType

(* Every step keeps the types. *)
LEMMA TypesPreserved == TrackerTypeInv /\ [TrackerNext]_trackerVars => TrackerTypeInv'
<1> SUFFICES ASSUME TrackerTypeInv, [TrackerNext]_trackerVars PROVE TrackerTypeInv' OBVIOUS
<1>1. queue \in Seq(Size) /\ Len(queue) <= MaxQueueSize /\ MaxQueueSize \in Nat
  BY QueueTrackerAssumption DEF TrackerTypeInv, TypeOK
<1>2. ASSUME NEW size \in Size, NEW t \in 0..EndTime, Enqueue(size, t) PROVE TrackerTypeInv'
  <2>1. Append(queue, size) \in Seq(Size) /\ Len(Append(queue, size)) = Len(queue) + 1 BY <1>1
  <2>2. Len(queue) \in Nat /\ Len(queue) < MaxQueueSize BY <1>1, <1>2 DEF Enqueue
  <2>3. Len(Append(queue, size)) <= MaxQueueSize BY <1>1, <2>1, <2>2
  <2> QED BY <1>2, <2>1, <2>3, CallbacksType DEF Enqueue
<1>3. ASSUME NEW t \in 0..EndTime, Dequeue(t) PROVE TrackerTypeInv'
  <2>1. queue # <<>> BY <1>3 DEF Dequeue
  <2>2. Tail(queue) \in Seq(Size) /\ Len(Tail(queue)) = Len(queue) - 1 /\ Len(queue) \in Nat
    BY <1>1, <2>1
  <2>3. Len(Tail(queue)) <= MaxQueueSize BY <1>1, <2>2
  <2> QED BY <1>3, <2>2, <2>3, CallbacksType DEF Dequeue
<1>4. ASSUME WriteResults PROVE TrackerTypeInv'
  <2>1. /\ now' = EndTime /\ written' = TRUE
        /\ failed' = (InThePast(pktLog, EndTime) \/ InThePast(byteLog, EndTime))
        /\ pktLog' = FinalizedLog(pktLog, EndTime)
        /\ byteLog' = FinalizedLog(byteLog, EndTime)
        /\ queue' = queue /\ pkts' = pkts /\ bytes' = bytes
    BY <1>4 DEF WriteResults
  <2>2. EndTime \in Nat /\ EndTime \in 0..EndTime BY QueueTrackerAssumption
  <2>3. LogType(pktLog) /\ LogType(byteLog) BY DEF TrackerTypeInv, TypeOK, LogType
  <2>4. LogType(pktLog') /\ LogType(byteLog') BY <2>1, <2>2, <2>3, FinalizedType
  <2>5. failed' \in BOOLEAN BY <2>1 DEF InThePast
  <2> QED BY <2>1, <2>2, <2>4, <2>5 DEF TrackerTypeInv, TypeOK, LogType
<1>5. CASE UNCHANGED trackerVars BY <1>5 DEF TrackerTypeInv, TypeOK, trackerVars
<1> QED BY <1>2, <1>3, <1>4, <1>5 DEF TrackerNext

(***************************************************************************)
(* The tracker's and its helpers' variables have their types, whatever the *)
(* traffic: no value of a moment that has not come gets into a log, and no *)
(* sum of the bytes in a queue falls below zero.                           *)
(***************************************************************************)
THEOREM QueueTrackerTypeOK == TrackerSpec => []TypeOK
<1>1. TrackerTypeInv => TypeOK BY DEF TrackerTypeInv
<1> QED BY <1>1, TypesInitially, TypesPreserved, PTL DEF TrackerSpec
=============================================================================
