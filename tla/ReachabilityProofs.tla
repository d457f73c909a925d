-------------------------- MODULE ReachabilityProofs --------------------------
(***************************************************************************)
(* That propagation comes out where following every path does, that what   *)
(* the tracker counts on the way adds up, and that what is read from it,   *)
(* the scope's outputs and is_global, is what the paths say: for any scope *)
(* without a cycle that keeps the time.                                    *)
(*                                                                         *)
(* And, at the end, that FpgaWrapper keeps its promises when it is checked *)
(* beside the tracker.                                                     *)
(***************************************************************************)
EXTENDS MCReachability, FiniteSetTheorems, TLAPS

\* q is at the port of p, and no later.
Below(q, p) == q[1] = p[1] /\ Leq(q[2], p[2])

\* What of S has nothing of S before it at its port.
Earliests(S) == {p \in S : \A q \in S : Below(q, p) => q = p}

\* Some member of A is at or before each member of B.
Covers(A, B) == \A b \in B : \E a \in A : Below(a, b)

\* What the members of P lead to.
Reach(P) == {e[2] : e \in {d \in LeadsTo : d[1] \in P}}

-----------------------------------------------------------------------------
(* Least numbers and counting *)

LEMMA LeastNumber ==
  ASSUME NEW S, S \subseteq Nat, S # {}
  PROVE  \E m \in S : \A s \in S : m <= s
<1>1. PICK m \in S : \A s \in S : ~(<<s, m>> \in OpToRel(<, Nat))
  BY NatLessThanWellFounded, WFMin
<1>2. ASSUME NEW s \in S PROVE m <= s
  <2> SUFFICES ASSUME s < m PROVE FALSE
    OBVIOUS
  <2>1. s \in Nat /\ m \in Nat /\ s < m
    OBVIOUS
  <2>2. <<s, m>> \in OpToRel(<, Nat)
    BY <2>1 DEF OpToRel
  <2> QED
    BY <1>1, <2>2
<1> QED
  BY <1>2

\* A set with a rank for each member has a member of the least rank.
LEMMA LeastRank ==
  ASSUME NEW S, S # {}, NEW rank, \A s \in S : rank[s] \in Nat
  PROVE  \E m \in S : \A s \in S : rank[m] <= rank[s]
<1> DEFINE R == {rank[s] : s \in S}
<1>1. R \subseteq Nat /\ R # {}
  OBVIOUS
<1>2. PICK n \in R : \A k \in R : n <= k
  <2> HIDE DEF R
  <2> QED
    BY <1>1, LeastNumber
<1> QED
  BY <1>2

LEMMA Counting ==
  ASSUME NEW Good, 0 \in Good, \A n \in Nat : n \in Good => n + 1 \in Good
  PROVE  Nat \subseteq Good
<1> SUFFICES ASSUME Nat \ Good # {} PROVE FALSE
  OBVIOUS
<1>1. PICK m \in Nat \ Good : \A s \in Nat \ Good : m <= s
  <2>1. Nat \ Good \subseteq Nat
    OBVIOUS
  <2> QED
    BY <2>1, LeastNumber
<1>2. m # 0 /\ m - 1 \in Nat /\ (m - 1) + 1 = m
  BY <1>1
<1>3. m - 1 \in Good
  BY <1>1, <1>2
<1> QED
  BY <1>1, <1>2, <1>3

-----------------------------------------------------------------------------
(* Pointstamps and their order *)

LEMMA Finite ==
  /\ IsFiniteSet(Pointstamp)
  /\ Cardinality(Pointstamp) = Cardinality(Port) * Cardinality(Time)
  /\ Cardinality(Pointstamp) \in Nat
BY PortsAssumption, FS_Product, FS_CardinalityType DEF Pointstamp

LEMMA PointstampMeans ==
  \A p : p \in Pointstamp <=> p = <<p[1], p[2]>> /\ p[1] \in Port /\ p[2] \in Time
BY DEF Pointstamp

LEMMA BelowOrder ==
  /\ \A p \in Pointstamp : Below(p, p)
  /\ \A p, q \in Pointstamp : Below(p, q) /\ Below(q, p) => p = q
  /\ \A p, q, r \in Pointstamp : Below(p, q) /\ Below(q, r) => Below(p, r)
BY LeqPartialOrder, PointstampMeans DEF Below

\* Something earliest is at or before each member of a set.
LEMMA EarliestBelow ==
  ASSUME NEW S, S \subseteq Pointstamp, NEW p \in S
  PROVE  \E m \in Earliests(S) : Below(m, p)
<1> DEFINE down(q) == {t \in Time : Leq(t, q[2])}
           rank == [q \in Pointstamp |-> Cardinality(down(q))]
           before == {q \in S : Below(q, p)}
<1>1. \A q \in Pointstamp : IsFiniteSet(down(q)) /\ rank[q] = Cardinality(down(q)) /\ rank[q] \in Nat
  <2>1. \A q : IsFiniteSet(down(q)) /\ Cardinality(down(q)) \in Nat
    <3> SUFFICES ASSUME NEW q PROVE IsFiniteSet(down(q)) /\ Cardinality(down(q)) \in Nat
      OBVIOUS
    <3>1. down(q) \subseteq Time
      OBVIOUS
    <3> QED
      BY <3>1, PortsAssumption, FS_Subset, FS_CardinalityType
  <2> QED
    BY <2>1
<1>2. p \in before /\ before \subseteq Pointstamp
  BY BelowOrder
<1>3. PICK m \in before : \A q \in before : rank[m] <= rank[q]
  <2> HIDE DEF before, rank
  <2> QED
    BY <1>1, <1>2, LeastRank
<1>4. ASSUME NEW q \in S, Below(q, m), q # m PROVE FALSE
  <2>1. q \in before
    BY <1>2, <1>3, <1>4, BelowOrder
  <2>2. m \in Pointstamp /\ q \in Pointstamp /\ Leq(q[2], m[2]) /\ ~Leq(m[2], q[2])
    BY <1>2, <1>4, BelowOrder DEF Below
  <2>3. down(q) \subseteq down(m) /\ m[2] \in down(m) \ down(q)
    BY <2>2, PointstampMeans, LeqPartialOrder
  <2>4. Cardinality(down(q)) <= Cardinality(down(m)) /\ Cardinality(down(q)) # Cardinality(down(m))
    <3>1. IsFiniteSet(down(m)) /\ down(q) \in SUBSET down(m) /\ down(m) # down(q)
      BY <1>1, <2>2, <2>3
    <3> QED
      BY <3>1, FS_Subset
  <2>5. rank[m] <= rank[q] /\ rank[m] \in Nat /\ rank[q] \in Nat
    BY <1>1, <1>3, <2>1, <2>2
  <2>6. rank[m] = Cardinality(down(m)) /\ rank[q] = Cardinality(down(q))
    BY <1>1, <2>2
  <2> HIDE DEF rank, down
  <2> QED
    BY <2>4, <2>5, <2>6
<1> QED
  BY <1>3, <1>4 DEF Earliests

\* Two sets each of which covers the other have the same earliest members.
LEMMA EarliestShared ==
  ASSUME NEW S, S \subseteq Pointstamp, NEW T, T \subseteq Pointstamp,
         Covers(S, T), Covers(T, S), NEW x \in Earliests(S)
  PROVE  x \in Earliests(T)
<1>1. x \in S /\ x \in Pointstamp /\ \A q \in S : Below(q, x) => q = x
  BY DEF Earliests
<1>2. PICK t \in T : Below(t, x)
  BY <1>1 DEF Covers
<1>3. PICK s \in S : Below(s, t)
  BY DEF Covers
<1>4. s = x /\ t = x
  BY <1>1, <1>2, <1>3, BelowOrder
<1>5. ASSUME NEW y \in T, Below(y, x) PROVE y = x
  <2>1. PICK a \in S : Below(a, y)
    BY DEF Covers
  <2>2. a = x
    BY <1>1, <1>5, <2>1, BelowOrder
  <2> QED
    BY <1>1, <1>5, <2>1, <2>2, BelowOrder
<1> QED
  BY <1>4, <1>5 DEF Earliests

LEMMA SameEarliest ==
  ASSUME NEW A, A \subseteq Pointstamp, NEW B, B \subseteq Pointstamp,
         Covers(A, B), Covers(B, A)
  PROVE  Earliests(A) = Earliests(B)
<1>1. \A x \in Earliests(A) : x \in Earliests(B)
  BY EarliestShared
<1>2. \A x \in Earliests(B) : x \in Earliests(A)
  BY EarliestShared
<1> QED
  BY <1>1, <1>2

\* A frontier is what is earliest of what is counted.
LEMMA FrontierMeans ==
  ASSUME NEW counts
  PROVE  Frontier(counts) = Earliests({p \in Pointstamp : counts[p] > 0})
<1> DEFINE P == {p \in Pointstamp : counts[p] > 0}
<1>1. ASSUME NEW p \in Frontier(counts) PROVE p \in Earliests(P)
  <2>1. PICK port \in Port : p \in {port} \X Minimal({t \in Time : counts[<<port, t>>] > 0})
    BY <1>1 DEF Frontier
  <2>2. p = <<port, p[2]>> /\ p[2] \in Minimal({t \in Time : counts[<<port, t>>] > 0})
    BY <2>1
  <2>3. p \in P
    BY <2>2 DEF Minimal, Pointstamp
  <2>4. ASSUME NEW q \in P, Below(q, p) PROVE q = p
    <3>1. q = <<port, q[2]>> /\ q[2] \in Time /\ counts[<<port, q[2]>>] > 0 /\ Leq(q[2], p[2])
      BY <2>2, <2>4, PointstampMeans DEF Below
    <3>2. q[2] = p[2]
      BY <2>2, <3>1 DEF Minimal
    <3> QED
      BY <2>2, <3>1, <3>2
  <2> QED
    BY <2>3, <2>4 DEF Earliests
<1>2. ASSUME NEW p \in Earliests(P) PROVE p \in Frontier(counts)
  <2>1. p = <<p[1], p[2]>> /\ p[1] \in Port /\ p[2] \in Time /\ counts[<<p[1], p[2]>>] > 0
    BY <1>2, PointstampMeans DEF Earliests
  <2>2. ASSUME NEW t \in Time, counts[<<p[1], t>>] > 0, Leq(t, p[2]) PROVE t = p[2]
    <3>1. <<p[1], t>> \in P /\ Below(<<p[1], t>>, p)
      BY <2>1, <2>2 DEF Below, Pointstamp
    <3>2. <<p[1], t>> = p
      BY <1>2, <3>1 DEF Earliests
    <3> QED
      BY <2>1, <3>2
  <2>3. p[2] \in Minimal({t \in Time : counts[<<p[1], t>>] > 0})
    BY <2>1, <2>2 DEF Minimal
  <2>4. p \in {p[1]} \X Minimal({t \in Time : counts[<<p[1], t>>] > 0})
    BY <2>1, <2>3
  <2> QED
    BY <2>1, <2>4 DEF Frontier
<1> QED
  BY <1>1, <1>2

LEMMA FrontierIn ==
  ASSUME NEW counts
  PROVE  /\ Frontier(counts) \subseteq Pointstamp /\ IsFiniteSet(Frontier(counts))
         /\ \A p \in Frontier(counts) : counts[p] > 0
<1>1. Frontier(counts) \subseteq Pointstamp /\ \A p \in Frontier(counts) : counts[p] > 0
  BY FrontierMeans DEF Earliests
<1> QED
  BY <1>1, Finite, FS_Subset

LEMMA ImpliedMeans == ASSUME NEW P PROVE Implied(P) = Earliests(Reach(P))
BY DEF Implied, Earliests, Reach, Below

-----------------------------------------------------------------------------
(* Paths *)

Stays == {<<p, p>> : p \in Pointstamp}

Round(near) ==
  near \cup {<<x[1][1], x[2][2]>> : x \in {y \in near \X Hop : y[1][2] = y[2][1]}}

\* f is the first n rounds.
Rounds(f, n) == f = [i \in 0 .. n |-> IF i = 0 THEN Stays ELSE Round(f[i - 1])]

LEMMA RoundsAgree ==
  ASSUME NEW m \in Nat, NEW n \in Nat, NEW f, Rounds(f, m), NEW g, Rounds(g, n)
  PROVE  \A i \in 0 .. m : i <= n => f[i] = g[i]
<1> DEFINE Good == {i \in Nat : i <= m /\ i <= n => f[i] = g[i]}
<1>1. 0 \in Good
  BY DEF Rounds
<1>2. ASSUME NEW i \in Nat, i \in Good PROVE i + 1 \in Good
  <2> SUFFICES ASSUME i + 1 <= m, i + 1 <= n PROVE f[i + 1] = g[i + 1]
    OBVIOUS
  <2>1. f[i] = g[i]
    BY <1>2
  <2>2. i + 1 \in 0 .. m /\ i + 1 \in 0 .. n /\ i + 1 # 0 /\ (i + 1) - 1 = i
    OBVIOUS
  <2>3. f[i + 1] = Round(f[i])
    BY <2>2 DEF Rounds
  <2>4. g[i + 1] = Round(g[i])
    BY <2>2 DEF Rounds
  <2> QED
    BY <2>1, <2>3, <2>4
<1>3. Nat \subseteq Good
  <2> HIDE DEF Good
  <2> QED
    BY <1>1, <1>2, Counting
<1> QED
  BY <1>3

LEMMA RoundsExist == \A n \in Nat : \E f : Rounds(f, n)
<1> DEFINE Good == {n \in Nat : \E f : Rounds(f, n)}
<1>1. 0 \in Good
  <2>1. Rounds([i \in 0 .. 0 |-> Stays], 0)
    BY DEF Rounds
  <2> QED
    BY <2>1
<1>2. ASSUME NEW n \in Nat, n \in Good PROVE n + 1 \in Good
  <2>1. PICK f : Rounds(f, n)
    BY <1>2
  <2> DEFINE g == [i \in 0 .. n + 1 |-> IF i = n + 1 THEN Round(f[n]) ELSE f[i]]
  <2>2. ASSUME NEW i \in 0 .. n + 1, i # 0 PROVE g[i] = Round(g[i - 1])
    <3>1. i - 1 \in 0 .. n /\ i - 1 # n + 1 /\ i - 1 \in 0 .. n + 1
      BY <2>2
    <3>2. g[i - 1] = f[i - 1]
      BY <3>1
    <3>3. CASE i = n + 1
      BY <3>2, <3>3
    <3>4. CASE i # n + 1
      <4>1. i \in 0 .. n
        BY <3>4
      <4>2. f[i] = Round(f[i - 1])
        BY <2>1, <2>2, <4>1 DEF Rounds
      <4> QED
        BY <3>2, <3>4, <4>2
    <3> QED
      BY <3>3, <3>4
  <2>3. g[0] = Stays
    BY <2>1 DEF Rounds
  <2>4. \A i \in 0 .. n + 1 : g[i] = IF i = 0 THEN Stays ELSE Round(g[i - 1])
    BY <2>2, <2>3
  <2>5. g = [i \in 0 .. n + 1 |-> IF i = 0 THEN Stays ELSE Round(g[i - 1])]
    <3>1. g = [i \in 0 .. n + 1 |-> g[i]]
      OBVIOUS
    <3> HIDE DEF g
    <3> QED
      BY <2>4, <3>1
  <2> HIDE DEF g
  <2>6. Rounds(g, n + 1)
    BY <2>5 DEF Rounds
  <2> QED
    BY <2>6
<1>3. Nat \subseteq Good
  <2> HIDE DEF Good
  <2> QED
    BY <1>1, <1>2, Counting
<1> QED
  BY <1>3

\* Within is what its definition says: a round more than one hop earlier.
LEMMA WithinRounds ==
  /\ Within[0] = Stays
  /\ \A n \in Nat : Within[n + 1] = Round(Within[n])
<1> DEFINE some(n) == CHOOSE f : Rounds(f, n)
           w == [n \in Nat |-> some(n)[n]]
           Unfolds(v) == v = [n \in Nat |-> IF n = 0 THEN Stays ELSE Round(v[n - 1])]
<1>1. \A n \in Nat : Rounds(some(n), n)
  BY RoundsExist, Zenon
<1>2. ASSUME NEW n \in Nat, n # 0 PROVE w[n] = Round(w[n - 1])
  <2>1. n - 1 \in Nat /\ n - 1 \in 0 .. n /\ n - 1 \in 0 .. n - 1 /\ n \in 0 .. n
    BY <1>2
  <2>2. Rounds(some(n), n) /\ Rounds(some(n - 1), n - 1)
    BY <1>1, <2>1
  <2>3. some(n - 1)[n - 1] = some(n)[n - 1]
    <3> HIDE DEF some
    <3> QED
      BY <2>1, <2>2, RoundsAgree
  <2>4. some(n)[n] = Round(some(n)[n - 1])
    <3> HIDE DEF some
    <3> QED
      BY <1>2, <2>1, <2>2 DEF Rounds
  <2>5. w[n] = some(n)[n] /\ w[n - 1] = some(n - 1)[n - 1]
    <3> HIDE DEF some
    <3> QED
      BY <2>1
  <2> QED
    BY <2>3, <2>4, <2>5
<1>3. w[0] = Stays
  <2>1. Rounds(some(0), 0)
    BY <1>1
  <2> HIDE DEF some
  <2> QED
    BY <2>1 DEF Rounds
<1>4. Unfolds(w)
  <2>1. w = [n \in Nat |-> w[n]]
    OBVIOUS
  <2> HIDE DEF w
  <2> QED
    BY <1>2, <1>3, <2>1
<1>5. Within = CHOOSE v : Unfolds(v)
  BY DEF Within, Stays, Round
<1>6. Unfolds(Within)
  <2> HIDE DEF w, Unfolds
  <2> QED
    BY <1>4, <1>5, Zenon
<1>7. \A n \in Nat : n + 1 \in Nat /\ n + 1 # 0 /\ (n + 1) - 1 = n
  OBVIOUS
<1>8. Within = [n \in Nat |-> IF n = 0 THEN Stays ELSE Round(Within[n - 1])]
  BY <1>6
<1>9. Within[0] = Stays
  BY <1>8
<1>10. ASSUME NEW n \in Nat PROVE Within[n + 1] = Round(Within[n])
  BY <1>7, <1>8
<1> QED
  BY <1>9, <1>10

\* What p leads to in n hops, and one hop more.
From(n, p) == {q \in Pointstamp : <<p, q>> \in Within[n]}

Spread(S) == S \cup {q \in Pointstamp : \E r \in S : <<r, q>> \in Hop}

LEMMA HopIn ==
  \A p, q : <<p, q>> \in Hop <=> p \in Pointstamp /\ q \in Pointstamp /\ Hops(p, q) # {}
BY DEF Hop

LEMMA RoundMeans ==
  ASSUME NEW near, near \subseteq Pointstamp \X Pointstamp, NEW p, NEW q
  PROVE  <<p, q>> \in Round(near) <=>
           <<p, q>> \in near \/ \E r : <<p, r>> \in near /\ <<r, q>> \in Hop
<1>1. ASSUME <<p, q>> \in Round(near), <<p, q>> \notin near
      PROVE  \E r : <<p, r>> \in near /\ <<r, q>> \in Hop
  <2>1. PICK x \in {y \in near \X Hop : y[1][2] = y[2][1]} : <<p, q>> = <<x[1][1], x[2][2]>>
    BY <1>1 DEF Round
  <2>2. x[1] \in near /\ x[2] \in Hop /\ x[1][2] = x[2][1]
    BY <2>1
  <2>3. x[1] = <<x[1][1], x[1][2]>> /\ x[2] = <<x[2][1], x[2][2]>>
    BY <2>2 DEF Hop
  <2>4. x[1][1] = p /\ x[2][2] = q
    BY <2>1
  <2> QED
    BY <2>2, <2>3, <2>4
<1>2. ASSUME NEW r, <<p, r>> \in near, <<r, q>> \in Hop PROVE <<p, q>> \in Round(near)
  <2>1. <<<<p, r>>, <<r, q>>>> \in {y \in near \X Hop : y[1][2] = y[2][1]}
    BY <1>2
  <2> QED
    BY <2>1 DEF Round
<1> QED
  BY <1>1, <1>2 DEF Round

LEMMA WithinIn == \A n \in Nat : Within[n] \subseteq Pointstamp \X Pointstamp
<1> DEFINE Good == {n \in Nat : Within[n] \subseteq Pointstamp \X Pointstamp}
<1>1. 0 \in Good
  BY WithinRounds DEF Stays
<1>2. ASSUME NEW n \in Nat, n \in Good PROVE n + 1 \in Good
  <2>1. Within[n] \subseteq Pointstamp \X Pointstamp
    BY <1>2
  <2>2. Round(Within[n]) \subseteq Pointstamp \X Pointstamp
    BY <2>1 DEF Round, Hop
  <2> QED
    BY <2>2, WithinRounds
<1>3. Nat \subseteq Good
  <2> HIDE DEF Good
  <2> QED
    BY <1>1, <1>2, Counting
<1> QED
  BY <1>3

LEMMA FromSpreads ==
  ASSUME NEW p \in Pointstamp
  PROVE  /\ From(0, p) = {p}
         /\ \A n \in Nat : From(n + 1, p) = Spread(From(n, p))
         /\ \A n \in Nat : From(n, p) \subseteq Pointstamp
<1>1. From(0, p) = {p}
  BY WithinRounds DEF From, Stays
<1>2. ASSUME NEW n \in Nat PROVE From(n + 1, p) = Spread(From(n, p))
  <2>1. \A q : <<p, q>> \in Within[n + 1] <=>
                 <<p, q>> \in Within[n] \/ \E r : <<p, r>> \in Within[n] /\ <<r, q>> \in Hop
    <3> TAKE q
    <3> DEFINE near == Within[n]
    <3>1. Within[n + 1] = Round(near) /\ near \subseteq Pointstamp \X Pointstamp
      BY WithinRounds, WithinIn
    <3>2. <<p, q>> \in Round(near) <=>
            <<p, q>> \in near \/ \E r : <<p, r>> \in near /\ <<r, q>> \in Hop
      <4> HIDE DEF near
      <4> QED
        BY <3>1, RoundMeans
    <3> QED
      BY <3>1, <3>2
  <2>2. \A r : <<p, r>> \in Within[n] => r \in Pointstamp
    BY WithinIn
  <2> QED
    BY <2>1, <2>2 DEF From, Spread
<1> QED
  BY <1>1, <1>2 DEF From

\* A round that finds nothing new is the last that could: otherwise each finds one at least.
LEMMA RoundsEnd ==
  ASSUME NEW p \in Pointstamp, NEW n \in Nat
  PROVE  From(n + 1, p) = From(n, p) \/ Cardinality(From(n, p)) >= n + 1
<1> DEFINE Good == {k \in Nat : From(k + 1, p) = From(k, p) \/ Cardinality(From(k, p)) >= k + 1}
<1>1. 0 \in Good
  <2>1. Cardinality(From(0, p)) = 1
    BY FromSpreads, FS_Singleton
  <2> QED
    BY <2>1
<1>2. ASSUME NEW k \in Nat, k \in Good PROVE k + 1 \in Good
  <2> DEFINE now == From(k, p)
             next == From(k + 1, p)
  <2>1. next = Spread(now) /\ From((k + 1) + 1, p) = Spread(next)
    BY FromSpreads
  <2>2. CASE next = now
    <3>1. From((k + 1) + 1, p) = From(k + 1, p)
      BY <2>1, <2>2
    <3> QED
      BY <3>1
  <2>3. CASE next # now
    <3>1. Cardinality(now) >= k + 1
      BY <1>2, <2>3
    <3>2. now \in SUBSET next /\ IsFiniteSet(next)
      <4>1. now \subseteq next
        BY <2>1 DEF Spread
      <4>2. next \subseteq Pointstamp
        BY FromSpreads
      <4> QED
        BY <4>1, <4>2, Finite, FS_Subset
    <3>3. Cardinality(now) <= Cardinality(next) /\ Cardinality(now) # Cardinality(next)
          /\ Cardinality(now) \in Nat /\ Cardinality(next) \in Nat
      <4> HIDE DEF now, next
      <4>1. IsFiniteSet(now)
        BY <3>2, FS_Subset
      <4> QED
        BY <2>3, <3>2, <4>1, FS_Subset, FS_CardinalityType
    <3>4. Cardinality(next) >= (k + 1) + 1
      <4> HIDE DEF now, next
      <4> QED
        BY <3>1, <3>3
    <3> QED
      BY <3>4
  <2> QED
    BY <2>2, <2>3
<1>3. Nat \subseteq Good
  <2> HIDE DEF Good
  <2> QED
    BY <1>1, <1>2, Counting
<1> QED
  BY <1>3

\* LeadsTo holds every path, whatever its length, and nothing else.
LEMMA LeadsToCloses ==
  /\ LeadsTo \subseteq Pointstamp \X Pointstamp
  /\ \A p \in Pointstamp : <<p, p>> \in LeadsTo
  /\ \A p, r, q : <<p, r>> \in LeadsTo /\ <<r, q>> \in Hop => <<p, q>> \in LeadsTo
<1> DEFINE n == Cardinality(Pointstamp)
<1>1. n \in Nat /\ LeadsTo = Within[n]
  BY Finite DEF LeadsTo
<1>2. LeadsTo \subseteq Pointstamp \X Pointstamp
  BY <1>1, WithinIn
<1>3. ASSUME NEW p \in Pointstamp PROVE From(n + 1, p) = From(n, p)
  <2>1. From(n, p) \subseteq Pointstamp
    BY <1>1, FromSpreads
  <2>2. IsFiniteSet(From(n, p)) /\ Cardinality(From(n, p)) <= n
    BY <2>1, Finite, FS_Subset
  <2>3. Cardinality(From(n, p)) \in Nat
    BY <2>2, FS_CardinalityType
  <2> HIDE DEF n
  <2> QED
    BY <1>1, <2>2, <2>3, RoundsEnd
<1>4. ASSUME NEW p \in Pointstamp PROVE <<p, p>> \in LeadsTo
  <2> DEFINE Good == {k \in Nat : p \in From(k, p)}
  <2>1. 0 \in Good
    BY FromSpreads
  <2>2. ASSUME NEW k \in Nat, k \in Good PROVE k + 1 \in Good
    BY <2>2, FromSpreads DEF Spread
  <2>3. Nat \subseteq Good
    <3> HIDE DEF Good
    <3> QED
      BY <2>1, <2>2, Counting
  <2>4. p \in From(n, p)
    BY <1>1, <2>3
  <2> HIDE DEF n
  <2> QED
    BY <1>1, <2>4 DEF From
<1>5. ASSUME NEW p, NEW r, NEW q, <<p, r>> \in LeadsTo, <<r, q>> \in Hop
      PROVE  <<p, q>> \in LeadsTo
  <2> HIDE DEF n
  <2>1. p \in Pointstamp /\ r \in Pointstamp /\ q \in Pointstamp
    BY <1>2, <1>5 DEF Hop
  <2>2. r \in From(n, p)
    BY <1>1, <1>5, <2>1 DEF From
  <2>3. q \in From(n + 1, p)
    BY <1>1, <1>5, <2>1, <2>2, FromSpreads DEF Spread
  <2> QED
    BY <1>1, <1>3, <2>1, <2>3 DEF From
<1> QED
  BY <1>2, <1>4, <1>5

\* What holds of staying and is kept by one hop more holds of every path.
LEMMA PathInduction ==
  ASSUME NEW S, \A p \in Pointstamp : <<p, p>> \in S,
         \A p, r, q : <<p, r>> \in S /\ <<p, r>> \in LeadsTo /\ <<r, q>> \in Hop => <<p, q>> \in S
  PROVE  LeadsTo \subseteq S
<1> DEFINE Good == {n \in Nat : Within[n] \subseteq S \cap LeadsTo}
<1>1. 0 \in Good
  BY WithinRounds, LeadsToCloses DEF Stays
<1>2. ASSUME NEW n \in Nat, n \in Good PROVE n + 1 \in Good
  <2>1. ASSUME NEW e \in Within[n + 1] PROVE e \in S \cap LeadsTo
    <3>1. Within[n + 1] = Round(Within[n]) /\ Within[n] \subseteq Pointstamp \X Pointstamp
      BY WithinRounds, WithinIn
    <3>2. e = <<e[1], e[2]>>
      <4>1. e \in Pointstamp \X Pointstamp
        BY <2>1, WithinIn
      <4> QED
        BY <4>1
    <3>3. e \in Within[n] \/ \E r : <<e[1], r>> \in Within[n] /\ <<r, e[2]>> \in Hop
      BY <2>1, <3>1, <3>2, RoundMeans
    <3>4. Within[n] \subseteq S \cap LeadsTo
      BY <1>2
    <3>5. CASE e \in Within[n]
      BY <3>4, <3>5
    <3>6. CASE \E r : <<e[1], r>> \in Within[n] /\ <<r, e[2]>> \in Hop
      <4>1. PICK r : <<e[1], r>> \in S \cap LeadsTo /\ <<r, e[2]>> \in Hop
        BY <3>4, <3>6
      <4>2. <<e[1], e[2]>> \in S /\ <<e[1], e[2]>> \in LeadsTo
        BY <4>1, LeadsToCloses
      <4> QED
        BY <3>2, <4>2
    <3> QED
      BY <3>3, <3>5, <3>6
  <2> QED
    BY <2>1
<1>3. Nat \subseteq Good
  <2> HIDE DEF Good
  <2> QED
    BY <1>1, <1>2, Counting
<1>4. Cardinality(Pointstamp) \in Good /\ LeadsTo = Within[Cardinality(Pointstamp)]
  BY <1>3, Finite DEF LeadsTo
<1> QED
  BY <1>4

\* A hop is never to an earlier time.
LEMMA HopLater ==
  ASSUME NEW p, NEW q, <<p, q>> \in Hop
  PROVE  Leq(p[2], q[2])
<1>1. p \in Pointstamp /\ q \in Pointstamp /\ Hops(p, q) # {}
  BY HopIn
<1>2. p[1] \in Port /\ p[2] \in Time /\ q[1] \in Port /\ q[2] \in Time
  BY <1>1, PointstampMeans
<1>3. CASE p[1] \in Source
  <2>1. p[2] = q[2]
    BY <1>1, <1>3 DEF Hops
  <2> QED
    BY <1>2, <2>1, LeqPartialOrder
<1>4. CASE p[1] \notin Source
  <2>1. PICK s \in Internal(p[1], q[1]) : q[1] \in Source /\ q[2] \in ResultsIn(s, p[2])
    BY <1>1, <1>4 DEF Hops
  <2>2. p[1] \in Target
    BY <1>2, <1>4 DEF Port
  <2> QED
    BY <1>2, <2>1, <2>2, SummaryAssumption
<1> QED
  BY <1>3, <1>4

\* What is before a pointstamp hops to what is before that one's.
LEMMA HopMonotone ==
  ASSUME NEW p, NEW q, <<p, q>> \in Hop, NEW o \in Pointstamp, Below(o, p)
  PROVE  \E r : <<o, r>> \in Hop /\ Below(r, q)
<1>1. p \in Pointstamp /\ q \in Pointstamp /\ Hops(p, q) # {}
  BY HopIn
<1>2. /\ p[1] \in Port /\ p[2] \in Time /\ q[1] \in Port /\ q[2] \in Time
      /\ o[1] = p[1] /\ o[2] \in Time /\ Leq(o[2], p[2])
  BY <1>1, PointstampMeans DEF Below
<1>3. CASE p[1] \in Source
  <2> DEFINE r == <<q[1], o[2]>>
  <2>1. <<p[1], q[1]>> \in Edge /\ p[2] = q[2]
    BY <1>1, <1>3 DEF Hops
  <2>2. r \in Pointstamp /\ r[1] = q[1] /\ r[2] = o[2]
    BY <1>2 DEF Pointstamp
  <2>3. <<o[1], r[1]>> \in Hops(o, r)
    BY <1>2, <1>3, <2>1, <2>2 DEF Hops
  <2>4. Below(r, q)
    BY <1>2, <2>1, <2>2 DEF Below
  <2> QED
    BY <2>2, <2>3, <2>4, HopIn
<1>4. CASE p[1] \notin Source
  <2>1. PICK s \in Internal(p[1], q[1]) : q[1] \in Source /\ q[2] \in ResultsIn(s, p[2])
    BY <1>1, <1>4 DEF Hops
  <2>2. p[1] \in Target
    BY <1>2, <1>4 DEF Port
  <2>3. PICK t \in ResultsIn(s, o[2]) : Leq(t, q[2])
    BY <1>2, <2>1, <2>2, SummaryAssumption
  <2>4. t \in Time
    BY <1>2, <2>1, <2>2, <2>3, SummaryAssumption
  <2> DEFINE r == <<q[1], t>>
  <2>5. r \in Pointstamp /\ r[1] = q[1] /\ r[2] = t
    BY <1>2, <2>4 DEF Pointstamp
  <2>6. s \in Hops(o, r)
    BY <1>2, <1>4, <2>1, <2>3, <2>5 DEF Hops
  <2>7. Below(r, q)
    BY <2>3, <2>5 DEF Below
  <2> QED
    BY <2>5, <2>6, <2>7, HopIn
<1> QED
  BY <1>3, <1>4

LEMMA PathLater ==
  ASSUME NEW p, NEW q, <<p, q>> \in LeadsTo
  PROVE  Leq(p[2], q[2])
<1> DEFINE S == {e \in Pointstamp \X Pointstamp : Leq(e[1][2], e[2][2])}
<1>1. ASSUME NEW o \in Pointstamp PROVE <<o, o>> \in S
  BY PointstampMeans, LeqPartialOrder
<1>2. ASSUME NEW o, NEW r, NEW x, <<o, r>> \in S, <<r, x>> \in Hop PROVE <<o, x>> \in S
  <2>1. o \in Pointstamp /\ r \in Pointstamp /\ x \in Pointstamp /\ Leq(o[2], r[2])
    BY <1>2, HopIn
  <2>2. Leq(r[2], x[2])
    BY <1>2, HopLater
  <2>3. o[2] \in Time /\ r[2] \in Time /\ x[2] \in Time
    BY <2>1, PointstampMeans
  <2>4. Leq(o[2], x[2])
    BY <2>1, <2>2, <2>3, LeqPartialOrder
  <2> QED
    BY <2>1, <2>4
<1>3. <<p, q>> \in S
  <2> HIDE DEF S
  <2> QED
    BY <1>1, <1>2, PathInduction
<1> QED
  BY <1>3

LEMMA PathMonotone ==
  ASSUME NEW p, NEW q, <<p, q>> \in LeadsTo, NEW o \in Pointstamp, Below(o, p)
  PROVE  \E r : <<o, r>> \in LeadsTo /\ Below(r, q)
<1> DEFINE S == {e \in Pointstamp \X Pointstamp :
                   e[1] = p => \E r \in Pointstamp : <<o, r>> \in LeadsTo /\ Below(r, e[2])}
<1>1. ASSUME NEW a \in Pointstamp PROVE <<a, a>> \in S
  BY LeadsToCloses
<1>2. ASSUME NEW a, NEW b, NEW c, <<a, b>> \in S, <<b, c>> \in Hop PROVE <<a, c>> \in S
  <2>1. a \in Pointstamp /\ c \in Pointstamp
    BY <1>2, HopIn
  <2>2. ASSUME a = p PROVE \E r \in Pointstamp : <<o, r>> \in LeadsTo /\ Below(r, c)
    <3>1. PICK r \in Pointstamp : <<o, r>> \in LeadsTo /\ Below(r, b)
      BY <1>2, <2>2
    <3>2. PICK x : <<r, x>> \in Hop /\ Below(x, c)
      BY <1>2, <3>1, HopMonotone
    <3> QED
      BY <3>1, <3>2, LeadsToCloses, HopIn
  <2> QED
    BY <2>1, <2>2
<1>3. <<p, q>> \in S
  <2> HIDE DEF S
  <2> QED
    BY <1>1, <1>2, PathInduction
<1> QED
  BY <1>3

LEMMA PathsJoin ==
  ASSUME NEW p, NEW r, NEW q, <<p, r>> \in LeadsTo, <<r, q>> \in LeadsTo
  PROVE  <<p, q>> \in LeadsTo
<1> DEFINE S == {e \in Pointstamp \X Pointstamp : e[1] = r => <<p, e[2]>> \in LeadsTo}
<1>1. ASSUME NEW a \in Pointstamp PROVE <<a, a>> \in S
  OBVIOUS
<1>2. ASSUME NEW a, NEW b, NEW c, <<a, b>> \in S, <<b, c>> \in Hop PROVE <<a, c>> \in S
  <2>1. a \in Pointstamp /\ c \in Pointstamp
    BY <1>2, HopIn
  <2> QED
    BY <1>2, <2>1, LeadsToCloses
<1>3. <<r, q>> \in S
  <2> HIDE DEF S
  <2> QED
    BY <1>1, <1>2, PathInduction
<1> QED
  BY <1>3

LEMMA LastHop ==
  ASSUME NEW p, NEW q, <<p, q>> \in LeadsTo, p # q
  PROVE  \E r : <<p, r>> \in LeadsTo /\ <<r, q>> \in Hop
<1> DEFINE S == {e \in Pointstamp \X Pointstamp :
                   e[1] = e[2] \/ \E r : <<e[1], r>> \in LeadsTo /\ <<r, e[2]>> \in Hop}
<1>1. ASSUME NEW a \in Pointstamp PROVE <<a, a>> \in S
  OBVIOUS
<1>2. ASSUME NEW a, NEW b, NEW c, <<a, b>> \in S, <<a, b>> \in LeadsTo, <<b, c>> \in Hop
      PROVE <<a, c>> \in S
  BY <1>2, HopIn
<1>3. <<p, q>> \in S
  <2> HIDE DEF S
  <2> QED
    BY <1>1, <1>2, PathInduction
<1> QED
  BY <1>3

\* How many lead to p: each hop is to where more lead, since there is no way back.
Rank == [p \in Pointstamp |-> Cardinality({q \in Pointstamp : <<q, p>> \in LeadsTo})]

LEMMA HopRank ==
  /\ \A p \in Pointstamp : Rank[p] \in Nat
  /\ \A p, q : <<p, q>> \in Hop => Rank[p] < Rank[q]
<1> DEFINE to(p) == {q \in Pointstamp : <<q, p>> \in LeadsTo}
<1>1. ASSUME NEW p PROVE IsFiniteSet(to(p)) /\ Cardinality(to(p)) \in Nat
  <2>1. to(p) \subseteq Pointstamp
    OBVIOUS
  <2> HIDE DEF to
  <2> QED
    BY <2>1, Finite, FS_Subset, FS_CardinalityType
<1>2. ASSUME NEW p, NEW q, <<p, q>> \in Hop PROVE Rank[p] < Rank[q]
  <2>1. p \in Pointstamp /\ q \in Pointstamp /\ <<p, p>> \in LeadsTo /\ <<q, q>> \in LeadsTo
    BY <1>2, HopIn, LeadsToCloses
  <2>2. to(p) \subseteq to(q)
    BY <1>2, LeadsToCloses
  <2>3. q \in to(q) /\ q \notin to(p)
    BY <1>2, <2>1, AcyclicAssumption
  <2>4. Rank[p] = Cardinality(to(p)) /\ Rank[q] = Cardinality(to(q))
    BY <2>1 DEF Rank
  <2> HIDE DEF to
  <2>5. Cardinality(to(p)) <= Cardinality(to(q)) /\ Cardinality(to(p)) # Cardinality(to(q))
    BY <1>1, <2>2, <2>3, FS_Subset
  <2> QED
    BY <1>1, <2>4, <2>5
<1> QED
  BY <1>1, <1>2 DEF Rank

-----------------------------------------------------------------------------
(* What the members of a set hand on, counted *)

Tagged(F, S) == UNION {{p} \X F[p] : p \in S}

Count(F, S) == Cardinality(Tagged(F, S))

LEMMA TaggedMeans ==
  ASSUME NEW F, NEW S
  PROVE  \A x : x \in Tagged(F, S) <=> x = <<x[1], x[2]>> /\ x[1] \in S /\ x[2] \in F[x[1]]
<1>1. ASSUME NEW x \in Tagged(F, S) PROVE x = <<x[1], x[2]>> /\ x[1] \in S /\ x[2] \in F[x[1]]
  <2>1. PICK p \in S : x \in {p} \X F[p]
    BY <1>1 DEF Tagged
  <2>2. x = <<x[1], x[2]>> /\ x[1] = p /\ x[2] \in F[p]
    BY <2>1
  <2> QED
    BY <2>2
<1>2. ASSUME NEW x, x = <<x[1], x[2]>>, x[1] \in S, x[2] \in F[x[1]] PROVE x \in Tagged(F, S)
  <2>1. x \in {x[1]} \X F[x[1]]
    BY <1>2
  <2> QED
    BY <1>2, <2>1 DEF Tagged
<1> QED
  BY <1>1, <1>2

LEMMA TaggedFinite ==
  ASSUME NEW F, NEW S, IsFiniteSet(S), \A p \in S : IsFiniteSet(F[p])
  PROVE  IsFiniteSet(Tagged(F, S)) /\ Count(F, S) \in Nat
<1> DEFINE family == {{p} \X F[p] : p \in S}
           f == [p \in S |-> {p} \X F[p]]
<1>1. f \in Surjection(S, family)
  BY DEF Surjection
<1>2. IsFiniteSet(family)
  <2> HIDE DEF f, family
  <2> QED
    BY <1>1, FS_Surjection
<1>3. \A T \in family : IsFiniteSet(T)
  <2> SUFFICES ASSUME NEW p \in S PROVE IsFiniteSet({p} \X F[p])
    OBVIOUS
  <2>1. IsFiniteSet({p}) /\ IsFiniteSet(F[p])
    BY FS_Singleton
  <2> QED
    BY <2>1, FS_Product
<1>4. IsFiniteSet(UNION family)
  <2> HIDE DEF family
  <2> QED
    BY <1>2, <1>3, FS_UNION
<1> QED
  BY <1>4, FS_CardinalityType DEF Tagged, Count

LEMMA CountSplit ==
  ASSUME NEW F, NEW S, IsFiniteSet(S), \A p \in S : IsFiniteSet(F[p]), NEW T, T \subseteq S
  PROVE  Count(F, S) = Count(F, T) + Count(F, S \ T)
<1>1. IsFiniteSet(T) /\ IsFiniteSet(S \ T)
  BY FS_Subset
<1>2. /\ IsFiniteSet(Tagged(F, T)) /\ Count(F, T) \in Nat
      /\ IsFiniteSet(Tagged(F, S \ T)) /\ Count(F, S \ T) \in Nat
  BY <1>1, TaggedFinite
<1>3. Tagged(F, S) = Tagged(F, T) \cup Tagged(F, S \ T)
  BY TaggedMeans
<1>4. Tagged(F, T) \cap Tagged(F, S \ T) = {}
  BY TaggedMeans
<1>5. Cardinality(Tagged(F, T) \cup Tagged(F, S \ T))
        = Cardinality(Tagged(F, T)) + Cardinality(Tagged(F, S \ T))
  <2> DEFINE X == Tagged(F, T)
             Y == Tagged(F, S \ T)
  <2>1. IsFiniteSet(X) /\ IsFiniteSet(Y) /\ X \cap Y = {} /\ Cardinality(X) \in Nat /\ Cardinality(Y) \in Nat
    BY <1>2, <1>4 DEF Count
  <2> HIDE DEF X, Y
  <2>2. Cardinality(X \cup Y) = Cardinality(X) + Cardinality(Y) - Cardinality(X \cap Y)
    BY <2>1, FS_Union
  <2>3. Cardinality(X \cap Y) = 0
    BY <2>1, FS_EmptySet
  <2>4. Cardinality(X \cup Y) = Cardinality(X) + Cardinality(Y)
    BY <2>1, <2>2, <2>3
  <2> QED
    BY <2>4 DEF X, Y
<1> QED
  BY <1>3, <1>5 DEF Count

\* What is gained less what is lost is the difference.
LEMMA CountMoves ==
  ASSUME NEW F, NEW A, IsFiniteSet(A), NEW B, IsFiniteSet(B),
         \A p \in A \cup B : IsFiniteSet(F[p])
  PROVE  /\ Count(F, A) \in Nat /\ Count(F, B) \in Nat
         /\ Count(F, B \ A) \in Nat /\ Count(F, A \ B) \in Nat
         /\ Count(F, B \ A) - Count(F, A \ B) = Count(F, B) - Count(F, A)
<1>1. IsFiniteSet(A \cap B) /\ IsFiniteSet(A \ B) /\ IsFiniteSet(B \ A)
  BY FS_Subset
<1>2. /\ Count(F, A) \in Nat /\ Count(F, B) \in Nat /\ Count(F, A \cap B) \in Nat
      /\ Count(F, A \ B) \in Nat /\ Count(F, B \ A) \in Nat
  BY <1>1, TaggedFinite
<1>3. A \ (A \cap B) = A \ B /\ B \ (A \cap B) = B \ A
  OBVIOUS
<1>4. Count(F, A) = Count(F, A \cap B) + Count(F, A \ B)
  BY <1>3, CountSplit
<1>5. Count(F, B) = Count(F, A \cap B) + Count(F, B \ A)
  BY <1>3, CountSplit
<1> QED
  BY <1>2, <1>4, <1>5

LEMMA CountPositive ==
  ASSUME NEW F, NEW S, IsFiniteSet(S), \A p \in S : IsFiniteSet(F[p])
  PROVE  Count(F, S) > 0 <=> \E p \in S : F[p] # {}
<1>1. IsFiniteSet(Tagged(F, S)) /\ Count(F, S) \in Nat
  BY TaggedFinite
<1>2. Count(F, S) = 0 <=> Tagged(F, S) = {}
  BY <1>1, FS_EmptySet DEF Count
<1>3. ASSUME Tagged(F, S) # {} PROVE \E p \in S : F[p] # {}
  BY <1>3, TaggedMeans
<1>4. ASSUME NEW p \in S, NEW y \in F[p] PROVE Tagged(F, S) # {}
  <2>1. <<p, y>> \in Tagged(F, S)
    BY TaggedMeans
  <2> QED
    BY <2>1
<1> QED
  BY <1>1, <1>2, <1>3, <1>4

LEMMA HopsFinite == ASSUME NEW p \in Pointstamp, NEW q \in Pointstamp PROVE IsFiniteSet(Hops(p, q))
<1>1. p[1] \in Port /\ q[1] \in Port
  BY PointstampMeans
<1>2. IsFiniteSet(Edge)
  <2>1. IsFiniteSet(Port \X Port)
    BY PortsAssumption, FS_Product
  <2>2. Edge \subseteq Port \X Port
    BY PortsAssumption DEF Port
  <2> QED
    BY <2>1, <2>2, FS_Subset
<1>3. CASE p[1] \in Source
  <2>1. Hops(p, q) \subseteq Edge
    BY <1>3 DEF Hops
  <2> QED
    BY <1>2, <2>1, FS_Subset
<1>4. CASE p[1] \notin Source /\ q[1] \in Source
  <2>1. Hops(p, q) \subseteq Internal(p[1], q[1])
    BY <1>4 DEF Hops
  <2>2. p[1] \in Target
    BY <1>1, <1>4 DEF Port
  <2>3. IsFiniteSet(Internal(p[1], q[1]))
    BY <1>4, <2>2, SummaryAssumption
  <2> QED
    BY <2>1, <2>3, FS_Subset
<1>5. CASE p[1] \notin Source /\ q[1] \notin Source
  BY <1>5, FS_EmptySet DEF Hops
<1> QED
  BY <1>3, <1>4, <1>5

\* Backing counts hops.
LEMMA BackingMeans ==
  ASSUME NEW A, A \subseteq Pointstamp, NEW q \in Pointstamp
  PROVE  /\ Backing(A, q) \in Nat
         /\ Backing(A, q) > 0 <=> \E p \in A : <<p, q>> \in Hop
         /\ \A B : B \subseteq Pointstamp =>
              Backing(B \ A, q) - Backing(A \ B, q) = Backing(B, q) - Backing(A, q)
<1> DEFINE F == [p \in Pointstamp |-> Hops(p, q)]
<1>1. ASSUME NEW S, S \subseteq Pointstamp PROVE Backing(S, q) = Count(F, S)
  <2>1. {{p} \X Hops(p, q) : p \in S} = {{p} \X F[p] : p \in S}
    BY <1>1
  <2> QED
    BY <2>1 DEF Backing, Count, Tagged
<1>2. \A p \in Pointstamp : IsFiniteSet(F[p])
  BY HopsFinite
<1>3. \A p \in Pointstamp : F[p] = Hops(p, q)
  OBVIOUS
<1>4. \A S : S \subseteq Pointstamp => IsFiniteSet(S)
  BY Finite, FS_Subset
<1>5. \A p \in A : F[p] # {} <=> <<p, q>> \in Hop
  BY <1>3, HopIn
<1> HIDE DEF F
<1>6. Count(F, A) \in Nat
  BY <1>2, <1>4, TaggedFinite
<1>7. Count(F, A) > 0 <=> \E p \in A : <<p, q>> \in Hop
  <2>1. Count(F, A) > 0 <=> \E p \in A : F[p] # {}
    BY <1>2, <1>4, CountPositive
  <2> QED
    BY <1>5, <2>1
<1>8. ASSUME NEW B, B \subseteq Pointstamp
      PROVE  Backing(B \ A, q) - Backing(A \ B, q) = Backing(B, q) - Backing(A, q)
  <2>1. Count(F, B \ A) - Count(F, A \ B) = Count(F, B) - Count(F, A)
    <3>1. IsFiniteSet(A) /\ IsFiniteSet(B) /\ \A p \in A \cup B : IsFiniteSet(F[p])
      BY <1>2, <1>4, <1>8
    <3> QED
      BY <3>1, CountMoves
  <2>2. B \ A \subseteq Pointstamp /\ A \ B \subseteq Pointstamp
    BY <1>8
  <2> QED
    BY <1>1, <1>8, <2>1, <2>2
<1> QED
  BY <1>1, <1>6, <1>7, <1>8

LEMMA ToOutputMeans ==
  ASSUME NEW A, A \subseteq Pointstamp, NEW t
  PROVE  /\ ToOutput(A, t) \in Nat
         /\ ToOutput(A, t) > 0 <=> \E p \in A : \E s \in OutputSummary(p[1]) : t \in ResultsIn(s, p[2])
         /\ \A B : B \subseteq Pointstamp =>
              ToOutput(B \ A, t) - ToOutput(A \ B, t) = ToOutput(B, t) - ToOutput(A, t)
<1> DEFINE by(p) == {s \in OutputSummary(p[1]) : t \in ResultsIn(s, p[2])}
           F == [p \in Pointstamp |-> by(p)]
<1>1. ASSUME NEW S, S \subseteq Pointstamp PROVE ToOutput(S, t) = Count(F, S)
  <2>1. {{p} \X by(p) : p \in S} = {{p} \X F[p] : p \in S}
    BY <1>1
  <2> QED
    BY <2>1 DEF ToOutput, Count, Tagged
<1>2. \A p \in Pointstamp : IsFiniteSet(F[p])
  <2> SUFFICES ASSUME NEW p \in Pointstamp PROVE IsFiniteSet(by(p))
    OBVIOUS
  <2>1. IsFiniteSet(OutputSummary(p[1]))
    BY PointstampMeans, OutputAssumption
  <2>2. by(p) \subseteq OutputSummary(p[1])
    OBVIOUS
  <2> HIDE DEF by
  <2> QED
    BY <2>1, <2>2, FS_Subset
<1>3. \A p \in Pointstamp : F[p] = by(p)
  OBVIOUS
<1>4. \A S : S \subseteq Pointstamp => IsFiniteSet(S)
  BY Finite, FS_Subset
<1>5. \A p \in A : F[p] # {} <=> \E s \in OutputSummary(p[1]) : t \in ResultsIn(s, p[2])
  BY <1>3
<1> HIDE DEF F, by
<1>6. Count(F, A) \in Nat
  BY <1>2, <1>4, TaggedFinite
<1>7. Count(F, A) > 0 <=> \E p \in A : \E s \in OutputSummary(p[1]) : t \in ResultsIn(s, p[2])
  <2>1. Count(F, A) > 0 <=> \E p \in A : F[p] # {}
    BY <1>2, <1>4, CountPositive
  <2> QED
    BY <1>5, <2>1
<1>8. ASSUME NEW B, B \subseteq Pointstamp
      PROVE  ToOutput(B \ A, t) - ToOutput(A \ B, t) = ToOutput(B, t) - ToOutput(A, t)
  <2>1. Count(F, B \ A) - Count(F, A \ B) = Count(F, B) - Count(F, A)
    <3>1. IsFiniteSet(A) /\ IsFiniteSet(B) /\ \A p \in A \cup B : IsFiniteSet(F[p])
      BY <1>2, <1>4, <1>8
    <3> QED
      BY <3>1, CountMoves
  <2>2. B \ A \subseteq Pointstamp /\ A \ B \subseteq Pointstamp
    BY <1>8
  <2> QED
    BY <1>1, <1>8, <2>1, <2>2
<1> QED
  BY <1>1, <1>6, <1>7, <1>8

-----------------------------------------------------------------------------
(* The inductive invariant *)

\* Nothing waits outside propagate_all.
WorklistDrained == ~propagating => worklist = Zero

OutputsProjected == \A t \in Time : output_changes[t] = ToOutput(Frontier(pointstamps), t)

CountedWhereUpdated ==
  \A p \in Pointstamp : p \notin Updatable => changes[p] = 0 /\ pointstamps[p] = 0

IInv ==
  /\ TypeOK
  /\ ImplicationsAccounted
  /\ PushedIsFrontier
  /\ TotalCountsCorrect
  /\ WorklistDrained
  /\ OutputsProjected
  /\ CountedWhereUpdated

LEMMA NothingInFront == Frontier(Zero) = {}
BY FrontierMeans DEF Earliests, Zero

LEMMA NothingHandedOn ==
  /\ \A q \in Pointstamp : Backing({}, q) = 0
  /\ \A t \in Time : ToOutput({}, t) = 0
<1>1. ASSUME NEW q \in Pointstamp PROVE Backing({}, q) = 0
  <2> DEFINE none == {}
  <2>1. none \subseteq Pointstamp /\ \A p \in none : FALSE
    OBVIOUS
  <2> HIDE DEF none
  <2>2. Backing(none, q) \in Nat /\ ~(Backing(none, q) > 0)
    BY <2>1, BackingMeans
  <2>3. Backing(none, q) = 0
    BY <2>2
  <2> QED
    BY <2>3 DEF none
<1>2. ASSUME NEW t \in Time PROVE ToOutput({}, t) = 0
  <2> DEFINE none == {}
  <2>1. none \subseteq Pointstamp /\ \A p \in none : FALSE
    OBVIOUS
  <2> HIDE DEF none
  <2>2. ToOutput(none, t) \in Nat /\ ~(ToOutput(none, t) > 0)
    BY <2>1, ToOutputMeans
  <2>3. ToOutput(none, t) = 0
    BY <2>2
  <2> QED
    BY <2>3 DEF none
<1> QED
  BY <1>1, <1>2

\* The gains of a frontier less its losses.
LEMMA CountChangeMeans ==
  ASSUME NEW A, IsFiniteSet(A), NEW B, IsFiniteSet(B)
  PROVE  CountChange(A, B) = Cardinality(B) - Cardinality(A)
<1>1. /\ Cardinality(A \ B) = Cardinality(A) - Cardinality(A \cap B)
      /\ Cardinality(B \ A) = Cardinality(B) - Cardinality(B \cap A)
  BY FS_Difference
<1>2. A \cap B = B \cap A /\ IsFiniteSet(A \cap B)
  BY FS_Subset
<1>3. Cardinality(A) \in Nat /\ Cardinality(B) \in Nat /\ Cardinality(A \cap B) \in Nat
  BY <1>2, FS_CardinalityType
<1>4. Cardinality(B \cap A) = Cardinality(A \cap B)
  BY <1>2
<1> QED
  BY <1>1, <1>3, <1>4 DEF CountChange

LEMMA InitIInv == Init => IInv
<1> SUFFICES ASSUME Init PROVE IInv
  OBVIOUS
<1> USE DEF Init
<1>1. Frontier(pointstamps) = {} /\ Frontier(implications) = {}
  BY NothingInFront
<1>2. TypeOK
  <2>1. Zero \in [Pointstamp -> Int] /\ output_changes \in [Time -> Int]
    BY DEF Zero
  <2> QED
    BY <2>1 DEF TypeOK
<1>3. ImplicationsAccounted
  BY <1>1, NothingHandedOn DEF ImplicationsAccounted, Zero
<1>4. PushedIsFrontier
  BY <1>1 DEF PushedIsFrontier, FrontierChange, Zero
<1>5. TotalCountsCorrect
  BY <1>1, FS_EmptySet DEF TotalCountsCorrect
<1>6. WorklistDrained
  BY DEF WorklistDrained
<1>7. OutputsProjected
  BY <1>1, NothingHandedOn DEF OutputsProjected
<1>8. CountedWhereUpdated
  BY DEF CountedWhereUpdated, Zero
<1> QED
  BY <1>2, <1>3, <1>4, <1>5, <1>6, <1>7, <1>8 DEF IInv

LEMMA UpdateIInv ==
  ASSUME IInv, NEW p \in Updatable, NEW delta \in {-1, 1}, Update(p, delta)
  PROVE  IInv'
<1>1. p \in Pointstamp
  BY PortsAssumption DEF Pointstamp
<1>2. /\ changes \in [Pointstamp -> Int]
      /\ changes' = [changes EXCEPT ![p] = @ + delta]
      /\ UNCHANGED <<pointstamps, implications, worklist, pushed, output_changes,
                     total_counts, propagating>>
  BY DEF IInv, TypeOK, Update
<1>3. changes' \in [Pointstamp -> Int]
  BY <1>1, <1>2
<1>4. TypeOK'
  BY <1>2, <1>3 DEF IInv, TypeOK
<1>5. ImplicationsAccounted' /\ PushedIsFrontier' /\ TotalCountsCorrect' /\ WorklistDrained'
      /\ OutputsProjected'
  BY <1>2 DEF IInv, ImplicationsAccounted, PushedIsFrontier, TotalCountsCorrect,
              WorklistDrained, OutputsProjected
<1>6. CountedWhereUpdated'
  BY <1>2 DEF IInv, CountedWhereUpdated
<1> QED
  BY <1>4, <1>5, <1>6 DEF IInv

LEMMA CommitIInv == ASSUME IInv, CommitChanges PROVE IInv'
<1> DEFINE counts == Plus(pointstamps, changes)
           before == Frontier(pointstamps)
           after == Frontier(counts)
<1>1. /\ ~propagating
      /\ pointstamps' = counts
      /\ changes' = Zero
      /\ worklist' = Plus(worklist, FrontierChange(before, after))
      /\ total_counts' = total_counts + CountChange(before, after)
      /\ output_changes' = [t \in Time |-> output_changes[t] + ToOutput(after \ before, t)
                                                             - ToOutput(before \ after, t)]
      /\ propagating' = TRUE
      /\ implications' = implications /\ pushed' = pushed
  BY DEF CommitChanges
<1>2. /\ changes \in [Pointstamp -> Int] /\ pointstamps \in [Pointstamp -> Int]
      /\ implications \in [Pointstamp -> Int] /\ worklist \in [Pointstamp -> Int]
      /\ pushed \in [Pointstamp -> Int] /\ output_changes \in [Time -> Int]
      /\ total_counts \in Nat
  BY DEF IInv, TypeOK
<1>3. /\ before \subseteq Pointstamp /\ IsFiniteSet(before)
      /\ after \subseteq Pointstamp /\ IsFiniteSet(after)
  BY FrontierIn
<1>4. Frontier(pointstamps)' = after /\ Frontier(implications)' = Frontier(implications)
  BY <1>1
<1>5. counts \in [Pointstamp -> Int]
  BY <1>2 DEF Plus
<1>6. \A p \in Pointstamp :
        worklist'[p] = worklist[p] + (IF p \in after THEN 1 ELSE 0) - (IF p \in before THEN 1 ELSE 0)
  <2> HIDE DEF counts, before, after
  <2> QED
    BY <1>1, <1>2 DEF Plus, FrontierChange
<1>7. worklist' \in [Pointstamp -> Int]
  <2> HIDE DEF counts, before, after
  <2> QED
    BY <1>1, <1>2 DEF Plus, FrontierChange
<1>8. total_counts' = Cardinality(after) /\ total_counts' \in Nat
  <2>1. total_counts = Cardinality(before)
    BY DEF IInv, TotalCountsCorrect
  <2> HIDE DEF counts, before, after
  <2>2. CountChange(before, after) = Cardinality(after) - Cardinality(before)
    BY <1>3, CountChangeMeans
  <2>3. Cardinality(after) \in Nat /\ Cardinality(before) \in Nat
    BY <1>3, FS_CardinalityType
  <2> QED
    BY <1>1, <2>1, <2>2, <2>3
<1>9. ASSUME NEW t \in Time
      PROVE  output_changes'[t] = ToOutput(after, t) /\ output_changes'[t] \in Int
  <2>1. output_changes[t] = ToOutput(before, t)
    BY DEF IInv, OutputsProjected
  <2> HIDE DEF counts, before, after
  <2>2. ToOutput(after \ before, t) - ToOutput(before \ after, t)
          = ToOutput(after, t) - ToOutput(before, t)
    BY <1>3, ToOutputMeans
  <2>3. /\ ToOutput(after, t) \in Nat /\ ToOutput(before, t) \in Nat
        /\ ToOutput(after \ before, t) \in Nat /\ ToOutput(before \ after, t) \in Nat
    <3>1. after \ before \subseteq Pointstamp /\ before \ after \subseteq Pointstamp
      BY <1>3
    <3> QED
      BY <1>3, <3>1, ToOutputMeans
  <2>4. output_changes'[t] = output_changes[t] + ToOutput(after \ before, t)
                                               - ToOutput(before \ after, t)
    BY <1>1
  <2> QED
    BY <2>1, <2>2, <2>3, <2>4
<1>10. output_changes' \in [Time -> Int]
  <2>1. output_changes' = [t \in Time |-> output_changes'[t]]
    BY <1>1
  <2> QED
    BY <1>9, <2>1
<1>11. \A q \in Pointstamp :
         implications[q] + worklist[q]
           = (IF q \in before THEN 1 ELSE 0) + Backing(Frontier(implications), q)
  BY DEF IInv, ImplicationsAccounted
<1>12. \A q \in Pointstamp : Backing(Frontier(implications), q) \in Nat
  BY FrontierIn, BackingMeans
<1>13. \A p \in Pointstamp : p \notin Updatable => counts[p] = 0
  BY <1>2 DEF IInv, CountedWhereUpdated, Plus
<1> HIDE DEF counts, before, after
<1>14. TypeOK'
  <2>1. Zero \in [Pointstamp -> Int]
    BY DEF Zero
  <2> QED
    BY <1>1, <1>2, <1>5, <1>7, <1>8, <1>10, <2>1 DEF TypeOK
<1>15. ImplicationsAccounted'
  <2>1. ASSUME NEW q \in Pointstamp
        PROVE  implications[q] + worklist'[q]
                 = (IF q \in after THEN 1 ELSE 0) + Backing(Frontier(implications), q)
    <3>1. implications[q] \in Int /\ worklist[q] \in Int
      BY <1>2
    <3> QED
      BY <1>6, <1>11, <1>12, <3>1
  <2> QED
    BY <1>1, <1>4, <2>1 DEF ImplicationsAccounted
<1>16. PushedIsFrontier'
  BY <1>1, <1>4 DEF IInv, PushedIsFrontier
<1>17. TotalCountsCorrect'
  BY <1>4, <1>8 DEF TotalCountsCorrect
<1>18. WorklistDrained'
  BY <1>1 DEF WorklistDrained
<1>19. OutputsProjected'
  BY <1>4, <1>9 DEF OutputsProjected
<1>20. CountedWhereUpdated'
  BY <1>1, <1>13 DEF CountedWhereUpdated, Zero
<1> QED
  BY <1>14, <1>15, <1>16, <1>17, <1>18, <1>19, <1>20 DEF IInv

LEMMA PopIInv == ASSUME IInv, NEW p \in Pointstamp, Pop(p) PROVE IInv'
<1> DEFINE counts == [implications EXCEPT ![p] = @ + worklist[p]]
           before == Frontier(implications)
           after == Frontier(counts)
           rest == [worklist EXCEPT ![p] = 0]
<1>1. /\ propagating /\ propagating' = propagating
      /\ implications' = counts
      /\ worklist' = Plus(rest, HandOn(before, after))
      /\ pushed' = Plus(pushed, FrontierChange(before, after))
      /\ changes' = changes /\ pointstamps' = pointstamps
      /\ output_changes' = output_changes /\ total_counts' = total_counts
  BY DEF Pop
<1>2. /\ changes \in [Pointstamp -> Int] /\ pointstamps \in [Pointstamp -> Int]
      /\ implications \in [Pointstamp -> Int] /\ worklist \in [Pointstamp -> Int]
      /\ pushed \in [Pointstamp -> Int]
  BY DEF IInv, TypeOK
<1>3. before \subseteq Pointstamp /\ after \subseteq Pointstamp
  BY FrontierIn
<1>4. Frontier(implications)' = after /\ Frontier(pointstamps)' = Frontier(pointstamps)
  BY <1>1
<1>5. counts \in [Pointstamp -> Int] /\ rest \in [Pointstamp -> Int]
  BY <1>2
<1>6. \A q \in Pointstamp : counts[q] + rest[q] = implications[q] + worklist[q]
  BY <1>2
<1>7. \A q \in Pointstamp :
        implications[q] + worklist[q]
          = (IF q \in Frontier(pointstamps) THEN 1 ELSE 0) + Backing(before, q)
  BY DEF IInv, ImplicationsAccounted
<1>8. pushed = FrontierChange({}, before)
  BY DEF IInv, PushedIsFrontier
<1> HIDE DEF counts, before, after, rest
<1>9. ASSUME NEW q \in Pointstamp
      PROVE  /\ Backing(before, q) \in Nat /\ Backing(after, q) \in Nat
             /\ worklist'[q] = rest[q] + (Backing(after, q) - Backing(before, q))
             /\ worklist'[q] \in Int
  <2>1. Backing(before, q) \in Nat /\ Backing(after, q) \in Nat
    BY <1>3, BackingMeans
  <2>2. HandOn(before, after)[q] = Backing(after, q) - Backing(before, q)
    <3>1. Backing(after \ before, q) - Backing(before \ after, q)
            = Backing(after, q) - Backing(before, q)
      BY <1>3, BackingMeans
    <3> QED
      BY <3>1 DEF HandOn
  <2>3. worklist'[q] = rest[q] + HandOn(before, after)[q]
    BY <1>1 DEF Plus
  <2>4. rest[q] \in Int
    BY <1>5
  <2> QED
    BY <2>1, <2>2, <2>3, <2>4
<1>10. worklist' \in [Pointstamp -> Int]
  <2>1. worklist' = [q \in Pointstamp |-> worklist'[q]]
    BY <1>1 DEF Plus
  <2> QED
    BY <1>9, <2>1
<1>11. pushed' = FrontierChange({}, after) /\ pushed' \in [Pointstamp -> Int]
  BY <1>1, <1>8 DEF Plus, FrontierChange
<1>12. TypeOK'
  BY <1>1, <1>5, <1>10, <1>11 DEF IInv, TypeOK
<1>13. ImplicationsAccounted'
  <2>1. ASSUME NEW q \in Pointstamp
        PROVE  counts[q] + worklist'[q]
                 = (IF q \in Frontier(pointstamps) THEN 1 ELSE 0) + Backing(after, q)
    <3>1. counts[q] \in Int /\ rest[q] \in Int
      BY <1>5
    <3> QED
      BY <1>6, <1>7, <1>9, <3>1
  <2> QED
    BY <1>1, <1>4, <2>1 DEF ImplicationsAccounted
<1>14. PushedIsFrontier'
  BY <1>4, <1>11 DEF PushedIsFrontier
<1>15. TotalCountsCorrect' /\ OutputsProjected' /\ CountedWhereUpdated'
  BY <1>1, <1>4 DEF IInv, TotalCountsCorrect, OutputsProjected, CountedWhereUpdated
<1>16. WorklistDrained'
  BY <1>1 DEF WorklistDrained
<1> QED
  BY <1>12, <1>13, <1>14, <1>15, <1>16 DEF IInv

LEMMA ReturnIInv == ASSUME IInv, Return \/ UNCHANGED vars PROVE IInv'
<1>1. /\ UNCHANGED <<changes, pointstamps, implications, worklist, pushed, output_changes,
                     total_counts>>
      /\ propagating' \in BOOLEAN
      /\ ~propagating' => worklist = Zero
  BY DEF Return, vars, IInv, TypeOK, WorklistDrained
<1>2. /\ Frontier(pointstamps)' = Frontier(pointstamps)
      /\ Frontier(implications)' = Frontier(implications)
  BY <1>1
<1>3. TypeOK'
  BY <1>1 DEF IInv, TypeOK
<1>4. WorklistDrained'
  BY <1>1 DEF WorklistDrained
<1>5. ImplicationsAccounted' /\ PushedIsFrontier' /\ TotalCountsCorrect' /\ OutputsProjected'
      /\ CountedWhereUpdated'
  BY <1>1, <1>2 DEF IInv, ImplicationsAccounted, PushedIsFrontier, TotalCountsCorrect,
                    OutputsProjected, CountedWhereUpdated
<1> QED
  BY <1>3, <1>4, <1>5 DEF IInv

LEMMA StepIInv == IInv /\ [Next]_vars => IInv'
<1> SUFFICES ASSUME IInv, [Next]_vars PROVE IInv'
  OBVIOUS
<1>1. CASE \E p \in Updatable, delta \in {-1, 1} : Update(p, delta)
  BY <1>1, UpdateIInv
<1>2. CASE CommitChanges
  BY <1>2, CommitIInv
<1>3. CASE \E p \in Pointstamp : Pop(p)
  BY <1>3, PopIInv
<1>4. CASE Return \/ UNCHANGED vars
  BY <1>4, ReturnIInv
<1> QED
  BY <1>1, <1>2, <1>3, <1>4 DEF Next

LEMMA Invariance == Spec => []IInv
<1>1. Init => IInv
  BY InitIInv
<1>2. IInv /\ [Next]_vars => IInv'
  BY StepIInv
<1> QED
  BY <1>1, <1>2, PTL DEF Spec

-----------------------------------------------------------------------------
(* What propagation comes to *)

\* What is counted once nothing waits.
Counted == {q \in Pointstamp : implications[q] > 0}

LEMMA ReachMeans ==
  ASSUME NEW P
  PROVE  /\ Reach(P) \subseteq Pointstamp
         /\ \A q : q \in Reach(P) <=> \E p \in P : <<p, q>> \in LeadsTo
<1>1. \A e \in LeadsTo : e = <<e[1], e[2]>> /\ e[2] \in Pointstamp
  BY LeadsToCloses
<1> QED
  BY <1>1 DEF Reach

LEMMA Settled ==
  ASSUME IInv, ~propagating
  PROVE  /\ Counted \subseteq Pointstamp
         /\ Frontier(implications) = Earliests(Counted)
         /\ Frontier(pointstamps) = Earliests(Positive)
         /\ \A q \in Pointstamp :
              implications[q] = (IF q \in Frontier(pointstamps) THEN 1 ELSE 0)
                                  + Backing(Frontier(implications), q)
         /\ \A q : q \in Counted <=>
              q \in Frontier(pointstamps) \/ \E p \in Frontier(implications) : <<p, q>> \in Hop
<1>1. Counted \subseteq Pointstamp
  BY DEF Counted
<1>2. Frontier(implications) = Earliests(Counted) /\ Frontier(pointstamps) = Earliests(Positive)
  BY FrontierMeans DEF Counted, Positive
<1>3. ASSUME NEW q \in Pointstamp
      PROVE  /\ Backing(Frontier(implications), q) \in Nat
             /\ implications[q] = (IF q \in Frontier(pointstamps) THEN 1 ELSE 0)
                                    + Backing(Frontier(implications), q)
  <2>1. implications[q] \in Int /\ worklist[q] = 0
    BY DEF IInv, TypeOK, WorklistDrained, Zero
  <2>2. Backing(Frontier(implications), q) \in Nat
    BY FrontierIn, BackingMeans
  <2>3. implications[q] + worklist[q]
          = (IF q \in Frontier(pointstamps) THEN 1 ELSE 0) + Backing(Frontier(implications), q)
    BY DEF IInv, ImplicationsAccounted
  <2> QED
    BY <2>1, <2>2, <2>3
<1>4. ASSUME NEW q \in Pointstamp
      PROVE  q \in Counted <=>
               q \in Frontier(pointstamps) \/ \E p \in Frontier(implications) : <<p, q>> \in Hop
  <2>1. Backing(Frontier(implications), q) > 0
          <=> \E p \in Frontier(implications) : <<p, q>> \in Hop
    BY FrontierIn, BackingMeans
  <2>2. q \in Counted <=> implications[q] > 0
    BY DEF Counted
  <2> QED
    BY <1>3, <2>1, <2>2
<1>5. ASSUME NEW q, q \notin Pointstamp
      PROVE  ~(q \in Counted) /\ ~(q \in Frontier(pointstamps))
             /\ ~(\E p \in Frontier(implications) : <<p, q>> \in Hop)
  BY <1>1, <1>5, FrontierIn, HopIn
<1> QED
  BY <1>1, <1>2, <1>3, <1>4, <1>5

\* Nothing is counted that no pointstamp leads to: of what were counted nonetheless, the
\* one to which the fewest lead would have been handed on by one to which fewer do.
LEMMA NothingLeftOver == ASSUME IInv, ~propagating PROVE Counted \subseteq Reach(Positive)
<1> DEFINE Left == Counted \ Reach(Positive)
<1> SUFFICES ASSUME Left # {} PROVE FALSE
  OBVIOUS
<1>1. Left \subseteq Pointstamp
  BY Settled
<1>2. PICK q \in Left : \A x \in Left : Rank[q] <= Rank[x]
  <2> HIDE DEF Left
  <2> QED
    BY <1>1, HopRank, LeastRank
<1>3. q \in Pointstamp /\ q \in Counted /\ q \notin Reach(Positive)
  BY <1>1, <1>2
<1>4. CASE q \in Frontier(pointstamps)
  <2>1. q \in Positive
    BY <1>4, Settled DEF Earliests
  <2> QED
    BY <1>3, <2>1, ReachMeans, LeadsToCloses
<1>5. CASE \E p \in Frontier(implications) : <<p, q>> \in Hop
  <2>1. PICK p \in Frontier(implications) : <<p, q>> \in Hop
    BY <1>5
  <2>2. p \in Counted
    BY Settled DEF Earliests
  <2>3. p \notin Reach(Positive)
    BY <1>3, <2>1, ReachMeans, LeadsToCloses
  <2>4. p \in Left /\ p \in Pointstamp
    BY <1>1, <2>2, <2>3
  <2>5. Rank[q] <= Rank[p] /\ Rank[p] < Rank[q] /\ Rank[p] \in Nat /\ Rank[q] \in Nat
    BY <1>2, <1>3, <2>1, <2>4, HopRank
  <2> QED
    BY <2>5
<1> QED
  BY <1>3, <1>4, <1>5, Settled

\* What is counted comes at or before whatever a pointstamp leads to.
LEMMA NothingMissed ==
  ASSUME IInv, ~propagating
  PROVE  \A q \in Reach(Positive) : \E p \in Frontier(implications) : Below(p, q)
<1> DEFINE I == Frontier(implications)
           S == {e \in Pointstamp \X Pointstamp :
                   e[1] \in Positive => \E p \in I : Below(p, e[2])}
<1>1. I \subseteq Pointstamp /\ I \subseteq Counted /\ Counted \subseteq Pointstamp
  BY Settled DEF Earliests
<1>2. \A c \in Counted : \E p \in I : Below(p, c)
  BY Settled, EarliestBelow
<1>3. ASSUME NEW a \in Pointstamp PROVE <<a, a>> \in S
  <2>1. ASSUME a \in Positive PROVE \E p \in I : Below(p, a)
    <3>1. Positive \subseteq Pointstamp
      BY DEF Positive
    <3>2. PICK o \in Frontier(pointstamps) : Below(o, a)
      BY <2>1, <3>1, Settled, EarliestBelow
    <3>3. o \in Counted
      BY Settled
    <3>4. PICK p \in I : Below(p, o)
      BY <1>2, <3>3
    <3>5. Below(p, a)
      BY <1>1, <3>2, <3>3, <3>4, BelowOrder
    <3> QED
      BY <3>5
  <2> QED
    BY <2>1
<1>4. ASSUME NEW a, NEW b, NEW c, <<a, b>> \in S, <<b, c>> \in Hop PROVE <<a, c>> \in S
  <2>1. a \in Pointstamp /\ c \in Pointstamp
    BY <1>4, HopIn
  <2>2. ASSUME a \in Positive PROVE \E p \in I : Below(p, c)
    <3>1. PICK p \in I : Below(p, b)
      BY <1>4, <2>2
    <3>2. PICK r : <<p, r>> \in Hop /\ Below(r, c)
      BY <1>1, <1>4, <3>1, HopMonotone
    <3>3. r \in Counted /\ r \in Pointstamp
      BY <3>2, Settled, HopIn
    <3>4. PICK x \in I : Below(x, r)
      BY <1>2, <3>3
    <3>5. Below(x, c)
      BY <1>1, <2>1, <3>2, <3>3, <3>4, BelowOrder
    <3> QED
      BY <3>5
  <2> QED
    BY <2>1, <2>2
<1>5. LeadsTo \subseteq S
  <2> HIDE DEF S
  <2> QED
    BY <1>3, <1>4, PathInduction
<1>6. ASSUME NEW q \in Reach(Positive) PROVE \E p \in I : Below(p, q)
  <2>1. PICK a \in Positive : <<a, q>> \in LeadsTo
    BY <1>6, ReachMeans
  <2> QED
    BY <1>5, <2>1
<1> QED
  BY <1>6

LEMMA ImplicationsMeans ==
  ASSUME IInv, ~propagating
  PROVE  Frontier(implications) = Earliests(Reach(Positive))
<1>1. Covers(Reach(Positive), Counted)
  <2>1. \A q \in Counted : q \in Reach(Positive) /\ q \in Pointstamp
    BY NothingLeftOver, Settled
  <2> QED
    BY <2>1, BelowOrder DEF Covers
<1>2. Covers(Counted, Reach(Positive))
  BY NothingMissed, Settled DEF Covers, Earliests
<1>3. Reach(Positive) \subseteq Pointstamp /\ Counted \subseteq Pointstamp
  BY ReachMeans, Settled
<1>4. Earliests(Counted) = Earliests(Reach(Positive))
  BY <1>1, <1>2, <1>3, SameEarliest
<1> QED
  BY <1>4, Settled

LEMMA PropagationComplete == IInv => ImplicationsCorrect
BY ImplicationsMeans, ImpliedMeans DEF ImplicationsCorrect

\* The tracker is right about its frontiers: propagate_all leaves the implications of the
\* positive pointstamps, whatever was updated before, and what it counts and reports on
\* the way adds up (reachability.rs, propagate_all).
THEOREM TrackerIsCorrect == Spec => []TrackerCorrect
<1>1. IInv => TrackerCorrect
  BY PropagationComplete DEF IInv, TrackerCorrect
<1> QED
  BY <1>1, Invariance, PTL

-----------------------------------------------------------------------------
(* The scope's outputs *)

LEMMA EarliestsAt ==
  ASSUME NEW S, S \subseteq Pointstamp, NEW port
  PROVE  {q \in Earliests(S) : q[1] = port} = Earliests({q \in S : q[1] = port})
BY DEF Earliests, Below

LEMMA MinimalMeans ==
  ASSUME NEW port \in Port, NEW T, T \subseteq Time
  PROVE  {port} \X Minimal(T) = Earliests({port} \X T)
<1>1. ASSUME NEW p \in {port} \X Minimal(T) PROVE p \in Earliests({port} \X T)
  <2>1. p = <<port, p[2]>> /\ p[2] \in T /\ \A s \in T : Leq(s, p[2]) => s = p[2]
    BY <1>1 DEF Minimal
  <2>2. ASSUME NEW q \in {port} \X T, Below(q, p) PROVE q = p
    <3>1. q = <<port, q[2]>> /\ q[2] \in T /\ Leq(q[2], p[2])
      BY <2>2 DEF Below
    <3> QED
      BY <2>1, <3>1
  <2> QED
    BY <2>1, <2>2 DEF Earliests
<1>2. ASSUME NEW p \in Earliests({port} \X T) PROVE p \in {port} \X Minimal(T)
  <2>1. p = <<port, p[2]>> /\ p[2] \in T /\ \A q \in {port} \X T : Below(q, p) => q = p
    BY <1>2 DEF Earliests
  <2>2. ASSUME NEW s \in T, Leq(s, p[2]) PROVE s = p[2]
    <3>1. Below(<<port, s>>, p) /\ <<port, s>> \in {port} \X T
      BY <2>1, <2>2 DEF Below
    <3>2. <<port, s>> = p
      BY <2>1, <3>1
    <3> QED
      BY <2>1, <3>2
  <2> QED
    BY <2>1, <2>2 DEF Minimal
<1> QED
  BY <1>1, <1>2

\* Sets with the same earliest members cover each other.
LEMMA SharedCovers ==
  ASSUME NEW S, S \subseteq Pointstamp, NEW T, T \subseteq Pointstamp,
         Earliests(S) = Earliests(T)
  PROVE  Covers(S, T)
<1> SUFFICES ASSUME NEW t \in T PROVE \E s \in S : Below(s, t)
  BY DEF Covers
<1>1. PICK m \in Earliests(T) : Below(m, t)
  BY EarliestBelow
<1> QED
  BY <1>1 DEF Earliests

\* The times that the compiled summaries of o's port result in.
Projected(o) == UNION {ResultsIn(s, o[2]) : s \in OutputSummary(o[1])}

\* What is projected from o and what o leads to at the scope's output cover each other.
LEMMA Compiled ==
  ASSUME NEW o \in Pointstamp, o[1] \notin ScopeInput \cup {ScopeOutput}
  PROVE  /\ \A t \in Projected(o) : \E u \in AtOutput(o) : Leq(u, t)
         /\ \A u \in AtOutput(o) : \E t \in Projected(o) : Leq(t, u)
<1> DEFINE X == {ScopeOutput} \X Projected(o)
           Y == {ScopeOutput} \X AtOutput(o)
<1>1. o = <<o[1], o[2]>> /\ o[1] \in Port /\ o[2] \in Time /\ ScopeOutput \in Port
  BY PointstampMeans, PortsAssumption DEF Port
<1>2. Projected(o) \subseteq Time
  BY <1>1, OutputAssumption DEF Projected
<1>3. AtOutput(o) \subseteq Time
  BY DEF AtOutput
<1>4. Minimal(Projected(o)) = Minimal(AtOutput(o))
  <2>1. Minimal(Projected(o)) = Minimal(AtOutput(<<o[1], o[2]>>))
    BY <1>1, OutputAssumption DEF Projected
  <2> QED
    BY <1>1, <2>1
<1>5. Earliests(X) = Earliests(Y)
  BY <1>1, <1>2, <1>3, <1>4, MinimalMeans
<1>6. X \subseteq Pointstamp /\ Y \subseteq Pointstamp
  BY <1>1, <1>2, <1>3 DEF Pointstamp
<1>7. Covers(X, Y) /\ Covers(Y, X)
  <2> HIDE DEF X, Y
  <2> QED
    BY <1>5, <1>6, SharedCovers
<1>8. ASSUME NEW t \in Projected(o) PROVE \E u \in AtOutput(o) : Leq(u, t)
  <2>1. PICK y \in Y : Below(y, <<ScopeOutput, t>>)
    BY <1>7 DEF Covers
  <2> QED
    BY <2>1 DEF Below
<1>9. ASSUME NEW u \in AtOutput(o) PROVE \E t \in Projected(o) : Leq(t, u)
  <2>1. PICK x \in X : Below(x, <<ScopeOutput, u>>)
    BY <1>7 DEF Covers
  <2> QED
    BY <2>1 DEF Below
<1> QED
  BY <1>8, <1>9

\* Where something is counted, something is reported from.
LEMMA PositiveWhereUpdated == ASSUME IInv, NEW p \in Positive PROVE p[1] # ScopeOutput
<1>1. p \in Pointstamp /\ pointstamps[p] > 0
  BY DEF Positive
<1>2. p \in Updatable
  <2> SUFFICES ASSUME p \notin Updatable PROVE FALSE
    OBVIOUS
  <2>1. pointstamps[p] = 0
    BY <1>1 DEF IInv, CountedWhereUpdated
  <2> QED
    BY <1>1, <2>1
<1> QED
  BY <1>2, PortsAssumption

LEMMA OutputsMeet == IInv => OutputsCorrect
<1> SUFFICES ASSUME IInv PROVE OutputsCorrect
  OBVIOUS
<1> DEFINE inside == {p \in Positive : p[1] \notin ScopeInput}
           O == Frontier(pointstamps)
           T == {t \in Time : output_changes[t] > 0}
           A == {ScopeOutput} \X T
           B == {q \in Reach(inside) : q[1] = ScopeOutput}
<1>1. ScopeOutput \in Port
  BY PortsAssumption DEF Port
<1>2. T \subseteq Time /\ A \subseteq Pointstamp
  BY <1>1 DEF Pointstamp
<1>3. Reach(inside) \subseteq Pointstamp /\ B \subseteq Pointstamp
  BY ReachMeans
<1>4. Positive \subseteq Pointstamp /\ O \subseteq Positive /\ \A p \in Positive : \E o \in O : Below(o, p)
  <2>1. Positive \subseteq Pointstamp
    BY DEF Positive
  <2>2. O = Earliests(Positive)
    BY FrontierMeans DEF Positive
  <2> QED
    BY <2>1, <2>2, EarliestBelow DEF Earliests
<1>5. \A t \in Time : t \in T <=> \E o \in O : t \in Projected(o)
  <2> SUFFICES ASSUME NEW t \in Time PROVE t \in T <=> \E o \in O : t \in Projected(o)
    OBVIOUS
  <2>1. output_changes[t] = ToOutput(O, t)
    BY DEF IInv, OutputsProjected
  <2>2. ToOutput(O, t) > 0 <=> \E o \in O : \E s \in OutputSummary(o[1]) : t \in ResultsIn(s, o[2])
    BY <1>4, ToOutputMeans
  <2> QED
    BY <2>1, <2>2 DEF Projected
<1>6. ASSUME NEW b \in B PROVE \E a \in A : Below(a, b)
  <2>1. PICK p \in inside : <<p, b>> \in LeadsTo
    BY ReachMeans
  <2>2. PICK o \in O : Below(o, p)
    BY <1>4
  <2>3. o \in Pointstamp /\ o[1] \notin ScopeInput \cup {ScopeOutput}
    BY <1>4, <2>2, PositiveWhereUpdated DEF Below
  <2>4. PICK r : <<o, r>> \in LeadsTo /\ Below(r, b)
    BY <2>1, <2>2, <2>3, PathMonotone
  <2>5. r \in Pointstamp /\ r = <<ScopeOutput, r[2]>> /\ r[2] \in Time
    BY <2>4, LeadsToCloses, PointstampMeans DEF Below
  <2>6. r[2] \in AtOutput(o)
    BY <2>4, <2>5 DEF AtOutput
  <2>7. PICK t \in Projected(o) : Leq(t, r[2])
    BY <2>3, <2>6, Compiled
  <2>8. t \in Time
    <3>1. o[1] \in Port /\ o[2] \in Time
      BY <2>3, PointstampMeans
    <3> QED
      BY <2>7, <3>1, OutputAssumption DEF Projected
  <2>9. t \in T
    BY <1>5, <2>7, <2>8
  <2>10. Below(<<ScopeOutput, t>>, b)
    <3>1. b[1] = ScopeOutput /\ b[2] \in Time /\ Leq(r[2], b[2])
      BY <1>3, <2>4, PointstampMeans DEF Below
    <3> QED
      BY <2>5, <2>7, <2>8, <3>1, LeqPartialOrder DEF Below
  <2> QED
    BY <2>9, <2>10
<1>7. ASSUME NEW a \in A PROVE \E b \in B : Below(b, a)
  <2>1. a = <<ScopeOutput, a[2]>> /\ a[2] \in T
    OBVIOUS
  <2>2. PICK o \in O : a[2] \in Projected(o)
    BY <1>2, <1>5, <2>1
  <2>3. o \in Pointstamp /\ o[1] \in Port /\ o \in Positive
    BY <1>4, PointstampMeans
  <2>4. o[1] \notin ScopeInput \cup {ScopeOutput}
    <3>1. OutputSummary(o[1]) # {}
      BY <2>2 DEF Projected
    <3> QED
      BY <2>3, <3>1, OutputAssumption, PositiveWhereUpdated
  <2>5. PICK u \in AtOutput(o) : Leq(u, a[2])
    BY <2>2, <2>3, <2>4, Compiled
  <2> DEFINE b == <<ScopeOutput, u>>
  <2>6. <<o, b>> \in LeadsTo
    BY <2>5 DEF AtOutput
  <2>7. b \in B
    BY <2>3, <2>4, <2>6, ReachMeans
  <2>8. Below(b, a)
    BY <2>1, <2>5 DEF Below
  <2> QED
    BY <2>7, <2>8
<1>8. Earliests(A) = Earliests(B)
  <2> HIDE DEF A, B
  <2> QED
    BY <1>2, <1>3, <1>6, <1>7, SameEarliest DEF Covers
<1>9. {ScopeOutput} \X Minimal(T) = Earliests(A)
  <2> HIDE DEF T
  <2> QED
    BY <1>1, <1>2, MinimalMeans
<1>10. {q \in Implied(inside) : q[1] = ScopeOutput} = Earliests(B)
  <2> HIDE DEF inside
  <2> QED
    BY <1>3, EarliestsAt, ImpliedMeans
<1> QED
  BY <1>8, <1>9, <1>10 DEF OutputsCorrect

\* What a scope tells its parent it may still send, projected in one step along the
\* compiled summaries, is what propagation would bring to its output (reachability.rs,
\* propagate_all step 1, and summarize_outputs).
THEOREM OutputsAreCorrect == Spec => []OutputsCorrect
BY OutputsMeet, Invariance, PTL

-----------------------------------------------------------------------------
(* is_global *)

\* Without p, nothing changes at its port as long as something still leads there by p.
LEMMA Unneeded ==
  ASSUME NEW P, P \subseteq Pointstamp, NEW p \in P,
         NEW q \in Reach(P \ {p}), Below(q, p)
  PROVE  {x \in Implied(P) : x[1] = p[1]} = {x \in Implied(P \ {p}) : x[1] = p[1]}
<1> DEFINE R == {x \in Reach(P) : x[1] = p[1]}
           L == {x \in Reach(P \ {p}) : x[1] = p[1]}
<1>1. R \subseteq Pointstamp /\ L \subseteq R
  BY ReachMeans
<1>2. q \in L /\ q \in Pointstamp
  BY ReachMeans DEF Below
<1>3. ASSUME NEW x \in R PROVE \E y \in L : Below(y, x)
  <2>1. PICK a \in P : <<a, x>> \in LeadsTo
    BY ReachMeans
  <2>2. CASE a # p
    <3>1. x \in L
      BY <2>1, <2>2, ReachMeans
    <3> QED
      BY <1>1, <3>1, BelowOrder
  <2>3. CASE a = p
    <3>1. Below(p, x)
      BY <2>1, <2>3, PathLater DEF Below
    <3>2. Below(q, x)
      BY <1>1, <1>2, <3>1, BelowOrder
    <3> QED
      BY <1>2, <3>2
  <2> QED
    BY <2>2, <2>3
<1>4. Covers(L, R) /\ Covers(R, L)
  <2>1. \A x \in L : x \in R /\ Below(x, x)
    BY <1>1, BelowOrder
  <2> HIDE DEF L, R
  <2> QED
    BY <1>3, <2>1 DEF Covers
<1>5. Earliests(R) = Earliests(L)
  <2>1. L \subseteq Pointstamp
    BY <1>1
  <2> HIDE DEF L, R
  <2> QED
    BY <1>1, <1>4, <2>1, SameEarliest
<1>6. ASSUME NEW Q PROVE {x \in Implied(Q) : x[1] = p[1]} = Earliests({x \in Reach(Q) : x[1] = p[1]})
  <2>1. Reach(Q) \subseteq Pointstamp /\ Implied(Q) = Earliests(Reach(Q))
    BY ReachMeans, ImpliedMeans
  <2>2. {x \in Earliests(Reach(Q)) : x[1] = p[1]} = Earliests({x \in Reach(Q) : x[1] = p[1]})
    BY <2>1, Zenon DEF Earliests, Below
  <2> QED
    BY <2>1, <2>2
<1> QED
  BY <1>5, <1>6

LEMMA GlobalMeans ==
  ASSUME IInv, ~propagating, NEW p \in Positive
  PROVE  IsGlobal(p) <=> {x \in Implied(Positive) : x[1] = p[1]}
                           # {x \in Implied(Positive \ {p}) : x[1] = p[1]}
<1> DEFINE I == Frontier(implications)
           O == Frontier(pointstamps)
<1>1. p \in Pointstamp /\ Positive \subseteq Pointstamp
  BY DEF Positive
<1>2. I = Earliests(Reach(Positive)) /\ I = Implied(Positive) /\ I \subseteq Reach(Positive)
  BY ImplicationsMeans, ImpliedMeans DEF Earliests
<1>3. I \subseteq Pointstamp /\ Reach(Positive) \subseteq Pointstamp
  BY <1>2, ReachMeans
<1>4. p \in Reach(Positive)
  BY <1>1, ReachMeans, LeadsToCloses
<1>5. implications[p] \in Int /\ Backing(I, p) \in Nat
      /\ implications[p] = (IF p \in O THEN 1 ELSE 0) + Backing(I, p)
      /\ (Backing(I, p) > 0 <=> \E r \in I : <<r, p>> \in Hop)
  <2>1. implications[p] \in Int
    BY <1>1 DEF IInv, TypeOK
  <2>2. Backing(I, p) \in Nat /\ (Backing(I, p) > 0 <=> \E r \in I : <<r, p>> \in Hop)
    BY <1>1, <1>3, BackingMeans
  <2>3. implications[p] = (IF p \in O THEN 1 ELSE 0) + Backing(I, p)
    BY <1>1, Settled
  <2> QED
    BY <2>1, <2>2, <2>3
<1>6. IsGlobal(p) <=> (\A q \in I : Below(q, p) => q = p) /\ implications[p] <= 1
  <2>1. ASSUME NEW q \in I PROVE (q[1] = p[1] /\ Less(q[2], p[2])) <=> (Below(q, p) /\ q # p)
    <3>1. p = <<p[1], p[2]>> /\ q = <<q[1], q[2]>>
      BY <1>1, <1>3, PointstampMeans
    <3> QED
      BY <3>1 DEF Less, Below
  <2> QED
    BY <1>5, <2>1 DEF IsGlobal
<1>7. ASSUME NEW q \in I, Below(q, p), q # p
      PROVE  q \in Reach(Positive \ {p})
  <2>1. PICK a \in Positive : <<a, q>> \in LeadsTo
    BY <1>2, ReachMeans
  <2>2. a # p
    <3> SUFFICES ASSUME a = p PROVE FALSE
      OBVIOUS
    <3>1. Below(p, q)
      BY <1>7, <2>1, PathLater DEF Below
    <3> QED
      BY <1>1, <1>3, <1>7, <3>1, BelowOrder
  <2> QED
    BY <2>1, <2>2, ReachMeans
<1>8. ASSUME implications[p] > 1 PROVE p \in Reach(Positive \ {p})
  <2>1. PICK r \in I : <<r, p>> \in Hop
    BY <1>5, <1>8
  <2>2. PICK a \in Positive : <<a, r>> \in LeadsTo
    BY <1>2, ReachMeans
  <2>3. a # p
    BY <2>1, <2>2, AcyclicAssumption
  <2>4. <<a, p>> \in LeadsTo
    BY <2>1, <2>2, LeadsToCloses
  <2> QED
    BY <2>3, <2>4, ReachMeans
<1>9. ASSUME ~IsGlobal(p)
      PROVE  {x \in Implied(Positive) : x[1] = p[1]} = {x \in Implied(Positive \ {p}) : x[1] = p[1]}
  <2>1. (\E q \in I : Below(q, p) /\ q # p) \/ implications[p] > 1
    <3>1. ~(implications[p] <= 1) => implications[p] > 1
      BY <1>5
    <3> HIDE DEF I
    <3> QED
      BY <1>6, <1>9, <3>1
  <2>2. PICK q \in Reach(Positive \ {p}) : Below(q, p)
    BY <1>1, <1>7, <1>8, <2>1, BelowOrder
  <2> QED
    BY <1>1, <2>2, Unneeded
<1>10. ASSUME IsGlobal(p)
       PROVE  p \in Implied(Positive) /\ p \notin Implied(Positive \ {p})
  <2>1. p \in I
    <3>1. PICK q \in I : Below(q, p)
      BY <1>4, NothingMissed
    <3> QED
      BY <1>6, <1>10, <3>1
  <2>2. \A x \in Reach(Positive) : Below(x, p) => x = p
    BY <1>2, <2>1 DEF Earliests
  <2>3. p \in O
    <3>1. PICK o \in O : Below(o, p)
      BY <1>1, Settled, EarliestBelow
    <3>2. o \in Reach(Positive)
      BY <3>1, <1>1, Settled, ReachMeans, LeadsToCloses DEF Earliests
    <3> QED
      BY <2>2, <3>1, <3>2
  <2>4. p \notin Reach(Positive \ {p})
    <3> SUFFICES ASSUME p \in Reach(Positive \ {p}) PROVE FALSE
      OBVIOUS
    <3>1. PICK a \in Positive \ {p} : <<a, p>> \in LeadsTo
      BY ReachMeans
    <3>2. PICK r : <<a, r>> \in LeadsTo /\ <<r, p>> \in Hop
      BY <3>1, LastHop
    <3>3. PICK i \in I : Below(i, r)
      BY <3>1, <3>2, NothingMissed, ReachMeans
    <3>4. PICK x : <<i, x>> \in Hop /\ Below(x, p)
      BY <1>3, <3>2, <3>3, HopMonotone
    <3>5. x \in Counted /\ x \in Reach(Positive)
      BY <3>3, <3>4, Settled, NothingLeftOver
    <3>6. <<i, p>> \in Hop
      BY <2>2, <3>4, <3>5
    <3> QED
      BY <1>5, <1>6, <1>10, <2>3, <3>3, <3>6
  <2>5. Implied(Positive \ {p}) \subseteq Reach(Positive \ {p})
    BY ImpliedMeans DEF Earliests
  <2> QED
    BY <1>2, <2>1, <2>4, <2>5
<1> QED
  BY <1>9, <1>10

\* is_global is true of exactly those pointstamps without which the frontiers of their
\* own port would differ (reachability.rs, is_global).
THEOREM GlobalIsExact == Spec => []IsGlobalExact
<1>1. IInv => IsGlobalExact
  BY GlobalMeans DEF IsGlobalExact
<1> QED
  BY <1>1, Invariance, PTL

-----------------------------------------------------------------------------
(* FpgaWrapper beside the tracker *)

FP ==
  INSTANCE FpgaWrapperProofs WITH
    MaxTime <- MaxEpoch, epoch <- fw_epoch, pending <- fw_pending, queue <- fw_queue,
    outbox <- fw_outbox, windows <- fw_windows, answers <- fw_answers,
    received <- fw_received, known <- fw_known, batch <- fw_batch, shared <- fw_shared,
    produceds <- fw_produceds, stale <- fw_stale, activations <- fw_activations,
    temp_active <- fw_temp_active, cursor <- fw_cursor, calling <- fw_calling,
    first <- fw_first, probe <- fw_probe

LEMMA SameInit == FW!Init <=> FP!Init
BY DEF FP!Input, FP!Ghost, FP!Wrapper, FP!Inspect, FP!Probe, FP!Child, FP!Idle, FP!Epochs, FP!None,
  FP!Place, FP!Pointstamp, FP!Zero, FP!Indicator, FP!NoCounts, FP!Nothing, FP!Init, FW!Input,
  FW!Ghost, FW!Wrapper, FW!Inspect, FW!Probe, FW!Child, FW!Idle, FW!Epochs, FW!None, FW!Place,
  FW!Pointstamp, FW!Zero, FW!Indicator, FW!NoCounts, FW!Nothing, FW!Init

LEMMA SameNext == FW!Next <=> FP!Next
BY DEF FP!Input, FP!Ghost, FP!FirstGhost, FP!Window, FP!Wrapper, FP!Inspect, FP!Probe,
  FP!Child, FP!Idle, FP!Epochs, FP!Never, FP!None, FP!NoMessage, FP!device, FP!handle,
  FP!counts, FP!Place, FP!Pointstamp, FP!Zero, FP!Plus, FP!Indicator, FP!Follows, FP!Tracked,
  FP!Frontier, FP!Least, FP!Send, FP!Close, FP!NoCounts, FP!Processed, FP!Emitted, FP!Nothing,
  FP!Reported, FP!Take, FP!ExchangeMessage, FP!ExchangeNothing, FP!Drained, FP!WrapperReturns,
  FP!Moved, FP!Notified, FP!BeginSchedule, FP!Revisited, FP!Skip, FP!Operate, FP!CallWrapper,
  FP!ShowProbe, FP!ActivateChild, FP!EndSchedule, FP!Step, FP!Next, FW!Input, FW!Ghost,
  FW!FirstGhost, FW!Window, FW!Wrapper, FW!Inspect, FW!Probe, FW!Child, FW!Idle, FW!Epochs,
  FW!Never, FW!None, FW!NoMessage, FW!device, FW!handle, FW!counts, FW!Place, FW!Pointstamp,
  FW!Zero, FW!Plus, FW!Indicator, FW!Follows, FW!Tracked, FW!Frontier, FW!Least, FW!Send,
  FW!Close, FW!NoCounts, FW!Processed, FW!Emitted, FW!Nothing, FW!Reported, FW!Take,
  FW!ExchangeMessage, FW!ExchangeNothing, FW!Drained, FW!WrapperReturns, FW!Moved,
  FW!Notified, FW!BeginSchedule, FW!Revisited, FW!Skip, FW!Operate, FW!CallWrapper,
  FW!ShowProbe, FW!ActivateChild, FW!EndSchedule, FW!Step, FW!Next

LEMMA SameProbeSafe == FW!ProbeSafe <=> FP!ProbeSafe
BY DEF FP!ProbeSafe, FW!ProbeSafe

LEMMA SameGhostsStandIn == FW!GhostsStandIn <=> FP!GhostsStandIn
BY DEF FP!Input, FP!Ghost, FP!FirstGhost, FP!Window, FP!Inspect, FP!Probe, FP!Child, FP!Idle,
  FP!Epochs, FP!Never, FP!None, FP!NoMessage, FP!Place, FP!Pointstamp, FP!Plus, FP!Indicator,
  FP!Answer, FP!TypeOK, FP!Held, FP!CountsConserved, FP!GhostsNeverRun, FP!GhostsStandIn,
  FW!Input, FW!Ghost, FW!FirstGhost, FW!Window, FW!Inspect, FW!Probe, FW!Child, FW!Idle,
  FW!Epochs, FW!Never, FW!None, FW!NoMessage, FW!Place, FW!Pointstamp, FW!Plus, FW!Indicator,
  FW!Answer, FW!TypeOK, FW!Held, FW!CountsConserved, FW!GhostsNeverRun, FW!GhostsStandIn

LEMMA SameVars == FW!vars = FP!vars
BY DEF FP!device, FP!handle, FP!counts, FP!scheduling, FP!vars, FW!device, FW!handle, FW!counts,
  FW!scheduling, FW!vars

\* A step is one of the device's program or changes nothing of it.
LEMMA DeviceSteps ==
  ASSUME [AnyNext]_<<which, vars, fw_vars>>
  PROVE  [FP!Next]_(FP!vars)
<1>1. CASE which = "fpga_wrapper" /\ FW!Next
  BY <1>1, SameNext
<1>2. CASE UNCHANGED fw_vars
  BY <1>2 DEF fw_vars, FP!vars, FP!handle, FP!device, FP!counts, FP!scheduling
<1> QED
  BY <1>1, <1>2 DEF AnyNext

\* fpga_wrapper.rs and extract_progress in subgraph.rs: as long as the device answers in
\* time, the counts reported in the ghosts' names are what the handle, the queues and the
\* device hold, and the ghosts report nothing themselves.
THEOREM DeviceCounted ==
  ASSUME Ghosts \in Nat \ {0}, MaxEpoch \in Nat
  PROVE  AnySpec => []GhostsStandIn
<1>1. FP!Sizes
  BY DEF FP!Sizes
<1>2. AnyInit => FP!IInv /\ FP!CInv
  BY <1>1, SameInit, FP!InitIInv, FP!CountsInit DEF AnyInit, FP!Sizes
<1>3. FP!IInv /\ FP!CInv /\ [AnyNext]_<<which, vars, fw_vars>> => FP!IInv' /\ FP!CInv'
  BY <1>1, DeviceSteps, FP!NextIInv, FP!CountsNext DEF FP!Sizes
<1>4. FP!IInv /\ FP!CInv => GhostsStandIn
  BY SameGhostsStandIn DEF GhostsStandIn, FP!IInv, FP!CInv, FP!GhostsStandIn
<1> QED
  BY <1>2, <1>3, <1>4, PTL DEF AnySpec

\* examples/hello.rs over fpga_wrapper.rs: for a program that waits for each epoch, the
\* probe passes nothing that waits, or that the device keeps or has answered, although its
\* answers may be late.
THEOREM DeviceBehindProbe ==
  ASSUME Ghosts \in Nat \ {0}, MaxEpoch \in Nat, MaxAhead = 1
  PROVE  AnySpec => []ProbeSafe
<1>1. FP!Sizes /\ FP!Synchronous
  BY DEF FP!Sizes, FP!Synchronous
<1> DEFINE Inv == FP!IInv /\ FP!CInv /\ FP!PInv
<1>2. AnyInit => Inv
  BY <1>1, SameInit, FP!InitIInv, FP!CountsInit, FP!ProbeInit DEF AnyInit, FP!Sizes
<1>3. Inv /\ [AnyNext]_<<which, vars, fw_vars>> => Inv'
  BY <1>1, DeviceSteps, FP!NextIInv, FP!CountsNext, FP!ProbeNext DEF FP!Sizes
<1>4. Inv => ProbeSafe
  BY <1>1, SameProbeSafe, FP!OwedSafe DEF ProbeSafe
<1> QED
  BY <1>2, <1>3, <1>4, PTL DEF AnySpec

=============================================================================
