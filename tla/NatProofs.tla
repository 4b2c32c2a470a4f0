----------------------------- MODULE NatProofs ------------------------------
(***************************************************************************)
(* Facts about numbers that the proofs of several components share.        *)
(* Induction is done by minimal counterexample: the least element of the   *)
(* set of numbers for which a claim fails.                                 *)
(***************************************************************************)
EXTENDS Integers, NaturalsInduction, WellFoundedInduction, TLAPS

(* A nonempty set of natural numbers has a least element. *)
LEMMA Least ==
    ASSUME NEW S \in SUBSET Nat, S # {}
    PROVE  \E x \in S : \A y \in S : x <= y
<1> DEFINE Less == {ss \in Nat \X Nat : ss[1] < ss[2]}
<1>1. IsWellFoundedOn(Less, Nat)
  BY NatLessThanWellFounded DEF OpToRel
<1>2. PICK x \in S : \A y \in S : ~ (<<y, x>> \in Less)
  <2> HIDE DEF Less
  <2> QED BY <1>1, WFMin
<1>3. ASSUME NEW y \in S PROVE x <= y
  <2>1. x \in Nat /\ y \in Nat
    OBVIOUS
  <2>2. (<<y, x>> \in Less) <=> y < x
    BY <2>1
  <2> QED
    BY <1>2, <2>1, <2>2
<1> QED
  BY <1>3

(* Two's complement: what is stored in a signed integer of 2 * (max + 1)     *)
(* values is one of them.                                                    *)
LEMMA WrapInRange ==
    ASSUME NEW max \in Nat, NEW n \in Int
    PROVE  ((n + max + 1) % (2 * (max + 1))) - (max + 1) \in -(max + 1) .. max
<1> DEFINE w == 2 * (max + 1)
<1>1. w \in Nat /\ w > 0 /\ n + max + 1 \in Int
  OBVIOUS
<1>2. (n + max + 1) % w \in 0 .. w - 1
  <2> HIDE DEF w
  <2> QED
    BY <1>1
<1> QED
  BY <1>1, <1>2


(* From base on, n steps stay in S. *)
Closed(S, base, n, next) ==
    /\ base \in S /\ n \in Nat
    /\ \A i \in 1 .. n : \A x \in S : next[i][x] \in S

(* f[i] is what i steps from base lead to. *)
Follows(f, S, base, n, next) ==
    /\ f \in [0 .. n -> S] /\ f[0] = base
    /\ \A i \in 1 .. n : f[i] = next[i][f[i - 1]]

(* A function defined step by step exists: a shortest range on which it did  *)
(* not could be extended from the one before it.                             *)
LEMMA StepByStep ==
    ASSUME NEW S, NEW base, NEW n, NEW next, Closed(S, base, n, next)
    PROVE  \E f : Follows(f, S, base, n, next)
<1> USE DEF Closed
<1> DEFINE Built(m, f) == f[0] = base /\ \A i \in 1 .. m : f[i] = next[i][f[i - 1]]
           Bad == {m \in 0 .. n : ~ \E f \in [0 .. m -> S] : Built(m, f)}
<1>1. ASSUME Bad # {} PROVE FALSE
  <2>1. PICK m \in Bad : \A k \in Bad : m <= k
    <3>1. Bad \in SUBSET Nat
      OBVIOUS
    <3> QED
      BY <1>1, <3>1, Least
  <2>2. m # 0
    <3> DEFINE f == [i \in 0 .. 0 |-> base]
    <3>1. f \in [0 .. 0 -> S] /\ Built(0, f)
      OBVIOUS
    <3> QED
      BY <2>1, <3>1, ZenonT(30)
  <2>3. m \in 1 .. n /\ m - 1 \in 0 .. n /\ m - 1 \notin Bad
    BY <2>1, <2>2
  <2>4. PICK f \in [0 .. m - 1 -> S] : Built(m - 1, f)
    BY <2>3
  <2> DEFINE g == [i \in 0 .. m |-> IF i = m THEN next[m][f[m - 1]] ELSE f[i]]
  <2>5. f[m - 1] \in S
    BY <2>3
  <2>6. g \in [0 .. m -> S]
    <3>1. \A i \in 0 .. m : i # m => f[i] \in S
      BY <2>3
    <3>2. next[m][f[m - 1]] \in S
      BY <2>3, <2>5
    <3> QED
      BY <3>1, <3>2
  <2>7. Built(m, g)
    <3>1. g[0] = base
      BY <2>3, <2>4
    <3>2. ASSUME NEW i \in 1 .. m PROVE g[i] = next[i][g[i - 1]]
      <4>1. g[i - 1] = f[i - 1]
        BY <2>3
      <4>2. CASE i = m
        BY <2>3, <4>1, <4>2
      <4>3. CASE i # m
        <5>1. i \in 1 .. m - 1
          BY <2>3, <4>3
        <5>2. g[i] = f[i] /\ f[i] = next[i][f[i - 1]]
          BY <2>3, <2>4, <5>1
        <5> QED
          BY <4>1, <5>2
      <4> QED
        BY <4>2, <4>3
    <3> QED
      BY <3>1, <3>2
  <2> QED
    BY <2>1, <2>6, <2>7
<1>2. n \notin Bad
  BY <1>1
<1> QED
  BY <1>2 DEF Follows

(* What holds at 0 and climbs one step at a time holds up to n.              *)
LEMMA Climb ==
    ASSUME NEW n \in Nat, NEW S, 0 \in S, \A i \in 1 .. n : i - 1 \in S => i \in S
    PROVE  \A i \in 0 .. n : i \in S
<1> DEFINE Bad == {i \in 0 .. n : i \notin S}
<1>1. ASSUME Bad # {} PROVE FALSE
  <2>1. Bad \in SUBSET Nat
    OBVIOUS
  <2>2. PICK m \in Bad : \A k \in Bad : m <= k
    BY <1>1, <2>1, Least
  <2>3. m # 0 /\ m - 1 \in 0 .. n /\ m - 1 \notin Bad
    BY <2>2
  <2> QED
    BY <2>2, <2>3
<1> QED
  BY <1>1

(* Strong induction. *)
LEMMA FromBelow ==
    ASSUME NEW S, \A k \in Nat : (\A j \in 0 .. k - 1 : j \in S) => k \in S
    PROVE  \A k \in Nat : k \in S
<1> DEFINE Bad == {k \in Nat : k \notin S}
<1>1. ASSUME Bad # {} PROVE FALSE
  <2>1. Bad \in SUBSET Nat
    OBVIOUS
  <2>2. PICK m \in Bad : \A k \in Bad : m <= k
    BY <1>1, <2>1, Least
  <2>3. \A j \in 0 .. m - 1 : j \in S
    BY <2>2
  <2> QED
    BY <2>2, <2>3
<1> QED
  BY <1>1

(* A function that looks itself up at one point of lower rank exists.  It is *)
(* approximated by lookups that go on for i steps only: at a point of rank   *)
(* below i they agree from i on.                                             *)
Downward(D, S, N, rank, stop, base, next, comb) ==
    /\ N \in Nat /\ rank \in [D -> 0 .. N] /\ base \in [D -> S] /\ S # {}
    /\ \A x \in D : ~stop[x] => next[x] \in D /\ rank[next[x]] < rank[x]
    /\ \A x \in D : ~stop[x] => \A r \in S : comb[x][r] \in S

Descends(f, D, S, stop, base, next, comb) ==
    /\ f \in [D -> S]
    /\ \A x \in D : f[x] = IF stop[x] THEN base[x] ELSE comb[x][f[next[x]]]

LEMMA ByDescent ==
    ASSUME NEW D, NEW S, NEW N, NEW rank, NEW stop, NEW base, NEW next, NEW comb,
           Downward(D, S, N, rank, stop, base, next, comb)
    PROVE  \E f : Descends(f, D, S, stop, base, next, comb)
<1> DEFINE F == [D -> S]
           Once(g) == [x \in D |-> IF stop[x] THEN base[x] ELSE comb[x][g[next[x]]]]
           again == [i \in 1 .. N + 1 |-> [g \in F |-> Once(g)]]
<1>1. /\ N \in Nat /\ rank \in [D -> 0 .. N] /\ base \in F
      /\ \A x \in D : ~stop[x] => next[x] \in D /\ rank[next[x]] < rank[x]
      /\ \A x \in D : ~stop[x] => \A r \in S : comb[x][r] \in S
  BY DEF Downward
<1>2. ASSUME NEW g \in F PROVE Once(g) \in F
  <2>1. ASSUME NEW x \in D
        PROVE  (IF stop[x] THEN base[x] ELSE comb[x][g[next[x]]]) \in S
    BY <1>1
  <2> QED
    BY <2>1
<1>3. ASSUME NEW g \in F, NEW i \in 1 .. N + 1 PROVE again[i][g] = Once(g)
  OBVIOUS
<1> HIDE DEF again
<1>4. Closed(F, base, N + 1, again)
  <2> HIDE DEF F, Once
  <2>1. \A i \in 1 .. N + 1 : \A g \in F : again[i][g] \in F
    BY <1>2, <1>3
  <2>2. base \in F /\ N + 1 \in Nat
    BY <1>1
  <2> QED
    BY <2>1, <2>2 DEF Closed
<1>5. PICK G : Follows(G, F, base, N + 1, again)
  BY <1>4, StepByStep
<1>6. /\ \A i \in 0 .. N + 1 : G[i] \in F
      /\ \A i \in 1 .. N + 1 : G[i] = Once(G[i - 1])
  <2> HIDE DEF F, Once
  <2>1. /\ G \in [0 .. N + 1 -> F]
        /\ \A i \in 1 .. N + 1 : G[i] = again[i][G[i - 1]]
    BY <1>5 DEF Follows
  <2>2. \A i \in 1 .. N + 1 : G[i - 1] \in F
    BY <1>1, <2>1
  <2> QED
    BY <1>3, <2>1, <2>2
<1> DEFINE Same == {i \in 0 .. N : \A x \in D : rank[x] < i => G[i][x] = G[i + 1][x]}
<1>7. 0 \in Same
  BY <1>1
<1>8. ASSUME NEW i \in 1 .. N, i - 1 \in Same PROVE i \in Same
  <2>1. ASSUME NEW x \in D, rank[x] < i PROVE G[i][x] = G[i + 1][x]
    <3>1. /\ G[i] = Once(G[i - 1]) /\ G[i + 1] = Once(G[i])
      BY <1>1, <1>6
    <3>2. CASE stop[x]
      BY <3>1, <3>2
    <3>3. CASE ~stop[x]
      <4>1. next[x] \in D /\ rank[next[x]] < i - 1
        BY <1>1, <2>1, <3>3
      <4>2. G[i - 1][next[x]] = G[i][next[x]]
        BY <1>1, <1>8, <4>1
      <4>3. G[i][x] = comb[x][G[i - 1][next[x]]]
        BY <3>1, <3>3, Zenon
      <4>4. G[i + 1][x] = comb[x][G[i][next[x]]]
        BY <3>1, <3>3, Zenon
      <4> QED
        BY <4>2, <4>3, <4>4, Zenon
    <3> QED
      BY <3>2, <3>3
  <2> QED
    BY <1>1, <2>1
<1>9. N \in Same
  <2> HIDE DEF Same
  <2> QED
    BY <1>1, <1>7, <1>8, Climb
<1>10. ASSUME NEW x \in D
       PROVE  G[N + 1][x] = IF stop[x] THEN base[x] ELSE comb[x][G[N + 1][next[x]]]
  <2>1. G[N + 1] = Once(G[N])
    BY <1>1, <1>6
  <2>2. CASE stop[x]
    BY <2>1, <2>2
  <2>3. CASE ~stop[x]
    <3>1. next[x] \in D /\ rank[next[x]] < N
      BY <1>1, <2>3
    <3>2. G[N][next[x]] = G[N + 1][next[x]]
      BY <1>9, <3>1
    <3> QED
      BY <2>1, <2>3, <3>2
  <2> QED
    BY <2>2, <2>3
<1> QED
  <2>1. G[N + 1] \in F
    BY <1>1, <1>6
  <2> QED
    BY <1>10, <2>1 DEF Descends

(* A recursive function exists if its value at a point follows from its      *)
(* values at points of lower rank: F makes the next approximation in G, and  *)
(* the approximations agree on more and more ranks.                          *)
Local(D, rank, G, F) ==
    \A x \in D : \A g, h \in G :
      (\A y \in D : rank[y] < rank[x] => g[y] = h[y]) => F[g][x] = F[h][x]

Ranked(D, N, rank, S, G, F) ==
    /\ N \in Nat /\ rank \in [D -> 0 .. N]
    /\ G \in SUBSET [D -> S] /\ G # {} /\ F \in [G -> G] /\ Local(D, rank, G, F)

LEMMA ByRank ==
    ASSUME NEW D, NEW N, NEW rank, NEW S, NEW G, NEW F, Ranked(D, N, rank, S, G, F)
    PROVE  \E f \in G : f = F[f]
<1>0. /\ N \in Nat /\ rank \in [D -> 0 .. N]
      /\ G \in SUBSET [D -> S] /\ G # {} /\ F \in [G -> G] /\ Local(D, rank, G, F)
  BY DEF Ranked
<1> DEFINE n == N + 2
           next == [i \in 1 .. n |-> F]
<1>1. n \in Nat
  BY <1>0
<1>2. PICK g0 \in G : TRUE
  BY <1>0
<1>3. Closed(G, g0, n, next)
  BY <1>0, <1>1, <1>2 DEF Closed
<1>4. PICK h : Follows(h, G, g0, n, next)
  <2> HIDE DEF n, next
  <2> QED
    BY <1>3, StepByStep
<1>5. /\ h \in [0 .. n -> G]
      /\ \A i \in 1 .. n : h[i] = F[h[i - 1]]
  BY <1>4 DEF Follows
<1> HIDE DEF next
<1> DEFINE T == {i \in 0 .. N + 1 : \A x \in D : rank[x] < i => h[i][x] = h[i + 1][x]}
<1>6. 0 \in T
  BY <1>0
<1>7. ASSUME NEW i \in 1 .. N + 1, i - 1 \in T PROVE i \in T
  <2>1. /\ i - 1 \in 0 .. n /\ i \in 1 .. n /\ i + 1 \in 1 .. n /\ i \in 0 .. n
        /\ (i - 1) + 1 = i /\ (i + 1) - 1 = i
    BY <1>0
  <2>2. h[i - 1] \in G /\ h[i] \in G /\ h[i] = F[h[i - 1]] /\ h[i + 1] = F[h[i]]
    BY <1>5, <2>1
  <2>3. ASSUME NEW x \in D, rank[x] < i PROVE h[i][x] = h[i + 1][x]
    <3>1. ASSUME NEW y \in D, rank[y] < rank[x] PROVE h[i - 1][y] = h[i][y]
      <4>1. rank[y] < i - 1
        BY <1>0, <2>3, <3>1
      <4> QED
        BY <1>7, <2>1, <4>1
    <3>2. F[h[i - 1]][x] = F[h[i]][x]
      BY <1>0, <2>2, <3>1, Zenon DEF Local
    <3> QED
      BY <2>2, <3>2
  <2> QED
    BY <2>3
<1>8. N + 1 \in T
  <2>1. \A i \in 0 .. N + 1 : i \in T
    <3> HIDE DEF T
    <3> QED
      BY <1>0, <1>6, <1>7, Climb, SMTT(30)
  <2> QED
    BY <1>0, <2>1
<1> DEFINE f == h[N + 1]
<1>9. f \in G /\ F[f] = h[(N + 1) + 1] /\ F[f] \in G
  <2>1. N + 1 \in 0 .. n /\ (N + 1) + 1 \in 1 .. n /\ ((N + 1) + 1) - 1 = N + 1
    BY <1>0
  <2> QED
    BY <1>0, <1>5, <2>1
<1>10. \A x \in D : f[x] = F[f][x]
  <2>1. \A x \in D : rank[x] < N + 1
    BY <1>0
  <2> QED
    BY <1>8, <1>9, <2>1
<1>11. f \in [D -> S] /\ F[f] \in [D -> S]
  BY <1>0, <1>9
<1> HIDE DEF f
<1>12. f = F[f]
  BY <1>10, <1>11
<1> QED
  BY <1>9, <1>12

-----------------------------------------------------------------------------
(* Division. *)

LEMMA DivUnique ==
    ASSUME NEW m \in Nat, NEW b \in Nat, NEW r \in Nat, r < m,
           NEW a, a = m * b + r
    PROVE  a \in Nat /\ a \div m = b /\ a % m = r
<1>1. a \in Nat
  OBVIOUS
<1>2. a \div m = b /\ a % m = r
  BY <1>1
<1> QED
  BY <1>1, <1>2

LEMMA DivSplit ==
    ASSUME NEW a \in Nat, NEW m \in Nat, m > 0
    PROVE  /\ a \div m \in Nat /\ a % m \in 0 .. m - 1
           /\ a = m * (a \div m) + (a % m)
OBVIOUS

(* Division keeps the order. *)
LEMMA DivOrder ==
    ASSUME NEW a \in Nat, NEW b \in Nat, NEW m \in Nat, m > 0
    PROVE  /\ a \div m < b => a < m * b
           /\ a < m * b => a \div m < b
<1>1. /\ a \div m \in Nat /\ a % m \in 0 .. m - 1
      /\ a = m * (a \div m) + (a % m)
  BY DivSplit
<1> DEFINE c == a \div m
<1> HIDE DEF c
<1>2. c \in Nat /\ a = m * c + (a % m) /\ a % m \in 0 .. m - 1
  BY <1>1 DEF c
<1>3. ASSUME c < b PROVE a < m * b
  <2>1. m * (c + 1) <= m * b
    BY <1>2, <1>3
  <2> QED
    BY <1>2, <2>1
<1>4. ASSUME c >= b PROVE a >= m * b
  <2>1. m * c >= m * b
    BY <1>2, <1>4
  <2> QED
    BY <1>2, <2>1
<1> QED
  BY <1>2, <1>3, <1>4 DEF c
(* Two's complement: one more than a number that fits is the next number,    *)
(* and the smallest after the largest.                                       *)
LEMMA WrapNext ==
    ASSUME NEW max \in Nat, NEW n \in -(max + 1) .. max
    PROVE  ((n + 1 + max + 1) % (2 * (max + 1))) - (max + 1)
             = IF n = max THEN -(max + 1) ELSE n + 1
<1> DEFINE w == 2 * (max + 1)
           r == IF n = max THEN 0 ELSE n + max + 2
           b == IF n = max THEN 1 ELSE 0
           a == n + 1 + max + 1
<1>1. w \in Nat /\ r \in Nat /\ b \in Nat /\ r < w
  OBVIOUS
<1>2. a = w * b + r
  <2>1. CASE n = max
    BY <2>1
  <2>2. CASE n # max
    BY <2>2
  <2> QED
    BY <2>1, <2>2
<1>3. a % w = r
  <2> HIDE DEF a, w, r, b
  <2> QED
    BY <1>1, <1>2, DivUnique
<1>4. r - (max + 1) = IF n = max THEN -(max + 1) ELSE n + 1
  OBVIOUS
<1> QED
  BY <1>3, <1>4

=============================================================================
