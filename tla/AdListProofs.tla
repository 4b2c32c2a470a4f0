---------------------------- MODULE AdListProofs ----------------------------
(***************************************************************************)
(* Proofs about the lists of AdList, for any set of nodes, lists and       *)
(* values: behind the links of every list there is a sequence of nodes.    *)
(***************************************************************************)
EXTENDS AdList, NatProofs, FiniteSetTheorems, SequenceTheorems

-----------------------------------------------------------------------------
(* The invariant. *)

Links == [Nodes -> Nodes \cup {NULL}]

IsHeap(h) ==
    h \in [live : SUBSET Lists,
           head : [Lists -> Nodes \cup {NULL}], tail : [Lists -> Nodes \cup {NULL}],
           len : [Lists -> Nat], next : Links, prev : Links,
           value : [Nodes -> Values \cup {NULL}]]

(* w is the sequence of the nodes of l: they differ, and the links lead from *)
(* each to its neighbours and end in NULL.                                   *)
Chain(h, l, w) ==
    /\ w \in [1 .. h.len[l] -> Nodes]
    /\ \A i, j \in 1 .. h.len[l] : w[i] = w[j] => i = j
    /\ h.head[l] = IF h.len[l] = 0 THEN NULL ELSE w[1]
    /\ h.tail[l] = IF h.len[l] = 0 THEN NULL ELSE w[h.len[l]]
    /\ \A i \in 1 .. h.len[l] :
         /\ h.next[w[i]] = IF i = h.len[l] THEN NULL ELSE w[i + 1]
         /\ h.prev[w[i]] = IF i = 1 THEN NULL ELSE w[i - 1]

(* W[l] is the sequence of the list l; no node is in two, and the nodes      *)
(* allocated are those of the lists.                                         *)
Linked(h, W) ==
    /\ IsHeap(h)
    /\ \A l \in h.live : Chain(h, l, W[l])
    /\ \A l, o \in h.live : l # o =>
         \A i \in 1 .. h.len[l], j \in 1 .. h.len[o] : W[l][i] # W[o][j]
    /\ \A n \in Nodes : h.value[n] # NULL <=>
         \E l \in h.live : \E i \in 1 .. h.len[l] : W[l][i] = n

Walks(h) == [l \in h.live |-> Forward(h, l)]

-----------------------------------------------------------------------------
(* Following links. *)

(* A sequence of k nodes that differ is no longer than there are nodes, and  *)
(* its nodes are k.                                                          *)
LEMMA NodesDiffer ==
    ASSUME NEW k \in Nat, NEW w \in [1 .. k -> Nodes],
           \A i, j \in 1 .. k : w[i] = w[j] => i = j
    PROVE  /\ k <= Cardinality(Nodes) /\ Cardinality(Nodes) \in Nat
           /\ Cardinality({w[i] : i \in 1 .. k}) = k
<1> DEFINE S == {w[i] : i \in 1 .. k}
<1>1. IsFiniteSet(1 .. k) /\ Cardinality(1 .. k) = k
  BY FS_Interval
<1>2. IsFiniteSet(Nodes) /\ Cardinality(Nodes) \in Nat
  BY ListAssumption, FS_CardinalityType
<1>3. w \in Injection(1 .. k, Nodes)
  BY DEF Injection, IsInjective
<1>4. k <= Cardinality(Nodes)
  BY <1>1, <1>2, <1>3, FS_Injection
<1>5. w \in Bijection(1 .. k, S)
  BY DEF Bijection, Injection, Surjection, IsInjective
<1>6. Cardinality(S) = k
  BY <1>1, <1>5, FS_Bijection DEF ExistsBijection
<1> QED
  BY <1>2, <1>4, <1>6

(* The links lead from n through the nodes of w, which differ, and end.      *)
Leads(link, n, k, w) ==
    /\ link \in Links /\ k \in Nat /\ w \in [1 .. k -> Nodes]
    /\ \A i, j \in 1 .. k : w[i] = w[j] => i = j
    /\ n = IF k = 0 THEN NULL ELSE w[1]
    /\ \A i \in 1 .. k : link[w[i]] = IF i = k THEN NULL ELSE w[i + 1]

(* Follow meets the nodes that the links lead through. *)
LEMMA FollowsChain ==
    ASSUME NEW link, NEW n, NEW k, NEW w, Leads(link, n, k, w)
    PROVE  Follow(link, n) = w
<1> USE DEF Leads
<1> DEFINE N == Cardinality(Nodes)
           S == Nodes \cup {NULL}
           after == [m \in S |-> IF m = NULL THEN NULL ELSE link[m]]
           at == CHOOSE g : g = [i \in 0 .. N |-> IF i = 0 THEN n ELSE after[g[i - 1]]]
           met == {i \in 0 .. N : at[i] # NULL}
           next == [i \in 1 .. N |-> after]
<1>1. k <= N /\ N \in Nat /\ NULL \notin Nodes
  BY NodesDiffer, ListAssumption
<1>2. n \in S /\ \A x \in S : after[x] \in S
  BY DEF Links
<1>3. at = [i \in 0 .. N |-> IF i = 0 THEN n ELSE after[at[i - 1]]]
  <2>1. Closed(S, n, N, next)
    <3> HIDE DEF S, after, N
    <3> QED
      BY <1>1, <1>2 DEF Closed
  <2> HIDE DEF next, N, S
  <2>2. PICK f : Follows(f, S, n, N, next)
    BY <2>1, StepByStep
  <2>3. /\ f \in [0 .. N -> S] /\ f[0] = n
        /\ \A i \in 1 .. N : f[i] = next[i][f[i - 1]]
    BY <2>2 DEF Follows
  <2>4. ASSUME NEW i \in 1 .. N PROVE f[i] = after[f[i - 1]]
    BY <2>3 DEF next
  <2> HIDE DEF after
  <2>5. f = [i \in 0 .. N |-> IF i = 0 THEN n ELSE after[f[i - 1]]]
    <3>1. \A i \in 0 .. N : i = 0 \/ i \in 1 .. N
      BY <1>1
    <3> QED
      BY <2>3, <2>4, <3>1
  <2>6. \E g : g = [i \in 0 .. N |-> IF i = 0 THEN n ELSE after[g[i - 1]]]
    BY <2>5
  <2> QED
    BY <2>6
<1>4. at[0] = n /\ \A i \in 1 .. N : at[i] = after[at[i - 1]]
  <2> HIDE DEF N, after, at
  <2> QED
    BY <1>1, <1>3
<1>5. \A i \in 0 .. N : at[i] = IF i < k THEN w[i + 1] ELSE NULL
  <2> DEFINE Bad == {i \in 0 .. N : at[i] # IF i < k THEN w[i + 1] ELSE NULL}
  <2> SUFFICES ASSUME Bad # {} PROVE FALSE
    OBVIOUS
  <2>1. PICK i \in Bad : \A j \in Bad : i <= j
    <3>1. Bad \in SUBSET Nat
      BY <1>1
    <3> HIDE DEF Bad
    <3> QED
      BY <3>1, Least
  <2>2. i \in 0 .. N /\ i # 0
    <3>1. i \in 0 .. N /\ at[i] # IF i < k THEN w[i + 1] ELSE NULL
      BY <2>1
    <3>2. at[0] = IF 0 < k THEN w[0 + 1] ELSE NULL
      <4> HIDE DEF at, N, Bad
      <4> QED
        BY <1>4
    <3> HIDE DEF at, N, Bad
    <3> QED
      BY <3>1, <3>2
  <2>3. i \in 1 .. N /\ i - 1 \in 0 .. N /\ i - 1 \notin Bad
    <3>1. i \in 1 .. N /\ i - 1 \in 0 .. N /\ ~(i <= i - 1)
      <4> HIDE DEF Bad, N
      <4> QED
        BY <1>1, <2>2
    <3> HIDE DEF Bad, N
    <3> QED
      BY <2>1, <3>1
  <2>4. at[i - 1] = IF i - 1 < k THEN w[i] ELSE NULL
    BY <2>3
  <2>5. at[i] = after[at[i - 1]]
    BY <1>4, <2>3
  <2> HIDE DEF at, N
  <2>6. CASE i - 1 < k
    <3>1. w[i] \in Nodes /\ i \in 1 .. k
      BY <2>3, <2>6
    <3>2. at[i] = link[w[i]]
      BY <1>1, <2>4, <2>5, <2>6, <3>1
    <3> QED
      BY <2>1, <2>3, <3>1, <3>2
  <2>7. CASE ~(i - 1 < k)
    BY <2>1, <2>3, <2>4, <2>5, <2>7
  <2> QED
    BY <2>6, <2>7
<1>6. met = 0 .. k - 1 /\ Cardinality(met) = k
  <2>1. met = 0 .. k - 1
    <3> HIDE DEF at, N
    <3>1. \A i \in 0 .. N : i < k => w[i + 1] # NULL
      BY <1>1
    <3> QED
      BY <1>1, <1>5, <3>1
  <2>2. Cardinality(0 .. k - 1) = k
    BY FS_Interval
  <2> HIDE DEF met
  <2> QED
    BY <2>1, <2>2
<1>7. Follow(link, n) = [i \in 1 .. Cardinality(met) |-> at[i - 1]]
  BY DEF Follow
<1>8. \A i \in 1 .. k : at[i - 1] = w[i]
  <2> HIDE DEF at, N
  <2> QED
    BY <1>1, <1>5
<1> HIDE DEF at, met
<1>9. Follow(link, n) = [i \in 1 .. k |-> at[i - 1]]
  BY <1>6, <1>7
<1>10. w = [i \in 1 .. k |-> w[i]]
  OBVIOUS
<1>11. [i \in 1 .. k |-> at[i - 1]] = [i \in 1 .. k |-> w[i]]
  BY <1>8
<1> QED
  BY <1>9, <1>10, <1>11


(* The list read forward is its sequence, and read backward its reverse.     *)
LEMMA ReadsChain ==
    ASSUME NEW h, IsHeap(h), NEW l \in Lists, NEW w, Chain(h, l, w)
    PROVE  /\ Forward(h, l) = w
           /\ Follow(h.prev, h.tail[l]) =
                [i \in 1 .. h.len[l] |-> w[h.len[l] + 1 - i]]
<1> DEFINE k == h.len[l]
           r == [i \in 1 .. k |-> w[k + 1 - i]]
<1>1. /\ k \in Nat /\ h.next \in Links /\ h.prev \in Links
      /\ w \in [1 .. k -> Nodes] /\ \A i, j \in 1 .. k : w[i] = w[j] => i = j
  BY DEF IsHeap, Chain
<1>2. Forward(h, l) = w
  <2>1. Leads(h.next, h.head[l], k, w)
    BY <1>1 DEF Leads, Chain
  <2> QED
    BY <2>1, FollowsChain DEF Forward
<1>3. r \in [1 .. k -> Nodes] /\ \A i \in 1 .. k : r[i] = w[k + 1 - i]
  <2> HIDE DEF k
  <2> QED
    BY <1>1
<1>4. \A i, j \in 1 .. k : r[i] = r[j] => i = j
  <2> HIDE DEF k, r
  <2>1. \A i \in 1 .. k : k + 1 - i \in 1 .. k
    BY <1>1
  <2> QED
    BY <1>1, <1>3, <2>1
<1>5. h.tail[l] = IF k = 0 THEN NULL ELSE r[1]
  <2>1. h.tail[l] = IF k = 0 THEN NULL ELSE w[k]
    BY DEF Chain
  <2> HIDE DEF k, r
  <2> QED
    BY <1>1, <1>3, <2>1
<1>6. ASSUME NEW i \in 1 .. k
      PROVE  h.prev[r[i]] = IF i = k THEN NULL ELSE r[i + 1]
  <2>1. \A j \in 1 .. k : h.prev[w[j]] = IF j = 1 THEN NULL ELSE w[j - 1]
    BY DEF Chain
  <2> HIDE DEF k, r
  <2>2. k + 1 - i \in 1 .. k /\ (k + 1 - i) - 1 = k + 1 - (i + 1)
        /\ (k + 1 - i = 1 <=> i = k) /\ (i # k => i + 1 \in 1 .. k)
    BY <1>1
  <2> QED
    BY <1>3, <2>1, <2>2
<1>7. Follow(h.prev, h.tail[l]) = r
  <2> HIDE DEF r, k
  <2>1. Leads(h.prev, h.tail[l], k, r)
    BY <1>1, <1>3, <1>4, <1>5, <1>6 DEF Leads
  <2> QED
    BY <2>1, FollowsChain
<1> QED
  BY <1>2, <1>7

-----------------------------------------------------------------------------
(* Changing links. *)

(* The list k has the same nodes, with the same links. *)
Kept(h, W, h2, W2, k) ==
    /\ k \in h.live /\ W2[k] = W[k]
    /\ h2.head[k] = h.head[k] /\ h2.tail[k] = h.tail[k] /\ h2.len[k] = h.len[k]
    /\ \A i \in 1 .. h.len[k] : /\ h2.next[W[k][i]] = h.next[W[k][i]]
                                /\ h2.prev[W[k][i]] = h.prev[W[k][i]]

(* No node of the list k is in another one. *)
Apart(h, W, k) ==
    \A o \in h.live : k # o =>
       \A i \in 1 .. h.len[k], j \in 1 .. h.len[o] : W[k][i] # W[o][j]

(* The nodes allocated are those of the lists. *)
Owned(h, W) ==
    \A n \in Nodes : h.value[n] # NULL <=>
         \E l \in h.live : \E i \in 1 .. h.len[l] : W[l][i] = n

LEMMA LinkedList ==
    ASSUME NEW h, NEW W, Linked(h, W), NEW l \in h.live
    PROVE  /\ l \in Lists /\ h.len[l] \in Nat /\ W[l] \in [1 .. h.len[l] -> Nodes]
           /\ \A i, j \in 1 .. h.len[l] : W[l][i] = W[l][j] => i = j
<1>1. Chain(h, l, W[l]) /\ IsHeap(h)
  BY DEF Linked
<1> QED
  BY <1>1 DEF Chain, IsHeap

LEMMA LinkedNode ==
    ASSUME NEW h, NEW W, Linked(h, W), NEW l \in h.live, NEW i \in 1 .. h.len[l]
    PROVE  W[l][i] \in Nodes /\ h.value[W[l][i]] # NULL
<1>1. W[l][i] \in Nodes
  BY LinkedList
<1> QED
  BY <1>1 DEF Linked

(* Only the lists of T have to be looked at. *)
LEMMA Relink ==
    ASSUME NEW h, NEW W, Linked(h, W), NEW h2, IsHeap(h2), NEW W2, NEW T,
           \A k \in h2.live \ T : Kept(h, W, h2, W2, k),
           \A k \in h2.live \cap T : Chain(h2, k, W2[k]) /\ Apart(h2, W2, k),
           Owned(h2, W2)
    PROVE  Linked(h2, W2)
<1>1. ASSUME NEW k \in h2.live \ T PROVE Chain(h2, k, W2[k])
  BY <1>1, SMTT(30) DEF Linked, Kept, Chain
<1>2. ASSUME NEW k \in h2.live, NEW o \in h2.live, k # o,
             NEW i \in 1 .. h2.len[k], NEW j \in 1 .. h2.len[o]
      PROVE  W2[k][i] # W2[o][j]
  <2>1. CASE k \in T \/ o \in T
    BY <1>2, <2>1 DEF Apart
  <2>2. CASE k \notin T /\ o \notin T
    <3>1. Kept(h, W, h2, W2, k) /\ Kept(h, W, h2, W2, o)
      BY <2>2
    <3> QED
      BY <1>2, <3>1 DEF Kept, Linked
  <2> QED
    BY <2>1, <2>2
<1> QED
  BY <1>1, <1>2 DEF Linked, Owned


(* The sequences W, but for the one of l. *)
Put(W, h2, l, w2) == [k \in h2.live |-> IF k = l THEN w2 ELSE W[k]]

-----------------------------------------------------------------------------
(* Inserting a node. *)

(* n among the k nodes of w, at the place p. *)
Splice(w, k, p, n) ==
    [i \in 1 .. k + 1 |-> IF i < p THEN w[i] ELSE IF i = p THEN n ELSE w[i - 1]]

(* The free node n becomes the p-th of the list l, whose nodes were w. *)
Insertion(h, h2, l, w, p, n, v) ==
    /\ p \in 1 .. h.len[l] + 1 /\ n \in FreeNodes(h) /\ v \in Values
    /\ IsHeap(h2) /\ h2.live = h.live
    /\ h2.value = [h.value EXCEPT ![n] = v]
    /\ h2.len = [h.len EXCEPT ![l] = @ + 1]
    /\ h2.head = [h.head EXCEPT ![l] = IF p = 1 THEN n ELSE @]
    /\ h2.tail = [h.tail EXCEPT ![l] = IF p = h.len[l] + 1 THEN n ELSE @]
    /\ \A m \in Nodes :
         /\ h2.next[m] = IF m = n THEN IF p = h.len[l] + 1 THEN NULL ELSE w[p]
                         ELSE IF p > 1 /\ m = w[p - 1] THEN n ELSE h.next[m]
         /\ h2.prev[m] = IF m = n THEN IF p = 1 THEN NULL ELSE w[p - 1]
                         ELSE IF p <= h.len[l] /\ m = w[p] THEN n ELSE h.prev[m]

LEMMA InsertionLinked ==
    ASSUME NEW h, NEW W, Linked(h, W), NEW l \in h.live, NEW h2, NEW p, NEW n, NEW v,
           Insertion(h, h2, l, W[l], p, n, v)
    PROVE  Linked(h2, Put(W, h2, l, Splice(W[l], h.len[l], p, n)))
<1> DEFINE k == h.len[l]
           w == W[l]
           w2 == Splice(w, k, p, n)
           W2 == Put(W, h2, l, w2)
<1>1. /\ k \in Nat /\ p \in 1 .. k + 1 /\ n \in Nodes /\ l \in Lists
      /\ w \in [1 .. k -> Nodes] /\ \A i, j \in 1 .. k : w[i] = w[j] => i = j
      /\ NULL \notin Nodes
  BY ListAssumption DEF Linked, IsHeap, Chain, Insertion, FreeNodes
<1>2. \A o \in h.live : \A i \in 1 .. h.len[o] : W[o][i] # n /\ W[o][i] \in Nodes
  <2> SUFFICES ASSUME NEW o \in h.live, NEW i \in 1 .. h.len[o]
               PROVE  W[o][i] # n /\ W[o][i] \in Nodes
    OBVIOUS
  <2>1. W[o][i] \in Nodes /\ h.value[W[o][i]] # NULL
    BY LinkedNode
  <2>3. h.value[n] = NULL
    BY <1>1 DEF Insertion, FreeNodes, Allocated
  <2> QED
    BY <2>1, <2>3
<1>3. /\ w2 \in [1 .. k + 1 -> Nodes]
      /\ \A i \in 1 .. k + 1 : w2[i] = IF i < p THEN w[i] ELSE IF i = p THEN n ELSE w[i - 1]
  <2> HIDE DEF w, k
  <2>1. \A i \in 1 .. k + 1 : (i < p => i \in 1 .. k) /\ (i > p => i - 1 \in 1 .. k)
    BY <1>1
  <2> QED
    BY <1>1, <2>1 DEF Splice
<1>4. \A i \in 1 .. k : w[i] # n
  BY <1>2
<1>5. h2.len[l] = k + 1
  BY <1>1 DEF Insertion, Linked, IsHeap
<1>6. Chain(h2, l, w2)
  <2>1. \A i, j \in 1 .. k + 1 : w2[i] = w2[j] => i = j
    <3> HIDE DEF w, k, w2
    <3>1. \A i \in 1 .. k + 1 : (i < p => i \in 1 .. k) /\ (i > p => i - 1 \in 1 .. k)
      BY <1>1
    <3> QED
      BY <1>1, <1>3, <1>4, <3>1
  <2>2. /\ h2.head[l] = w2[1] /\ h2.tail[l] = w2[k + 1]
    <3>1. /\ h2.head[l] = IF p = 1 THEN n ELSE h.head[l]
          /\ h2.tail[l] = IF p = k + 1 THEN n ELSE h.tail[l]
      BY <1>1 DEF Insertion, Linked, IsHeap
    <3>2. /\ h.head[l] = IF k = 0 THEN NULL ELSE w[1]
          /\ h.tail[l] = IF k = 0 THEN NULL ELSE w[k]
      BY DEF Linked, Chain
    <3> HIDE DEF w, k, w2
    <3> QED
      BY <1>1, <1>3, <3>1, <3>2
  <2>3. \A m \in Nodes :
         /\ h2.next[m] = IF m = n THEN IF p = k + 1 THEN NULL ELSE w[p]
                         ELSE IF p > 1 /\ m = w[p - 1] THEN n ELSE h.next[m]
         /\ h2.prev[m] = IF m = n THEN IF p = 1 THEN NULL ELSE w[p - 1]
                         ELSE IF p <= k /\ m = w[p] THEN n ELSE h.prev[m]
    BY DEF Insertion
  <2>4. \A i \in 1 .. k : /\ h.next[w[i]] = IF i = k THEN NULL ELSE w[i + 1]
                          /\ h.prev[w[i]] = IF i = 1 THEN NULL ELSE w[i - 1]
    BY DEF Linked, Chain
  <2>5. ASSUME NEW i \in 1 .. k + 1
        PROVE  /\ h2.next[w2[i]] = IF i = k + 1 THEN NULL ELSE w2[i + 1]
               /\ h2.prev[w2[i]] = IF i = 1 THEN NULL ELSE w2[i - 1]
    <3> HIDE DEF w, k, w2
    <3>1. CASE i < p
      <4>1. i \in 1 .. k /\ w2[i] = w[i] /\ w2[i] # n /\ w2[i] \in Nodes
            /\ i + 1 \in 1 .. k + 1 /\ i # k + 1
        BY <1>1, <1>3, <1>4, <3>1
      <4>2. h2.next[w2[i]] = w2[i + 1]
        <5>1. CASE i + 1 = p
          BY <1>1, <1>3, <2>3, <4>1, <5>1
        <5>2. CASE i + 1 # p
          <6>1. p > 1 /\ p - 1 \in 1 .. k /\ i # p - 1 /\ i + 1 < p /\ i # k
            BY <1>1, <3>1, <5>2
          <6>2. w[i] # w[p - 1]
            BY <1>1, <4>1, <6>1
          <6> QED
            BY <1>1, <1>3, <2>3, <2>4, <4>1, <6>1, <6>2
        <5> QED
          BY <5>1, <5>2
      <4>3. h2.prev[w2[i]] = IF i = 1 THEN NULL ELSE w2[i - 1]
        <5>1. p <= k => w[i] # w[p]
          BY <1>1, <3>1, <4>1
        <5>2. i # 1 => i - 1 \in 1 .. k /\ i - 1 < p /\ w2[i - 1] = w[i - 1]
          BY <1>1, <1>3, <3>1, <4>1
        <5> QED
          BY <2>3, <2>4, <4>1, <5>1, <5>2
      <4> QED
        BY <4>1, <4>2, <4>3
    <3>2. CASE i = p
      <4>1. w2[i] = n
        BY <1>3, <3>2
      <4>2. p # k + 1 => p + 1 \in 1 .. k + 1 /\ w2[p + 1] = w[p]
        BY <1>1, <1>3
      <4>3. p # 1 => p - 1 \in 1 .. k + 1 /\ w2[p - 1] = w[p - 1]
        BY <1>1, <1>3
      <4> QED
        BY <1>1, <2>3, <3>2, <4>1, <4>2, <4>3
    <3>3. CASE i > p
      <4>1. i - 1 \in 1 .. k /\ w2[i] = w[i - 1] /\ w2[i] # n /\ w2[i] \in Nodes /\ i # 1
        BY <1>1, <1>3, <1>4, <3>3
      <4>2. h2.next[w2[i]] = IF i = k + 1 THEN NULL ELSE w2[i + 1]
        <5>1. p > 1 => p - 1 \in 1 .. k /\ w[i - 1] # w[p - 1]
          BY <1>1, <3>3, <4>1
        <5>2. i # k + 1 => i + 1 \in 1 .. k + 1 /\ w2[i + 1] = w[i]
          BY <1>1, <1>3, <3>3
        <5>3. h2.next[w2[i]] = h.next[w[i - 1]]
          BY <2>3, <4>1, <5>1
        <5>4. h.next[w[i - 1]] = IF i - 1 = k THEN NULL ELSE w[(i - 1) + 1]
          BY <2>4, <4>1
        <5> QED
          BY <1>1, <5>2, <5>3, <5>4
      <4>3. h2.prev[w2[i]] = w2[i - 1]
        <5>1. CASE i = p + 1
          <6>1. p <= k /\ w2[i] = w[p] /\ w2[i - 1] = n
            BY <1>1, <1>3, <5>1
          <6> QED
            BY <2>3, <4>1, <6>1
        <5>2. CASE i # p + 1
          <6>1. i - 1 > p /\ i - 1 \in 1 .. k + 1 /\ i - 1 # 1 /\ i - 1 # p /\ p \in 1 .. k
            BY <1>1, <3>3, <4>1, <5>2
          <6>2. w2[i - 1] = w[(i - 1) - 1] /\ w[i - 1] # w[p]
            BY <1>1, <1>3, <4>1, <6>1
          <6> QED
            BY <2>3, <2>4, <4>1, <6>1, <6>2
        <5> QED
          BY <5>1, <5>2
      <4> QED
        BY <4>1, <4>2, <4>3
    <3> QED
      BY <1>1, <3>1, <3>2, <3>3
  <2> HIDE DEF w2, w, k
  <2> QED
    BY <1>1, <1>3, <1>5, <2>1, <2>2, <2>5 DEF Chain
<1>7. W2[l] = w2 /\ \A o \in h2.live : o # l => W2[o] = W[o] /\ h2.len[o] = h.len[o]
  <2>1. \A o \in h2.live : o # l => h2.len[o] = h.len[o]
    BY DEF Insertion, Linked, IsHeap
  <2>2. l \in h2.live
    BY DEF Insertion
  <2> QED
    BY <2>1, <2>2 DEF Put
<1>8. ASSUME NEW o \in h2.live \ {l} PROVE Kept(h, W, h2, W2, o)
  <2>1. o \in h.live /\ o \in Lists
    BY DEF Insertion, IsHeap
  <2>2. /\ h2.head[o] = h.head[o] /\ h2.tail[o] = h.tail[o]
    BY <2>1 DEF Insertion, Linked, IsHeap
  <2>3. ASSUME NEW i \in 1 .. h.len[o]
        PROVE  h2.next[W[o][i]] = h.next[W[o][i]] /\ h2.prev[W[o][i]] = h.prev[W[o][i]]
    <3>1. W[o][i] # n /\ W[o][i] \in Nodes
      BY <1>2, <2>1
    <3>2. \A j \in 1 .. h.len[l] : W[o][i] # W[l][j]
      BY <2>1 DEF Linked
    <3>3. (p > 1 => p - 1 \in 1 .. h.len[l]) /\ (p <= h.len[l] => p \in 1 .. h.len[l])
      BY <1>1
    <3> QED
      BY <3>1, <3>2, <3>3 DEF Insertion
  <2> QED
    BY <1>7, <2>1, <2>2, <2>3 DEF Kept
<1>9. Apart(h2, W2, l)
  <2> SUFFICES ASSUME NEW o \in h2.live, l # o, NEW i \in 1 .. h2.len[l], NEW j \in 1 .. h2.len[o]
               PROVE  W2[l][i] # W2[o][j]
    BY DEF Apart
  <2>1. o \in h.live /\ W2[o][j] = W[o][j] /\ j \in 1 .. h.len[o]
    BY <1>7 DEF Insertion
  <2>2. W2[l][i] = n \/ \E i2 \in 1 .. k : W2[l][i] = w[i2]
    <3>1. W2[l][i] = w2[i] /\ i \in 1 .. k + 1
      BY <1>5, <1>7
    <3> HIDE DEF w2, k, w, W2
    <3>2. (i < p => i \in 1 .. k) /\ (i > p => i - 1 \in 1 .. k)
      BY <1>1, <3>1
    <3> QED
      BY <1>1, <1>3, <3>1, <3>2
  <2> QED
    BY <1>2, <2>1, <2>2 DEF Linked
<1>10. Owned(h2, W2)
  <2> SUFFICES ASSUME NEW m \in Nodes
               PROVE  h2.value[m] # NULL <=>
                        \E o \in h2.live : \E i \in 1 .. h2.len[o] : W2[o][i] = m
    BY DEF Owned
  <2>1. h2.value[m] # NULL <=> m = n \/ h.value[m] # NULL
    BY <1>1, ListAssumption DEF Insertion, Linked, IsHeap
  <2>2. \A i \in 1 .. k : \E j \in 1 .. k + 1 : w2[j] = w[i]
    <3> HIDE DEF w2, k, w
    <3> SUFFICES ASSUME NEW i \in 1 .. k PROVE \E j \in 1 .. k + 1 : w2[j] = w[i]
      OBVIOUS
    <3>1. CASE i < p
      BY <1>1, <1>3, <3>1
    <3>2. CASE ~(i < p)
      <4>1. i + 1 \in 1 .. k + 1 /\ ~(i + 1 < p) /\ i + 1 # p /\ (i + 1) - 1 = i
        BY <1>1, <3>2
      <4> QED
        BY <1>3, <4>1
    <3> QED
      BY <3>1, <3>2
  <2>3. \A j \in 1 .. k + 1 : w2[j] = n \/ \E i \in 1 .. k : w2[j] = w[i]
    <3> HIDE DEF w2, k, w
    <3>1. \A i \in 1 .. k + 1 : (i < p => i \in 1 .. k) /\ (i > p => i - 1 \in 1 .. k)
      BY <1>1
    <3> QED
      BY <1>1, <1>3, <3>1
  <2>4. \E j \in 1 .. k + 1 : w2[j] = n
    <3> HIDE DEF w2, k, w
    <3> QED
      BY <1>1, <1>3
  <2>5. h.value[m] # NULL <=> \E o \in h.live : \E i \in 1 .. h.len[o] : W[o][i] = m
    BY DEF Linked
  <2>6. h2.live = h.live /\ l \in h.live
    BY DEF Insertion
  <2> HIDE DEF w2, W2
  <2>7. ASSUME NEW o \in h2.live, NEW i \in 1 .. h2.len[o], W2[o][i] = m
        PROVE  m = n \/ h.value[m] # NULL
    <3>1. CASE o = l
      BY <1>5, <1>7, <2>3, <2>5, <2>6, <2>7, <3>1
    <3>2. CASE o # l
      BY <1>7, <2>5, <2>6, <2>7, <3>2
    <3> QED
      BY <3>1, <3>2
  <2>8. ASSUME m = n PROVE \E o \in h2.live : \E i \in 1 .. h2.len[o] : W2[o][i] = m
    BY <1>5, <1>7, <2>4, <2>6, <2>8
  <2>9. ASSUME NEW o \in h.live, NEW i \in 1 .. h.len[o], W[o][i] = m
        PROVE  \E o2 \in h2.live : \E j \in 1 .. h2.len[o2] : W2[o2][j] = m
    <3>1. CASE o = l
      BY <1>5, <1>7, <2>2, <2>6, <2>9, <3>1
    <3>2. CASE o # l
      BY <1>7, <2>6, <2>9, <3>2
    <3> QED
      BY <3>1, <3>2
  <2> QED
    BY <2>1, <2>5, <2>7, <2>8, <2>9
<1> HIDE DEF W2, w2
<1>11. IsHeap(h2)
  BY DEF Insertion
<1>12. /\ \A o \in h2.live \ {l} : Kept(h, W, h2, W2, o)
       /\ \A o \in h2.live \cap {l} : Chain(h2, o, W2[o]) /\ Apart(h2, W2, o)
  BY <1>6, <1>7, <1>8, <1>9
<1> QED
  BY <1>10, <1>11, <1>12, Relink DEF W2, w2


-----------------------------------------------------------------------------
(* Deleting a node. *)

(* The k nodes of w without the p-th. *)
Cut(w, k, p) == [i \in 1 .. k - 1 |-> IF i < p THEN w[i] ELSE w[i + 1]]

(* The p-th node of the list l, whose nodes were w, is unlinked and freed.   *)
Deletion(h, h2, l, w, p) ==
    /\ p \in 1 .. h.len[l]
    /\ IsHeap(h2) /\ h2.live = h.live
    /\ h2.value = [h.value EXCEPT ![w[p]] = NULL]
    /\ h2.len = [h.len EXCEPT ![l] = @ - 1]
    /\ h2.head = [h.head EXCEPT ![l] =
                    IF p = 1 THEN IF p = h.len[l] THEN NULL ELSE w[p + 1] ELSE @]
    /\ h2.tail = [h.tail EXCEPT ![l] =
                    IF p = h.len[l] THEN IF p = 1 THEN NULL ELSE w[p - 1] ELSE @]
    /\ \A m \in Nodes :
         m # w[p] =>
         /\ h2.next[m] = IF p > 1 /\ m = w[p - 1]
                         THEN IF p = h.len[l] THEN NULL ELSE w[p + 1] ELSE h.next[m]
         /\ h2.prev[m] = IF p < h.len[l] /\ m = w[p + 1]
                         THEN IF p = 1 THEN NULL ELSE w[p - 1] ELSE h.prev[m]

LEMMA DeletionLinked ==
    ASSUME NEW h, NEW W, Linked(h, W), NEW l \in h.live, NEW h2, NEW p,
           Deletion(h, h2, l, W[l], p)
    PROVE  Linked(h2, Put(W, h2, l, Cut(W[l], h.len[l], p)))
<1> DEFINE k == h.len[l]
           w == W[l]
           w2 == Cut(w, k, p)
           W2 == Put(W, h2, l, w2)
<1>1. /\ k \in Nat /\ p \in 1 .. k /\ l \in Lists
      /\ w \in [1 .. k -> Nodes] /\ \A i, j \in 1 .. k : w[i] = w[j] => i = j
      /\ NULL \notin Nodes
  <2>1. p \in 1 .. h.len[l]
    BY DEF Deletion
  <2>2. /\ l \in Lists /\ h.len[l] \in Nat /\ W[l] \in [1 .. h.len[l] -> Nodes]
        /\ \A i, j \in 1 .. h.len[l] : W[l][i] = W[l][j] => i = j
    BY LinkedList
  <2> QED
    BY <2>1, <2>2, ListAssumption
<1>2. \A i \in 1 .. k - 1 : (i < p => i \in 1 .. k /\ i # p)
                            /\ (~(i < p) => i + 1 \in 1 .. k /\ i + 1 # p)
  <2> HIDE DEF k, w
  <2> QED
    BY <1>1
<1>3. /\ w2 \in [1 .. k - 1 -> Nodes]
      /\ \A i \in 1 .. k - 1 : w2[i] = IF i < p THEN w[i] ELSE w[i + 1]
  <2> HIDE DEF w, k
  <2> QED
    BY <1>1, <1>2 DEF Cut
<1>4. \A i \in 1 .. k - 1 : w2[i] # w[p] /\ w2[i] \in Nodes
  <2> HIDE DEF w, k, w2
  <2> QED
    BY <1>1, <1>2, <1>3
<1>5. h2.len[l] = k - 1
  BY <1>1 DEF Deletion, Linked, IsHeap
<1>6. Chain(h2, l, w2)
  <2>1. \A i, j \in 1 .. k - 1 : w2[i] = w2[j] => i = j
    <3> HIDE DEF w, k, w2
    <3> QED
      BY <1>1, <1>2, <1>3
  <2>2. /\ h2.head[l] = IF k - 1 = 0 THEN NULL ELSE w2[1]
        /\ h2.tail[l] = IF k - 1 = 0 THEN NULL ELSE w2[k - 1]
    <3>1. /\ h2.head[l] = IF p = 1 THEN IF p = k THEN NULL ELSE w[p + 1] ELSE h.head[l]
          /\ h2.tail[l] = IF p = k THEN IF p = 1 THEN NULL ELSE w[p - 1] ELSE h.tail[l]
      BY <1>1 DEF Deletion, Linked, IsHeap
    <3>2. /\ h.head[l] = IF k = 0 THEN NULL ELSE w[1]
          /\ h.tail[l] = IF k = 0 THEN NULL ELSE w[k]
      BY DEF Linked, Chain
    <3> HIDE DEF w, k, w2
    <3>3. k # 1 => 1 \in 1 .. k - 1 /\ k - 1 \in 1 .. k - 1
      BY <1>1
    <3> QED
      BY <1>1, <1>3, <3>1, <3>2, <3>3
  <2>3. \A m \in Nodes :
         m # w[p] =>
         /\ h2.next[m] = IF p > 1 /\ m = w[p - 1]
                         THEN IF p = k THEN NULL ELSE w[p + 1] ELSE h.next[m]
         /\ h2.prev[m] = IF p < k /\ m = w[p + 1]
                         THEN IF p = 1 THEN NULL ELSE w[p - 1] ELSE h.prev[m]
    BY DEF Deletion
  <2>4. \A i \in 1 .. k : /\ h.next[w[i]] = IF i = k THEN NULL ELSE w[i + 1]
                          /\ h.prev[w[i]] = IF i = 1 THEN NULL ELSE w[i - 1]
    BY DEF Linked, Chain
  <2>5. ASSUME NEW i \in 1 .. k - 1
        PROVE  /\ h2.next[w2[i]] = IF i = k - 1 THEN NULL ELSE w2[i + 1]
               /\ h2.prev[w2[i]] = IF i = 1 THEN NULL ELSE w2[i - 1]
    <3> HIDE DEF w, k, w2
    <3>1. CASE i < p
      <4>1. i \in 1 .. k /\ w2[i] = w[i] /\ w2[i] # w[p] /\ w2[i] \in Nodes /\ i # k
        BY <1>1, <1>3, <1>4, <3>1
      <4>2. h2.next[w2[i]] = IF i = k - 1 THEN NULL ELSE w2[i + 1]
        <5>1. CASE i + 1 = p
          <6>1. p > 1 /\ w2[i] = w[p - 1] /\ (i = k - 1 <=> p = k)
            BY <1>1, <4>1, <5>1
          <6>2. i # k - 1 => i + 1 \in 1 .. k - 1 /\ ~(i + 1 < p) /\ w2[i + 1] = w[p + 1]
            BY <1>1, <1>3, <5>1
          <6> QED
            BY <2>3, <4>1, <6>1, <6>2
        <5>2. CASE i + 1 # p
          <6>1. p > 1 /\ p - 1 \in 1 .. k /\ i # p - 1 /\ i + 1 < p /\ i # k - 1
                /\ i + 1 \in 1 .. k - 1
            BY <1>1, <3>1, <5>2
          <6>2. w[i] # w[p - 1] /\ w2[i + 1] = w[i + 1]
            BY <1>1, <1>3, <4>1, <6>1
          <6> QED
            BY <2>3, <2>4, <4>1, <6>1, <6>2
        <5> QED
          BY <5>1, <5>2
      <4>3. h2.prev[w2[i]] = IF i = 1 THEN NULL ELSE w2[i - 1]
        <5>1. p < k => w[i] # w[p + 1]
          BY <1>1, <3>1, <4>1
        <5>2. i # 1 => i - 1 \in 1 .. k - 1 /\ i - 1 < p /\ w2[i - 1] = w[i - 1]
          BY <1>1, <1>3, <3>1, <4>1
        <5> QED
          BY <2>3, <2>4, <4>1, <5>1, <5>2
      <4> QED
        BY <4>2, <4>3
    <3>2. CASE ~(i < p)
      <4>1. i + 1 \in 1 .. k /\ w2[i] = w[i + 1] /\ w2[i] # w[p] /\ w2[i] \in Nodes
            /\ i + 1 # 1 /\ (i + 1) - 1 = i
        BY <1>1, <1>3, <1>4, <3>2
      <4>2. h2.next[w2[i]] = IF i = k - 1 THEN NULL ELSE w2[i + 1]
        <5>1. p > 1 => p - 1 \in 1 .. k /\ w[i + 1] # w[p - 1]
          BY <1>1, <3>2, <4>1
        <5>2. i # k - 1 => i + 1 \in 1 .. k - 1 /\ w2[i + 1] = w[(i + 1) + 1]
          BY <1>1, <1>3, <3>2
        <5>3. h2.next[w2[i]] = h.next[w[i + 1]]
          BY <2>3, <4>1, <5>1
        <5>4. h.next[w[i + 1]] = IF i + 1 = k THEN NULL ELSE w[(i + 1) + 1]
          BY <2>4, <4>1
        <5> QED
          BY <1>1, <5>2, <5>3, <5>4
      <4>3. h2.prev[w2[i]] = IF i = 1 THEN NULL ELSE w2[i - 1]
        <5>1. CASE i = p
          <6>1. p < k /\ w2[i] = w[p + 1]
            BY <1>1, <4>1, <5>1
          <6>2. i # 1 => i - 1 \in 1 .. k - 1 /\ w2[i - 1] = w[p - 1]
            BY <1>1, <1>3, <5>1
          <6> QED
            BY <2>3, <4>1, <5>1, <6>1, <6>2
        <5>2. CASE i # p
          <6>1. i # 1 /\ i - 1 \in 1 .. k - 1 /\ ~(i - 1 < p) /\ (i - 1) + 1 = i
            BY <1>1, <3>2, <5>2
          <6>2. w2[i - 1] = w[i]
            BY <1>3, <6>1
          <6>3. p < k => w[i + 1] # w[p + 1]
            BY <1>1, <4>1, <5>2
          <6>4. h2.prev[w2[i]] = h.prev[w[i + 1]]
            BY <2>3, <4>1, <6>3
          <6>5. h.prev[w[i + 1]] = w[i]
            BY <2>4, <4>1
          <6> QED
            BY <6>1, <6>2, <6>4, <6>5
        <5> QED
          BY <5>1, <5>2
      <4> QED
        BY <4>2, <4>3
    <3> QED
      BY <3>1, <3>2
  <2> HIDE DEF w2, w, k
  <2> QED
    BY <1>1, <1>3, <1>5, <2>1, <2>2, <2>5 DEF Chain
<1>7. W2[l] = w2 /\ \A o \in h2.live : o # l => W2[o] = W[o] /\ h2.len[o] = h.len[o]
  <2>1. \A o \in h2.live : o # l => h2.len[o] = h.len[o]
    BY DEF Deletion, Linked, IsHeap
  <2>2. l \in h2.live
    BY DEF Deletion
  <2> QED
    BY <2>1, <2>2 DEF Put
<1>8. ASSUME NEW o \in h2.live \ {l} PROVE Kept(h, W, h2, W2, o)
  <2>1. o \in h.live /\ o \in Lists
    BY DEF Deletion, IsHeap
  <2>2. /\ h2.head[o] = h.head[o] /\ h2.tail[o] = h.tail[o]
    BY <2>1 DEF Deletion, Linked, IsHeap
  <2>3. ASSUME NEW i \in 1 .. h.len[o]
        PROVE  h2.next[W[o][i]] = h.next[W[o][i]] /\ h2.prev[W[o][i]] = h.prev[W[o][i]]
    <3>1. W[o][i] \in Nodes
      BY <2>1, LinkedNode
    <3>2. \A j \in 1 .. h.len[l] : W[o][i] # W[l][j]
      BY <2>1 DEF Linked
    <3>3. /\ p > 1 => p - 1 \in 1 .. h.len[l]
          /\ p < h.len[l] => p + 1 \in 1 .. h.len[l]
          /\ p \in 1 .. h.len[l]
      BY <1>1
    <3> QED
      BY <3>1, <3>2, <3>3 DEF Deletion
  <2> QED
    BY <1>7, <2>1, <2>2, <2>3 DEF Kept
<1>9. \A i \in 1 .. k - 1 : \E j \in 1 .. k : w2[i] = w[j] /\ j # p
  <2> HIDE DEF w2, k, w
  <2> QED
    BY <1>2, <1>3
<1>10. \A j \in 1 .. k : j # p => \E i \in 1 .. k - 1 : w2[i] = w[j]
  <2> HIDE DEF w2, k, w
  <2> SUFFICES ASSUME NEW j \in 1 .. k, j # p PROVE \E i \in 1 .. k - 1 : w2[i] = w[j]
    OBVIOUS
  <2>1. CASE j < p
    <3>1. j \in 1 .. k - 1
      BY <1>1, <2>1
    <3> QED
      BY <1>3, <2>1, <3>1
  <2>2. CASE ~(j < p)
    <3>1. j - 1 \in 1 .. k - 1 /\ ~(j - 1 < p) /\ (j - 1) + 1 = j
      BY <1>1, <2>2
    <3>2. w2[j - 1] = w[j]
      BY <1>3, <3>1
    <3> QED
      BY <3>1, <3>2
  <2> QED
    BY <2>1, <2>2
<1>11. Apart(h2, W2, l)
  <2> SUFFICES ASSUME NEW o \in h2.live, l # o, NEW i \in 1 .. h2.len[l], NEW j \in 1 .. h2.len[o]
               PROVE  W2[l][i] # W2[o][j]
    BY DEF Apart
  <2>1. o \in h.live /\ W2[o][j] = W[o][j] /\ j \in 1 .. h.len[o]
    BY <1>7 DEF Deletion
  <2>2. \E i2 \in 1 .. k : W2[l][i] = w[i2]
    <3> HIDE DEF w2, k, w, W2
    <3> QED
      BY <1>5, <1>7, <1>9
  <2> QED
    BY <2>1, <2>2 DEF Linked
<1>12. Owned(h2, W2)
  <2> SUFFICES ASSUME NEW m \in Nodes
               PROVE  h2.value[m] # NULL <=>
                        \E o \in h2.live : \E i \in 1 .. h2.len[o] : W2[o][i] = m
    BY DEF Owned
  <2>1. h2.value[m] # NULL <=> m # w[p] /\ h.value[m] # NULL
    BY <1>1 DEF Deletion, Linked, IsHeap
  <2>2. h.value[m] # NULL <=> \E o \in h.live : \E i \in 1 .. h.len[o] : W[o][i] = m
    BY DEF Linked
  <2>3. h2.live = h.live /\ l \in h.live
    BY DEF Deletion
  <2>4. \A o \in h.live : o # l => \A i \in 1 .. h.len[o] : W[o][i] # w[p]
    BY <1>1 DEF Linked
  <2> HIDE DEF w2, W2
  <2>5. ASSUME NEW o \in h2.live, NEW i \in 1 .. h2.len[o], W2[o][i] = m
        PROVE  m # w[p] /\ h.value[m] # NULL
    <3>1. CASE o = l
      <4>1. PICK j \in 1 .. k : m = w[j] /\ j # p
        BY <1>5, <1>7, <1>9, <2>5, <3>1
      <4> QED
        BY <1>1, <2>2, <4>1
    <3>2. CASE o # l
      BY <1>7, <2>2, <2>3, <2>4, <2>5, <3>2
    <3> QED
      BY <3>1, <3>2
  <2>6. ASSUME m # w[p], NEW o \in h.live, NEW i \in 1 .. h.len[o], W[o][i] = m
        PROVE  \E o2 \in h2.live : \E j \in 1 .. h2.len[o2] : W2[o2][j] = m
    <3>1. CASE o = l
      <4>1. i \in 1 .. k /\ i # p /\ w[i] = m
        BY <2>6, <3>1
      <4>2. PICK j \in 1 .. k - 1 : w2[j] = m
        BY <1>10, <4>1
      <4> QED
        BY <1>5, <1>7, <2>3, <4>2
    <3>2. CASE o # l
      BY <1>7, <2>3, <2>6, <3>2
    <3> QED
      BY <3>1, <3>2
  <2> QED
    BY <2>1, <2>2, <2>5, <2>6
<1> HIDE DEF W2, w2
<1>13. IsHeap(h2)
  BY DEF Deletion
<1>14. /\ \A o \in h2.live \ {l} : Kept(h, W, h2, W2, o)
       /\ \A o \in h2.live \cap {l} : Chain(h2, o, W2[o]) /\ Apart(h2, W2, o)
  BY <1>6, <1>7, <1>8, <1>11
<1> QED
  BY <1>12, <1>13, <1>14, Relink DEF W2, w2


-----------------------------------------------------------------------------
(* Making a list, and emptying or releasing it. *)

NoNodes == [i \in 1 .. 0 |-> NULL]

(* The list l is live and empty.  Nothing is said of other lists.            *)
MadeEmpty(h, l) ==
    /\ l \in h.live /\ h.head[l] = NULL /\ h.tail[l] = NULL /\ h.len[l] = 0

LEMMA EmptyChain ==
    ASSUME NEW h, NEW l, MadeEmpty(h, l), NEW W2, W2[l] = NoNodes
    PROVE  Chain(h, l, W2[l]) /\ Apart(h, W2, l)
<1>1. 1 .. h.len[l] = {} /\ h.len[l] = 0
  BY DEF MadeEmpty
<1>2. NoNodes \in [1 .. 0 -> Nodes]
  BY DEF NoNodes
<1> QED
  BY <1>1, <1>2 DEF MadeEmpty, Chain, Apart

(* The lists but l are what they were. *)
OthersStay(h, h2, l) ==
    \A o \in h.live \ {l} :
       h2.head[o] = h.head[o] /\ h2.tail[o] = h.tail[o] /\ h2.len[o] = h.len[o]

Creation(h, h2, l) ==
    /\ l \notin h.live /\ h2.live = h.live \cup {l} /\ IsHeap(h2)
    /\ MadeEmpty(h2, l) /\ OthersStay(h, h2, l)
    /\ h2.next = h.next /\ h2.prev = h.prev /\ h2.value = h.value

LEMMA CreationLinked ==
    ASSUME NEW h, NEW W, Linked(h, W), NEW l, NEW h2, Creation(h, h2, l)
    PROVE  Linked(h2, Put(W, h2, l, NoNodes))
<1> DEFINE W2 == Put(W, h2, l, NoNodes)
<1>1. /\ h2.live = h.live \cup {l} /\ l \notin h.live
      /\ \A o \in h2.live : W2[o] = IF o = l THEN NoNodes ELSE W[o]
      /\ h2.len[l] = 0 /\ 1 .. h2.len[l] = {}
      /\ \A o \in h.live : h2.len[o] = h.len[o]
  BY DEF Put, Creation, MadeEmpty, OthersStay
<1> HIDE DEF W2
<1>2. ASSUME NEW o \in h2.live \ {l} PROVE Kept(h, W, h2, W2, o)
  BY <1>1 DEF Kept, Creation, OthersStay
<1>3. ASSUME NEW o \in h2.live \cap {l} PROVE Chain(h2, o, W2[o]) /\ Apart(h2, W2, o)
  <2>1. MadeEmpty(h2, o) /\ W2[o] = NoNodes
    BY <1>1 DEF Creation
  <2> QED
    BY <2>1, EmptyChain
<1>4. Owned(h2, W2)
  <2>1. \A m \in Nodes : h.value[m] # NULL <=>
          \E o \in h.live : \E i \in 1 .. h.len[o] : W[o][i] = m
    BY DEF Linked
  <2>2. h2.value = h.value
    BY DEF Creation
  <2>3. ASSUME NEW m \in Nodes
        PROVE  (\E o \in h2.live : \E i \in 1 .. h2.len[o] : W2[o][i] = m)
                 <=> (\E o \in h.live : \E i \in 1 .. h.len[o] : W[o][i] = m)
    <3>1. \A o \in h.live : o # l /\ o \in h2.live /\ W2[o] = W[o] /\ h2.len[o] = h.len[o]
      BY <1>1
    <3>2. \A o \in h2.live : o \in h.live \/ 1 .. h2.len[o] = {}
      BY <1>1
    <3> QED
      BY <3>1, <3>2
  <2> QED
    BY <2>1, <2>2, <2>3 DEF Owned
<1>5. IsHeap(h2)
  BY DEF Creation
<1> QED
  BY <1>2, <1>3, <1>4, <1>5, Relink DEF W2

(* The nodes of l are freed.  The list may be released, too.                 *)
Emptying(h, h2, l, w) ==
    /\ IsHeap(h2)
    /\ h2.live = h.live \ {l} \/ (h2.live = h.live /\ MadeEmpty(h2, l))
    /\ OthersStay(h, h2, l)
    /\ \A m \in Nodes :
         IF \E i \in 1 .. h.len[l] : w[i] = m THEN h2.value[m] = NULL
         ELSE /\ h2.value[m] = h.value[m]
              /\ h2.next[m] = h.next[m] /\ h2.prev[m] = h.prev[m]

LEMMA EmptyingLinked ==
    ASSUME NEW h, NEW W, Linked(h, W), NEW l \in h.live, NEW h2, Emptying(h, h2, l, W[l])
    PROVE  Linked(h2, Put(W, h2, l, NoNodes))
<1> DEFINE W2 == Put(W, h2, l, NoNodes)
<1>1. /\ \A o \in h2.live : o \in h.live /\ W2[o] = IF o = l THEN NoNodes ELSE W[o]
      /\ \A o \in h.live \ {l} : o \in h2.live /\ h2.len[o] = h.len[o]
      /\ l \in h2.live => MadeEmpty(h2, l) /\ 1 .. h2.len[l] = {}
  <2>1. l \in h2.live => MadeEmpty(h2, l)
    BY DEF Emptying
  <2>2. l \in h2.live => 1 .. h2.len[l] = {}
    BY <2>1 DEF MadeEmpty
  <2> QED
    BY <2>1, <2>2 DEF Put, Emptying, OthersStay
<1> HIDE DEF W2
<1>2. ASSUME NEW o \in h2.live \ {l} PROVE Kept(h, W, h2, W2, o)
  <2>1. o \in h.live /\ W2[o] = W[o]
    BY <1>1
  <2>2. ASSUME NEW i \in 1 .. h.len[o]
        PROVE  h2.next[W[o][i]] = h.next[W[o][i]] /\ h2.prev[W[o][i]] = h.prev[W[o][i]]
    <3>1. W[o][i] \in Nodes
      BY <2>1, LinkedNode
    <3>2. \A j \in 1 .. h.len[l] : W[l][j] # W[o][i]
      BY <2>1 DEF Linked
    <3> QED
      BY <3>1, <3>2 DEF Emptying
  <2> QED
    BY <2>1, <2>2 DEF Kept, Emptying, OthersStay
<1>3. ASSUME NEW o \in h2.live \cap {l} PROVE Chain(h2, o, W2[o]) /\ Apart(h2, W2, o)
  <2>1. MadeEmpty(h2, o) /\ W2[o] = NoNodes
    BY <1>1
  <2> QED
    BY <2>1, EmptyChain
<1>4. Owned(h2, W2)
  <2> SUFFICES ASSUME NEW m \in Nodes
               PROVE  h2.value[m] # NULL <=>
                        \E o \in h2.live : \E i \in 1 .. h2.len[o] : W2[o][i] = m
    BY DEF Owned
  <2>1. h.value[m] # NULL <=> \E o \in h.live : \E i \in 1 .. h.len[o] : W[o][i] = m
    BY DEF Linked
  <2>2. h2.value[m] = IF \E i \in 1 .. h.len[l] : W[l][i] = m THEN NULL ELSE h.value[m]
    BY DEF Emptying
  <2>3. \A o \in h.live \ {l} : \A i \in 1 .. h.len[o], j \in 1 .. h.len[l] : W[o][i] # W[l][j]
    BY DEF Linked
  <2>4. ASSUME NEW o \in h2.live, NEW i \in 1 .. h2.len[o], W2[o][i] = m
        PROVE  h2.value[m] # NULL
    <3>1. o # l /\ o \in h.live /\ i \in 1 .. h.len[o] /\ W[o][i] = m
      BY <1>1, <2>4
    <3>2. ~ \E j \in 1 .. h.len[l] : W[l][j] = m
      BY <2>3, <3>1
    <3> QED
      BY <2>1, <2>2, <3>1, <3>2
  <2>5. ASSUME h2.value[m] # NULL
        PROVE  \E o \in h2.live : \E i \in 1 .. h2.len[o] : W2[o][i] = m
    <3>1. PICK o \in h.live : \E i \in 1 .. h.len[o] : W[o][i] = m
      BY <2>1, <2>2, <2>5
    <3>2. o # l
      BY <2>2, <2>5, <3>1
    <3> QED
      BY <1>1, <3>1, <3>2
  <2> QED
    BY <2>4, <2>5
<1>5. IsHeap(h2)
  BY DEF Emptying
<1> QED
  BY <1>2, <1>3, <1>4, <1>5, Relink DEF W2

-----------------------------------------------------------------------------
(* Joining two lists. *)

(* The k nodes of w followed by the q of u. *)
Glue(w, k, u, q) == [i \in 1 .. k + q |-> IF i <= k THEN w[i] ELSE u[i - k]]

Joining(h, h2, l, o, w, u) ==
    /\ l # o /\ IsHeap(h2) /\ h2.live = h.live /\ h2.value = h.value
    /\ h2.len[l] = h.len[l] + h.len[o]
    /\ h2.head[l] = IF h.len[l] = 0 THEN h.head[o] ELSE h.head[l]
    /\ h2.tail[l] = IF h.len[o] = 0 THEN h.tail[l] ELSE h.tail[o]
    /\ MadeEmpty(h2, o)
    /\ \A x \in h.live \ {l, o} :
         h2.head[x] = h.head[x] /\ h2.tail[x] = h.tail[x] /\ h2.len[x] = h.len[x]
    /\ \A m \in Nodes :
         /\ h2.next[m] = IF h.len[l] > 0 /\ m = w[h.len[l]] THEN h.head[o] ELSE h.next[m]
         /\ h2.prev[m] = IF h.len[o] > 0 /\ m = u[1] THEN h.tail[l] ELSE h.prev[m]

PutBoth(W, h2, l, w2, o) ==
    [x \in h2.live |-> IF x = l THEN w2 ELSE IF x = o THEN NoNodes ELSE W[x]]

LEMMA JoiningLinked ==
    ASSUME NEW h, NEW W, Linked(h, W), NEW l \in h.live, NEW o \in h.live, NEW h2,
           Joining(h, h2, l, o, W[l], W[o])
    PROVE  Linked(h2, PutBoth(W, h2, l, Glue(W[l], h.len[l], W[o], h.len[o]), o))
<1> DEFINE k == h.len[l]
           q == h.len[o]
           w == W[l]
           u == W[o]
           w2 == Glue(w, k, u, q)
           W2 == PutBoth(W, h2, l, w2, o)
<1>1. /\ k \in Nat /\ w \in [1 .. k -> Nodes] /\ \A i, j \in 1 .. k : w[i] = w[j] => i = j
      /\ q \in Nat /\ u \in [1 .. q -> Nodes] /\ \A i, j \in 1 .. q : u[i] = u[j] => i = j
      /\ l # o /\ \A i \in 1 .. k, j \in 1 .. q : w[i] # u[j]
  <2>1. /\ k \in Nat /\ w \in [1 .. k -> Nodes] /\ \A i, j \in 1 .. k : w[i] = w[j] => i = j
        /\ q \in Nat /\ u \in [1 .. q -> Nodes] /\ \A i, j \in 1 .. q : u[i] = u[j] => i = j
    BY LinkedList
  <2>2. l # o
    BY DEF Joining
  <2> QED
    BY <2>1, <2>2 DEF Linked
<1>2. /\ w2 \in [1 .. k + q -> Nodes] /\ k + q \in Nat
      /\ \A i \in 1 .. k + q : w2[i] = IF i <= k THEN w[i] ELSE u[i - k]
  <2> HIDE DEF w, k, u, q
  <2>1. \A i \in 1 .. k + q : (i <= k => i \in 1 .. k) /\ (~(i <= k) => i - k \in 1 .. q)
    BY <1>1
  <2> QED
    BY <1>1, <2>1 DEF Glue
<1>3. Chain(h2, l, w2)
  <2>1. \A i, j \in 1 .. k + q : w2[i] = w2[j] => i = j
    <3> HIDE DEF w, k, u, q, w2
    <3> SUFFICES ASSUME NEW i \in 1 .. k + q, NEW j \in 1 .. k + q, w2[i] = w2[j]
                 PROVE  i = j
      OBVIOUS
    <3>1. /\ (i <= k => i \in 1 .. k) /\ (~(i <= k) => i - k \in 1 .. q)
          /\ (j <= k => j \in 1 .. k) /\ (~(j <= k) => j - k \in 1 .. q)
      BY <1>1
    <3>2. /\ w2[i] = IF i <= k THEN w[i] ELSE u[i - k]
          /\ w2[j] = IF j <= k THEN w[j] ELSE u[j - k]
      BY <1>2
    <3>3. CASE i <= k /\ j <= k
      BY <1>1, <3>1, <3>2, <3>3
    <3>4. CASE ~(i <= k) /\ ~(j <= k)
      <4>1. i - k = j - k
        BY <1>1, <3>1, <3>2, <3>4
      <4> QED
        BY <1>1, <4>1
    <3> QED
      BY <1>1, <3>1, <3>2, <3>3, <3>4
  <2>2. /\ h2.head[l] = IF k + q = 0 THEN NULL ELSE w2[1]
        /\ h2.tail[l] = IF k + q = 0 THEN NULL ELSE w2[k + q]
    <3>1. /\ h2.head[l] = IF k = 0 THEN h.head[o] ELSE h.head[l]
          /\ h2.tail[l] = IF q = 0 THEN h.tail[l] ELSE h.tail[o]
      BY DEF Joining
    <3>2. /\ h.head[l] = IF k = 0 THEN NULL ELSE w[1]
          /\ h.tail[l] = IF k = 0 THEN NULL ELSE w[k]
          /\ h.head[o] = IF q = 0 THEN NULL ELSE u[1]
          /\ h.tail[o] = IF q = 0 THEN NULL ELSE u[q]
      BY DEF Linked, Chain
    <3> HIDE DEF w, k, u, q, w2
    <3>3. k + q # 0 => 1 \in 1 .. k + q /\ k + q \in 1 .. k + q
      BY <1>1
    <3>4. CASE k = 0
      <4>1. \A i \in 1 .. k + q : w2[i] = u[i]
        BY <1>1, <1>2, <3>4
      <4> QED
        BY <1>1, <3>1, <3>2, <3>3, <3>4, <4>1
    <3>5. CASE k # 0
      <4>1. w2[1] = w[1] /\ w2[k + q] = IF q = 0 THEN w[k] ELSE u[q]
        BY <1>1, <1>2, <3>3, <3>5
      <4> QED
        BY <1>1, <3>1, <3>2, <3>5, <4>1
    <3> QED
      BY <3>4, <3>5
  <2>3. \A m \in Nodes :
         /\ h2.next[m] = IF k > 0 /\ m = w[k] THEN h.head[o] ELSE h.next[m]
         /\ h2.prev[m] = IF q > 0 /\ m = u[1] THEN h.tail[l] ELSE h.prev[m]
    BY DEF Joining
  <2>4. /\ \A i \in 1 .. k : /\ h.next[w[i]] = IF i = k THEN NULL ELSE w[i + 1]
                             /\ h.prev[w[i]] = IF i = 1 THEN NULL ELSE w[i - 1]
        /\ \A i \in 1 .. q : /\ h.next[u[i]] = IF i = q THEN NULL ELSE u[i + 1]
                             /\ h.prev[u[i]] = IF i = 1 THEN NULL ELSE u[i - 1]
        /\ h.tail[l] = IF k = 0 THEN NULL ELSE w[k]
        /\ h.head[o] = IF q = 0 THEN NULL ELSE u[1]
    BY DEF Linked, Chain
  <2>5. ASSUME NEW i \in 1 .. k + q
        PROVE  /\ h2.next[w2[i]] = IF i = k + q THEN NULL ELSE w2[i + 1]
               /\ h2.prev[w2[i]] = IF i = 1 THEN NULL ELSE w2[i - 1]
    <3> HIDE DEF w, k, u, q, w2
    <3>1. CASE i <= k
      <4>1. i \in 1 .. k /\ w2[i] = w[i] /\ w[i] \in Nodes
        BY <1>1, <1>2, <3>1
      <4>2. q > 0 => w[i] # u[1]
        BY <1>1, <4>1
      <4>3. h2.prev[w2[i]] = IF i = 1 THEN NULL ELSE w2[i - 1]
        <5>1. i # 1 => i - 1 \in 1 .. k + q /\ i - 1 <= k /\ w2[i - 1] = w[i - 1]
          BY <1>1, <1>2, <4>1
        <5> QED
          BY <2>3, <2>4, <4>1, <4>2, <5>1
      <4>4. h2.next[w2[i]] = IF i = k + q THEN NULL ELSE w2[i + 1]
        <5>1. CASE i = k
          <6>1. k > 0 /\ h2.next[w2[i]] = h.head[o]
            BY <1>1, <2>3, <4>1, <5>1
          <6>2. q # 0 => i + 1 \in 1 .. k + q /\ w2[i + 1] = u[1]
            BY <1>1, <1>2, <5>1
          <6> QED
            BY <1>1, <2>4, <5>1, <6>1, <6>2
        <5>2. CASE i # k
          <6>1. k > 0 /\ w[i] # w[k] /\ i + 1 \in 1 .. k + q /\ i + 1 <= k /\ i # k + q
            BY <1>1, <4>1, <5>2
          <6>2. w2[i + 1] = w[i + 1]
            BY <1>2, <6>1
          <6> QED
            BY <2>3, <2>4, <4>1, <5>2, <6>1, <6>2
        <5> QED
          BY <5>1, <5>2
      <4> QED
        BY <4>3, <4>4
    <3>2. CASE ~(i <= k)
      <4>2. i - k \in 1 .. q /\ w2[i] = u[i - k] /\ u[i - k] \in Nodes
        BY <1>1, <1>2, <3>2
      <4>3. k > 0 => u[i - k] # w[k]
        BY <1>1, <4>2
      <4>4. h2.next[w2[i]] = IF i = k + q THEN NULL ELSE w2[i + 1]
        <5>1. h2.next[w2[i]] = IF i - k = q THEN NULL ELSE u[(i - k) + 1]
          BY <2>3, <2>4, <4>2, <4>3
        <5>2. i # k + q => i + 1 \in 1 .. k + q /\ ~(i + 1 <= k) /\ (i + 1) - k = (i - k) + 1
          BY <1>1, <3>2, SMTT(30)
        <5>3. i = k + q <=> i - k = q
          BY <1>1
        <5> QED
          BY <1>2, <5>1, <5>2, <5>3
      <4>5. h2.prev[w2[i]] = IF i = 1 THEN NULL ELSE w2[i - 1]
        <5>1. CASE i - k = 1
          <6>1. q > 0 /\ h2.prev[w2[i]] = h.tail[l]
            BY <1>1, <2>3, <4>2, <5>1
          <6>2. (k = 0 <=> i = 1) /\ (k # 0 => i - 1 \in 1 .. k + q /\ i - 1 = k)
            BY <1>1, <5>1
          <6>3. k # 0 => w2[i - 1] = w[k]
            BY <1>1, <1>2, <6>2
          <6> QED
            BY <2>4, <6>1, <6>2, <6>3
        <5>2. CASE i - k # 1
          <6>1. /\ i # 1 /\ i - 1 \in 1 .. k + q /\ ~(i - 1 <= k)
                /\ (i - 1) - k = (i - k) - 1 /\ 1 \in 1 .. q
            BY <1>1, <3>2, <4>2, <5>2
          <6>2. u[i - k] # u[1]
            BY <1>1, <4>2, <5>2, <6>1
          <6>3. h2.prev[w2[i]] = u[(i - k) - 1]
            BY <2>3, <2>4, <4>2, <5>2, <6>2
          <6>4. w2[i - 1] = u[(i - 1) - k]
            BY <1>2, <6>1
          <6> QED
            BY <6>1, <6>3, <6>4
        <5> QED
          BY <5>1, <5>2
      <4> QED
        BY <4>4, <4>5
    <3> QED
      BY <3>1, <3>2
  <2>6. h2.len[l] = k + q
    BY DEF Joining
  <2> HIDE DEF w2, w, k, u, q
  <2> QED
    BY <1>2, <2>1, <2>2, <2>5, <2>6 DEF Chain
<1>4. /\ h2.live = h.live /\ h2.value = h.value /\ W2[l] = w2 /\ W2[o] = NoNodes
      /\ h2.len[l] = k + q /\ h2.len[o] = 0
      /\ \A x \in h2.live \ {l, o} : W2[x] = W[x] /\ h2.len[x] = h.len[x]
  <2>1. h2.live = h.live /\ l # o
    BY DEF Joining
  <2>2. /\ h2.value = h.value /\ h2.len[l] = k + q /\ h2.len[o] = 0
        /\ \A x \in h2.live \ {l, o} : h2.len[x] = h.len[x]
    BY DEF Joining, MadeEmpty
  <2> HIDE DEF w2
  <2> QED
    BY <2>1, <2>2 DEF PutBoth
<1>5. ASSUME NEW x \in h2.live \ {l, o} PROVE Kept(h, W, h2, W2, x)
  <2>1. x \in h.live
    BY <1>4
  <2>2. ASSUME NEW i \in 1 .. h.len[x]
        PROVE  h2.next[W[x][i]] = h.next[W[x][i]] /\ h2.prev[W[x][i]] = h.prev[W[x][i]]
    <3>1. W[x][i] \in Nodes
      BY <2>1, LinkedNode
    <3>2. /\ \A j \in 1 .. h.len[l] : W[x][i] # W[l][j]
          /\ \A j \in 1 .. h.len[o] : W[x][i] # W[o][j]
      BY <2>1 DEF Linked
    <3>3. (h.len[l] > 0 => h.len[l] \in 1 .. h.len[l]) /\ (h.len[o] > 0 => 1 \in 1 .. h.len[o])
      BY <1>1
    <3> QED
      BY <3>1, <3>2, <3>3 DEF Joining
  <2> QED
    BY <1>4, <2>1, <2>2 DEF Kept, Joining
<1>6. \A i \in 1 .. k + q : (\E j \in 1 .. k : w2[i] = w[j]) \/ \E j \in 1 .. q : w2[i] = u[j]
  <2> HIDE DEF w2, k, w, q, u
  <2>1. \A i \in 1 .. k + q : (i <= k => i \in 1 .. k) /\ (~(i <= k) => i - k \in 1 .. q)
    BY <1>1
  <2> QED
    BY <1>2, <2>1
<1>7. /\ \A j \in 1 .. k : \E i \in 1 .. k + q : w2[i] = w[j]
      /\ \A j \in 1 .. q : \E i \in 1 .. k + q : w2[i] = u[j]
  <2> HIDE DEF w2, k, w, q, u
  <2>1. \A j \in 1 .. k : j \in 1 .. k + q /\ j <= k
    BY <1>1
  <2>2. \A j \in 1 .. q : j + k \in 1 .. k + q /\ ~(j + k <= k) /\ (j + k) - k = j
    BY <1>1
  <2> QED
    BY <1>2, <2>1, <2>2
<1>8. Apart(h2, W2, l)
  <2> SUFFICES ASSUME NEW x \in h2.live, l # x, NEW i \in 1 .. h2.len[l], NEW j \in 1 .. h2.len[x]
               PROVE  W2[l][i] # W2[x][j]
    BY DEF Apart
  <2>1. x # o /\ x \in h.live /\ W2[x][j] = W[x][j] /\ j \in 1 .. h.len[x]
    BY <1>4
  <2>2. (\E i2 \in 1 .. k : W2[l][i] = w[i2]) \/ \E i2 \in 1 .. q : W2[l][i] = u[i2]
    <3> HIDE DEF w2, k, w, W2, q, u
    <3> QED
      BY <1>4, <1>6
  <2> QED
    BY <2>1, <2>2 DEF Linked
<1>9. Owned(h2, W2)
  <2> SUFFICES ASSUME NEW m \in Nodes
               PROVE  h2.value[m] # NULL <=>
                        \E x \in h2.live : \E i \in 1 .. h2.len[x] : W2[x][i] = m
    BY DEF Owned
  <2>1. h2.value[m] # NULL <=> \E x \in h.live : \E i \in 1 .. h.len[x] : W[x][i] = m
    BY <1>4 DEF Linked
  <2> HIDE DEF w2, W2
  <2>2. ASSUME NEW x \in h2.live, NEW i \in 1 .. h2.len[x], W2[x][i] = m
        PROVE  h2.value[m] # NULL
    <3>1. CASE x = l
      BY <1>4, <1>6, <2>1, <2>2, <3>1
    <3>2. CASE x = o
      BY <1>4, <2>2, <3>2
    <3>3. CASE x # l /\ x # o
      BY <1>4, <2>1, <2>2, <3>3
    <3> QED
      BY <3>1, <3>2, <3>3
  <2>3. ASSUME NEW x \in h.live, NEW i \in 1 .. h.len[x], W[x][i] = m
        PROVE  \E x2 \in h2.live : \E j \in 1 .. h2.len[x2] : W2[x2][j] = m
    <3>1. CASE x = l
      BY <1>4, <1>7, <2>3, <3>1
    <3>2. CASE x = o
      BY <1>4, <1>7, <2>3, <3>2
    <3>3. CASE x # l /\ x # o
      BY <1>4, <2>3, <3>3
    <3> QED
      BY <3>1, <3>2, <3>3
  <2> QED
    BY <2>1, <2>2, <2>3
<1>10. Chain(h2, o, W2[o]) /\ Apart(h2, W2, o)
  <2>1. MadeEmpty(h2, o)
    BY DEF Joining
  <2> HIDE DEF W2
  <2> QED
    BY <1>4, <2>1, EmptyChain
<1> HIDE DEF W2, w2
<1>11. IsHeap(h2)
  BY DEF Joining
<1>12. /\ \A x \in h2.live \ {l, o} : Kept(h, W, h2, W2, x)
       /\ \A x \in h2.live \cap {l, o} : Chain(h2, x, W2[x]) /\ Apart(h2, W2, x)
  BY <1>3, <1>4, <1>5, <1>8, <1>10
<1> QED
  BY <1>9, <1>11, <1>12, Relink DEF W2, w2


-----------------------------------------------------------------------------
(* What the operations do. *)

Ends == [Lists -> Nodes \cup {NULL}]

(* Assigning to a field of a heap. *)
LEMMA SetField ==
    ASSUME NEW h, IsHeap(h)
    PROVE  /\ \A f \in SUBSET Lists : IsHeap([h EXCEPT !.live = f])
           /\ \A f \in [Nodes -> Values \cup {NULL}] : IsHeap([h EXCEPT !.value = f])
           /\ \A f \in [Lists -> Nat] : IsHeap([h EXCEPT !.len = f])
           /\ \A f \in Ends : IsHeap([h EXCEPT !.head = f])
           /\ \A f \in Ends : IsHeap([h EXCEPT !.tail = f])
           /\ \A f \in Links : IsHeap([h EXCEPT !.prev = f])
           /\ \A f \in Links : IsHeap([h EXCEPT !.next = f])
  BY DEF IsHeap, Ends, Links

LEMMA SetEnds ==
    ASSUME NEW h, IsHeap(h), NEW head \in Ends, NEW tail \in Ends,
           NEW prev \in Links, NEW next \in Links
    PROVE  IsHeap([h EXCEPT !.head = head, !.tail = tail, !.prev = prev, !.next = next])
<1> DEFINE h1 == [h EXCEPT !.head = head]
           h2 == [h1 EXCEPT !.tail = tail]
           h3 == [h2 EXCEPT !.prev = prev]
<1>1. IsHeap(h1)
  BY SetField
<1> HIDE DEF h1
<1>2. IsHeap(h2)
  BY <1>1, SetField
<1> HIDE DEF h2
<1>3. IsHeap(h3)
  BY <1>2, SetField
<1> HIDE DEF h3
<1>4. IsHeap([h3 EXCEPT !.next = next])
  BY <1>3, SetField
<1> QED
  BY <1>4 DEF h1, h2, h3

LEMMA SetLenAndEnds ==
    ASSUME NEW h, IsHeap(h), NEW len \in [Lists -> Nat], NEW head \in Ends, NEW tail \in Ends,
           NEW prev \in Links, NEW next \in Links
    PROVE  IsHeap([h EXCEPT !.len = len, !.head = head, !.tail = tail,
                            !.prev = prev, !.next = next])
<1> DEFINE h1 == [h EXCEPT !.len = len]
<1>1. IsHeap(h1)
  BY SetField
<1> HIDE DEF h1
<1>2. IsHeap([h1 EXCEPT !.head = head, !.tail = tail, !.prev = prev, !.next = next])
  BY <1>1, SetEnds
<1> QED
  BY <1>2 DEF h1

LEMMA SetAll ==
    ASSUME NEW h, IsHeap(h), NEW value \in [Nodes -> Values \cup {NULL}],
           NEW len \in [Lists -> Nat], NEW head \in Ends, NEW tail \in Ends,
           NEW prev \in Links, NEW next \in Links
    PROVE  IsHeap([h EXCEPT !.value = value, !.len = len, !.head = head, !.tail = tail,
                            !.prev = prev, !.next = next])
<1> DEFINE h1 == [h EXCEPT !.value = value]
<1>1. IsHeap(h1)
  BY SetField
<1> HIDE DEF h1
<1>2. IsHeap([h1 EXCEPT !.len = len, !.head = head, !.tail = tail,
                        !.prev = prev, !.next = next])
  BY <1>1, SetLenAndEnds
<1> QED
  BY <1>2 DEF h1

LEMMA FreshFree ==
    ASSUME NEW h, FreeNodes(h) # {}
    PROVE  Fresh(h) \in FreeNodes(h)
<1>1. FreeNodes(h) \in SUBSET Nat
  BY ListAssumption DEF FreeNodes
<1>2. \E n \in FreeNodes(h) : \A m \in FreeNodes(h) : n <= m
  BY <1>1, Least
<1> QED
  BY <1>2 DEF Fresh

(* What a list's ends and neighbours are, in the words of the operations.    *)
LEMMA LinkedEnds ==
    ASSUME NEW h, NEW W, Linked(h, W), NEW l \in h.live
    PROVE  /\ h.head[l] = IF h.len[l] = 0 THEN NULL ELSE W[l][1]
           /\ h.tail[l] = IF h.len[l] = 0 THEN NULL ELSE W[l][h.len[l]]
           /\ \A i \in 1 .. h.len[l] :
                /\ h.next[W[l][i]] = IF i = h.len[l] THEN NULL ELSE W[l][i + 1]
                /\ h.prev[W[l][i]] = IF i = 1 THEN NULL ELSE W[l][i - 1]
           /\ h.len[l] > 0 => h.head[l] \in Nodes /\ h.tail[l] \in Nodes
<1>1. Chain(h, l, W[l])
  BY DEF Linked
<1>2. /\ h.head[l] = IF h.len[l] = 0 THEN NULL ELSE W[l][1]
      /\ h.tail[l] = IF h.len[l] = 0 THEN NULL ELSE W[l][h.len[l]]
      /\ \A i \in 1 .. h.len[l] :
           /\ h.next[W[l][i]] = IF i = h.len[l] THEN NULL ELSE W[l][i + 1]
           /\ h.prev[W[l][i]] = IF i = 1 THEN NULL ELSE W[l][i - 1]
  BY <1>1 DEF Chain
<1>3. h.len[l] \in Nat /\ W[l] \in [1 .. h.len[l] -> Nodes]
  BY LinkedList
<1>4. h.len[l] > 0 => 1 \in 1 .. h.len[l] /\ h.len[l] \in 1 .. h.len[l]
  BY <1>3
<1> QED
  BY <1>2, <1>3, <1>4

(* listAddNodeHead puts a free node in the first place. *)
LEMMA AddHeadInserts ==
    ASSUME NEW h, NEW W, Linked(h, W), NEW l \in h.live, NEW v \in Values,
           FreeNodes(h) # {}
    PROVE  Insertion(h, listAddNodeHead(h, l, v), l, W[l], 1, Fresh(h), v)
<1> DEFINE h2 == listAddNodeHead(h, l, v)
           n == Fresh(h)
           k == h.len[l]
           old == h.head[l]
<1>1. n \in FreeNodes(h) /\ n \in Nodes /\ NULL \notin Nodes
  BY FreshFree, ListAssumption DEF FreeNodes
<1>2. IsHeap(h) /\ l \in Lists /\ k \in Nat
  BY LinkedList DEF Linked
<1>3. /\ old = IF k = 0 THEN NULL ELSE W[l][1]
      /\ h.tail[l] = IF k = 0 THEN NULL ELSE W[l][k]
      /\ k > 0 => old \in Nodes
  BY LinkedEnds
<1> HIDE DEF n
<1>4. /\ h2.live = h.live
      /\ h2.value = [h.value EXCEPT ![n] = v]
      /\ h2.len = [h.len EXCEPT ![l] = @ + 1]
      /\ h2.head = [h.head EXCEPT ![l] = n]
      /\ h2.tail = [h.tail EXCEPT ![l] = IF k = 0 THEN n ELSE @]
      /\ h2.next = [h.next EXCEPT ![n] = IF k = 0 THEN NULL ELSE old]
      /\ h2.prev = IF k = 0 THEN [h.prev EXCEPT ![n] = NULL]
                   ELSE [h.prev EXCEPT ![n] = NULL, ![old] = n]
  BY <1>2 DEF listAddNodeHead, IsHeap, n
<1>5. IsHeap(h2)
  <2> DEFINE value == [h.value EXCEPT ![n] = v]
             len == [h.len EXCEPT ![l] = @ + 1]
             head == [h.head EXCEPT ![l] = n]
             tail == [h.tail EXCEPT ![l] = IF k = 0 THEN n ELSE @]
             prev == IF k = 0 THEN [h.prev EXCEPT ![n] = NULL]
                     ELSE [h.prev EXCEPT ![n] = NULL, ![old] = n]
             next == [h.next EXCEPT ![n] = IF k = 0 THEN NULL ELSE old]
  <2>1. h2 = [h EXCEPT !.value = value, !.len = len, !.head = head, !.tail = tail,
                       !.prev = prev, !.next = next]
    BY DEF listAddNodeHead, n
  <2>2. value \in [Nodes -> Values \cup {NULL}] /\ len \in [Lists -> Nat]
    BY <1>1, <1>2 DEF IsHeap
  <2>3. head \in Ends /\ tail \in Ends
    BY <1>1, <1>2 DEF IsHeap, Ends
  <2>4. prev \in Links /\ next \in Links
    <3>1. k # 0 => old \in Nodes
      BY <1>2, <1>3
    <3> HIDE DEF k, old
    <3> QED
      BY <1>1, <1>2, <3>1 DEF IsHeap, Links
  <2> HIDE DEF h2, value, len, head, tail, prev, next
  <2> QED
    BY <1>2, <2>1, <2>2, <2>3, <2>4, SetAll
<1> HIDE DEF h2
<1>6. ASSUME NEW m \in Nodes
      PROVE  /\ h2.next[m] = IF m = n THEN IF 1 = k + 1 THEN NULL ELSE W[l][1] ELSE h.next[m]
             /\ h2.prev[m] = IF m = n THEN NULL
                             ELSE IF 1 <= k /\ m = W[l][1] THEN n ELSE h.prev[m]
  <2>1. h.next \in Links /\ h.prev \in Links
    BY <1>2 DEF IsHeap
  <2>2. CASE k = 0
    BY <1>1, <1>3, <1>4, <2>1, <2>2 DEF Links
  <2>3. CASE k # 0
    <3>1. k > 0 /\ 1 <= k /\ 1 # k + 1 /\ old = W[l][1] /\ old \in Nodes
      BY <1>2, <1>3, <2>3
    <3> HIDE DEF old, k
    <3>2. old # n
      <4>1. h.value[W[l][1]] # NULL
        BY <1>2, <3>1, LinkedNode DEF k
      <4> QED
        BY <1>1, <3>1, <4>1 DEF FreeNodes, Allocated
    <3> QED
      BY <1>1, <1>4, <2>1, <2>3, <3>1, <3>2 DEF Links
  <2> QED
    BY <2>2, <2>3
<1> QED
  BY <1>1, <1>2, <1>4, <1>5, <1>6 DEF Insertion, h2, n

(* listAddNodeTail puts a free node in the last place. *)
LEMMA AddTailInserts ==
    ASSUME NEW h, NEW W, Linked(h, W), NEW l \in h.live, NEW v \in Values,
           FreeNodes(h) # {}
    PROVE  Insertion(h, listAddNodeTail(h, l, v), l, W[l], h.len[l] + 1, Fresh(h), v)
<1> DEFINE h2 == listAddNodeTail(h, l, v)
           n == Fresh(h)
           k == h.len[l]
           old == h.tail[l]
<1>1. n \in FreeNodes(h) /\ n \in Nodes /\ NULL \notin Nodes
  BY FreshFree, ListAssumption DEF FreeNodes
<1>2. IsHeap(h) /\ l \in Lists /\ k \in Nat
  BY LinkedList DEF Linked
<1>3. /\ old = IF k = 0 THEN NULL ELSE W[l][k]
      /\ k > 0 => old \in Nodes
  BY LinkedEnds
<1> HIDE DEF n
<1>4. /\ h2.live = h.live
      /\ h2.value = [h.value EXCEPT ![n] = v]
      /\ h2.len = [h.len EXCEPT ![l] = @ + 1]
      /\ h2.tail = [h.tail EXCEPT ![l] = n]
      /\ h2.head = [h.head EXCEPT ![l] = IF k = 0 THEN n ELSE @]
      /\ h2.prev = [h.prev EXCEPT ![n] = IF k = 0 THEN NULL ELSE old]
      /\ h2.next = IF k = 0 THEN [h.next EXCEPT ![n] = NULL]
                   ELSE [h.next EXCEPT ![n] = NULL, ![old] = n]
  BY <1>2 DEF listAddNodeTail, IsHeap, n
<1>5. IsHeap(h2)
  <2> DEFINE value == [h.value EXCEPT ![n] = v]
             len == [h.len EXCEPT ![l] = @ + 1]
             head == [h.head EXCEPT ![l] = IF k = 0 THEN n ELSE @]
             tail == [h.tail EXCEPT ![l] = n]
             prev == [h.prev EXCEPT ![n] = IF k = 0 THEN NULL ELSE old]
             next == IF k = 0 THEN [h.next EXCEPT ![n] = NULL]
                     ELSE [h.next EXCEPT ![n] = NULL, ![old] = n]
  <2>1. h2 = [h EXCEPT !.value = value, !.len = len, !.head = head, !.tail = tail,
                       !.prev = prev, !.next = next]
    BY DEF listAddNodeTail, n
  <2>2. value \in [Nodes -> Values \cup {NULL}] /\ len \in [Lists -> Nat]
    BY <1>1, <1>2 DEF IsHeap
  <2>3. head \in Ends /\ tail \in Ends
    BY <1>1, <1>2 DEF IsHeap, Ends
  <2>4. prev \in Links /\ next \in Links
    <3>1. k # 0 => old \in Nodes
      BY <1>2, <1>3
    <3> HIDE DEF k, old
    <3> QED
      BY <1>1, <1>2, <3>1 DEF IsHeap, Links
  <2> HIDE DEF h2, value, len, head, tail, prev, next
  <2> QED
    BY <1>2, <2>1, <2>2, <2>3, <2>4, SetAll
<1> HIDE DEF h2
<1>6. ASSUME NEW m \in Nodes
      PROVE  /\ h2.next[m] = IF m = n THEN NULL
                             ELSE IF k + 1 > 1 /\ m = W[l][(k + 1) - 1] THEN n ELSE h.next[m]
             /\ h2.prev[m] = IF m = n THEN IF k + 1 = 1 THEN NULL ELSE W[l][(k + 1) - 1]
                             ELSE h.prev[m]
  <2>1. h.next \in Links /\ h.prev \in Links
    BY <1>2 DEF IsHeap
  <2>2. CASE k = 0
    BY <1>1, <1>3, <1>4, <2>1, <2>2 DEF Links
  <2>3. CASE k # 0
    <3>1. k > 0 /\ k + 1 > 1 /\ k + 1 # 1 /\ (k + 1) - 1 = k /\ old = W[l][k] /\ old \in Nodes
      BY <1>2, <1>3, <2>3
    <3> HIDE DEF old, k
    <3>2. old # n
      <4>1. h.value[W[l][k]] # NULL
        BY <1>2, <3>1, LinkedNode DEF k
      <4> QED
        BY <1>1, <3>1, <4>1 DEF FreeNodes, Allocated
    <3> QED
      BY <1>1, <1>4, <2>1, <2>3, <3>1, <3>2 DEF Links
  <2> QED
    BY <2>2, <2>3
<1>7. ~(k + 1 <= k) /\ (k + 1 = 1 <=> k = 0) /\ k + 1 \in 1 .. k + 1
  BY <1>2
<1> QED
  BY <1>1, <1>2, <1>4, <1>5, <1>6, <1>7 DEF Insertion, h2, n


(* listInsertNode puts a free node in the place of the i-th or in the next.  *)
LEMMA InsertNodeInserts ==
    ASSUME NEW h, NEW W, Linked(h, W), NEW l \in h.live, NEW v \in Values,
           FreeNodes(h) # {}, NEW i \in 1 .. h.len[l], NEW after \in BOOLEAN
    PROVE  Insertion(h, listInsertNode(h, l, W[l][i], v, after), l, W[l],
                     IF after THEN i + 1 ELSE i, Fresh(h), v)
<1> DEFINE old == W[l][i]
           h2 == listInsertNode(h, l, old, v, after)
           n == Fresh(h)
           k == h.len[l]
           w == W[l]
           x == IF after THEN i + 1 ELSE i
           p == IF after THEN old ELSE h.prev[old]
           q == IF after THEN h.next[old] ELSE old
           value == [h.value EXCEPT ![n] = v]
           len == [h.len EXCEPT ![l] = @ + 1]
           head == [h.head EXCEPT ![l] = IF ~after /\ @ = old THEN n ELSE @]
           tail == [h.tail EXCEPT ![l] = IF after /\ @ = old THEN n ELSE @]
           prev == [h.prev EXCEPT ![n] = p, ![q] = n]
           next == [h.next EXCEPT ![n] = q, ![p] = n]
<1>1. n \in FreeNodes(h) /\ n \in Nodes /\ NULL \notin Nodes
  BY FreshFree, ListAssumption DEF FreeNodes
<1>2. IsHeap(h)
  BY DEF Linked
<1>3. /\ l \in Lists /\ k \in Nat /\ w \in [1 .. k -> Nodes] /\ i \in 1 .. k
      /\ \A a, b \in 1 .. k : w[a] = w[b] => a = b
  BY LinkedList
<1>4. /\ h.head[l] = IF k = 0 THEN NULL ELSE w[1]
      /\ h.tail[l] = IF k = 0 THEN NULL ELSE w[k]
      /\ h.next[w[i]] = IF i = k THEN NULL ELSE w[i + 1]
      /\ h.prev[w[i]] = IF i = 1 THEN NULL ELSE w[i - 1]
  BY LinkedEnds
<1>5. \A a \in 1 .. k : w[a] # n
  <2> SUFFICES ASSUME NEW a \in 1 .. k PROVE w[a] # n
    OBVIOUS
  <2>1. h.value[w[a]] # NULL
    BY LinkedNode
  <2> HIDE DEF w, n
  <2> QED
    BY <1>1, <2>1 DEF FreeNodes, Allocated
<1>6. h2 = [h EXCEPT !.value = value, !.len = len, !.head = head, !.tail = tail,
                     !.prev = prev, !.next = next]
  BY DEF listInsertNode
<1>7. /\ h2.live = h.live /\ h2.value = value /\ h2.len = len
      /\ h2.head = head /\ h2.tail = tail /\ h2.prev = prev /\ h2.next = next
  <2> HIDE DEF h2, value, len, head, tail, prev, next
  <2> QED
    BY <1>2, <1>6 DEF IsHeap
<1> HIDE DEF h2, n, k, w
<1>8. /\ x \in 1 .. k + 1
      /\ p = IF x = 1 THEN NULL ELSE w[x - 1]
      /\ q = IF x = k + 1 THEN NULL ELSE w[x]
  <2>1. CASE after
    <3>1. x = i + 1 /\ x # 1 /\ x - 1 = i /\ p = w[i] /\ q = h.next[w[i]] /\ (x = k + 1 <=> i = k)
          /\ x \in 1 .. k + 1
      BY <1>3, <2>1 DEF w
    <3> HIDE DEF x, p, q
    <3> QED
      BY <1>4, <3>1
  <2>2. CASE ~after
    <3>1. x = i /\ p = h.prev[w[i]] /\ q = w[i] /\ x # k + 1 /\ x \in 1 .. k + 1
      BY <1>3, <2>2 DEF w
    <3> HIDE DEF x, p, q
    <3> QED
      BY <1>4, <3>1
  <2> QED
    BY <2>1, <2>2
<1>9. /\ h.head[l] = w[1] /\ h.tail[l] = w[k] /\ 1 \in 1 .. k /\ k \in 1 .. k
      /\ x = 1 <=> ~after /\ h.head[l] = old
      /\ x = k + 1 <=> after /\ h.tail[l] = old
  <2>1. h.head[l] = w[1] /\ h.tail[l] = w[k] /\ 1 \in 1 .. k /\ k \in 1 .. k /\ old = w[i]
    BY <1>3, <1>4 DEF w
  <2> HIDE DEF old
  <2>2. (w[1] = old <=> i = 1) /\ (w[k] = old <=> i = k)
    BY <1>3, <2>1
  <2>3. CASE after
    <3>1. x = i + 1
      BY <2>3
    <3> HIDE DEF x
    <3> QED
      BY <1>3, <2>1, <2>2, <2>3, <3>1
  <2>4. CASE ~after
    <3>1. x = i
      BY <2>4
    <3> HIDE DEF x
    <3> QED
      BY <1>3, <2>1, <2>2, <2>4, <3>1
  <2> QED
    BY <2>3, <2>4
<1>10. /\ p \in Nodes \cup {NULL} /\ q \in Nodes \cup {NULL}
       /\ x # 1 => x - 1 \in 1 .. k
       /\ x # k + 1 => x \in 1 .. k
  <2>1. (x # 1 => x - 1 \in 1 .. k) /\ (x # k + 1 => x \in 1 .. k)
    <3> HIDE DEF x
    <3> QED
      BY <1>3, <1>8
  <2> HIDE DEF x, p, q
  <2> QED
    BY <1>3, <1>8, <2>1
<1> HIDE DEF old, x, p, q
<1>11. IsHeap(h2)
  <2>1. value \in [Nodes -> Values \cup {NULL}] /\ len \in [Lists -> Nat]
    BY <1>1, <1>2, <1>3 DEF IsHeap, k
  <2>2. head \in Ends /\ tail \in Ends
    BY <1>1, <1>2, <1>3 DEF IsHeap, Ends
  <2>3. prev \in Links /\ next \in Links
    BY <1>1, <1>2, <1>10 DEF IsHeap, Links
  <2> HIDE DEF value, len, head, tail, prev, next
  <2> QED
    BY <1>2, <1>6, <2>1, <2>2, <2>3, SetAll
<1>12. ASSUME NEW m \in Nodes
       PROVE  /\ h2.next[m] = IF m = n THEN IF x = k + 1 THEN NULL ELSE w[x]
                              ELSE IF x > 1 /\ m = w[x - 1] THEN n ELSE h.next[m]
              /\ h2.prev[m] = IF m = n THEN IF x = 1 THEN NULL ELSE w[x - 1]
                              ELSE IF x <= k /\ m = w[x] THEN n ELSE h.prev[m]
  <2>1. h.next \in Links /\ h.prev \in Links
    BY <1>2 DEF IsHeap
  <2>2. (x > 1 <=> x # 1) /\ (x <= k <=> x # k + 1)
    BY <1>3, <1>8
  <2>3. p # n /\ q # n
    BY <1>1, <1>5, <1>8, <1>10
  <2>4. /\ h2.next[m] = IF m = n THEN q ELSE IF m = p THEN n ELSE h.next[m]
        /\ h2.prev[m] = IF m = n THEN p ELSE IF m = q THEN n ELSE h.prev[m]
    BY <1>1, <1>7, <2>1, <2>3 DEF Links
  <2> QED
    BY <1>1, <1>8, <2>2, <2>4
<1>13. /\ h2.head = [h.head EXCEPT ![l] = IF x = 1 THEN n ELSE @]
       /\ h2.tail = [h.tail EXCEPT ![l] = IF x = k + 1 THEN n ELSE @]
  BY <1>7, <1>9
<1> QED
  BY <1>1, <1>7, <1>8, <1>11, <1>12, <1>13 DEF Insertion, h2, n, old, x, k, w

(* listDelNode deletes the node it is given. *)
LEMMA DelNodeDeletes ==
    ASSUME NEW h, NEW W, Linked(h, W), NEW l \in h.live, NEW i \in 1 .. h.len[l]
    PROVE  Deletion(h, listDelNode(h, l, W[l][i]), l, W[l], i)
<1> DEFINE n == W[l][i]
           h2 == listDelNode(h, l, n)
           k == h.len[l]
           w == W[l]
           p == h.prev[n]
           q == h.next[n]
           value == [h.value EXCEPT ![n] = NULL]
           len == [h.len EXCEPT ![l] = @ - 1]
           head == [h.head EXCEPT ![l] = IF p = NULL THEN q ELSE @]
           tail == [h.tail EXCEPT ![l] = IF q = NULL THEN p ELSE @]
           prev == [h.prev EXCEPT ![q] = p, ![n] = NULL]
           next == [h.next EXCEPT ![p] = q, ![n] = NULL]
<1>1. IsHeap(h) /\ NULL \notin Nodes
  BY ListAssumption DEF Linked
<1>2. /\ l \in Lists /\ k \in Nat /\ w \in [1 .. k -> Nodes] /\ i \in 1 .. k
      /\ \A a, b \in 1 .. k : w[a] = w[b] => a = b
  BY LinkedList
<1>3. /\ h.next[w[i]] = IF i = k THEN NULL ELSE w[i + 1]
      /\ h.prev[w[i]] = IF i = 1 THEN NULL ELSE w[i - 1]
  BY LinkedEnds
<1>4. h2 = [h EXCEPT !.value = value, !.len = len, !.head = head, !.tail = tail,
                     !.prev = prev, !.next = next]
  BY DEF listDelNode
<1>5. /\ h2.live = h.live /\ h2.value = value /\ h2.len = len
      /\ h2.head = head /\ h2.tail = tail /\ h2.prev = prev /\ h2.next = next
  <2> HIDE DEF h2, value, len, head, tail, prev, next
  <2> QED
    BY <1>1, <1>4 DEF IsHeap
<1>6. n = w[i] /\ n \in Nodes
  BY <1>2
<1> HIDE DEF h2, k, w, n
<1>7. /\ p = IF i = 1 THEN NULL ELSE w[i - 1]
      /\ q = IF i = k THEN NULL ELSE w[i + 1]
      /\ i # 1 => i - 1 \in 1 .. k
      /\ i # k => i + 1 \in 1 .. k
  BY <1>2, <1>3, <1>6
<1> HIDE DEF p, q
<1>8. /\ p \in Nodes \cup {NULL} /\ q \in Nodes \cup {NULL}
      /\ p = NULL <=> i = 1
      /\ q = NULL <=> i = k
  BY <1>1, <1>2, <1>7
<1>9. k - 1 \in Nat
  BY <1>2
<1>10. IsHeap(h2)
  <2>1. value \in [Nodes -> Values \cup {NULL}] /\ len \in [Lists -> Nat]
    BY <1>1, <1>2, <1>9 DEF IsHeap, k
  <2>2. head \in Ends /\ tail \in Ends
    BY <1>1, <1>2, <1>8 DEF IsHeap, Ends
  <2>3. prev \in Links /\ next \in Links
    BY <1>1, <1>6, <1>8 DEF IsHeap, Links
  <2> HIDE DEF value, len, head, tail, prev, next
  <2> QED
    BY <1>1, <1>4, <2>1, <2>2, <2>3, SetAll
<1>11. ASSUME NEW m \in Nodes, m # w[i]
       PROVE  /\ h2.next[m] = IF i > 1 /\ m = w[i - 1]
                              THEN IF i = k THEN NULL ELSE w[i + 1] ELSE h.next[m]
              /\ h2.prev[m] = IF i < k /\ m = w[i + 1]
                              THEN IF i = 1 THEN NULL ELSE w[i - 1] ELSE h.prev[m]
  <2>1. h.next \in Links /\ h.prev \in Links
    BY <1>1 DEF IsHeap
  <2>2. (i > 1 <=> i # 1) /\ (i < k <=> i # k)
    BY <1>2
  <2>3. /\ h2.next[m] = IF m = p THEN q ELSE h.next[m]
        /\ h2.prev[m] = IF m = q THEN p ELSE h.prev[m]
    BY <1>5, <1>6, <1>11, <2>1 DEF Links
  <2> QED
    BY <1>1, <1>7, <2>2, <2>3
<1>12. /\ h2.head = [h.head EXCEPT ![l] =
                       IF i = 1 THEN IF i = k THEN NULL ELSE w[i + 1] ELSE @]
       /\ h2.tail = [h.tail EXCEPT ![l] =
                       IF i = k THEN IF i = 1 THEN NULL ELSE w[i - 1] ELSE @]
  BY <1>5, <1>7, <1>8
<1> QED
  BY <1>2, <1>5, <1>6, <1>10, <1>11, <1>12 DEF Deletion, h2, n, k, w


LEMMA CreateCreates ==
    ASSUME NEW h, NEW W, Linked(h, W), NEW l \in Lists \ h.live
    PROVE  Creation(h, listCreate(h, l), l)
<1> DEFINE h2 == listCreate(h, l)
           live == h.live \cup {l}
           len == [h.len EXCEPT ![l] = 0]
           head == [h.head EXCEPT ![l] = NULL]
           tail == [h.tail EXCEPT ![l] = NULL]
           h3 == [h EXCEPT !.live = live]
           h4 == [h3 EXCEPT !.len = len]
           h5 == [h4 EXCEPT !.head = head]
<1>1. IsHeap(h) /\ l \in Lists /\ h.live \subseteq Lists
  BY DEF Linked, IsHeap
<1>2. live \in SUBSET Lists /\ len \in [Lists -> Nat] /\ head \in Ends /\ tail \in Ends
  BY <1>1 DEF IsHeap, Ends
<1>3. h2 = [h5 EXCEPT !.tail = tail]
  BY DEF listCreate
<1>4. /\ h2.live = live /\ h2.len = len /\ h2.head = head /\ h2.tail = tail
      /\ h2.next = h.next /\ h2.prev = h.prev /\ h2.value = h.value
  <2>1. h2 = [h EXCEPT !.live = live, !.len = len, !.head = head, !.tail = tail]
    BY DEF listCreate
  <2> HIDE DEF h2, live, len, head, tail
  <2> QED
    BY <1>1, <2>1 DEF IsHeap
<1>5. IsHeap(h2)
  <2> HIDE DEF live, len, head, tail, h2
  <2>1. IsHeap(h3)
    BY <1>1, <1>2, SetField
  <2> HIDE DEF h3
  <2>2. IsHeap(h4)
    BY <1>2, <2>1, SetField
  <2> HIDE DEF h4
  <2>3. IsHeap(h5)
    BY <1>2, <2>2, SetField
  <2> HIDE DEF h5
  <2> QED
    BY <1>2, <1>3, <2>3, SetField
<1> HIDE DEF h2
<1>6. MadeEmpty(h2, l) /\ OthersStay(h, h2, l)
  BY <1>1, <1>4 DEF MadeEmpty, OthersStay, IsHeap
<1> QED
  BY <1>4, <1>5, <1>6 DEF Creation, h2

(* listEmpty frees the nodes of the list, and listRelease the list, too.     *)
LEMMA EmptyEmpties ==
    ASSUME NEW h, NEW W, Linked(h, W), NEW l \in h.live
    PROVE  /\ Emptying(h, listEmpty(h, l), l, W[l])
           /\ Emptying(h, listRelease(h, l), l, W[l])
           /\ listEmpty(h, l).live = h.live /\ listRelease(h, l).live = h.live \ {l}
           /\ listRelease(h, l).value = listEmpty(h, l).value
           /\ listRelease(h, l).len = listEmpty(h, l).len
<1> DEFINE w == W[l]
           k == h.len[l]
           freed == {w[i] : i \in 1 .. k}
           Clean(f) == [n \in Nodes |-> IF n \in freed THEN NULL ELSE f[n]]
           h2 == listEmpty(h, l)
           h3 == listRelease(h, l)
           value == Clean(h.value)
           len == [h.len EXCEPT ![l] = 0]
           head == [h.head EXCEPT ![l] = NULL]
           tail == [h.tail EXCEPT ![l] = NULL]
           prev == Clean(h.prev)
           next == Clean(h.next)
<1>1. IsHeap(h) /\ l \in Lists
  BY LinkedList DEF Linked
<1>2. Forward(h, l) = w
  BY <1>1, ReadsChain DEF Linked
<1>3. h2 = [h EXCEPT !.value = value, !.len = len, !.head = head, !.tail = tail,
                     !.prev = prev, !.next = next]
  BY <1>2 DEF listEmpty
<1>4. h3 = [h2 EXCEPT !.live = @ \ {l}]
  BY DEF listRelease
<1>5. /\ h2.live = h.live /\ h2.value = value /\ h2.len = len
      /\ h2.head = head /\ h2.tail = tail /\ h2.prev = prev /\ h2.next = next
  <2> HIDE DEF h2, value, len, head, tail, prev, next
  <2> QED
    BY <1>1, <1>3 DEF IsHeap
<1>6. IsHeap(h2)
  <2>1. /\ value \in [Nodes -> Values \cup {NULL}] /\ prev \in Links /\ next \in Links
    <3> HIDE DEF freed
    <3> QED
      BY <1>1 DEF IsHeap, Links
  <2>2. len \in [Lists -> Nat] /\ head \in Ends /\ tail \in Ends
    BY <1>1 DEF IsHeap, Ends
  <2> HIDE DEF value, len, head, tail, prev, next, h2
  <2> QED
    BY <1>1, <1>3, <2>1, <2>2, SetAll
<1>7. IsHeap(h3)
  <2> HIDE DEF h2, h3
  <2>1. h2.live \ {l} \in SUBSET Lists
    BY <1>6 DEF IsHeap
  <2> QED
    BY <1>4, <1>6, <2>1, SetField
<1> HIDE DEF h2, h3
<1>8. /\ h3.live = h.live \ {l} /\ h3.value = value /\ h3.len = len
      /\ h3.head = head /\ h3.tail = tail /\ h3.prev = prev /\ h3.next = next
  <2> HIDE DEF value, len, head, tail, prev, next
  <2> QED
    BY <1>4, <1>5, <1>6 DEF IsHeap
<1>9. ASSUME NEW m \in Nodes
      PROVE  IF \E i \in 1 .. k : w[i] = m THEN value[m] = NULL
             ELSE value[m] = h.value[m] /\ next[m] = h.next[m] /\ prev[m] = h.prev[m]
  <2>1. m \in freed <=> \E i \in 1 .. k : w[i] = m
    OBVIOUS
  <2> HIDE DEF freed
  <2> QED
    BY <2>1
<1>10. /\ MadeEmpty(h2, l) /\ OthersStay(h, h2, l) /\ OthersStay(h, h3, l)
  <2> HIDE DEF value, prev, next
  <2> QED
    BY <1>1, <1>5, <1>8 DEF MadeEmpty, OthersStay, IsHeap
<1>11. Emptying(h, h2, l, w)
  <2> HIDE DEF value, len, head, tail, prev, next
  <2> QED
    BY <1>5, <1>6, <1>9, <1>10 DEF Emptying
<1>12. Emptying(h, h3, l, w)
  <2> HIDE DEF value, len, head, tail, prev, next
  <2> QED
    BY <1>7, <1>8, <1>9, <1>10 DEF Emptying
<1> QED
  BY <1>5, <1>8, <1>11, <1>12 DEF h2, h3

LEMMA JoinJoins ==
    ASSUME NEW h, NEW W, Linked(h, W), NEW l \in h.live, NEW o \in h.live, l # o
    PROVE  Joining(h, listJoin(h, l, o), l, o, W[l], W[o])
<1> DEFINE h2 == listJoin(h, l, o)
           k == h.len[l]
           q == h.len[o]
           first == IF h.tail[l] = NULL THEN h.head[o] ELSE h.head[l]
           last == IF h.tail[o] # NULL THEN h.tail[o] ELSE h.tail[l]
           len == [h.len EXCEPT ![l] = h.len[l] + h.len[o], ![o] = 0]
           head == [h.head EXCEPT ![l] = first, ![o] = NULL]
           tail == [h.tail EXCEPT ![l] = last, ![o] = NULL]
           prev == [h.prev EXCEPT ![h.head[o]] = h.tail[l]]
           next == [h.next EXCEPT ![h.tail[l]] = h.head[o]]
<1>1. IsHeap(h) /\ l \in Lists /\ o \in Lists /\ k \in Nat /\ q \in Nat /\ NULL \notin Nodes
  <2>1. l \in Lists /\ k \in Nat
    BY LinkedList
  <2>2. o \in Lists /\ q \in Nat
    BY LinkedList
  <2> QED
    BY <2>1, <2>2, ListAssumption DEF Linked
<1>2. /\ h.head[l] = IF k = 0 THEN NULL ELSE W[l][1]
      /\ h.tail[l] = IF k = 0 THEN NULL ELSE W[l][k]
      /\ h.head[o] = IF q = 0 THEN NULL ELSE W[o][1]
      /\ h.tail[o] = IF q = 0 THEN NULL ELSE W[o][q]
      /\ k > 0 => h.tail[l] \in Nodes /\ h.head[l] \in Nodes
      /\ q > 0 => h.tail[o] \in Nodes /\ h.head[o] \in Nodes
  BY LinkedEnds
<1>3. h2 = [h EXCEPT !.len = len, !.head = head, !.tail = tail, !.prev = prev, !.next = next]
  BY DEF listJoin
<1>4. /\ h2.live = h.live /\ h2.value = h.value /\ h2.len = len
      /\ h2.head = head /\ h2.tail = tail /\ h2.prev = prev /\ h2.next = next
  <2> HIDE DEF h2, len, head, tail, prev, next
  <2> QED
    BY <1>1, <1>3 DEF IsHeap
<1>5. IsHeap(h2)
  <2>1. len \in [Lists -> Nat]
    BY <1>1 DEF IsHeap
  <2>2. head \in Ends /\ tail \in Ends
    BY <1>1 DEF IsHeap, Ends
  <2>3. prev \in Links /\ next \in Links
    BY <1>1 DEF IsHeap, Links
  <2> HIDE DEF len, head, tail, prev, next, h2
  <2> QED
    BY <1>1, <1>3, <2>1, <2>2, <2>3, SetLenAndEnds
<1> HIDE DEF h2, k, q
<1>6. (k > 0 <=> k # 0) /\ (q > 0 <=> q # 0)
  BY <1>1
<1>7. /\ h.tail[l] = NULL <=> k = 0
      /\ h.tail[o] = NULL <=> q = 0
  BY <1>1, <1>2, <1>6
<1>8. /\ h2.len[l] = k + q
      /\ h2.head[l] = IF k = 0 THEN h.head[o] ELSE h.head[l]
      /\ h2.tail[l] = IF q = 0 THEN h.tail[l] ELSE h.tail[o]
      /\ MadeEmpty(h2, o)
      /\ \A x \in h.live \ {l, o} :
           h2.head[x] = h.head[x] /\ h2.tail[x] = h.tail[x] /\ h2.len[x] = h.len[x]
  <2>1. h.len \in [Lists -> Nat] /\ h.head \in Ends /\ h.tail \in Ends
    BY <1>1 DEF IsHeap, Ends
  <2>2. /\ h2.len[l] = k + q
        /\ \A x \in h.live \ {l, o} : h2.len[x] = h.len[x]
    BY <1>1, <1>4, <2>1 DEF k, q, IsHeap
  <2>3. /\ h2.head[l] = IF k = 0 THEN h.head[o] ELSE h.head[l]
        /\ \A x \in h.live \ {l, o} : h2.head[x] = h.head[x]
    BY <1>1, <1>4, <1>7, <2>1 DEF Ends, IsHeap
  <2>4. /\ h2.tail[l] = IF q = 0 THEN h.tail[l] ELSE h.tail[o]
        /\ \A x \in h.live \ {l, o} : h2.tail[x] = h.tail[x]
    BY <1>1, <1>4, <1>7, <2>1 DEF Ends, IsHeap
  <2>5. MadeEmpty(h2, o)
    BY <1>1, <1>4, <2>1 DEF Ends, MadeEmpty
  <2> QED
    BY <2>2, <2>3, <2>4, <2>5
<1>9. ASSUME NEW m \in Nodes
      PROVE  /\ h2.next[m] = IF k > 0 /\ m = W[l][k] THEN h.head[o] ELSE h.next[m]
             /\ h2.prev[m] = IF q > 0 /\ m = W[o][1] THEN h.tail[l] ELSE h.prev[m]
  <2>1. /\ h2.next[m] = IF m = h.tail[l] THEN h.head[o] ELSE h.next[m]
        /\ h2.prev[m] = IF m = h.head[o] THEN h.tail[l] ELSE h.prev[m]
    BY <1>1, <1>4 DEF IsHeap, Links
  <2>2. /\ m = h.tail[l] <=> k > 0 /\ m = W[l][k]
        /\ m = h.head[o] <=> q > 0 /\ m = W[o][1]
    BY <1>1, <1>2, <1>6
  <2> QED
    BY <2>1, <2>2
<1> QED
  BY <1>4, <1>5, <1>8, <1>9 DEF Joining, h2, k, q

(* The k nodes of w with the last one first. *)
Turn(w, k) == [i \in 1 .. k |-> IF i = 1 THEN w[k] ELSE w[i - 1]]

(* A list that is rotated has lost its last node and been given it again as  *)
(* the first.                                                                *)
LEMMA RotateLinked ==
    ASSUME NEW h, NEW W, Linked(h, W), NEW l \in h.live, h.len[l] > 1
    PROVE  LET h2 == listRotate(h, l)
           IN  /\ Linked(h2, Put(W, h2, l, Turn(W[l], h.len[l])))
               /\ h2.live = h.live /\ h2.len = h.len /\ h2.value = h.value
<1> DEFINE h2 == listRotate(h, l)
           k == h.len[l]
           w == W[l]
           t == h.tail[l]
           p == h.prev[t]
           f == h.head[l]
           n == w[k]
           hm == listDelNode(h, l, n)
           wm == Cut(w, k, k)
           Wm == Put(W, hm, l, wm)
           head == [h.head EXCEPT ![l] = t]
           tail == [h.tail EXCEPT ![l] = p]
           prev == [h.prev EXCEPT ![f] = t, ![t] = NULL]
           next == [h.next EXCEPT ![p] = NULL, ![t] = f]
<1>1. /\ IsHeap(h) /\ l \in Lists /\ k \in Nat /\ w \in [1 .. k -> Nodes]
      /\ \A i, j \in 1 .. k : w[i] = w[j] => i = j
  BY LinkedList DEF Linked
<1>2. NULL \notin Nodes
  BY ListAssumption
<1>3. k \in 1 .. k /\ k - 1 \in 1 .. k /\ 1 \in 1 .. k /\ k # 1 /\ k # 0 /\ ~(k <= 1)
  BY <1>1
<1>4. f = w[1] /\ t = w[k] /\ p = w[k - 1]
  BY <1>3, LinkedEnds
<1>5. Deletion(h, hm, l, w, k) /\ Linked(hm, Wm)
  BY <1>3, DelNodeDeletes, DeletionLinked
<1>6. h2 = [h EXCEPT !.head = head, !.tail = tail, !.prev = prev, !.next = next]
  BY <1>3 DEF listRotate
<1>7. /\ h2.live = h.live /\ h2.value = h.value /\ h2.len = h.len
      /\ h2.head = head /\ h2.tail = tail /\ h2.prev = prev /\ h2.next = next
  <2> HIDE DEF h2, head, tail, prev, next
  <2> QED
    BY <1>1, <1>6 DEF IsHeap
<1> HIDE DEF h2, hm
<1>8. f \in Nodes /\ t \in Nodes /\ p \in Nodes
  <2> HIDE DEF f, t, p, k, w
  <2> QED
    BY <1>1, <1>3, <1>4
<1>9. IsHeap(h2)
  <2> HIDE DEF f, t, p
  <2>1. head \in Ends /\ tail \in Ends
    BY <1>1, <1>8 DEF IsHeap, Ends
  <2>2. prev \in Links /\ next \in Links
    BY <1>1, <1>8 DEF IsHeap, Links
  <2> HIDE DEF head, tail, prev, next
  <2> QED
    BY <1>1, <1>6, <2>1, <2>2, SetEnds
<1>10. w[1] # n /\ w[k - 1] # n /\ n \in Nodes
  BY <1>1, <1>3
<1>11. /\ wm \in [1 .. k - 1 -> Nodes] /\ \A i \in 1 .. k - 1 : wm[i] = w[i]
       /\ hm.len[l] = k - 1 /\ Wm[l] = wm
  <2>1. hm.len[l] = k - 1 /\ hm.live = h.live
    BY <1>1, <1>5 DEF Deletion, IsHeap
  <2>2. \A i \in 1 .. k - 1 : i \in 1 .. k /\ i < k
    BY <1>1
  <2>3. wm \in [1 .. k - 1 -> Nodes] /\ \A i \in 1 .. k - 1 : wm[i] = w[i]
    BY <1>1, <2>2 DEF Cut
  <2> QED
    BY <2>1, <2>3 DEF Put
<1>12. /\ hm.live = h.live
       /\ hm.value = [h.value EXCEPT ![n] = NULL]
       /\ hm.len = [h.len EXCEPT ![l] = @ - 1]
       /\ hm.head = h.head
       /\ hm.tail = [h.tail EXCEPT ![l] = w[k - 1]]
       /\ \A m \in Nodes : m # n =>
            /\ hm.next[m] = IF m = w[k - 1] THEN NULL ELSE h.next[m]
            /\ hm.prev[m] = h.prev[m]
  <2>1. /\ hm.live = h.live
        /\ hm.value = [h.value EXCEPT ![n] = NULL]
        /\ hm.len = [h.len EXCEPT ![l] = @ - 1]
        /\ hm.head = [h.head EXCEPT ![l] =
                        IF k = 1 THEN IF k = k THEN NULL ELSE w[k + 1] ELSE @]
        /\ hm.tail = [h.tail EXCEPT ![l] = IF k = 1 THEN NULL ELSE w[k - 1]]
        /\ \A m \in Nodes : m # n =>
             /\ hm.next[m] = IF k > 1 /\ m = w[k - 1] THEN NULL ELSE h.next[m]
             /\ hm.prev[m] = h.prev[m]
    BY <1>1, <1>5 DEF Deletion
  <2>2. h.head \in Ends
    BY <1>1 DEF IsHeap, Ends
  <2>3. [h.head EXCEPT ![l] = IF k = 1 THEN IF k = k THEN NULL ELSE w[k + 1] ELSE @] = h.head
    <3>1. [h.head EXCEPT ![l] = IF k = 1 THEN IF k = k THEN NULL ELSE w[k + 1] ELSE @]
            = [h.head EXCEPT ![l] = @]
      BY <1>3
    <3> QED
      BY <2>2, <3>1 DEF Ends
  <2> QED
    BY <1>3, <2>1, <2>3
<1> HIDE DEF k, w, n, wm, Wm
<1>13. Insertion(hm, h2, l, Wm[l], 1, n, h.value[n])
  <2>1. n \in FreeNodes(hm) /\ h.value[n] \in Values
    <3>1. h.value \in [Nodes -> Values \cup {NULL}] /\ h.value[n] # NULL
      <4>1. h.value[W[l][k]] # NULL
        BY <1>3, LinkedNode DEF k
      <4> QED
        BY <1>1, <4>1 DEF IsHeap, n, w
    <3> QED
      BY <1>10, <1>12, <3>1 DEF FreeNodes, Allocated
  <2>2. h2.value = [hm.value EXCEPT ![n] = h.value[n]] /\ h2.len = [hm.len EXCEPT ![l] = @ + 1]
    <3>1. h.value \in [Nodes -> Values \cup {NULL}] /\ h.len \in [Lists -> Nat] /\ h.len[l] = k
      BY <1>1 DEF IsHeap, k
    <3>2. [hm.value EXCEPT ![n] = h.value[n]] = h.value
      BY <1>10, <1>12, <3>1
    <3>3. [hm.len EXCEPT ![l] = @ + 1] = h.len
      BY <1>1, <1>12, <3>1
    <3> QED
      BY <1>7, <3>2, <3>3
  <2>3. h2.head = [hm.head EXCEPT ![l] = IF 1 = 1 THEN n ELSE @]
    BY <1>4, <1>7, <1>12 DEF n
  <2>4. h2.tail = [hm.tail EXCEPT ![l] = IF 1 = hm.len[l] + 1 THEN n ELSE @]
    <3>1. 1 # hm.len[l] + 1
      BY <1>1, <1>3, <1>11
    <3>2. h.tail \in Ends
      BY <1>1 DEF IsHeap, Ends
    <3>3. hm.tail = tail
      BY <1>4, <1>12
    <3>4. [hm.tail EXCEPT ![l] = IF 1 = hm.len[l] + 1 THEN n ELSE @] = [hm.tail EXCEPT ![l] = @]
      BY <3>1
    <3>5. hm.tail \in Ends
      BY <1>8, <3>2, <3>3 DEF Ends
    <3>6. [hm.tail EXCEPT ![l] = @] = hm.tail
      <4> HIDE DEF tail
      <4> QED
        BY <3>5 DEF Ends
    <3> QED
      BY <1>7, <3>3, <3>4, <3>6
  <2>5. ASSUME NEW m \in Nodes
        PROVE  /\ h2.next[m] = IF m = n THEN IF 1 = hm.len[l] + 1 THEN NULL ELSE Wm[l][1]
                               ELSE hm.next[m]
               /\ h2.prev[m] = IF m = n THEN NULL
                               ELSE IF 1 <= hm.len[l] /\ m = Wm[l][1] THEN n ELSE hm.prev[m]
    <3>1. 1 # hm.len[l] + 1 /\ 1 <= hm.len[l] /\ 1 \in 1 .. k - 1
      BY <1>1, <1>3, <1>11
    <3>2. Wm[l][1] = w[1]
      BY <1>11, <3>1
    <3>3. /\ h2.next[m] = IF m = t THEN f ELSE IF m = p THEN NULL ELSE h.next[m]
          /\ h2.prev[m] = IF m = t THEN NULL ELSE IF m = f THEN t ELSE h.prev[m]
      <4> HIDE DEF t, f, p
      <4> QED
        BY <1>1, <1>7, <1>8 DEF IsHeap, Links
    <3>4. t = n
      BY <1>4 DEF n
    <3> HIDE DEF t, f, p
    <3> QED
      BY <1>4, <1>10, <1>12, <3>1, <3>2, <3>3, <3>4
  <2>6. 1 \in 1 .. hm.len[l] + 1
    BY <1>1, <1>3, <1>11
  <2>7. h2.live = hm.live
    BY <1>7, <1>12
  <2>8. ASSUME NEW m \in Nodes
        PROVE  /\ h2.next[m] = IF m = n THEN IF 1 = hm.len[l] + 1 THEN NULL ELSE Wm[l][1]
                               ELSE IF 1 > 1 /\ m = Wm[l][1 - 1] THEN n ELSE hm.next[m]
               /\ h2.prev[m] = IF m = n THEN IF 1 = 1 THEN NULL ELSE Wm[l][1 - 1]
                               ELSE IF 1 <= hm.len[l] /\ m = Wm[l][1] THEN n ELSE hm.prev[m]
    <3>1. ~(1 > 1)
      OBVIOUS
    <3> QED
      BY <2>5, <3>1
  <2> HIDE DEF h2, hm
  <2> QED
    BY <1>9, <2>1, <2>2, <2>3, <2>4, <2>6, <2>7, <2>8, Zenon DEF Insertion
<1>14. Linked(h2, Put(Wm, h2, l, Splice(Wm[l], hm.len[l], 1, n)))
  <2>1. l \in hm.live
    BY <1>12
  <2> QED
    BY <1>5, <1>13, <2>1, InsertionLinked
<1>15. Splice(Wm[l], hm.len[l], 1, n) = Turn(w, k)
  <2>1. hm.len[l] + 1 = k
    BY <1>1, <1>11
  <2>2. Splice(wm, k - 1, 1, n)
          = [i \in 1 .. (k - 1) + 1 |-> IF i < 1 THEN wm[i] ELSE IF i = 1 THEN n ELSE wm[i - 1]]
    BY DEF Splice
  <2>3. (k - 1) + 1 = k
    BY <1>1
  <2>4. ASSUME NEW i \in 1 .. k
        PROVE  (IF i < 1 THEN wm[i] ELSE IF i = 1 THEN n ELSE wm[i - 1])
                 = IF i = 1 THEN w[k] ELSE w[i - 1]
    <3>1. ~(i < 1) /\ (i # 1 => i - 1 \in 1 .. k - 1)
      BY <1>1
    <3> QED
      BY <1>11, <3>1 DEF n
  <2>5. Splice(wm, k - 1, 1, n) = Turn(w, k)
    BY <2>2, <2>3, <2>4 DEF Turn
  <2> QED
    BY <1>11, <2>5
<1>16. Put(Wm, h2, l, Turn(w, k)) = Put(W, h2, l, Turn(w, k))
  BY <1>7, <1>12 DEF Put, Wm
<1> QED
  BY <1>7, <1>14, <1>15, <1>16 DEF h2, k, w


-----------------------------------------------------------------------------
(* The iteration. *)

(* The places an iteration at the p-th of k nodes has still to visit.        *)
Ahead(dir, p, k) == IF dir = "head" THEN p .. k ELSE 1 .. p

(* The iterator is about to return the p-th node of l: nodes it owes are     *)
(* ahead, and those it has given are behind, in the same list.               *)
At(h, W, it, ow, gi, l, p) ==
    /\ W[l][p] = it.next
    /\ \A n \in ow : \E i \in Ahead(it.dir, p, h.len[l]) : W[l][i] = n
    /\ \A n \in gi : \E i \in (1 .. h.len[l]) \ Ahead(it.dir, p, h.len[l]) : W[l][i] = n
    /\ it.last = NULL \/ it.last \in gi

Iterators ==
    [on : {TRUE}, dir : {"head", "tail"}, last : Nodes \cup {NULL}, next : Nodes \cup {NULL}]

IterOK(h, W, it, ow, gi) ==
    \/ it = NoIter
    \/ /\ it \in Iterators
       /\ \/ it.next = NULL /\ ow = {}
          \/ \E l \in h.live : \E p \in 1 .. h.len[l] : At(h, W, it, ow, gi, l, p)

(* The inductive invariant: the sequences behind the links are those that    *)
(* reading forward gives, and the iterator is at a place of one of them.     *)
ListInv ==
    /\ Linked(heap, Walks(heap))
    /\ owed \subseteq Nodes /\ given \subseteq Nodes
    /\ IterOK(heap, Walks(heap), iter, owed, given)


(* Reading a list gives the one sequence there is behind its links.          *)
LEMMA Canonical ==
    ASSUME NEW h, NEW W, Linked(h, W)
    PROVE  /\ \A l \in h.live : Forward(h, l) = W[l] /\ Walks(h)[l] = W[l]
           /\ Linked(h, Walks(h))
<1>1. ASSUME NEW l \in h.live PROVE Forward(h, l) = W[l]
  <2>1. IsHeap(h) /\ Chain(h, l, W[l]) /\ l \in Lists
    BY LinkedList DEF Linked
  <2> QED
    BY <2>1, ReadsChain
<1>2. \A l \in h.live : Walks(h)[l] = W[l]
  BY <1>1 DEF Walks
<1>3. Linked(h, Walks(h))
  <2> HIDE DEF Walks
  <2> QED
    BY <1>2, SMTT(30) DEF Linked, Chain
<1> QED
  BY <1>1, <1>2, <1>3

(* The nodes of l, but for the node gone, are nodes of l2, in the same order:*)
(* r says where they are.                                                    *)
Moves(h, W, h2, W2, l, l2, r, gone) ==
    /\ \A i \in 1 .. h.len[l] : W[l][i] # gone =>
         r[i] \in 1 .. h2.len[l2] /\ W2[l2][r[i]] = W[l][i]
    /\ \A i, j \in 1 .. h.len[l] :
         W[l][i] # gone /\ W[l][j] # gone /\ i < j => r[i] < r[j]

(* Every list is part of a list, but those of T.                             *)
Carried(h, W, h2, W2, T, gone) ==
    \A l \in h.live \ T : \E l2 \in h2.live : \E r : Moves(h, W, h2, W2, l, l2, r, gone)

Forget(it, gone) ==
    IF it.on /\ it.last = gone THEN [it EXCEPT !.last = NULL] ELSE it

(* An iteration survives an operation that leaves its list in order and does *)
(* not delete the node that comes next.                                      *)
LEMMA IterMoves ==
    ASSUME NEW h, NEW W, Linked(h, W), NEW h2, NEW W2, Linked(h2, W2),
           NEW it \in Iterators, NEW ow, NEW gi, NEW gone,
           NEW l \in h.live, NEW p \in 1 .. h.len[l], At(h, W, it, ow, gi, l, p),
           NEW l2 \in h2.live, NEW r, Moves(h, W, h2, W2, l, l2, r, gone),
           it.next # gone, gone \notin Allocated(h2)
    PROVE  \E p2 \in 1 .. h2.len[l2] :
             At(h2, W2, Forget(it, gone), ow \cap Allocated(h2), gi \cap Allocated(h2), l2, p2)
<1> DEFINE k == h.len[l]
           k2 == h2.len[l2]
           w == W[l]
           w2 == W2[l2]
           it2 == Forget(it, gone)
<1>1. k \in Nat /\ k2 \in Nat
  BY LinkedList
<1>2. /\ \A i \in 1 .. k : w[i] # gone => r[i] \in 1 .. k2 /\ w2[r[i]] = w[i]
      /\ \A i, j \in 1 .. k : w[i] # gone /\ w[j] # gone /\ i < j => r[i] < r[j]
  BY DEF Moves
<1>3. /\ w[p] = it.next
      /\ \A n \in ow : \E i \in Ahead(it.dir, p, k) : w[i] = n
      /\ \A n \in gi : \E i \in (1 .. k) \ Ahead(it.dir, p, k) : w[i] = n
      /\ it.last = NULL \/ it.last \in gi
  BY DEF At
<1>4. \A i \in 1 .. k2 : w2[i] \in Nodes /\ w2[i] \in Allocated(h2)
  BY LinkedNode DEF Allocated
<1>5. /\ it2.next = it.next /\ it2.dir = it.dir
      /\ it2.last = IF it.last = gone THEN NULL ELSE it.last
  BY DEF Iterators, Forget
<1>6. it.dir \in {"head", "tail"}
  BY DEF Iterators
<1> HIDE DEF k, k2, w, w2, it2
<1>7. r[p] \in 1 .. k2 /\ w2[r[p]] = it.next
  BY <1>2, <1>3 DEF k
<1>8. ASSUME NEW n \in ow \cap Allocated(h2)
      PROVE  \E i \in Ahead(it2.dir, r[p], k2) : w2[i] = n
  <2>1. PICK i \in Ahead(it.dir, p, k) : w[i] = n
    BY <1>3
  <2>2. i \in 1 .. k /\ (IF it.dir = "head" THEN p <= i ELSE i <= p) /\ p \in 1 .. k
    BY <1>1, <2>1 DEF Ahead, k
  <2>3. w[i] # gone
    BY <2>1
  <2>4. r[i] \in 1 .. k2 /\ w2[r[i]] = n
    BY <1>2, <2>1, <2>2, <2>3
  <2>5. IF it.dir = "head" THEN r[p] <= r[i] ELSE r[i] <= r[p]
    <3>1. CASE i = p
      BY <1>1, <1>7, <3>1
    <3>2. CASE i # p
      BY <1>1, <1>2, <1>3, <1>7, <2>2, <2>3, <2>4, <3>2
    <3> QED
      BY <3>1, <3>2
  <2>6. r[i] \in Ahead(it2.dir, r[p], k2)
    BY <1>1, <1>5, <1>7, <2>4, <2>5 DEF Ahead
  <2> QED
    BY <2>4, <2>6
<1>9. ASSUME NEW n \in gi \cap Allocated(h2)
      PROVE  \E i \in (1 .. k2) \ Ahead(it2.dir, r[p], k2) : w2[i] = n
  <2>1. PICK i \in (1 .. k) \ Ahead(it.dir, p, k) : w[i] = n
    BY <1>3
  <2>2. i \in 1 .. k /\ (IF it.dir = "head" THEN i < p ELSE p < i) /\ p \in 1 .. k
    BY <1>1, <2>1 DEF Ahead, k
  <2>3. w[i] # gone
    BY <2>1
  <2>4. r[i] \in 1 .. k2 /\ w2[r[i]] = n
    BY <1>2, <2>1, <2>2, <2>3
  <2>5. IF it.dir = "head" THEN r[i] < r[p] ELSE r[p] < r[i]
    BY <1>2, <1>3, <2>2, <2>3
  <2>6. r[i] \in (1 .. k2) \ Ahead(it2.dir, r[p], k2)
    BY <1>1, <1>5, <1>7, <2>4, <2>5 DEF Ahead
  <2> QED
    BY <2>4, <2>6
<1>10. it2.last = NULL \/ it2.last \in gi \cap Allocated(h2)
  <2> SUFFICES ASSUME it.last \in gi, it.last # gone PROVE it.last \in Allocated(h2)
    BY <1>3, <1>5
  <2>1. PICK i \in 1 .. k : w[i] = it.last
    BY <1>3
  <2>2. r[i] \in 1 .. k2 /\ w2[r[i]] = it.last
    BY <1>2, <2>1
  <2> QED
    BY <1>4, <2>2
<1>11. At(h2, W2, it2, ow \cap Allocated(h2), gi \cap Allocated(h2), l2, r[p])
  BY <1>5, <1>7, <1>8, <1>9, <1>10 DEF At, k2, w2
<1> QED
  BY <1>7, <1>11 DEF it2, k2


LEMMA IterCarried ==
    ASSUME NEW h, NEW W, Linked(h, W), NEW h2, NEW W2, Linked(h2, W2),
           NEW it, NEW ow, NEW gi, NEW gone, NEW T, IterOK(h, W, it, ow, gi),
           Carried(h, W, h2, W2, T, gone), gone \notin Allocated(h2),
           it.on => it.next # gone \/ gone = NULL,
           it.on => \A l \in h.live \cap T : \A i \in 1 .. h.len[l] : W[l][i] # it.next
    PROVE  IterOK(h2, W2, Forget(it, gone), ow \cap Allocated(h2), gi \cap Allocated(h2))
<1> DEFINE it2 == Forget(it, gone)
           ow2 == ow \cap Allocated(h2)
           gi2 == gi \cap Allocated(h2)
<1>1. CASE it = NoIter
  BY <1>1 DEF IterOK, NoIter, Forget
<1>2. CASE it # NoIter
  <2>1. it \in Iterators /\ it.on
    BY <1>2 DEF IterOK, Iterators
  <2>2. it2 \in Iterators /\ it2.next = it.next
    BY <2>1 DEF Forget, Iterators
  <2>3. CASE it.next = NULL /\ ow = {}
    BY <2>2, <2>3 DEF IterOK
  <2>4. CASE ~(it.next = NULL /\ ow = {})
    <3>1. PICK l \in h.live : \E p \in 1 .. h.len[l] : At(h, W, it, ow, gi, l, p)
      BY <1>2, <2>4 DEF IterOK
    <3>2. PICK p \in 1 .. h.len[l] : At(h, W, it, ow, gi, l, p)
      BY <3>1
    <3>3. W[l][p] = it.next
      BY <3>2 DEF At
    <3>4. it.next # gone
      <4>1. it.next \in Nodes
        BY <3>3, LinkedNode
      <4> QED
        BY <2>1, <4>1, ListAssumption
    <3>5. l \notin T
      BY <2>1, <3>3
    <3>6. PICK l2 \in h2.live : \E r : Moves(h, W, h2, W2, l, l2, r, gone)
      BY <3>5 DEF Carried
    <3>7. PICK r : Moves(h, W, h2, W2, l, l2, r, gone)
      BY <3>6
    <3>8. \E p2 \in 1 .. h2.len[l2] : At(h2, W2, it2, ow2, gi2, l2, p2)
      BY <2>1, <3>2, <3>4, <3>7, IterMoves
    <3> QED
      BY <2>2, <3>8 DEF IterOK
  <2> QED
    BY <2>3, <2>4
<1> QED
  BY <1>1, <1>2

(* The list l is as it was. *)
LEMMA SameListMoves ==
    ASSUME NEW h, NEW W, Linked(h, W), NEW h2, NEW W2, NEW gone, NEW l \in h.live,
           h2.len[l] = h.len[l], W2[l] = W[l]
    PROVE  \E r : Moves(h, W, h2, W2, l, l, r, gone)
<1> DEFINE r == [i \in 1 .. h.len[l] |-> i]
<1>1. h.len[l] \in Nat
  BY LinkedList
<1>2. Moves(h, W, h2, W2, l, l, r, gone)
  BY <1>1 DEF Moves
<1> QED
  BY <1>2


-----------------------------------------------------------------------------
(* The sequences of values. *)

SeqOf(h, W, l) == [i \in 1 .. h.len[l] |-> h.value[W[l][i]]]

Seqs(h, W) == [l \in h.live |-> SeqOf(h, W, l)]

LEMMA SeqOfValues ==
    ASSUME NEW h, NEW W, Linked(h, W), NEW l \in h.live
    PROVE  /\ SeqOf(h, W, l) \in Seq(Values) /\ Len(SeqOf(h, W, l)) = h.len[l]
           /\ \A i \in 1 .. h.len[l] : SeqOf(h, W, l)[i] = h.value[W[l][i]]
<1>1. h.len[l] \in Nat
  BY LinkedList
<1>2. \A i \in 1 .. h.len[l] : h.value[W[l][i]] \in Values
  <2>1. ASSUME NEW i \in 1 .. h.len[l] PROVE h.value[W[l][i]] \in Values
    <3>1. W[l][i] \in Nodes /\ h.value[W[l][i]] # NULL
      BY LinkedNode
    <3> QED
      BY <3>1 DEF Linked, IsHeap
  <2> QED
    BY <2>1
<1> QED
  BY <1>1, <1>2 DEF SeqOf

(* The list o has the same nodes with the same values. *)
SameList(h, W, h2, W2, o) ==
    /\ o \in h2.live /\ W2[o] = W[o] /\ h2.len[o] = h.len[o]
    /\ \A i \in 1 .. h.len[o] : h2.value[W[o][i]] = h.value[W[o][i]]

LEMMA OneChanges ==
    ASSUME NEW h, NEW W, Linked(h, W), NEW h2, NEW W2, NEW l,
           h2.live = h.live \cup {l},
           \A o \in h.live \ {l} : SameList(h, W, h2, W2, o)
    PROVE  /\ Seqs(h2, W2) = LS!With(Seqs(h, W), l, SeqOf(h2, W2, l))
           /\ \A gone : Carried(h, W, h2, W2, {l}, gone)
<1>1. ASSUME NEW o \in h.live \ {l} PROVE SeqOf(h2, W2, o) = SeqOf(h, W, o)
  BY DEF SameList, SeqOf
<1>2. Seqs(h2, W2) = LS!With(Seqs(h, W), l, SeqOf(h2, W2, l))
  <2>1. DOMAIN Seqs(h, W) = h.live
    BY DEF Seqs
  <2>2. \A o \in h.live : Seqs(h, W)[o] = SeqOf(h, W, o)
    BY DEF Seqs
  <2>3. LS!With(Seqs(h, W), l, SeqOf(h2, W2, l)) =
          [o \in h.live \cup {l} |-> IF o = l THEN SeqOf(h2, W2, l) ELSE Seqs(h, W)[o]]
    BY <2>1 DEF LS!With
  <2>4. \A o \in h.live \cup {l} :
          SeqOf(h2, W2, o) = IF o = l THEN SeqOf(h2, W2, l) ELSE Seqs(h, W)[o]
    BY <1>1, <2>2
  <2>5. Seqs(h2, W2) = [o \in h.live \cup {l} |-> SeqOf(h2, W2, o)]
    BY DEF Seqs
  <2> QED
    BY <2>3, <2>4, <2>5
<1>3. ASSUME NEW gone, NEW o \in h.live \ {l}
      PROVE  o \in h2.live /\ \E r : Moves(h, W, h2, W2, o, o, r, gone)
  BY SameListMoves DEF SameList
<1>4. \A gone : Carried(h, W, h2, W2, {l}, gone)
  BY <1>3 DEF Carried
<1> QED
  BY <1>2, <1>4

(* What an operation on h may leave as h2: its lists behave as step says.    *)
Leaves(h, W, h2, W2, T, gone) ==
    Linked(h2, W2) /\ Carried(h, W, h2, W2, T, gone) /\ gone \notin Allocated(h2)

LEMMA NullIsFree ==
    ASSUME NEW h PROVE NULL \notin Allocated(h)
BY ListAssumption DEF Allocated

LEMMA CreationLeaves ==
    ASSUME NEW h, NEW W, Linked(h, W), NEW l \in Lists \ h.live
    PROVE  LET h2 == listCreate(h, l)
               W2 == Put(W, h2, l, NoNodes)
           IN  /\ Leaves(h, W, h2, W2, {}, NULL)
               /\ LS!Create(Seqs(h, W), Seqs(h2, W2), l)
<1> DEFINE h2 == listCreate(h, l)
           W2 == Put(W, h2, l, NoNodes)
<1>1. Creation(h, h2, l)
  BY CreateCreates
<1> HIDE DEF h2
<1>2. Linked(h2, W2)
  BY <1>1, CreationLinked
<1>3. h2.live = h.live \cup {l} /\ h2.len[l] = 0 /\ l \notin h.live
  BY <1>1 DEF Creation, MadeEmpty
<1>4. ASSUME NEW o \in h.live \ {l} PROVE SameList(h, W, h2, W2, o)
  BY <1>1, <1>3 DEF Creation, OthersStay, SameList, Put
<1> HIDE DEF W2
<1>5. /\ Seqs(h2, W2) = LS!With(Seqs(h, W), l, SeqOf(h2, W2, l))
      /\ Carried(h, W, h2, W2, {l}, NULL)
  BY <1>3, <1>4, OneChanges
<1>6. SeqOf(h2, W2, l) = << >>
  BY <1>3 DEF SeqOf
<1>7. Carried(h, W, h2, W2, {}, NULL)
  BY <1>3, <1>5 DEF Carried
<1>8. DOMAIN Seqs(h, W) = h.live
  BY DEF Seqs
<1> QED
  BY <1>2, <1>3, <1>5, <1>6, <1>7, <1>8, NullIsFree DEF Leaves, LS!Create, h2, W2


LEMMA EmptyingSame ==
    ASSUME NEW h, NEW W, Linked(h, W), NEW l \in h.live, NEW g, Emptying(h, g, l, W[l]),
           NEW o \in h.live \ {l}
    PROVE  SameList(h, W, g, Put(W, g, l, NoNodes), o)
<1>1. o \in g.live /\ g.len[o] = h.len[o] /\ Put(W, g, l, NoNodes)[o] = W[o]
  BY DEF Emptying, OthersStay, Put
<1>2. ASSUME NEW i \in 1 .. h.len[o] PROVE g.value[W[o][i]] = h.value[W[o][i]]
  <2>1. W[o][i] \in Nodes
    BY LinkedNode
  <2>2. ~ \E j \in 1 .. h.len[l] : W[l][j] = W[o][i]
    BY DEF Linked
  <2> QED
    BY <2>1, <2>2 DEF Emptying
<1> QED
  BY <1>1, <1>2 DEF SameList

LEMMA EmptyingLeaves ==
    ASSUME NEW h, NEW W, Linked(h, W), NEW l \in h.live
    PROVE  /\ LET h2 == listEmpty(h, l)
                  W2 == Put(W, h2, l, NoNodes)
              IN  /\ Leaves(h, W, h2, W2, {l}, NULL)
                  /\ LS!Empty(Seqs(h, W), Seqs(h2, W2), l)
           /\ LET h3 == listRelease(h, l)
                  W3 == Put(W, h3, l, NoNodes)
              IN  /\ Leaves(h, W, h3, W3, {l}, NULL)
                  /\ LS!Release(Seqs(h, W), Seqs(h3, W3), l)
<1> DEFINE h2 == listEmpty(h, l)
           W2 == Put(W, h2, l, NoNodes)
           h3 == listRelease(h, l)
           W3 == Put(W, h3, l, NoNodes)
<1>1. /\ Emptying(h, h2, l, W[l]) /\ Emptying(h, h3, l, W[l])
      /\ h2.live = h.live /\ h3.live = h.live \ {l}
  BY EmptyEmpties
<1> HIDE DEF h2, h3
<1>2. Linked(h2, W2) /\ Linked(h3, W3)
  BY <1>1, EmptyingLinked
<1>3. \A o \in h.live \ {l} : SameList(h, W, h2, W2, o) /\ SameList(h, W, h3, W3, o)
  BY <1>1, EmptyingSame
<1>4. h2.len[l] = 0
  BY <1>1 DEF Emptying, MadeEmpty
<1> HIDE DEF W2, W3
<1>5. /\ Seqs(h2, W2) = LS!With(Seqs(h, W), l, SeqOf(h2, W2, l))
      /\ Carried(h, W, h2, W2, {l}, NULL)
  BY <1>1, <1>3, OneChanges
<1>6. SeqOf(h2, W2, l) = << >>
  BY <1>4 DEF SeqOf
<1>7. Carried(h, W, h3, W3, {l}, NULL)
  <2>1. ASSUME NEW o \in h.live \ {l}
        PROVE  o \in h3.live /\ \E r : Moves(h, W, h3, W3, o, o, r, NULL)
    BY <1>3, SameListMoves DEF SameList
  <2> QED
    BY <2>1 DEF Carried
<1>8. Seqs(h3, W3) = [o \in DOMAIN Seqs(h, W) \ {l} |-> Seqs(h, W)[o]]
  <2>1. DOMAIN Seqs(h, W) = h.live /\ \A o \in h.live : Seqs(h, W)[o] = SeqOf(h, W, o)
    BY DEF Seqs
  <2>2. ASSUME NEW o \in h.live \ {l} PROVE SeqOf(h3, W3, o) = Seqs(h, W)[o]
    BY <1>3, <2>1 DEF SameList, SeqOf
  <2>3. Seqs(h3, W3) = [o \in h.live \ {l} |-> SeqOf(h3, W3, o)]
    BY <1>1 DEF Seqs
  <2> QED
    BY <2>1, <2>2, <2>3
<1> QED
  BY <1>2, <1>5, <1>6, <1>7, <1>8, NullIsFree DEF Leaves, LS!Empty, LS!Release, h2, W2, h3, W3

(* What the operators of the community modules give, place by place.         *)
LEMMA ConcatIs ==
    ASSUME NEW V, NEW s \in Seq(V), NEW t \in Seq(V)
    PROVE  s \o t = [j \in 1 .. Len(s) + Len(t) |->
                       IF j <= Len(s) THEN s[j] ELSE t[j - Len(s)]]
<1> DEFINE r == s \o t
<1>1. /\ r \in Seq(V) /\ Len(r) = Len(s) + Len(t)
      /\ \A j \in 1 .. Len(s) + Len(t) : r[j] = IF j <= Len(s) THEN s[j] ELSE t[j - Len(s)]
  OBVIOUS
<1> HIDE DEF r
<1>2. r = [j \in 1 .. Len(r) |-> r[j]]
  BY <1>1
<1>3. r = [j \in 1 .. Len(s) + Len(t) |-> r[j]]
  BY <1>1, <1>2
<1>4. r = [j \in 1 .. Len(s) + Len(t) |-> IF j <= Len(s) THEN s[j] ELSE t[j - Len(s)]]
  BY <1>1, <1>3
<1> QED
  BY <1>4 DEF r

LEMMA PartIs ==
    ASSUME NEW V, NEW s \in Seq(V), NEW m \in 1 .. Len(s) + 1, NEW n \in 0 .. Len(s), m <= n + 1
    PROVE  /\ SubSeq(s, m, n) \in Seq(V) /\ Len(SubSeq(s, m, n)) = n + 1 - m
           /\ \A j \in 1 .. n + 1 - m : SubSeq(s, m, n)[j] = s[j + m - 1]
OBVIOUS

Inserted(s, i, v) ==
    [j \in 1 .. Len(s) + 1 |-> IF j < i THEN s[j] ELSE IF j = i THEN v ELSE s[j - 1]]

LEMMA InsertAtIs ==
    ASSUME NEW V, NEW s \in Seq(V), NEW i \in 1 .. Len(s) + 1, NEW v \in V
    PROVE  LS!InsertAt(s, i, v) = Inserted(s, i, v)
<1> DEFINE a == SubSeq(s, 1, i - 1)
           b == SubSeq(s, i, Len(s))
           c == a \o <<v>>
<1>0. Len(s) \in Nat
  OBVIOUS
<1>1. a \in Seq(V) /\ Len(a) = i - 1 /\ \A j \in 1 .. i - 1 : a[j] = s[j]
  <2>1. 1 \in 1 .. Len(s) + 1 /\ i - 1 \in 0 .. Len(s) /\ 1 <= (i - 1) + 1
    BY <1>0
  <2> QED
    BY <1>0, <2>1, PartIs
<1>2. b \in Seq(V) /\ Len(b) = Len(s) + 1 - i /\ \A j \in 1 .. Len(s) + 1 - i : b[j] = s[j + i - 1]
  <2>1. i \in 1 .. Len(s) + 1 /\ Len(s) \in 0 .. Len(s) /\ i <= Len(s) + 1
    BY <1>0
  <2> QED
    BY <2>1, PartIs
<1> HIDE DEF a, b
<1>3. c \in Seq(V) /\ Len(c) = i /\ \A j \in 1 .. i : c[j] = IF j < i THEN s[j] ELSE v
  BY <1>1
<1> HIDE DEF c
<1>4. c \o b = [j \in 1 .. i + (Len(s) + 1 - i) |-> IF j <= i THEN c[j] ELSE b[j - i]]
  <2>1. c \o b = [j \in 1 .. Len(c) + Len(b) |-> IF j <= Len(c) THEN c[j] ELSE b[j - Len(c)]]
    BY <1>2, <1>3, ConcatIs
  <2> QED
    BY <1>2, <1>3, <2>1
<1>5. i + (Len(s) + 1 - i) = Len(s) + 1
  BY <1>0
<1>6. ASSUME NEW j \in 1 .. Len(s) + 1
      PROVE  (IF j <= i THEN c[j] ELSE b[j - i])
               = IF j < i THEN s[j] ELSE IF j = i THEN v ELSE s[j - 1]
  <2>1. CASE j <= i
    BY <1>0, <1>3, <2>1
  <2>2. CASE ~(j <= i)
    <3>1. j - i \in 1 .. Len(s) + 1 - i /\ (j - i) + i - 1 = j - 1
      BY <1>0, <2>2
    <3> QED
      BY <1>0, <1>2, <2>2, <3>1
  <2> QED
    BY <2>1, <2>2
<1>7. LS!InsertAt(s, i, v) = c \o b
  BY DEF LS!InsertAt, a, b, c
<1> QED
  BY <1>4, <1>5, <1>6, <1>7 DEF Inserted

LEMMA RemoveAtIs ==
    ASSUME NEW V, NEW s \in Seq(V), NEW i \in 1 .. Len(s)
    PROVE  LS!RemoveAt(s, i) =
             [j \in 1 .. Len(s) - 1 |-> IF j < i THEN s[j] ELSE s[j + 1]]
<1> DEFINE a == SubSeq(s, 1, i - 1)
           b == SubSeq(s, i + 1, Len(s))
<1>0. Len(s) \in Nat
  OBVIOUS
<1>1. a \in Seq(V) /\ Len(a) = i - 1 /\ \A j \in 1 .. i - 1 : a[j] = s[j]
  <2>1. 1 \in 1 .. Len(s) + 1 /\ i - 1 \in 0 .. Len(s) /\ 1 <= (i - 1) + 1
    BY <1>0
  <2> QED
    BY <1>0, <2>1, PartIs
<1>2. b \in Seq(V) /\ Len(b) = Len(s) - i /\ \A j \in 1 .. Len(s) - i : b[j] = s[j + i]
  <2>1. i + 1 \in 1 .. Len(s) + 1 /\ Len(s) \in 0 .. Len(s) /\ i + 1 <= Len(s) + 1
    BY <1>0
  <2> QED
    BY <1>0, <2>1, PartIs
<1> HIDE DEF a, b
<1>4. a \o b = [j \in 1 .. (i - 1) + (Len(s) - i) |-> IF j <= i - 1 THEN a[j] ELSE b[j - (i - 1)]]
  <2>1. a \o b = [j \in 1 .. Len(a) + Len(b) |-> IF j <= Len(a) THEN a[j] ELSE b[j - Len(a)]]
    BY <1>1, <1>2, ConcatIs, ZenonT(30)
  <2> QED
    BY <1>1, <1>2, <2>1
<1>5. (i - 1) + (Len(s) - i) = Len(s) - 1
  BY <1>0
<1>6. ASSUME NEW j \in 1 .. Len(s) - 1
      PROVE  (IF j <= i - 1 THEN a[j] ELSE b[j - (i - 1)]) = IF j < i THEN s[j] ELSE s[j + 1]
  <2>1. CASE j <= i - 1
    BY <1>0, <1>1, <2>1
  <2>2. CASE ~(j <= i - 1)
    <3>1. j - (i - 1) \in 1 .. Len(s) - i /\ (j - (i - 1)) + i = j + 1
      BY <1>0, <2>2
    <3> QED
      BY <1>0, <1>2, <2>2, <3>1
  <2> QED
    BY <2>1, <2>2
<1>7. LS!RemoveAt(s, i) = a \o b
  BY DEF LS!RemoveAt, a, b
<1> QED
  BY <1>4, <1>5, <1>6, <1>7

LEMMA TurnIs ==
    ASSUME NEW V, NEW s \in Seq(V), Len(s) > 0
    PROVE  <<LS!Last(s)>> \o LS!Front(s) = Turn(s, Len(s))
BY DEF LS!Last, LS!Front, Turn


LEMMA InsertionLeaves ==
    ASSUME NEW h, NEW W, Linked(h, W), NEW l \in h.live, NEW h2, NEW p, NEW n, NEW v,
           Insertion(h, h2, l, W[l], p, n, v)
    PROVE  LET W2 == Put(W, h2, l, Splice(W[l], h.len[l], p, n))
           IN  /\ Leaves(h, W, h2, W2, {}, NULL)
               /\ LS!Insert(Seqs(h, W), Seqs(h2, W2), l)
<1> DEFINE k == h.len[l]
           w == W[l]
           w2 == Splice(w, k, p, n)
           W2 == Put(W, h2, l, w2)
           s == SeqOf(h, W, l)
<1>1. Linked(h2, W2)
  BY InsertionLinked
<1>2. /\ k \in Nat /\ p \in 1 .. k + 1 /\ n \in Nodes /\ l \in Lists /\ v \in Values
      /\ h.value[n] = NULL /\ IsHeap(h)
  <2>1. k \in Nat /\ l \in Lists /\ IsHeap(h)
    BY LinkedList DEF Linked
  <2>2. p \in 1 .. k + 1 /\ v \in Values /\ n \in FreeNodes(h)
    BY Zenon DEF Insertion
  <2>3. n \in Nodes /\ h.value[n] = NULL
    BY <2>2, Zenon DEF FreeNodes, Allocated
  <2> QED
    BY <2>1, <2>2, <2>3
<1>3. /\ h2.live = h.live /\ h2.len[l] = k + 1
      /\ \A o \in h.live \ {l} : h2.len[o] = h.len[o]
      /\ \A m \in Nodes : h2.value[m] = IF m = n THEN v ELSE h.value[m]
  BY <1>2 DEF Insertion, IsHeap
<1>4. \A o \in h.live : \A i \in 1 .. h.len[o] : W[o][i] \in Nodes /\ W[o][i] # n
  BY <1>2, LinkedNode
<1>5. ASSUME NEW o \in h.live \ {l} PROVE SameList(h, W, h2, W2, o)
  BY <1>3, <1>4 DEF SameList, Put
<1>6. W2[l] = w2
  BY <1>3 DEF Put
<1>7. \A i \in 1 .. k + 1 : w2[i] = IF i < p THEN w[i] ELSE IF i = p THEN n ELSE w[i - 1]
  BY DEF Splice
<1>8. s \in Seq(Values) /\ Len(s) = k /\ \A i \in 1 .. k : s[i] = h.value[w[i]]
  BY SeqOfValues
<1> HIDE DEF W2, w2
<1>9. /\ Seqs(h2, W2) = LS!With(Seqs(h, W), l, SeqOf(h2, W2, l))
      /\ Carried(h, W, h2, W2, {l}, NULL)
  BY <1>3, <1>5, OneChanges
<1>10. SeqOf(h2, W2, l) = LS!InsertAt(s, p, v)
  <2>1. SeqOf(h2, W2, l) = [i \in 1 .. k + 1 |-> h2.value[w2[i]]]
    BY <1>3, <1>6 DEF SeqOf
  <2>2. LS!InsertAt(s, p, v) =
          [i \in 1 .. k + 1 |-> IF i < p THEN s[i] ELSE IF i = p THEN v ELSE s[i - 1]]
    <3> HIDE DEF s, k
    <3>1. s \in Seq(Values) /\ p \in 1 .. Len(s) + 1 /\ v \in Values
      BY <1>2, <1>8
    <3>2. LS!InsertAt(s, p, v) = Inserted(s, p, v)
      BY <3>1, InsertAtIs
    <3> QED
      BY <1>8, <3>2 DEF Inserted
  <2>3. ASSUME NEW i \in 1 .. k + 1
        PROVE  h2.value[w2[i]] = IF i < p THEN s[i] ELSE IF i = p THEN v ELSE s[i - 1]
    <3>1. \A j \in 1 .. k : w[j] \in Nodes /\ w[j] # n
      BY <1>4
    <3> HIDE DEF s, k, w
    <3>2. (i < p => i \in 1 .. k) /\ (i > p => i - 1 \in 1 .. k)
      BY <1>2
    <3>3. \A j \in 1 .. k : h2.value[w[j]] = s[j]
      BY <1>3, <1>8, <3>1
    <3>4. h2.value[n] = v
      BY <1>2, <1>3
    <3> QED
      BY <1>2, <1>7, <3>2, <3>3, <3>4
  <2> QED
    BY <2>1, <2>2, <2>3
<1>11. Carried(h, W, h2, W2, {}, NULL)
  <2> DEFINE r == [i \in 1 .. k |-> IF i < p THEN i ELSE i + 1]
  <2>1. Moves(h, W, h2, W2, l, l, r, NULL)
    <3>1. \A i \in 1 .. k : r[i] \in 1 .. k + 1 /\ w2[r[i]] = w[i]
      <4> HIDE DEF k, w
      <4>1. \A i \in 1 .. k : /\ i \in 1 .. k + 1 /\ i + 1 \in 1 .. k + 1
                              /\ (i + 1) - 1 = i /\ (~(i < p) => ~(i + 1 < p) /\ i + 1 # p)
        BY <1>2
      <4> QED
        BY <1>7, <4>1
    <3>2. \A i, j \in 1 .. k : i < j => r[i] < r[j]
      <4> HIDE DEF k, w
      <4> QED
        BY <1>2
    <3> HIDE DEF r
    <3> QED
      BY <1>3, <1>6, <3>1, <3>2 DEF Moves
  <2> QED
    BY <1>3, <1>9, <2>1 DEF Carried
<1>12. LS!Insert(Seqs(h, W), Seqs(h2, W2), l)
  <2>1. Seqs(h, W)[l] = s
    BY DEF Seqs
  <2> HIDE DEF s, k
  <2> QED
    BY <1>2, <1>8, <1>9, <1>10, <2>1 DEF LS!Insert
<1> QED
  BY <1>1, <1>11, <1>12, NullIsFree DEF Leaves, W2, w2

LEMMA DeletionLeaves ==
    ASSUME NEW h, NEW W, Linked(h, W), NEW l \in h.live, NEW h2, NEW p,
           Deletion(h, h2, l, W[l], p)
    PROVE  LET W2 == Put(W, h2, l, Cut(W[l], h.len[l], p))
           IN  /\ Leaves(h, W, h2, W2, {}, W[l][p])
               /\ LS!Delete(Seqs(h, W), Seqs(h2, W2), l)
<1> DEFINE k == h.len[l]
           w == W[l]
           w2 == Cut(w, k, p)
           W2 == Put(W, h2, l, w2)
           s == SeqOf(h, W, l)
           n == w[p]
<1>1. Linked(h2, W2)
  BY DeletionLinked
<1>2. k \in Nat /\ p \in 1 .. k /\ l \in Lists /\ IsHeap(h)
  <2>1. k \in Nat /\ l \in Lists
    BY LinkedList
  <2>2. p \in 1 .. k
    BY DEF Deletion
  <2>3. IsHeap(h)
    BY DEF Linked
  <2> QED
    BY <2>1, <2>2, <2>3
<1>3. /\ h2.live = h.live /\ h2.len[l] = k - 1
      /\ \A o \in h.live \ {l} : h2.len[o] = h.len[o]
      /\ \A m \in Nodes : h2.value[m] = IF m = n THEN NULL ELSE h.value[m]
  BY <1>2 DEF Deletion, IsHeap
<1>4. /\ \A o \in h.live : \A i \in 1 .. h.len[o] : W[o][i] \in Nodes
      /\ \A o \in h.live \ {l} : \A i \in 1 .. h.len[o] : W[o][i] # n
      /\ \A i \in 1 .. k : w[i] = n => i = p
  <2>1. \A o \in h.live : \A i \in 1 .. h.len[o] : W[o][i] \in Nodes
    BY LinkedNode
  <2>2. \A o \in h.live \ {l} : \A i \in 1 .. h.len[o] : W[o][i] # n
    BY <1>2 DEF Linked
  <2>3. \A i \in 1 .. k : w[i] = n => i = p
    BY <1>2, LinkedList
  <2> QED
    BY <2>1, <2>2, <2>3
<1>5. ASSUME NEW o \in h.live \ {l} PROVE SameList(h, W, h2, W2, o)
  BY <1>3, <1>4 DEF SameList, Put
<1>6. W2[l] = w2
  BY <1>3 DEF Put
<1>7. \A i \in 1 .. k - 1 : w2[i] = IF i < p THEN w[i] ELSE w[i + 1]
  BY DEF Cut
<1>8. s \in Seq(Values) /\ Len(s) = k /\ \A i \in 1 .. k : s[i] = h.value[w[i]]
  BY SeqOfValues
<1> HIDE DEF W2, w2
<1>9. /\ Seqs(h2, W2) = LS!With(Seqs(h, W), l, SeqOf(h2, W2, l))
      /\ Carried(h, W, h2, W2, {l}, n)
  BY <1>3, <1>5, OneChanges
<1>10. SeqOf(h2, W2, l) = LS!RemoveAt(s, p)
  <2>1. SeqOf(h2, W2, l) = [i \in 1 .. k - 1 |-> h2.value[w2[i]]]
    BY <1>3, <1>6 DEF SeqOf
  <2>2. LS!RemoveAt(s, p) = [i \in 1 .. k - 1 |-> IF i < p THEN s[i] ELSE s[i + 1]]
    <3> HIDE DEF s, k
    <3> QED
      BY <1>2, <1>8, RemoveAtIs
  <2>3. ASSUME NEW i \in 1 .. k - 1
        PROVE  h2.value[w2[i]] = IF i < p THEN s[i] ELSE s[i + 1]
    <3>1. \A j \in 1 .. k : w[j] \in Nodes
      BY <1>4
    <3> HIDE DEF s, k, w, n
    <3>2. /\ i < p => i \in 1 .. k /\ i # p
          /\ ~(i < p) => i + 1 \in 1 .. k /\ i + 1 # p
      BY <1>2
    <3>3. \A j \in 1 .. k : j # p => h2.value[w[j]] = s[j]
      BY <1>3, <1>4, <1>8, <3>1
    <3> QED
      BY <1>2, <1>7, <3>2, <3>3
  <2> QED
    BY <2>1, <2>2, <2>3
<1>11. Carried(h, W, h2, W2, {}, n)
  <2> DEFINE r == [i \in 1 .. k |-> IF i < p THEN i ELSE i - 1]
  <2>1. Moves(h, W, h2, W2, l, l, r, n)
    <3>1. \A i \in 1 .. k : w[i] # n => r[i] \in 1 .. k - 1 /\ w2[r[i]] = w[i]
      <4>1. \A i \in 1 .. k : w[i] # n => i # p
        OBVIOUS
      <4> HIDE DEF k, w, n
      <4>2. \A i \in 1 .. k : /\ i < p => i \in 1 .. k - 1
                              /\ i > p => i - 1 \in 1 .. k - 1 /\ ~(i - 1 < p) /\ (i - 1) + 1 = i
                              /\ i # p => i < p \/ i > p
                              /\ i > p => ~(i < p)
        BY <1>2
      <4> QED
        BY <1>7, <4>1, <4>2
    <3>2. \A i, j \in 1 .. k : w[i] # n /\ w[j] # n /\ i < j => r[i] < r[j]
      <4>1. \A i \in 1 .. k : w[i] # n => i # p
        OBVIOUS
      <4> HIDE DEF k, w, n
      <4> QED
        BY <1>2, <4>1
    <3> HIDE DEF r
    <3> QED
      BY <1>3, <1>6, <3>1, <3>2 DEF Moves
  <2> QED
    BY <1>3, <1>9, <2>1 DEF Carried
<1>12. LS!Delete(Seqs(h, W), Seqs(h2, W2), l)
  <2>1. Seqs(h, W)[l] = s
    BY DEF Seqs
  <2>2. p \in DOMAIN s
    BY <1>2, <1>8
  <2> HIDE DEF s, k
  <2> QED
    BY <1>9, <1>10, <2>1, <2>2 DEF LS!Delete
<1>13. n \notin Allocated(h2)
  BY <1>3 DEF Allocated
<1> QED
  BY <1>1, <1>11, <1>12, <1>13 DEF Leaves, W2, w2, n, w, k


LEMMA RotateLeaves ==
    ASSUME NEW h, NEW W, Linked(h, W), NEW l \in h.live, h.len[l] > 1
    PROVE  LET h2 == listRotate(h, l)
               W2 == Put(W, h2, l, Turn(W[l], h.len[l]))
           IN  /\ Leaves(h, W, h2, W2, {l}, NULL)
               /\ LS!Rotate(Seqs(h, W), Seqs(h2, W2), l)
<1> DEFINE k == h.len[l]
           w == W[l]
           h2 == listRotate(h, l)
           W2 == Put(W, h2, l, Turn(w, k))
           s == SeqOf(h, W, l)
<1>1. Linked(h2, W2) /\ h2.live = h.live /\ h2.len = h.len /\ h2.value = h.value
  BY RotateLinked
<1>2. k \in Nat /\ k > 0
  BY LinkedList
<1>3. s \in Seq(Values) /\ Len(s) = k /\ \A i \in 1 .. k : s[i] = h.value[w[i]]
  BY SeqOfValues
<1> HIDE DEF h2
<1>4. W2[l] = Turn(w, k) /\ \A o \in h.live \ {l} : SameList(h, W, h2, W2, o)
  BY <1>1 DEF Put, SameList
<1> HIDE DEF W2
<1>5. /\ Seqs(h2, W2) = LS!With(Seqs(h, W), l, SeqOf(h2, W2, l))
      /\ Carried(h, W, h2, W2, {l}, NULL)
  BY <1>1, <1>4, OneChanges
<1>6. SeqOf(h2, W2, l) = <<LS!Last(s)>> \o LS!Front(s)
  <2>1. SeqOf(h2, W2, l) = [i \in 1 .. k |-> h.value[Turn(w, k)[i]]]
    BY <1>1, <1>4 DEF SeqOf
  <2>2. <<LS!Last(s)>> \o LS!Front(s) = [i \in 1 .. k |-> IF i = 1 THEN s[k] ELSE s[i - 1]]
    <3> HIDE DEF s, k
    <3> QED
      <4>1. s \in Seq(Values) /\ Len(s) > 0
        BY <1>2, <1>3
      <4>2. <<LS!Last(s)>> \o LS!Front(s) = Turn(s, Len(s))
        BY <4>1, TurnIs
      <4> QED
        BY <1>3, <4>2 DEF Turn
  <2>3. ASSUME NEW i \in 1 .. k
        PROVE  h.value[Turn(w, k)[i]] = IF i = 1 THEN s[k] ELSE s[i - 1]
    <3>1. k \in 1 .. k /\ (i # 1 => i - 1 \in 1 .. k)
      BY <1>2
    <3> HIDE DEF s, k, w
    <3> QED
      BY <1>3, <3>1 DEF Turn
  <2> QED
    BY <2>1, <2>2, <2>3
<1>7. Seqs(h, W)[l] = s /\ s # << >>
  BY <1>2, <1>3 DEF Seqs
<1> QED
  BY <1>1, <1>5, <1>6, <1>7, NullIsFree DEF Leaves, LS!Rotate, h2, W2

LEMMA JoinLeaves ==
    ASSUME NEW h, NEW W, Linked(h, W), NEW l \in h.live, NEW o \in h.live, l # o
    PROVE  LET h2 == listJoin(h, l, o)
               W2 == PutBoth(W, h2, l, Glue(W[l], h.len[l], W[o], h.len[o]), o)
           IN  /\ Leaves(h, W, h2, W2, {}, NULL)
               /\ LS!Join(Seqs(h, W), Seqs(h2, W2), l, o)
<1> DEFINE h2 == listJoin(h, l, o)
           k == h.len[l]
           q == h.len[o]
           w == W[l]
           u == W[o]
           w2 == Glue(w, k, u, q)
           W2 == PutBoth(W, h2, l, w2, o)
           s == SeqOf(h, W, l)
           t == SeqOf(h, W, o)
<1>1. Joining(h, h2, l, o, w, u)
  BY JoinJoins
<1> HIDE DEF h2
<1>2. Linked(h2, W2)
  BY <1>1, JoiningLinked
<1>3. k \in Nat /\ q \in Nat
  <2>1. k \in Nat
    BY LinkedList
  <2>2. q \in Nat
    BY LinkedList
  <2> QED
    BY <2>1, <2>2
<1>4. /\ h2.live = h.live /\ h2.value = h.value /\ h2.len[l] = k + q /\ h2.len[o] = 0
      /\ \A x \in h.live \ {l, o} : h2.len[x] = h.len[x]
  BY <1>1 DEF Joining, MadeEmpty
<1>5. /\ W2[l] = w2 /\ W2[o] = NoNodes
      /\ \A x \in h.live \ {l, o} : W2[x] = W[x]
  BY <1>4 DEF PutBoth
<1>6. /\ s \in Seq(Values) /\ Len(s) = k /\ \A i \in 1 .. k : s[i] = h.value[w[i]]
      /\ t \in Seq(Values) /\ Len(t) = q /\ \A i \in 1 .. q : t[i] = h.value[u[i]]
  <2>1. s \in Seq(Values) /\ Len(s) = k /\ \A i \in 1 .. k : s[i] = h.value[w[i]]
    BY SeqOfValues
  <2>2. t \in Seq(Values) /\ Len(t) = q /\ \A i \in 1 .. q : t[i] = h.value[u[i]]
    BY SeqOfValues
  <2> QED
    BY <2>1, <2>2
<1>7. \A i \in 1 .. k + q : w2[i] = IF i <= k THEN w[i] ELSE u[i - k]
  BY DEF Glue
<1> HIDE DEF W2, w2
<1>8. SeqOf(h2, W2, l) = s \o t
  <2>1. SeqOf(h2, W2, l) = [i \in 1 .. k + q |-> h.value[w2[i]]]
    BY <1>4, <1>5 DEF SeqOf
  <2>2. s \o t = [i \in 1 .. k + q |-> IF i <= k THEN s[i] ELSE t[i - k]]
    <3> HIDE DEF s, t, k, q
    <3>1. s \o t = [i \in 1 .. Len(s) + Len(t) |-> IF i <= Len(s) THEN s[i] ELSE t[i - Len(s)]]
      BY <1>6, ConcatIs, ZenonT(30)
    <3> QED
      BY <1>6, <3>1
  <2>3. ASSUME NEW i \in 1 .. k + q
        PROVE  h.value[w2[i]] = IF i <= k THEN s[i] ELSE t[i - k]
    <3> HIDE DEF s, t, k, q, w, u
    <3>1. (i <= k => i \in 1 .. k) /\ (~(i <= k) => i - k \in 1 .. q)
      BY <1>3
    <3> QED
      BY <1>6, <1>7, <3>1
  <2> QED
    BY <2>1, <2>2, <2>3
<1>9. LS!Join(Seqs(h, W), Seqs(h2, W2), l, o)
  <2>1. /\ DOMAIN Seqs(h, W) = h.live /\ \A x \in h.live : Seqs(h, W)[x] = SeqOf(h, W, x)
    BY DEF Seqs
  <2>2. Seqs(h2, W2) = [x \in h.live |-> SeqOf(h2, W2, x)]
    BY <1>4 DEF Seqs
  <2>3. SeqOf(h2, W2, o) = << >>
    BY <1>4 DEF SeqOf
  <2>4. ASSUME NEW x \in h.live \ {l, o} PROVE SeqOf(h2, W2, x) = SeqOf(h, W, x)
    BY <1>4, <1>5 DEF SeqOf
  <2> DEFINE z == [Seqs(h, W) EXCEPT ![l] = Seqs(h, W)[l] \o Seqs(h, W)[o], ![o] = << >>]
  <2>5. z = [x \in h.live |-> IF x = o THEN << >> ELSE IF x = l THEN s \o t ELSE SeqOf(h, W, x)]
    <3> HIDE DEF s, t
    <3>1. Seqs(h, W)[l] = s /\ Seqs(h, W)[o] = t
      BY DEF Seqs, s, t
    <3>2. Seqs(h, W) = [x \in h.live |-> SeqOf(h, W, x)]
      BY DEF Seqs
    <3> QED
      BY <3>1, <3>2
  <2>6. ASSUME NEW x \in h.live
        PROVE  SeqOf(h2, W2, x) =
                 IF x = o THEN << >> ELSE IF x = l THEN s \o t ELSE SeqOf(h, W, x)
    BY <1>8, <2>3, <2>4
  <2>7. Seqs(h2, W2) = z
    <3> HIDE DEF z, s, t
    <3> QED
      BY <2>2, <2>5, <2>6
  <2> QED
    BY <2>7 DEF LS!Join
<1>10. Carried(h, W, h2, W2, {}, NULL)
  <2>1. ASSUME NEW x \in h.live \ {l, o} PROVE \E r : Moves(h, W, h2, W2, x, x, r, NULL)
    BY <1>4, <1>5, SameListMoves
  <2>2. \E r : Moves(h, W, h2, W2, l, l, r, NULL)
    <3> DEFINE r == [i \in 1 .. k |-> i]
    <3>1. \A i \in 1 .. k : r[i] \in 1 .. k + q /\ w2[r[i]] = w[i]
      <4> HIDE DEF k, q, w, u
      <4> QED
        BY <1>3, <1>7
    <3>2. \A i, j \in 1 .. k : i < j => r[i] < r[j]
      OBVIOUS
    <3> HIDE DEF r
    <3>3. Moves(h, W, h2, W2, l, l, r, NULL)
      BY <1>4, <1>5, <3>1, <3>2 DEF Moves
    <3> QED
      BY <3>3
  <2>3. \E r : Moves(h, W, h2, W2, o, l, r, NULL)
    <3> DEFINE r == [i \in 1 .. q |-> i + k]
    <3>1. \A i \in 1 .. q : r[i] \in 1 .. k + q /\ w2[r[i]] = u[i]
      <4> HIDE DEF k, q, w, u
      <4> QED
        BY <1>3, <1>7
    <3>2. \A i, j \in 1 .. q : i < j => r[i] < r[j]
      <4> HIDE DEF k, q
      <4> QED
        BY <1>3
    <3> HIDE DEF r
    <3>3. Moves(h, W, h2, W2, o, l, r, NULL)
      BY <1>4, <1>5, <3>1, <3>2 DEF Moves
    <3> QED
      BY <3>3
  <2> QED
    BY <1>4, <2>1, <2>2, <2>3 DEF Carried
<1> QED
  BY <1>2, <1>9, <1>10, NullIsFree DEF Leaves, h2, W2, w2


-----------------------------------------------------------------------------
(* Copying a list. *)

(* g is h with a list copy, on which are the values of the first i nodes of  *)
(* l; U are the sequences of g.                                              *)
CopyOf(h, W, l, copy, g, U, i) ==
    /\ Linked(g, U) /\ g.live = h.live \cup {copy} /\ g.len[copy] = i
    /\ \A o \in h.live : SameList(h, W, g, U, o)
    /\ \A j \in 1 .. i : g.value[U[copy][j]] = h.value[W[l][j]]
    /\ Cardinality(FreeNodes(g)) = Cardinality(FreeNodes(h)) - i

Copied(h, W, l, copy, g, i) == \E U : CopyOf(h, W, l, copy, g, U, i)

LEMMA CopyStarts ==
    ASSUME NEW h, NEW W, Linked(h, W), NEW l \in h.live, NEW copy \in Lists \ h.live
    PROVE  Copied(h, W, l, copy, listCreate(h, copy), 0)
<1> DEFINE g == listCreate(h, copy)
           U == Put(W, g, copy, NoNodes)
<1>1. Creation(h, g, copy)
  BY CreateCreates
<1> HIDE DEF g
<1>2. Linked(g, U)
  BY <1>1, CreationLinked
<1>3. g.live = h.live \cup {copy} /\ g.len[copy] = 0 /\ g.value = h.value
  BY <1>1 DEF Creation, MadeEmpty
<1>4. ASSUME NEW o \in h.live PROVE SameList(h, W, g, U, o)
  BY <1>1, <1>3 DEF Creation, OthersStay, SameList, Put
<1>5. FreeNodes(g) = FreeNodes(h)
  BY <1>3 DEF FreeNodes, Allocated
<1>6. Cardinality(FreeNodes(h)) \in Nat
  <2>1. IsFiniteSet(FreeNodes(h))
    BY ListAssumption, FS_Subset DEF FreeNodes
  <2> QED
    BY <2>1, FS_CardinalityType
<1> HIDE DEF U
<1>7. Cardinality(FreeNodes(g)) = Cardinality(FreeNodes(h)) - 0
  BY <1>5, <1>6
<1>8. CopyOf(h, W, l, copy, g, U, 0)
  BY <1>2, <1>3, <1>4, <1>7 DEF CopyOf
<1> QED
  BY <1>8 DEF Copied, g

LEMMA CopyGrows ==
    ASSUME NEW h, NEW W, Linked(h, W), NEW l \in h.live, NEW copy \in Lists \ h.live,
           h.len[l] <= Cardinality(FreeNodes(h)),
           NEW i \in 1 .. h.len[l], NEW g, Copied(h, W, l, copy, g, i - 1)
    PROVE  Copied(h, W, l, copy, listAddNodeTail(g, copy, h.value[W[l][i]]), i)
<1>1. PICK U : CopyOf(h, W, l, copy, g, U, i - 1)
  BY DEF Copied
<1> DEFINE v == h.value[W[l][i]]
           g2 == listAddNodeTail(g, copy, v)
           n == Fresh(g)
           U2 == Put(U, g2, copy, Splice(U[copy], g.len[copy], i, n))
           F == FreeNodes(g)
<1>2. h.len[l] \in Nat /\ v \in Values
  <2>1. W[l][i] \in Nodes /\ h.value[W[l][i]] # NULL /\ h.len[l] \in Nat
    BY LinkedList, LinkedNode
  <2> QED
    BY <2>1 DEF Linked, IsHeap
<1>3. /\ Linked(g, U) /\ copy \in g.live /\ g.live = h.live \cup {copy} /\ g.len[copy] = i - 1
      /\ \A o \in h.live : SameList(h, W, g, U, o)
      /\ \A j \in 1 .. i - 1 : g.value[U[copy][j]] = h.value[W[l][j]]
      /\ Cardinality(F) = Cardinality(FreeNodes(h)) - (i - 1)
  BY <1>1 DEF CopyOf
<1>4. IsFiniteSet(F) /\ IsFiniteSet(FreeNodes(h)) /\ Cardinality(FreeNodes(h)) \in Nat
  <2>1. IsFiniteSet(F) /\ IsFiniteSet(FreeNodes(h))
    BY ListAssumption, FS_Subset DEF FreeNodes
  <2> QED
    BY <2>1, FS_CardinalityType
<1>5. F # {}
  <2>1. Cardinality(F) # 0
    BY <1>2, <1>3, <1>4
  <2> QED
    BY <2>1, FS_EmptySet
<1>6. n \in F /\ Insertion(g, g2, copy, U[copy], i, n, v)
  <2>1. Insertion(g, g2, copy, U[copy], g.len[copy] + 1, n, v)
    BY <1>2, <1>3, <1>5, AddTailInserts
  <2>2. g.len[copy] + 1 = i
    BY <1>2, <1>3
  <2> QED
    BY <1>5, <2>1, <2>2, FreshFree
<1> HIDE DEF g2
<1>7. Linked(g2, U2)
  BY <1>3, <1>6, InsertionLinked
<1> HIDE DEF F, n
<1>8. /\ g2.live = g.live /\ g2.value = [g.value EXCEPT ![n] = v]
      /\ g2.len = [g.len EXCEPT ![copy] = @ + 1] /\ IsHeap(g) /\ n \in Nodes /\ copy \in Lists
      /\ g.value[n] = NULL /\ v # NULL /\ n \in F
  BY <1>2, <1>3, <1>6, ListAssumption DEF Insertion, Linked, FreeNodes, Allocated, F
<1>9. /\ g2.len[copy] = i /\ \A o \in h.live : g2.len[o] = g.len[o]
      /\ \A m \in Nodes : g2.value[m] = IF m = n THEN v ELSE g.value[m]
  BY <1>2, <1>3, <1>8 DEF IsHeap
<1>10. /\ U2[copy] = Splice(U[copy], i - 1, i, n)
       /\ \A o \in h.live : U2[o] = U[o] /\ o \in g2.live
  BY <1>3, <1>8 DEF Put
<1>11. \A j \in 1 .. i : U2[copy][j] = IF j < i THEN U[copy][j] ELSE n
  BY <1>2, <1>10 DEF Splice
<1>12. \A o \in g.live : \A j \in 1 .. g.len[o] : U[o][j] \in Nodes /\ U[o][j] # n
  BY <1>3, <1>8, LinkedNode
<1> HIDE DEF U2
<1>13. ASSUME NEW o \in h.live PROVE SameList(h, W, g2, U2, o)
  <2>1. SameList(h, W, g, U, o) /\ o \in g.live
    BY <1>3
  <2> QED
    BY <1>9, <1>10, <1>12, <2>1 DEF SameList
<1>14. ASSUME NEW j \in 1 .. i PROVE g2.value[U2[copy][j]] = h.value[W[l][j]]
  <2>1. CASE j < i
    <3>1. j \in 1 .. i - 1 /\ j \in 1 .. g.len[copy]
      BY <1>2, <1>3, <2>1
    <3> QED
      BY <1>3, <1>9, <1>11, <1>12, <2>1, <3>1
  <2>2. CASE ~(j < i)
    <3>1. j = i
      BY <1>2, <2>2
    <3> QED
      BY <1>8, <1>9, <1>11, <3>1
  <2> QED
    BY <2>1, <2>2
<1>15. Cardinality(FreeNodes(g2)) = Cardinality(FreeNodes(h)) - i
  <2>1. FreeNodes(g2) = F \ {n}
    BY <1>8, <1>9 DEF F, FreeNodes, Allocated
  <2>2. Cardinality(F \ {n}) = Cardinality(F) - 1
    BY <1>4, <1>8, FS_RemoveElement
  <2> QED
    BY <1>2, <1>3, <1>4, <2>1, <2>2
<1>16. CopyOf(h, W, l, copy, g2, U2, i)
  BY <1>3, <1>7, <1>8, <1>9, <1>13, <1>14, <1>15 DEF CopyOf
<1> QED
  BY <1>16 DEF Copied, g2, v


(* The i-th step of the copying of l, and k steps in a row. *)
CopyOne(h, W, l, copy, g, i) == listAddNodeTail(g, copy, h.value[W[l][i]])

CopySteps(h, W, l, copy, f, k) ==
    /\ f[0] = listCreate(h, copy)
    /\ \A i \in 1 .. k : Copied(h, W, l, copy, f[i - 1], i - 1) =>
         f[i] = CopyOne(h, W, l, copy, f[i - 1], i)

LEMMA StepsCopy ==
    ASSUME NEW h, NEW W, Linked(h, W), NEW l \in h.live, NEW copy \in Lists \ h.live,
           h.len[l] <= Cardinality(FreeNodes(h)), NEW k \in 0 .. h.len[l],
           NEW f, CopySteps(h, W, l, copy, f, k)
    PROVE  \A i \in 0 .. k : Copied(h, W, l, copy, f[i], i)
<1> DEFINE Bad == {i \in 0 .. k : ~ Copied(h, W, l, copy, f[i], i)}
<1> SUFFICES ASSUME Bad # {} PROVE FALSE
  OBVIOUS
<1>1. h.len[l] \in Nat
  BY LinkedList
<1>2. PICK i \in Bad : \A j \in Bad : i <= j
  <2>1. Bad \in SUBSET Nat
    BY <1>1
  <2> HIDE DEF Bad
  <2> QED
    BY <2>1, Least
<1>3. i # 0
  BY <1>2, CopyStarts DEF CopySteps
<1>4. i \in 1 .. k /\ i \in 1 .. h.len[l] /\ i - 1 \in 0 .. k /\ ~(i <= i - 1)
  <2>1. i \in 0 .. k
    BY <1>2
  <2> HIDE DEF Bad
  <2> QED
    BY <1>1, <1>3, <2>1
<1>5. i - 1 \notin Bad
  <2> HIDE DEF Bad
  <2> QED
    BY <1>2, <1>4
<1>6. Copied(h, W, l, copy, f[i - 1], i - 1)
  BY <1>4, <1>5
<1>7. f[i] = listAddNodeTail(f[i - 1], copy, h.value[W[l][i]])
  BY <1>4, <1>6 DEF CopySteps, CopyOne
<1>8. Copied(h, W, l, copy, f[i], i)
  BY <1>4, <1>6, <1>7, CopyGrows
<1> QED
  BY <1>2, <1>8

LEMMA CopyNodesCopies ==
    ASSUME NEW h, NEW W, Linked(h, W), NEW l \in h.live, NEW copy \in Lists \ h.live,
           h.len[l] <= Cardinality(FreeNodes(h)), NEW k \in 0 .. h.len[l]
    PROVE  Copied(h, W, l, copy, CopyNodes(h, l, copy, k), k)
<1> DEFINE S == [live : SUBSET Lists,
                 head : [Lists -> Nodes \cup {NULL}], tail : [Lists -> Nodes \cup {NULL}],
                 len : [Lists -> Nat], next : Links, prev : Links,
                 value : [Nodes -> Values \cup {NULL}]]
           base == listCreate(h, copy)
           next == [i \in 1 .. k |-> [g \in S |->
                      IF Copied(h, W, l, copy, g, i - 1)
                      THEN CopyOne(h, W, l, copy, g, i) ELSE g]]
           Eq(f) == f = [i \in 0 .. k |-> IF i = 0 THEN base
                                          ELSE CopyOne(h, W, l, copy, f[i - 1], i)]
           copied == CHOOSE f : Eq(f)
<1>1. h.len[l] \in Nat /\ k \in Nat
  <2>1. h.len[l] \in Nat
    BY LinkedList
  <2> QED
    BY <2>1
<1>2. \A g, i : Copied(h, W, l, copy, g, i) => g \in S
  BY DEF Copied, CopyOf, Linked, IsHeap
<1>3. base \in S
  BY <1>2, CopyStarts
<1>4. ASSUME NEW i \in 1 .. k, NEW g \in S PROVE next[i][g] \in S
  <2>1. CASE Copied(h, W, l, copy, g, i - 1)
    <3>1. i \in 1 .. h.len[l]
      BY <1>1
    <3>2. Copied(h, W, l, copy, CopyOne(h, W, l, copy, g, i), i)
      BY <2>1, <3>1, CopyGrows DEF CopyOne
    <3> HIDE DEF S
    <3> QED
      BY <1>2, <2>1, <3>2
  <2>2. CASE ~Copied(h, W, l, copy, g, i - 1)
    <3> HIDE DEF S
    <3> QED
      BY <2>2
  <2> QED
    BY <2>1, <2>2
<1>5. PICK f : Follows(f, S, base, k, next)
  <2> HIDE DEF S, base, next
  <2>1. Closed(S, base, k, next)
    BY <1>1, <1>3, <1>4 DEF Closed
  <2> QED
    BY <2>1, StepByStep
<1>6. /\ f \in [0 .. k -> S] /\ f[0] = base
      /\ \A i \in 1 .. k : f[i] = next[i][f[i - 1]]
  BY <1>5 DEF Follows
<1>7. ASSUME NEW i \in 1 .. k, Copied(h, W, l, copy, f[i - 1], i - 1)
      PROVE  f[i] = CopyOne(h, W, l, copy, f[i - 1], i)
  <2>1. f[i - 1] \in S /\ f[i] = next[i][f[i - 1]]
    BY <1>2, <1>6, <1>7
  <2> HIDE DEF S
  <2> QED
    BY <1>7, <2>1
<1> HIDE DEF S, next
<1>8. CopySteps(h, W, l, copy, f, k)
  BY <1>6, <1>7 DEF CopySteps
<1>9. \A i \in 0 .. k : Copied(h, W, l, copy, f[i], i)
  BY <1>8, StepsCopy
<1>10. Eq(f)
  <2>1. \A i \in 1 .. k : f[i] = CopyOne(h, W, l, copy, f[i - 1], i)
    <3> SUFFICES ASSUME NEW i \in 1 .. k
                 PROVE  f[i] = CopyOne(h, W, l, copy, f[i - 1], i)
      OBVIOUS
    <3>1. i - 1 \in 0 .. k
      BY <1>1
    <3> QED
      BY <1>7, <1>9, <3>1
  <2>2. \A i \in 0 .. k : i = 0 \/ i \in 1 .. k
    BY <1>1
  <2> HIDE DEF base
  <2> QED
    BY <1>6, <2>1, <2>2
<1>11. Eq(copied)
  <2> HIDE DEF Eq
  <2> QED
    BY <1>10
<1>12. copied[0] = base /\ \A i \in 1 .. k : copied[i] = CopyOne(h, W, l, copy, copied[i - 1], i)
  <2>1. 0 \in 0 .. k /\ \A i \in 1 .. k : i \in 0 .. k /\ i # 0
    BY <1>1
  <2> HIDE DEF copied, base
  <2> QED
    BY <1>11, <2>1
<1>13. CopyNodes(h, l, copy, k) = copied[k]
  <2>1. Forward(h, l) = W[l]
    BY Canonical
  <2> QED
    BY <2>1 DEF CopyNodes, CopyOne
<1> HIDE DEF copied
<1>14. CopySteps(h, W, l, copy, copied, k)
  BY <1>12 DEF CopySteps
<1>15. k \in 0 .. k
  BY <1>1
<1> QED
  BY <1>13, <1>14, <1>15, StepsCopy


LEMMA DupLeaves ==
    ASSUME NEW h, NEW W, Linked(h, W), NEW l \in h.live, NEW copy \in Lists \ h.live,
           h.len[l] <= Cardinality(FreeNodes(h))
    PROVE  \E W2 : /\ Leaves(h, W, listDup(h, l, copy), W2, {}, NULL)
                   /\ LS!Dup(Seqs(h, W), Seqs(listDup(h, l, copy), W2), l, copy)
<1> DEFINE k == h.len[l]
           h2 == listDup(h, l, copy)
<1>1. k \in Nat /\ W[l] \in [1 .. k -> Nodes]
  BY LinkedList
<1>2. h2 = CopyNodes(h, l, copy, k)
  <2>1. Forward(h, l) = W[l]
    BY Canonical
  <2>2. Len(W[l]) = k
    BY <1>1
  <2> QED
    BY <2>1, <2>2 DEF listDup
<1> HIDE DEF h2
<1>3. PICK U : CopyOf(h, W, l, copy, h2, U, k)
  <2>1. Copied(h, W, l, copy, CopyNodes(h, l, copy, k), k)
    BY <1>1, CopyNodesCopies
  <2> QED
    BY <1>2, <2>1 DEF Copied
<1>4. /\ Linked(h2, U) /\ h2.live = h.live \cup {copy} /\ h2.len[copy] = k
      /\ \A o \in h.live : SameList(h, W, h2, U, o)
      /\ \A j \in 1 .. k : h2.value[U[copy][j]] = h.value[W[l][j]]
  BY <1>3 DEF CopyOf
<1>5. /\ Seqs(h2, U) = LS!With(Seqs(h, W), copy, SeqOf(h2, U, copy))
      /\ Carried(h, W, h2, U, {copy}, NULL)
  BY <1>4, OneChanges
<1>6. SeqOf(h2, U, copy) = SeqOf(h, W, l)
  BY <1>4 DEF SeqOf
<1>7. Carried(h, W, h2, U, {}, NULL)
  BY <1>5 DEF Carried
<1>8. Seqs(h, W)[l] = SeqOf(h, W, l) /\ DOMAIN Seqs(h, W) = h.live
  BY DEF Seqs
<1>9. Leaves(h, W, h2, U, {}, NULL) /\ LS!Dup(Seqs(h, W), Seqs(h2, U), l, copy)
  BY <1>4, <1>5, <1>6, <1>7, <1>8, NullIsFree DEF Leaves, LS!Dup
<1> QED
  BY <1>9 DEF h2

(* A copy that fails leaves no trace. *)
LEMMA DupFailsLeaves ==
    ASSUME NEW h, NEW W, Linked(h, W), NEW l \in h.live, NEW copy \in Lists \ h.live,
           h.len[l] <= Cardinality(FreeNodes(h)), NEW k \in 1 .. h.len[l]
    PROVE  \E W2 : /\ Leaves(h, W, listDupFails(h, l, copy, k), W2, {}, NULL)
                   /\ Seqs(listDupFails(h, l, copy, k), W2) = Seqs(h, W)
<1> DEFINE g == CopyNodes(h, l, copy, k - 1)
           h2 == listDupFails(h, l, copy, k)
<1>1. h.len[l] \in Nat
  BY LinkedList
<1>2. PICK U : CopyOf(h, W, l, copy, g, U, k - 1)
  <2>1. k - 1 \in 0 .. h.len[l]
    BY <1>1
  <2>2. Copied(h, W, l, copy, g, k - 1)
    BY <2>1, CopyNodesCopies
  <2> QED
    BY <2>2 DEF Copied
<1>3. h2 = listRelease(g, copy)
  BY DEF listDupFails
<1> HIDE DEF g, h2
<1>4. /\ Linked(g, U) /\ g.live = h.live \cup {copy} /\ copy \in g.live
      /\ \A o \in h.live : SameList(h, W, g, U, o)
  BY <1>2 DEF CopyOf
<1> DEFINE W2 == Put(U, h2, copy, NoNodes)
<1>5. Emptying(g, h2, copy, U[copy]) /\ h2.live = h.live
  <2>1. Emptying(g, h2, copy, U[copy]) /\ h2.live = g.live \ {copy}
    BY <1>3, <1>4, EmptyEmpties
  <2> QED
    BY <1>4, <2>1
<1>6. Linked(h2, W2)
  BY <1>4, <1>5, EmptyingLinked
<1>7. ASSUME NEW o \in h.live PROVE SameList(h, W, h2, W2, o)
  <2>1. SameList(h, W, g, U, o) /\ o \in g.live \ {copy}
    BY <1>4
  <2>2. SameList(g, U, h2, W2, o)
    BY <1>4, <1>5, <2>1, EmptyingSame
  <2> HIDE DEF W2
  <2> QED
    BY <2>1, <2>2 DEF SameList
<1> HIDE DEF W2
<1>8. Seqs(h2, W2) = Seqs(h, W)
  <2>1. \A o \in h.live : SeqOf(h2, W2, o) = SeqOf(h, W, o)
    BY <1>7 DEF SameList, SeqOf
  <2> QED
    BY <1>5, <2>1 DEF Seqs
<1>9. Carried(h, W, h2, W2, {}, NULL)
  <2>1. ASSUME NEW o \in h.live
        PROVE  o \in h2.live /\ \E r : Moves(h, W, h2, W2, o, o, r, NULL)
    BY <1>7, SameListMoves DEF SameList
  <2> QED
    BY <2>1 DEF Carried
<1> QED
  BY <1>6, <1>8, <1>9, NullIsFree DEF Leaves, h2


-----------------------------------------------------------------------------
(* The steps of the callers keep the invariant and are steps of ListSeq. *)

SeqNext(s, t) ==
    \/ \E l \in Lists : LS!Create(s, t, l)
    \/ \E l \in DOMAIN s :
         LS!Release(s, t, l) \/ LS!Empty(s, t, l) \/ LS!Delete(s, t, l) \/ LS!Rotate(s, t, l)
    \/ \E l \in DOMAIN s : LS!Insert(s, t, l)
    \/ \E l, o \in DOMAIN s : LS!Join(s, t, l, o)
    \/ \E l \in DOMAIN s, copy \in Lists : LS!Dup(s, t, l, copy)

(* A step that keeps the invariant and changes the sequences as it may. *)
GoodStep ==
    /\ ListInv'
    /\ \/ Seqs(heap, Walks(heap))' = Seqs(heap, Walks(heap))
       \/ SeqNext(Seqs(heap, Walks(heap)), Seqs(heap, Walks(heap))')

LEMMA IterAsRead ==
    ASSUME NEW h, NEW W, NEW W2, \A l \in h.live : W2[l] = W[l],
           NEW it, NEW ow, NEW gi, IterOK(h, W, it, ow, gi)
    PROVE  IterOK(h, W2, it, ow, gi)
BY DEF IterOK, At

LEMMA ForgetNull ==
    ASSUME NEW h, NEW W, NEW it, NEW ow, NEW gi, IterOK(h, W, it, ow, gi)
    PROVE  Forget(it, NULL) = it
<1>1. CASE it = NoIter
  BY <1>1 DEF NoIter, Forget
<1>2. CASE it \in Iterators
  BY <1>2 DEF Iterators, Forget
<1> QED
  BY <1>1, <1>2 DEF IterOK

(* No node of a list of T comes next. *)
Spared(T) ==
    iter.on => \A l \in heap.live \cap T :
                  \A i \in 1 .. heap.len[l] : Walks(heap)[l][i] # iter.next

LEMMA StepKeeps ==
    ASSUME ListInv, NEW h2, NEW W2, NEW T, NEW gone,
           Leaves(heap, Walks(heap), h2, W2, T, gone),
           Settle(h2), iter' = Forget(iter, gone), Spared(T),
           iter.on => iter.next # gone \/ gone = NULL
    PROVE  ListInv' /\ Seqs(heap, Walks(heap))' = Seqs(h2, W2)
<1> DEFINE W == Walks(heap)
<1>1. /\ heap' = h2 /\ owed' = owed \cap Allocated(h2) /\ given' = given \cap Allocated(h2)
  BY DEF Settle
<1>2. Linked(heap, W) /\ IterOK(heap, W, iter, owed, given)
      /\ owed \subseteq Nodes /\ given \subseteq Nodes
  BY DEF ListInv
<1>3. Linked(h2, W2) /\ Carried(heap, W, h2, W2, T, gone) /\ gone \notin Allocated(h2)
  BY DEF Leaves
<1>4. iter.on => \A l \in heap.live \cap T : \A i \in 1 .. heap.len[l] : W[l][i] # iter.next
  BY DEF Spared
<1> HIDE DEF W
<1>5. IterOK(h2, W2, Forget(iter, gone), owed \cap Allocated(h2), given \cap Allocated(h2))
  BY <1>2, <1>3, <1>4, IterCarried
<1>6. Linked(h2, Walks(h2)) /\ \A l \in h2.live : Walks(h2)[l] = W2[l]
  BY <1>3, Canonical
<1>7. IterOK(h2, Walks(h2), iter', owed', given')
  <2>1. IterOK(h2, Walks(h2), Forget(iter, gone), owed \cap Allocated(h2),
               given \cap Allocated(h2))
    BY <1>5, <1>6, IterAsRead
  <2> QED
    BY <1>1, <2>1
<1>8. ListInv'
  BY <1>1, <1>2, <1>6, <1>7 DEF ListInv
<1>9. Seqs(h2, Walks(h2)) = Seqs(h2, W2)
  BY <1>6 DEF Seqs, SeqOf
<1> QED
  BY <1>1, <1>8, <1>9

(* The same for an operation that frees no node of an iteration's list.      *)
LEMMA EditKeeps ==
    ASSUME ListInv, NEW h2, NEW W2, NEW T,
           Leaves(heap, Walks(heap), h2, W2, T, NULL), Edit(h2), Spared(T)
    PROVE  ListInv' /\ Seqs(heap, Walks(heap))' = Seqs(h2, W2)
<1>1. Settle(h2) /\ iter' = iter
  BY DEF Edit
<1>2. Forget(iter, NULL) = iter
  BY ForgetNull DEF ListInv
<1> QED
  BY <1>1, <1>2, StepKeeps

LEMMA ListNodes ==
    ASSUME ListInv, NEW l \in heap.live
    PROVE  /\ NodesOf(l) = {Walks(heap)[l][i] : i \in 1 .. heap.len[l]}
           /\ ~Busy(l) => Spared({l})
<1> DEFINE w == Walks(heap)[l]
<1>1. Linked(heap, Walks(heap))
  BY DEF ListInv
<1>2. Forward(heap, l) = w /\ DOMAIN w = 1 .. heap.len[l]
  BY <1>1, Canonical, LinkedList
<1>3. NodesOf(l) = {w[i] : i \in 1 .. heap.len[l]}
  BY <1>2 DEF NodesOf
<1>4. ASSUME ~Busy(l), iter.on, NEW i \in 1 .. heap.len[l] PROVE w[i] # iter.next
  BY <1>3, <1>4 DEF Busy, Iterating
<1> QED
  BY <1>3, <1>4 DEF Spared


LEMMA CreateKeeps ==
    ASSUME ListInv, NEW l \in Lists, Create(l)
    PROVE  GoodStep
<1> DEFINE W == Walks(heap)
           h2 == listCreate(heap, l)
           W2 == Put(W, h2, l, NoNodes)
<1>1. Linked(heap, W) /\ l \in Lists \ heap.live /\ Edit(h2)
  BY DEF ListInv, Create
<1> HIDE DEF W
<1>2. Leaves(heap, W, h2, W2, {}, NULL) /\ LS!Create(Seqs(heap, W), Seqs(h2, W2), l)
  BY <1>1, CreationLeaves
<1>3. Spared({})
  BY DEF Spared
<1> HIDE DEF h2, W2
<1>4. ListInv' /\ Seqs(heap, Walks(heap))' = Seqs(h2, W2)
  BY <1>1, <1>2, <1>3, EditKeeps DEF W
<1> QED
  BY <1>2, <1>4 DEF GoodStep, SeqNext, W

LEMMA SeqsDomain ==
    ASSUME NEW h, NEW W PROVE DOMAIN Seqs(h, W) = h.live
BY DEF Seqs

LEMMA ClearKeeps ==
    ASSUME ListInv, NEW l \in heap.live, Clear(l)
    PROVE  GoodStep
<1> DEFINE W == Walks(heap)
<1>1. Linked(heap, W) /\ Spared({l})
  BY ListNodes DEF ListInv, Clear
<1> HIDE DEF W
<1>2. CASE Edit(listEmpty(heap, l))
  <2> DEFINE h2 == listEmpty(heap, l)
             W2 == Put(W, h2, l, NoNodes)
  <2>1. Leaves(heap, W, h2, W2, {l}, NULL) /\ LS!Empty(Seqs(heap, W), Seqs(h2, W2), l)
    BY <1>1, EmptyingLeaves
  <2>2. Edit(h2)
    BY <1>2
  <2> HIDE DEF h2, W2
  <2>3. ListInv' /\ Seqs(heap, Walks(heap))' = Seqs(h2, W2)
    BY <1>1, <2>1, <2>2, EditKeeps DEF W
  <2> QED
    BY <2>1, <2>3, SeqsDomain DEF GoodStep, SeqNext, W
<1>3. CASE Edit(listRelease(heap, l))
  <2> DEFINE h2 == listRelease(heap, l)
             W2 == Put(W, h2, l, NoNodes)
  <2>1. Leaves(heap, W, h2, W2, {l}, NULL) /\ LS!Release(Seqs(heap, W), Seqs(h2, W2), l)
    BY <1>1, EmptyingLeaves
  <2>2. Edit(h2)
    BY <1>3
  <2> HIDE DEF h2, W2
  <2>3. ListInv' /\ Seqs(heap, Walks(heap))' = Seqs(h2, W2)
    BY <1>1, <2>1, <2>2, EditKeeps DEF W
  <2> QED
    BY <2>1, <2>3, SeqsDomain DEF GoodStep, SeqNext, W
<1> QED
  BY <1>2, <1>3 DEF Clear

(* Every insertion is one, wherever the node goes. *)
LEMMA InsertionKeeps ==
    ASSUME ListInv, NEW l \in heap.live, NEW h2, NEW p, NEW n, NEW v,
           Insertion(heap, h2, l, Walks(heap)[l], p, n, v), Edit(h2)
    PROVE  GoodStep
<1> DEFINE W == Walks(heap)
           W2 == Put(W, h2, l, Splice(W[l], heap.len[l], p, n))
<1>1. Linked(heap, W) /\ Insertion(heap, h2, l, W[l], p, n, v)
  BY DEF ListInv
<1> HIDE DEF W
<1>2. Leaves(heap, W, h2, W2, {}, NULL) /\ LS!Insert(Seqs(heap, W), Seqs(h2, W2), l)
  BY <1>1, InsertionLeaves
<1>3. Spared({})
  BY DEF Spared
<1> HIDE DEF W2
<1>4. ListInv' /\ Seqs(heap, Walks(heap))' = Seqs(h2, W2)
  BY <1>2, <1>3, EditKeeps DEF W
<1> QED
  BY <1>2, <1>4, SeqsDomain DEF GoodStep, SeqNext, W

LEMMA AddKeeps ==
    ASSUME ListInv, NEW l \in heap.live, NEW v \in Values, Add(l, v)
    PROVE  GoodStep
<1> DEFINE W == Walks(heap)
<1>1. Linked(heap, W) /\ FreeNodes(heap) # {}
  BY DEF ListInv, Add, Room
<1>2. CASE Edit(listAddNodeHead(heap, l, v))
  <2>1. Insertion(heap, listAddNodeHead(heap, l, v), l, W[l], 1, Fresh(heap), v)
    BY <1>1, AddHeadInserts
  <2> QED
    BY <1>2, <2>1, InsertionKeeps
<1>3. CASE Edit(listAddNodeTail(heap, l, v))
  <2>1. Insertion(heap, listAddNodeTail(heap, l, v), l, W[l], heap.len[l] + 1, Fresh(heap), v)
    BY <1>1, AddTailInserts
  <2> QED
    BY <1>3, <2>1, InsertionKeeps
<1> QED
  BY <1>2, <1>3 DEF Add

LEMMA InsertKeeps ==
    ASSUME ListInv, NEW l \in heap.live, NEW n \in Nodes, NEW v \in Values,
           NEW after \in BOOLEAN, Insert(l, n, v, after)
    PROVE  GoodStep
<1> DEFINE W == Walks(heap)
<1>1. Linked(heap, W) /\ FreeNodes(heap) # {} /\ Edit(listInsertNode(heap, l, n, v, after))
  BY DEF ListInv, Insert, Room
<1>2. PICK i \in 1 .. heap.len[l] : n = W[l][i]
  BY ListNodes DEF Insert
<1>3. Insertion(heap, listInsertNode(heap, l, n, v, after), l, W[l],
                IF after THEN i + 1 ELSE i, Fresh(heap), v)
  <2> HIDE DEF W
  <2> QED
    BY <1>1, <1>2, InsertNodeInserts
<1> QED
  BY <1>1, <1>3, InsertionKeeps

(* The node returned last is behind, so it is not the next one. *)
LEMMA LastIsNotNext ==
    ASSUME ListInv, iter.on, NEW n \in Nodes, n = iter.last
    PROVE  n # iter.next
<1> DEFINE W == Walks(heap)
<1>1. Linked(heap, W) /\ IterOK(heap, W, iter, owed, given) /\ n # NULL
  BY ListAssumption DEF ListInv
<1> HIDE DEF W
<1>2. CASE iter.next = NULL
  BY <1>1, <1>2
<1>3. CASE iter.next # NULL
  <2>1. PICK l \in heap.live : \E p \in 1 .. heap.len[l] : At(heap, W, iter, owed, given, l, p)
    BY <1>1, <1>3 DEF IterOK, NoIter
  <2>2. PICK p \in 1 .. heap.len[l] : At(heap, W, iter, owed, given, l, p)
    BY <2>1
  <2>3. W[l][p] = iter.next /\ n \in given
    BY <1>1, <2>2 DEF At
  <2>4. PICK i \in (1 .. heap.len[l]) \ Ahead(iter.dir, p, heap.len[l]) : W[l][i] = n
    BY <2>2, <2>3 DEF At
  <2>5. i # p
    <3>1. heap.len[l] \in Nat
      BY <1>1, LinkedList
    <3> QED
      BY <2>4, <3>1 DEF Ahead
  <2> QED
    BY <1>1, <2>3, <2>4, <2>5, LinkedList
<1> QED
  BY <1>2, <1>3


LEMMA DelKeeps ==
    ASSUME ListInv, NEW l \in heap.live, NEW n \in Nodes, Del(l, n)
    PROVE  GoodStep
<1> DEFINE W == Walks(heap)
           h2 == listDelNode(heap, l, n)
<1>1. PICK p \in 1 .. heap.len[l] : n = W[l][p]
  BY ListNodes DEF Del
<1> DEFINE W2 == Put(W, h2, l, Cut(W[l], heap.len[l], p))
<1>2. Linked(heap, W) /\ Settle(h2)
  BY DEF ListInv, Del
<1>3. iter.on => iter.next # n
  <2>1. CASE Busy(l)
    BY <2>1, LastIsNotNext DEF Del
  <2>2. CASE ~Busy(l)
    BY <1>1, <2>2, ListNodes DEF Spared
  <2> QED
    BY <2>1, <2>2
<1>4. iter' = Forget(iter, n)
  BY DEF Del, Iterating, Forget
<1> HIDE DEF W, h2
<1>5. Deletion(heap, h2, l, W[l], p)
  BY <1>1, <1>2, DelNodeDeletes DEF h2
<1>6. Leaves(heap, W, h2, W2, {}, n) /\ LS!Delete(Seqs(heap, W), Seqs(h2, W2), l)
  BY <1>1, <1>2, <1>5, DeletionLeaves
<1>7. Spared({})
  BY DEF Spared
<1> HIDE DEF W2
<1>8. ListInv' /\ Seqs(heap, Walks(heap))' = Seqs(h2, W2)
  BY <1>2, <1>3, <1>4, <1>6, <1>7, StepKeeps DEF W
<1> QED
  BY <1>6, <1>8, SeqsDomain DEF GoodStep, SeqNext, W

LEMMA RotateKeeps ==
    ASSUME ListInv, NEW l \in heap.live, Rotate(l)
    PROVE  GoodStep
<1> DEFINE W == Walks(heap)
           h2 == listRotate(heap, l)
<1>1. Linked(heap, W) /\ Spared({l}) /\ Edit(h2)
  BY ListNodes DEF ListInv, Rotate
<1>2. CASE heap.len[l] > 1
  <2> DEFINE W2 == Put(W, h2, l, Turn(W[l], heap.len[l]))
  <2> HIDE DEF W
  <2>1. Leaves(heap, W, h2, W2, {l}, NULL) /\ LS!Rotate(Seqs(heap, W), Seqs(h2, W2), l)
    BY <1>1, <1>2, RotateLeaves
  <2> HIDE DEF h2, W2
  <2>2. ListInv' /\ Seqs(heap, Walks(heap))' = Seqs(h2, W2)
    BY <1>1, <2>1, EditKeeps DEF W
  <2> QED
    BY <2>1, <2>2, SeqsDomain DEF GoodStep, SeqNext, W
<1>3. CASE ~(heap.len[l] > 1)
  <2> HIDE DEF W
  <2>1. heap.len[l] \in Nat
    BY <1>1, LinkedList
  <2>2. h2 = heap
    BY <1>3, <2>1 DEF listRotate
  <2>3. Carried(heap, W, heap, W, {l}, NULL)
    <3>1. \A o \in heap.live : \E r : Moves(heap, W, heap, W, o, o, r, NULL)
      BY <1>1, SameListMoves
    <3> QED
      BY <3>1 DEF Carried
  <2>4. Leaves(heap, W, h2, W, {l}, NULL)
    BY <1>1, <2>2, <2>3, NullIsFree DEF Leaves
  <2>5. ListInv' /\ Seqs(heap, Walks(heap))' = Seqs(h2, W)
    BY <1>1, <2>4, EditKeeps DEF W
  <2> QED
    BY <2>2, <2>5 DEF GoodStep, W
<1> QED
  BY <1>2, <1>3

LEMMA JoinKeeps ==
    ASSUME ListInv, NEW l \in heap.live, NEW o \in heap.live, Join(l, o)
    PROVE  GoodStep
<1> DEFINE W == Walks(heap)
           h2 == listJoin(heap, l, o)
           W2 == PutBoth(W, h2, l, Glue(W[l], heap.len[l], W[o], heap.len[o]), o)
<1>1. Linked(heap, W) /\ l # o /\ Edit(h2)
  BY DEF ListInv, Join
<1> HIDE DEF W
<1>2. Leaves(heap, W, h2, W2, {}, NULL) /\ LS!Join(Seqs(heap, W), Seqs(h2, W2), l, o)
  BY <1>1, JoinLeaves
<1>3. Spared({})
  BY DEF Spared
<1> HIDE DEF h2, W2
<1>4. ListInv' /\ Seqs(heap, Walks(heap))' = Seqs(h2, W2)
  BY <1>1, <1>2, <1>3, EditKeeps DEF W
<1> QED
  BY <1>2, <1>4, SeqsDomain DEF GoodStep, SeqNext, W

LEMMA DupKeeps ==
    ASSUME ListInv, NEW l \in heap.live, NEW copy \in Lists, Dup(l, copy)
    PROVE  GoodStep
<1> DEFINE W == Walks(heap)
<1>1. /\ Linked(heap, W) /\ copy \in Lists \ heap.live
      /\ heap.len[l] <= Cardinality(FreeNodes(heap))
  BY DEF ListInv, Dup
<1>2. Spared({})
  BY DEF Spared
<1> HIDE DEF W
<1>3. CASE Edit(listDup(heap, l, copy))
  <2> DEFINE h2 == listDup(heap, l, copy)
  <2>1. PICK W2 : /\ Leaves(heap, W, h2, W2, {}, NULL)
                  /\ LS!Dup(Seqs(heap, W), Seqs(h2, W2), l, copy)
    BY <1>1, DupLeaves
  <2>2. Edit(h2)
    BY <1>3
  <2> HIDE DEF h2
  <2>3. ListInv' /\ Seqs(heap, Walks(heap))' = Seqs(h2, W2)
    BY <1>2, <2>1, <2>2, EditKeeps DEF W
  <2> QED
    BY <2>1, <2>3, SeqsDomain DEF GoodStep, SeqNext, W
<1>4. CASE \E k \in 1 .. heap.len[l] : Edit(listDupFails(heap, l, copy, k))
  <2>1. PICK k \in 1 .. heap.len[l] : Edit(listDupFails(heap, l, copy, k))
    BY <1>4
  <2> DEFINE h2 == listDupFails(heap, l, copy, k)
  <2>2. PICK W2 : /\ Leaves(heap, W, h2, W2, {}, NULL)
                  /\ Seqs(h2, W2) = Seqs(heap, W)
    BY <1>1, DupFailsLeaves
  <2>3. Edit(h2)
    BY <2>1
  <2> HIDE DEF h2
  <2>4. ListInv' /\ Seqs(heap, Walks(heap))' = Seqs(h2, W2)
    BY <1>2, <2>2, <2>3, EditKeeps DEF W
  <2> QED
    BY <2>2, <2>4 DEF GoodStep, W
<1> QED
  BY <1>3, <1>4 DEF Dup

LEMMA GetIteratorKeeps ==
    ASSUME ListInv, NEW l \in heap.live, NEW dir \in {"head", "tail"}, GetIterator(l, dir)
    PROVE  GoodStep
<1> DEFINE W == Walks(heap)
           w == W[l]
           k == heap.len[l]
<1>1. Linked(heap, W) /\ heap' = heap
  BY DEF ListInv, GetIterator
<1>2. /\ owed' = {w[i] : i \in 1 .. k} /\ given' = {}
      /\ iter' = [on |-> TRUE, dir |-> dir, last |-> NULL,
                  next |-> IF dir = "head" THEN heap.head[l] ELSE heap.tail[l]]
  BY ListNodes DEF GetIterator
<1> HIDE DEF W
<1>3. /\ k \in Nat /\ w \in [1 .. k -> Nodes]
      /\ heap.head[l] = IF k = 0 THEN NULL ELSE w[1]
      /\ heap.tail[l] = IF k = 0 THEN NULL ELSE w[k]
  <2>1. k \in Nat /\ w \in [1 .. k -> Nodes]
    BY <1>1, LinkedList
  <2> QED
    BY <1>1, <2>1, LinkedEnds
<1> HIDE DEF w, k
<1>4. iter' \in Iterators /\ iter'.dir = dir /\ iter'.last = NULL
      /\ iter'.next = IF k = 0 THEN NULL ELSE IF dir = "head" THEN w[1] ELSE w[k]
  <2>1. heap.head[l] \in Nodes \cup {NULL} /\ heap.tail[l] \in Nodes \cup {NULL}
    <3>1. k # 0 => 1 \in 1 .. k /\ k \in 1 .. k
      BY <1>3
    <3> QED
      BY <1>3, <3>1
  <2> QED
    BY <1>2, <1>3, <2>1 DEF Iterators
<1>5. IterOK(heap, W, iter', owed', given')
  <2>1. CASE k = 0
    <3>1. owed' = {}
      BY <1>2, <2>1
    <3> QED
      BY <1>4, <2>1, <3>1 DEF IterOK
  <2>2. CASE k # 0
    <3> DEFINE p == IF dir = "head" THEN 1 ELSE k
    <3>1. p \in 1 .. k /\ w[p] = iter'.next
      BY <1>3, <1>4, <2>2
    <3>2. Ahead(dir, p, k) = 1 .. k
      BY DEF Ahead
    <3>3. \A n \in owed' : \E i \in Ahead(dir, p, k) : w[i] = n
      BY <1>2, <3>2
    <3> HIDE DEF p
    <3>4. At(heap, W, iter', owed', given', l, p)
      BY <1>2, <1>4, <3>1, <3>3 DEF At, w, k
    <3> QED
      BY <1>4, <3>1, <3>4 DEF IterOK, k
  <2> QED
    BY <2>1, <2>2
<1>6. owed' \subseteq Nodes /\ given' \subseteq Nodes
  BY <1>2, <1>3
<1>7. ListInv'
  BY <1>1, <1>5, <1>6 DEF ListInv, W
<1> QED
  BY <1>1, <1>7 DEF GoodStep


(* Where the iteration is when it has not ended. *)
LEMMA IterationPlace ==
    ASSUME ListInv, iter.on, iter.next # NULL
    PROVE  /\ iter \in Iterators
           /\ \E l \in heap.live : \E p \in 1 .. heap.len[l] :
                At(heap, Walks(heap), iter, owed, given, l, p)
BY DEF ListInv, IterOK, NoIter

LEMMA AdvanceKeeps ==
    ASSUME ListInv, Advance
    PROVE  GoodStep
<1> DEFINE W == Walks(heap)
<1>1. Linked(heap, W) /\ heap' = heap /\ owed \subseteq Nodes /\ given \subseteq Nodes
  BY DEF ListInv, Advance
<1>2. CASE iter.next = NULL
  <2>1. iter' = NoIter /\ owed' = {} /\ given' = {}
    BY <1>2 DEF Advance
  <2>2. IterOK(heap, W, iter', owed', given')
    BY <2>1 DEF IterOK
  <2> HIDE DEF W
  <2>3. ListInv'
    BY <1>1, <2>1, <2>2 DEF ListInv, W
  <2> QED
    BY <1>1, <2>3 DEF GoodStep
<1>3. CASE iter.next # NULL
  <2> DEFINE n == iter.next
  <2>1. /\ iter' = [iter EXCEPT !.next = Beyond(n), !.last = n]
        /\ owed' = owed \ {n} /\ given' = given \cup {n}
    BY <1>3 DEF Advance
  <2>2. PICK l \in heap.live :
               iter \in Iterators /\ \E p \in 1 .. heap.len[l] : At(heap, W, iter, owed, given, l, p)
    BY <1>3, IterationPlace DEF Advance, Iterating
  <2>3. PICK p \in 1 .. heap.len[l] : At(heap, W, iter, owed, given, l, p)
    BY <2>2
  <2> HIDE DEF W
  <2> DEFINE k == heap.len[l]
             w == W[l]
             dir == iter.dir
  <2>4. /\ w[p] = n
        /\ \A m \in owed : \E i \in Ahead(dir, p, k) : w[i] = m
        /\ \A m \in given : \E i \in (1 .. k) \ Ahead(dir, p, k) : w[i] = m
    BY <2>3 DEF At
  <2>5. k \in Nat /\ p \in 1 .. k /\ w \in [1 .. k -> Nodes] /\ dir \in {"head", "tail"}
    BY <1>1, <2>2, LinkedList DEF Iterators
  <2>6. /\ heap.next[w[p]] = IF p = k THEN NULL ELSE w[p + 1]
        /\ heap.prev[w[p]] = IF p = 1 THEN NULL ELSE w[p - 1]
    BY <1>1, LinkedEnds
  <2> HIDE DEF k, w
  <2> DEFINE ended == p = IF dir = "head" THEN k ELSE 1
             p2 == IF dir = "head" THEN p + 1 ELSE p - 1
  <2>7. Beyond(n) = IF ended THEN NULL ELSE w[p2]
    BY <2>4, <2>5, <2>6 DEF Beyond
  <2>8. n \in Nodes /\ (~ended => p2 \in 1 .. k)
    BY <2>4, <2>5
  <2>9. Beyond(n) \in Nodes \cup {NULL}
    <3> HIDE DEF n, ended, p2
    <3> QED
      BY <2>5, <2>7, <2>8
  <2>10. /\ iter' \in Iterators /\ iter'.next = Beyond(n) /\ iter'.dir = dir /\ iter'.last = n
    <3> DEFINE z == Beyond(n)
    <3>1. z \in Nodes \cup {NULL} /\ iter' = [iter EXCEPT !.next = z, !.last = n]
      BY <2>1, <2>9
    <3> HIDE DEF z
    <3>2. iter' \in Iterators /\ iter'.next = z /\ iter'.dir = dir /\ iter'.last = n
      BY <2>2, <2>8, <3>1 DEF Iterators
    <3> QED
      BY <3>2 DEF z
  <2> HIDE DEF n, dir, ended, p2
  <2>11. IterOK(heap, W, iter', owed', given')
    <3>1. CASE ended
      <4>1. Ahead(dir, p, k) = {p}
        BY <2>5, <3>1 DEF Ahead, ended
      <4>2. owed' = {}
        BY <2>1, <2>4, <4>1
      <4> QED
        BY <2>7, <2>10, <3>1, <4>2 DEF IterOK
    <3>2. CASE ~ended
      <4>1. p2 \in 1 .. k /\ w[p2] = iter'.next
        BY <2>7, <2>8, <2>10, <3>2
      <4>2. Ahead(dir, p2, k) = Ahead(dir, p, k) \ {p}
        BY <2>5, <4>1 DEF Ahead, p2
      <4>3. \A m \in owed' : \E i \in Ahead(dir, p2, k) : w[i] = m
        BY <2>1, <2>4, <4>2
      <4>4. \A m \in given' : \E i \in (1 .. k) \ Ahead(dir, p2, k) : w[i] = m
        BY <2>1, <2>4, <2>5, <4>2
      <4>5. iter'.last \in given'
        BY <2>1, <2>10
      <4>6. At(heap, W, iter', owed', given', l, p2)
        BY <2>10, <4>1, <4>3, <4>4, <4>5 DEF At, w, k
      <4> QED
        BY <2>10, <4>1, <4>6 DEF IterOK, k
    <3> QED
      BY <3>1, <3>2
  <2>12. owed' \subseteq Nodes /\ given' \subseteq Nodes
    BY <1>1, <2>1, <2>8
  <2>13. ListInv'
    BY <1>1, <2>11, <2>12 DEF ListInv, W
  <2> QED
    BY <1>1, <2>13 DEF GoodStep
<1> QED
  BY <1>2, <1>3

LEMMA NextIsGood ==
    ASSUME ListInv, ListNext
    PROVE  GoodStep
<1>1. ASSUME NEW l \in Lists, Create(l) PROVE GoodStep
  BY <1>1, CreateKeeps
<1>2. ASSUME NEW l \in heap.live, Clear(l) PROVE GoodStep
  BY <1>2, ClearKeeps
<1>3. ASSUME NEW l \in heap.live, Rotate(l) PROVE GoodStep
  BY <1>3, RotateKeeps
<1>4. ASSUME NEW l \in heap.live, NEW v \in Values, Add(l, v) PROVE GoodStep
  BY <1>4, AddKeeps
<1>5. ASSUME NEW l \in heap.live, NEW n \in Nodes, NEW v \in Values, NEW after \in BOOLEAN,
             Insert(l, n, v, after)
      PROVE  GoodStep
  BY <1>5, InsertKeeps
<1>6. ASSUME NEW l \in heap.live, NEW n \in Nodes, Del(l, n) PROVE GoodStep
  BY <1>6, DelKeeps
<1>7. ASSUME NEW l \in heap.live, NEW o \in heap.live, Join(l, o) PROVE GoodStep
  BY <1>7, JoinKeeps
<1>8. ASSUME NEW l \in heap.live, NEW copy \in Lists, Dup(l, copy) PROVE GoodStep
  BY <1>8, DupKeeps
<1>9. ASSUME NEW l \in heap.live, NEW dir \in {"head", "tail"}, GetIterator(l, dir)
      PROVE  GoodStep
  BY <1>9, GetIteratorKeeps
<1>10. CASE Advance
  BY <1>10, AdvanceKeeps
<1> QED
  BY <1>1, <1>2, <1>3, <1>4, <1>5, <1>6, <1>7, <1>8, <1>9, <1>10 DEF ListNext

LEMMA InitLinked ==
    ListInit => ListInv /\ Seqs(heap, Walks(heap)) = [l \in {} |-> << >>]
<1> SUFFICES ASSUME ListInit
             PROVE  ListInv /\ Seqs(heap, Walks(heap)) = [l \in {} |-> << >>]
  OBVIOUS
<1>1. heap = EmptyHeap /\ heap.live = {} /\ \A n \in Nodes : heap.value[n] = NULL
  BY DEF ListInit, EmptyHeap
<1>2. IsHeap(heap)
  BY <1>1 DEF EmptyHeap, IsHeap, Links
<1>3. Linked(heap, Walks(heap))
  BY <1>1, <1>2 DEF Linked
<1>4. IterOK(heap, Walks(heap), iter, owed, given) /\ owed = {} /\ given = {}
  BY DEF ListInit, IterOK
<1>5. Seqs(heap, Walks(heap)) = [l \in {} |-> << >>]
  BY <1>1 DEF Seqs
<1> QED
  BY <1>3, <1>4, <1>5 DEF ListInv

LEMMA StutterKeeps ==
    ASSUME ListInv, UNCHANGED listVars
    PROVE  GoodStep
<1>1. heap' = heap /\ iter' = iter /\ owed' = owed /\ given' = given
  BY DEF listVars
<1>2. ListInv'
  BY <1>1 DEF ListInv
<1> QED
  BY <1>1, <1>2 DEF GoodStep

(* On every behaviour the links of every list are those of one sequence of   *)
(* nodes, and the iteration has a place in it (all of adlist.c).             *)
THEOREM ListsStayLinked ==
    ListSpec => []ListInv
<1>1. ListInit => ListInv
  BY InitLinked
<1>2. ListInv /\ [ListNext]_listVars => ListInv'
  BY NextIsGood, StutterKeeps DEF GoodStep
<1> QED
  BY <1>1, <1>2, PTL DEF ListSpec


(* What the invariant says of a list that is read. *)
LEMMA ListReads ==
    ASSUME ListInv, NEW l \in heap.live
    PROVE  LET w == Forward(heap, l)
               k == heap.len[l]
           IN  /\ k \in Nat /\ w \in [1 .. k -> Nodes] /\ Len(w) = k /\ DOMAIN w = 1 .. k
               /\ \A i, j \in 1 .. k : w[i] = w[j] => i = j
               /\ Follow(heap.prev, heap.tail[l]) = [i \in 1 .. k |-> w[k + 1 - i]]
               /\ w = Walks(heap)[l] /\ NodesOf(l) = {w[i] : i \in 1 .. k}
<1> DEFINE w == Walks(heap)[l]
           k == heap.len[l]
<1>1. Linked(heap, Walks(heap))
  BY DEF ListInv
<1>2. Forward(heap, l) = w
  BY <1>1, Canonical
<1>3. /\ l \in Lists /\ k \in Nat /\ w \in [1 .. k -> Nodes]
      /\ \A i, j \in 1 .. k : w[i] = w[j] => i = j
  BY <1>1, LinkedList
<1>4. Follow(heap.prev, heap.tail[l]) = [i \in 1 .. k |-> w[k + 1 - i]]
  <2>1. IsHeap(heap) /\ Chain(heap, l, w)
    BY <1>1 DEF Linked
  <2> HIDE DEF w
  <2>2. Follow(heap.prev, heap.tail[l]) = [i \in 1 .. heap.len[l] |-> w[heap.len[l] + 1 - i]]
    BY <1>3, <2>1, ReadsChain, Zenon
  <2> QED
    BY <2>2
<1>5. NodesOf(l) = {w[i] : i \in 1 .. k}
  BY ListNodes
<1> HIDE DEF w, k
<1>6. Len(w) = k /\ DOMAIN w = 1 .. k
  BY <1>3
<1> QED
  BY <1>2, <1>3, <1>4, <1>5, <1>6 DEF w, k

LEMMA LinkedReads ==
    ListInv => WellLinked
<1> SUFFICES ASSUME ListInv PROVE WellLinked
  OBVIOUS
<1> DEFINE W == Walks(heap)
<1>0. Linked(heap, W)
  BY DEF ListInv
<1>1. ASSUME NEW l \in heap.live
      PROVE  /\ Follow(heap.prev, heap.tail[l]) = Reversed(Forward(heap, l))
             /\ heap.len[l] = Cardinality(NodesOf(l))
             /\ heap.len[l] = Len(Forward(heap, l))
  <2> DEFINE w == Forward(heap, l)
             k == heap.len[l]
  <2>1. /\ k \in Nat /\ w \in [1 .. k -> Nodes] /\ Len(w) = k /\ DOMAIN w = 1 .. k
        /\ \A i, j \in 1 .. k : w[i] = w[j] => i = j
        /\ Follow(heap.prev, heap.tail[l]) = [i \in 1 .. k |-> w[k + 1 - i]]
        /\ NodesOf(l) = {w[i] : i \in 1 .. k}
    BY ListReads
  <2> HIDE DEF w, k
  <2>2. Cardinality({w[i] : i \in 1 .. k}) = k
    BY <2>1, NodesDiffer
  <2>3. Reversed(w) = [i \in 1 .. k |-> w[k + 1 - i]]
    BY <2>1 DEF Reversed
  <2> QED
    BY <2>1, <2>2, <2>3 DEF w, k
<1>2. ASSUME NEW l \in heap.live, NEW o \in heap.live, l # o
      PROVE  NodesOf(l) \cap NodesOf(o) = {}
  <2>1. NodesOf(l) = {W[l][i] : i \in 1 .. heap.len[l]}
    BY ListNodes
  <2>2. NodesOf(o) = {W[o][i] : i \in 1 .. heap.len[o]}
    BY ListNodes
  <2>3. \A i \in 1 .. heap.len[l], j \in 1 .. heap.len[o] : W[l][i] # W[o][j]
    BY <1>0, <1>2 DEF Linked
  <2> QED
    BY <2>1, <2>2, <2>3
<1>3. Allocated(heap) = UNION {NodesOf(l) : l \in heap.live}
  <2>1. \A l \in heap.live : NodesOf(l) = {W[l][i] : i \in 1 .. heap.len[l]}
    BY ListNodes
  <2>2. \A n \in Nodes : n \in Allocated(heap) <=>
          \E l \in heap.live : \E i \in 1 .. heap.len[l] : W[l][i] = n
    BY <1>0 DEF Linked, Allocated
  <2>3. \A l \in heap.live : \A i \in 1 .. heap.len[l] : W[l][i] \in Nodes
    BY <1>0, LinkedNode
  <2> HIDE DEF W
  <2>4. \A n : n \in UNION {NodesOf(l) : l \in heap.live} <=>
          \E l \in heap.live : \E i \in 1 .. heap.len[l] : W[l][i] = n
    BY <2>1
  <2>5. \A n \in Allocated(heap) : n \in Nodes
    BY DEF Allocated
  <2> QED
    BY <2>2, <2>3, <2>4, <2>5
<1> QED
  BY <1>1, <1>2, <1>3 DEF WellLinked

LEMMA IndexAgrees ==
    ASSUME ListInv, NEW l \in heap.live, NEW i \in Int
    PROVE  LET w == Forward(heap, l)
           IN  listIndex(heap, l, i) =
                 IF i \in 0 .. Len(w) - 1 THEN w[i + 1]
                 ELSE IF i \in -Len(w) .. -1 THEN w[Len(w) + 1 + i] ELSE NULL
<1> DEFINE w == Forward(heap, l)
           k == heap.len[l]
           r == Follow(heap.prev, heap.tail[l])
<1>1. /\ k \in Nat /\ w \in [1 .. k -> Nodes] /\ Len(w) = k
      /\ r = [j \in 1 .. k |-> w[k + 1 - j]]
  BY ListReads
<1>2. listIndex(heap, l, i) =
        LET x == IF i < 0 THEN r ELSE w
            m == IF i < 0 THEN (-i) - 1 ELSE i
        IN  IF m < Len(x) THEN x[m + 1] ELSE NULL
  BY DEF listIndex
<1> HIDE DEF w, k, r
<1>3. r \in [1 .. k -> Nodes] /\ Len(r) = k /\ \A j \in 1 .. k : r[j] = w[k + 1 - j]
  <2>1. r \in [1 .. k -> Nodes] /\ \A j \in 1 .. k : r[j] = w[k + 1 - j]
    BY <1>1
  <2> QED
    BY <1>1, <2>1
<1>4. CASE i < 0
  <2>1. listIndex(heap, l, i) = IF (-i) - 1 < k THEN r[((-i) - 1) + 1] ELSE NULL
    BY <1>2, <1>3, <1>4
  <2>2. ((-i) - 1 < k <=> i \in -k .. -1) /\ ((-i) - 1) + 1 = -i /\ i \notin 0 .. k - 1
    BY <1>1, <1>4
  <2>3. i \in -k .. -1 => -i \in 1 .. k /\ k + 1 - (-i) = k + 1 + i
    BY <1>1
  <2>4. i \in -k .. -1 => r[-i] = w[k + 1 + i]
    BY <1>3, <2>3
  <2>5. listIndex(heap, l, i) = IF i \in -k .. -1 THEN w[k + 1 + i] ELSE NULL
    BY <2>1, <2>2, <2>4
  <2> QED
    BY <1>1, <2>2, <2>5 DEF w
<1>5. CASE ~(i < 0)
  <2>1. listIndex(heap, l, i) = IF i < k THEN w[i + 1] ELSE NULL
    BY <1>1, <1>2, <1>5
  <2>2. (i < k <=> i \in 0 .. k - 1) /\ i \notin -k .. -1
    BY <1>1, <1>5
  <2>3. listIndex(heap, l, i) = IF i \in 0 .. k - 1 THEN w[i + 1] ELSE NULL
    BY <2>1, <2>2
  <2> QED
    BY <1>1, <2>2, <2>3 DEF w
<1> QED
  BY <1>4, <1>5

LEMMA SearchAgrees ==
    ASSUME ListInv, NEW l \in heap.live, NEW v \in Values
    PROVE  LET w == Forward(heap, l)
               n == listSearchKey(heap, l, v)
           IN  IF n = NULL THEN \A m \in NodesOf(l) : heap.value[m] # v
               ELSE \E i \in DOMAIN w :
                      /\ w[i] = n /\ heap.value[n] = v
                      /\ \A j \in 1 .. i - 1 : heap.value[w[j]] # v
<1> DEFINE w == Forward(heap, l)
           k == heap.len[l]
           hits == {i \in DOMAIN w : heap.value[w[i]] = v}
           first == CHOOSE i \in hits : \A j \in hits : i <= j
           n == listSearchKey(heap, l, v)
<1>1. /\ k \in Nat /\ w \in [1 .. k -> Nodes] /\ DOMAIN w = 1 .. k
      /\ NodesOf(l) = {w[i] : i \in 1 .. k}
  BY ListReads
<1>2. n = IF hits = {} THEN NULL ELSE w[first]
  BY DEF listSearchKey
<1>3. NULL \notin Nodes
  BY ListAssumption
<1> HIDE DEF w, k, n
<1>4. CASE hits = {}
  <2>1. n = NULL
    BY <1>2, <1>4
  <2>2. \A m \in NodesOf(l) : heap.value[m] # v
    BY <1>1, <1>4
  <2> QED
    BY <2>1, <2>2 DEF w, n
<1>5. CASE hits # {}
  <2>1. hits \in SUBSET Nat
    BY <1>1
  <2>2. \E i \in hits : \A j \in hits : i <= j
    <3> HIDE DEF hits
    <3> QED
      BY <1>5, <2>1, Least
  <2>3. first \in hits /\ \A j \in hits : first <= j
    <3> HIDE DEF hits
    <3> QED
      BY <2>2
  <2> HIDE DEF first
  <2>4. first \in 1 .. k /\ heap.value[w[first]] = v
    BY <1>1, <2>3
  <2>5. n = w[first] /\ n # NULL
    <3>1. w[first] \in Nodes
      BY <1>1, <2>4
    <3> QED
      BY <1>2, <1>3, <1>5, <3>1
  <2>6. ASSUME NEW j \in 1 .. first - 1 PROVE heap.value[w[j]] # v
    <3>1. j \in 1 .. k /\ ~(first <= j)
      BY <1>1, <2>4
    <3> QED
      BY <1>1, <2>3, <3>1
  <2> QED
    BY <1>1, <2>4, <2>5, <2>6 DEF w, n
<1> QED
  BY <1>4, <1>5

LEMMA LookupsRead ==
    ListInv => LookupsAgree
<1> SUFFICES ASSUME ListInv, NEW l \in heap.live
             PROVE  LET w == Forward(heap, l)
                    IN  /\ \A i \in -(Cardinality(Nodes) + 1) .. Cardinality(Nodes) + 1 :
                             listIndex(heap, l, i) =
                               IF i \in 0 .. Len(w) - 1 THEN w[i + 1]
                               ELSE IF i \in -Len(w) .. -1 THEN w[Len(w) + 1 + i] ELSE NULL
                        /\ \A v \in Values :
                             LET n == listSearchKey(heap, l, v)
                             IN  IF n = NULL THEN \A m \in NodesOf(l) : heap.value[m] # v
                                 ELSE \E i \in DOMAIN w :
                                        /\ w[i] = n /\ heap.value[n] = v
                                        /\ \A j \in 1 .. i - 1 : heap.value[w[j]] # v
  BY DEF LookupsAgree
<1>1. \A i \in -(Cardinality(Nodes) + 1) .. Cardinality(Nodes) + 1 : i \in Int
  OBVIOUS
<1> QED
  BY <1>1, IndexAgrees, SearchAgrees


(* One step of an iteration. *)
ExactStep ==
    /\ Iterating /\ iter'.on /\ iter' # iter /\ heap' = heap
         => iter.next \in Allocated(heap) \ given
    /\ Iterating /\ ~iter'.on => owed = {}

LEMMA IterUnchangedIsExact ==
    ASSUME iter' = iter PROVE ExactStep
BY DEF ExactStep, Iterating

LEMMA DelIsExact ==
    ASSUME ListInv, NEW l \in heap.live, NEW n \in Nodes, Del(l, n)
    PROVE  ExactStep
<1>1. PICK p \in 1 .. heap.len[l] : n = Walks(heap)[l][p]
  BY ListNodes DEF Del
<1>2. Linked(heap, Walks(heap))
  BY DEF ListInv
<1>3. heap' = listDelNode(heap, l, n)
  BY DEF Del, Settle
<1>4. heap'.value = [heap.value EXCEPT ![n] = NULL]
  <2>1. Deletion(heap, heap', l, Walks(heap)[l], p)
    BY <1>1, <1>2, <1>3, DelNodeDeletes
  <2> QED
    BY <1>1, <2>1 DEF Deletion
<1>5. heap.value[n] # NULL /\ heap.value \in [Nodes -> Values \cup {NULL}]
  BY <1>1, <1>2, LinkedNode DEF Linked, IsHeap
<1>6. heap' # heap
  BY <1>4, <1>5
<1>7. ASSUME iter.on PROVE iter'.on
  <2>1. iter \in Iterators
    BY <1>7 DEF ListInv, IterOK, NoIter
  <2>2. iter' = iter \/ iter' = [iter EXCEPT !.last = NULL]
    BY DEF Del
  <2> QED
    BY <2>1, <2>2 DEF Iterators
<1> QED
  BY <1>6, <1>7 DEF ExactStep, Iterating

LEMMA AdvanceIsExact ==
    ASSUME ListInv, Advance
    PROVE  ExactStep
<1> DEFINE W == Walks(heap)
<1>1. Linked(heap, W) /\ iter.on
  BY DEF ListInv, Advance, Iterating
<1>2. CASE iter.next = NULL
  <2>1. iter' = NoIter
    BY <1>2 DEF Advance
  <2>2. owed = {}
    <3> SUFFICES ASSUME owed # {} PROVE FALSE
      OBVIOUS
    <3>1. PICK l \in heap.live : \E p \in 1 .. heap.len[l] : At(heap, W, iter, owed, given, l, p)
      BY <1>1 DEF ListInv, IterOK, NoIter
    <3>2. PICK p \in 1 .. heap.len[l] : At(heap, W, iter, owed, given, l, p)
      BY <3>1
    <3>3. W[l][p] = NULL
      BY <1>2, <3>2 DEF At
    <3> HIDE DEF W
    <3>4. W[l][p] \in Nodes
      BY <1>1, LinkedNode
    <3> QED
      BY <3>3, <3>4, ListAssumption
  <2> QED
    BY <2>1, <2>2 DEF ExactStep, NoIter
<1>3. CASE iter.next # NULL
  <2>1. PICK l \in heap.live :
               iter \in Iterators /\ \E p \in 1 .. heap.len[l] : At(heap, W, iter, owed, given, l, p)
    BY <1>1, <1>3, IterationPlace
  <2>2. PICK p \in 1 .. heap.len[l] : At(heap, W, iter, owed, given, l, p)
    BY <2>1
  <2>3. iter'.on
    <3>1. iter' = [iter EXCEPT !.next = Beyond(iter.next), !.last = iter.next]
      BY <1>3 DEF Advance
    <3> QED
      BY <2>1, <3>1 DEF Iterators
  <2> HIDE DEF W
  <2>4. W[l][p] = iter.next /\ iter.next \in Allocated(heap)
    BY <1>1, <2>2, LinkedNode DEF At, Allocated
  <2>5. iter.next \notin given
    <3> SUFFICES ASSUME iter.next \in given PROVE FALSE
      OBVIOUS
    <3>1. PICK i \in (1 .. heap.len[l]) \ Ahead(iter.dir, p, heap.len[l]) : W[l][i] = iter.next
      BY <2>2 DEF At
    <3>2. heap.len[l] \in Nat
      BY <1>1, LinkedList
    <3>3. i # p
      BY <3>1, <3>2 DEF Ahead
    <3> QED
      BY <1>1, <2>4, <3>1, <3>3, LinkedList
  <2> QED
    BY <2>3, <2>4, <2>5 DEF ExactStep
<1> QED
  BY <1>2, <1>3

LEMMA NextIsExact ==
    ASSUME ListInv, ListNext
    PROVE  ExactStep
<1>1. ASSUME NEW l \in Lists, Create(l) PROVE ExactStep
  BY <1>1, IterUnchangedIsExact DEF Create, Edit
<1>2. ASSUME NEW l \in heap.live, Clear(l) \/ Rotate(l) PROVE ExactStep
  BY <1>2, IterUnchangedIsExact DEF Clear, Rotate, Edit
<1>3. ASSUME NEW l \in heap.live, NEW v \in Values, Add(l, v) PROVE ExactStep
  BY <1>3, IterUnchangedIsExact DEF Add, Edit
<1>4. ASSUME NEW l \in heap.live, NEW n \in Nodes, NEW v \in Values, NEW after \in BOOLEAN,
             Insert(l, n, v, after)
      PROVE  ExactStep
  BY <1>4, IterUnchangedIsExact DEF Insert, Edit
<1>5. ASSUME NEW l \in heap.live, NEW n \in Nodes, Del(l, n) PROVE ExactStep
  BY <1>5, DelIsExact
<1>6. ASSUME NEW l \in heap.live, NEW o \in heap.live, Join(l, o) PROVE ExactStep
  BY <1>6, IterUnchangedIsExact DEF Join, Edit
<1>7. ASSUME NEW l \in heap.live, NEW copy \in Lists, Dup(l, copy) PROVE ExactStep
  BY <1>7, IterUnchangedIsExact DEF Dup, Edit
<1>8. ASSUME NEW l \in heap.live, NEW dir \in {"head", "tail"}, GetIterator(l, dir)
      PROVE  ExactStep
  BY <1>8 DEF GetIterator, ExactStep
<1>9. CASE Advance
  BY <1>9, AdvanceIsExact
<1> QED
  BY <1>1, <1>2, <1>3, <1>4, <1>5, <1>6, <1>7, <1>8, <1>9 DEF ListNext

(* The links agree in both directions, len counts the nodes, and no node is  *)
(* shared or leaked (every function of adlist.c that assigns a link).        *)
THEOREM LinksAgree ==
    ListSpec => []WellLinked
BY ListsStayLinked, LinkedReads, PTL

(* listIndex and listSearchKey find what the sequence says they find.        *)
THEOREM LookupsFind ==
    ListSpec => []LookupsAgree
BY ListsStayLinked, LookupsRead, PTL

(* listNext returns no node twice or after it was freed, and by the end of   *)
(* an iteration every node that was kept.                                    *)
THEOREM NothingSkipped ==
    ListSpec => IterationExact
<1>1. ListInv /\ [ListNext]_listVars => [ExactStep]_listVars
  BY NextIsExact
<1> QED
  BY <1>1, ListsStayLinked, PTL DEF ListSpec, IterationExact, ExactStep

-----------------------------------------------------------------------------
(* The lists implement sequences. *)

View == [l \in heap.live |-> ValuesAt(Forward(heap, l))]

ViewIsRead == View = Seqs(heap, Walks(heap))

LEMMA SequencesRead ==
    ListInv => ViewIsRead
<1> SUFFICES ASSUME ListInv PROVE ViewIsRead
  OBVIOUS
<1>1. ASSUME NEW l \in heap.live
      PROVE  ValuesAt(Forward(heap, l)) = SeqOf(heap, Walks(heap), l)
  BY ListReads DEF ValuesAt, SeqOf
<1> QED
  BY <1>1 DEF ViewIsRead, View, Seqs

(* Every operation of adlist.c does to the sequences of values what its name *)
(* says, and nothing to the other lists.                                     *)
THEOREM ListsImplementSequences ==
    ListSpec => SequenceSpec
<1> DEFINE abs == Seqs(heap, Walks(heap))
<1>1. ListInit => LS!Init
  BY InitLinked, SequencesRead DEF LS!Init, ViewIsRead, View
<1>2. ListInv /\ ViewIsRead /\ ViewIsRead' /\ [ListNext]_listVars => [LS!Next]_View
  <2> SUFFICES ASSUME ListInv, ViewIsRead, ViewIsRead', [ListNext]_listVars
               PROVE  LS!Next \/ View' = View
    OBVIOUS
  <2>1. abs' = abs \/ SeqNext(abs, abs')
    BY NextIsGood, StutterKeeps DEF GoodStep
  <2>2. View = abs /\ View' = abs'
    BY DEF ViewIsRead
  <2>3. SeqNext(View, View') => LS!Next
    BY DEF SeqNext, LS!Next, View
  <2> HIDE DEF abs
  <2> QED
    BY <2>1, <2>2, <2>3
<1> QED
  BY <1>1, <1>2, SequencesRead, ListsStayLinked, PTL DEF ListSpec, SequenceSpec, LS!Spec, View
=============================================================================
