--------------------------- MODULE DictWalkProofs ---------------------------
(***************************************************************************)
(* Proofs about DictWalk: iterators and scans return every key that stays, *)
(* iterators none twice, unsafe ones fail only when they began during a    *)
(* rehash, cursors of a scan only go forward, random keys are drawn from   *)
(* all entries, and a sample is as many of them as were asked for.         *)
(***************************************************************************)
EXTENDS DictWalk, DictProofs

-----------------------------------------------------------------------------
(* The invariant. *)

(* An iterator as dictGetIterator makes it and dictNext moves it. *)
IsIterator(w) ==
    /\ w = [kind |-> "iterator", safe |-> w.safe, table |-> w.table,
            index |-> w.index, nextEntry |-> w.nextEntry, after |-> w.after,
            fingerprint |-> w.fingerprint, done |-> w.done]
    /\ w.safe \in BOOLEAN
    /\ w.table \in {0, 1} /\ w.index \in Nat \cup {-1}

IsWalk(w) ==
    \/ w.kind = "none" /\ w.done = FALSE
    \/ /\ w.kind = "scan"
       /\ w = [kind |-> "scan", cursor |-> w.cursor, done |-> w.done]
    \/ w.kind = "aborted" /\ w.done = FALSE /\ w.fingerprint[3] > 0
    \/ IsIterator(w)

Table(x, t) == IF t = 0 THEN x.ht0 ELSE x.ht1

(* The keys of the bucket the iterator it is in, and of those it comes to.   *)
Here(x, it) ==
    {k \in KeysIn(Table(x, it.table)) : Bucket(Table(x, it.table), k) = it.index}

Coming(x, it) ==
    {k \in KeysIn(x.ht0) : it.table = 0 /\ Bucket(x.ht0, k) > it.index}
      \cup {k \in KeysIn(x.ht1) : it.table = 0 \/ Bucket(x.ht1, k) > it.index}

Rest(it) == it.nextEntry \cup it.after

(* Of the keys the iterator it has still to return none has been returned,   *)
(* and none that must be is missing among them.                              *)
OnTrack(x, it, m, s) ==
    /\ Rest(it) \subseteq Here(x, it)
    /\ it.nextEntry \cap it.after = {}
    /\ it.nextEntry = {} => it.after = {}
    /\ s \cap (Rest(it) \cup Coming(x, it)) = {}
    /\ s \subseteq KeysIn(x.ht0) \cup KeysIn(x.ht1)
    /\ m \subseteq s \cup Rest(it) \cup Coming(x, it)
    /\ it.done => m \subseteq s

FingerprintOf(x) == <<x.ht0.size, x.ht0.used, x.ht1.size, x.ht1.used>>

(* What lookups can have done to a dict since its fingerprint f was taken:   *)
(* nothing that shows; moved entries of the rehash that was running; or      *)
(* ended it.                                                                 *)
Marked(x, f) ==
    /\ f \in Nat \X Nat \X Nat \X Nat
    /\ \/ f = FingerprintOf(x)
       \/ f[3] > 0 /\ x.ht1.size = f[3] /\ x.ht0.used < f[2]
       \/ f[3] > 0 /\ x.ht1.size = 0

(* An iterator that has not begun has nothing behind it. *)
Fresh(it, s) == Rest(it) = {} /\ it.done = FALSE /\ s = {}

WalkInv ==
    /\ DictInv
    /\ IsWalk(walk)
    /\ d.iterators = open
    /\ open = IF Begun /\ walk.safe THEN 1 ELSE 0
    /\ walk.kind = "iterator" /\ ~Begun => Fresh(walk, seen)
    /\ Begun /\ ~walk.safe => Marked(d, walk.fingerprint)
    /\ Begun /\ ~Stale => OnTrack(d, walk, must, seen)

-----------------------------------------------------------------------------
(* Places. *)

(* A key of a table is in the bucket its hash selects, and in no other. *)
LEMMA KeyPlace ==
    ASSUME NEW ht, IsHt(ht), HtPlaced(ht)
    PROVE  /\ \A k \in KeysIn(ht) :
                /\ k \in Keys
                /\ Bucket(ht, k) \in 0 .. ht.size - 1
                /\ \E e \in ht.table[Bucket(ht, k)] : e.key = k
           /\ \A b \in 0 .. ht.size - 1 : \A e \in ht.table[b] :
                e.key \in KeysIn(ht) /\ Bucket(ht, e.key) = b
<1>1. ht.table \in [0 .. ht.size - 1 -> SUBSET Entry]
  BY DEF IsHt
<1>2. DOMAIN ht.table = 0 .. ht.size - 1
  BY <1>1
<1>3. ASSUME NEW b \in 0 .. ht.size - 1, NEW e \in ht.table[b]
      PROVE  e.key \in KeysIn(ht) /\ Bucket(ht, e.key) = b /\ e.key \in Keys
  <2>1. e \in Entries(ht)
    BY <1>2 DEF Entries
  <2>2. e \in Entry
    BY <1>1
  <2>3. Bucket(ht, e.key) = b
    BY <1>2 DEF HtPlaced
  <2> QED
    BY <2>1, <2>2, <2>3 DEF KeysIn, Entry
<1>4. ASSUME NEW k \in KeysIn(ht)
      PROVE  \E b \in 0 .. ht.size - 1 : \E e \in ht.table[b] : e.key = k
  BY <1>2 DEF KeysIn, Entries
<1> QED
  BY <1>3, <1>4

(* What the two tables of a dict give to a proof about its keys. *)
LEMMA TablesPlaced ==
    ASSUME NEW x, WellFormed(x)
    PROVE  /\ \A t \in {0, 1} : /\ IsHt(Table(x, t)) /\ HtPlaced(Table(x, t))
                                /\ Table(x, t).size \in 0 .. MaxSize
           /\ ~dictIsRehashing(x) => KeysIn(x.ht1) = {} /\ x.ht1.size = 0
           /\ dictIsRehashing(x) => x.ht1.size > 0
           /\ KeysIn(x.ht0) \cap KeysIn(x.ht1) = {}
<1>1. /\ IsHt(x.ht0) /\ HtPlaced(x.ht0) /\ IsHt(x.ht1) /\ HtPlaced(x.ht1)
  BY WellFormedFields
<1>2. ASSUME NEW ht, IsHt(ht) PROVE ht.size \in 0 .. MaxSize
  BY <1>2, DictAssumption, SizesPositive DEF IsHt
<1>3. ASSUME ~dictIsRehashing(x) PROVE KeysIn(x.ht1) = {} /\ x.ht1.size = 0
  <2>1. x.ht1 = NewHt(0)
    BY <1>3 DEF WellFormed, Shape
  <2>2. Entries(NewHt(0)) = {}
    BY EmptyTable
  <2> QED
    BY <2>1, <2>2 DEF KeysIn, NewHt
<1>4. KeysIn(x.ht0) \cap KeysIn(x.ht1) = {}
  <2> SUFFICES ASSUME NEW e \in Entries(x.ht0), NEW f \in Entries(x.ht1), e.key = f.key
               PROVE  FALSE
    BY DEF KeysIn
  <2>1. e = f
    BY WellFormedFields DEF Contents
  <2> QED
    BY <2>1, WellFormedFields
<1>5. dictIsRehashing(x) => x.ht1.size > 0
  BY RehashingFields
<1> QED
  BY <1>1, <1>2, <1>3, <1>4, <1>5 DEF Table

-----------------------------------------------------------------------------
(* Random keys. *)

(* The buckets left out by dictGetRandomKey are those a rehash has emptied.  *)
LEMMA RandomAll ==
    ASSUME NEW x, WellFormed(x)
    PROVE  RandomEntries(x) = Contents(x)
<1>1. /\ IsHt(x.ht0) /\ IsHt(x.ht1) /\ x.ht0.size \in Nat /\ x.ht1.size \in Nat
  BY WellFormedFields
<1>2. DOMAIN x.ht0.table = 0 .. x.ht0.size - 1 /\ DOMAIN x.ht1.table = 0 .. x.ht1.size - 1
  BY <1>1 DEF IsHt
<1>3. CASE ~dictIsRehashing(x)
  <2>1. Entries(x.ht1) = {}
    BY <1>3, EmptyTable DEF WellFormed, Shape
  <2>2. RandomBuckets(x) = {<<0, h>> : h \in 0 .. x.ht0.size - 1}
    BY <1>3 DEF RandomBuckets
  <2>3. \A h \in 0 .. x.ht0.size - 1 : BucketOf(x, <<0, h>>) = x.ht0.table[h]
    BY DEF BucketOf
  <2>4. RandomEntries(x) = Entries(x.ht0)
    <3>1. ASSUME NEW e \in RandomEntries(x) PROVE e \in Entries(x.ht0)
      BY <1>2, <2>2, <2>3 DEF RandomEntries, Entries
    <3>2. ASSUME NEW e \in Entries(x.ht0) PROVE e \in RandomEntries(x)
      <4>1. PICK b \in 0 .. x.ht0.size - 1 : e \in x.ht0.table[b]
        BY <1>2 DEF Entries
      <4>2. <<0, b>> \in RandomBuckets(x) /\ e \in BucketOf(x, <<0, b>>)
        BY <2>2, <2>3, <4>1
      <4> QED
        BY <4>2 DEF RandomEntries
    <3> QED
      BY <3>1, <3>2
  <2> QED
    BY <2>1, <2>4 DEF Contents
<1>4. CASE dictIsRehashing(x)
  <2> DEFINE r == x.rehashidx
             n == x.ht0.size
             m == x.ht1.size
             At(h) == IF h >= n THEN <<1, h - n>> ELSE <<0, h>>
  <2>1. /\ r \in Nat /\ r < n /\ m > 0
        /\ \A b \in 0 .. r - 1 : x.ht0.table[b] = {}
    BY <1>4, RehashingFields
  <2>2. RandomBuckets(x) = {At(h) : h \in r .. n + m - 1}
    BY <1>4 DEF RandomBuckets
  <2>3. ASSUME NEW e \in RandomEntries(x) PROVE e \in Contents(x)
    <3>1. PICK h \in r .. n + m - 1 : e \in BucketOf(x, At(h))
      BY <2>2 DEF RandomEntries
    <3>2. CASE h >= n
      <4>1. e \in x.ht1.table[h - n] /\ h - n \in 0 .. m - 1
        BY <1>1, <2>1, <3>1, <3>2 DEF BucketOf
      <4> QED
        BY <1>2, <4>1 DEF Entries, Contents
    <3>3. CASE h < n
      <4>1. e \in x.ht0.table[h] /\ h \in 0 .. n - 1
        BY <1>1, <2>1, <3>1, <3>3 DEF BucketOf
      <4> QED
        BY <1>2, <4>1 DEF Entries, Contents
    <3> QED
      BY <1>1, <2>1, <3>2, <3>3
  <2>4. ASSUME NEW e \in Contents(x) PROVE e \in RandomEntries(x)
    <3>1. CASE e \in Entries(x.ht0)
      <4>1. PICK b \in 0 .. n - 1 : e \in x.ht0.table[b]
        BY <1>2, <3>1 DEF Entries
      <4>2. b \in r .. n + m - 1 /\ At(b) = <<0, b>>
        BY <1>1, <2>1, <4>1
      <4>3. e \in BucketOf(x, At(b))
        BY <4>1, <4>2 DEF BucketOf
      <4> QED
        BY <2>2, <4>2, <4>3 DEF RandomEntries
    <3>2. CASE e \in Entries(x.ht1)
      <4>1. PICK b \in 0 .. m - 1 : e \in x.ht1.table[b]
        BY <1>2, <3>2 DEF Entries
      <4>2. n + b \in r .. n + m - 1 /\ n + b >= n /\ (n + b) - n = b
        BY <1>1, <2>1
      <4>3. At(n + b) = <<1, b>>
        BY <4>2
      <4>4. e \in BucketOf(x, At(n + b))
        BY <4>1, <4>3 DEF BucketOf
      <4> QED
        BY <2>2, <4>2, <4>4 DEF RandomEntries
    <3> QED
      BY <3>1, <3>2 DEF Contents
  <2> QED
    BY <2>3, <2>4
<1> QED
  BY <1>3, <1>4

-----------------------------------------------------------------------------
(* Iterators: one call of dictNext. *)

(* A bucket that lies ahead has a first one before it, in the order in which *)
(* dictNext visits buckets.                                                  *)
LEMMA FirstAhead ==
    ASSUME NEW it, Ahead(it) # {}
    PROVE  \E q \in Ahead(it) : \A r \in Ahead(it) :
             q[1] < r[1] \/ (q[1] = r[1] /\ q[2] <= r[2])
<1> DEFINE In(t) == {b \in 0 .. MaxSize - 1 : <<t, b>> \in Ahead(it)}
<1>1. ASSUME NEW q \in Ahead(it)
      PROVE  /\ q[1] \in {0, 1} /\ q[2] \in Nat /\ q[2] \in In(q[1])
             /\ q = <<q[1], q[2]>>
  BY DEF Ahead
<1>2. ASSUME NEW t \in {0, 1}, In(t) # {}
      PROVE  \E b \in In(t) : \A c \in In(t) : b <= c
  <2>1. In(t) \in SUBSET Nat
    OBVIOUS
  <2> HIDE DEF In
  <2> QED
    BY <1>2, <2>1, Least
<1>3. ASSUME NEW t \in {0, 1}, NEW b \in In(t) PROVE <<t, b>> \in Ahead(it)
  OBVIOUS
<1> HIDE DEF In
<1>4. CASE In(0) # {}
  <2>1. PICK b \in In(0) : \A c \in In(0) : b <= c
    BY <1>2, <1>4
  <2>2. <<0, b>> \in Ahead(it)
    BY <1>3
  <2>3. ASSUME NEW r \in Ahead(it) PROVE 0 < r[1] \/ (0 = r[1] /\ b <= r[2])
    BY <1>1, <2>1
  <2> QED
    BY <2>2, <2>3
<1>5. CASE In(0) = {}
  <2>1. In(1) # {}
    BY <1>1, <1>5
  <2>2. PICK b \in In(1) : \A c \in In(1) : b <= c
    BY <1>2, <2>1
  <2>3. <<1, b>> \in Ahead(it)
    BY <1>3
  <2>4. ASSUME NEW r \in Ahead(it) PROVE 1 = r[1] /\ b <= r[2]
    BY <1>1, <1>5, <2>2
  <2> QED
    BY <2>3, <2>4
<1> QED
  BY <1>4, <1>5

(* The keys an iterator comes to are in the buckets ahead of it. *)
LEMMA ComingAhead ==
    ASSUME NEW it, IsIterator(it), WellFormed(d), NEW k \in Coming(d, it)
    PROVE  \/ /\ k \in KeysIn(d.ht0) /\ it.table = 0
              /\ <<0, Bucket(d.ht0, k)>> \in Ahead(it)
           \/ /\ k \in KeysIn(d.ht1)
              /\ <<1, Bucket(d.ht1, k)>> \in Ahead(it)
<1>1. /\ it.table \in {0, 1} /\ it.index \in Nat \cup {-1}
  BY DEF IsIterator
<1>2. /\ IsHt(d.ht0) /\ HtPlaced(d.ht0) /\ d.ht0.size \in 0 .. MaxSize
      /\ IsHt(d.ht1) /\ HtPlaced(d.ht1) /\ d.ht1.size \in 0 .. MaxSize
      /\ KeysIn(d.ht1) # {} => dictIsRehashing(d)
      /\ MaxSize \in Nat
  BY TablesPlaced, SizesPositive DEF Table
<1>3. CASE k \in KeysIn(d.ht0) /\ it.table = 0 /\ Bucket(d.ht0, k) > it.index
  <2> DEFINE b == Bucket(d.ht0, k)
  <2>1. b \in 0 .. d.ht0.size - 1 /\ d.ht0.table[b] # {}
    BY <1>2, <1>3, KeyPlace
  <2> HIDE DEF b
  <2>2. b > it.index
    BY <1>3 DEF b
  <2>3. <<0, b>> \in Ahead(it)
    BY <1>1, <1>2, <1>3, <2>1, <2>2 DEF Ahead, Ht
  <2> QED
    BY <1>3, <2>3 DEF b
<1>4. CASE k \in KeysIn(d.ht1) /\ (it.table = 0 \/ Bucket(d.ht1, k) > it.index)
  <2> DEFINE b == Bucket(d.ht1, k)
  <2>1. b \in 0 .. d.ht1.size - 1 /\ d.ht1.table[b] # {} /\ dictIsRehashing(d)
    BY <1>2, <1>4, KeyPlace
  <2> HIDE DEF b
  <2>2. it.table = 0 \/ b > it.index
    BY <1>4 DEF b
  <2>3. <<1, b>> \in Ahead(it)
    BY <1>1, <1>2, <1>4, <2>1, <2>2 DEF Ahead, Ht
  <2> QED
    BY <1>4, <2>3 DEF b
<1> QED
  BY <1>3, <1>4 DEF Coming

(* dictNext goes on in its chain, or to the first chain ahead, or ends.  In  *)
(* each case what it returns and what is left were to come, all of it.       *)
LEMMA AdvanceSplits ==
    ASSUME NEW it, IsIterator(it), WellFormed(d),
           Rest(it) \subseteq Here(d, it), it.nextEntry \cap it.after = {},
           it.nextEntry = {} => it.after = {},
           NEW a \in Advances(it), NEW to, to.table = a.table, to.index = a.index
    PROVE  /\ a.table \in {0, 1} /\ a.index \in Nat
           /\ a.entry \cup a.rest \subseteq Here(d, to)
           /\ a.entry \cap a.rest = {}
           /\ Rest(it) \cup Coming(d, it) = a.entry \cup a.rest \cup Coming(d, to)
           /\ a.entry = {} => Rest(it) \cup Coming(d, it) = {}
<1>1. /\ it.table \in {0, 1} /\ it.index \in Nat \cup {-1}
  BY DEF IsIterator
<1>2. /\ \A t \in {0, 1} : IsHt(Ht(t)) /\ HtPlaced(Ht(t)) /\ Ht(t).size \in 0 .. MaxSize
      /\ ~dictIsRehashing(d) => KeysIn(d.ht1) = {}
      /\ KeysIn(d.ht0) \cap KeysIn(d.ht1) = {}
      /\ MaxSize \in Nat /\ d.ht0.size \in Nat /\ d.ht1.size \in Nat
  BY TablesPlaced, SizesPositive, WellFormedFields DEF Table, Ht
<1>3. \A t \in {0, 1} : \A k \in KeysIn(Ht(t)) :
         /\ Bucket(Ht(t), k) \in 0 .. Ht(t).size - 1
         /\ \E e \in Ht(t).table[Bucket(Ht(t), k)] : e.key = k
  BY <1>2, KeyPlace
<1>4. CASE it.nextEntry # {}
  <2>1. /\ a.table = it.table /\ a.index = it.index
        /\ a.entry = it.nextEntry /\ a.rest = it.after
    BY <1>4 DEF Advances
  <2>2. PICK k \in Here(d, it) : TRUE
    BY <1>4 DEF Rest
  <2>3. it.index \in Nat
    BY <1>1, <1>3, <2>2 DEF Here, Table, Ht
  <2>4. Here(d, to) = Here(d, it) /\ Coming(d, to) = Coming(d, it)
    BY <2>1 DEF Here, Coming
  <2> QED
    BY <1>1, <1>4, <2>1, <2>3, <2>4 DEF Rest
<1>5. CASE it.nextEntry = {} /\ Ahead(it) = {}
  <2>1. Rest(it) = {}
    BY <1>5 DEF Rest
  <2>2. Coming(d, it) = {}
    BY <1>5, ComingAhead
  <2>3. /\ a.table = PastEnd(it)[1] /\ a.index = PastEnd(it)[2]
        /\ a.entry = {} /\ a.rest = {}
    BY <1>5 DEF Advances
  <2>4. /\ a.table \in {0, 1} /\ a.index \in Nat /\ a.index = Ht(a.table).size
        /\ a.table = 0 => it.table = 0 /\ ~dictIsRehashing(d)
    <3>1. CASE it.table = 0 /\ dictIsRehashing(d)
      BY <1>2, <2>3, <3>1 DEF PastEnd, Ht
    <3>2. CASE ~(it.table = 0 /\ dictIsRehashing(d))
      <4>1. a.table = it.table /\ a.index = Ht(it.table).size
        BY <2>3, <3>2 DEF PastEnd
      <4> QED
        BY <1>1, <1>2, <3>2, <4>1 DEF Ht
    <3> QED
      BY <3>1, <3>2
  <2>5. Coming(d, to) = {}
    <3>1. ASSUME NEW k \in KeysIn(d.ht0) PROVE ~(a.table = 0 /\ Bucket(d.ht0, k) > a.index)
      BY <1>2, <1>3, <2>4 DEF Ht
    <3>2. ASSUME NEW k \in KeysIn(d.ht1) PROVE ~(a.table = 0 \/ Bucket(d.ht1, k) > a.index)
      BY <1>2, <1>3, <2>4 DEF Ht
    <3> QED
      BY <3>1, <3>2 DEF Coming
  <2> QED
    BY <2>1, <2>2, <2>3, <2>4, <2>5
<1>6. CASE it.nextEntry = {} /\ Ahead(it) # {}
  <2> DEFINE p == CHOOSE q \in Ahead(it) : \A r \in Ahead(it) :
                    q[1] < r[1] \/ (q[1] = r[1] /\ q[2] <= r[2])
             chain == {e.key : e \in Ht(p[1]).table[p[2]]}
  <2>1. /\ p \in Ahead(it)
        /\ \A r \in Ahead(it) : p[1] < r[1] \/ (p[1] = r[1] /\ p[2] <= r[2])
    BY <1>6, FirstAhead
  <2>2. /\ a.table = p[1] /\ a.index = p[2]
        /\ a.entry \cup a.rest = chain /\ a.entry \cap a.rest = {} /\ a.entry # {}
    <3>1. Advances(it) = {[table |-> p[1], index |-> p[2],
                           entry |-> {k}, rest |-> chain \ {k}] : k \in chain}
      BY <1>6 DEF Advances
    <3> HIDE DEF p, chain
    <3>2. PICK k \in chain : a = [table |-> p[1], index |-> p[2],
                                  entry |-> {k}, rest |-> chain \ {k}]
      BY <3>1
    <3> QED
      BY <3>2
  <2> HIDE DEF p
  <2>3. /\ p[1] \in {0, 1} /\ p[2] \in Nat /\ p[2] < Ht(p[1]).size
        /\ p[1] >= it.table /\ (p[1] = it.table => p[2] > it.index)
    BY <2>1 DEF Ahead
  <2>4. chain = {k \in KeysIn(Ht(p[1])) : Bucket(Ht(p[1]), k) = p[2]}
    <3>1. p[2] \in 0 .. Ht(p[1]).size - 1
      BY <1>2, <2>3
    <3>2. \A e \in Ht(p[1]).table[p[2]] :
             e.key \in KeysIn(Ht(p[1])) /\ Bucket(Ht(p[1]), e.key) = p[2]
      BY <1>2, <2>3, <3>1, KeyPlace
    <3> QED
      BY <1>3, <2>3, <3>2
  <2> HIDE DEF chain
  <2>5. Here(d, to) = chain
    BY <2>2, <2>4 DEF Here, Table, Ht
  <2>6. ASSUME NEW k \in Coming(d, it) PROVE k \in chain \cup Coming(d, to)
    <3>1. CASE k \in KeysIn(d.ht0) /\ it.table = 0 /\ <<0, Bucket(d.ht0, k)>> \in Ahead(it)
      <4>1. p[1] = 0 /\ p[2] <= Bucket(d.ht0, k)
        BY <2>1, <2>3, <3>1
      <4>2. Bucket(d.ht0, k) \in Nat
        BY <1>2, <1>3, <3>1 DEF Ht
      <4> QED
        BY <2>2, <2>3, <2>4, <3>1, <4>1, <4>2 DEF Coming, Ht
    <3>2. CASE k \in KeysIn(d.ht1) /\ <<1, Bucket(d.ht1, k)>> \in Ahead(it)
      <4>1. p[1] = 0 \/ (p[1] = 1 /\ p[2] <= Bucket(d.ht1, k))
        BY <2>1, <2>3, <3>2
      <4>2. Bucket(d.ht1, k) \in Nat
        BY <1>2, <1>3, <3>2 DEF Ht
      <4> QED
        BY <2>2, <2>3, <2>4, <3>2, <4>1, <4>2 DEF Coming, Ht
    <3> QED
      BY <3>1, <3>2, ComingAhead
  <2>7. ASSUME NEW k \in chain \cup Coming(d, to) PROVE k \in Coming(d, it)
    <3>1. CASE k \in KeysIn(d.ht0)
      <4>1. Bucket(d.ht0, k) \in Nat /\ k \notin KeysIn(d.ht1)
        BY <1>2, <1>3, <3>1 DEF Ht
      <4>2. a.table = 0 /\ Bucket(d.ht0, k) >= a.index
        BY <2>2, <2>3, <2>4, <2>7, <4>1 DEF Coming, Ht
      <4>3. it.table = 0 /\ Bucket(d.ht0, k) > it.index
        BY <1>1, <2>2, <2>3, <4>1, <4>2
      <4> QED
        BY <3>1, <4>3 DEF Coming
    <3>2. CASE k \in KeysIn(d.ht1)
      <4>1. Bucket(d.ht1, k) \in Nat /\ k \notin KeysIn(d.ht0)
        BY <1>2, <1>3, <3>2 DEF Ht
      <4>2. a.table = 0 \/ Bucket(d.ht1, k) >= a.index
        BY <2>2, <2>3, <2>4, <2>7, <4>1 DEF Coming, Ht
      <4>3. it.table = 0 \/ Bucket(d.ht1, k) > it.index
        BY <1>1, <2>2, <2>3, <4>1, <4>2
      <4> QED
        BY <3>2, <4>3 DEF Coming
    <3> QED
      BY <2>3, <2>4, <2>7, <3>1, <3>2 DEF Coming, Ht
  <2>8. Coming(d, it) = chain \cup Coming(d, to) /\ Rest(it) = {}
    BY <1>6, <2>6, <2>7 DEF Rest
  <2> QED
    BY <2>2, <2>3, <2>5, <2>8
<1> QED
  BY <1>4, <1>5, <1>6

(* The iterator dictNext leaves is on track, and what it returned is new. *)
LEMMA ReturnOnTrack ==
    ASSUME NEW it, IsIterator(it), WellFormed(d), NEW m, NEW s,
           OnTrack(d, it, m, s), NEW a \in Advances(it), NEW next \in Heads(a.rest),
           NEW to, IsIterator(to), to.table = a.table, to.index = a.index,
           to.nextEntry = next, to.after = a.rest \ next,
           to.done => a.entry = {}
    PROVE  OnTrack(d, to, m, s \cup a.entry) /\ a.entry \cap s = {}
<1>1. /\ Rest(it) \subseteq Here(d, it) /\ it.nextEntry \cap it.after = {}
      /\ it.nextEntry = {} => it.after = {}
      /\ s \cap (Rest(it) \cup Coming(d, it)) = {}
      /\ s \subseteq KeysIn(d.ht0) \cup KeysIn(d.ht1)
      /\ m \subseteq s \cup Rest(it) \cup Coming(d, it)
  BY DEF OnTrack
<1>2. /\ a.entry \cup a.rest \subseteq Here(d, to) /\ a.entry \cap a.rest = {}
      /\ Rest(it) \cup Coming(d, it) = a.entry \cup a.rest \cup Coming(d, to)
      /\ a.entry = {} => Rest(it) \cup Coming(d, it) = {}
  BY <1>1, AdvanceSplits
<1>3. next \subseteq a.rest /\ (next = {} => a.rest = {})
  BY DEF Heads
<1>4. Rest(to) = a.rest /\ to.nextEntry \cap to.after = {}
  BY <1>3 DEF Rest
<1>5. Here(d, to) \cap Coming(d, to) = {}
  <2>1. to.table \in {0, 1} /\ to.index \in Nat \cup {-1}
    BY DEF IsIterator
  <2>2. KeysIn(d.ht0) \cap KeysIn(d.ht1) = {}
    BY TablesPlaced
  <2> QED
    BY <2>1, <2>2 DEF Here, Coming, Table
<1>6. Here(d, to) \subseteq KeysIn(d.ht0) \cup KeysIn(d.ht1)
  BY DEF Here, Table
<1>7. (s \cup a.entry) \cap (Rest(to) \cup Coming(d, to)) = {}
  BY <1>1, <1>2, <1>4, <1>5
<1>8. /\ s \cup a.entry \subseteq KeysIn(d.ht0) \cup KeysIn(d.ht1)
      /\ m \subseteq (s \cup a.entry) \cup Rest(to) \cup Coming(d, to)
      /\ Rest(to) \subseteq Here(d, to)
      /\ to.nextEntry = {} => to.after = {}
  BY <1>1, <1>2, <1>3, <1>4, <1>6
<1>9. a.entry = {} => m \subseteq s \cup a.entry
  BY <1>1, <1>2
<1> QED
  BY <1>1, <1>2, <1>4, <1>7, <1>8, <1>9 DEF OnTrack

-----------------------------------------------------------------------------
(* Iterators: the calls between two calls of dictNext. *)

(* Nothing of the table a has gone from b, which has other buckets only if a *)
(* held nothing.                                                             *)
Grown(a, b) ==
    KeysIn(a) \subseteq KeysIn(b) /\ (b.size = a.size \/ KeysIn(a) = {})

(* y is x with keys added that were in neither table. *)
GrownFrom(x, y) ==
    /\ Grown(x.ht0, y.ht0) /\ Grown(x.ht1, y.ht1)
    /\ NotMoved(x, y)

(* A key that is added was not returned before, so an iterator stays on      *)
(* track whether it will come to the key or not.                             *)
LEMMA GrownTrack ==
    ASSUME NEW x, NEW y, GrownFrom(x, y), NEW it, it.table \in {0, 1},
           NEW m, NEW s, OnTrack(x, it, m, s)
    PROVE  OnTrack(y, it, m, s)
<1>1. /\ KeysIn(x.ht0) \subseteq KeysIn(y.ht0) /\ KeysIn(x.ht1) \subseteq KeysIn(y.ht1)
      /\ \A k \in KeysIn(x.ht0) : Bucket(y.ht0, k) = Bucket(x.ht0, k) /\ k \notin KeysIn(y.ht1)
      /\ \A k \in KeysIn(x.ht1) : Bucket(y.ht1, k) = Bucket(x.ht1, k) /\ k \notin KeysIn(y.ht0)
  BY DEF GrownFrom, Grown, NotMoved, Bucket
<1>2. Here(x, it) \subseteq Here(y, it) /\ Coming(x, it) \subseteq Coming(y, it)
  BY <1>1 DEF Here, Coming, Table
<1>3. ASSUME NEW k \in Coming(y, it), k \in KeysIn(x.ht0) \cup KeysIn(x.ht1)
      PROVE  k \in Coming(x, it)
  BY <1>1, <1>3 DEF Coming
<1>4. s \cap Coming(y, it) = {}
  BY <1>3 DEF OnTrack
<1> QED
  BY <1>1, <1>2, <1>4 DEF OnTrack

(* T is S without k, and y is x without the key k. *)
Less(S, T, k) == T = S \ {k}

ShrunkFrom(x, y, k) ==
    /\ y.ht0.size = x.ht0.size /\ y.ht1.size = x.ht1.size
    /\ Less(KeysIn(x.ht0), KeysIn(y.ht0), k)
    /\ Less(KeysIn(x.ht1), KeysIn(y.ht1), k)

(* to is the iterator it, which has not saved k, after the deletion of k. *)
Spares(it, to, k) ==
    /\ it.table \in {0, 1} /\ k \notin it.nextEntry
    /\ to.table = it.table /\ to.index = it.index /\ to.done = it.done
    /\ to.nextEntry = it.nextEntry /\ to.after = it.after \ {k}

(* A key that is deleted is neither returned nor owed any more. *)
LEMMA ShrunkTrack ==
    ASSUME NEW x, NEW y, NEW k, ShrunkFrom(x, y, k),
           NEW it, NEW to, Spares(it, to, k),
           NEW m, NEW s, OnTrack(x, it, m, s),
           NEW mm, NEW ss, Less(m, mm, k), Less(s, ss, k)
    PROVE  OnTrack(y, to, mm, ss)
<1>1. /\ \A l : Bucket(y.ht0, l) = Bucket(x.ht0, l)
      /\ \A l : Bucket(y.ht1, l) = Bucket(x.ht1, l)
      /\ KeysIn(y.ht0) = KeysIn(x.ht0) \ {k} /\ KeysIn(y.ht1) = KeysIn(x.ht1) \ {k}
  BY DEF Bucket, ShrunkFrom, Less
<1>2. Here(y, to) = Here(x, it) \ {k} /\ Coming(y, to) = Coming(x, it) \ {k}
  BY <1>1 DEF Here, Coming, Table, Spares
<1>3. Rest(to) = Rest(it) \ {k}
  BY DEF Rest, Spares
<1>4. /\ mm = m \ {k} /\ ss = s \ {k} /\ to.after = it.after \ {k}
      /\ to.nextEntry = it.nextEntry /\ to.done = it.done /\ k \notin it.nextEntry
  BY DEF Less, Spares
<1> QED
  BY <1>1, <1>2, <1>3, <1>4 DEF OnTrack

(* Keys that were in one table and are still bound are still in that table.  *)
LEMMA StillThere ==
    ASSUME NEW x, NEW y, NotMoved(x, y),
           \A e \in Contents(x) : \E f \in Contents(y) : f.key = e.key,
           y.ht0.size = x.ht0.size \/ KeysIn(x.ht0) = {},
           y.ht1.size = x.ht1.size \/ KeysIn(x.ht1) = {}
    PROVE  GrownFrom(x, y)
<1>1. KeysIn(x.ht0) \cup KeysIn(x.ht1) \subseteq KeysIn(y.ht0) \cup KeysIn(y.ht1)
  <2> SUFFICES ASSUME NEW e \in Contents(x) PROVE e.key \in KeysIn(y.ht0) \cup KeysIn(y.ht1)
    BY DEF KeysIn, Contents
  <2>1. PICK f \in Contents(y) : f.key = e.key
    OBVIOUS
  <2> QED
    BY <2>1 DEF KeysIn, Contents
<1> QED
  BY <1>1 DEF GrownFrom, Grown, NotMoved

(* Additions and replacements while rehashing is suspended. *)
LEMMA AddGrows ==
    ASSUME NEW x, WellFormed(x), x.iterators # 0, NEW can \in BOOLEAN,
           NEW k \in Keys, NEW v \in Vals,
           NEW y, y = dictAdd(x, k, v, can) \/ y = dictReplace(x, k, v, can)
    PROVE  GrownFrom(x, y)
<1> DEFINE p == Prepared(x, can)
           M == {e \in Contents(x) : e.key = k}
           n == [key |-> k, val |-> v]
<1>1. NotMoved(x, y)
  BY AddStays
<1>2. ASSUME NEW e \in Contents(x) PROVE \E f \in Contents(y) : f.key = e.key
  <2>1. CASE y = dictAdd(x, k, v, can)
    <3>1. Contents(y) = IF M = {} THEN Contents(x) \cup {n} ELSE Contents(x)
      BY <2>1, AddCorrect
    <3>2. e \in Contents(y)
      BY <3>1
    <3> QED
      BY <3>2
  <2>2. CASE y = dictReplace(x, k, v, can)
    <3>1. Contents(y) = (Contents(x) \ M) \cup {n}
      BY <2>2, ReplaceCorrect
    <3>2. CASE e.key = k
      <4>1. n \in Contents(y) /\ n.key = e.key
        BY <3>1, <3>2
      <4> QED
        BY <4>1
    <3>3. CASE e.key # k
      <4>1. e \in Contents(y)
        BY <3>1, <3>3
      <4> QED
        BY <4>1
    <3> QED
      BY <3>2, <3>3
  <2> QED
    BY <2>1, <2>2
<1>3. y.ht0.size = p.ht0.size /\ y.ht1.size = p.ht1.size
  BY UpdatesKeepShape DEF SameShape
<1>4. p = ExpandIfNeeded(x, can)
  BY DEF Prepared, RehashStep
<1> HIDE DEF p
<1>5. \/ p = x
      \/ ~dictIsRehashing(x) /\ x.ht0.size = 0
      \/ ~dictIsRehashing(x) /\ p.ht0.size = x.ht0.size
  BY <1>4, ExpandShape
<1>6. ~dictIsRehashing(x) => KeysIn(x.ht1) = {}
  BY TablesPlaced
<1>7. x.ht0.size = 0 => KeysIn(x.ht0) = {}
  <2>1. IsHt(x.ht0) /\ HtPlaced(x.ht0)
    BY WellFormedFields
  <2> QED
    BY <2>1, KeyPlace
<1>8. /\ y.ht0.size = x.ht0.size \/ KeysIn(x.ht0) = {}
      /\ y.ht1.size = x.ht1.size \/ KeysIn(x.ht1) = {}
  BY <1>3, <1>5, <1>6, <1>7
<1> QED
  BY <1>1, <1>2, <1>8, StillThere

(* Expansions, by dictExpand or dictResize: a second table, empty. *)
LEMMA ExpandGrows ==
    ASSUME NEW x, WellFormed(x), NEW n \in Nat, NEW y, y = dictExpand(x, n)
    PROVE  GrownFrom(x, y)
<1>1. Entries(y.ht0) = Entries(x.ht0) /\ Entries(y.ht1) = Entries(x.ht1)
  BY ExpandEntries
<1>2. KeysIn(y.ht0) = KeysIn(x.ht0) /\ KeysIn(y.ht1) = KeysIn(x.ht1)
  BY <1>1 DEF KeysIn
<1>3. NotMoved(x, y)
  BY <1>2, NoneGained
<1>4. \/ y = x
      \/ ~dictIsRehashing(x) /\ x.ht0.size = 0
      \/ ~dictIsRehashing(x) /\ y.ht0 = x.ht0
  BY DEF dictExpand, dictExpandErr, WithHt0, WithTables
<1>5. ~dictIsRehashing(x) => KeysIn(x.ht1) = {}
  BY TablesPlaced
<1>6. x.ht0.size = 0 => KeysIn(x.ht0) = {}
  <2>1. IsHt(x.ht0) /\ HtPlaced(x.ht0)
    BY WellFormedFields
  <2> QED
    BY <2>1, KeyPlace
<1> QED
  BY <1>2, <1>3, <1>4, <1>5, <1>6 DEF GrownFrom, Grown

(* Deletions while rehashing is suspended. *)
LEMMA DeleteShrinks ==
    ASSUME NEW x, WellFormed(x), x.iterators # 0, NEW k \in Keys,
           NEW y, y = dictDelete(x, k)
    PROVE  ShrunkFrom(x, y, k)
<1> DEFINE M == {e \in Contents(x) : e.key = k}
<1>1. AfterFind(x) = x
  BY DEF AfterFind, RehashStep
<1>2. y.ht0.size = x.ht0.size /\ y.ht1.size = x.ht1.size
  BY <1>1, UpdatesKeepShape DEF SameShape
<1>3. KeysIn(y.ht0) \subseteq KeysIn(x.ht0) /\ KeysIn(y.ht1) \subseteq KeysIn(x.ht1)
  BY <1>1, DeletedKeys
<1>4. Contents(y) = Contents(x) \ M
  BY DeleteCorrect
<1>5. KeysIn(y.ht0) \cup KeysIn(y.ht1) = (KeysIn(x.ht0) \cup KeysIn(x.ht1)) \ {k}
  <2>1. ASSUME NEW z PROVE KeysIn(z.ht0) \cup KeysIn(z.ht1) = {e.key : e \in Contents(z)}
    BY DEF KeysIn, Contents
  <2>2. {e.key : e \in Contents(y)} = {e.key : e \in Contents(x)} \ {k}
    BY <1>4
  <2> QED
    BY <2>1, <2>2
<1>6. KeysIn(x.ht0) \cap KeysIn(x.ht1) = {}
  BY TablesPlaced
<1> QED
  BY <1>2, <1>3, <1>5, <1>6 DEF ShrunkFrom, Less

(* A rehash step that does not end the rehash takes entries from ht0. *)
LEMMA RehashTakes ==
    ASSUME NEW x, WellFormed(x), dictIsRehashing(x), NEW n \in Nat \ {0},
           NEW y, y = dictRehash(x, n), dictIsRehashing(y)
    PROVE  Entries(y.ht0) \subseteq Entries(x.ht0)
<1> DEFINE e == RehashEnd(x, n)
           m == MoveBuckets(x, e)
<1>1. y = m
  BY DEF dictRehash, FinishRehash, WithTables, dictIsRehashing
<1>2. m.ht0 = TakeBuckets(x.ht0, x.rehashidx .. e - 1)
  BY DEF MoveBuckets, WithTables
<1>3. DOMAIN x.ht0.table = 0 .. x.ht0.size - 1
  BY WellFormedFields DEF IsHt
<1> HIDE DEF e, m
<1> QED
  BY <1>1, <1>2, <1>3 DEF TakeBuckets, Entries

(* A lookup leaves the dict as it is, or moves entries from ht0, which its   *)
(* counter shows, or ends the rehash.                                        *)
LEMMA LookupEffect ==
    ASSUME NEW x, WellFormed(x), NEW y, y = AfterFind(x)
    PROVE  \/ /\ FingerprintOf(y) = FingerprintOf(x)
              /\ KeysIn(y.ht0) = KeysIn(x.ht0) /\ KeysIn(y.ht1) = KeysIn(x.ht1)
           \/ x.ht1.size > 0 /\ y.ht1.size = x.ht1.size /\ y.ht0.used < x.ht0.used
           \/ x.ht1.size > 0 /\ y.ht1.size = 0
<1>1. WellFormed(y) /\ Contents(y) = Contents(x)
  BY RehashStepPreserves DEF AfterFind
<1>2. CASE y = x
  BY <1>2
<1>3. CASE y # x
  <2>1. dictIsRehashing(x) /\ y = dictRehash(x, 1)
    BY <1>3 DEF AfterFind, RehashStep, dictRehash
  <2>2. x.ht1.size > 0
    BY <2>1, RehashingFields
  <2>3. CASE ~dictIsRehashing(y)
    BY <1>1, <2>2, <2>3, TablesPlaced
  <2>4. CASE dictIsRehashing(y)
    <3>1. 1 \in Nat \ {0}
      OBVIOUS
    <3>2. Entries(y.ht0) \subseteq Entries(x.ht0)
      BY <2>1, <2>4, <3>1, RehashTakes
    <3>3. y.ht0.size = x.ht0.size /\ y.ht1.size = x.ht1.size
      BY <2>1, <2>4, <3>1, RehashAdvances
    <3>4. /\ HtUsed(x.ht0) /\ HtUsed(y.ht0) /\ HtUsed(x.ht1) /\ HtUsed(y.ht1)
          /\ x.ht0.used \in Nat /\ y.ht0.used \in Nat
          /\ Entries(x.ht0) \cap Entries(x.ht1) = {}
          /\ Entries(y.ht0) \cap Entries(y.ht1) = {}
      BY <1>1, WellFormedFields
    <3>5. CASE Entries(y.ht0) = Entries(x.ht0)
      <4>1. Entries(y.ht1) = Entries(x.ht1)
        BY <1>1, <3>4, <3>5 DEF Contents
      <4>2. y.ht0.used = x.ht0.used /\ y.ht1.used = x.ht1.used
        BY <3>4, <3>5, <4>1 DEF HtUsed
      <4> QED
        BY <3>3, <3>5, <4>1, <4>2 DEF FingerprintOf, KeysIn
    <3>6. CASE Entries(y.ht0) # Entries(x.ht0)
      <4> DEFINE A == Entries(y.ht0)
                 B == Entries(x.ht0)
      <4>1. IsFiniteSet(B) /\ A \subseteq B /\ A # B
        BY <3>2, <3>4, <3>6 DEF HtUsed
      <4>2. Cardinality(A) < Cardinality(B)
        <5> HIDE DEF A, B
        <5>1. Cardinality(A) <= Cardinality(B)
          BY <4>1, FS_Subset
        <5>2. Cardinality(A) # Cardinality(B)
          BY <4>1, FS_Subset
        <5>3. Cardinality(A) \in Nat /\ Cardinality(B) \in Nat
          BY <4>1, FS_Subset, FS_CardinalityType
        <5> QED
          BY <5>1, <5>2, <5>3
      <4>3. y.ht0.used < x.ht0.used
        BY <3>4, <4>2 DEF HtUsed
      <4> QED
        BY <2>2, <3>3, <4>3
    <3> QED
      BY <3>5, <3>6
  <2> QED
    BY <2>3, <2>4
<1> QED
  BY <1>2, <1>3

(* So a fingerprint that still fits means that nothing has moved since, and  *)
(* one that does not was taken during a rehash.                              *)
LEMMA LookupMarks ==
    ASSUME NEW x, WellFormed(x), NEW y, y = AfterFind(x), NEW f, Marked(x, f)
    PROVE  /\ Marked(y, f)
           /\ f = FingerprintOf(y) =>
                /\ f = FingerprintOf(x)
                /\ KeysIn(y.ht0) = KeysIn(x.ht0) /\ KeysIn(y.ht1) = KeysIn(x.ht1)
<1>1. WellFormed(y)
  BY RehashStepPreserves DEF AfterFind
<1>2. /\ x.ht0.used \in Nat /\ y.ht0.used \in Nat /\ x.ht1.size \in Nat /\ y.ht1.size \in Nat
      /\ x.ht1.used \in Nat /\ y.ht1.used \in Nat /\ x.ht0.size \in Nat /\ y.ht0.size \in Nat
  BY <1>1, WellFormedFields
<1>3. f[1] \in Nat /\ f[2] \in Nat /\ f[3] \in Nat /\ f[4] \in Nat
  BY DEF Marked
<1>4. /\ FingerprintOf(x)[2] = x.ht0.used /\ FingerprintOf(x)[3] = x.ht1.size
      /\ FingerprintOf(y)[2] = y.ht0.used /\ FingerprintOf(y)[3] = y.ht1.size
  BY DEF FingerprintOf
<1>5. CASE /\ FingerprintOf(y) = FingerprintOf(x)
           /\ KeysIn(y.ht0) = KeysIn(x.ht0) /\ KeysIn(y.ht1) = KeysIn(x.ht1)
  <2>1. y.ht0.used = x.ht0.used /\ y.ht1.size = x.ht1.size
    BY <1>4, <1>5
  <2> QED
    BY <1>5, <2>1 DEF Marked
<1>6. CASE x.ht1.size > 0 /\ y.ht1.size = x.ht1.size /\ y.ht0.used < x.ht0.used
  <2>1. f[3] > 0 /\ y.ht1.size = f[3] /\ y.ht0.used < f[2]
    BY <1>2, <1>3, <1>4, <1>6 DEF Marked
  <2>2. f # FingerprintOf(y)
    BY <1>2, <1>3, <1>4, <2>1
  <2> QED
    BY <2>1, <2>2 DEF Marked
<1>7. CASE x.ht1.size > 0 /\ y.ht1.size = 0
  <2>1. f[3] > 0
    BY <1>2, <1>3, <1>4, <1>7 DEF Marked
  <2>2. f # FingerprintOf(y)
    BY <1>4, <1>7, <2>1
  <2> QED
    BY <1>7, <2>1, <2>2 DEF Marked
<1> QED
  BY <1>5, <1>6, <1>7, LookupEffect

(* The rehash steps of dictGetSomeKeys, one after the other. *)
StepsFrom(x, f, i) == IF i = 0 THEN x ELSE RehashStep(f[i - 1])

(* The function that Stepped defines by recursion exists. *)
LEMMA StepsExist ==
    ASSUME NEW x, NEW n \in Nat
    PROVE  \E f : f = [i \in 0 .. n |-> StepsFrom(x, f, i)]
<1> DEFINE Bad == {m \in Nat : ~ \E f : f = [i \in 0 .. m |-> StepsFrom(x, f, i)]}
<1> SUFFICES ASSUME Bad # {} PROVE FALSE
  OBVIOUS
<1>1. PICK m \in Bad : \A k \in Bad : m <= k
  BY Least
<1>2. m # 0
  <2> DEFINE f == [i \in 0 .. 0 |-> x]
  <2>1. f = [i \in 0 .. 0 |-> StepsFrom(x, f, i)]
    BY DEF StepsFrom
  <2> QED
    BY <2>1
<1>3. m - 1 \in Nat /\ m - 1 \notin Bad
  BY <1>1, <1>2
<1>4. PICK f : f = [i \in 0 .. m - 1 |-> StepsFrom(x, f, i)]
  BY <1>3
<1> DEFINE g == [i \in 0 .. m |-> IF i = m THEN StepsFrom(x, f, m) ELSE f[i]]
<1>5. ASSUME NEW i \in 0 .. m PROVE g[i] = StepsFrom(x, g, i)
  <2>1. CASE i = m
    BY <1>2, <1>3, <2>1 DEF StepsFrom
  <2>2. CASE i < m
    <3>1. f[i] = StepsFrom(x, f, i)
      BY <1>3, <1>4, <2>2
    <3>2. i # 0 => g[i - 1] = f[i - 1]
      BY <2>2
    <3>3. StepsFrom(x, f, i) = StepsFrom(x, g, i)
      BY <3>2 DEF StepsFrom
    <3> QED
      BY <2>2, <3>1, <3>3
  <2> QED
    BY <2>1, <2>2
<1>6. g = [i \in 0 .. m |-> StepsFrom(x, g, i)]
  BY <1>5
<1> QED
  BY <1>1, <1>6

(* They bind nothing new, lose nothing, and are none while an iterator is    *)
(* counted.                                                                  *)
LEMMA SteppedPreserves ==
    ASSUME WellFormed(d), NEW n \in Nat
    PROVE  /\ WellFormed(Stepped(n)) /\ Contents(Stepped(n)) = Contents(d)
           /\ Stepped(n).iterators = d.iterators
           /\ d.iterators # 0 => Stepped(n) = d
<1> DEFINE f == CHOOSE g : g = [i \in 0 .. n |-> StepsFrom(d, g, i)]
           Good(y) == /\ WellFormed(y) /\ Contents(y) = Contents(d)
                      /\ y.iterators = d.iterators
                      /\ d.iterators # 0 => y = d
           Bad == {i \in 0 .. n : ~Good(f[i])}
<1>1. f = [i \in 0 .. n |-> StepsFrom(d, f, i)]
  BY StepsExist
<1>2. Stepped(n) = f[n]
  BY DEF Stepped, StepsFrom
<1> HIDE DEF f
<1>3. ASSUME Bad # {} PROVE FALSE
  <2>1. PICK m \in Bad : \A k \in Bad : m <= k
    <3>1. Bad \in SUBSET Nat
      OBVIOUS
    <3> QED
      BY <1>3, <3>1, Least
  <2>2. m # 0
    <3>1. f[0] = d
      BY <1>1 DEF StepsFrom
    <3>2. Good(f[0])
      BY <3>1
    <3> QED
      BY <2>1, <3>2
  <2> HIDE DEF Good
  <2>3. m \in 1 .. n /\ m - 1 \in 0 .. n /\ Good(f[m - 1])
    BY <2>1, <2>2
  <2>4. f[m] = RehashStep(f[m - 1])
    <3>1. m \in 0 .. n /\ m # 0
      BY <2>3
    <3> QED
      BY <1>1, <3>1 DEF StepsFrom
  <2>5. Good(RehashStep(f[m - 1]))
    <3> DEFINE y == f[m - 1]
    <3>1. /\ WellFormed(y) /\ Contents(y) = Contents(d)
          /\ y.iterators = d.iterators
          /\ d.iterators # 0 => y = d
      BY <2>3 DEF Good
    <3> HIDE DEF y
    <3>2. /\ WellFormed(RehashStep(y)) /\ Contents(RehashStep(y)) = Contents(y)
          /\ RehashStep(y).iterators = y.iterators
      BY <3>1, RehashStepPreserves
    <3>3. d.iterators # 0 => RehashStep(y) = d
      BY <3>1 DEF RehashStep
    <3>4. Good(RehashStep(y))
      BY <3>1, <3>2, <3>3 DEF Good
    <3> QED
      BY <3>4 DEF y
  <2> QED
    BY <2>1, <2>4, <2>5
<1>4. Good(f[n])
  <2> HIDE DEF Good
  <2> QED
    BY <1>3
<1> QED
  BY <1>2, <1>4

-----------------------------------------------------------------------------
(* The invariant is inductive. *)

LEMMA GrownSelf ==
    ASSUME NEW x, WellFormed(x)
    PROVE  GrownFrom(x, x)
  BY TablesPlaced DEF GrownFrom, Grown, NotMoved

(* Calls that leave the traversal alone: under a safe iterator they only add *)
(* keys, under an unsafe one they are lookups.                               *)
LEMMA SameWalk ==
    ASSUME WalkInv, DictInv', d'.iterators = d.iterators, open' = open, walk' = walk,
           ~Begun => seen' = seen \/ seen' = {},
           Begun => must' = must /\ seen' = seen,
           Begun /\ walk.safe => GrownFrom(d, d'),
           Begun /\ ~walk.safe => d' = AfterFind(d)
    PROVE  WalkInv'
<1>1. /\ WellFormed(d) /\ WellFormed(d')
      /\ (Begun' <=> Begun)
      /\ (Stale' <=> Begun /\ ~walk.safe /\ walk.fingerprint # FingerprintOf(d'))
      /\ (Stale <=> Begun /\ ~walk.safe /\ walk.fingerprint # FingerprintOf(d))
  BY DEF WalkInv, DictInv, Begun, Stale, dictFingerprint, FingerprintOf
<1>2. IsWalk(walk') /\ d'.iterators = open' /\ open' = IF Begun' /\ walk'.safe THEN 1 ELSE 0
  BY <1>1 DEF WalkInv
<1>3. walk'.kind = "iterator" /\ ~Begun' => Fresh(walk', seen')
  BY <1>1 DEF WalkInv, Fresh
<1>4. Begun => walk.table \in {0, 1}
  BY DEF WalkInv, IsWalk, IsIterator, Begun
<1>5. Begun' /\ ~walk'.safe => Marked(d', walk'.fingerprint)
  BY <1>1, LookupMarks DEF WalkInv
<1>6. ASSUME Begun, ~Stale' PROVE OnTrack(d', walk', must', seen')
  <2>1. CASE walk.safe
    <3>1. OnTrack(d, walk, must, seen)
      BY <1>1, <1>6, <2>1 DEF WalkInv
    <3> QED
      BY <1>4, <1>6, <2>1, <3>1, GrownTrack
  <2>2. CASE ~walk.safe
    <3>1. d' = AfterFind(d) /\ Marked(d, walk.fingerprint)
      BY <1>6, <2>2 DEF WalkInv
    <3>2. walk.fingerprint = FingerprintOf(d')
      BY <1>1, <1>6, <2>2
    <3>3. /\ walk.fingerprint = FingerprintOf(d)
          /\ KeysIn(d'.ht0) = KeysIn(d.ht0) /\ KeysIn(d'.ht1) = KeysIn(d.ht1)
      BY <1>1, <3>1, <3>2, LookupMarks
    <3>4. d'.ht0.size = d.ht0.size /\ d'.ht1.size = d.ht1.size
      BY <3>2, <3>3 DEF FingerprintOf
    <3>5. GrownFrom(d, d')
      BY <1>1, <3>3, <3>4, TablesPlaced DEF GrownFrom, Grown, NotMoved
    <3>6. OnTrack(d, walk, must, seen)
      BY <1>1, <1>6, <3>3 DEF WalkInv
    <3> QED
      BY <1>4, <1>6, <3>5, <3>6, GrownTrack
  <2> QED
    BY <2>1, <2>2
<1> QED
  BY <1>1, <1>2, <1>3, <1>5, <1>6 DEF WalkInv

(* Updates, lookups, rehashing and emptying, and the sampling calls. *)
LEMMA CallsKeepWalk ==
    ASSUME WalkInv,
           \/ Update \/ Fetch \/ Rehash \/ EmptyAll \/ GetRandomKey
           \/ \E n \in SampleSizes : GetSomeKeys(n)
    PROVE  WalkInv'
<1>1. /\ DictInv /\ WellFormed(d) /\ dict_can_resize \in BOOLEAN
      /\ d.iterators = open
      /\ Begun /\ walk.safe => d.iterators # 0
      /\ ~Begun => d.iterators = 0
  BY DEF WalkInv, DictInv, TypeOK
<1>2. CASE Update
  <2>1. MayUpdate /\ UNCHANGED walkVars
    BY <1>2 DEF Update
  <2>2. Next
    BY <1>2 DEF Update, Next
  <2>3. DictInv'
    BY <1>1, <2>2, StepCorrect
  <2>4. ASSUME d.iterators # 0 PROVE GrownFrom(d, d')
    <3>1. ASSUME NEW k \in Keys, NEW v \in Vals, DictAdd(k, v) \/ DictReplace(k, v)
          PROVE  GrownFrom(d, d')
      BY <1>1, <2>4, <3>1, AddGrows DEF DictAdd, DictReplace
    <3>2. ASSUME NEW n \in ExpandArgs, DictExpand(n) PROVE GrownFrom(d, d')
      BY <1>1, <3>2, ExpandGrows, CallsAssumption DEF DictExpand
    <3>3. CASE DictResize
      <4>1. Minimal(d) \in Nat
        BY <1>1, WellFormedFields, SizesPositive DEF Minimal
      <4>2. d' = d \/ d' = dictExpand(d, Minimal(d))
        BY <3>3 DEF DictResize, dictResize
      <4> QED
        BY <1>1, <4>1, <4>2, ExpandGrows, GrownSelf
    <3> QED
      BY <1>2, <3>1, <3>2, <3>3 DEF Update
  <2>5. d'.iterators = d.iterators /\ open' = open
    <3>1. ASSUME NEW k \in Keys, NEW v \in Vals, DictAdd(k, v) \/ DictReplace(k, v)
          PROVE  d'.iterators = d.iterators /\ open' = open
      BY <1>1, <3>1, AddCorrect, ReplaceCorrect DEF DictAdd, DictReplace
    <3>2. ASSUME NEW n \in ExpandArgs, DictExpand(n)
          PROVE  d'.iterators = d.iterators /\ open' = open
      BY <1>1, <3>2, ExpandPreserves, CallsAssumption DEF DictExpand
    <3>3. CASE DictResize
      <4>1. Minimal(d) \in Nat
        BY <1>1, WellFormedFields, SizesPositive DEF Minimal
      <4>2. d' = d \/ d' = dictExpand(d, Minimal(d))
        BY <3>3 DEF DictResize, dictResize
      <4> QED
        BY <1>1, <3>3, <4>1, <4>2, ExpandPreserves DEF DictResize
    <3> QED
      BY <1>2, <3>1, <3>2, <3>3 DEF Update
  <2>6. walk' = walk /\ must' = must /\ seen' = seen /\ (Begun => walk.safe)
    BY <2>1 DEF walkVars, MayUpdate
  <2> QED
    BY <1>1, <2>3, <2>4, <2>5, <2>6, SameWalk
<1>3. CASE Fetch
  <2>1. PICK k \in Keys : DictFetchValue(k)
    BY <1>3 DEF Fetch
  <2>2. DictInv'
    BY <1>1, <2>1, StepCorrect DEF Next
  <2>3. d' = AfterFind(d) /\ open' = open
    BY <2>1 DEF DictFetchValue
  <2>4. d'.iterators = d.iterators
    BY <1>1, <2>3, FindCorrect
  <2>5. d.iterators # 0 => GrownFrom(d, d')
    BY <1>1, <2>3, GrownSelf DEF AfterFind, RehashStep
  <2>6. walk' = walk /\ must' = must /\ seen' = seen
    BY <1>3 DEF Fetch, walkVars
  <2> QED
    BY <1>1, <2>2, <2>3, <2>4, <2>5, <2>6, SameWalk
<1>4. CASE Rehash
  <2>1. PICK n \in RehashArgs : DictRehash(n)
    BY <1>4 DEF Rehash
  <2>2. DictInv'
    BY <1>1, <2>1, StepCorrect DEF Next
  <2>3. d' = dictRehash(d, n) /\ open' = open
    BY <2>1 DEF DictRehash
  <2>4. d'.iterators = d.iterators
    BY <1>1, <2>3, RehashPreserves
  <2>5. ~Begun /\ walk' = walk /\ must' = must /\ seen' = seen
    BY <1>4 DEF Rehash, walkVars
  <2> QED
    BY <2>2, <2>3, <2>4, <2>5, SameWalk
<1>5. CASE EmptyAll
  <2>1. DictInv'
    BY <1>1, <1>5, StepCorrect DEF Next, EmptyAll
  <2>2. d'.iterators = 0 /\ open' = open /\ ~Begun /\ walk' = walk /\ seen' = {}
    BY <1>5 DEF EmptyAll, DictEmpty, dictEmpty
  <2> QED
    BY <1>1, <2>1, <2>2, SameWalk
<1>6. ASSUME WellFormed(d'), d'.iterators = d.iterators, d.iterators # 0 => d' = d,
             MayUpdate, UNCHANGED <<dict_can_resize, open, walkVars>>
      PROVE  WalkInv'
  <2>1. DictInv'
    BY <1>1, <1>6, KeepsInv
  <2>2. d.iterators # 0 => GrownFrom(d, d')
    BY <1>1, <1>6, GrownSelf
  <2>3. /\ walk' = walk /\ must' = must /\ seen' = seen /\ (Begun => walk.safe)
        /\ open' = open
    BY <1>6 DEF walkVars, MayUpdate
  <2> QED
    BY <1>1, <1>6, <2>1, <2>2, <2>3, SameWalk
<1>7. CASE GetRandomKey
  <2>1. d' = RehashStep(d) /\ MayUpdate /\ UNCHANGED <<dict_can_resize, open, walkVars>>
    BY <1>7 DEF GetRandomKey
  <2>2. WellFormed(d') /\ d'.iterators = d.iterators
    BY <1>1, <2>1, RehashStepPreserves
  <2>3. d.iterators # 0 => d' = d
    BY <2>1 DEF RehashStep
  <2> QED
    BY <1>6, <2>1, <2>2, <2>3
<1>8. ASSUME NEW n \in SampleSizes, GetSomeKeys(n) PROVE WalkInv'
  <2> DEFINE c == Min({n, dictSize(d)})
  <2>1. d' = Stepped(c) /\ MayUpdate /\ UNCHANGED <<dict_can_resize, open, walkVars>>
    BY <1>8 DEF GetSomeKeys
  <2>2. c \in Nat
    <3>1. n \in Nat /\ dictSize(d) \in Nat
      BY <1>1, WalkAssumption, SizeIsCardinality
    <3>2. {n, dictSize(d)} \in SUBSET Nat /\ {n, dictSize(d)} # {}
      BY <3>1
    <3>3. Min({n, dictSize(d)}) \in {n, dictSize(d)}
      BY <3>2, MinOfNat
    <3> QED
      BY <3>1, <3>3
  <2> HIDE DEF c
  <2>3. /\ WellFormed(d') /\ d'.iterators = d.iterators
        /\ d.iterators # 0 => d' = d
    BY <1>1, <2>1, <2>2, SteppedPreserves
  <2> QED
    BY <1>6, <2>1, <2>3
<1> QED
  BY <1>2, <1>3, <1>4, <1>5, <1>7, <1>8

(* A deletion under a safe iterator, of any key but the one it has saved. *)
LEMMA DeleteKeepsWalk ==
    ASSUME WalkInv, NEW k \in Keys, Delete(k)
    PROVE  WalkInv'
<1>1. /\ DictInv /\ WellFormed(d) /\ IsWalk(walk) /\ d.iterators = open
      /\ (Begun => walk.safe) /\ ~Saved(k)
      /\ DictDelete(k) /\ must' = must \ {k} /\ seen' = seen \ {k}
      /\ walk' = IF walk.kind # "iterator" THEN walk
                 ELSE [walk EXCEPT !.after = @ \ {k}]
  BY DEF WalkInv, DictInv, Delete, MayUpdate
<1>2. DictInv'
  BY <1>1, StepCorrect DEF Next
<1>3. d' = dictDelete(d, k) /\ open' = open
  BY <1>1 DEF DictDelete
<1>4. d'.iterators = d.iterators
  BY <1>1, <1>3, DeleteCorrect
<1>5. CASE walk.kind # "iterator"
  <2>1. walk' = walk /\ ~Begun /\ ~Begun'
    BY <1>1, <1>5 DEF Begun
  <2> QED
    BY <1>1, <1>2, <1>3, <1>4, <1>5, <2>1 DEF WalkInv
<1>6. CASE walk.kind = "iterator"
  <2>1. IsIterator(walk)
    BY <1>1, <1>6 DEF IsWalk
  <2>2. /\ walk' = [walk EXCEPT !.after = walk.after \ {k}]
        /\ IsIterator(walk')
        /\ walk'.kind = "iterator" /\ walk'.safe = walk.safe
        /\ walk'.table = walk.table /\ walk'.index = walk.index
        /\ walk'.nextEntry = walk.nextEntry /\ walk'.after = walk.after \ {k}
        /\ walk'.done = walk.done
    BY <1>1, <1>6, <2>1, Zenon DEF IsIterator
  <2>3. Begun' <=> Begun
    BY <1>6, <2>2 DEF Begun
  <2>4. ~Begun => Fresh(walk', seen')
    BY <1>1, <1>6, <2>2 DEF WalkInv, Fresh, Rest
  <2>5. ASSUME Begun PROVE OnTrack(d', walk', must', seen')
    <3>1. d.iterators # 0 /\ ~Stale
      BY <1>1, <2>5 DEF WalkInv, Stale
    <3>2. ShrunkFrom(d, d', k)
      BY <1>1, <1>3, <3>1, DeleteShrinks
    <3>3. OnTrack(d, walk, must, seen) /\ walk.table \in {0, 1} /\ k \notin walk.nextEntry
      BY <1>1, <1>6, <2>1, <2>5, <3>1 DEF WalkInv, IsIterator, Saved
    <3>4. Spares(walk, walk', k) /\ Less(must, must', k) /\ Less(seen, seen', k)
      BY <1>1, <2>2, <3>3 DEF Less, Spares
    <3> QED
      BY <3>2, <3>3, <3>4, ShrunkTrack
  <2> QED
    BY <1>1, <1>2, <1>3, <1>4, <2>2, <2>3, <2>4, <2>5 DEF WalkInv, IsWalk
<1> QED
  BY <1>5, <1>6

(* What dictNext makes of an iterator. *)
LEMMA ReturnShape ==
    ASSUME NEW it, IsIterator(it), NEW a, a.table \in {0, 1}, a.index \in Nat \cup {-1},
           Return(it, a)
    PROVE  /\ IsIterator(walk') /\ walk'.kind = "iterator"
           /\ walk'.safe = it.safe /\ walk'.fingerprint = it.fingerprint
           /\ walk'.table = a.table /\ walk'.index = a.index
           /\ walk'.done => a.entry = {}
           /\ \E next \in Heads(a.rest) :
                walk'.nextEntry = next /\ walk'.after = a.rest \ next
           /\ seen' = seen \cup a.entry
<1>1. PICK next \in Heads(a.rest) :
         walk' = [kind |-> "iterator", safe |-> it.safe,
                  table |-> a.table, index |-> a.index,
                  nextEntry |-> next, after |-> a.rest \ next,
                  fingerprint |-> it.fingerprint, done |-> a.entry = {}]
  BY Zenon DEF Return
<1>2. PICK b : b = (a.entry = {})
  OBVIOUS
<1>3. PICK rest : rest = a.rest \ next
  OBVIOUS
<1>4. walk' = [kind |-> "iterator", safe |-> it.safe, table |-> a.table,
               index |-> a.index, nextEntry |-> next, after |-> rest,
               fingerprint |-> it.fingerprint, done |-> b]
  BY <1>1, <1>2, <1>3, Zenon
<1>5. /\ walk'.kind = "iterator"
      /\ walk'.safe = it.safe /\ walk'.fingerprint = it.fingerprint
      /\ walk'.table = a.table /\ walk'.index = a.index
      /\ walk'.done = b /\ walk'.nextEntry = next /\ walk'.after = rest
  BY <1>4, Zenon
<1>6. IsIterator(walk')
  <2>1. it.safe \in BOOLEAN
    BY Zenon DEF IsIterator
  <2>2. walk' = [kind |-> "iterator", safe |-> walk'.safe, table |-> walk'.table,
                 index |-> walk'.index, nextEntry |-> walk'.nextEntry, after |-> walk'.after,
                 fingerprint |-> walk'.fingerprint, done |-> walk'.done]
    BY <1>4, <1>5, Zenon
  <2> QED
    BY <1>5, <2>1, <2>2, Zenon DEF IsIterator
<1>7. walk'.done => a.entry = {}
  BY <1>2, <1>5, Zenon
<1>8. walk'.nextEntry = next /\ walk'.after = a.rest \ next
  BY <1>3, <1>5, Zenon
<1>9. seen' = seen \cup a.entry
  BY Zenon DEF Return
<1> QED
  BY <1>5, <1>6, <1>7, <1>8, <1>9, Zenon

(* An iterator on track stays so when dictNext moves it. *)
LEMMA ReturnKeepsTrack ==
    ASSUME NEW it, IsIterator(it), WellFormed(d), NEW m, OnTrack(d, it, m, seen),
           NEW a \in Advances(it), Return(it, a)
    PROVE  /\ IsIterator(walk') /\ Begun'
           /\ walk'.safe = it.safe /\ walk'.fingerprint = it.fingerprint
           /\ OnTrack(d, walk', m, seen')
           /\ a.entry \cap seen = {}
<1>1. /\ Rest(it) \subseteq Here(d, it) /\ it.nextEntry \cap it.after = {}
      /\ it.nextEntry = {} => it.after = {}
  BY DEF OnTrack
<1>2. a.table \in {0, 1} /\ a.index \in Nat
  <2> DEFINE to == [table |-> a.table, index |-> a.index]
  <2>1. to.table = a.table /\ to.index = a.index
    OBVIOUS
  <2> HIDE DEF to
  <2> QED
    BY <1>1, <2>1, AdvanceSplits
<1>3. /\ IsIterator(walk') /\ walk'.kind = "iterator"
      /\ walk'.safe = it.safe /\ walk'.fingerprint = it.fingerprint
      /\ walk'.table = a.table /\ walk'.index = a.index
      /\ walk'.done => a.entry = {}
      /\ \E next \in Heads(a.rest) :
           walk'.nextEntry = next /\ walk'.after = a.rest \ next
      /\ seen' = seen \cup a.entry
  <2>1. a.index \in Nat \cup {-1}
    BY <1>2
  <2> QED
    BY <1>2, <2>1, ReturnShape
<1>4. PICK next \in Heads(a.rest) : walk'.nextEntry = next /\ walk'.after = a.rest \ next
  BY <1>3, Zenon
<1>5. OnTrack(d, walk', m, seen \cup a.entry) /\ a.entry \cap seen = {}
  BY <1>3, <1>4, ReturnOnTrack, Zenon
<1>6. Begun'
  BY <1>2, <1>3 DEF Begun
<1>7. OnTrack(d, walk', m, seen')
  BY <1>3, <1>5, Zenon
<1> QED
  BY <1>3, <1>5, <1>6, <1>7

(* Only the tables matter for where an iterator stands. *)
LEMMA TrackOfTables ==
    ASSUME NEW x, NEW y, y.ht0 = x.ht0, y.ht1 = x.ht1, NEW it, NEW m, NEW s,
           OnTrack(x, it, m, s)
    PROVE  OnTrack(y, it, m, s)
<1>1. Here(y, it) = Here(x, it) /\ Coming(y, it) = Coming(x, it)
  BY DEF Here, Coming, Table
<1> QED
  BY <1>1 DEF OnTrack

(* A walk over a dict begins at its first bucket, with every key to come. *)
LEMMA FreshOnTrack ==
    ASSUME WellFormed(d), NEW it, IsIterator(it), it.table = 0, it.index = -1,
           Fresh(it, seen)
    PROVE  OnTrack(d, it, AllKeys, seen)
<1>1. /\ Rest(it) = {} /\ it.done = FALSE /\ seen = {}
      /\ it.nextEntry = {} /\ it.after = {}
  BY DEF Fresh, Rest
<1>2. /\ IsHt(d.ht0) /\ HtPlaced(d.ht0)
  BY WellFormedFields
<1>3. KeysIn(d.ht0) \cup KeysIn(d.ht1) \subseteq Coming(d, it)
  BY <1>2, KeyPlace DEF Coming
<1>4. AllKeys \subseteq KeysIn(d.ht0) \cup KeysIn(d.ht1)
  BY DEF AllKeys, KeysIn, Contents
<1> QED
  BY <1>1, <1>3, <1>4 DEF OnTrack

(* The first call of dictNext. *)
LEMMA FirstNextKeepsWalk ==
    ASSUME WalkInv, FirstNext
    PROVE  WalkInv'
<1>1. /\ DictInv /\ WellFormed(d) /\ IsWalk(walk) /\ d.iterators = open /\ open = 0
      /\ Fresh(walk, seen) /\ walk.kind = "iterator" /\ ~Begun
  BY DEF WalkInv, DictInv, FirstNext
<1>2. IsIterator(walk) /\ walk.index = -1 /\ walk.table = 0
  BY <1>1 DEF IsWalk, Begun
<1> DEFINE f == IF walk.safe THEN <<>> ELSE dictFingerprint
           it == [walk EXCEPT !.fingerprint = f]
<1>3. PICK a \in Advances(walk) : Return(it, a)
  BY Zenon DEF FirstNext
<1>4. /\ IsIterator(it) /\ it.safe = walk.safe /\ it.fingerprint = f
      /\ it.table = 0 /\ it.index = -1 /\ it.done = walk.done
      /\ it.nextEntry = walk.nextEntry /\ it.after = walk.after
  <2> HIDE DEF f
  <2>1. walk = [kind |-> "iterator", safe |-> walk.safe, table |-> walk.table,
                index |-> walk.index, nextEntry |-> walk.nextEntry, after |-> walk.after,
                fingerprint |-> walk.fingerprint, done |-> walk.done]
    BY <1>2, Zenon DEF IsIterator
  <2>2. /\ it.kind = "iterator" /\ it.safe = walk.safe /\ it.fingerprint = f
        /\ it.table = walk.table /\ it.index = walk.index /\ it.done = walk.done
        /\ it.nextEntry = walk.nextEntry /\ it.after = walk.after
    BY <2>1
  <2>3. it = [kind |-> "iterator", safe |-> it.safe, table |-> it.table,
              index |-> it.index, nextEntry |-> it.nextEntry, after |-> it.after,
              fingerprint |-> it.fingerprint, done |-> it.done]
    BY <2>1
  <2> HIDE DEF it
  <2>4. IsIterator(it)
    BY <1>2, <2>2, <2>3, Zenon DEF IsIterator
  <2> QED
    BY <1>2, <2>2, <2>4, Zenon
<1>5. walk.safe = FALSE => f = FingerprintOf(d)
  BY DEF dictFingerprint, FingerprintOf
<1> HIDE DEF f, it
<1>6. Advances(it) = Advances(walk)
  <2>1. Ahead(it) = Ahead(walk)
    BY <1>2, <1>4, Zenon DEF Ahead
  <2>2. PastEnd(it) = PastEnd(walk)
    BY <1>2, <1>4, Zenon DEF PastEnd
  <2> QED
    BY <1>2, <1>4, <2>1, <2>2, ZenonT(30) DEF Advances
<1>7. Fresh(it, seen)
  BY <1>1, <1>4 DEF Fresh, Rest
<1>8. OnTrack(d, it, AllKeys, seen)
  BY <1>1, <1>4, <1>7, FreshOnTrack
<1>9. /\ IsIterator(walk') /\ Begun'
      /\ walk'.safe = it.safe /\ walk'.fingerprint = it.fingerprint
      /\ OnTrack(d, walk', AllKeys, seen')
  BY <1>1, <1>3, <1>4, <1>8, <1>6, ReturnKeepsTrack
<1>10. must' = AllKeys
  BY DEF FirstNext
<1>11. CASE walk.safe
  <2>1. SafeIteratorBegin
    BY <1>11 DEF FirstNext
  <2>2. DictInv'
    BY <1>1, <2>1, StepCorrect DEF Next
  <2>3. d = [ht0 |-> d.ht0, ht1 |-> d.ht1, rehashidx |-> d.rehashidx,
             iterators |-> d.iterators]
    BY <1>1, WellFormedFields DEF IsDict
  <2>4. /\ d' = [d EXCEPT !.iterators = (d.iterators + 1) % ULongSize]
        /\ open' = open + 1 /\ open < MaxIterators
    BY <2>1 DEF SafeIteratorBegin
  <2>5. d'.ht0 = d.ht0 /\ d'.ht1 = d.ht1 /\ d'.iterators = (d.iterators + 1) % ULongSize
    BY <2>3, <2>4
  <2>6. (0 + 1) % ULongSize = 1
    BY <1>1, <2>4, CallsAssumption
  <2>7. d'.iterators = 1 /\ open' = 1
    BY <1>1, <2>4, <2>5, <2>6
  <2>8. OnTrack(d', walk', must', seen')
    BY <1>9, <1>10, <2>5, TrackOfTables
  <2>9. walk'.safe /\ walk'.kind = "iterator"
    BY <1>4, <1>9, <1>11 DEF Begun
  <2> QED
    BY <1>9, <2>2, <2>7, <2>8, <2>9 DEF WalkInv, IsWalk
<1>12. CASE ~walk.safe
  <2>1. UNCHANGED <<d, dict_can_resize, open>>
    BY <1>12 DEF FirstNext
  <2>2. DictInv'
    BY <1>1, <2>1 DEF DictInv, TypeOK
  <2>3. OnTrack(d', walk', must', seen')
    BY <1>9, <1>10, <2>1
  <2>4. walk'.fingerprint = FingerprintOf(d) /\ ~walk'.safe
    <3>1. walk.safe = FALSE
      BY <1>2, <1>12 DEF IsIterator
    <3> QED
      BY <1>4, <1>5, <1>9, <1>12, <3>1
  <2>5. FingerprintOf(d) \in Nat \X Nat \X Nat \X Nat
    BY <1>1, WellFormedFields DEF FingerprintOf
  <2>6. Marked(d', walk'.fingerprint)
    BY <2>1, <2>4, <2>5 DEF Marked
  <2> QED
    BY <1>1, <1>9, <2>1, <2>2, <2>3, <2>4, <2>6 DEF WalkInv, IsWalk
<1> QED
  BY <1>11, <1>12

(* The calls of dictNext that follow.  What they return is new, as long as   *)
(* the iterator is not stale.                                                *)
LEMMA DictNextKeepsWalk ==
    ASSUME WalkInv, DictNext
    PROVE  WalkInv' /\ (~Stale => ret'.keys \cap seen = {})
<1>1. /\ DictInv /\ WellFormed(d) /\ IsWalk(walk) /\ Begun
      /\ d.iterators = open /\ open = IF walk.safe THEN 1 ELSE 0
      /\ UNCHANGED <<d, dict_can_resize, open, must>>
  BY DEF WalkInv, DictInv, DictNext
<1>2. IsIterator(walk) /\ walk.kind = "iterator"
  BY <1>1 DEF IsWalk, Begun
<1>3. DictInv'
  BY <1>1 DEF DictInv, TypeOK
<1>4. FingerprintOf(d) = dictFingerprint
  BY DEF FingerprintOf, dictFingerprint
<1>5. CASE Stale
  <2>1. PICK a \in Anything(walk) : Return(walk, a)
    BY <1>5 DEF DictNext
  <2>2. a.table = walk.table /\ a.index = walk.index
    BY <2>1 DEF Anything
  <2>3. a.table \in {0, 1} /\ a.index \in Nat \cup {-1}
    BY <1>2, <2>2 DEF IsIterator
  <2>4. /\ IsIterator(walk') /\ walk'.kind = "iterator"
        /\ walk'.safe = walk.safe /\ walk'.fingerprint = walk.fingerprint
        /\ walk'.table = a.table /\ walk'.index = a.index
    BY <1>2, <2>1, <2>3, ReturnShape
  <2>5. Begun' /\ Stale'
    BY <1>1, <1>5, <2>2, <2>4 DEF Begun, Stale, dictFingerprint
  <2>6. ~walk.safe /\ Marked(d', walk'.fingerprint)
    BY <1>1, <1>5, <2>4 DEF WalkInv, Stale
  <2>7. WalkInv'
    BY <1>1, <1>3, <2>4, <2>5, <2>6 DEF WalkInv, IsWalk
  <2> QED
    BY <1>5, <2>7
<1>6. CASE ~Stale
  <2>1. PICK a \in Advances(walk) :
          Return(walk, a) /\ ret' = [op |-> "next", keys |-> a.entry]
    BY <1>6 DEF DictNext
  <2>2. OnTrack(d, walk, must, seen)
    BY <1>1, <1>6 DEF WalkInv
  <2>3. /\ IsIterator(walk') /\ Begun'
        /\ walk'.safe = walk.safe /\ walk'.fingerprint = walk.fingerprint
        /\ OnTrack(d, walk', must, seen')
        /\ a.entry \cap seen = {}
    BY <1>1, <1>2, <2>1, <2>2, ReturnKeepsTrack
  <2>4. OnTrack(d', walk', must', seen')
    BY <1>1, <2>3
  <2>5. ~walk.safe => Marked(d', walk'.fingerprint)
    BY <1>1, <2>3 DEF WalkInv
  <2>6. WalkInv'
    BY <1>1, <1>3, <2>3, <2>4, <2>5 DEF WalkInv, IsWalk
  <2>7. ret'.keys = a.entry
    BY <2>1
  <2> QED
    BY <2>3, <2>6, <2>7
<1> QED
  BY <1>5, <1>6

(* dictGetIterator, dictReleaseIterator and the calls of a scan. *)
LEMMA EndsKeepWalk ==
    ASSUME WalkInv,
           \/ \E safe \in BOOLEAN : GetIterator(safe)
           \/ ReleaseIterator \/ ScanBegin \/ DictScan \/ ScanEnd
    PROVE  WalkInv'
<1>1. DictInv /\ WellFormed(d) /\ IsWalk(walk) /\ d.iterators = open
  BY DEF WalkInv, DictInv
<1>2. ASSUME NEW safe \in BOOLEAN, GetIterator(safe) PROVE WalkInv'
  <2>1. /\ walk' = [kind |-> "iterator", safe |-> safe, table |-> 0, index |-> -1,
                    nextEntry |-> {}, after |-> {}, fingerprint |-> <<>>, done |-> FALSE]
        /\ seen' = {} /\ UNCHANGED <<d, dict_can_resize, open>> /\ walk.kind = "none"
    BY <1>2 DEF GetIterator
  <2>2. ~Begun /\ open = 0
    BY <2>1 DEF Begun, WalkInv
  <2>3. /\ walk'.kind = "iterator" /\ walk'.safe = safe /\ walk'.table = 0 /\ walk'.index = -1
        /\ walk'.nextEntry = {} /\ walk'.after = {} /\ walk'.done = FALSE
        /\ walk'.fingerprint = <<>>
    BY <2>1, Zenon
  <2>4. IsIterator(walk')
    BY <2>1, <2>3, Zenon DEF IsIterator
  <2>5. Fresh(walk', seen')
    BY <2>1, <2>3 DEF Fresh, Rest
  <2>6. ~Begun'
    BY <2>3 DEF Begun
  <2>7. DictInv'
    BY <1>1, <2>1 DEF DictInv, TypeOK
  <2> QED
    BY <1>1, <2>1, <2>2, <2>4, <2>5, <2>6, <2>7 DEF WalkInv, IsWalk
<1>3. ASSUME walk'.kind \in {"none", "scan", "aborted"}, IsWalk(walk'), DictInv',
             d'.iterators = 0, open' = 0
      PROVE  WalkInv'
  <2>1. ~Begun' /\ walk'.kind # "iterator"
    BY <1>3 DEF Begun
  <2> QED
    BY <1>3, <2>1 DEF WalkInv
<1>4. CASE ReleaseIterator
  <2>1. /\ walk' = IF Stale THEN [kind |-> "aborted", done |-> FALSE,
                                  fingerprint |-> walk.fingerprint]
                   ELSE NoWalk
        /\ walk.kind = "iterator"
    BY <1>4 DEF ReleaseIterator
  <2>2. walk'.kind \in {"none", "aborted"} /\ IsWalk(walk')
    <3>1. CASE Stale
      <4>1. Marked(d, walk.fingerprint) /\ walk.fingerprint # FingerprintOf(d)
        BY <3>1 DEF WalkInv, Stale, dictFingerprint, FingerprintOf
      <4>2. walk.fingerprint[3] > 0
        BY <4>1 DEF Marked
      <4>3. /\ walk'.kind = "aborted" /\ walk'.done = FALSE
            /\ walk'.fingerprint = walk.fingerprint
        BY <2>1, <3>1, Zenon
      <4> QED
        BY <4>2, <4>3 DEF IsWalk
    <3>2. CASE ~Stale
      <4>1. walk'.kind = "none" /\ walk'.done = FALSE
        BY <2>1, <3>2, Zenon DEF NoWalk
      <4> QED
        BY <4>1 DEF IsWalk
    <3> QED
      BY <3>1, <3>2
  <2>3. CASE Begun /\ walk.safe
    <3>1. SafeIteratorRelease /\ open = 1
      BY <1>4, <2>3 DEF ReleaseIterator, WalkInv
    <3>2. DictInv'
      BY <1>1, <3>1, StepCorrect DEF Next
    <3>3. d = [ht0 |-> d.ht0, ht1 |-> d.ht1, rehashidx |-> d.rehashidx,
               iterators |-> d.iterators]
      BY <1>1, WellFormedFields DEF IsDict
    <3>4. d'.iterators = (1 + ULongSize - 1) % ULongSize /\ open' = 0
      BY <1>1, <3>1, <3>3 DEF SafeIteratorRelease
    <3>5. 1 + ULongSize - 1 = ULongSize /\ ULongSize \in Nat /\ ULongSize > 0
      BY CallsAssumption
    <3>6. ULongSize % ULongSize = 0
      BY <3>5
    <3> QED
      BY <1>3, <2>2, <3>2, <3>4, <3>5, <3>6
  <2>4. CASE ~(Begun /\ walk.safe)
    <3>1. UNCHANGED <<d, dict_can_resize, open>> /\ open = 0
      BY <1>4, <2>4 DEF ReleaseIterator, WalkInv
    <3>2. DictInv'
      BY <1>1, <3>1 DEF DictInv, TypeOK
    <3> QED
      BY <1>1, <1>3, <2>2, <3>1, <3>2
  <2> QED
    BY <2>3, <2>4
<1>5. CASE ScanBegin \/ DictScan \/ ScanEnd
  <2>1. /\ walk.kind \in {"none", "scan"} /\ UNCHANGED <<d, dict_can_resize, open>>
    BY <1>5 DEF ScanBegin, DictScan, ScanEnd
  <2>2. open = 0
    BY <2>1 DEF WalkInv, Begun
  <2>3. DictInv'
    BY <1>1, <2>1 DEF DictInv, TypeOK
  <2>4. walk'.kind \in {"none", "scan"} /\ IsWalk(walk')
    <3>1. CASE ScanBegin
      <4>1. walk' = [kind |-> "scan", cursor |-> 0, done |-> FALSE]
        BY <3>1, Zenon DEF ScanBegin
      <4>2. walk'.kind = "scan" /\ walk'.cursor = 0 /\ walk'.done = FALSE
        BY <4>1, Zenon
      <4> QED
        BY <4>1, <4>2, Zenon DEF IsWalk
    <3>2. CASE DictScan
      <4>1. PICK c, b : walk' = [kind |-> "scan", cursor |-> c, done |-> b]
        BY <3>2, Zenon DEF DictScan
      <4>2. walk'.kind = "scan" /\ walk'.cursor = c /\ walk'.done = b
        BY <4>1, Zenon
      <4> QED
        BY <4>1, <4>2, Zenon DEF IsWalk
    <3>3. CASE ScanEnd
      <4>1. walk'.kind = "none" /\ walk'.done = FALSE
        BY <3>3, Zenon DEF ScanEnd, NoWalk
      <4> QED
        BY <4>1 DEF IsWalk
    <3> QED
      BY <1>5, <3>1, <3>2, <3>3
  <2> QED
    BY <1>1, <1>3, <2>1, <2>2, <2>3, <2>4
<1> QED
  BY <1>2, <1>4, <1>5

(* Every step of the caller keeps the invariant. *)
LEMMA WalkStep ==
    ASSUME WalkInv, WalkNext
    PROVE  WalkInv'
  BY CallsKeepWalk, DeleteKeepsWalk, FirstNextKeepsWalk, DictNextKeepsWalk,
     EndsKeepWalk DEF WalkNext

(* The inductive invariant of traversals: whatever calls a caller makes      *)
(* between the steps of a traversal, the table stays well-formed, iterators  *)
(* are counted, and an iterator that is not stale is on track.               *)
THEOREM WalkSafety == WalkSpec => []WalkInv
<1>1. WalkInit => WalkInv
  <2> SUFFICES ASSUME WalkInit PROVE WalkInv
    OBVIOUS
  <2>1. DictInv
    BY InitInv DEF WalkInit
  <2>2. walk.kind = "none" /\ walk.done = FALSE
    BY Zenon DEF WalkInit, NoWalk
  <2>3. d.iterators = 0 /\ open = 0
    BY DEF WalkInit, Init, dictCreate
  <2>4. ~Begun
    BY <2>2 DEF Begun
  <2> QED
    BY <2>1, <2>2, <2>3, <2>4 DEF WalkInv, IsWalk
<1>2. WalkInv /\ [WalkNext]_allVars => WalkInv'
  <2>1. ASSUME WalkInv, WalkNext PROVE WalkInv'
    BY <2>1, WalkStep
  <2>2. ASSUME WalkInv, UNCHANGED allVars PROVE WalkInv'
    <3>1. /\ d' = d /\ dict_can_resize' = dict_can_resize /\ open' = open
          /\ walk' = walk /\ must' = must /\ seen' = seen
      BY <2>2 DEF allVars, vars, walkVars
    <3> QED
      BY <2>2, <3>1 DEF WalkInv, DictInv, TypeOK, Begun, Stale, dictFingerprint
  <2> QED
    BY <2>1, <2>2
<1> QED
  BY <1>1, <1>2, PTL DEF WalkSpec

(* dict.c:597: the assertion of dictReleaseIterator fails only for an        *)
(* iteration that began while a rehash was running, for every table and      *)
(* every sequence of lookups under the iterator.                             *)
THEOREM FalseAlarmsOnlyInRehash == WalkSpec => []NoFalseAlarm
<1>1. WalkInv => NoFalseAlarm
  BY DEF WalkInv, IsWalk, IsIterator, NoFalseAlarm
<1> QED
  BY <1>1, WalkSafety, PTL

(* dict.c:614-621: dictGetRandomKey can return every entry of a dict, during *)
(* a rehash too, and finds one if there is one.                              *)
THEOREM RandomKeysReachAll == WalkSpec => []RandomReachesAll
<1>1. WalkInv => RandomReachesAll
  BY RandomAll, SizeZeroIsEmpty DEF WalkInv, DictInv, RandomReachesAll
<1> QED
  BY <1>1, WalkSafety, PTL

(* dict.c:556: no call of dictNext returns a key that was returned before    *)
(* and has not been deleted since.                                           *)
THEOREM NothingReturnedTwice == WalkSpec => NoRepeat
<1> DEFINE P == ret'.op = "next" /\ ~Stale => ret'.keys \cap seen = {}
<1>1. ASSUME WalkInv, WalkNext PROVE P
  <2>1. CASE DictNext
    BY <1>1, <2>1, DictNextKeepsWalk
  <2>2. CASE ~DictNext
    <3>1. ret'.op # "next"
      <4>1. CASE Update \/ Fetch \/ Rehash \/ EmptyAll \/ \E k \in Keys : Delete(k)
        BY <4>1 DEF Update, Fetch, Rehash, EmptyAll, Delete, DictAdd, DictReplace,
           DictExpand, DictResize, DictFetchValue, DictRehash, DictEmpty, DictDelete
      <4>2. CASE FirstNext
        BY <4>2 DEF FirstNext, SafeIteratorBegin
      <4>3. CASE ReleaseIterator
        BY <4>3 DEF ReleaseIterator, SafeIteratorRelease
      <4>4. CASE \E safe \in BOOLEAN : GetIterator(safe)
        BY <4>4 DEF GetIterator
      <4>5. CASE ScanBegin \/ DictScan \/ ScanEnd
        BY <4>5 DEF ScanBegin, DictScan, ScanEnd
      <4>6. CASE GetRandomKey
        BY <4>6 DEF GetRandomKey
      <4>7. CASE \E n \in SampleSizes : GetSomeKeys(n)
        BY <4>7 DEF GetSomeKeys
      <4> QED
        BY <1>1, <2>2, <4>1, <4>2, <4>3, <4>4, <4>5, <4>6, <4>7 DEF WalkNext
    <3> QED
      BY <3>1
  <2> QED
    BY <2>1, <2>2
<1>2. WalkInv /\ [WalkNext]_allVars => [P]_allVars
  BY <1>1
<1> QED
  BY <1>2, WalkSafety, PTL DEF WalkSpec, NoRepeat

-----------------------------------------------------------------------------
(* The bits of cursors.  A cursor v is read with its bits reversed: the      *)
(* bucket of v in a table of 2^k buckets is then given by the first k bits,  *)
(* so buckets are stretches of reversed cursors, of equal length, and those  *)
(* of a larger table divide those of a smaller one.                          *)

LEMMA PowerSteps ==
    /\ CursorBits \in Nat
    /\ Pow2[0] = 1
    /\ \A i \in 1 .. CursorBits : Pow2[i] = 2 * Pow2[i - 1]
    /\ \A i \in 0 .. CursorBits : Pow2[i] \in Nat \ {0}
<1> DEFINE C == CursorBits
           next == [i \in 1 .. C |-> [x \in Nat |-> 2 * x]]
           Step(f, i) == IF i = 0 THEN 1 ELSE 2 * f[i - 1]
<1>1. C \in Nat
  BY WalkAssumption
<1>2. \A i \in 1 .. C : \A x \in Nat : next[i][x] = 2 * x
  OBVIOUS
<1> HIDE DEF next
<1>3. PICK f : Follows(f, Nat, 1, C, next)
  <2>1. Closed(Nat, 1, C, next)
    BY <1>1, <1>2 DEF Closed
  <2> QED
    BY <2>1, StepByStep
<1>4. f = [i \in 0 .. C |-> Step(f, i)]
  <2>1. /\ f \in [0 .. C -> Nat] /\ f[0] = 1
        /\ \A i \in 1 .. C : f[i] = next[i][f[i - 1]]
    BY <1>3 DEF Follows
  <2>2. ASSUME NEW i \in 0 .. C PROVE f[i] = Step(f, i)
    <3>1. CASE i = 0
      BY <2>1, <3>1
    <3>2. CASE i # 0
      <4>1. i \in 1 .. C /\ i - 1 \in 0 .. C
        BY <1>1, <3>2
      <4> QED
        BY <1>2, <2>1, <3>2, <4>1
    <3> QED
      BY <3>1, <3>2
  <2> QED
    BY <2>1, <2>2
<1>5. Pow2 = [i \in 0 .. C |-> Step(Pow2, i)]
  <2> DEFINE g == CHOOSE h : h = [i \in 0 .. C |-> Step(h, i)]
  <2>1. g = [i \in 0 .. C |-> Step(g, i)]
    BY <1>4
  <2>2. Pow2 = g
    BY DEF Pow2
  <2> QED
    BY <2>1, <2>2
<1>6. /\ Pow2[0] = 1
      /\ \A i \in 1 .. C : Pow2[i] = 2 * Pow2[i - 1]
  <2>1. \A i \in 0 .. C : Pow2[i] = Step(Pow2, i)
    BY <1>5
  <2> HIDE DEF C
  <2> QED
    BY <1>1, <2>1
<1> DEFINE S == {i \in 0 .. C : Pow2[i] \in Nat \ {0}}
<1>7. 0 \in S /\ \A i \in 1 .. C : i - 1 \in S => i \in S
  BY <1>1, <1>6
<1>8. \A i \in 0 .. C : i \in S
  <2> HIDE DEF S
  <2> QED
    BY <1>1, <1>7, Climb
<1> QED
  BY <1>1, <1>6, <1>8

LEMMA PowerSum ==
    ASSUME NEW j \in 0 .. CursorBits, NEW i \in 0 .. CursorBits - j
    PROVE  Pow2[i + j] = Pow2[i] * Pow2[j]
<1> DEFINE S == {k \in 0 .. CursorBits - j : Pow2[k + j] = Pow2[k] * Pow2[j]}
<1>1. CursorBits - j \in Nat /\ 0 \in S
  BY PowerSteps
<1>2. ASSUME NEW k \in 1 .. CursorBits - j, k - 1 \in S PROVE k \in S
  <2> DEFINE a == Pow2[k - 1]
             b == Pow2[j]
             c == Pow2[k - 1 + j]
  <2>1. k \in 1 .. CursorBits /\ k + j \in 1 .. CursorBits /\ (k + j) - 1 = k - 1 + j
        /\ k - 1 \in 0 .. CursorBits
    BY PowerSteps
  <2>2. a \in Nat /\ b \in Nat /\ c = a * b
    BY <1>2, <2>1, PowerSteps
  <2>3. Pow2[k] = 2 * a /\ Pow2[k + j] = 2 * c
    BY <2>1, PowerSteps
  <2>4. 2 * c = (2 * a) * b
    <3> HIDE DEF a, b, c
    <3> QED
      BY <2>2
  <2> QED
    BY <2>3, <2>4
<1>3. \A k \in 0 .. CursorBits - j : k \in S
  <2> HIDE DEF S
  <2> QED
    BY <1>1, <1>2, Climb
<1> QED
  BY <1>3

(* The product of the sizes of two parts of an unsigned long. *)
LEMMA PowerParts ==
    ASSUME NEW k \in 0 .. CursorBits
    PROVE  /\ CursorBits - k \in 0 .. CursorBits
           /\ Pow2[CursorBits] = Pow2[k] * Pow2[CursorBits - k]
           /\ Pow2[k] \in Nat \ {0} /\ Pow2[CursorBits - k] \in Nat \ {0}
<1>1. CursorBits - k \in 0 .. CursorBits /\ k \in 0 .. CursorBits - (CursorBits - k)
      /\ k + (CursorBits - k) = CursorBits
  BY PowerSteps
<1>2. Pow2[k + (CursorBits - k)] = Pow2[k] * Pow2[CursorBits - k]
  BY <1>1, PowerSum
<1> QED
  BY <1>1, <1>2, PowerSteps

(* The loop of rev: the first k bits of v reversed, for each k. *)
LowOf(v, low, i) == IF i = 0 THEN 0 ELSE 2 * low[i - 1] + BitOf(v, i - 1)

Low(v) == CHOOSE low : low = [i \in 0 .. CursorBits |-> LowOf(v, low, i)]

LEMMA BitIsBit ==
    ASSUME NEW v \in Nat, NEW i \in 0 .. CursorBits
    PROVE  BitOf(v, i) \in {0, 1}
<1>1. Pow2[i] \in Nat \ {0}
  BY PowerSteps
<1>2. v \div Pow2[i] \in Nat
  BY <1>1, DivSplit
<1> QED
  BY <1>2 DEF BitOf

LEMMA LowSteps ==
    ASSUME NEW v \in Nat
    PROVE  /\ rev(v) = Low(v)[CursorBits]
           /\ Low(v)[0] = 0
           /\ \A i \in 1 .. CursorBits : Low(v)[i] = 2 * Low(v)[i - 1] + BitOf(v, i - 1)
           /\ \A i \in 0 .. CursorBits : Low(v)[i] \in 0 .. Pow2[i] - 1
<1> DEFINE C == CursorBits
           next == [i \in 1 .. C |-> [x \in Nat |-> 2 * x + BitOf(v, i - 1)]]
<1>1. C \in Nat /\ \A i \in 1 .. C : BitOf(v, i - 1) \in {0, 1}
  BY PowerSteps, BitIsBit
<1>2. \A i \in 1 .. C : \A x \in Nat : next[i][x] = 2 * x + BitOf(v, i - 1)
  OBVIOUS
<1> HIDE DEF next
<1>3. PICK f : Follows(f, Nat, 0, C, next)
  <2>1. Closed(Nat, 0, C, next)
    BY <1>1, <1>2 DEF Closed
  <2> QED
    BY <2>1, StepByStep
<1>4. f = [i \in 0 .. C |-> LowOf(v, f, i)]
  <2>1. /\ f \in [0 .. C -> Nat] /\ f[0] = 0
        /\ \A i \in 1 .. C : f[i] = next[i][f[i - 1]]
    BY <1>3 DEF Follows
  <2>2. ASSUME NEW i \in 0 .. C PROVE f[i] = LowOf(v, f, i)
    <3>1. CASE i = 0
      BY <2>1, <3>1 DEF LowOf
    <3>2. CASE i # 0
      <4>1. i \in 1 .. C /\ f[i - 1] \in Nat
        BY <1>1, <2>1, <3>2
      <4> QED
        BY <1>2, <2>1, <3>2, <4>1 DEF LowOf
    <3> QED
      BY <3>1, <3>2
  <2> QED
    BY <2>1, <2>2
<1>5. Low(v) = [i \in 0 .. C |-> LowOf(v, Low(v), i)]
  BY <1>4 DEF Low
<1>6. /\ Low(v)[0] = 0
      /\ \A i \in 1 .. C : Low(v)[i] = 2 * Low(v)[i - 1] + BitOf(v, i - 1)
  <2>1. \A i \in 0 .. C : Low(v)[i] = LowOf(v, Low(v), i)
    BY <1>5
  <2> HIDE DEF C
  <2> QED
    BY <1>1, <2>1 DEF LowOf
<1> DEFINE S == {i \in 0 .. C : Low(v)[i] \in 0 .. Pow2[i] - 1}
<1>7. 0 \in S
  BY <1>1, <1>6, PowerSteps
<1>8. ASSUME NEW i \in 1 .. C, i - 1 \in S PROVE i \in S
  <2>1. Pow2[i] = 2 * Pow2[i - 1] /\ Pow2[i - 1] \in Nat
    BY <1>1, PowerSteps
  <2> QED
    BY <1>1, <1>6, <1>8, <2>1
<1>9. \A i \in 0 .. C : i \in S
  <2> HIDE DEF S
  <2> QED
    BY <1>1, <1>7, <1>8, Climb
<1>10. rev(v) = Low(v)[C]
  BY DEF rev, Low, LowOf
<1> QED
  BY <1>6, <1>9, <1>10

(* The bits read first are the high bits of what is read later. *)
LEMMA LowSplit ==
    ASSUME NEW v \in Nat, NEW k \in 0 .. CursorBits, NEW j \in k .. CursorBits
    PROVE  Low(v)[j] \div Pow2[j - k] = Low(v)[k]
<1> DEFINE C == CursorBits
           L == Low(v)
           Split(j1) == \E r \in Nat : /\ r < Pow2[j1]
                                       /\ L[k + j1] = Pow2[j1] * L[k] + r
           S == {j1 \in 0 .. C - k : Split(j1)}
<1>1. /\ C \in Nat /\ C - k \in Nat
      /\ \A i \in 0 .. C : L[i] \in Nat /\ Pow2[i] \in Nat \ {0}
      /\ \A i \in 1 .. C : L[i] = 2 * L[i - 1] + BitOf(v, i - 1)
      /\ \A i \in 1 .. C : BitOf(v, i - 1) \in {0, 1}
      /\ Pow2[0] = 1 /\ \A i \in 1 .. C : Pow2[i] = 2 * Pow2[i - 1]
  BY PowerSteps, LowSteps, BitIsBit
<1> HIDE DEF C, L
<1>2. 0 \in S
  <2>1. L[k + 0] = Pow2[0] * L[k] + 0
    BY <1>1 DEF C
  <2> QED
    BY <1>1, <2>1
<1>3. ASSUME NEW i \in 1 .. C - k, i - 1 \in S PROVE i \in S
  <2>1. PICK r \in Nat : r < Pow2[i - 1] /\ L[k + (i - 1)] = Pow2[i - 1] * L[k] + r
    BY <1>3
  <2> DEFINE p == Pow2[i - 1]
             b == BitOf(v, k + i - 1)
  <2>2. /\ k + i \in 1 .. C /\ (k + i) - 1 = k + (i - 1) /\ i \in 1 .. C
        /\ k + (i - 1) = k + i - 1 /\ i - 1 \in 0 .. C
    BY <1>1 DEF C
  <2>3. /\ b \in {0, 1} /\ Pow2[i] = 2 * p /\ p \in Nat /\ L[k] \in Nat
        /\ L[k + i] = 2 * (p * L[k] + r) + b
    BY <1>1, <2>1, <2>2 DEF C
  <2>4. L[k + i] = (2 * p) * L[k] + (2 * r + b)
    <3> HIDE DEF p, b
    <3> QED
      BY <2>3
  <2>5. 2 * r + b \in Nat /\ 2 * r + b < Pow2[i]
    BY <2>1, <2>3
  <2> QED
    BY <2>3, <2>4, <2>5
<1>4. \A i \in 0 .. C - k : i \in S
  <2> HIDE DEF S
  <2> QED
    BY <1>1, <1>2, <1>3, Climb
<1>5. PICK r \in Nat : r < Pow2[j - k] /\ L[k + (j - k)] = Pow2[j - k] * L[k] + r
  <2>1. j - k \in 0 .. C - k
    BY <1>1 DEF C
  <2> QED
    BY <1>4, <2>1
<1>6. L[j] = Pow2[j - k] * L[k] + r /\ Pow2[j - k] \in Nat /\ L[k] \in Nat
  BY <1>1, <1>5 DEF C
<1>7. L[j] \div Pow2[j - k] = L[k]
  BY <1>5, <1>6, DivUnique
<1> QED
  BY <1>7 DEF L

(* A number modulo the next power of two has one bit more. *)
LEMMA ModStep ==
    ASSUME NEW v \in Nat, NEW k \in 1 .. CursorBits
    PROVE  v % Pow2[k] = Pow2[k - 1] * BitOf(v, k - 1) + (v % Pow2[k - 1])
<1> DEFINE p == Pow2[k - 1]
           q == v \div p
           b == q % 2
           h == q \div 2
           r == v % p
<1>1. p \in Nat /\ p > 0 /\ Pow2[k] = 2 * p /\ BitOf(v, k - 1) = b
  BY PowerSteps DEF BitOf
<1>2. q \in Nat /\ r \in 0 .. p - 1 /\ v = p * q + r
  BY <1>1, DivSplit
<1>3. h \in Nat /\ b \in 0 .. 1 /\ q = 2 * h + b
  BY <1>2, DivSplit
<1> HIDE DEF p, q, b, h, r
<1>4. v = (2 * p) * h + (p * b + r)
  BY <1>1, <1>2, <1>3
<1>5. p * b + r \in Nat /\ p * b + r < 2 * p
  <2>1. CASE b = 0
    BY <1>1, <1>2, <2>1
  <2>2. CASE b = 1
    BY <1>1, <1>2, <2>2
  <2> QED
    BY <1>3, <2>1, <2>2
<1>6. v % (2 * p) = p * b + r
  <2> DEFINE m == 2 * p
             s == p * b + r
  <2>1. m \in Nat /\ s \in Nat /\ s < m /\ v = m * h + s
    BY <1>1, <1>4, <1>5
  <2> HIDE DEF m, s
  <2>2. v % m = s
    BY <1>3, <2>1, DivUnique
  <2> QED
    BY <2>2 DEF m, s
<1> QED
  BY <1>1, <1>6 DEF p, r

(* Two numbers agree in their first k bits if they agree modulo 2^k. *)
LEMMA LowAgree ==
    ASSUME NEW a \in Nat, NEW b \in Nat, NEW k \in 0 .. CursorBits
    PROVE  Low(a)[k] = Low(b)[k] <=> a % Pow2[k] = b % Pow2[k]
<1> DEFINE C == CursorBits
           S == {i \in 0 .. C : Low(a)[i] = Low(b)[i] <=> a % Pow2[i] = b % Pow2[i]}
<1>1. 0 \in S
  <2>1. a % 1 = 0 /\ b % 1 = 0
    OBVIOUS
  <2> QED
    BY <2>1, PowerSteps, LowSteps
<1>2. ASSUME NEW i \in 1 .. C, i - 1 \in S PROVE i \in S
  <2> DEFINE p == Pow2[i - 1]
             x == Low(a)[i - 1]
             y == Low(b)[i - 1]
             s == BitOf(a, i - 1)
             t == BitOf(b, i - 1)
  <2>1. /\ p \in Nat /\ p > 0 /\ x \in Nat /\ y \in Nat /\ s \in {0, 1} /\ t \in {0, 1}
        /\ i - 1 \in 0 .. C
    BY PowerSteps, LowSteps, BitIsBit
  <2>2. Low(a)[i] = 2 * x + s /\ Low(b)[i] = 2 * y + t
    BY LowSteps
  <2>3. /\ a % Pow2[i] = p * s + (a % p) /\ b % Pow2[i] = p * t + (b % p)
        /\ a % p \in 0 .. p - 1 /\ b % p \in 0 .. p - 1
    BY <2>1, ModStep, DivSplit
  <2>4. x = y <=> a % p = b % p
    BY <1>2
  <2> HIDE DEF p, x, y, s, t
  <2>5. 2 * x + s = 2 * y + t <=> x = y /\ s = t
    BY <2>1
  <2>6. p * s + (a % p) = p * t + (b % p) <=> a % p = b % p /\ s = t
    <3>1. p * 0 = 0 /\ p * 1 = p
      BY <2>1
    <3> QED
      BY <2>1, <2>3, <3>1
  <2>7. Low(a)[i] = Low(b)[i] <=> a % Pow2[i] = b % Pow2[i]
    BY <2>2, <2>3, <2>4, <2>5, <2>6
  <2> QED
    BY <2>7
<1>3. \A i \in 0 .. C : i \in S
  <2>1. C \in Nat
    BY PowerSteps
  <2> HIDE DEF S
  <2> QED
    BY <1>1, <1>2, <2>1, Climb
<1> QED
  BY <1>3

(* Reversing takes each bit to its opposite place. *)
LEMMA RevBit ==
    ASSUME NEW v \in Nat, NEW i \in 0 .. CursorBits - 1
    PROVE  BitOf(rev(v), i) = BitOf(v, CursorBits - 1 - i)
<1> DEFINE k == CursorBits - i
<1>1. k \in 1 .. CursorBits /\ CursorBits - k = i /\ k - 1 = CursorBits - 1 - i
  BY PowerSteps
<1> HIDE DEF k
<1>2. rev(v) \div Pow2[i] = Low(v)[k]
  <2>1. k \in 0 .. CursorBits /\ CursorBits \in k .. CursorBits
    BY <1>1, PowerSteps
  <2>2. Low(v)[CursorBits] \div Pow2[CursorBits - k] = Low(v)[k]
    BY <2>1, LowSplit
  <2> QED
    BY <1>1, <2>2, LowSteps
<1>3. /\ Low(v)[k] = 2 * Low(v)[k - 1] + BitOf(v, k - 1)
      /\ Low(v)[k - 1] \in Nat /\ BitOf(v, k - 1) \in {0, 1}
  BY <1>1, LowSteps, BitIsBit, PowerSteps
<1>4. Low(v)[k] % 2 = BitOf(v, k - 1)
  <2> DEFINE b == BitOf(v, k - 1)
             x == Low(v)[k - 1]
             y == Low(v)[k]
  <2>1. y = 2 * x + b /\ x \in Nat /\ b \in {0, 1}
    BY <1>3
  <2> HIDE DEF b, x, y
  <2>2. y % 2 = b
    BY <2>1
  <2> QED
    BY <2>2 DEF b, y
<1>5. BitOf(rev(v), i) = BitOf(v, k - 1)
  BY <1>2, <1>4 DEF BitOf
<1> QED
  BY <1>1, <1>5

LEMMA RevInRange ==
    ASSUME NEW v \in Nat
    PROVE  rev(v) \in ULong /\ rev(v) \in Nat
  BY LowSteps, PowerSteps DEF ULong

LEMMA ULongIsNat == ULong \subseteq Nat /\ \A v \in ULong : v % Pow2[CursorBits] = v
<1>1. ASSUME NEW v \in ULong PROVE v \in Nat /\ v % Pow2[CursorBits] = v
  <2>1. v \in Nat /\ v < Pow2[CursorBits] /\ Pow2[CursorBits] \in Nat
    BY PowerSteps DEF ULong
  <2> HIDE DEF ULong
  <2>2. v = Pow2[CursorBits] * 0 + v
    BY <2>1
  <2> QED
    BY <2>1, <2>2, DivUnique
<1> QED
  BY <1>1

(* Numbers with the same reverse are equal. *)
LEMMA RevInjective ==
    ASSUME NEW a \in ULong, NEW b \in ULong, rev(a) = rev(b)
    PROVE  a = b
<1>1. a \in Nat /\ b \in Nat /\ CursorBits \in 0 .. CursorBits
  BY ULongIsNat, PowerSteps
<1>2. a % Pow2[CursorBits] = b % Pow2[CursorBits]
  BY <1>1, LowAgree, LowSteps
<1> QED
  BY <1>2, ULongIsNat

LEMMA RevRev ==
    ASSUME NEW v \in ULong
    PROVE  rev(rev(v)) = v
<1> DEFINE C == CursorBits
           w == rev(rev(v))
           S == {i \in 0 .. C : Low(w)[i] = Low(v)[i]}
<1>1. v \in Nat /\ rev(v) \in Nat /\ w \in Nat /\ w \in ULong /\ C \in Nat
  BY ULongIsNat, RevInRange, PowerSteps
<1>2. ASSUME NEW i \in 1 .. C PROVE BitOf(w, i - 1) = BitOf(v, i - 1)
  <2>1. i - 1 \in 0 .. C - 1 /\ C - 1 - (i - 1) \in 0 .. C - 1
        /\ C - 1 - (C - 1 - (i - 1)) = i - 1
    BY <1>1
  <2>2. BitOf(w, i - 1) = BitOf(rev(v), C - 1 - (i - 1))
    BY <1>1, <2>1, RevBit
  <2>3. BitOf(rev(v), C - 1 - (i - 1)) = BitOf(v, C - 1 - (C - 1 - (i - 1)))
    BY <1>1, <2>1, RevBit
  <2> QED
    BY <2>1, <2>2, <2>3
<1> HIDE DEF w
<1>3. 0 \in S
  BY <1>1, LowSteps
<1>4. ASSUME NEW i \in 1 .. C, i - 1 \in S PROVE i \in S
  <2>1. /\ Low(w)[i] = 2 * Low(w)[i - 1] + BitOf(w, i - 1)
        /\ Low(v)[i] = 2 * Low(v)[i - 1] + BitOf(v, i - 1)
    BY <1>1, LowSteps
  <2> QED
    BY <1>1, <1>2, <1>4, <2>1
<1>5. \A i \in 0 .. C : i \in S
  <2> HIDE DEF S
  <2> QED
    BY <1>1, <1>3, <1>4, Climb
<1>6. rev(w) = rev(v)
  BY <1>1, <1>5, LowSteps
<1>7. w = v
  BY <1>1, <1>6, RevInjective
<1> QED
  BY <1>7 DEF w

-----------------------------------------------------------------------------
(* The order in which a scan visits buckets. *)

(* A stretch of q reversed cursors is what one bucket stands for. *)
Stretch(v, q) == rev(v) \div q

(* Cursors with the same bucket have their reverses in the same stretch. *)
LEMMA SameBucket ==
    ASSUME NEW a \in Nat, NEW b \in Nat, NEW k \in 0 .. CursorBits
    PROVE  LET q == Pow2[CursorBits - k]
           IN  a % Pow2[k] = b % Pow2[k] <=> Stretch(a, q) = Stretch(b, q)
<1>1. CursorBits \in k .. CursorBits
  BY PowerSteps
<1>2. ASSUME NEW v \in Nat PROVE Stretch(v, Pow2[CursorBits - k]) = Low(v)[k]
  BY <1>1, LowSplit, LowSteps DEF Stretch
<1> QED
  BY <1>2, LowAgree

(* A short cursor is reversed into the beginning of its stretch. *)
LEMMA RevShort ==
    ASSUME NEW k \in 0 .. CursorBits, NEW v \in Nat, v < Pow2[k]
    PROVE  rev(v) = Pow2[CursorBits - k] * Low(v)[k]
<1> DEFINE C == CursorBits
           L == Low(v)
           S == {i \in 0 .. C - k : L[k + i] = Pow2[i] * L[k]}
<1>1. C \in Nat /\ C - k \in Nat /\ k + (C - k) = C /\ k + 0 = k /\ L[k] \in Nat
  BY PowerSteps, LowSteps
<1>2. 0 \in S
  BY <1>1, PowerSteps
<1>3. ASSUME NEW i \in 1 .. C - k, i - 1 \in S PROVE i \in S
  <2> DEFINE p == Pow2[i - 1]
             j == k + i - 1
  <2>1. /\ k + i \in 1 .. C /\ (k + i) - 1 = j /\ k + (i - 1) = j
        /\ i \in 1 .. C /\ i - 1 \in 0 .. C /\ i - 1 \in 0 .. C - k /\ (i - 1) + k = j
        /\ j \in 0 .. C
    BY <1>1
  <2>2. Pow2[j] = p * Pow2[k] /\ p \in Nat \ {0} /\ Pow2[k] \in Nat /\ Pow2[j] \in Nat
    BY <2>1, PowerSum, PowerSteps
  <2>3. v < Pow2[j]
    <3> DEFINE z == Pow2[k]
    <3>1. p * z >= z
      <4>1. p \in Nat /\ p >= 1 /\ z \in Nat
        BY <2>2
      <4> HIDE DEF p, z
      <4> QED
        BY <4>1
    <3> QED
      BY <2>2, <3>1
  <2>4. BitOf(v, j) = 0
    <3> DEFINE m == Pow2[j]
    <3>1. m \in Nat /\ v < m
      BY <2>2, <2>3
    <3> HIDE DEF m
    <3>2. v \div m = 0
      BY <3>1
    <3>3. (v \div m) % 2 = 0
      BY <3>2
    <3> QED
      BY <3>3 DEF BitOf, m
  <2>5. L[k + i] = 2 * L[j] + 0 /\ L[j] = p * L[k] /\ Pow2[i] = 2 * p
    BY <1>3, <2>1, <2>4, LowSteps, PowerSteps
  <2>6. 2 * (p * L[k]) + 0 = (2 * p) * L[k]
    <3> DEFINE z == L[k]
    <3>1. p \in Nat /\ z \in Nat
      BY <1>1, <2>2
    <3> HIDE DEF p, z
    <3>2. 2 * (p * z) + 0 = (2 * p) * z
      BY <3>1
    <3> QED
      BY <3>2 DEF z
  <2> QED
    BY <2>5, <2>6
<1>4. \A i \in 0 .. C - k : i \in S
  <2> HIDE DEF S
  <2> QED
    BY <1>1, <1>2, <1>3, Climb
<1>5. C - k \in S
  BY <1>1, <1>4
<1> QED
  BY <1>1, <1>5, LowSteps

(* With every bit above the mask set it is reversed into the end of it. *)
LEMMA RevMasked ==
    ASSUME NEW k \in 0 .. CursorBits, NEW r \in Nat, r < Pow2[k],
           NEW u, u = r + (Pow2[CursorBits] - Pow2[k])
    PROVE  /\ u \in ULong
           /\ rev(u) = Pow2[CursorBits - k] * Low(r)[k] + (Pow2[CursorBits - k] - 1)
<1> DEFINE C == CursorBits
           L == Low(u)
           B == Pow2[C]
           K == Pow2[k]
           S == {i \in 0 .. C - k : L[k + i] = Pow2[i] * Low(r)[k] + (Pow2[i] - 1)}
<1>1. C \in Nat /\ C - k \in Nat /\ k + (C - k) = C /\ k + 0 = k /\ Low(r)[k] \in Nat
  BY PowerSteps, LowSteps
<1>2. ASSUME NEW j \in k .. C
      PROVE  /\ Pow2[j] \in Nat /\ Pow2[C - j] \in Nat \ {0} /\ B = Pow2[j] * Pow2[C - j]
             /\ Pow2[j] >= K /\ K \in Nat
  <2>1. j \in 0 .. C /\ j - k \in 0 .. C - k /\ (j - k) + k = j /\ j - k \in 0 .. C
    BY <1>1
  <2>2. Pow2[j] = Pow2[j - k] * K /\ Pow2[j - k] \in Nat \ {0} /\ K \in Nat
    BY <2>1, PowerSum, PowerSteps
  <2>3. Pow2[j - k] * K >= K
    <3> DEFINE p == Pow2[j - k]
    <3>1. p \in Nat /\ p >= 1 /\ K \in Nat
      BY <2>2
    <3> HIDE DEF p, K
    <3>2. p * K >= K
      BY <3>1
    <3> QED
      BY <3>2 DEF p
  <2> QED
    BY <2>1, <2>2, <2>3, PowerParts
<1>3. B >= K /\ B \in Nat /\ K \in Nat /\ K > 0
  BY <1>1, <1>2, PowerSteps
<1>4. u \in Nat /\ u < B /\ u \in ULong
  BY <1>3 DEF ULong
<1>5. u % K = r
  <2> DEFINE p == Pow2[C - k]
  <2>1. p \in Nat /\ p >= 1 /\ B = K * p
    BY <1>1, <1>2
  <2> HIDE DEF p, B, K
  <2>2. u = K * (p - 1) + r
    BY <1>3, <2>1 DEF B, K
  <2> QED
    BY <1>3, <2>1, <2>2, DivUnique DEF K
<1>6. L[k] = Low(r)[k]
  <2>1. r < K
    OBVIOUS
  <2>2. r % K = r
    <3> HIDE DEF K
    <3> QED
      BY <1>3, <2>1
  <2> QED
    BY <1>4, <1>5, <2>2, LowAgree
<1>7. ASSUME NEW j \in k .. C - 1 PROVE BitOf(u, j) = 1
  <2> DEFINE p == Pow2[j]
             h == Pow2[C - j - 1]
  <2>1. /\ j \in k .. C /\ C - j \in 1 .. C /\ C - j - 1 \in 0 .. C /\ (C - j) - 1 = C - j - 1
    BY <1>1
  <2>2. /\ p \in Nat /\ B = p * Pow2[C - j] /\ Pow2[C - j] = 2 * h /\ h \in Nat \ {0}
        /\ p >= K
    BY <1>2, <2>1, PowerSteps
  <2> DEFINE c == h - 1
             s == (p - K) + r
             m == 2 * c + 1
  <2> HIDE DEF B, K
  <2>3. u = p * m + s /\ m \in Nat /\ s \in Nat /\ s < p /\ c \in Nat
    <3> HIDE DEF p, h
    <3>1. h \in Nat /\ h >= 1 /\ B = p * (2 * h) /\ p \in Nat /\ p >= K
      BY <2>2
    <3>2. p * (2 * h) = p * (2 * (h - 1) + 1) + p
      BY <3>1
    <3> QED
      BY <1>3, <3>1, <3>2 DEF B, K
  <2> HIDE DEF p, s, m, c
  <2>4. u \div p = m
    BY <2>2, <2>3, DivUnique
  <2>5. m % 2 = 1
    BY <2>3 DEF m
  <2> QED
    BY <2>4, <2>5 DEF BitOf, p
<1>8. 0 \in S
  <2>1. Pow2[0] = 1
    BY PowerSteps
  <2>2. 1 * Low(r)[k] + (1 - 1) = Low(r)[k]
    BY <1>1
  <2> QED
    BY <1>1, <1>6, <2>1, <2>2
<1>9. ASSUME NEW i \in 1 .. C - k, i - 1 \in S PROVE i \in S
  <2> DEFINE p == Pow2[i - 1]
             j == k + i - 1
             z == Low(r)[k]
  <2>1. /\ k + i \in 1 .. C /\ (k + i) - 1 = j /\ k + (i - 1) = j
        /\ i \in 1 .. C /\ i - 1 \in 0 .. C /\ j \in k .. C - 1
    BY <1>1
  <2>2. /\ L[k + i] = 2 * L[j] + 1 /\ L[j] = p * z + (p - 1) /\ Pow2[i] = 2 * p
        /\ p \in Nat /\ z \in Nat
    BY <1>1, <1>4, <1>7, <1>9, <2>1, LowSteps, PowerSteps
  <2>3. 2 * (p * z + (p - 1)) + 1 = (2 * p) * z + (2 * p - 1)
    <3> HIDE DEF p, z
    <3> QED
      BY <2>2
  <2> QED
    BY <2>2, <2>3
<1>10. \A i \in 0 .. C - k : i \in S
  <2> HIDE DEF S
  <2> QED
    BY <1>1, <1>8, <1>9, Climb
<1>11. C - k \in S
  BY <1>1, <1>10
<1> QED
  BY <1>1, <1>4, <1>11, LowSteps

(* The cursor a scan of a table of 2^k buckets returns, reversed, is where   *)
(* the next stretch begins: one stretch further, or 0 after the last one.    *)
LEMMA CursorMoves ==
    ASSUME NEW v \in Nat, NEW k \in 0 .. CursorBits
    PROVE  LET q == Pow2[CursorBits - k]
               next == NextCursor(v, Pow2[k])
               end == q * Stretch(v, q) + q
           IN  /\ next \in ULong
               /\ rev(next) = IF end = Pow2[CursorBits] THEN 0 ELSE end
               /\ end \in Nat /\ rev(v) < end /\ end <= Pow2[CursorBits]
               /\ Stretch(v, q) \in Nat
<1> DEFINE B == Pow2[CursorBits]
           K == Pow2[k]
           q == Pow2[CursorBits - k]
           r == v % K
           u == r + (B - K)
           x == Low(v)[k]
           end == q * x + q
<1>1. /\ B \in Nat /\ K \in Nat /\ q \in Nat /\ K > 0 /\ q > 0 /\ B = K * q
      /\ CursorBits \in k .. CursorBits
  BY PowerParts, PowerSteps
<1>2. r \in Nat /\ r < K
  BY <1>1
<1>3. Low(r)[k] = x /\ x \in 0 .. K - 1
  <2>1. r % K = r
    <3> HIDE DEF r, K
    <3> QED
      BY <1>1, <1>2
  <2> QED
    BY <1>2, <2>1, LowAgree, LowSteps
<1>4. Stretch(v, q) = x
  BY <1>1, LowSplit, LowSteps DEF Stretch
<1>5. rev(u) + 1 = end
  <2>1. rev(u) = q * Low(r)[k] + (q - 1)
    BY <1>2, RevMasked
  <2> HIDE DEF q, x
  <2>2. q * x \in Nat
    BY <1>1, <1>3
  <2> QED
    BY <1>1, <1>3, <2>1, <2>2
<1>6. end \in Nat /\ end <= B /\ end > 0
  <2> HIDE DEF q, x, K, B
  <2>1. q * (x + 1) <= q * K /\ q * K = K * q
    BY <1>1, <1>3
  <2>2. end = q * (x + 1) /\ q * x \in Nat
    BY <1>1, <1>3
  <2> QED
    BY <1>1, <2>1, <2>2
<1>7. end % B = IF end = B THEN 0 ELSE end
  <2> HIDE DEF end, B
  <2> QED
    BY <1>1, <1>6
<1>8. NextCursor(v, K) = rev(end % B)
  BY <1>5 DEF NextCursor
<1>9. end % B \in ULong
  <2> HIDE DEF end
  <2> QED
    BY <1>1, <1>6, <1>7 DEF ULong
<1>10. NextCursor(v, K) \in ULong /\ rev(NextCursor(v, K)) = end % B
  <2> HIDE DEF end, B
  <2>1. end % B \in Nat
    BY <1>9, ULongIsNat
  <2> QED
    BY <1>8, <1>9, <2>1, RevRev, RevInRange
<1>11. rev(v) < end
  <2>1. rev(v) \in Nat /\ rev(v) \div q = x
    BY <1>4, RevInRange DEF Stretch
  <2> DEFINE w == rev(v)
  <2> HIDE DEF w, q, x
  <2>2. w = q * x + (w % q) /\ w % q \in 0 .. q - 1
    BY <1>1, <2>1, DivSplit DEF w
  <2>3. q * x \in Nat
    BY <1>1, <1>3
  <2>4. w < q * x + q
    BY <1>1, <2>2, <2>3
  <2> QED
    BY <2>4 DEF w
<1> QED
  BY <1>3, <1>4, <1>6, <1>7, <1>10, <1>11

LEMMA PowerOrder ==
    ASSUME NEW i \in 0 .. CursorBits, NEW j \in 0 .. CursorBits, Pow2[i] <= Pow2[j]
    PROVE  i <= j
<1> SUFFICES ASSUME j < i PROVE FALSE
  BY PowerSteps
<1>1. /\ i - j - 1 \in 0 .. CursorBits - (j + 1) /\ j + 1 \in 0 .. CursorBits
      /\ (i - j - 1) + (j + 1) = i /\ i - j - 1 \in 0 .. CursorBits /\ (j + 1) - 1 = j
  BY PowerSteps
<1>2. Pow2[i] = Pow2[i - j - 1] * Pow2[j + 1] /\ Pow2[j + 1] = 2 * Pow2[j]
      /\ Pow2[i - j - 1] \in Nat \ {0} /\ Pow2[j] \in Nat \ {0}
  <2>1. j + 1 \in 1 .. CursorBits
    BY <1>1
  <2>2. Pow2[(i - j - 1) + (j + 1)] = Pow2[i - j - 1] * Pow2[j + 1]
    BY <1>1, PowerSum
  <2>3. Pow2[j + 1] = 2 * Pow2[(j + 1) - 1]
    BY <2>1, PowerSteps
  <2> QED
    BY <1>1, <2>2, <2>3, PowerSteps
<1> DEFINE p == Pow2[i - j - 1]
           z == Pow2[j]
<1>3. p \in Nat /\ p >= 1 /\ z \in Nat /\ z >= 1 /\ Pow2[i] = p * (2 * z) /\ Pow2[i] <= z
  BY <1>2
<1> HIDE DEF p, z
<1>4. p * (2 * z) >= 2 * z
  BY <1>3
<1> QED
  BY <1>3, <1>4

(* Where a stretch of length q ends in one of length q * m around it.        *)
LEMMA Nested ==
    ASSUME NEW x \in Nat, NEW q \in Nat, NEW m \in Nat, q > 0, m > 0
    PROVE  LET big == q * m
               end == q * (x \div q) + q
               last == big * (x \div big) + big
           IN  /\ big \in Nat /\ big > 0
               /\ end <= last
               /\ end % big # 0 => end \div big = x \div big
<1> DEFINE big == q * m
           s == x \div q
           t == x \div big
           end == q * s + q
           last == big * t + big
<1>1. big \in Nat /\ big > 0
  <2>1. q * m >= q
    OBVIOUS
  <2> QED
    BY <2>1
<1> HIDE DEF big
<1>2. /\ s \in Nat /\ x = q * s + (x % q) /\ x % q \in 0 .. q - 1
      /\ t \in Nat /\ x = big * t + (x % big) /\ x % big \in 0 .. big - 1
  BY <1>1, DivSplit
<1> HIDE DEF s, t
<1>3. big * t = q * (m * t) /\ big * t + big = q * (m * t + m) /\ m * t \in Nat
  BY <1>2 DEF big
<1>4. s < m * t + m
  <2>1. x < q * (m * t + m)
    BY <1>1, <1>2, <1>3
  <2>2. q * s < q * (m * t + m) /\ q * s \in Nat
    BY <1>2, <2>1
  <2>3. m * t + m \in Nat
    BY <1>3
  <2> DEFINE y == m * t + m
  <2> HIDE DEF y
  <2>4. y \in Nat /\ q * s < q * y
    BY <2>2, <2>3 DEF y
  <2>5. s < y
    BY <1>2, <2>4
  <2> QED
    BY <2>5 DEF y
<1>5. end <= last
  <2> DEFINE y == m * t + m
  <2>1. s + 1 <= y /\ y \in Nat
    BY <1>2, <1>3, <1>4
  <2> HIDE DEF y
  <2>2. q * (s + 1) <= q * y
    BY <1>2, <2>1
  <2>3. q * (s + 1) = q * s + q
    BY <1>2
  <2> QED
    BY <1>3, <2>2, <2>3 DEF y
<1>6. end > big * t /\ end \in Nat /\ big * t \in Nat
  BY <1>1, <1>2
<1>7. ASSUME end % big # 0 PROVE end \div big = t
  <2>1. CASE end = last
    <3>1. last = big * (t + 1) + 0 /\ t + 1 \in Nat
      BY <1>1, <1>2
    <3> HIDE DEF last, end
    <3>2. last % big = 0
      BY <1>1, <3>1, DivUnique
    <3> QED
      BY <1>7, <2>1, <3>2
  <2>2. CASE end < last
    <3> DEFINE r == end - big * t
    <3>1. r \in Nat /\ r < big /\ end = big * t + r
      BY <1>1, <1>6, <2>2
    <3> HIDE DEF r, end
    <3> QED
      BY <1>1, <1>2, <3>1, DivUnique
  <2> QED
    BY <1>5, <1>6, <2>1, <2>2, <1>1
<1> QED
  BY <1>1, <1>5, <1>7 DEF big, s, t

LEMMA RevZero == 0 \in ULong /\ rev(0) = 0
<1>1. 0 \in 0 .. CursorBits /\ 0 < Pow2[0] /\ CursorBits - 0 = CursorBits
  BY PowerSteps
<1>2. rev(0) = Pow2[CursorBits] * Low(0)[0] /\ Low(0)[0] = 0 /\ Pow2[CursorBits] \in Nat
  BY <1>1, RevShort, LowSteps, PowerSteps
<1>3. Pow2[CursorBits] > 0
  BY PowerSteps
<1> QED
  BY <1>2, <1>3 DEF ULong

(* The place a scan has come to: all the buckets after the last one. *)
Reached(v) == IF v = 0 THEN Pow2[CursorBits] ELSE rev(v)

(* A stretch that begins where one of 2^a buckets does has no bits but the   *)
(* first a: the loop over expansions ends there.                             *)
LEMMA StopsAtEnd ==
    ASSUME NEW a \in 0 .. CursorBits, NEW b \in 0 .. CursorBits, Pow2[a] <= Pow2[b],
           NEW n \in ULong, rev(n) % Pow2[CursorBits - a] = 0
    PROVE  (n % Pow2[b]) \div Pow2[a] = 0
<1> DEFINE B == Pow2[CursorBits]
           A == Pow2[a]
           q == Pow2[CursorBits - a]
           n0 == n % A
<1>1. n \in Nat /\ A \in Nat /\ A > 0 /\ q \in Nat /\ q > 0 /\ B = A * q /\ Pow2[b] \in Nat
  BY ULongIsNat, PowerParts
<1>2. n0 \in Nat /\ n0 < A /\ n0 % A = n0
  <2>1. n0 \in Nat /\ n0 < A
    BY <1>1
  <2> HIDE DEF n0, A
  <2> QED
    BY <1>1, <2>1
<1>3. Low(n0)[a] = Low(n)[a]
  BY <1>1, <1>2, LowAgree
<1>4. rev(n0) = q * Low(n)[a]
  BY <1>2, <1>3, RevShort
<1>5. rev(n) = q * Low(n)[a]
  <2>1. CursorBits \in a .. CursorBits /\ rev(n) \in Nat
    BY <1>1, PowerSteps, RevInRange
  <2>2. rev(n) \div q = Low(n)[a]
    BY <1>1, <2>1, LowSplit, LowSteps, SMTT(30)
  <2> DEFINE w == rev(n)
  <2>3. w = q * (w \div q) + (w % q) /\ w \div q \in Nat
    BY <1>1, <2>1, DivSplit
  <2> QED
    BY <1>1, <2>2, <2>3
<1>6. n0 \in ULong
  <2> HIDE DEF A, q
  <2>1. A * q >= A
    BY <1>1
  <2>2. n0 < B /\ B \in Nat
    BY <1>1, <1>2, <2>1
  <2> HIDE DEF n0
  <2> QED
    BY <1>2, <2>2 DEF ULong
<1>7. n = n0
  BY <1>4, <1>5, <1>6, RevInjective
<1>8. n < A
  BY <1>2, <1>7
<1> HIDE DEF A
<1>9. n % Pow2[b] = n
  <2> DEFINE z == Pow2[b]
  <2>1. n < z /\ z \in Nat
    BY <1>1, <1>8 DEF A
  <2> HIDE DEF z
  <2>2. n % z = n
    BY <1>1, <2>1
  <2> QED
    BY <2>2 DEF z
<1>10. n \div A = 0
  BY <1>1, <1>8
<1> QED
  BY <1>9, <1>10 DEF A

(* Where a scan of a table of 2^k buckets has come to after the bucket of v. *)
LEMMA NextReached ==
    ASSUME NEW v \in Nat, NEW k \in 0 .. CursorBits
    PROVE  LET q == Pow2[CursorBits - k]
               next == NextCursor(v, Pow2[k])
           IN  /\ next \in ULong
               /\ Reached(next) = q * Stretch(v, q) + q
               /\ next # 0 => rev(next) = q * Stretch(v, q) + q
               /\ Reached(next) \in Nat
               /\ rev(v) < Reached(next) /\ Reached(next) <= Pow2[CursorBits]
<1> DEFINE q == Pow2[CursorBits - k]
           next == NextCursor(v, Pow2[k])
           end == q * Stretch(v, q) + q
           B == Pow2[CursorBits]
<1>1. /\ next \in ULong
      /\ rev(next) = IF end = B THEN 0 ELSE end
      /\ end \in Nat /\ rev(v) < end /\ end <= B
  BY CursorMoves
<1>2. rev(v) \in Nat /\ 0 \in ULong /\ rev(0) = 0
  BY RevInRange, RevZero
<1> HIDE DEF end, next, B
<1>3. CASE end = B
  <2>1. next = 0
    BY <1>1, <1>2, <1>3, RevInjective
  <2> QED
    BY <1>1, <1>3, <2>1 DEF Reached, end, next, B
<1>4. CASE end # B
  <2>1. rev(next) = end /\ next # 0
    BY <1>1, <1>2, <1>4
  <2> QED
    BY <1>1, <2>1 DEF Reached, end, next, B
<1> QED
  BY <1>3, <1>4

(* Numbers between the beginning and the end of a stretch are in it.         *)
LEMMA InStretch ==
    ASSUME NEW x \in Nat, NEW q \in Nat, q > 0, NEW s \in Nat,
           q * s <= x, x < q * s + q
    PROVE  x \div q = s
<1> DEFINE r == x - q * s
<1>1. q * s \in Nat
  OBVIOUS
<1>2. r \in Nat /\ r < q /\ x = q * s + r
  BY <1>1
<1> HIDE DEF r
<1> QED
  BY <1>2, DivUnique

(* Two tables, of 2^a buckets and of 2^b, the larger one.                    *)
TwoTables(a, b) ==
    /\ a \in 0 .. CursorBits /\ b \in 0 .. CursorBits
    /\ Small.size = Pow2[a] /\ Big.size = Pow2[b] /\ Pow2[a] <= Pow2[b]
    /\ Big.table \in [0 .. Big.size - 1 -> SUBSET Entry]

(* The loop of Expansions. *)
LoopEnds(u) == (NextCursor(u, Big.size) % Big.size) \div Small.size = 0

LoopOf(loop, u) ==
    LET next == NextCursor(u, Big.size)
        here == Big.table[u % Big.size]
    IN  IF (next % Big.size) \div Small.size = 0
        THEN [entries |-> here, cursor |-> next]
        ELSE [entries |-> here \cup loop[next].entries, cursor |-> loop[next].cursor]

TheLoop == CHOOSE loop : loop = [u \in ULong |-> LoopOf(loop, u)]

LEMMA ExpansionsLoop == \A v : Expansions(v) = TheLoop[v]
  BY DEF Expansions, TheLoop, LoopOf

(* It ends: unless it does the reversed cursor grows.                        *)
LEMMA LoopGoesOn ==
    ASSUME NEW a, NEW b, TwoTables(a, b), NEW u \in ULong, ~LoopEnds(u)
    PROVE  LET next == NextCursor(u, Big.size)
           IN  next \in ULong /\ next # 0 /\ rev(u) < rev(next)
<1> DEFINE next == NextCursor(u, Big.size)
<1>1. next \in ULong /\ rev(u) < Reached(next)
  BY NextReached, ULongIsNat DEF TwoTables
<1>2. next # 0
  <2> SUFFICES ASSUME next = 0 PROVE FALSE
    OBVIOUS
  <2>1. Big.size \in Nat \ {0} /\ Small.size \in Nat \ {0}
    BY PowerSteps DEF TwoTables
  <2>2. (0 % Big.size) \div Small.size = 0
    BY <2>1
  <2> QED
    BY <2>2 DEF LoopEnds
<1> QED
  BY <1>1, <1>2 DEF Reached

LEMMA LoopSteps ==
    ASSUME NEW a, NEW b, TwoTables(a, b)
    PROVE  \A u \in ULong :
             /\ TheLoop[u] = LoopOf(TheLoop, u)
             /\ TheLoop[u] \in [entries : SUBSET Entry, cursor : ULong]
<1> DEFINE S == [entries : SUBSET Entry, cursor : ULong]
           N == Pow2[CursorBits]
           rank == [u \in ULong |-> N - rev(u)]
           stop == [u \in ULong |-> LoopEnds(u)]
           next == [u \in ULong |-> NextCursor(u, Big.size)]
           here(u) == Big.table[u % Big.size]
           base == [u \in ULong |-> [entries |-> here(u), cursor |-> NextCursor(u, Big.size)]]
           comb == [u \in ULong |-> [r \in S |->
                      [entries |-> here(u) \cup r.entries, cursor |-> r.cursor]]]
<1>1. ASSUME NEW u \in ULong PROVE here(u) \in SUBSET Entry /\ NextCursor(u, Big.size) \in ULong
  <2>0. Big.size \in Nat \ {0}
    BY PowerSteps DEF TwoTables
  <2>1. Big.size \in Nat /\ Big.size > 0 /\ u \in Nat
    <3> HIDE DEF S, N, rank, stop, next, here, base, comb
    <3> QED
      BY <2>0, ULongIsNat
  <2>2. u % Big.size \in 0 .. Big.size - 1
    BY <2>1
  <2> QED
    BY <2>1, <2>2, NextReached DEF TwoTables
<1>2. Downward(ULong, S, N, rank, stop, base, next, comb)
  <2>1. N \in Nat /\ \A u \in ULong : rev(u) \in 0 .. N - 1
    BY PowerSteps, RevInRange, ULongIsNat DEF ULong
  <2>2. rank \in [ULong -> 0 .. N] /\ \A u \in ULong : rank[u] = N - rev(u)
    BY <2>1
  <2>3. base \in [ULong -> S] /\ S # {}
    <3>1. \A u \in ULong : [entries |-> here(u), cursor |-> NextCursor(u, Big.size)] \in S
      BY <1>1
    <3>2. [entries |-> {}, cursor |-> 0] \in S
      BY RevZero
    <3> QED
      BY <3>1, <3>2
  <2>4. ASSUME NEW u \in ULong, ~stop[u]
        PROVE  next[u] \in ULong /\ rank[next[u]] < rank[u]
    <3>1. ~LoopEnds(u) /\ next[u] = NextCursor(u, Big.size)
      BY <2>4
    <3>2. next[u] \in ULong /\ rev(u) < rev(next[u])
      BY <3>1, LoopGoesOn
    <3> HIDE DEF next, rank
    <3> QED
      BY <2>1, <2>2, <3>2
  <2>5. ASSUME NEW u \in ULong, NEW r \in S PROVE comb[u][r] \in S
    <3>1. comb[u][r] = [entries |-> here(u) \cup r.entries, cursor |-> r.cursor]
      OBVIOUS
    <3>2. here(u) \cup r.entries \in SUBSET Entry /\ r.cursor \in ULong
      BY <1>1
    <3> QED
      BY <3>1, <3>2
  <2> HIDE DEF S, rank, stop, base, next, comb, N
  <2> QED
    BY <2>1, <2>2, <2>3, <2>4, <2>5 DEF Downward
<1>3. PICK f : Descends(f, ULong, S, stop, base, next, comb)
  <2> HIDE DEF S, rank, stop, base, next, comb, N
  <2> QED
    BY <1>2, ByDescent
<1>4. f \in [ULong -> S] /\ \A u \in ULong :
        f[u] = IF stop[u] THEN base[u] ELSE comb[u][f[next[u]]]
  BY <1>3 DEF Descends
<1>5. ASSUME NEW u \in ULong PROVE f[u] = LoopOf(f, u)
  <2>1. CASE LoopEnds(u)
    <3>1. f[u] = base[u]
      BY <1>4, <2>1
    <3> QED
      BY <2>1, <3>1 DEF LoopOf, LoopEnds
  <2>2. CASE ~LoopEnds(u)
    <3> DEFINE n == NextCursor(u, Big.size)
    <3>1. f[u] = comb[u][f[n]]
      BY <1>4, <2>2
    <3>2. f[n] \in S
      BY <1>1, <1>4
    <3>3. f[u] = [entries |-> here(u) \cup f[n].entries, cursor |-> f[n].cursor]
      BY <3>1, <3>2
    <3> QED
      BY <2>2, <3>3 DEF LoopOf, LoopEnds
  <2> QED
    BY <2>1, <2>2
<1>6. f = [u \in ULong |-> LoopOf(f, u)]
  BY <1>4, <1>5
<1>7. TheLoop = [u \in ULong |-> LoopOf(TheLoop, u)]
  BY <1>6 DEF TheLoop
<1>8. ASSUME NEW g, g = [u \in ULong |-> LoopOf(g, u)]
      PROVE  \A u \in ULong : g[u] \in S
  <2> DEFINE T == {n \in 0 .. N : \A u \in ULong : N - rev(u) <= n => g[u] \in S}
  <2>1. N \in Nat /\ \A u \in ULong : rev(u) \in 0 .. N - 1
    BY PowerSteps, RevInRange, ULongIsNat DEF ULong
  <2>2. 0 \in T
    BY <2>1
  <2>3. ASSUME NEW n \in 1 .. N, n - 1 \in T PROVE n \in T
    <3>1. ASSUME NEW u \in ULong, N - rev(u) <= n PROVE g[u] \in S
      <4>1. g[u] = LoopOf(g, u)
        BY <1>8, Zenon
      <4> DEFINE nx == NextCursor(u, Big.size)
      <4>2. CASE LoopEnds(u)
        <5>1. g[u] = [entries |-> here(u), cursor |-> nx]
          BY <4>1, <4>2 DEF LoopOf, LoopEnds
        <5> QED
          BY <1>1, <5>1
      <4>3. CASE ~LoopEnds(u)
        <5>1. g[u] = [entries |-> here(u) \cup g[nx].entries, cursor |-> g[nx].cursor]
          BY <4>1, <4>3 DEF LoopOf, LoopEnds
        <5>2. nx \in ULong /\ rev(u) < rev(nx)
          BY <4>3, LoopGoesOn
        <5>3. rev(u) \in Int /\ rev(nx) \in Int
          BY <2>1, <5>2
        <5>4. N - rev(nx) <= n - 1
          BY <2>1, <3>1, <5>2, <5>3
        <5>5. g[nx] \in S
          BY <2>3, <5>2, <5>4
        <5> HIDE DEF nx
        <5>6. here(u) \cup g[nx].entries \in SUBSET Entry /\ g[nx].cursor \in ULong
          BY <1>1, <5>5
        <5> QED
          BY <5>1, <5>6
      <4> QED
        BY <4>2, <4>3
    <3> QED
      BY <3>1
  <2>4. \A n \in 0 .. N : n \in T
    <3> HIDE DEF T
    <3> QED
      BY <2>1, <2>2, <2>3, Climb
  <2>5. N \in T
    BY <2>1, <2>4
  <2> QED
    BY <2>1, <2>5
<1> QED
  BY <1>7, <1>8, Zenon


(* What the loop from u has come to: no further than the bucket of u in the  *)
(* smaller table reaches, with every key on the way that the larger one has. *)
LoopReaches(a, b, u) ==
    LET qs == Pow2[CursorBits - a]
        qb == Pow2[CursorBits - b]
        y == Reached(TheLoop[u].cursor)
    IN  /\ y \in Nat /\ rev(u) < y /\ y <= qs * Stretch(u, qs) + qs
        /\ \A h \in Nat : qb * Stretch(u, qb) <= rev(h) /\ rev(h) < y
             => Big.table[h % Big.size] \subseteq TheLoop[u].entries

LEMMA LoopCovers ==
    ASSUME NEW a, NEW b, TwoTables(a, b)
    PROVE  \A u \in ULong : LoopReaches(a, b, u)
<1> DEFINE qs == Pow2[CursorBits - a]
           qb == Pow2[CursorBits - b]
           m == Pow2[b - a]
           N == Pow2[CursorBits]
           T == {n \in 0 .. N : \A u \in ULong : N - rev(u) <= n => LoopReaches(a, b, u)}
<1>1. /\ qs \in Nat /\ qb \in Nat /\ m \in Nat /\ qs > 0 /\ qb > 0 /\ m > 0 /\ qs = qb * m
      /\ N \in Nat
  <2>1. a \in 0 .. CursorBits /\ b \in 0 .. CursorBits /\ a <= b
    BY PowerOrder DEF TwoTables
  <2>2. /\ CursorBits - b \in 0 .. CursorBits /\ b - a \in 0 .. CursorBits - (CursorBits - b)
        /\ b - a \in 0 .. CursorBits /\ (b - a) + (CursorBits - b) = CursorBits - a
        /\ CursorBits - a \in 0 .. CursorBits
    BY <2>1, PowerSteps
  <2>3. Pow2[(b - a) + (CursorBits - b)] = Pow2[b - a] * Pow2[CursorBits - b]
    BY <2>2, PowerSum
  <2>4. qb \in Nat \ {0} /\ m \in Nat \ {0} /\ qs \in Nat \ {0} /\ N \in Nat /\ qs = m * qb
    BY <2>2, <2>3, PowerSteps
  <2> HIDE DEF qs, qb, m, N
  <2>5. m * qb = qb * m
    BY <2>4
  <2> QED
    BY <2>4, <2>5
<1>2. \A u \in ULong : u \in Nat /\ rev(u) \in Nat /\ rev(u) < N /\ Stretch(u, qb) \in Nat
  <2>1. ASSUME NEW u \in ULong PROVE u \in Nat /\ rev(u) \in Nat /\ rev(u) < N
    BY PowerSteps, RevInRange, ULongIsNat DEF ULong
  <2>2. ASSUME NEW u \in ULong PROVE Stretch(u, qb) \in Nat
    BY <1>1, <2>1, DivSplit DEF Stretch
  <2> QED
    BY <2>1, <2>2
<1>3. 0 \in T
  BY <1>1, <1>2
<1>4. ASSUME NEW n \in 1 .. N, n - 1 \in T PROVE n \in T
  <2> SUFFICES ASSUME NEW u \in ULong, N - rev(u) <= n PROVE LoopReaches(a, b, u)
    BY <1>1
  <2> DEFINE next == NextCursor(u, Big.size)
             here == Big.table[u % Big.size]
             end == qb * Stretch(u, qb) + qb
             last == qs * Stretch(u, qs) + qs
             y == Reached(TheLoop[u].cursor)
  <2>1. /\ next \in ULong /\ Reached(next) = end /\ (next # 0 => rev(next) = end)
        /\ end \in Nat /\ rev(u) < end
    BY <1>2, NextReached DEF TwoTables
  <2>2. end <= last /\ (end % qs # 0 => end \div qs = Stretch(u, qs))
    <3> DEFINE x == rev(u)
    <3>1. x \in Nat
      BY <1>2
    <3> HIDE DEF x, qs, qb, m
    <3>2. LET e == qb * (x \div qb) + qb
          IN  /\ e <= (qb * m) * (x \div (qb * m)) + qb * m
              /\ e % (qb * m) # 0 => e \div (qb * m) = x \div (qb * m)
      BY <1>1, <3>1, Nested
    <3>3. LET e == qb * (x \div qb) + qb
          IN  /\ e <= qs * (x \div qs) + qs
              /\ e % qs # 0 => e \div qs = x \div qs
      BY <1>1, <3>2, Zenon
    <3> QED
      BY <3>3 DEF Stretch, x
  <2>3. ASSUME NEW h \in Nat, qb * Stretch(u, qb) <= rev(h), rev(h) < end
        PROVE  Big.table[h % Big.size] = here
    <3>1. rev(h) \div qb = Stretch(u, qb)
      BY <1>1, <1>2, <2>3, RevInRange, InStretch
    <3>2. h % Big.size = u % Big.size
      BY <1>2, <3>1, SameBucket DEF TwoTables, Stretch
    <3> QED
      BY <3>2
  <2>4. TheLoop[u] = LoopOf(TheLoop, u)
    BY LoopSteps
  <2>5. CASE LoopEnds(u)
    <3>1. TheLoop[u] = [entries |-> here, cursor |-> next]
      BY <2>4, <2>5 DEF LoopOf, LoopEnds
    <3>2. y = end /\ TheLoop[u].entries = here
      BY <2>1, <3>1
    <3> HIDE DEF end, last, y, here, next, qs, qb
    <3>3. y \in Nat /\ rev(u) < y /\ y <= last
      BY <2>1, <2>2, <3>2
    <3>4. ASSUME NEW h \in Nat, qb * Stretch(u, qb) <= rev(h), rev(h) < y
          PROVE  Big.table[h % Big.size] \subseteq TheLoop[u].entries
      BY <2>3, <3>2, <3>4
    <3> QED
      BY <3>3, <3>4 DEF LoopReaches, last, y, qs, qb
  <2>6. CASE ~LoopEnds(u)
    <3> DEFINE rest == TheLoop[next]
    <3>1. TheLoop[u] = [entries |-> here \cup rest.entries, cursor |-> rest.cursor]
      BY <2>4, <2>6 DEF LoopOf, LoopEnds
    <3>2. next # 0 /\ rev(u) < rev(next) /\ rev(next) = end
      BY <2>1, <2>6, LoopGoesOn
    <3>3. LoopReaches(a, b, next)
      <4>1. N - rev(next) <= n - 1
        <5> HIDE DEF N, next
        <5>1. rev(next) \in Nat /\ rev(u) \in Nat
          BY <1>2, <2>1
        <5> QED
          BY <1>1, <3>2, <5>1
      <4> QED
        BY <1>4, <2>1, <4>1
    <3>4. Stretch(next, qs) = Stretch(u, qs)
      <4>1. end % qs # 0
        <5> SUFFICES ASSUME rev(next) % qs = 0 PROVE FALSE
          BY <3>2
        <5>1. (next % Pow2[b]) \div Pow2[a] = 0
          BY <2>1, StopsAtEnd DEF TwoTables
        <5> QED
          BY <2>6, <5>1 DEF LoopEnds, TwoTables
      <4> QED
        BY <2>2, <3>2, <4>1 DEF Stretch
    <3>5. /\ y \in Nat /\ end < y /\ y <= last
          /\ \A h \in Nat : qb * Stretch(next, qb) <= rev(h) /\ rev(h) < y
               => Big.table[h % Big.size] \subseteq rest.entries
      <4>1. y = Reached(rest.cursor)
        BY <3>1
      <4> QED
        BY <3>2, <3>3, <3>4, <4>1 DEF LoopReaches
    <3>6. qb * Stretch(next, qb) <= end
      <4>1. Stretch(next, qb) = end \div qb
        BY <3>2 DEF Stretch
      <4> HIDE DEF end, qb, next
      <4>2. end = qb * (end \div qb) + (end % qb) /\ end % qb \in Nat /\ end \div qb \in Nat
        BY <1>1, <2>1, DivSplit
      <4>3. qb * (end \div qb) \in Nat
        BY <1>1, <4>2
      <4> QED
        BY <4>1, <4>2, <4>3, <2>1
    <3>7. TheLoop[u].entries = here \cup rest.entries
      BY <3>1
    <3>8. qb * Stretch(next, qb) \in Nat
      BY <1>1, <1>2, <2>1
    <3> HIDE DEF end, last, y, here, next, rest, qs, qb
    <3>9. ASSUME NEW h \in Nat, qb * Stretch(u, qb) <= rev(h), rev(h) < y
          PROVE  Big.table[h % Big.size] \subseteq TheLoop[u].entries
      <4>1. rev(h) \in Nat
        BY RevInRange
      <4>2. CASE rev(h) < end
        BY <2>3, <3>7, <3>9, <4>2
      <4>3. CASE end <= rev(h)
        <5>1. qb * Stretch(next, qb) <= rev(h)
          BY <2>1, <3>6, <3>8, <4>1, <4>3
        <5> QED
          BY <3>5, <3>7, <3>9, <5>1
      <4> QED
        BY <2>1, <4>1, <4>2, <4>3
    <3>10. rev(u) < y
      BY <1>2, <2>1, <3>5
    <3> QED
      BY <3>5, <3>9, <3>10 DEF LoopReaches, last, y, qs, qb
  <2> QED
    BY <2>5, <2>6
<1>5. \A n \in 0 .. N : n \in T
  <2> HIDE DEF T
  <2> QED
    BY <1>1, <1>3, <1>4, Climb
<1>6. N \in T
  BY <1>1, <1>5
<1> QED
  BY <1>2, <1>6, <1>1


-----------------------------------------------------------------------------
(* One call of dictScan. *)

LEMMA TableHasPower ==
    ASSUME NEW ht, IsHt(ht), ht.size > 0
    PROVE  \E k \in 0 .. CursorBits : ht.size = Pow2[k]
<1>1. ht.size \in Sizes
  BY DEF IsHt
<1> QED
  BY <1>1, WalkAssumption

(* The keys of ht whose hashes, reversed, lie from that of v up to y.        *)
KeysBefore(ht, v, y) ==
    {k \in KeysIn(ht) : rev(v) <= rev(Hash[k]) /\ rev(Hash[k]) < y}

KeysOf(S) == {e.key : e \in S}

LEMMA BucketHolds ==
    ASSUME NEW ht, IsHt(ht), HtPlaced(ht), NEW k \in KeysIn(ht)
    PROVE  /\ Hash[k] \in Nat /\ rev(Hash[k]) \in Nat
           /\ k \in KeysOf(ht.table[Hash[k] % ht.size])
<1>1. k \in Keys /\ \E e \in ht.table[Bucket(ht, k)] : e.key = k
  BY KeyPlace
<1>2. Hash[k] \in Nat
  BY <1>1, DictAssumption
<1> QED
  BY <1>1, <1>2, RevInRange DEF Bucket, KeysOf

(* The bucket of v holds the keys of its table between v and the end of the  *)
(* stretch of v.                                                             *)
LEMMA OneBucket ==
    ASSUME NEW ht, IsHt(ht), HtPlaced(ht), NEW k \in 0 .. CursorBits, ht.size = Pow2[k],
           NEW v \in Nat, NEW y \in Nat,
           y <= Pow2[CursorBits - k] * Stretch(v, Pow2[CursorBits - k]) + Pow2[CursorBits - k]
    PROVE  KeysBefore(ht, v, y) \subseteq KeysOf(ht.table[v % ht.size])
<1> DEFINE q == Pow2[CursorBits - k]
           s == Stretch(v, q)
<1>1. q \in Nat /\ q > 0
  BY PowerParts
<1>2. rev(v) \in Nat /\ s \in Nat /\ q * s <= rev(v)
  <2> DEFINE x == rev(v)
  <2>1. x \in Nat
    BY RevInRange
  <2> HIDE DEF x, q
  <2>2. x = q * (x \div q) + (x % q) /\ x \div q \in Nat /\ x % q \in Nat
    BY <1>1, <2>1, DivSplit
  <2>3. q * (x \div q) \in Nat
    BY <1>1, <2>2
  <2> QED
    BY <2>1, <2>2, <2>3 DEF x, Stretch
<1>3. ASSUME NEW l \in KeysBefore(ht, v, y) PROVE l \in KeysOf(ht.table[v % ht.size])
  <2>1. /\ l \in KeysIn(ht) /\ rev(v) <= rev(Hash[l]) /\ rev(Hash[l]) < y
        /\ Hash[l] \in Nat /\ rev(Hash[l]) \in Nat
        /\ l \in KeysOf(ht.table[Hash[l] % ht.size])
    BY BucketHolds DEF KeysBefore
  <2>2. rev(Hash[l]) \div q = s
    <3> DEFINE x == rev(Hash[l])
    <3>1. y <= q * s + q
      OBVIOUS
    <3> HIDE DEF q, s
    <3>2. q * s \in Nat
      BY <1>1, <1>2
    <3>3. q * s <= rev(Hash[l]) /\ rev(Hash[l]) < q * s + q
      BY <1>1, <1>2, <2>1, <3>1, <3>2
    <3> QED
      BY <1>1, <1>2, <2>1, <3>3, InStretch
  <2>3. Hash[l] % ht.size = v % ht.size
    BY <2>1, <2>2, SameBucket DEF Stretch
  <2> QED
    BY <2>1, <2>3
<1> QED
  BY <1>3

(* What a call with cursor v must do: go forward, and emit every key of the  *)
(* dict between v and the cursor it returns.                                 *)
ScansFrom(v, r) ==
    /\ r.cursor \in ULong
    /\ Reached(r.cursor) \in Nat
    /\ rev(v) < Reached(r.cursor)
    /\ KeysBefore(d.ht0, v, Reached(r.cursor)) \subseteq KeysOf(r.entries)
    /\ KeysBefore(d.ht1, v, Reached(r.cursor)) \subseteq KeysOf(r.entries)

LEMMA ScanStep ==
    ASSUME WellFormed(d), NEW v \in ULong
    PROVE  ScansFrom(v, dictScan(v))
<1> DEFINE r == dictScan(v)
           y == Reached(r.cursor)
<1>1. /\ v \in Nat /\ rev(v) \in Nat /\ rev(v) < Pow2[CursorBits]
      /\ Pow2[CursorBits] \in Nat
  BY PowerSteps, RevInRange, ULongIsNat DEF ULong
<1>2. /\ IsHt(d.ht0) /\ HtPlaced(d.ht0) /\ IsHt(d.ht1) /\ HtPlaced(d.ht1)
      /\ d.ht0.size \in Nat /\ d.ht1.size \in Nat
  BY WellFormedFields
<1>3. CASE dictSize(d) = 0
  <2>1. Contents(d) = {}
    BY <1>3, SizeZeroIsEmpty
  <2>2. KeysIn(d.ht0) = {} /\ KeysIn(d.ht1) = {}
    BY <2>1 DEF Contents, KeysIn
  <2>3. r.cursor = 0
    BY <1>3 DEF dictScan
  <2>4. r.cursor \in ULong /\ y = Pow2[CursorBits]
    BY <2>3, RevZero DEF Reached
  <2> HIDE DEF r
  <2> QED
    BY <1>1, <2>2, <2>4 DEF ScansFrom, KeysBefore, r
<1>4. CASE dictSize(d) # 0 /\ ~dictIsRehashing(d)
  <2>1. Contents(d) # {} /\ KeysIn(d.ht1) = {}
    BY <1>4, SizeZeroIsEmpty, TablesPlaced
  <2>2. d.ht0.size > 0
    BY <2>1, NonEmptyHasTable
  <2>3. PICK k \in 0 .. CursorBits : d.ht0.size = Pow2[k]
    BY <1>2, <2>2, TableHasPower
  <2>4. r = [entries |-> d.ht0.table[v % d.ht0.size], cursor |-> NextCursor(v, d.ht0.size)]
    BY <1>4 DEF dictScan
  <2>5. r.entries = d.ht0.table[v % d.ht0.size] /\ r.cursor = NextCursor(v, Pow2[k])
    BY <2>3, <2>4
  <2> HIDE DEF r
  <2>6. /\ r.cursor \in ULong /\ y \in Nat /\ rev(v) < y
        /\ y = Pow2[CursorBits - k] * Stretch(v, Pow2[CursorBits - k]) + Pow2[CursorBits - k]
    BY <1>1, <2>5, NextReached
  <2>7. KeysBefore(d.ht0, v, y) \subseteq KeysOf(r.entries)
    <3> HIDE DEF y
    <3>1. y <= Pow2[CursorBits - k] * Stretch(v, Pow2[CursorBits - k]) + Pow2[CursorBits - k]
      BY <2>6
    <3> QED
      BY <1>1, <1>2, <2>3, <2>5, <2>6, <3>1, OneBucket
  <2>8. KeysBefore(d.ht1, v, y) = {}
    BY <2>1 DEF KeysBefore
  <2> QED
    BY <2>6, <2>7, <2>8 DEF ScansFrom, r
<1>5. CASE dictSize(d) # 0 /\ dictIsRehashing(d)
  <2>1. /\ IsHt(Small) /\ HtPlaced(Small) /\ IsHt(Big) /\ HtPlaced(Big)
        /\ Small.size > 0 /\ Big.size > 0 /\ Small.size <= Big.size
        /\ {Small, Big} = {d.ht0, d.ht1}
    BY <1>2, <1>5, RehashingFields DEF Small, Big
  <2>2. PICK a \in 0 .. CursorBits : Small.size = Pow2[a]
    BY <2>1, TableHasPower
  <2>3. PICK b \in 0 .. CursorBits : Big.size = Pow2[b]
    BY <2>1, TableHasPower
  <2>4. TwoTables(a, b)
    BY <2>1, <2>2, <2>3 DEF TwoTables, IsHt
  <2> DEFINE loop == TheLoop[v]
             qs == Pow2[CursorBits - a]
             qb == Pow2[CursorBits - b]
  <2>5. r = [entries |-> Small.table[v % Small.size] \cup loop.entries, cursor |-> loop.cursor]
    BY <1>5, ExpansionsLoop DEF dictScan
  <2>6. r.entries = Small.table[v % Small.size] \cup loop.entries /\ r.cursor = loop.cursor
    BY <2>5
  <2> HIDE DEF r
  <2>7. /\ loop.cursor \in ULong /\ y \in Nat /\ rev(v) < y
        /\ y <= qs * Stretch(v, qs) + qs
        /\ \A h \in Nat : qb * Stretch(v, qb) <= rev(h) /\ rev(h) < y
             => Big.table[h % Big.size] \subseteq loop.entries
    <3>1. loop \in [entries : SUBSET Entry, cursor : ULong]
      BY <2>4, LoopSteps
    <3>2. LoopReaches(a, b, v)
      BY <2>4, LoopCovers
    <3> QED
      BY <2>6, <3>1, <3>2 DEF LoopReaches
  <2> HIDE DEF loop, y
  <2>8. KeysBefore(Small, v, y) \subseteq KeysOf(Small.table[v % Small.size])
    BY <1>1, <2>1, <2>2, <2>7, OneBucket
  <2>9. KeysBefore(Big, v, y) \subseteq KeysOf(loop.entries)
    <3>1. qb * Stretch(v, qb) <= rev(v) /\ qb * Stretch(v, qb) \in Nat
      <4> DEFINE x == rev(v)
      <4>1. qb \in Nat /\ qb > 0 /\ x \in Nat
        BY <1>1, PowerParts
      <4> HIDE DEF x, qb
      <4>2. x = qb * (x \div qb) + (x % qb) /\ x \div qb \in Nat /\ x % qb \in Nat
        BY <4>1, DivSplit
      <4>3. qb * (x \div qb) \in Nat
        BY <4>1, <4>2
      <4> QED
        BY <4>1, <4>2, <4>3 DEF x, Stretch
    <3> HIDE DEF qb
    <3>2. ASSUME NEW k \in KeysBefore(Big, v, y) PROVE k \in KeysOf(loop.entries)
      <4>1. /\ k \in KeysIn(Big) /\ rev(v) <= rev(Hash[k]) /\ rev(Hash[k]) < y
            /\ Hash[k] \in Nat /\ rev(Hash[k]) \in Nat
            /\ k \in KeysOf(Big.table[Hash[k] % Big.size])
        BY <2>1, BucketHolds DEF KeysBefore
      <4>2. qb * Stretch(v, qb) <= rev(Hash[k])
        BY <1>1, <3>1, <4>1
      <4>3. Big.table[Hash[k] % Big.size] \subseteq loop.entries
        BY <2>7, <4>1, <4>2
      <4> QED
        BY <4>1, <4>3 DEF KeysOf
    <3> QED
      BY <3>2
  <2>10. KeysBefore(Small, v, y) \subseteq KeysOf(r.entries)
         /\ KeysBefore(Big, v, y) \subseteq KeysOf(r.entries)
    BY <2>6, <2>8, <2>9 DEF KeysOf
  <2>11. KeysBefore(d.ht0, v, y) \subseteq KeysOf(r.entries)
         /\ KeysBefore(d.ht1, v, y) \subseteq KeysOf(r.entries)
    BY <2>1, <2>10
  <2> QED
    BY <2>6, <2>7, <2>11 DEF ScansFrom, r, y
<1> QED
  BY <1>3, <1>4, <1>5


-----------------------------------------------------------------------------
(* The invariant of scans. *)

(* A scan has emitted every key of before, that has stayed, whose hash its   *)
(* cursor has passed; when it is done that is all of them.                   *)
ScanOK ==
    walk.kind = "scan" =>
        /\ walk.cursor \in ULong
        /\ must \subseteq AllKeys
        /\ walk.done => walk.cursor = 0
        /\ \A k \in must :
             walk.done \/ rev(Hash[k]) < rev(walk.cursor) => k \in seen

(* Calls that are no part of the scan do not take its keys away.             *)
LEMMA ScanUndisturbed ==
    ASSUME ScanOK, walk' = walk, walk.kind = "scan" => must' \subseteq AllKeys',
           must' \subseteq must, must' \cap seen \subseteq seen'
    PROVE  ScanOK'
  BY DEF ScanOK

LEMMA CallsKeepKeys ==
    ASSUME WalkInv,
           \/ Update \/ Fetch \/ Rehash \/ GetRandomKey
           \/ \E n \in SampleSizes : GetSomeKeys(n)
    PROVE  AllKeys \subseteq AllKeys'
<1>1. /\ WellFormed(d) /\ dict_can_resize \in BOOLEAN
  BY DEF WalkInv, DictInv, TypeOK
<1>2. Contents(d)' = Contents(d')
  BY DEF Contents, Entries
<1>3. ASSUME Contents(d') = Contents(d) PROVE AllKeys \subseteq AllKeys'
  BY <1>2, <1>3 DEF AllKeys
<1>4. CASE Update
  <2>1. ASSUME NEW k \in Keys, NEW v \in Vals, DictAdd(k, v)
        PROVE  AllKeys \subseteq AllKeys'
    <3>1. d' = dictAdd(d, k, v, dict_can_resize)
      BY <2>1 DEF DictAdd
    <3>2. Contents(d) \subseteq Contents(d')
      BY <1>1, <3>1, AddCorrect
    <3> QED
      BY <1>2, <3>2 DEF AllKeys
  <2>2. ASSUME NEW k \in Keys, NEW v \in Vals, DictReplace(k, v)
        PROVE  AllKeys \subseteq AllKeys'
    <3> DEFINE n == [key |-> k, val |-> v]
    <3>1. d' = dictReplace(d, k, v, dict_can_resize)
      BY <2>2 DEF DictReplace
    <3>2. Contents(d') = (Contents(d) \ {e \in Contents(d) : e.key = k}) \cup {n}
      BY <1>1, <3>1, ReplaceCorrect
    <3>3. n.key = k
      OBVIOUS
    <3> HIDE DEF n
    <3>4. \A e \in Contents(d) : \E f \in Contents(d') : f.key = e.key
      BY <3>2, <3>3
    <3> QED
      BY <1>2, <3>4 DEF AllKeys
  <2>3. ASSUME NEW n \in ExpandArgs, DictExpand(n) PROVE AllKeys \subseteq AllKeys'
    <3>1. d' = dictExpand(d, n) /\ n \in Nat
      BY <2>3, CallsAssumption DEF DictExpand
    <3> QED
      BY <1>1, <1>3, <3>1, ExpandPreserves
  <2>4. CASE DictResize
    <3>1. Minimal(d) \in Nat
      BY <1>1, WellFormedFields, SizesPositive DEF Minimal
    <3>2. d' = d \/ d' = dictExpand(d, Minimal(d))
      BY <2>4 DEF DictResize, dictResize
    <3> QED
      BY <1>1, <1>3, <3>1, <3>2, ExpandPreserves
  <2> QED
    BY <1>4, <2>1, <2>2, <2>3, <2>4 DEF Update
<1>5. CASE Fetch
  <2>1. PICK k \in Keys : DictFetchValue(k)
    BY <1>5 DEF Fetch
  <2>2. d' = AfterFind(d)
    BY <2>1 DEF DictFetchValue
  <2> QED
    BY <1>1, <1>3, <2>2, FindCorrect
<1>6. CASE Rehash
  <2>1. PICK n \in RehashArgs : d' = dictRehash(d, n)
    BY <1>6 DEF Rehash, DictRehash
  <2> QED
    BY <1>1, <1>3, <2>1, RehashPreserves
<1>7. CASE GetRandomKey
  <2>1. d' = RehashStep(d)
    BY <1>7 DEF GetRandomKey
  <2> QED
    BY <1>1, <1>3, <2>1, RehashStepPreserves
<1>8. ASSUME NEW n \in SampleSizes, GetSomeKeys(n) PROVE AllKeys \subseteq AllKeys'
  <2> DEFINE c == Min({n, dictSize(d)})
  <2>1. d' = Stepped(c)
    BY <1>8 DEF GetSomeKeys
  <2>2. c \in Nat
    <3>1. n \in Nat /\ dictSize(d) \in Nat
      BY <1>1, WalkAssumption, SizeIsCardinality
    <3>2. {n, dictSize(d)} \in SUBSET Nat /\ {n, dictSize(d)} # {}
      BY <3>1
    <3>3. Min({n, dictSize(d)}) \in {n, dictSize(d)}
      BY <3>2, MinOfNat
    <3> QED
      BY <3>1, <3>3
  <2> HIDE DEF c
  <2> QED
    BY <1>1, <1>3, <2>1, <2>2, SteppedPreserves
<1> QED
  BY <1>4, <1>5, <1>6, <1>7, <1>8

LEMMA DeleteKeepsScan ==
    ASSUME WalkInv, ScanOK, NEW k \in Keys, Delete(k)
    PROVE  ScanOK'
<1>1. /\ WellFormed(d) /\ IsWalk(walk) /\ d' = dictDelete(d, k)
      /\ must' = must \ {k} /\ seen' = seen \ {k}
      /\ walk' = IF walk.kind # "iterator" THEN walk
                 ELSE [walk EXCEPT !.after = @ \ {k}]
  BY DEF WalkInv, DictInv, Delete, DictDelete
<1>2. CASE walk.kind = "iterator"
  <2>1. IsIterator(walk)
    BY <1>1, <1>2 DEF IsWalk
  <2>2. walk'.kind = "iterator"
    BY <1>1, <1>2, <2>1, Zenon DEF IsIterator
  <2> QED
    BY <2>2 DEF ScanOK
<1>3. CASE walk.kind # "iterator"
  <2>1. Contents(d') = Contents(d) \ {e \in Contents(d) : e.key = k}
    BY <1>1, DeleteCorrect
  <2>2. Contents(d)' = Contents(d')
    BY DEF Contents, Entries
  <2>3. AllKeys \ {k} \subseteq AllKeys'
    BY <2>1, <2>2 DEF AllKeys
  <2>4. walk.kind = "scan" => must' \subseteq AllKeys'
    BY <1>1, <2>3 DEF ScanOK
  <2> QED
    BY <1>1, <1>3, <2>4, ScanUndisturbed
<1> QED
  BY <1>2, <1>3

(* The call of dictScan itself: the keys it emits are those between the two  *)
(* cursors.                                                                  *)
LEMMA DictScanKeepsScan ==
    ASSUME WalkInv, ScanOK, DictScan
    PROVE  /\ ScanOK'
           /\ walk'.cursor = 0 \/ rev(walk'.cursor) > rev(walk.cursor)
<1> DEFINE v == walk.cursor
           r == dictScan(v)
           y == Reached(r.cursor)
<1>1. /\ walk.kind = "scan" /\ ~walk.done /\ WellFormed(d)
      /\ walk' = [kind |-> "scan", cursor |-> r.cursor, done |-> r.cursor = 0]
      /\ seen' = seen \cup KeysOf(r.entries)
      /\ d' = d /\ must' = must
  BY DEF DictScan, WalkInv, DictInv, KeysOf
<1>2. v \in ULong /\ must \subseteq AllKeys
      /\ \A k \in must : rev(Hash[k]) < rev(v) => k \in seen
  BY <1>1 DEF ScanOK
<1>3. ScansFrom(v, r)
  BY <1>1, <1>2, ScanStep
<1> HIDE DEF v, r
<1>4. /\ walk'.kind = "scan" /\ walk'.cursor = r.cursor
      /\ walk'.done <=> r.cursor = 0
  BY <1>1, Zenon
<1>5. AllKeys = KeysIn(d.ht0) \cup KeysIn(d.ht1)
  BY DEF AllKeys, Contents, KeysIn
<1>6. AllKeys' = AllKeys
  BY <1>1 DEF AllKeys, Contents, Entries
<1>7. /\ rev(v) \in Nat /\ y \in Nat /\ rev(v) < y /\ r.cursor \in ULong
      /\ KeysBefore(d.ht0, v, y) \subseteq KeysOf(r.entries)
      /\ KeysBefore(d.ht1, v, y) \subseteq KeysOf(r.entries)
  BY <1>2, <1>3, RevInRange, ULongIsNat DEF ScansFrom
<1>8. ASSUME NEW k \in must, rev(Hash[k]) < y PROVE k \in seen'
  <2>1. k \in KeysIn(d.ht0) \cup KeysIn(d.ht1)
    BY <1>2, <1>5
  <2>2. Hash[k] \in Nat /\ rev(Hash[k]) \in Nat
    <3>1. IsHt(d.ht0) /\ HtPlaced(d.ht0) /\ IsHt(d.ht1) /\ HtPlaced(d.ht1)
      BY <1>1, WellFormedFields
    <3> QED
      BY <2>1, <3>1, BucketHolds
  <2>3. CASE rev(Hash[k]) < rev(v)
    BY <1>1, <1>2, <2>3
  <2>4. CASE rev(v) <= rev(Hash[k])
    <3>1. k \in KeysBefore(d.ht0, v, y) \cup KeysBefore(d.ht1, v, y)
      BY <1>8, <2>1, <2>4 DEF KeysBefore
    <3> QED
      BY <1>1, <1>7, <3>1
  <2> QED
    BY <1>7, <2>2, <2>3, <2>4
<1>9. ASSUME NEW k \in must, walk'.done \/ rev(Hash[k]) < rev(walk'.cursor)
      PROVE  rev(Hash[k]) < y
  <2>1. CASE r.cursor = 0
    <3>1. y = Pow2[CursorBits]
      BY <2>1 DEF Reached
    <3>2. Hash[k] \in Nat
      <4>1. k \in KeysIn(d.ht0) \cup KeysIn(d.ht1)
        BY <1>2, <1>5
      <4>2. IsHt(d.ht0) /\ HtPlaced(d.ht0) /\ IsHt(d.ht1) /\ HtPlaced(d.ht1)
        BY <1>1, WellFormedFields
      <4> QED
        BY <4>1, <4>2, BucketHolds
    <3>3. rev(Hash[k]) \in ULong
      BY <3>2, RevInRange
    <3> QED
      BY <3>1, <3>3, PowerSteps DEF ULong
  <2>2. CASE r.cursor # 0
    BY <1>4, <1>9, <2>2 DEF Reached
  <2> QED
    BY <2>1, <2>2
<1>10. r.cursor = 0 \/ rev(r.cursor) > rev(v)
  BY <1>7 DEF Reached
<1>11. ScanOK'
  BY <1>1, <1>2, <1>4, <1>6, <1>7, <1>8, <1>9 DEF ScanOK
<1> QED
  BY <1>4, <1>10, <1>11 DEF v

LEMMA ScanOKStep ==
    ASSUME WalkInv, ScanOK, WalkNext
    PROVE  ScanOK'
<1>1. CASE \/ Update \/ Fetch \/ Rehash \/ GetRandomKey
           \/ \E n \in SampleSizes : GetSomeKeys(n)
  <2>1. walk' = walk /\ must' = must /\ seen' = seen
    BY <1>1 DEF Update, Fetch, Rehash, GetRandomKey, GetSomeKeys, walkVars
  <2>2. AllKeys \subseteq AllKeys'
    BY <1>1, CallsKeepKeys
  <2>3. walk.kind = "scan" => must' \subseteq AllKeys'
    BY <2>1, <2>2 DEF ScanOK
  <2> QED
    BY <2>1, <2>3, ScanUndisturbed
<1>2. CASE EmptyAll
  <2>1. walk' = walk /\ must' = {}
    BY <1>2 DEF EmptyAll
  <2> QED
    BY <2>1, ScanUndisturbed
<1>3. CASE \E k \in Keys : Delete(k)
  BY <1>3, DeleteKeepsScan
<1>4. CASE DictScan
  BY <1>4, DictScanKeepsScan
<1>5. CASE ScanBegin
  <2>1. walk' = [kind |-> "scan", cursor |-> 0, done |-> FALSE]
        /\ must' = AllKeys /\ d' = d
    BY <1>5, Zenon DEF ScanBegin
  <2>2. walk'.kind = "scan" /\ walk'.cursor = 0 /\ walk'.done = FALSE
    BY <2>1, Zenon
  <2>3. AllKeys' = AllKeys
    BY <2>1 DEF AllKeys, Contents, Entries
  <2>4. ASSUME NEW k \in must' PROVE ~(rev(Hash[k]) < 0)
    <3>1. k \in KeysIn(d.ht0) \cup KeysIn(d.ht1)
      BY <2>1 DEF AllKeys, Contents, KeysIn
    <3>2. WellFormed(d)
      BY DEF WalkInv, DictInv
    <3>3. IsHt(d.ht0) /\ HtPlaced(d.ht0) /\ IsHt(d.ht1) /\ HtPlaced(d.ht1)
      BY <3>2, WellFormedFields
    <3>4. rev(Hash[k]) \in Nat
      BY <3>1, <3>3, BucketHolds
    <3> QED
      BY <3>4
  <2> QED
    BY <2>1, <2>2, <2>3, <2>4, RevZero DEF ScanOK
<1>6. CASE \/ \E safe \in BOOLEAN : GetIterator(safe)
           \/ FirstNext \/ DictNext \/ ReleaseIterator \/ ScanEnd
  <2>1. walk'.kind # "scan"
    <3>1. ASSUME NEW safe \in BOOLEAN, GetIterator(safe) PROVE walk'.kind # "scan"
      <4>1. walk'.kind = "iterator"
        BY <3>1, Zenon DEF GetIterator
      <4> QED
        BY <4>1
    <3>2. CASE FirstNext \/ DictNext
      <4>1. PICK it, a : Return(it, a)
        BY <3>2, Zenon DEF FirstNext, DictNext
      <4>2. PICK next \in Heads(a.rest) :
              walk' = [kind |-> "iterator", safe |-> it.safe,
                       table |-> a.table, index |-> a.index,
                       nextEntry |-> next, after |-> a.rest \ next,
                       fingerprint |-> it.fingerprint, done |-> a.entry = {}]
        BY <4>1, Zenon DEF Return
      <4>3. walk'.kind = "iterator"
        BY <4>2, Zenon
      <4> QED
        BY <4>3
    <3>3. CASE ReleaseIterator
      <4>1. walk'.kind = "aborted" \/ walk'.kind = "none"
        BY <3>3, Zenon DEF ReleaseIterator, NoWalk
      <4> QED
        BY <4>1
    <3>4. CASE ScanEnd
      <4>1. walk'.kind = "none"
        BY <3>4, Zenon DEF ScanEnd, NoWalk
      <4> QED
        BY <4>1
    <3> QED
      BY <1>6, <3>1, <3>2, <3>3, <3>4
  <2> QED
    BY <2>1 DEF ScanOK
<1> QED
  BY <1>1, <1>2, <1>3, <1>4, <1>5, <1>6 DEF WalkNext

THEOREM ScanSafety == WalkSpec => []ScanOK
<1>1. WalkInit => ScanOK
  <2> SUFFICES ASSUME WalkInit PROVE ScanOK
    OBVIOUS
  <2>1. walk.kind = "none"
    BY Zenon DEF WalkInit, NoWalk
  <2> QED
    BY <2>1 DEF ScanOK
<1>2. WalkInv /\ ScanOK /\ [WalkNext]_allVars => ScanOK'
  <2>1. ASSUME WalkInv, ScanOK, WalkNext PROVE ScanOK'
    BY <2>1, ScanOKStep
  <2>2. ASSUME ScanOK, UNCHANGED allVars PROVE ScanOK'
    <3>1. d' = d /\ walk' = walk /\ must' = must /\ seen' = seen
      BY <2>2 DEF allVars, vars, walkVars
    <3> QED
      BY <2>2, <3>1 DEF ScanOK, AllKeys
  <2> QED
    BY <2>1, <2>2
<1> QED
  BY <1>1, <1>2, WalkSafety, PTL DEF WalkSpec


(* dict.c:757: a traversal that has come to its end, an iteration or a scan, *)
(* has returned every key that was there when it began and stayed, whatever  *)
(* the table did between its calls.                                          *)
THEOREM TraversalsComplete == WalkSpec => []TraversalComplete
<1>1. WalkInv /\ ScanOK => TraversalComplete
  <2> SUFFICES ASSUME WalkInv, ScanOK, walk.done, ~Stale
               PROVE  must \subseteq seen
    BY DEF TraversalComplete
  <2>1. CASE walk.kind = "scan"
    BY <2>1 DEF ScanOK
  <2>2. CASE walk.kind # "scan"
    <3>1. walk.kind = "iterator"
      BY <2>2 DEF WalkInv, IsWalk, IsIterator
    <3>2. Begun
      BY <3>1 DEF WalkInv, Fresh
    <3> QED
      BY <3>2 DEF WalkInv, OnTrack
  <2> QED
    BY <2>1, <2>2
<1> QED
  BY <1>1, WalkSafety, ScanSafety, PTL

(* dict.c:859-907: the cursor of a scan, its bits reversed, only grows.      *)
THEOREM CursorsGoForward == WalkSpec => CursorForward
<1> DEFINE P == ret'.op = "scan" =>
                  walk'.cursor = 0 \/ rev(walk'.cursor) > rev(walk.cursor)
<1>1. ASSUME WalkInv, ScanOK, WalkNext PROVE P
  <2>1. CASE DictScan
    BY <1>1, <2>1, DictScanKeepsScan
  <2>2. CASE ~DictScan
    <3>1. ret'.op # "scan"
      <4>1. CASE Update \/ Fetch \/ Rehash \/ EmptyAll \/ \E k \in Keys : Delete(k)
        BY <4>1 DEF Update, Fetch, Rehash, EmptyAll, Delete, DictAdd, DictReplace,
           DictExpand, DictResize, DictFetchValue, DictRehash, DictEmpty, DictDelete
      <4>2. CASE FirstNext
        BY <4>2 DEF FirstNext, SafeIteratorBegin
      <4>3. CASE ReleaseIterator
        BY <4>3 DEF ReleaseIterator, SafeIteratorRelease
      <4>4. CASE \E safe \in BOOLEAN : GetIterator(safe)
        BY <4>4 DEF GetIterator
      <4>5. CASE ScanBegin \/ ScanEnd
        BY <4>5 DEF ScanBegin, ScanEnd
      <4>6. CASE GetRandomKey
        BY <4>6 DEF GetRandomKey
      <4>7. CASE \E n \in SampleSizes : GetSomeKeys(n)
        BY <4>7 DEF GetSomeKeys
      <4>8. CASE DictNext
        BY <4>8 DEF DictNext
      <4> QED
        BY <1>1, <2>2, <4>1, <4>2, <4>3, <4>4, <4>5, <4>6, <4>7, <4>8 DEF WalkNext
    <3> QED
      BY <3>1
  <2> QED
    BY <2>1, <2>2
<1>2. WalkInv /\ ScanOK /\ [WalkNext]_allVars => [P]_allVars
  BY <1>1
<1> QED
  BY <1>2, WalkSafety, ScanSafety, PTL DEF WalkSpec, CursorForward

-----------------------------------------------------------------------------
(* Samples: a draw starts at a bucket and sweeps both tables, round to it.   *)

(* The keys of some entries. *)
KeysOfAll(s) == {e.key : e \in s}

(* The states dictGetSomeKeys can be in. *)
Draws(x, count) ==
    [i : 0 .. MaxMaskOf(x) - 1, empty : Nat, keys : SUBSET KeysOfAll(Contents(x)),
     stored : 0 .. count]

(* A bucket is passed over. *)
Passed(x, count, j, c, i) ==
    c.stored = count \/ (j = 0 /\ i < x.rehashidx) \/ i >= Table(x, j).size

(* The visit of bucket i of table j makes b of c. *)
Visits(x, count, j, c, i, b) ==
    \/ /\ Passed(x, count, j, c, i)
       /\ b.i = i /\ b.empty = c.empty /\ b.keys = c.keys /\ b.stored = c.stored
    \/ /\ ~Passed(x, count, j, c, i)
       /\ b.i = i /\ b.empty = 0 /\ b.stored <= count
       /\ \E s \in SUBSET Table(x, j).table[i] :
            /\ b.keys = c.keys \cup KeysOfAll(s)
            /\ b.stored = c.stored + Cardinality(s)
            /\ b.stored = count \/ s = Table(x, j).table[i]
    \/ /\ ~Passed(x, count, j, c, i) /\ Table(x, j).table[i] = {}
       /\ b.keys = c.keys /\ b.stored = c.stored
       /\ b.empty = 0 /\ EmptyJump <= c.empty + 1
    \/ /\ ~Passed(x, count, j, c, i) /\ Table(x, j).table[i] = {}
       /\ b.keys = c.keys /\ b.stored = c.stored
       /\ b.i = i /\ b.empty = c.empty + 1

(* The smaller of two. *)
LEMMA MinOfTwo ==
    ASSUME NEW a \in Nat, NEW b \in Nat
    PROVE  Min({a, b}) \in {a, b} /\ Min({a, b}) <= a /\ Min({a, b}) <= b
<1>1. {a, b} \in SUBSET Nat /\ {a, b} # {}
  OBVIOUS
<1>2. PICK m \in {a, b} : \A k \in {a, b} : m <= k
  BY <1>1, Least
<1> QED
  BY <1>2 DEF Min

(* A chain is a finite part of the contents. *)
LEMMA ChainInContents ==
    ASSUME NEW x, WellFormed(x), NEW j \in {0, 1}, NEW i \in 0 .. Table(x, j).size - 1
    PROVE  /\ Table(x, j).table[i] \subseteq Contents(x)
           /\ IsFiniteSet(Table(x, j).table[i])
           /\ Cardinality(Table(x, j).table[i]) \in Nat
<1> DEFINE C == Table(x, j).table[i]
<1>1. IsHt(Table(x, j)) /\ Entries(Table(x, j)) \subseteq Contents(x)
  BY WellFormedFields DEF Table, Contents
<1>2. i \in DOMAIN Table(x, j).table
  BY <1>1 DEF IsHt
<1>3. C \subseteq Contents(x)
  BY <1>1, <1>2 DEF Entries
<1>4. IsFiniteSet(C)
  BY <1>3, SizeIsCardinality, FS_Subset
<1> QED
  BY <1>3, <1>4, FS_CardinalityType

(* The larger table has MaxMaskOf buckets. *)
LEMMA MaskSizes ==
    ASSUME NEW x, WellFormed(x)
    PROVE  /\ MaxMaskOf(x) \in Nat
           /\ \A j \in {0, 1} : Table(x, j).size \in 0 .. MaxMaskOf(x)
           /\ x.rehashidx \in Nat \cup {-1} /\ x.rehashidx < MaxMaskOf(x)
  <1>1. x.ht0.size \in Nat /\ x.ht1.size \in Nat /\ x.rehashidx \in Nat \cup {-1}
    BY WellFormedFields
  <1>2. x.rehashidx # -1 => x.rehashidx < x.ht0.size
    BY RehashingFields DEF dictIsRehashing
  <1>3. MaxMaskOf(x) \in Nat /\ x.ht0.size <= MaxMaskOf(x) /\ x.ht1.size <= MaxMaskOf(x)
    BY <1>1 DEF MaxMaskOf
  <1>4. \A j \in {0, 1} : Table(x, j).size \in 0 .. MaxMaskOf(x)
    BY <1>1, <1>3 DEF Table
  <1> QED
    BY <1>1, <1>2, <1>3, <1>4

(* Where a table is looked at is in range. *)
LEMMA SkipInRange ==
    ASSUME NEW x, WellFormed(x), NEW j \in {0, 1}, NEW i \in 0 .. MaxMaskOf(x) - 1
    PROVE  SkipTo(x, j, i) \in 0 .. MaxMaskOf(x) - 1 /\ SkipTo(x, j, i) >= i
  BY MaskSizes DEF SkipTo

(* Probe makes one such visit. *)
LEMMA ProbeVisits ==
    ASSUME NEW x, WellFormed(x), NEW count \in Nat, NEW j \in {0, 1},
           NEW c \in Draws(x, count), NEW b \in Probe(x, count, j, c)
    PROVE  b \in Draws(x, count) /\ Visits(x, count, j, c, SkipTo(x, j, c.i), b)
<1> DEFINE i == SkipTo(x, j, c.i)
           ht == Table(x, j)
           chain == ht.table[i]
           room == Min({count - c.stored, Cardinality(chain)})
           M == MaxMaskOf(x)
           all == KeysOfAll(Contents(x))
           pass == Passed(x, count, j, c, i)
           next == {[i |-> i, empty |-> 0, stored |-> c.stored + room,
                     keys |-> c.keys \cup {e.key : e \in s}] : s \in kSubset(room, chain)}
           away == {[c EXCEPT !.i = r, !.empty = 0] : r \in 0 .. M - 1}
<1>1. /\ c.i \in 0 .. M - 1 /\ c.empty \in Nat /\ c.keys \in SUBSET all
      /\ c.stored \in 0 .. count
      /\ c = [i |-> c.i, empty |-> c.empty, keys |-> c.keys, stored |-> c.stored]
  BY DEF Draws
<1>2. i \in 0 .. M - 1
  BY <1>1, SkipInRange
<1>3. /\ ht.table = (IF j = 0 THEN x.ht0.table ELSE x.ht1.table)
      /\ ht.size = (IF j = 0 THEN x.ht0.size ELSE x.ht1.size) /\ ht.size \in Nat
      /\ chain = IF j = 0 THEN x.ht0.table[i] ELSE x.ht1.table[i]
  BY WellFormedFields DEF Table
<1>4. /\ pass => b = [c EXCEPT !.i = i]
      /\ ~pass => IF chain # {} THEN b \in next
                  ELSE \/ b \in away /\ c.empty + 1 >= EmptyJump
                       \/ b = [c EXCEPT !.i = i, !.empty = c.empty + 1]
  <2>1. Probe(x, count, j, c) =
          IF pass THEN {[c EXCEPT !.i = i]}
          ELSE IF chain # {} THEN next
          ELSE IF c.empty + 1 >= EmptyJump /\ c.empty + 1 > count THEN away
          ELSE {[c EXCEPT !.i = i, !.empty = @ + 1]}
    BY <1>3, Zenon DEF Probe, Passed
  <2> HIDE DEF pass, chain, next, away, i
  <2> QED
    BY <2>1
<1> HIDE DEF i
<1>5. CASE pass
  <2>1. b = [i |-> i, empty |-> c.empty, keys |-> c.keys, stored |-> c.stored]
    BY <1>1, <1>4, <1>5
  <2>2. b \in Draws(x, count)
    BY <1>1, <1>2, <2>1 DEF Draws
  <2>3. b.i = i /\ b.empty = c.empty /\ b.keys = c.keys /\ b.stored = c.stored
    BY <2>1
  <2>4. Visits(x, count, j, c, i, b)
    BY <1>5, <2>3, Zenon DEF Visits
  <2> QED
    BY <2>2, <2>4 DEF i
<1>6. CASE ~pass /\ chain # {}
  <2>1. i \in 0 .. ht.size - 1
    BY <1>2, <1>3, <1>6, MaskSizes DEF Passed
  <2>2. chain \subseteq Contents(x) /\ IsFiniteSet(chain) /\ Cardinality(chain) \in Nat
    BY <2>1, ChainInContents
  <2> DEFINE n == Cardinality(chain)
             l == count - c.stored
  <2>3. room \in {l, n} /\ room <= l /\ room <= n /\ l \in Nat
    <3>1. l \in Nat /\ n \in Nat
      BY <1>1, <2>2
    <3> HIDE DEF l, n
    <3>2. Min({l, n}) \in {l, n} /\ Min({l, n}) <= l /\ Min({l, n}) <= n
      BY <3>1, MinOfTwo
    <3> QED
      BY <3>1, <3>2 DEF l, n
  <2> HIDE DEF room
  <2>4. PICK s \in kSubset(room, chain) :
          b = [i |-> i, empty |-> 0, stored |-> c.stored + room,
               keys |-> c.keys \cup {e.key : e \in s}]
    BY <1>4, <1>6
  <2>5. s \in SUBSET chain /\ Cardinality(s) = room
    BY <2>4 DEF kSubset
  <2>6. room = n => s = chain
    BY <2>2, <2>5, FS_Subset
  <2>7. /\ b.i = i /\ b.empty = 0 /\ b.stored = c.stored + room
        /\ b.keys = c.keys \cup KeysOfAll(s)
    BY <2>4 DEF KeysOfAll
  <2>8. b.stored \in 0 .. count /\ b.stored <= count /\ (room = l => b.stored = count)
    BY <1>1, <2>2, <2>3, <2>7
  <2>9. b \in Draws(x, count)
    <3>1. KeysOfAll(s) \subseteq all
      BY <2>2, <2>5 DEF KeysOfAll
    <3>2. b.keys \in SUBSET all
      BY <1>1, <2>7, <3>1
    <3> QED
      BY <1>2, <2>4, <2>7, <2>8, <3>2 DEF Draws
  <2>10. b.stored = count \/ s = chain
    BY <2>3, <2>6, <2>8
  <2>11. Visits(x, count, j, c, i, b)
    BY <1>6, <2>5, <2>7, <2>8, <2>10, Zenon DEF Visits
  <2> QED
    BY <2>9, <2>11 DEF i
<1>7. CASE ~pass /\ chain = {} /\ b \in away /\ c.empty + 1 >= EmptyJump
  <2>1. PICK r \in 0 .. M - 1 : b = [c EXCEPT !.i = r, !.empty = 0]
    BY <1>7
  <2>2. b = [i |-> r, empty |-> 0, keys |-> c.keys, stored |-> c.stored]
    BY <1>1, <2>1
  <2>3. b \in Draws(x, count)
    BY <1>1, <2>2 DEF Draws
  <2>4. b.keys = c.keys /\ b.stored = c.stored /\ b.empty = 0 /\ EmptyJump <= c.empty + 1
    BY <1>1, <1>7, <2>2, WalkAssumption
  <2>5. Visits(x, count, j, c, i, b)
    BY <1>7, <2>4, Zenon DEF Visits
  <2> QED
    BY <2>3, <2>5 DEF i
<1>8. CASE ~pass /\ chain = {} /\ b = [c EXCEPT !.i = i, !.empty = c.empty + 1]
  <2>1. b = [i |-> i, empty |-> c.empty + 1, keys |-> c.keys, stored |-> c.stored]
    BY <1>1, <1>8
  <2>2. b \in Draws(x, count)
    BY <1>1, <1>2, <2>1 DEF Draws
  <2>3. b.keys = c.keys /\ b.stored = c.stored /\ b.empty = c.empty + 1 /\ b.i = i
    BY <2>1
  <2>4. Visits(x, count, j, c, i, b)
    BY <1>8, <2>3, Zenon DEF Visits
  <2> QED
    BY <2>2, <2>4 DEF i
<1> QED
  BY <1>4, <1>5, <1>6, <1>7, <1>8, Zenon

(* A draw that began at i0 has come q - i0 buckets on, the second lap counted *)
(* from M: the bucket it is at, and whether it has swept bucket h.            *)
Place(M, q) == IF q < M THEN q ELSE q - M

Swept(M, i0, q, h) == (i0 <= h /\ h < q) \/ h + M < q

(* How many buckets of a table of size s it has swept. *)
Below(s, q) == IF q < s THEN q ELSE s

Met(s, M, i0, q) ==
    Below(s, q) - Below(s, i0) + (IF q < M THEN 0 ELSE Below(s, q - M))

(* The keys of what it has swept in table j are among those drawn. *)
Held(x, j, i0, q, keys) ==
    \A h \in 0 .. Table(x, j).size - 1 :
        Swept(MaxMaskOf(x), i0, q, h) => KeysOfAll(Table(x, j).table[h]) \subseteq keys

(* The state c of a draw that has swept table 0 up to q0, table 1 up to q1.   *)
OnCourse(x, c, i0, q0, q1) ==
    /\ IsFiniteSet(c.keys) /\ Cardinality(c.keys) <= c.stored
    /\ c.empty <= Met(x.ht0.size, MaxMaskOf(x), i0, q0)
                  + Met(x.ht1.size, MaxMaskOf(x), i0, q1)
    /\ Held(x, 0, i0, q0, c.keys) /\ Held(x, 1, i0, q1, c.keys)

(* The number asked for is there, and no run of empty buckets is too long.   *)
Roomy(x, count) ==
    /\ WellFormed(x)
    /\ count \in 0 .. dictSize(x)
    /\ x.ht0.size + x.ht1.size < EmptyJump

(* Some entries have no more keys than there are entries. *)
LEMMA KeysCounted ==
    ASSUME NEW s, IsFiniteSet(s)
    PROVE  /\ IsFiniteSet(KeysOfAll(s)) /\ Cardinality(KeysOfAll(s)) <= Cardinality(s)
           /\ Cardinality(s) \in Nat /\ Cardinality(KeysOfAll(s)) \in Nat
<1> DEFINE f == [e \in s |-> e.key]
<1>1. f \in Surjection(s, KeysOfAll(s))
  BY DEF Surjection, KeysOfAll
<1> QED
  BY <1>1, FS_Surjection, FS_CardinalityType

(* A dict has as many keys as entries. *)
LEMMA AllKeysCounted ==
    ASSUME NEW x, WellFormed(x)
    PROVE  Cardinality(KeysOfAll(Contents(x))) = dictSize(x)
<1> DEFINE s == Contents(x)
           f == [e \in s |-> e.key]
<1>1. \A e, g \in s : e.key = g.key => e = g
  BY WellFormedFields
<1>2. IsFiniteSet(s) /\ dictSize(x) = Cardinality(s)
  BY SizeIsCardinality
<1> HIDE DEF s
<1>3. f \in Surjection(s, KeysOfAll(s)) /\ f \in Injection(s, KeysOfAll(s))
  <2>1. f \in [s -> KeysOfAll(s)]
    BY DEF KeysOfAll
  <2>2. \A k \in KeysOfAll(s) : \E e \in s : f[e] = k
    BY DEF KeysOfAll
  <2>3. \A e, g \in s : f[e] = f[g] => e = g
    BY <1>1
  <2> HIDE DEF f
  <2> QED
    BY <2>1, <2>2, <2>3 DEF Surjection, Injection, IsInjective
<1>4. Cardinality(KeysOfAll(s)) = Cardinality(s)
  BY <1>2, <1>3, FS_Surjection
<1> QED
  BY <1>2, <1>4 DEF s

(* The keys drawn so far, those of a part of a chain added. *)
LEMMA KeysJoined ==
    ASSUME NEW keys, IsFiniteSet(keys), NEW n \in Nat, Cardinality(keys) <= n,
           NEW s, IsFiniteSet(s)
    PROVE  /\ IsFiniteSet(keys \cup KeysOfAll(s))
           /\ Cardinality(keys \cup KeysOfAll(s)) <= n + Cardinality(s)
<1> DEFINE t == KeysOfAll(s)
<1>1. IsFiniteSet(t) /\ Cardinality(t) <= Cardinality(s)
      /\ Cardinality(s) \in Nat /\ Cardinality(t) \in Nat
  BY KeysCounted
<1> HIDE DEF t
<1>2. /\ IsFiniteSet(keys \cup t)
      /\ Cardinality(keys \cup t) = Cardinality(keys) + Cardinality(t) - Cardinality(keys \cap t)
  BY <1>1, FS_Union
<1>3. Cardinality(keys) \in Nat /\ Cardinality(keys \cap t) \in Nat
  BY <1>1, FS_CardinalityType, FS_Subset
<1> DEFINE a == Cardinality(keys)
           b == Cardinality(t)
           e == Cardinality(keys \cap t)
           u == Cardinality(keys \cup t)
           m == Cardinality(s)
<1>4. a \in Nat /\ b \in Nat /\ e \in Nat /\ m \in Nat /\ a <= n /\ b <= m /\ u = a + b - e
  BY <1>1, <1>2, <1>3
<1>5. u <= n + m
  <2> HIDE DEF a, b, e, u, m
  <2> QED
    BY <1>4
<1> QED
  BY <1>2, <1>5 DEF t

(* A draw that has gone round has drawn every key. *)
LEMMA RoundIsFull ==
    ASSUME NEW x, NEW count, Roomy(x, count), NEW c \in Draws(x, count),
           NEW i0 \in 0 .. MaxMaskOf(x) - 1, NEW q0 \in Nat, NEW q1 \in Nat,
           q0 >= i0 + MaxMaskOf(x), q1 >= i0 + MaxMaskOf(x),
           OnCourse(x, c, i0, q0, q1)
    PROVE  c.stored = count
<1> DEFINE M == MaxMaskOf(x)
<1>1. /\ WellFormed(x) /\ dictSize(x) \in Nat /\ count \in Nat /\ count <= dictSize(x)
      /\ M \in Nat /\ \A j \in {0, 1} : Table(x, j).size \in 0 .. M
  BY MaskSizes, SizeIsCardinality DEF Roomy
<1>2. \A j \in {0, 1} : \A h \in 0 .. Table(x, j).size - 1 :
        KeysOfAll(Table(x, j).table[h]) \subseteq c.keys
  <2> TAKE j \in {0, 1}
  <2> TAKE h \in 0 .. Table(x, j).size - 1
  <2>1. h \in 0 .. M - 1
    BY <1>1
  <2> HIDE DEF M
  <2>2. Swept(M, i0, q0, h) /\ Swept(M, i0, q1, h)
    BY <1>1, <2>1 DEF Swept, M
  <2> QED
    BY <2>2 DEF OnCourse, Held, M
<1>3. KeysOfAll(Contents(x)) \subseteq c.keys
  <2> SUFFICES ASSUME NEW e \in Contents(x) PROVE e.key \in c.keys
    BY DEF KeysOfAll
  <2>1. PICK j \in {0, 1} : e \in Entries(Table(x, j))
    BY DEF Contents, Table
  <2>2. IsHt(Table(x, j))
    BY <1>1, WellFormedFields DEF Table
  <2>3. PICK h \in 0 .. Table(x, j).size - 1 : e \in Table(x, j).table[h]
    BY <2>1, <2>2 DEF Entries, IsHt
  <2> QED
    BY <1>2, <2>3 DEF KeysOfAll
<1>4. IsFiniteSet(c.keys) /\ Cardinality(c.keys) <= c.stored /\ c.stored \in 0 .. count
  BY DEF OnCourse, Draws
<1>5. Cardinality(KeysOfAll(Contents(x))) <= Cardinality(c.keys) /\ Cardinality(c.keys) \in Nat
  BY <1>3, <1>4, FS_Subset, FS_CardinalityType
<1> QED
  BY <1>1, <1>4, <1>5, AllKeysCounted

(* One visit, of a bucket i: what it adds. *)
LEMMA VisitAdds ==
    ASSUME NEW x, NEW count, Roomy(x, count), NEW j \in {0, 1},
           NEW c \in Draws(x, count), NEW b \in Draws(x, count),
           NEW i \in 0 .. MaxMaskOf(x) - 1, Visits(x, count, j, c, i, b),
           c.stored # count, b.stored # count,
           IsFiniteSet(c.keys), Cardinality(c.keys) <= c.stored,
           NEW n \in Nat, c.empty <= n, i < Table(x, j).size => n + 1 < EmptyJump
    PROVE  /\ b.i = i
           /\ IsFiniteSet(b.keys) /\ Cardinality(b.keys) <= b.stored
           /\ c.keys \subseteq b.keys
           /\ i < Table(x, j).size => KeysOfAll(Table(x, j).table[i]) \subseteq b.keys
           /\ b.empty <= (IF i < Table(x, j).size THEN n + 1 ELSE n)
<1> DEFINE s == Table(x, j).size
           chain == Table(x, j).table[i]
           pass == Passed(x, count, j, c, i)
<1>1. /\ WellFormed(x) /\ s \in Nat /\ c.empty \in Nat /\ EmptyJump \in Nat
      /\ c.stored \in Nat /\ c.keys = c.keys
  BY MaskSizes, WalkAssumption DEF Roomy, Draws
<1>2. CASE pass /\ b.i = i /\ b.empty = c.empty /\ b.keys = c.keys /\ b.stored = c.stored
  <2>1. ASSUME i < s PROVE KeysOfAll(chain) = {}
    <3>1. j = 0 /\ i < x.rehashidx
      BY <1>1, <1>2, <2>1 DEF Passed
    <3>2. x.rehashidx # -1 /\ x.rehashidx \in Nat \cup {-1}
      BY <1>1, <3>1, MaskSizes
    <3>3. x.ht0.table[i] = {}
      BY <1>1, <3>1, <3>2, RehashingFields DEF dictIsRehashing
    <3> QED
      BY <3>1, <3>3 DEF Table, KeysOfAll
  <2> QED
    BY <1>1, <1>2, <2>1
<1>3. ASSUME ~pass, b.i = i, b.empty = 0,
             NEW S \in SUBSET chain, b.keys = c.keys \cup KeysOfAll(S),
             b.stored = c.stored + Cardinality(S), S = chain
      PROVE  /\ IsFiniteSet(b.keys) /\ Cardinality(b.keys) <= b.stored
             /\ c.keys \subseteq b.keys /\ KeysOfAll(chain) \subseteq b.keys
  <2>1. i < s
    BY <1>1, <1>3 DEF Passed
  <2>2. IsFiniteSet(chain)
    BY <1>1, <2>1, ChainInContents
  <2>3. /\ IsFiniteSet(c.keys \cup KeysOfAll(chain))
        /\ Cardinality(c.keys \cup KeysOfAll(chain)) <= c.stored + Cardinality(chain)
    BY <1>1, <2>2, KeysJoined
  <2> QED
    BY <1>3, <2>3
<1>4. CASE ~pass /\ b.i = i /\ b.empty = 0
             /\ \E S \in SUBSET chain : /\ b.keys = c.keys \cup KeysOfAll(S)
                                        /\ b.stored = c.stored + Cardinality(S)
                                        /\ S = chain
  <2>1. /\ IsFiniteSet(b.keys) /\ Cardinality(b.keys) <= b.stored
        /\ c.keys \subseteq b.keys /\ KeysOfAll(chain) \subseteq b.keys
    BY <1>3, <1>4
  <2>2. b.empty <= (IF i < s THEN n + 1 ELSE n)
    BY <1>1, <1>4
  <2> QED
    BY <1>4, <2>1, <2>2
<1>5. CASE ~pass /\ b.empty = 0 /\ EmptyJump <= c.empty + 1
  BY <1>1, <1>5 DEF Passed
<1>6. CASE ~pass /\ chain = {} /\ b.keys = c.keys /\ b.stored = c.stored
             /\ b.i = i /\ b.empty = c.empty + 1
  <2>1. KeysOfAll(chain) = {} /\ i < s
    BY <1>1, <1>6 DEF KeysOfAll, Passed
  <2> QED
    BY <1>1, <1>6, <2>1
<1>7. \/ pass /\ b.i = i /\ b.empty = c.empty /\ b.keys = c.keys /\ b.stored = c.stored
      \/ ~pass /\ b.i = i /\ b.empty = 0
             /\ \E S \in SUBSET chain : /\ b.keys = c.keys \cup KeysOfAll(S)
                                        /\ b.stored = c.stored + Cardinality(S)
                                        /\ S = chain
      \/ ~pass /\ b.empty = 0 /\ EmptyJump <= c.empty + 1
      \/ ~pass /\ chain = {} /\ b.keys = c.keys /\ b.stored = c.stored
             /\ b.i = i /\ b.empty = c.empty + 1
  BY Zenon DEF Visits
<1> QED
  BY <1>2, <1>4, <1>5, <1>6, <1>7, Zenon

(* How many buckets have been swept, bucket by bucket. *)
LEMMA MetGrows ==
    ASSUME NEW M \in Nat, NEW s \in 0 .. M, NEW i0 \in 0 .. M - 1,
           NEW q \in i0 .. i0 + M - 1
    PROVE  /\ Place(M, q) \in 0 .. M - 1
           /\ Met(s, M, i0, q) \in 0 .. s
           /\ Met(s, M, i0, q + 1) =
                Met(s, M, i0, q) + (IF Place(M, q) < s THEN 1 ELSE 0)
           /\ Place(M, q) < s => Met(s, M, i0, q) + 1 <= s
           /\ (Place(M, q) + 1) % M = Place(M, q + 1)
<1>1. CASE q + 1 < M
  <2>1. (q + 1) % M = q + 1
    BY <1>1
  <2> QED
    BY <1>1, <2>1 DEF Place, Met, Below
<1>2. CASE q + 1 = M
  <2>1. (q + 1) % M = 0
    BY <1>2
  <2> QED
    BY <1>2, <2>1 DEF Place, Met, Below
<1>3. CASE q >= M
  <2>1. (q - M + 1) % M = q - M + 1
    BY <1>3
  <2> QED
    BY <1>3, <2>1 DEF Place, Met, Below
<1> QED
  BY <1>1, <1>2, <1>3

(* What is swept only grows. *)
LEMMA MetMonotone ==
    ASSUME NEW M \in Nat, NEW s \in 0 .. M, NEW i0 \in 0 .. M - 1,
           NEW q \in Nat, NEW r \in Nat, i0 <= q, q <= r
    PROVE  /\ Met(s, M, i0, q) <= Met(s, M, i0, r)
           /\ Met(s, M, i0, q) \in Nat /\ Met(s, M, i0, r) \in Nat
  BY DEF Met, Below

(* The bucket it is at is swept. *)
LEMMA HeldGrows ==
    ASSUME NEW x, WellFormed(x), NEW j \in {0, 1}, NEW i0 \in 0 .. MaxMaskOf(x) - 1,
           NEW q \in i0 .. i0 + MaxMaskOf(x) - 1, NEW keys, NEW more,
           keys \subseteq more, Held(x, j, i0, q, keys),
           Place(MaxMaskOf(x), q) < Table(x, j).size =>
             KeysOfAll(Table(x, j).table[Place(MaxMaskOf(x), q)]) \subseteq more
    PROVE  Held(x, j, i0, q + 1, more)
<1> DEFINE M == MaxMaskOf(x)
<1>1. M \in Nat /\ Table(x, j).size \in 0 .. M
  BY MaskSizes
<1> SUFFICES ASSUME NEW h \in 0 .. Table(x, j).size - 1, Swept(M, i0, q + 1, h)
             PROVE  KeysOfAll(Table(x, j).table[h]) \subseteq more
  BY DEF Held
<1>2. Swept(M, i0, q, h) \/ h = Place(M, q)
  <2> DEFINE s == Table(x, j).size
  <2>1. M \in Nat /\ s \in 0 .. M /\ h \in 0 .. s - 1 /\ i0 \in 0 .. M - 1
        /\ q \in i0 .. i0 + M - 1
    BY <1>1
  <2> HIDE DEF M, s
  <2> QED
    BY <2>1 DEF Swept, Place
<1> QED
  BY <1>1, <1>2 DEF Held

(* Where it is moved on to rehashidx, it passes buckets without entries. *)
LEMMA HeldSkips ==
    ASSUME NEW x, WellFormed(x), NEW j \in {0, 1}, NEW i0 \in 0 .. MaxMaskOf(x) - 1,
           NEW q \in i0 .. i0 + MaxMaskOf(x) - 1, NEW keys, Held(x, j, i0, q, keys),
           NEW i, i = Place(MaxMaskOf(x), q), i < x.rehashidx, i >= x.ht1.size
    PROVE  Held(x, j, i0, q + (x.rehashidx - i), keys)
<1> DEFINE M == MaxMaskOf(x)
           r == q + (x.rehashidx - i)
<1>1. /\ M \in Nat /\ Table(x, j).size \in 0 .. M
      /\ x.rehashidx \in Nat \cup {-1} /\ x.rehashidx < M
  BY MaskSizes
<1>2. i \in 0 .. M - 1
  BY <1>1 DEF Place
<1> SUFFICES ASSUME NEW h \in 0 .. Table(x, j).size - 1, Swept(M, i0, r, h)
             PROVE  KeysOfAll(Table(x, j).table[h]) \subseteq keys
  BY DEF Held
<1>3. Swept(M, i0, q, h) \/ (i <= h /\ h < x.rehashidx)
  <2> DEFINE s == Table(x, j).size
             k == x.rehashidx
  <2>1. M \in Nat /\ s \in 0 .. M /\ h \in 0 .. s - 1 /\ i0 \in 0 .. M - 1
        /\ q \in i0 .. i0 + M - 1 /\ k \in Nat /\ k < M /\ i \in 0 .. M - 1
        /\ i = Place(M, q) /\ i < k /\ r = q + (k - i)
    BY <1>1, <1>2
  <2>2. Swept(M, i0, q, h) \/ (i <= h /\ h < k)
    <3>1. Swept(M, i0, r, h)
      OBVIOUS
    <3> HIDE DEF M, s, k, r
    <3>2. CASE q < M
      BY <2>1, <3>1, <3>2 DEF Swept, Place
    <3>3. CASE q >= M
      BY <2>1, <3>1, <3>3 DEF Swept, Place
    <3> QED
      BY <2>1, <3>2, <3>3
  <2> QED
    BY <2>2
<1>4. CASE Swept(M, i0, q, h)
  BY <1>4 DEF Held
<1>5. CASE i <= h /\ h < x.rehashidx
  <2>1. x.rehashidx # -1 /\ x.ht1.size \in Nat
    BY <1>1, <1>2, <1>5, WellFormedFields
  <2>2. j = 0
    BY <1>2, <1>5, <2>1 DEF Table
  <2>3. x.ht0.table[h] = {}
    BY <1>1, <1>5, <2>1, RehashingFields DEF dictIsRehashing
  <2> QED
    BY <2>2, <2>3 DEF Table, KeysOfAll
<1> QED
  BY <1>3, <1>4, <1>5

(* The move to rehashidx leaves it on course. *)
LEMMA SkipKeepsCourse ==
    ASSUME NEW x, NEW count, Roomy(x, count), NEW c \in Draws(x, count),
           NEW i0 \in 0 .. MaxMaskOf(x) - 1, NEW q \in i0 .. i0 + MaxMaskOf(x) - 1,
           c.i = Place(MaxMaskOf(x), q), OnCourse(x, c, i0, q, q)
    PROVE  \E r \in Nat : /\ q <= r /\ SkipTo(x, 0, c.i) = Place(MaxMaskOf(x), r)
                          /\ OnCourse(x, c, i0, r, r)
<1> DEFINE M == MaxMaskOf(x)
<1>1. /\ WellFormed(x) /\ M \in Nat /\ x.ht0.size \in 0 .. M /\ x.ht1.size \in 0 .. M
      /\ x.rehashidx \in Nat \cup {-1} /\ x.rehashidx < M
  BY MaskSizes DEF Roomy, Table
<1>2. CASE ~(c.i < x.rehashidx /\ c.i >= x.ht1.size)
  BY <1>1, <1>2 DEF SkipTo
<1>3. CASE c.i < x.rehashidx /\ c.i >= x.ht1.size
  <2> DEFINE r == q + (x.rehashidx - c.i)
  <2>1. c.i \in 0 .. M - 1
    BY DEF Draws
  <2>2. r \in Nat /\ q <= r /\ x.rehashidx = Place(M, r)
    BY <1>1, <1>3, <2>1 DEF Place
  <2>3. SkipTo(x, 0, c.i) = x.rehashidx
    BY <1>3 DEF SkipTo
  <2>4. Held(x, 0, i0, r, c.keys) /\ Held(x, 1, i0, r, c.keys)
    BY <1>1, <1>3, HeldSkips DEF OnCourse
  <2> HIDE DEF r
  <2>5. c.empty <= Met(x.ht0.size, M, i0, r) + Met(x.ht1.size, M, i0, r)
    <3> DEFINE a == Met(x.ht0.size, M, i0, q)
               b == Met(x.ht1.size, M, i0, q)
               a2 == Met(x.ht0.size, M, i0, r)
               b2 == Met(x.ht1.size, M, i0, r)
    <3>1. a \in Nat /\ a2 \in Nat /\ a <= a2 /\ b \in Nat /\ b2 \in Nat /\ b <= b2
      <4> DEFINE s0 == x.ht0.size
                 s1 == x.ht1.size
      <4>1. s0 \in 0 .. M /\ s1 \in 0 .. M /\ M \in Nat /\ i0 \in 0 .. M - 1
            /\ q \in Nat /\ i0 <= q /\ r \in Nat /\ q <= r
        BY <1>1, <2>2
      <4> HIDE DEF M, s0, s1
      <4>2. /\ Met(s0, M, i0, q) \in Nat /\ Met(s0, M, i0, r) \in Nat
            /\ Met(s0, M, i0, q) <= Met(s0, M, i0, r)
        BY <4>1, MetMonotone
      <4>3. /\ Met(s1, M, i0, q) \in Nat /\ Met(s1, M, i0, r) \in Nat
            /\ Met(s1, M, i0, q) <= Met(s1, M, i0, r)
        BY <4>1, MetMonotone
      <4> QED
        BY <4>2, <4>3 DEF s0, s1
    <3>2. c.empty <= a + b /\ c.empty \in Nat
      BY DEF OnCourse, Draws
    <3> HIDE DEF a, b, a2, b2
    <3>3. c.empty <= a2 + b2
      BY <3>1, <3>2
    <3> QED
      BY <3>3 DEF a2, b2
  <2>6. OnCourse(x, c, i0, r, r)
    BY <2>4, <2>5 DEF OnCourse
  <2> QED
    BY <2>2, <2>3, <2>6
<1> QED
  BY <1>2, <1>3

(* The visit of table 0 on the way. *)
LEMMA FirstTable ==
    ASSUME NEW x, NEW count, Roomy(x, count), NEW c \in Draws(x, count),
           NEW i0 \in 0 .. MaxMaskOf(x) - 1, NEW q \in i0 .. i0 + MaxMaskOf(x) - 1,
           OnCourse(x, c, i0, q, q), c.stored # count,
           NEW b \in Draws(x, count), b.stored # count,
           Visits(x, count, 0, c, Place(MaxMaskOf(x), q), b)
    PROVE  b.i = Place(MaxMaskOf(x), q) /\ OnCourse(x, b, i0, q + 1, q)
<1> DEFINE M == MaxMaskOf(x)
           i == Place(M, q)
           s0 == x.ht0.size
           s1 == x.ht1.size
           a == Met(s0, M, i0, q)
           a2 == Met(s0, M, i0, q + 1)
           e == Met(s1, M, i0, q)
<1>1. /\ WellFormed(x) /\ M \in Nat /\ s0 \in 0 .. M /\ s1 \in 0 .. M
      /\ Table(x, 0).size = s0 /\ EmptyJump \in Nat /\ s0 + s1 < EmptyJump
      /\ i0 \in 0 .. M - 1 /\ q \in i0 .. i0 + M - 1
  BY MaskSizes, WalkAssumption DEF Roomy, Table
<1>2. /\ i \in 0 .. M - 1 /\ a \in 0 .. s0 /\ (i < s0 => a + 1 <= s0)
      /\ a2 = a + (IF i < s0 THEN 1 ELSE 0) /\ e \in 0 .. s1
  <2> HIDE DEF M, s0, s1
  <2>1. /\ i \in 0 .. M - 1 /\ a \in 0 .. s0 /\ (i < s0 => a + 1 <= s0)
        /\ a2 = a + (IF i < s0 THEN 1 ELSE 0)
    BY <1>1, MetGrows
  <2>2. e \in 0 .. s1
    BY <1>1, MetGrows
  <2> QED
    BY <2>1, <2>2
<1>3. /\ IsFiniteSet(c.keys) /\ Cardinality(c.keys) <= c.stored /\ c.empty <= a + e
      /\ Held(x, 0, i0, q, c.keys) /\ Held(x, 1, i0, q, c.keys)
  BY DEF OnCourse
<1> DEFINE n == a + e
<1> HIDE DEF M, i, s0, s1, a, a2, e
<1>4. n \in Nat /\ (i < s0 => n + 1 < EmptyJump) /\ a2 + e = IF i < s0 THEN n + 1 ELSE n
  BY <1>1, <1>2
<1> HIDE DEF n
<1>5. /\ b.i = i
      /\ IsFiniteSet(b.keys) /\ Cardinality(b.keys) <= b.stored
      /\ c.keys \subseteq b.keys
      /\ i < s0 => KeysOfAll(Table(x, 0).table[i]) \subseteq b.keys
      /\ b.empty <= (IF i < s0 THEN n + 1 ELSE n)
  <2>1. Visits(x, count, 0, c, i, b) /\ i \in 0 .. MaxMaskOf(x) - 1 /\ c.empty <= n
        /\ (i < Table(x, 0).size => n + 1 < EmptyJump) /\ Table(x, 0).size = s0
    BY <1>1, <1>2, <1>3, <1>4 DEF i, M, n
  <2> QED
    BY <1>3, <1>4, <2>1, VisitAdds
<1>6. Held(x, 0, i0, q + 1, b.keys)
  BY <1>1, <1>3, <1>5, HeldGrows DEF i, M
<1>7. Held(x, 1, i0, q, b.keys)
  BY <1>3, <1>5 DEF Held
<1>8. b.empty <= a2 + e
  BY <1>4, <1>5
<1> QED
  BY <1>5, <1>6, <1>7, <1>8 DEF OnCourse, a2, e, M, s0, s1, i

(* The visit of table 1. *)
LEMMA SecondTable ==
    ASSUME NEW x, NEW count, Roomy(x, count), NEW c \in Draws(x, count),
           NEW i0 \in 0 .. MaxMaskOf(x) - 1, NEW q \in i0 .. i0 + MaxMaskOf(x) - 1,
           OnCourse(x, c, i0, q + 1, q), c.stored # count,
           NEW b \in Draws(x, count), b.stored # count,
           Visits(x, count, 1, c, Place(MaxMaskOf(x), q), b)
    PROVE  b.i = Place(MaxMaskOf(x), q) /\ OnCourse(x, b, i0, q + 1, q + 1)
<1> DEFINE M == MaxMaskOf(x)
           i == Place(M, q)
           s0 == x.ht0.size
           s1 == x.ht1.size
           a == Met(s0, M, i0, q)
           a2 == Met(s0, M, i0, q + 1)
           e == Met(s1, M, i0, q)
           e2 == Met(s1, M, i0, q + 1)
<1>1. /\ WellFormed(x) /\ M \in Nat /\ s0 \in 0 .. M /\ s1 \in 0 .. M
      /\ Table(x, 1).size = s1 /\ EmptyJump \in Nat /\ s0 + s1 < EmptyJump
      /\ i0 \in 0 .. M - 1 /\ q \in i0 .. i0 + M - 1
  BY MaskSizes, WalkAssumption DEF Roomy, Table
<1>2. /\ i \in 0 .. M - 1 /\ e \in 0 .. s1 /\ (i < s1 => e + 1 <= s1)
      /\ e2 = e + (IF i < s1 THEN 1 ELSE 0) /\ a2 \in 0 .. s0
  <2> HIDE DEF M, s0, s1
  <2>1. /\ i \in 0 .. M - 1 /\ e \in 0 .. s1 /\ (i < s1 => e + 1 <= s1)
        /\ e2 = e + (IF i < s1 THEN 1 ELSE 0)
    BY <1>1, MetGrows
  <2>2. /\ a \in 0 .. s0 /\ (i < s0 => a + 1 <= s0)
        /\ a2 = a + (IF i < s0 THEN 1 ELSE 0)
    BY <1>1, MetGrows
  <2> HIDE DEF a, a2, i
  <2> QED
    BY <1>1, <2>1, <2>2
<1>3. /\ IsFiniteSet(c.keys) /\ Cardinality(c.keys) <= c.stored /\ c.empty <= a2 + e
      /\ Held(x, 0, i0, q + 1, c.keys) /\ Held(x, 1, i0, q, c.keys)
  BY DEF OnCourse
<1> DEFINE n == a2 + e
<1> HIDE DEF M, i, s0, s1, a, a2, e, e2
<1>4. n \in Nat /\ (i < s1 => n + 1 < EmptyJump) /\ a2 + e2 = IF i < s1 THEN n + 1 ELSE n
  BY <1>1, <1>2
<1> HIDE DEF n
<1>5. /\ b.i = i
      /\ IsFiniteSet(b.keys) /\ Cardinality(b.keys) <= b.stored
      /\ c.keys \subseteq b.keys
      /\ i < s1 => KeysOfAll(Table(x, 1).table[i]) \subseteq b.keys
      /\ b.empty <= (IF i < s1 THEN n + 1 ELSE n)
  <2>1. Visits(x, count, 1, c, i, b) /\ i \in 0 .. MaxMaskOf(x) - 1 /\ c.empty <= n
        /\ (i < Table(x, 1).size => n + 1 < EmptyJump) /\ Table(x, 1).size = s1
    BY <1>1, <1>2, <1>3, <1>4 DEF i, M, n
  <2> QED
    BY <1>3, <1>4, <2>1, VisitAdds
<1>6. Held(x, 1, i0, q + 1, b.keys)
  BY <1>1, <1>3, <1>5, HeldGrows DEF i, M
<1>7. Held(x, 0, i0, q + 1, b.keys)
  BY <1>3, <1>5 DEF Held
<1>8. b.empty <= a2 + e2
  BY <1>4, <1>5
<1> QED
  BY <1>5, <1>6, <1>7, <1>8 DEF OnCourse, a2, e2, M, s0, s1, i

(* A full draw passes over what is left. *)
LEMMA FullStays ==
    ASSUME NEW x, NEW count, NEW j, NEW c, NEW i, NEW b, Visits(x, count, j, c, i, b),
           c.stored = count
    PROVE  b.stored = count
<1>1. Passed(x, count, j, c, i)
  BY DEF Passed
<1> QED
  BY <1>1 DEF Visits

(* After t turns a draw is full, or has come t buckets on. *)
Advanced(x, count, t, c) ==
    \/ c.stored = count
    \/ \E i0 \in 0 .. MaxMaskOf(x) - 1, q \in Nat :
         /\ i0 + t <= q /\ c.i = Place(MaxMaskOf(x), q) /\ OnCourse(x, c, i0, q, q)

(* In the turn after them it has visited the first table, or both. *)
Halfway(x, count, t, c) ==
    \/ c.stored = count
    \/ \E i0 \in 0 .. MaxMaskOf(x) - 1, q \in Nat :
         /\ i0 + t <= q /\ q < i0 + MaxMaskOf(x)
         /\ c.i = Place(MaxMaskOf(x), q) /\ OnCourse(x, c, i0, q + 1, q)

Through(x, count, t, c) ==
    \/ c.stored = count
    \/ \E i0 \in 0 .. MaxMaskOf(x) - 1, q \in Nat :
         /\ i0 + t <= q /\ q < i0 + MaxMaskOf(x)
         /\ c.i = Place(MaxMaskOf(x), q) /\ OnCourse(x, c, i0, q + 1, q + 1)

(* The visit of the first table, and before it the move to rehashidx. *)
LEMMA ToHalfway ==
    ASSUME NEW x, NEW count, Roomy(x, count), NEW t \in Nat,
           NEW c \in Draws(x, count), Advanced(x, count, t, c),
           NEW b \in Draws(x, count), Visits(x, count, 0, c, SkipTo(x, 0, c.i), b)
    PROVE  Halfway(x, count, t, b)
<1> DEFINE M == MaxMaskOf(x)
<1>1. WellFormed(x) /\ M \in Nat
  BY MaskSizes DEF Roomy
<1>2. CASE c.stored = count \/ b.stored = count
  BY <1>2, FullStays DEF Halfway
<1>3. CASE c.stored # count /\ b.stored # count
  <2>1. PICK i0 \in 0 .. M - 1, q \in Nat :
          i0 + t <= q /\ c.i = Place(M, q) /\ OnCourse(x, c, i0, q, q)
    BY <1>3 DEF Advanced
  <2>2. q < i0 + M
    <3>1. CASE q >= i0 + M
      BY <1>3, <2>1, <3>1, RoundIsFull
    <3> QED
      BY <1>1, <3>1
  <2>3. q \in i0 .. i0 + M - 1
    BY <1>1, <2>1, <2>2
  <2>4. PICK r \in Nat : q <= r /\ SkipTo(x, 0, c.i) = Place(M, r) /\ OnCourse(x, c, i0, r, r)
    BY <2>1, <2>3, SkipKeepsCourse
  <2>5. r < i0 + M
    <3>1. CASE r >= i0 + M
      BY <1>3, <2>4, <3>1, RoundIsFull
    <3> QED
      BY <1>1, <3>1
  <2>6. r \in i0 .. i0 + M - 1 /\ i0 + t <= r
    BY <1>1, <2>1, <2>4, <2>5
  <2>7. b.i = Place(M, r) /\ OnCourse(x, b, i0, r + 1, r)
    BY <1>3, <2>4, <2>6, FirstTable
  <2> QED
    BY <2>5, <2>6, <2>7 DEF Halfway
<1> QED
  BY <1>2, <1>3

(* The visit of the second table. *)
LEMMA ToThrough ==
    ASSUME NEW x, NEW count, Roomy(x, count), NEW t \in Nat,
           NEW c \in Draws(x, count), Halfway(x, count, t, c),
           NEW b \in Draws(x, count), Visits(x, count, 1, c, SkipTo(x, 1, c.i), b)
    PROVE  Through(x, count, t, b)
<1> DEFINE M == MaxMaskOf(x)
<1>1. WellFormed(x) /\ M \in Nat /\ SkipTo(x, 1, c.i) = c.i
  BY MaskSizes DEF Roomy, SkipTo
<1>2. CASE c.stored = count \/ b.stored = count
  BY <1>2, FullStays DEF Through
<1>3. CASE c.stored # count /\ b.stored # count
  <2>1. PICK i0 \in 0 .. M - 1, q \in Nat :
          /\ i0 + t <= q /\ q < i0 + M
          /\ c.i = Place(M, q) /\ OnCourse(x, c, i0, q + 1, q)
    BY <1>3 DEF Halfway
  <2>2. q \in i0 .. i0 + M - 1
    BY <1>1, <2>1
  <2>3. b.i = Place(M, q) /\ OnCourse(x, b, i0, q + 1, q + 1)
    BY <1>1, <1>3, <2>1, <2>2, SecondTable
  <2> QED
    BY <2>1, <2>3 DEF Through
<1> QED
  BY <1>2, <1>3

(* Without a rehash there is no second table to visit. *)
LEMMA OneTable ==
    ASSUME NEW x, NEW count, Roomy(x, count), ~dictIsRehashing(x), NEW t \in Nat,
           NEW c \in Draws(x, count), Halfway(x, count, t, c)
    PROVE  Through(x, count, t, c)
<1> DEFINE M == MaxMaskOf(x)
<1>1. WellFormed(x) /\ M \in Nat /\ x.ht1.size = 0
  <2>1. WellFormed(x) /\ Shape(x)
    BY DEF Roomy, WellFormed
  <2> QED
    BY <2>1, MaskSizes DEF Shape, NewHt
<1>2. CASE c.stored = count
  BY <1>2 DEF Through
<1>3. CASE c.stored # count
  <2>1. PICK i0 \in 0 .. M - 1, q \in Nat :
          /\ i0 + t <= q /\ q < i0 + M
          /\ c.i = Place(M, q) /\ OnCourse(x, c, i0, q + 1, q)
    BY <1>3 DEF Halfway
  <2>2. Held(x, 1, i0, q + 1, c.keys)
    <3>1. Table(x, 1).size = 0
      BY <1>1 DEF Table
    <3> QED
      BY <3>1 DEF Held
  <2>3. Met(x.ht1.size, M, i0, q) = Met(x.ht1.size, M, i0, q + 1)
    BY <1>1, <2>1 DEF Met, Below
  <2>4. OnCourse(x, c, i0, q + 1, q + 1)
    BY <2>1, <2>2, <2>3 DEF OnCourse
  <2> QED
    BY <2>1, <2>4 DEF Through
<1> QED
  BY <1>2, <1>3

(* The index goes round. *)
LEMMA NextIndex ==
    ASSUME NEW M \in Nat, NEW i \in 0 .. M - 1
    PROVE  (i + 1) % M \in 0 .. M - 1
<1>1. CASE i + 1 < M
  BY <1>1
<1>2. CASE i + 1 = M
  BY <1>2
<1> QED
  BY <1>1, <1>2

(* The turn ends at the bucket that follows. *)
LEMMA ToNext ==
    ASSUME NEW x, NEW count, Roomy(x, count), NEW t \in Nat,
           NEW c \in Draws(x, count), Through(x, count, t, c),
           NEW b, b = [c EXCEPT !.i = (c.i + 1) % MaxMaskOf(x)]
    PROVE  b \in Draws(x, count) /\ Advanced(x, count, t + 1, b)
<1> DEFINE M == MaxMaskOf(x)
<1>1. WellFormed(x) /\ M \in Nat /\ c.i \in 0 .. M - 1
  BY MaskSizes DEF Roomy, Draws
<1>2. /\ c.i + 1 \in Nat /\ M > 0
      /\ c = [i |-> c.i, empty |-> c.empty, keys |-> c.keys, stored |-> c.stored]
  BY <1>1 DEF Draws
<1>3. (c.i + 1) % M \in 0 .. M - 1
  BY <1>1, <1>2, NextIndex
<1>4. /\ b = [i |-> (c.i + 1) % M, empty |-> c.empty, keys |-> c.keys, stored |-> c.stored]
  BY <1>2
<1>5. b \in Draws(x, count)
  BY <1>3, <1>4 DEF Draws
<1>6. CASE c.stored = count
  BY <1>4, <1>5, <1>6 DEF Advanced
<1>7. CASE c.stored # count
  <2>1. PICK i0 \in 0 .. M - 1, q \in Nat :
          /\ i0 + t <= q /\ q < i0 + M
          /\ c.i = Place(M, q) /\ OnCourse(x, c, i0, q + 1, q + 1)
    BY <1>7 DEF Through
  <2>2. b.i = Place(M, q + 1)
    <3>1. q \in i0 .. i0 + M - 1 /\ M \in Nat /\ i0 \in 0 .. M - 1 /\ 0 \in 0 .. M
      BY <1>1, <2>1
    <3>2. (Place(M, q) + 1) % M = Place(M, q + 1)
      <4> HIDE DEF M
      <4> QED
        BY <3>1, MetGrows
    <3> QED
      BY <1>4, <2>1, <3>2
  <2>3. OnCourse(x, b, i0, q + 1, q + 1)
    BY <1>4, <2>1 DEF OnCourse
  <2>4. i0 + (t + 1) <= q + 1 /\ q + 1 \in Nat
    BY <2>1
  <2> QED
    BY <1>5, <2>2, <2>3, <2>4 DEF Advanced
<1> QED
  BY <1>6, <1>7

(* The draws Turn leads to, of those in C. *)
LEMMA TurnElements ==
    ASSUME NEW x, WellFormed(x), NEW count \in Nat, NEW C \in SUBSET Draws(x, count),
           NEW b \in Turn(x, count, C)
    PROVE  \E c \in C, h \in Draws(x, count), g \in Draws(x, count) :
             /\ Visits(x, count, 0, c, SkipTo(x, 0, c.i), h)
             /\ \/ dictIsRehashing(x) /\ Visits(x, count, 1, h, SkipTo(x, 1, h.i), g)
                \/ ~dictIsRehashing(x) /\ g = h
             /\ b = [g EXCEPT !.i = (g.i + 1) % MaxMaskOf(x)]
<1> DEFINE probed == UNION {Probe(x, count, 0, c) : c \in C}
           second == UNION {Probe(x, count, 1, c) : c \in probed}
           both == IF dictIsRehashing(x) THEN second ELSE probed
<1>1. PICK g \in both : b = [g EXCEPT !.i = (g.i + 1) % MaxMaskOf(x)]
  BY DEF Turn
<1>2. \A h \in probed : \E c \in C :
        h \in Draws(x, count) /\ Visits(x, count, 0, c, SkipTo(x, 0, c.i), h)
  BY ProbeVisits
<1>3. \A k \in second : \E h \in probed :
        k \in Draws(x, count) /\ Visits(x, count, 1, h, SkipTo(x, 1, h.i), k)
  <2> TAKE k \in second
  <2>1. PICK h \in probed : k \in Probe(x, count, 1, h)
    OBVIOUS
  <2>2. h \in Draws(x, count)
    BY <1>2
  <2>3. k \in Draws(x, count) /\ Visits(x, count, 1, h, SkipTo(x, 1, h.i), k)
    BY <2>1, <2>2, ProbeVisits
  <2> QED
    BY <2>3
<1> HIDE DEF probed, second
<1>4. CASE dictIsRehashing(x)
  <2>1. PICK h \in probed :
          g \in Draws(x, count) /\ Visits(x, count, 1, h, SkipTo(x, 1, h.i), g)
    BY <1>3, <1>4
  <2>2. PICK c \in C : h \in Draws(x, count) /\ Visits(x, count, 0, c, SkipTo(x, 0, c.i), h)
    BY <1>2
  <2> QED
    BY <1>1, <1>4, <2>1, <2>2
<1>5. CASE ~dictIsRehashing(x)
  <2>1. PICK c \in C : g \in Draws(x, count) /\ Visits(x, count, 0, c, SkipTo(x, 0, c.i), g)
    BY <1>2, <1>5
  <2> QED
    BY <1>1, <1>5, <2>1
<1> QED
  BY <1>4, <1>5

(* A turn keeps the types. *)
LEMMA TurnTyped ==
    ASSUME NEW x, WellFormed(x), NEW count \in Nat, NEW C \in SUBSET Draws(x, count)
    PROVE  Turn(x, count, C) \in SUBSET Draws(x, count)
<1> SUFFICES ASSUME NEW b \in Turn(x, count, C) PROVE b \in Draws(x, count)
  OBVIOUS
<1> DEFINE M == MaxMaskOf(x)
<1>1. PICK g \in Draws(x, count) : b = [g EXCEPT !.i = (g.i + 1) % M]
  BY TurnElements
<1>2. /\ M \in Nat /\ g.i \in 0 .. M - 1
      /\ g = [i |-> g.i, empty |-> g.empty, keys |-> g.keys, stored |-> g.stored]
  BY MaskSizes DEF Draws
<1>3. (g.i + 1) % M \in 0 .. M - 1
  BY <1>1, <1>2, NextIndex
<1>4. b = [i |-> (g.i + 1) % M, empty |-> g.empty, keys |-> g.keys, stored |-> g.stored]
  BY <1>1, <1>2
<1> QED
  BY <1>3, <1>4 DEF Draws

(* A turn goes one bucket on. *)
LEMMA TurnAdvances ==
    ASSUME NEW x, NEW count, Roomy(x, count), NEW t \in Nat, NEW C \in SUBSET Draws(x, count),
           \A c \in C : Advanced(x, count, t, c), NEW b \in Turn(x, count, C)
    PROVE  Advanced(x, count, t + 1, b)
<1>1. WellFormed(x) /\ count \in Nat
  BY DEF Roomy
<1>2. PICK c \in C, h \in Draws(x, count), g \in Draws(x, count) :
        /\ Visits(x, count, 0, c, SkipTo(x, 0, c.i), h)
        /\ \/ dictIsRehashing(x) /\ Visits(x, count, 1, h, SkipTo(x, 1, h.i), g)
           \/ ~dictIsRehashing(x) /\ g = h
        /\ b = [g EXCEPT !.i = (g.i + 1) % MaxMaskOf(x)]
  BY <1>1, TurnElements
<1>3. Halfway(x, count, t, h)
  BY <1>2, ToHalfway
<1>4. Through(x, count, t, g)
  BY <1>2, <1>3, ToThrough, OneTable
<1> QED
  BY <1>2, <1>4, ToNext

(* The states before the first turn. *)
Starts(x) == {[i |-> i, empty |-> 0, keys |-> {}, stored |-> 0] : i \in 0 .. MaxMaskOf(x) - 1}

(* f[t] is what t turns make of them. *)
TurnsFrom(x, count, f, t) == IF t = 0 THEN Starts(x) ELSE Turn(x, count, f[t - 1])

(* A draw that has not begun is on course. *)
LEMMA StartsDrawn ==
    ASSUME NEW x, WellFormed(x), NEW count \in Nat, NEW c \in Starts(x)
    PROVE  c \in Draws(x, count) /\ Advanced(x, count, 0, c)
<1> DEFINE M == MaxMaskOf(x)
<1>1. M \in Nat /\ \A j \in {0, 1} : Table(x, j).size \in 0 .. M
  BY MaskSizes
<1>2. PICK i \in 0 .. M - 1 : c = [i |-> i, empty |-> 0, keys |-> {}, stored |-> 0]
  BY DEF Starts
<1>3. c \in Draws(x, count)
  BY <1>2 DEF Draws
<1>4. i + 0 <= i /\ i \in Nat /\ c.i = Place(M, i)
  BY <1>1, <1>2 DEF Place
<1>5. IsFiniteSet(c.keys) /\ Cardinality(c.keys) <= c.stored
  BY <1>2, FS_EmptySet
<1>6. \A j \in {0, 1} : Held(x, j, i, i, c.keys)
  <2> SUFFICES ASSUME NEW j \in {0, 1}, NEW h \in 0 .. Table(x, j).size - 1,
                      Swept(M, i, i, h)
               PROVE  FALSE
    BY DEF Held
  <2>1. i \in 0 .. M - 1 /\ h \in Nat /\ M \in Nat
    BY <1>1
  <2> HIDE DEF M
  <2> QED
    BY <2>1 DEF Swept
<1>7. c.empty <= Met(x.ht0.size, M, i, i) + Met(x.ht1.size, M, i, i)
  <2>1. x.ht0.size \in 0 .. M /\ x.ht1.size \in 0 .. M
    BY <1>1 DEF Table
  <2>2. \A s \in 0 .. M : Met(s, M, i, i) = 0
    <3>1. i \in 0 .. M - 1 /\ M \in Nat
      BY <1>1
    <3> HIDE DEF M
    <3> QED
      BY <3>1 DEF Met, Below
  <2> QED
    BY <1>2, <2>1, <2>2
<1>8. OnCourse(x, c, i, i, i)
  BY <1>5, <1>6, <1>7 DEF OnCourse
<1> QED
  BY <1>3, <1>4, <1>8 DEF Advanced

(* The function that SomeKeys defines by recursion exists. *)
LEMMA TurnsExist ==
    ASSUME NEW x, WellFormed(x), NEW count \in Nat, NEW n \in Nat
    PROVE  \E f \in [0 .. n -> SUBSET Draws(x, count)] :
             f = [t \in 0 .. n |-> TurnsFrom(x, count, f, t)]
<1> DEFINE S == SUBSET Draws(x, count)
           next == [t \in 1 .. n |-> [C \in S |-> Turn(x, count, C)]]
<1>1. Starts(x) \in S
  BY StartsDrawn
<1>2. \A C \in S : Turn(x, count, C) \in S
  BY TurnTyped
<1> HIDE DEF S
<1>3. Closed(S, Starts(x), n, next)
  BY <1>1, <1>2 DEF Closed
<1>4. PICK f : Follows(f, S, Starts(x), n, next)
  BY <1>3, StepByStep
<1>5. f \in [0 .. n -> S] /\ f[0] = Starts(x)
  BY <1>4 DEF Follows
<1>6. ASSUME NEW t \in 0 .. n PROVE f[t] = TurnsFrom(x, count, f, t)
  <2>1. CASE t = 0
    BY <1>5, <2>1 DEF TurnsFrom
  <2>2. CASE t # 0
    <3>1. t \in 1 .. n /\ t - 1 \in 0 .. n
      BY <2>2
    <3>2. f[t] = next[t][f[t - 1]] /\ f[t - 1] \in S
      BY <1>4, <1>5, <3>1 DEF Follows
    <3> QED
      BY <2>2, <3>1, <3>2 DEF TurnsFrom
  <2> QED
    BY <2>1, <2>2
<1>7. f = [t \in 0 .. n |-> TurnsFrom(x, count, f, t)]
  BY <1>5, <1>6
<1> QED
  BY <1>5, <1>7 DEF S

(* What dictGetSomeKeys returns: entries of the dict, and no more than asked *)
(* for; the full number in a small table, if it has turns for a round.       *)
LEMMA SomeKeysDrawn ==
    ASSUME NEW x, WellFormed(x), NEW count \in Nat, NEW c \in SomeKeys(x, count)
    PROVE  /\ c \in Draws(x, count)
           /\ Roomy(x, count) /\ MaxMaskOf(x) <= count * StepsPerKey => c.stored = count
<1> DEFINE n == count * StepsPerKey
           S == SUBSET Draws(x, count)
           f == CHOOSE g : g = [t \in 0 .. n |-> TurnsFrom(x, count, g, t)]
<1>1. n \in Nat
  BY WalkAssumption
<1>2. SomeKeys(x, count) = f[n]
  BY DEF SomeKeys, TurnsFrom, Starts
<1> HIDE DEF n
<1>3. f = [t \in 0 .. n |-> TurnsFrom(x, count, f, t)]
  <2>1. \E g : g = [t \in 0 .. n |-> TurnsFrom(x, count, g, t)]
    BY <1>1, TurnsExist
  <2> QED
    BY <2>1
<1> HIDE DEF f
<1> DEFINE Typed == {t \in 0 .. n : f[t] \in S}
           On == {t \in 0 .. n : f[t] \in S /\ \A b \in f[t] : Advanced(x, count, t, b)}
<1>4. f[0] = Starts(x)
  BY <1>1, <1>3 DEF TurnsFrom
<1>5. \A t \in 1 .. n : t - 1 \in 0 .. n /\ t \in 0 .. n
                        /\ f[t] = Turn(x, count, f[t - 1])
  BY <1>1, <1>3 DEF TurnsFrom
<1>6. \A t \in 0 .. n : t \in Typed
  <2>1. 0 \in Typed
    BY <1>1, <1>4, StartsDrawn
  <2>2. \A t \in 1 .. n : t - 1 \in Typed => t \in Typed
    BY <1>5, TurnTyped
  <2> HIDE DEF Typed
  <2> QED
    BY <1>1, <2>1, <2>2, Climb
<1>7. c \in Draws(x, count)
  <2>1. n \in Typed
    BY <1>1, <1>6
  <2> QED
    BY <1>2, <2>1
<1>8. ASSUME Roomy(x, count), MaxMaskOf(x) <= n PROVE c.stored = count
  <2>1. \A t \in 0 .. n : t \in On
    <3>1. 0 \in On
      BY <1>1, <1>4, <1>6, StartsDrawn
    <3>2. \A t \in 1 .. n : t - 1 \in On => t \in On
      <4> SUFFICES ASSUME NEW t \in 1 .. n, t - 1 \in On
                   PROVE  \A b \in f[t] : Advanced(x, count, t, b)
        BY <1>5, <1>6
      <4>1. t - 1 \in Nat /\ t - 1 + 1 = t /\ f[t - 1] \in S
        BY <1>1
      <4> DEFINE s == t - 1
      <4>2. /\ s \in Nat /\ s + 1 = t /\ f[s] \in SUBSET Draws(x, count)
            /\ \A b \in f[s] : Advanced(x, count, s, b)
            /\ f[t] = Turn(x, count, f[s])
        BY <1>5, <4>1
      <4> HIDE DEF s
      <4> QED
        BY <1>8, <4>2, TurnAdvances
    <3> HIDE DEF On
    <3> QED
      BY <1>1, <3>1, <3>2, Climb
  <2>2. Advanced(x, count, n, c)
    <3>1. n \in On
      BY <1>1, <2>1
    <3> QED
      BY <1>2, <3>1
  <2>3. CASE c.stored # count
    <3>1. PICK i0 \in 0 .. MaxMaskOf(x) - 1, q \in Nat :
            i0 + n <= q /\ OnCourse(x, c, i0, q, q)
      BY <2>2, <2>3 DEF Advanced
    <3>2. q >= i0 + MaxMaskOf(x)
      <4>1. MaxMaskOf(x) \in Nat
        BY MaskSizes
      <4> QED
        BY <1>1, <1>8, <3>1, <4>1
    <3> QED
      BY <1>7, <1>8, <3>1, <3>2, RoundIsFull
  <2> QED
    BY <2>3
<1> QED
  BY <1>7, <1>8 DEF n

(* dict.c:671-742: a sample is entries of the dict, no more than asked for.  *)
(* In a table too small for a jump, with turns enough for one round, it is   *)
(* as many as asked for, even while the dict is being rehashed.              *)
THEOREM SamplesAreSound == WalkSpec => SampleSound
<1> DEFINE P == ret'.op = "some" =>
                  /\ ret'.keys \subseteq AllKeys'
                  /\ ret'.stored <= ret'.count
                  /\ d'.ht0.size + d'.ht1.size < EmptyJump
                       /\ MaxMaskOf(d') <= ret'.count * StepsPerKey
                         => ret'.stored = ret'.count
<1>1. ASSUME WalkInv, WalkNext PROVE P
  <2>1. CASE \E n \in SampleSizes : GetSomeKeys(n)
    <3>1. PICK n \in SampleSizes : GetSomeKeys(n)
      BY <2>1
    <3> DEFINE count == Min({n, dictSize(d)})
    <3>2. d' = Stepped(count) /\ \E c \in SomeKeys(d', count) :
            ret' = [op |-> "some", keys |-> c.keys, stored |-> c.stored, count |-> count]
      BY <3>1 DEF GetSomeKeys
    <3>3. PICK c \in SomeKeys(d', count) :
            ret' = [op |-> "some", keys |-> c.keys, stored |-> c.stored, count |-> count]
      BY <3>2
    <3>4. WellFormed(d) /\ dictSize(d) \in Nat /\ n \in Nat
      BY <1>1, SizeIsCardinality, WalkAssumption DEF WalkInv, DictInv
    <3>5. count \in Nat /\ count <= dictSize(d)
      BY <3>4, MinOfTwo
    <3> HIDE DEF count
    <3>6. WellFormed(d') /\ Contents(d') = Contents(d)
      BY <3>2, <3>4, <3>5, SteppedPreserves
    <3>7. count <= dictSize(d') /\ dictSize(d') \in Nat
      BY <3>4, <3>5, <3>6, SizeIsCardinality
    <3>8. /\ c \in Draws(d', count)
          /\ Roomy(d', count) /\ MaxMaskOf(d') <= count * StepsPerKey => c.stored = count
      BY <3>3, <3>5, <3>6, SomeKeysDrawn
    <3>9. /\ c.keys \subseteq KeysOfAll(Contents(d')) /\ c.stored <= count
          /\ ret'.keys = c.keys /\ ret'.stored = c.stored /\ ret'.count = count
      BY <3>3, <3>5, <3>8 DEF Draws
    <3>10. AllKeys' = KeysOfAll(Contents(d'))
      BY DEF AllKeys, KeysOfAll
    <3>11. d'.ht0.size + d'.ht1.size < EmptyJump => Roomy(d', count)
      BY <3>5, <3>6, <3>7 DEF Roomy
    <3> QED
      BY <3>8, <3>9, <3>10, <3>11
  <2>2. CASE ~ \E n \in SampleSizes : GetSomeKeys(n)
    <3>1. ret'.op # "some"
      <4>1. CASE Update \/ Fetch \/ Rehash \/ EmptyAll \/ \E k \in Keys : Delete(k)
        BY <4>1 DEF Update, Fetch, Rehash, EmptyAll, Delete, DictAdd, DictReplace,
           DictExpand, DictResize, DictFetchValue, DictRehash, DictEmpty, DictDelete
      <4>2. CASE FirstNext
        BY <4>2 DEF FirstNext, SafeIteratorBegin
      <4>3. CASE ReleaseIterator
        BY <4>3 DEF ReleaseIterator, SafeIteratorRelease
      <4>4. CASE \E safe \in BOOLEAN : GetIterator(safe)
        BY <4>4 DEF GetIterator
      <4>5. CASE ScanBegin \/ ScanEnd
        BY <4>5 DEF ScanBegin, ScanEnd
      <4>6. CASE GetRandomKey
        BY <4>6 DEF GetRandomKey
      <4>7. CASE DictScan
        BY <4>7 DEF DictScan
      <4>8. CASE DictNext
        BY <4>8 DEF DictNext
      <4> QED
        BY <1>1, <2>2, <4>1, <4>2, <4>3, <4>4, <4>5, <4>6, <4>7, <4>8 DEF WalkNext
    <3> QED
      BY <3>1
  <2> QED
    BY <2>1, <2>2
<1>2. WalkInv /\ [WalkNext]_allVars => [P]_allVars
  BY <1>1
<1> QED
  BY <1>2, WalkSafety, PTL DEF WalkSpec, SampleSound
=============================================================================
