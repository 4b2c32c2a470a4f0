----------------------------- MODULE DictProofs -----------------------------
(***************************************************************************)
(* Proofs about Dict: DictInv is inductive, Dict implements KVMap, and the *)
(* closed forms of DictOps agree with the loops of dict.c.                 *)
(***************************************************************************)
EXTENDS DictLoops, DictOpsProofs

-----------------------------------------------------------------------------
(* Theorems about the specification. *)

(* An update of the dict that keeps it well-formed and leaves its iterator   *)
(* count alone keeps the invariant.                                          *)
LEMMA KeepsInv ==
    ASSUME DictInv, WellFormed(d'), d'.iterators = d.iterators,
           dict_can_resize' \in BOOLEAN, open' = open
    PROVE  DictInv'
<1>1. IsDict(d)' /\ WellFormed(d)'
  BY DEF WellFormed
<1> QED
  BY <1>1 DEF DictInv, TypeOK

(* The initial state satisfies the invariant (dictCreate, dict.c:105). *)
LEMMA InitInv == Init => DictInv
<1> SUFFICES ASSUME Init PROVE DictInv
  OBVIOUS
<1>1. WellFormed(d) /\ d.iterators = 0
  BY CreatedWellFormed DEF Init, dictCreate
<1> QED
  BY <1>1, CallsAssumption DEF DictInv, TypeOK, WellFormed, Init

(* Every call keeps the invariant and changes the bindings as the abstract   *)
(* map does.                                                                 *)
LEMMA StepCorrect ==
    ASSUME DictInv, Next
    PROVE  DictInv' /\ Abstract!Next
<1>1. WellFormed(d) /\ dict_can_resize \in BOOLEAN
  BY DEF DictInv, TypeOK
<1>2. ASSUME NEW k \in Keys, NEW v \in Vals, DictAdd(k, v)
      PROVE  DictInv' /\ Abstract!Add(k, v)
  <2> DEFINE M == {e \in Contents(d) : e.key = k}
  <2>1. /\ d' = dictAdd(d, k, v, dict_can_resize)
        /\ ret' = [op |-> "add", key |-> k,
                   res |-> IF dictAddErr(d, k, dict_can_resize)
                           THEN "DICT_ERR" ELSE "DICT_OK"]
        /\ dict_can_resize' = dict_can_resize /\ open' = open
    BY <1>2 DEF DictAdd
  <2>2. /\ WellFormed(d') /\ d'.iterators = d.iterators
        /\ Contents(d') = IF M = {} THEN Contents(d) \cup {[key |-> k, val |-> v]}
                          ELSE Contents(d)
        /\ dictAddErr(d, k, dict_can_resize) <=> M # {}
    BY <1>1, <2>1, AddCorrect
  <2>3. DictInv'
    BY <1>1, <2>1, <2>2, KeepsInv
  <2> QED
    BY <2>1, <2>2, <2>3 DEF Abstract!Add, Abstract!Bound
<1>3. ASSUME NEW k \in Keys, NEW v \in Vals, DictReplace(k, v)
      PROVE  DictInv' /\ Abstract!Replace(k, v)
  <2> DEFINE M == {e \in Contents(d) : e.key = k}
  <2>1. /\ d' = dictReplace(d, k, v, dict_can_resize)
        /\ ret' = [op |-> "replace", key |-> k,
                   res |-> IF dictAddErr(d, k, dict_can_resize) THEN "0" ELSE "1"]
        /\ dict_can_resize' = dict_can_resize /\ open' = open
    BY <1>3 DEF DictReplace
  <2>2. /\ WellFormed(d') /\ d'.iterators = d.iterators
        /\ Contents(d') = (Contents(d) \ M) \cup {[key |-> k, val |-> v]}
    BY <1>1, <2>1, ReplaceCorrect
  <2>3. dictAddErr(d, k, dict_can_resize) <=> M # {}
    BY <1>1, AddCorrect
  <2>4. DictInv'
    BY <1>1, <2>1, <2>2, KeepsInv
  <2> QED
    BY <2>1, <2>2, <2>3, <2>4 DEF Abstract!Replace, Abstract!Bound
<1>4. ASSUME NEW k \in Keys, DictDelete(k)
      PROVE  DictInv' /\ Abstract!Delete(k)
  <2> DEFINE M == {e \in Contents(d) : e.key = k}
  <2>1. /\ d' = dictDelete(d, k)
        /\ ret' = [op |-> "delete", key |-> k,
                   res |-> IF dictDeleteErr(d, k) THEN "DICT_ERR" ELSE "DICT_OK"]
        /\ dict_can_resize' = dict_can_resize /\ open' = open
    BY <1>4 DEF DictDelete
  <2>2. /\ WellFormed(d') /\ d'.iterators = d.iterators
        /\ Contents(d') = Contents(d) \ M
        /\ dictDeleteErr(d, k) <=> M = {}
    BY <1>1, <2>1, DeleteCorrect
  <2>3. DictInv'
    BY <1>1, <2>1, <2>2, KeepsInv
  <2> QED
    BY <2>1, <2>2, <2>3 DEF Abstract!Delete, Abstract!Bound
<1>5. ASSUME NEW k \in Keys, DictFetchValue(k)
      PROVE  DictInv' /\ Abstract!Fetch(k)
  <2> DEFINE M == {e \in Contents(d) : e.key = k}
  <2>1. /\ d' = AfterFind(d)
        /\ ret' = [op |-> "fetch", key |-> k, found |-> dictFind(d, k)]
        /\ dict_can_resize' = dict_can_resize /\ open' = open
    BY <1>5 DEF DictFetchValue
  <2>2. /\ WellFormed(d') /\ d'.iterators = d.iterators
        /\ Contents(d') = Contents(d)
        /\ dictFind(d, k) = M
    BY <1>1, <2>1, FindCorrect
  <2>3. DictInv'
    BY <1>1, <2>1, <2>2, KeepsInv
  <2> QED
    BY <2>1, <2>2, <2>3 DEF Abstract!Fetch, Abstract!Bound
<1>6. ASSUME NEW n \in RehashArgs, DictRehash(n)
      PROVE  DictInv' /\ Abstract!Maintain
  <2>1. /\ d' = dictRehash(d, n)
        /\ dict_can_resize' = dict_can_resize /\ open' = open
        /\ ret'.op = "rehash"
    BY <1>6 DEF DictRehash
  <2>2. /\ WellFormed(d') /\ d'.iterators = d.iterators
        /\ Contents(d') = Contents(d)
    BY <1>1, <2>1, RehashPreserves
  <2> QED
    BY <1>1, <2>1, <2>2, KeepsInv DEF Abstract!Maintain, Abstract!Maintenance
<1>7. ASSUME NEW n \in ExpandArgs, DictExpand(n)
      PROVE  DictInv' /\ Abstract!Maintain
  <2>1. /\ d' = dictExpand(d, n)
        /\ dict_can_resize' = dict_can_resize /\ open' = open
        /\ ret'.op = "expand"
        /\ n \in Nat
    BY <1>7, CallsAssumption DEF DictExpand
  <2>2. /\ WellFormed(d') /\ d'.iterators = d.iterators
        /\ Contents(d') = Contents(d)
    BY <1>1, <2>1, ExpandPreserves
  <2> QED
    BY <1>1, <2>1, <2>2, KeepsInv DEF Abstract!Maintain, Abstract!Maintenance
<1>8. ASSUME DictResize
      PROVE  DictInv' /\ Abstract!Maintain
  <2>1. /\ d' = dictResize(d, dict_can_resize)
        /\ dict_can_resize' = dict_can_resize /\ open' = open
        /\ ret'.op = "resize"
    BY <1>8 DEF DictResize
  <2>2. Minimal(d) \in Nat
    BY <1>1, WellFormedFields, SizesPositive DEF Minimal
  <2>3. /\ WellFormed(d') /\ d'.iterators = d.iterators
        /\ Contents(d') = Contents(d)
    BY <1>1, <2>1, <2>2, ExpandPreserves DEF dictResize
  <2> QED
    BY <1>1, <2>1, <2>3, KeepsInv DEF Abstract!Maintain, Abstract!Maintenance
<1>9. ASSUME NEW can \in BOOLEAN, DictToggleResize(can)
      PROVE  DictInv' /\ Abstract!Maintain
  <2>1. d' = d /\ dict_can_resize' \in BOOLEAN /\ open' = open
        /\ ret'.op = "toggle"
    BY <1>9 DEF DictToggleResize
  <2> QED
    BY <1>1, <2>1, KeepsInv DEF Abstract!Maintain, Abstract!Maintenance
<1>10. ASSUME DictEmpty
       PROVE  DictInv' /\ Abstract!Empty
  <2>1. d' = dictCreate /\ ret' = [op |-> "empty"]
        /\ dict_can_resize' = dict_can_resize /\ open' = open
    BY <1>10 DEF DictEmpty, dictEmpty, dictCreate
  <2>2. WellFormed(d') /\ Contents(d') = {} /\ d'.iterators = 0
    BY <2>1, CreatedWellFormed DEF dictCreate
  <2>3. DictInv'
    BY <1>1, <2>1, <2>2, CallsAssumption DEF DictInv, TypeOK, WellFormed
  <2> QED
    BY <2>1, <2>2, <2>3 DEF Abstract!Empty
<1>11. ASSUME SafeIteratorBegin \/ SafeIteratorRelease
       PROVE  DictInv' /\ Abstract!Maintain
  <2>1. /\ d.iterators \in Nat /\ d.iterators < ULongSize
        /\ ULongSize \in Nat /\ ULongSize > 0 /\ MaxIterators \in Nat
        /\ open \in 0 .. MaxIterators
    BY <1>1, CallsAssumption, WellFormedFields DEF DictInv, TypeOK
  <2>2. PICK it \in 0 .. ULongSize - 1 : d' = [d EXCEPT !.iterators = it]
    <3>1. /\ (d.iterators + 1) % ULongSize \in 0 .. ULongSize - 1
          /\ (d.iterators + ULongSize - 1) % ULongSize \in 0 .. ULongSize - 1
      BY <2>1
    <3>2. CASE SafeIteratorBegin
      BY <3>1, <3>2, Zenon DEF SafeIteratorBegin
    <3>3. CASE SafeIteratorRelease
      BY <3>1, <3>3, Zenon DEF SafeIteratorRelease
    <3> QED
      BY <1>11, <3>2, <3>3
  <2>3. WellFormed(d') /\ Contents(d') = Contents(d) /\ d'.iterators = it
    BY <1>1, <2>1, <2>2, IteratorsFree
  <2>4. /\ open' \in 0 .. MaxIterators /\ dict_can_resize' = dict_can_resize
        /\ ret'.op = "iterator"
    BY <1>11, <2>1 DEF SafeIteratorBegin, SafeIteratorRelease
  <2>5. DictInv'
    BY <1>1, <2>1, <2>2, <2>3, <2>4 DEF DictInv, TypeOK, WellFormed
  <2> QED
    BY <2>3, <2>4, <2>5 DEF Abstract!Maintain, Abstract!Maintenance
<1> QED
  BY <1>2, <1>3, <1>4, <1>5, <1>6, <1>7, <1>8, <1>9, <1>10, <1>11
     DEF Next, Abstract!Next

(* The inductive invariant holds throughout, for every hash function, every  *)
(* set of keys and every sequence of calls of dict.c.                        *)
THEOREM DictSafety == Spec => []DictInv
<1>1. DictInv /\ [Next]_vars => DictInv'
  <2>1. ASSUME DictInv, Next PROVE DictInv'
    BY <2>1, StepCorrect
  <2>2. ASSUME DictInv, UNCHANGED vars PROVE DictInv'
    BY <2>2 DEF vars, DictInv, TypeOK
  <2> QED
    BY <2>1, <2>2
<1> QED
  BY <1>1, InitInv, PTL DEF Spec

(* Type correctness. *)
THEOREM TypeCorrect == Spec => []TypeOK
<1>1. DictInv => TypeOK
  BY DEF DictInv
<1> QED
  BY <1>1, DictSafety, PTL

(* Entries are where their hashes say, the counters are exact, no key is     *)
(* bound twice, and a rehash in progress has the shape its steps assume.     *)
THEOREM TablesCorrect ==
    Spec => [](Placement /\ UsedExact /\ KeysUnique /\ RehashShape)
<1>1. DictInv => Placement /\ UsedExact /\ KeysUnique /\ RehashShape
  BY DEF DictInv, WellFormed, Placement, UsedExact, KeysUnique, RehashShape
<1> QED
  BY <1>1, DictSafety, PTL

(* The scan for a full bucket in dictRehash never leaves the table, and its  *)
(* assertion never fails (dict.c:191).                                       *)
THEOREM RehashStaysInBounds == Spec => []RehashInBounds
<1>1. ASSUME DictInv PROVE RehashInBounds
  <2> SUFFICES ASSUME dictIsRehashing(d), d.ht0.used # 0
               PROVE  \E b \in d.rehashidx .. d.ht0.size - 1 :
                         d.ht0.table[b] # {}
    BY DEF RehashInBounds
  <2>1. WellFormed(d)
    BY <1>1 DEF DictInv
  <2>2. /\ d.rehashidx \in Nat /\ d.ht0.size \in Nat
        /\ \A b \in 0 .. d.rehashidx - 1 : d.ht0.table[b] = {}
        /\ IsHt(d.ht0) /\ HtUsed(d.ht0)
    BY <2>1, RehashingFields, WellFormedFields
  <2>3. Entries(d.ht0) # {}
    BY <2>2, FS_EmptySet DEF HtUsed
  <2>4. DOMAIN d.ht0.table = 0 .. d.ht0.size - 1
    BY <2>2 DEF IsHt
  <2>5. PICK b \in 0 .. d.ht0.size - 1 : d.ht0.table[b] # {}
    BY <2>3, <2>4 DEF Entries
  <2>6. b \notin 0 .. d.rehashidx - 1
    BY <2>2, <2>5
  <2> QED
    BY <2>2, <2>5, <2>6
<1> QED
  BY <1>1, DictSafety, PTL

(* One call keeps the count of safe iterators right. *)
LEMMA StepCounts ==
    ASSUME ~EmptyDuringIteration, DictInv, IteratorsCounted, Next
    PROVE  IteratorsCounted'
<1>1. /\ WellFormed(d) /\ dict_can_resize \in BOOLEAN /\ d.iterators = open
      /\ open \in 0 .. MaxIterators
      /\ MaxIterators \in Nat /\ ULongSize \in Nat /\ MaxIterators < ULongSize
  BY CallsAssumption DEF DictInv, TypeOK, IteratorsCounted
<1>2. SUFFICES d'.iterators = open'
  BY DEF IteratorsCounted
<1>3. ASSUME NEW k \in Keys, NEW v \in Vals, DictAdd(k, v) \/ DictReplace(k, v)
      PROVE  d'.iterators = open'
  BY <1>1, <1>3, AddCorrect, ReplaceCorrect DEF DictAdd, DictReplace
<1>4. ASSUME NEW k \in Keys, DictDelete(k) \/ DictFetchValue(k)
      PROVE  d'.iterators = open'
  BY <1>1, <1>4, DeleteCorrect, FindCorrect DEF DictDelete, DictFetchValue
<1>5. ASSUME NEW n \in RehashArgs, DictRehash(n)
      PROVE  d'.iterators = open'
  BY <1>1, <1>5, RehashPreserves DEF DictRehash
<1>6. ASSUME NEW n \in ExpandArgs, DictExpand(n)
      PROVE  d'.iterators = open'
  BY <1>1, <1>6, CallsAssumption, ExpandPreserves DEF DictExpand
<1>7. CASE DictResize
  <2>1. Minimal(d) \in Nat
    BY <1>1, WellFormedFields, SizesPositive DEF Minimal
  <2> QED
    BY <1>1, <1>7, <2>1, ExpandPreserves DEF DictResize, dictResize
<1>8. ASSUME NEW can \in BOOLEAN, DictToggleResize(can)
      PROVE  d'.iterators = open'
  BY <1>1, <1>8 DEF DictToggleResize
<1>9. CASE DictEmpty
  BY <1>9 DEF DictEmpty, dictEmpty
<1>10. CASE SafeIteratorBegin
  <2>1. (open + 1) % ULongSize = open + 1
    BY <1>1, <1>10 DEF SafeIteratorBegin
  <2>2. (d.iterators + 1) % ULongSize \in Nat
    BY <1>1
  <2>3. d'.iterators = (d.iterators + 1) % ULongSize
    BY <1>1, <1>10, <2>2, IteratorsFree DEF SafeIteratorBegin
  <2> QED
    BY <1>1, <1>10, <2>1, <2>3 DEF SafeIteratorBegin
<1>11. CASE SafeIteratorRelease
  <2>1. (open + ULongSize - 1) % ULongSize = open - 1
    BY <1>1, <1>11 DEF SafeIteratorRelease
  <2>2. (d.iterators + ULongSize - 1) % ULongSize \in Nat
    BY <1>1
  <2>3. d'.iterators = (d.iterators + ULongSize - 1) % ULongSize
    BY <1>1, <1>11, <2>2, IteratorsFree DEF SafeIteratorRelease
  <2> QED
    BY <1>1, <1>11, <2>1, <2>3 DEF SafeIteratorRelease
<1> QED
  BY <1>3, <1>4, <1>5, <1>6, <1>7, <1>8, <1>9, <1>10, <1>11 DEF Next

(* dict.h:81: as long as no caller empties a dict it is iterating over, the  *)
(* count that suspends rehashing is the number of safe iterators open, and   *)
(* never wraps.                                                              *)
THEOREM IteratorCountExact ==
    ASSUME ~EmptyDuringIteration
    PROVE  Spec => []IteratorsCounted
<1>1. Init => IteratorsCounted
  BY DEF Init, dictCreate, IteratorsCounted
<1>2. DictInv /\ IteratorsCounted /\ [Next]_vars => IteratorsCounted'
  <2>1. ASSUME DictInv, IteratorsCounted, Next PROVE IteratorsCounted'
    BY <2>1, StepCounts
  <2>2. ASSUME IteratorsCounted, UNCHANGED vars PROVE IteratorsCounted'
    BY <2>2 DEF vars, IteratorsCounted
  <2> QED
    BY <2>1, <2>2
<1> QED
  BY <1>1, <1>2, DictSafety, PTL DEF Spec

(* The hash table with its incremental rehashing implements the finite map   *)
(* of KVMap: every call returns what the map returns and binds what the map  *)
(* binds, and rehash steps are invisible.                                    *)
THEOREM DictImplementsMap == Spec => MapSpec
<1>1. Init => Abstract!Init
  BY CreatedWellFormed DEF Init, Abstract!Init
<1>2. DictInv /\ [Next]_vars => [Abstract!Next]_(Abstract!vars)
  <2>1. ASSUME DictInv, Next PROVE Abstract!Next
    BY <2>1, StepCorrect
  <2>2. ASSUME UNCHANGED vars PROVE UNCHANGED Abstract!vars
    BY <2>2 DEF vars, Abstract!vars
  <2> QED
    BY <2>1, <2>2
<1> QED
  BY <1>1, <1>2, DictSafety, PTL DEF Spec, MapSpec, Abstract!Spec

-----------------------------------------------------------------------------
(* Sizes and progress. *)

SameShape(x, y) ==
    /\ y.rehashidx = x.rehashidx
    /\ y.ht0.size = x.ht0.size
    /\ y.ht1.size = x.ht1.size

(* A call of dictRehash that does not end the rehash advances it: the scan   *)
(* stops at the bucket it starts from only when ht0 is empty already.        *)
LEMMA RehashAdvances ==
    ASSUME NEW x, WellFormed(x), dictIsRehashing(x), NEW n \in Nat \ {0},
           NEW y, y = dictRehash(x, n)
    PROVE  \/ /\ dictIsRehashing(y)
              /\ y.ht0.size = x.ht0.size /\ y.ht1.size = x.ht1.size
              /\ y.rehashidx > x.rehashidx
           \/ ~dictIsRehashing(y) /\ y.ht0.size = x.ht1.size
<1> DEFINE i == x.rehashidx
           e == RehashEnd(x, n)
           m == MoveBuckets(x, e)
<1>1. i \in Nat /\ x.ht0.size \in Nat /\ i < x.ht0.size
  BY WellFormedFields, RehashingFields
<1>2. e \in i .. x.ht0.size
  BY RehashEndInTable
<1>3. y = FinishRehash(m)
  BY DEF dictRehash
<1> HIDE DEF e
<1>4. m.ht0.size = x.ht0.size /\ m.ht1.size = x.ht1.size /\ m.rehashidx = e
  <2> HIDE DEF m
  <2>1. m = MoveBuckets(x, e)
    BY DEF m
  <2> QED
    BY <1>2, <2>1, MoveBucketsMoves
<1>5. CASE m.ht0.used = 0
  <2>1. y = WithTables(m, m.ht1, NewHt(0), -1)
    BY <1>3, <1>5 DEF FinishRehash
  <2> HIDE DEF m
  <2> QED
    BY <1>4, <2>1 DEF WithTables, dictIsRehashing
<1>6. CASE m.ht0.used # 0
  <2>1. y = m
    BY <1>3, <1>6 DEF FinishRehash
  <2>2. e # i
    <3> SUFFICES ASSUME e = i PROVE FALSE
      OBVIOUS
    <3>1. i .. i - 1 = {}
      BY <1>1
    <3>2. EntriesIn(x.ht0, i .. i - 1) = {}
      BY <3>1 DEF EntriesIn
    <3>3. m.ht0.used = x.ht0.used - Cardinality({})
      BY <3>2 DEF m, MoveBuckets, TakeBuckets, WithTables
    <3>4. x.ht0.used # 0
      BY <1>6, <3>3, FS_EmptySet
    <3>5. LoopStops(x, n, i)
      <4> DEFINE S == {b \in i .. x.ht0.size : LoopStops(x, n, b)}
      <4>1. x.ht0.size \in S /\ S \in SUBSET Nat
        BY <1>1 DEF LoopStops
      <4>2. Min(S) \in S
        <5> HIDE DEF S
        <5> QED
          BY <4>1, MinOfNat
      <4>3. Min(S) = i
        BY DEF RehashEnd, e
      <4> QED
        BY <4>2, <4>3
    <3>6. /\ {b \in i .. i - 1 : x.ht0.table[b] # {}} = {}
          /\ {b \in i .. i - 1 : x.ht0.table[b] = {}} = {}
      BY <3>1
    <3>7. \/ Cardinality({}) = n
          \/ Cardinality({}) = n * EmptyVisits
          \/ x.ht0.used - Cardinality({}) = 0
          \/ i = x.ht0.size
      BY <3>2, <3>5, <3>6 DEF LoopStops, Visited
    <3>8. n * EmptyVisits # 0 /\ x.ht0.used \in Nat
      BY DictAssumption, WellFormedFields
    <3> QED
      BY <1>1, <3>4, <3>7, <3>8, FS_EmptySet
  <2> HIDE DEF m
  <2> QED
    BY <1>1, <1>2, <1>4, <2>1, <2>2 DEF dictIsRehashing
<1> QED
  BY <1>5, <1>6

(* The table an insertion starts a rehash towards is at least twice as large *)
(* as the one it leaves, and what a table holds is not touched.              *)
LEMMA ExpandShape ==
    ASSUME NEW x, WellFormed(x), NEW can \in BOOLEAN,
           NEW y, y = ExpandIfNeeded(x, can)
    PROVE  /\ Entries(y.ht0) = Entries(x.ht0) /\ Entries(y.ht1) = Entries(x.ht1)
           /\ \/ y = x /\ ~NeedsExpand(x, can)
              \/ /\ ~dictIsRehashing(x) /\ x.ht0.size = 0
                 /\ ~dictIsRehashing(y) /\ y.ht0.size > 0 /\ y.ht0.size \in Nat
              \/ /\ ~dictIsRehashing(x) /\ x.ht0.size > 0
                 /\ dictIsRehashing(y) /\ y.rehashidx = 0
                 /\ y.ht0.size = x.ht0.size /\ y.ht1.size >= 2 * x.ht0.size
<1> DEFINE t == ExpandTarget(x)
           s == NextPower(t)
<1>1. CASE ~NeedsExpand(x, can)
  BY <1>1 DEF ExpandIfNeeded
<1>2. CASE NeedsExpand(x, can)
  <2>1. /\ ~dictIsRehashing(x) /\ x.ht0.size \in Nat /\ x.ht0.used \in Nat
        /\ x.ht1 = NewHt(0) /\ IsHt(x.ht0)
    BY <1>2, WellFormedFields DEF NeedsExpand, WellFormed, Shape
  <2>2. Entries(x.ht1) = {}
    BY <2>1, EmptyTable
  <2>3. ~dictExpandErr(x, t)
    BY <1>2, ExpandNeverFails DEF ExpandIfNeededErr
  <2>4. CASE x.ht0.size = 0
    <3>1. y = WithHt0(x, NewHt(s))
      BY <1>2, <2>3, <2>4 DEF ExpandIfNeeded, dictExpand
    <3>2. s \in Nat /\ s > 0 /\ s \in Sizes
      BY <2>4, SizesPositive, NextPowerInSizes DEF ExpandTarget
    <3> HIDE DEF s
    <3>3. y.ht0 = NewHt(s) /\ y.ht1 = x.ht1 /\ y.rehashidx = x.rehashidx
      BY <3>1 DEF WithHt0, WithTables
    <3>4. Entries(NewHt(s)) = {} /\ NewHt(s).size = s
      BY <3>2, EmptyTable DEF NewHt
    <3>5. Entries(x.ht0) = {}
      <4>1. DOMAIN x.ht0.table = 0 .. x.ht0.size - 1
        BY <2>1 DEF IsHt
      <4>2. DOMAIN x.ht0.table = {}
        BY <2>4, <4>1
      <4> QED
        BY <4>2 DEF Entries
    <3> QED
      BY <2>1, <2>4, <3>2, <3>3, <3>4, <3>5 DEF dictIsRehashing
  <2>5. CASE x.ht0.size # 0
    <3>1. y = WithTables(x, x.ht0, NewHt(s), 0)
      BY <1>2, <2>3, <2>5 DEF ExpandIfNeeded, dictExpand
    <3>2. t = x.ht0.used * 2 /\ x.ht0.used >= x.ht0.size
      BY <1>2, <2>5 DEF ExpandTarget, NeedsExpand
    <3>3. t \in Nat /\ t < MaxSize - 1 /\ t >= 2 * x.ht0.size
      BY <2>1, <3>2, UsedBounded, SizesPositive, DictAssumption
    <3>4. s \in Sizes /\ s >= t
      <4> DEFINE S == {z \in Sizes : z >= t}
      <4> HIDE DEF t
      <4>1. MaxSize \in S /\ S \in SUBSET Nat
        BY <3>3, SizesPositive
      <4>2. Min(S) \in S
        <5> HIDE DEF S
        <5> QED
          BY <4>1, MinOfNat
      <4>3. s = Min(S)
        BY <3>3, SizesPositive DEF NextPower
      <4> HIDE DEF s
      <4> QED
        BY <4>2, <4>3
    <3>5. s \in Nat /\ s >= 2 * x.ht0.size
      <4> HIDE DEF s, t
      <4> QED
        BY <2>1, <3>3, <3>4, SizesPositive
    <3> HIDE DEF s
    <3>6. y.ht0 = x.ht0 /\ y.ht1 = NewHt(s) /\ y.rehashidx = 0
      BY <3>1 DEF WithTables
    <3>7. Entries(NewHt(s)) = {} /\ NewHt(s).size = s
      BY <3>4, EmptyTable DEF NewHt, s
    <3> QED
      BY <2>1, <2>2, <2>5, <3>5, <3>6, <3>7 DEF dictIsRehashing
  <2> QED
    BY <2>4, <2>5
<1> QED
  BY <1>1, <1>2

(* Inserting, overwriting and unlinking an entry change no size. *)
LEMMA UpdatesKeepShape ==
    ASSUME NEW x, NEW k, NEW v, NEW can
    PROVE  /\ SameShape(Prepared(x, can), dictAdd(x, k, v, can))
           /\ SameShape(Prepared(x, can), dictReplace(x, k, v, can))
           /\ SameShape(AfterFind(x), dictDelete(x, k))
<1> DEFINE p == Prepared(x, can)
           f == AfterFind(x)
           n == [key |-> k, val |-> v]
<1>1. ASSUME NEW q PROVE SameShape(q, q)
  BY DEF SameShape
<1>2. SameShape(p, AddEntry(p, n)) /\ SameShape(p, SetFound(p, k, v))
  <2> HIDE DEF p, n
  <2> QED
    BY DEF SameShape, AddEntry, SetFound, WithHt0, WithHt1, WithTables, Link, SetVal,
           WithChain
<1>3. SameShape(f, WithHt0(f, Unlink(f.ht0, k))) /\ SameShape(f, WithHt1(f, Unlink(f.ht1, k)))
  <2> HIDE DEF f
  <2> QED
    BY DEF SameShape, WithHt0, WithHt1, WithTables, Unlink, WithChain
<1>4. \/ dictAdd(x, k, v, can) = p
      \/ dictAdd(x, k, v, can) = AddEntry(p, n)
  BY DEF dictAdd
<1>5. \/ dictReplace(x, k, v, can) = SetFound(p, k, v)
      \/ dictReplace(x, k, v, can) = AddEntry(p, n)
  BY DEF dictReplace
<1>6. \/ dictDelete(x, k) = f
      \/ dictDelete(x, k) = WithHt0(f, Unlink(f.ht0, k))
      \/ dictDelete(x, k) = WithHt1(f, Unlink(f.ht1, k))
  BY DEF dictDelete
<1> HIDE DEF p, f, n
<1> QED
  BY <1>1, <1>2, <1>3, <1>4, <1>5, <1>6 DEF p, f

(* Where a rehash stands after the step that a lookup or an update makes.    *)
SteppedFrom(x, y) ==
    \/ /\ dictIsRehashing(y)
       /\ y.ht0.size = x.ht0.size /\ y.ht1.size = x.ht1.size
       /\ y.rehashidx >= x.rehashidx
    \/ ~dictIsRehashing(y) /\ y.ht0.size = x.ht1.size

LEMMA StepForward ==
    ASSUME NEW x, WellFormed(x), dictIsRehashing(x)
    PROVE  SteppedFrom(x, RehashStep(x)) /\ SteppedFrom(x, AfterFind(x))
<1>1. x.rehashidx \in Nat
  BY RehashingFields
<1>2. SteppedFrom(x, x)
  BY <1>1 DEF SteppedFrom
<1>3. SteppedFrom(x, RehashStep(x))
  <2> DEFINE y == dictRehash(x, 1)
  <2>1. WellFormed(y)
    BY RehashPreserves
  <2>2. \/ /\ dictIsRehashing(y)
           /\ y.ht0.size = x.ht0.size /\ y.ht1.size = x.ht1.size
           /\ y.rehashidx > x.rehashidx
        \/ ~dictIsRehashing(y) /\ y.ht0.size = x.ht1.size
    <3>1. 1 \in Nat \ {0}
      OBVIOUS
    <3> QED
      BY <3>1, RehashAdvances
  <2> HIDE DEF y
  <2>3. dictIsRehashing(y) => y.rehashidx \in Nat
    BY <2>1, RehashingFields
  <2>4. SteppedFrom(x, y)
    BY <1>1, <2>2, <2>3 DEF SteppedFrom
  <2> QED
    BY <1>2, <2>4 DEF RehashStep, y
<1> QED
  BY <1>2, <1>3 DEF AfterFind

(* dict.c:182, dict.c:916: until a rehash ends its tables are not            *)
(* reallocated and rehashidx does not go back, whatever calls are made.      *)
THEOREM RehashGoesForward == Spec => RehashForward
<1> DEFINE P == dictIsRehashing(d) /\ dictIsRehashing(d)' =>
                  \/ /\ d'.ht0.size = d.ht0.size
                     /\ d'.ht1.size = d.ht1.size
                     /\ d'.rehashidx >= d.rehashidx
                     /\ ret'.op = "rehash" => d'.rehashidx > d.rehashidx
                  \/ /\ ret'.op \in {"add", "replace"}
                     /\ d'.ht0.size = d.ht1.size
                     /\ d'.rehashidx = 0
<1>1. ASSUME DictInv, Next PROVE P
  <2> SUFFICES ASSUME dictIsRehashing(d), dictIsRehashing(d')
               PROVE  \/ /\ d'.ht0.size = d.ht0.size
                         /\ d'.ht1.size = d.ht1.size
                         /\ d'.rehashidx >= d.rehashidx
                         /\ ret'.op = "rehash" => d'.rehashidx > d.rehashidx
                      \/ /\ ret'.op \in {"add", "replace"}
                         /\ d'.ht0.size = d.ht1.size
                         /\ d'.rehashidx = 0
    OBVIOUS
  <2> DEFINE z == RehashStep(d)
             a == AfterFind(d)
  <2>1. WellFormed(d) /\ dict_can_resize \in BOOLEAN
    BY <1>1 DEF DictInv, TypeOK
  <2>2. SteppedFrom(d, z) /\ SteppedFrom(d, a) /\ WellFormed(z) /\ d.rehashidx \in Nat
    BY <2>1, StepForward, RehashStepPreserves, RehashingFields
  <2> HIDE DEF z, a
  <2>3. ASSUME SameShape(Prepared(d, dict_can_resize), d'), ret'.op \in {"add", "replace"}
        PROVE  \/ /\ d'.ht0.size = d.ht0.size
                  /\ d'.ht1.size = d.ht1.size
                  /\ d'.rehashidx >= d.rehashidx
                  /\ ret'.op # "rehash"
               \/ /\ ret'.op \in {"add", "replace"}
                  /\ d'.ht0.size = d.ht1.size
                  /\ d'.rehashidx = 0
    <3> DEFINE p == ExpandIfNeeded(z, dict_can_resize)
    <3>1. p = Prepared(d, dict_can_resize)
      BY DEF Prepared, z
    <3>2. \/ p = z /\ ~NeedsExpand(z, dict_can_resize)
          \/ /\ ~dictIsRehashing(z) /\ z.ht0.size = 0
             /\ ~dictIsRehashing(p)
          \/ /\ ~dictIsRehashing(z) /\ z.ht0.size > 0
             /\ dictIsRehashing(p) /\ p.rehashidx = 0
             /\ p.ht0.size = z.ht0.size
      BY <2>1, <2>2, ExpandShape
    <3> HIDE DEF p
    <3>3. dictIsRehashing(p)
      BY <2>3, <3>1 DEF SameShape, dictIsRehashing
    <3> QED
      BY <2>2, <2>3, <3>1, <3>2, <3>3 DEF SameShape, SteppedFrom
  <2>4. ASSUME NEW k \in Keys, NEW v \in Vals, DictAdd(k, v) \/ DictReplace(k, v)
        PROVE  SameShape(Prepared(d, dict_can_resize), d') /\ ret'.op \in {"add", "replace"}
    BY <2>4, UpdatesKeepShape DEF DictAdd, DictReplace
  <2>5. ASSUME NEW k \in Keys, DictDelete(k) \/ DictFetchValue(k)
        PROVE  SameShape(a, d') /\ ret'.op # "rehash"
    BY <2>5, UpdatesKeepShape DEF DictDelete, DictFetchValue, SameShape, a
  <2>6. ASSUME NEW n \in RehashArgs, DictRehash(n)
        PROVE  /\ d'.ht0.size = d.ht0.size
               /\ d'.ht1.size = d.ht1.size
               /\ d'.rehashidx > d.rehashidx
    <3>1. n \in Nat \ {0} /\ d' = dictRehash(d, n)
      BY <2>6, CallsAssumption DEF DictRehash
    <3> QED
      BY <2>1, <3>1, RehashAdvances
  <2>7. ASSUME NEW n \in ExpandArgs, DictExpand(n)
        PROVE  d' = d /\ ret'.op # "rehash"
    BY <2>7 DEF DictExpand, dictExpand, dictExpandErr
  <2>8. CASE DictResize
    BY <2>2, <2>8 DEF DictResize, dictResize, dictResizeErr
  <2>9. ASSUME NEW can \in BOOLEAN, DictToggleResize(can)
        PROVE  d' = d /\ ret'.op # "rehash"
    BY <2>9 DEF DictToggleResize
  <2>10. CASE DictEmpty
    BY <2>10 DEF DictEmpty, dictEmpty, dictIsRehashing
  <2>11. CASE SafeIteratorBegin \/ SafeIteratorRelease
    <3>1. d = [ht0 |-> d.ht0, ht1 |-> d.ht1, rehashidx |-> d.rehashidx,
               iterators |-> d.iterators]
      BY <2>1, WellFormedFields DEF IsDict
    <3>2. d'.ht0 = d.ht0 /\ d'.ht1 = d.ht1 /\ d'.rehashidx = d.rehashidx
      BY <2>11, <3>1 DEF SafeIteratorBegin, SafeIteratorRelease
    <3>3. ret'.op = "iterator"
      BY <2>11 DEF SafeIteratorBegin, SafeIteratorRelease
    <3> QED
      BY <2>2, <3>2, <3>3
  <2>12. ASSUME SameShape(a, d'), ret'.op # "rehash"
         PROVE  /\ d'.ht0.size = d.ht0.size
                /\ d'.ht1.size = d.ht1.size
                /\ d'.rehashidx >= d.rehashidx
    BY <2>2, <2>12 DEF SameShape, SteppedFrom, dictIsRehashing
  <2>13. d.rehashidx >= d.rehashidx
    BY <2>2
  <2>14. d'.rehashidx > d.rehashidx => d'.rehashidx >= d.rehashidx
    BY <1>1, <2>1, <2>2, StepCorrect, RehashingFields DEF DictInv
  <2> QED
    BY <1>1, <2>3, <2>4, <2>5, <2>6, <2>7, <2>8, <2>9, <2>10, <2>11, <2>12, <2>13, <2>14
       DEF Next
<1>2. DictInv /\ [Next]_vars => [P]_vars
  BY <1>1
<1> QED
  BY <1>2, DictSafety, PTL DEF Spec, RehashForward

-----------------------------------------------------------------------------
(* Safe iterators. *)

(* No key of one table of x is in the other table of y. *)
NotMoved(x, y) ==
    /\ KeysIn(x.ht0) \cap KeysIn(y.ht1) = {}
    /\ KeysIn(x.ht1) \cap KeysIn(y.ht0) = {}

(* Tables that gain no key, or one key that was in neither, moved none. *)
LEMMA StayPut ==
    ASSUME NEW x, WellFormed(x), NEW y, NEW N,
           N \cap (KeysIn(x.ht0) \cup KeysIn(x.ht1)) = {},
           KeysIn(y.ht0) \subseteq KeysIn(x.ht0) \cup N,
           KeysIn(y.ht1) \subseteq KeysIn(x.ht1) \cup N
    PROVE  NotMoved(x, y)
<1>1. KeysIn(x.ht0) \cap KeysIn(x.ht1) = {}
  <2> SUFFICES ASSUME NEW e \in Entries(x.ht0), NEW f \in Entries(x.ht1), e.key = f.key
               PROVE  FALSE
    BY DEF KeysIn
  <2>1. e = f
    BY WellFormedFields DEF Contents
  <2> QED
    BY <2>1, WellFormedFields
<1> QED
  BY <1>1 DEF NotMoved

(* A new entry, an overwritten one and an unlinked one, in either table. *)
LEMMA AddedKeys ==
    ASSUME NEW x, WellFormed(x), x.ht0.size > 0, NEW n \in Entry,
           {e \in Contents(x) : e.key = n.key} = {},
           NEW y, y = AddEntry(x, n)
    PROVE  /\ KeysIn(y.ht0) \subseteq KeysIn(x.ht0) \cup {n.key}
           /\ KeysIn(y.ht1) \subseteq KeysIn(x.ht1) \cup {n.key}
<1>1. /\ IsHt(x.ht0) /\ HtPlaced(x.ht0) /\ HtUsed(x.ht0)
      /\ IsHt(x.ht1) /\ HtPlaced(x.ht1) /\ HtUsed(x.ht1)
      /\ n \notin Entries(x.ht0) /\ n \notin Entries(x.ht1)
  BY WellFormedFields DEF Contents
<1>2. ASSUME NEW h, IsHt(h), HtPlaced(h), HtUsed(h), h.size > 0, n \notin Entries(h)
      PROVE  KeysIn(Link(h, n)) \subseteq KeysIn(h) \cup {n.key}
  <2>1. Entries(Link(h, n)) = Entries(h) \cup {n}
    BY <1>2, LinkAdds
  <2> QED
    BY <2>1 DEF KeysIn
<1>3. CASE dictIsRehashing(x)
  <2>1. x.ht1.size > 0
    BY <1>3, RehashingFields
  <2>2. y.ht0 = x.ht0 /\ y.ht1 = Link(x.ht1, n)
    BY <1>3 DEF AddEntry, WithHt1, WithTables
  <2>3. KeysIn(Link(x.ht1, n)) \subseteq KeysIn(x.ht1) \cup {n.key}
    BY <1>1, <1>2, <2>1
  <2> QED
    BY <2>2, <2>3
<1>4. CASE ~dictIsRehashing(x)
  <2>1. y.ht0 = Link(x.ht0, n) /\ y.ht1 = x.ht1
    BY <1>4 DEF AddEntry, WithHt0, WithTables
  <2>2. KeysIn(Link(x.ht0, n)) \subseteq KeysIn(x.ht0) \cup {n.key}
    BY <1>1, <1>2
  <2> QED
    BY <2>1, <2>2
<1> QED
  BY <1>3, <1>4

LEMMA SetKeys ==
    ASSUME NEW x, WellFormed(x), x.ht0.size > 0, NEW k \in Keys, NEW v \in Vals,
           {e \in Contents(x) : e.key = k} # {},
           NEW y, y = SetFound(x, k, v)
    PROVE  KeysIn(y.ht0) \subseteq KeysIn(x.ht0) /\ KeysIn(y.ht1) \subseteq KeysIn(x.ht1)
<1>1. /\ IsHt(x.ht0) /\ HtPlaced(x.ht0) /\ HtUsed(x.ht0)
      /\ IsHt(x.ht1) /\ HtPlaced(x.ht1) /\ HtUsed(x.ht1)
      /\ \A e, f \in Entries(x.ht0) : e.key = f.key => e = f
      /\ \A e, f \in Entries(x.ht1) : e.key = f.key => e = f
  BY WellFormedFields DEF Contents
<1>2. ASSUME NEW h, IsHt(h), HtPlaced(h), HtUsed(h), h.size > 0, Match(h, k) # {},
             \A e, f \in Entries(h) : e.key = f.key => e = f
      PROVE  KeysIn(SetVal(h, k, v)) \subseteq KeysIn(h)
  <2>1. Entries(SetVal(h, k, v)) = (Entries(h) \ Match(h, k)) \cup {[key |-> k, val |-> v]}
    BY <1>2, SetValReplaces
  <2>2. k \in KeysIn(h)
    BY <1>2, MatchIsOne DEF KeysIn
  <2>3. ASSUME NEW e \in Entries(SetVal(h, k, v)) PROVE e.key \in KeysIn(h)
    <3>1. CASE e \in Entries(h)
      BY <3>1 DEF KeysIn
    <3>2. CASE e = [key |-> k, val |-> v]
      BY <2>2, <3>2
    <3> QED
      BY <2>1, <3>1, <3>2
  <2> QED
    BY <2>3 DEF KeysIn
<1>3. CASE Match(x.ht0, k) # {}
  <2>1. y.ht0 = SetVal(x.ht0, k, v) /\ y.ht1 = x.ht1
    BY <1>3 DEF SetFound, WithHt0, WithTables
  <2>2. KeysIn(SetVal(x.ht0, k, v)) \subseteq KeysIn(x.ht0)
    BY <1>1, <1>2, <1>3
  <2> QED
    BY <2>1, <2>2
<1>4. CASE Match(x.ht0, k) = {}
  <2>1. dictIsRehashing(x) /\ Match(x.ht1, k) # {}
    BY <1>4, FoundWhere
  <2>2. x.ht1.size > 0
    BY <2>1, RehashingFields
  <2>3. y.ht0 = x.ht0 /\ y.ht1 = SetVal(x.ht1, k, v)
    BY <1>4 DEF SetFound, WithHt1, WithTables
  <2>4. KeysIn(SetVal(x.ht1, k, v)) \subseteq KeysIn(x.ht1)
    BY <1>1, <1>2, <2>1, <2>2
  <2> QED
    BY <2>3, <2>4
<1> QED
  BY <1>3, <1>4

LEMMA DeletedKeys ==
    ASSUME NEW x, WellFormed(x), AfterFind(x) = x, NEW k \in Keys,
           NEW y, y = dictDelete(x, k)
    PROVE  KeysIn(y.ht0) \subseteq KeysIn(x.ht0) /\ KeysIn(y.ht1) \subseteq KeysIn(x.ht1)
<1> DEFINE M == {e \in Contents(x) : e.key = k}
<1>1. /\ IsHt(x.ht0) /\ HtPlaced(x.ht0) /\ HtUsed(x.ht0)
      /\ IsHt(x.ht1) /\ HtPlaced(x.ht1) /\ HtUsed(x.ht1)
      /\ \A e, f \in Entries(x.ht0) : e.key = f.key => e = f
      /\ \A e, f \in Entries(x.ht1) : e.key = f.key => e = f
  BY WellFormedFields DEF Contents
<1>2. ASSUME NEW h, IsHt(h), HtPlaced(h), HtUsed(h), h.size > 0, Match(h, k) # {},
             \A e, f \in Entries(h) : e.key = f.key => e = f
      PROVE  KeysIn(Unlink(h, k)) \subseteq KeysIn(h)
  <2>1. Entries(Unlink(h, k)) = Entries(h) \ Match(h, k)
    BY <1>2, UnlinkRemoves
  <2> QED
    BY <2>1 DEF KeysIn
<1>3. dictDeleteErr(x, k) <=> M = {}
  BY DeleteCorrect
<1>4. CASE dictDeleteErr(x, k)
  BY <1>4 DEF dictDelete
<1>5. CASE ~dictDeleteErr(x, k)
  <2>1. M # {} /\ Contents(x) # {}
    BY <1>3, <1>5
  <2>2. x.ht0.size > 0
    BY <2>1, NonEmptyHasTable
  <2>3. CASE Match(x.ht0, k) # {}
    <3>1. y.ht0 = Unlink(x.ht0, k) /\ y.ht1 = x.ht1
      BY <1>5, <2>3 DEF dictDelete, WithHt0, WithTables
    <3>2. KeysIn(Unlink(x.ht0, k)) \subseteq KeysIn(x.ht0)
      BY <1>1, <1>2, <2>2, <2>3
    <3> QED
      BY <3>1, <3>2
  <2>4. CASE Match(x.ht0, k) = {}
    <3>1. dictIsRehashing(x) /\ Match(x.ht1, k) # {}
      BY <2>1, <2>2, <2>4, FoundWhere
    <3>2. x.ht1.size > 0
      BY <3>1, RehashingFields
    <3>3. y.ht0 = x.ht0 /\ y.ht1 = Unlink(x.ht1, k)
      BY <1>5, <2>4 DEF dictDelete, WithHt1, WithTables
    <3>4. KeysIn(Unlink(x.ht1, k)) \subseteq KeysIn(x.ht1)
      BY <1>1, <1>2, <3>1, <3>2
    <3> QED
      BY <3>3, <3>4
  <2> QED
    BY <2>3, <2>4
<1> QED
  BY <1>4, <1>5

(* An expansion touches no entry. *)
LEMMA ExpandEntries ==
    ASSUME NEW x, WellFormed(x), NEW m \in Nat, NEW y, y = dictExpand(x, m)
    PROVE  Entries(y.ht0) = Entries(x.ht0) /\ Entries(y.ht1) = Entries(x.ht1)
<1> DEFINE s == NextPower(m)
<1>1. CASE dictExpandErr(x, m)
  BY <1>1 DEF dictExpand
<1>2. CASE ~dictExpandErr(x, m)
  <2>1. s \in Sizes
    BY NextPowerInSizes
  <2>2. Entries(NewHt(s)) = {} /\ Entries(NewHt(0)) = {}
    BY <2>1, EmptyTable
  <2>3. x.ht1 = NewHt(0) /\ IsHt(x.ht0) /\ x.ht0.size \in Nat
    BY <1>2, WellFormedFields DEF dictExpandErr, WellFormed, Shape
  <2>4. CASE x.ht0.size = 0
    <3>1. y = WithHt0(x, NewHt(s))
      BY <1>2, <2>4 DEF dictExpand
    <3>2. y.ht0 = NewHt(s) /\ y.ht1 = x.ht1
      BY <3>1 DEF WithHt0, WithTables
    <3>3. DOMAIN x.ht0.table = 0 .. x.ht0.size - 1
      BY <2>3 DEF IsHt
    <3>4. DOMAIN x.ht0.table = {}
      BY <2>4, <3>3
    <3>5. Entries(x.ht0) = {}
      BY <3>4 DEF Entries
    <3> QED
      BY <2>2, <3>2, <3>5
  <2>5. CASE x.ht0.size # 0
    <3>1. y = WithTables(x, x.ht0, NewHt(s), 0)
      BY <1>2, <2>5 DEF dictExpand
    <3>2. y.ht0 = x.ht0 /\ y.ht1 = NewHt(s)
      BY <3>1 DEF WithTables
    <3> QED
      BY <2>2, <2>3, <3>2
  <2> QED
    BY <2>4, <2>5
<1> QED
  BY <1>1, <1>2

(* What an insertion does while rehashing is suspended. *)
LEMMA AddStays ==
    ASSUME NEW x, WellFormed(x), x.iterators # 0, NEW can \in BOOLEAN,
           NEW k \in Keys, NEW v \in Vals,
           NEW y, y = dictAdd(x, k, v, can) \/ y = dictReplace(x, k, v, can)
    PROVE  NotMoved(x, y)
<1> DEFINE p == Prepared(x, can)
           n == [key |-> k, val |-> v]
           M == {e \in Contents(x) : e.key = k}
<1>1. p = ExpandIfNeeded(x, can)
  BY DEF Prepared, RehashStep
<1>2. /\ WellFormed(p) /\ Contents(p) = Contents(x) /\ p.ht0.size > 0
      /\ NoKeyIndex(x, k, can) <=> M # {}
  BY PreparedCorrect
<1>3. Entries(p.ht0) = Entries(x.ht0) /\ Entries(p.ht1) = Entries(x.ht1)
  BY <1>1, ExpandShape
<1>4. KeysIn(p.ht0) = KeysIn(x.ht0) /\ KeysIn(p.ht1) = KeysIn(x.ht1)
  BY <1>3 DEF KeysIn
<1> HIDE DEF p
<1>5. CASE M = {}
  <2>1. y = AddEntry(p, n)
    BY <1>2, <1>5 DEF dictAdd, dictReplace, p
  <2>2. n \in Entry /\ n.key = k
    BY DEF Entry
  <2> HIDE DEF n
  <2>3. {e \in Contents(p) : e.key = n.key} = {}
    BY <1>2, <1>5, <2>2
  <2>4. /\ KeysIn(y.ht0) \subseteq KeysIn(x.ht0) \cup {k}
        /\ KeysIn(y.ht1) \subseteq KeysIn(x.ht1) \cup {k}
    <3>1. /\ KeysIn(y.ht0) \subseteq KeysIn(p.ht0) \cup {n.key}
          /\ KeysIn(y.ht1) \subseteq KeysIn(p.ht1) \cup {n.key}
      BY <1>2, <2>1, <2>2, <2>3, AddedKeys
    <3> QED
      BY <1>4, <2>2, <3>1
  <2>5. k \notin KeysIn(x.ht0) \cup KeysIn(x.ht1)
    BY <1>5 DEF KeysIn, Contents
  <2> DEFINE N == {k}
  <2>6. /\ N \cap (KeysIn(x.ht0) \cup KeysIn(x.ht1)) = {}
        /\ KeysIn(y.ht0) \subseteq KeysIn(x.ht0) \cup N
        /\ KeysIn(y.ht1) \subseteq KeysIn(x.ht1) \cup N
    BY <2>4, <2>5
  <2> HIDE DEF N
  <2> QED
    BY <2>6, StayPut
<1>6. CASE M # {}
  <2>1. y = p \/ y = SetFound(p, k, v)
    BY <1>2, <1>6 DEF dictAdd, dictReplace, p
  <2>2. {e \in Contents(p) : e.key = k} # {}
    BY <1>2, <1>6
  <2>3. KeysIn(y.ht0) \subseteq KeysIn(x.ht0) /\ KeysIn(y.ht1) \subseteq KeysIn(x.ht1)
    <3>1. CASE y = p
      BY <1>4, <3>1
    <3>2. CASE y = SetFound(p, k, v)
      BY <1>2, <1>4, <2>2, <3>2, SetKeys
    <3> QED
      BY <2>1, <3>1, <3>2
  <2> DEFINE N == {}
  <2>4. /\ N \cap (KeysIn(x.ht0) \cup KeysIn(x.ht1)) = {}
        /\ KeysIn(y.ht0) \subseteq KeysIn(x.ht0) \cup N
        /\ KeysIn(y.ht1) \subseteq KeysIn(x.ht1) \cup N
    BY <2>3
  <2> HIDE DEF N
  <2> QED
    BY <2>4, StayPut
<1> QED
  BY <1>5, <1>6

(* Tables that gain no key moved none. *)
LEMMA NoneGained ==
    ASSUME NEW x, WellFormed(x), NEW y,
           KeysIn(y.ht0) \subseteq KeysIn(x.ht0),
           KeysIn(y.ht1) \subseteq KeysIn(x.ht1)
    PROVE  NotMoved(x, y)
<1> DEFINE N == {}
<1>1. /\ N \cap (KeysIn(x.ht0) \cup KeysIn(x.ht1)) = {}
      /\ KeysIn(y.ht0) \subseteq KeysIn(x.ht0) \cup N
      /\ KeysIn(y.ht1) \subseteq KeysIn(x.ht1) \cup N
  OBVIOUS
<1> HIDE DEF N
<1> QED
  BY <1>1, StayPut

(* dict.c:246: while a safe iterator is open no lookup and no update moves   *)
(* an entry from one table to the other, expansions included.                *)
THEOREM IterationUndisturbed ==
    ASSUME ~EmptyDuringIteration
    PROVE  Spec => NoMoveWhileIterating
<1> DEFINE P == open > 0 /\ ret'.op \notin {"rehash", "empty"} =>
                  /\ KeysIn(d.ht0) \cap KeysIn(d.ht1)' = {}
                  /\ KeysIn(d.ht1) \cap KeysIn(d.ht0)' = {}
<1>1. ASSUME DictInv, IteratorsCounted, Next PROVE P
  <2> SUFFICES ASSUME open > 0, ret'.op \notin {"rehash", "empty"} PROVE NotMoved(d, d')
    BY DEF NotMoved, KeysIn
  <2>1. WellFormed(d) /\ dict_can_resize \in BOOLEAN /\ d.iterators # 0
    BY <1>1, CallsAssumption DEF DictInv, TypeOK, IteratorsCounted
  <2>2. AfterFind(d) = d
    BY <2>1 DEF AfterFind, RehashStep
  <2>3. ASSUME d'.ht0 = d.ht0, d'.ht1 = d.ht1 PROVE NotMoved(d, d')
    <3>1. KeysIn(d'.ht0) \subseteq KeysIn(d.ht0) /\ KeysIn(d'.ht1) \subseteq KeysIn(d.ht1)
      BY <2>3
    <3> QED
      BY <2>1, <3>1, NoneGained
  <2>4. ASSUME NEW k \in Keys, NEW v \in Vals, DictAdd(k, v) \/ DictReplace(k, v)
        PROVE  NotMoved(d, d')
    BY <2>1, <2>4, AddStays DEF DictAdd, DictReplace
  <2>5. ASSUME NEW k \in Keys, DictDelete(k) PROVE NotMoved(d, d')
    <3>1. d' = dictDelete(d, k)
      BY <2>5 DEF DictDelete
    <3>2. KeysIn(d'.ht0) \subseteq KeysIn(d.ht0) /\ KeysIn(d'.ht1) \subseteq KeysIn(d.ht1)
      BY <2>1, <2>2, <3>1, DeletedKeys
    <3> QED
      BY <2>1, <3>2, NoneGained
  <2>6. ASSUME NEW k \in Keys, DictFetchValue(k) PROVE NotMoved(d, d')
    BY <2>2, <2>3, <2>6 DEF DictFetchValue
  <2>7. ASSUME NEW n \in Nat, d' = dictExpand(d, n) PROVE NotMoved(d, d')
    <3>1. Entries(d'.ht0) = Entries(d.ht0) /\ Entries(d'.ht1) = Entries(d.ht1)
      BY <2>1, <2>7, ExpandEntries
    <3>2. KeysIn(d'.ht0) \subseteq KeysIn(d.ht0) /\ KeysIn(d'.ht1) \subseteq KeysIn(d.ht1)
      BY <3>1 DEF KeysIn
    <3> QED
      BY <2>1, <3>2, NoneGained
  <2>8. ASSUME NEW n \in ExpandArgs, DictExpand(n) PROVE NotMoved(d, d')
    BY <2>7, <2>8, CallsAssumption DEF DictExpand
  <2>9. CASE DictResize
    <3>1. Minimal(d) \in Nat
      BY <2>1, WellFormedFields, SizesPositive DEF Minimal
    <3>2. d' = d \/ d' = dictExpand(d, Minimal(d))
      BY <2>9 DEF DictResize, dictResize
    <3> QED
      BY <2>3, <2>7, <3>1, <3>2
  <2>10. ASSUME NEW can \in BOOLEAN, DictToggleResize(can) PROVE NotMoved(d, d')
    BY <2>3, <2>10 DEF DictToggleResize
  <2>11. CASE SafeIteratorBegin \/ SafeIteratorRelease
    <3>1. d = [ht0 |-> d.ht0, ht1 |-> d.ht1, rehashidx |-> d.rehashidx,
               iterators |-> d.iterators]
      BY <2>1, WellFormedFields DEF IsDict
    <3>2. d'.ht0 = d.ht0 /\ d'.ht1 = d.ht1
      BY <2>11, <3>1 DEF SafeIteratorBegin, SafeIteratorRelease
    <3> QED
      BY <2>3, <3>2
  <2>12. \A n \in RehashArgs : ~DictRehash(n)
    BY DEF DictRehash
  <2>13. ~DictEmpty
    BY DEF DictEmpty
  <2> QED
    BY <1>1, <2>4, <2>5, <2>6, <2>8, <2>9, <2>10, <2>11, <2>12, <2>13 DEF Next
<1>2. DictInv /\ IteratorsCounted /\ [Next]_vars => [P]_vars
  BY <1>1
<1> QED
  BY <1>2, DictSafety, IteratorCountExact, PTL DEF Spec, NoMoveWhileIterating

-----------------------------------------------------------------------------
(* The load. *)

(* A table is filled to one entry per bucket before a rehash starts, and the *)
(* rehash then moves on by a bucket at least for every entry added.  slack   *)
(* counts the entries that may still be added.                               *)
Loaded(x, slack) ==
    IF dictIsRehashing(x)
    THEN /\ x.ht1.size >= 2 * x.ht0.size
         /\ dictSize(x) + slack <= x.ht0.size + x.rehashidx + 1
    ELSE dictSize(x) + slack <= x.ht0.size

(* The size of a dict is the number of its entries. *)
LEMMA SizeIsCardinality ==
    ASSUME NEW x, WellFormed(x)
    PROVE  /\ IsFiniteSet(Contents(x)) /\ dictSize(x) = Cardinality(Contents(x))
           /\ dictSize(x) \in Nat
<1>1. /\ IsFiniteSet(Entries(x.ht0)) /\ x.ht0.used = Cardinality(Entries(x.ht0))
      /\ IsFiniteSet(Entries(x.ht1)) /\ x.ht1.used = Cardinality(Entries(x.ht1))
      /\ Entries(x.ht0) \cap Entries(x.ht1) = {}
      /\ x.ht0.used \in Nat /\ x.ht1.used \in Nat
  BY WellFormedFields DEF HtUsed
<1>2. /\ IsFiniteSet(Contents(x))
      /\ Cardinality(Contents(x)) = x.ht0.used + x.ht1.used - Cardinality({})
  <2> DEFINE A == Entries(x.ht0)
             B == Entries(x.ht1)
  <2>1. A \cap B = {} /\ IsFiniteSet(A) /\ IsFiniteSet(B)
    BY <1>1
  <2>2. /\ IsFiniteSet(A \cup B)
        /\ Cardinality(A \cup B) = Cardinality(A) + Cardinality(B) - Cardinality(A \cap B)
    <3> HIDE DEF A, B
    <3> QED
      BY <2>1, FS_Union
  <2> QED
    BY <1>1, <2>1, <2>2 DEF Contents
<1> QED
  BY <1>1, <1>2, FS_EmptySet DEF dictSize

(* A dict of the same shape is loaded as far as it has no more entries. *)
LEMMA SameShapeLoaded ==
    ASSUME NEW x, NEW y, WellFormed(x), WellFormed(y), SameShape(x, y),
           NEW i \in Nat, NEW j \in Nat, dictSize(y) + j <= dictSize(x) + i,
           Loaded(x, i)
    PROVE  Loaded(y, j)
<1>1. /\ dictSize(x) \in Nat /\ dictSize(y) \in Nat
      /\ x.ht0.size \in Nat /\ x.rehashidx \in Nat \cup {-1}
  BY SizeIsCardinality, WellFormedFields
<1>2. dictIsRehashing(y) <=> dictIsRehashing(x)
  BY DEF SameShape, dictIsRehashing
<1> QED
  BY <1>1, <1>2 DEF Loaded, SameShape

(* A step of the rehash makes room for an entry. *)
LEMMA StepMakesRoom ==
    ASSUME NEW x, WellFormed(x), Loaded(x, 0), NEW n \in Nat \ {0},
           NEW y, y = dictRehash(x, n)
    PROVE  /\ Loaded(y, 0)
           /\ dictIsRehashing(y) => Loaded(y, 1)
<1>1. WellFormed(y) /\ Contents(y) = Contents(x)
  BY RehashPreserves
<1>2. dictSize(y) = dictSize(x) /\ dictSize(x) \in Nat
  BY <1>1, SizeIsCardinality
<1>3. CASE ~dictIsRehashing(x)
  BY <1>3 DEF dictRehash
<1>4. CASE dictIsRehashing(x)
  <2>1. /\ x.ht0.size \in Nat /\ x.ht1.size \in Nat /\ x.rehashidx \in Nat
        /\ x.rehashidx < x.ht0.size /\ y.rehashidx \in Nat \cup {-1}
        /\ x.ht1.size >= 2 * x.ht0.size
        /\ dictSize(x) <= x.ht0.size + x.rehashidx + 1
    BY <1>1, <1>2, <1>4, WellFormedFields, RehashingFields DEF Loaded
  <2>2. CASE /\ dictIsRehashing(y)
             /\ y.ht0.size = x.ht0.size /\ y.ht1.size = x.ht1.size
             /\ y.rehashidx > x.rehashidx
    BY <1>2, <2>1, <2>2 DEF Loaded
  <2>3. CASE ~dictIsRehashing(y) /\ y.ht0.size = x.ht1.size
    BY <1>2, <2>1, <2>3 DEF Loaded
  <2> QED
    BY <1>4, <2>2, <2>3, RehashAdvances
<1> QED
  BY <1>3, <1>4

(* The dict in which an insertion looks for a slot has room for an entry. *)
LEMMA PreparedHasRoom ==
    ASSUME NEW x, WellFormed(x), x.iterators = 0, Loaded(x, 0), NEW k \in Keys
    PROVE  Loaded(Prepared(x, TRUE), 1)
<1> DEFINE z == RehashStep(x)
           p == ExpandIfNeeded(z, TRUE)
<1>1. WellFormed(z) /\ TRUE \in BOOLEAN
  BY RehashStepPreserves
<1>2. Loaded(z, 0) /\ (dictIsRehashing(z) => Loaded(z, 1))
  <2>1. z = dictRehash(x, 1) /\ 1 \in Nat \ {0}
    BY DEF RehashStep
  <2> HIDE DEF z
  <2> QED
    BY <2>1, StepMakesRoom
<1>3. p = Prepared(x, TRUE)
  BY DEF Prepared
<1>4. WellFormed(p) /\ Contents(p) = Contents(x)
  BY <1>1, <1>3, PreparedCorrect, ZenonT(30)
<1>5. /\ dictSize(z) \in Nat /\ dictSize(p) = dictSize(z)
      /\ z.ht0.size \in Nat /\ p.ht1.size \in Nat /\ z.ht0.used \in Nat
  BY <1>1, <1>4, SizeIsCardinality, WellFormedFields, RehashStepPreserves
<1> HIDE DEF z
<1>6. \/ p = z /\ ~NeedsExpand(z, TRUE)
      \/ /\ ~dictIsRehashing(z) /\ z.ht0.size = 0
         /\ ~dictIsRehashing(p) /\ p.ht0.size > 0 /\ p.ht0.size \in Nat
      \/ /\ ~dictIsRehashing(z) /\ z.ht0.size > 0
         /\ dictIsRehashing(p) /\ p.rehashidx = 0
         /\ p.ht0.size = z.ht0.size /\ p.ht1.size >= 2 * z.ht0.size
  BY <1>1, ExpandShape
<1> HIDE DEF p
<1>7. Loaded(p, 1)
  <2>1. CASE p = z /\ ~NeedsExpand(z, TRUE)
    <3>1. CASE dictIsRehashing(z)
      BY <1>2, <2>1, <3>1
    <3>2. CASE ~dictIsRehashing(z)
      <4>1. z.ht1 = NewHt(0)
        BY <1>1, <3>2 DEF WellFormed, Shape
      <4>2. dictSize(z) = z.ht0.used
        BY <1>5, <4>1 DEF dictSize, NewHt
      <4>3. z.ht0.used < z.ht0.size
        BY <1>5, <2>1, <3>2 DEF NeedsExpand
      <4> QED
        BY <1>5, <2>1, <3>2, <4>2, <4>3 DEF Loaded
    <3> QED
      BY <3>1, <3>2
  <2>2. CASE /\ ~dictIsRehashing(z) /\ z.ht0.size = 0
             /\ ~dictIsRehashing(p) /\ p.ht0.size > 0 /\ p.ht0.size \in Nat
    BY <1>2, <1>5, <2>2 DEF Loaded
  <2>3. CASE /\ ~dictIsRehashing(z) /\ z.ht0.size > 0
             /\ dictIsRehashing(p) /\ p.rehashidx = 0
             /\ p.ht0.size = z.ht0.size /\ p.ht1.size >= 2 * z.ht0.size
    BY <1>2, <1>5, <2>3 DEF Loaded
  <2> QED
    BY <1>6, <2>1, <2>2, <2>3
<1> QED
  BY <1>3, <1>7

LEMMA UpdateLoaded ==
    ASSUME NEW x, WellFormed(x), x.iterators = 0, Loaded(x, 0),
           NEW k \in Keys, NEW v \in Vals,
           NEW y, y = dictAdd(x, k, v, TRUE) \/ y = dictReplace(x, k, v, TRUE)
    PROVE  Loaded(y, 0)
<1> DEFINE p == Prepared(x, TRUE)
           n == [key |-> k, val |-> v]
           M == {e \in Contents(x) : e.key = k}
<1>1. TRUE \in BOOLEAN
  OBVIOUS
<1>2. WellFormed(p) /\ Contents(p) = Contents(x) /\ Loaded(p, 1)
  BY <1>1, PreparedCorrect, PreparedHasRoom
<1>3. SameShape(p, y)
  BY UpdatesKeepShape
<1>4. /\ WellFormed(y)
      /\ \/ Contents(y) = Contents(x)
         \/ Contents(y) = Contents(x) \cup {n}
         \/ Contents(y) = (Contents(x) \ M) \cup {n}
  <2>1. CASE y = dictAdd(x, k, v, TRUE)
    <3>1. /\ WellFormed(dictAdd(x, k, v, TRUE))
          /\ Contents(dictAdd(x, k, v, TRUE)) =
               IF M = {} THEN Contents(x) \cup {n} ELSE Contents(x)
      BY <1>1, AddCorrect
    <3> HIDE DEF n, M
    <3> QED
      BY <2>1, <3>1
  <2>2. CASE y = dictReplace(x, k, v, TRUE)
    <3>1. /\ WellFormed(dictReplace(x, k, v, TRUE))
          /\ Contents(dictReplace(x, k, v, TRUE)) = (Contents(x) \ M) \cup {n}
      BY <1>1, ReplaceCorrect, ZenonT(30)
    <3> HIDE DEF n, M
    <3> QED
      BY <2>2, <3>1
  <2> QED
    BY <2>1, <2>2
<1> HIDE DEF p, M, n
<1>5. Cardinality(Contents(y)) <= Cardinality(Contents(x)) + 1
  <2>1. IsFiniteSet(Contents(x)) /\ Cardinality(Contents(x)) \in Nat
    BY SizeIsCardinality
  <2>2. CASE Contents(y) = Contents(x)
    BY <2>1, <2>2
  <2>3. ASSUME NEW S \in SUBSET Contents(x), Contents(y) = S \cup {n}
        PROVE  Cardinality(Contents(y)) <= Cardinality(Contents(x)) + 1
    <3>1. IsFiniteSet(S) /\ Cardinality(S) <= Cardinality(Contents(x)) /\ Cardinality(S) \in Nat
      BY <2>1, FS_Subset, FS_CardinalityType
    <3>2. Cardinality(S \cup {n}) = Cardinality(S) \/ Cardinality(S \cup {n}) = Cardinality(S) + 1
      BY <3>1, FS_AddElement
    <3> QED
      BY <2>1, <2>3, <3>1, <3>2
  <2>4. Contents(x) \in SUBSET Contents(x) /\ Contents(x) \ M \in SUBSET Contents(x)
    OBVIOUS
  <2> QED
    BY <1>4, <2>2, <2>3, <2>4
<1>6. dictSize(y) + 0 <= dictSize(p) + 1
  BY <1>2, <1>4, <1>5, SizeIsCardinality
<1>7. 0 \in Nat /\ 1 \in Nat
  OBVIOUS
<1> QED
  BY <1>2, <1>3, <1>4, <1>6, <1>7, SameShapeLoaded

(* Lookups and deletions. *)
LEMMA LookupLoaded ==
    ASSUME NEW x, WellFormed(x), Loaded(x, 0), NEW k \in Keys
    PROVE  Loaded(AfterFind(x), 0) /\ Loaded(dictDelete(x, k), 0)
<1> DEFINE f == AfterFind(x)
           y == dictDelete(x, k)
<1>1. Loaded(f, 0)
  <2>1. 1 \in Nat \ {0}
    OBVIOUS
  <2> QED
    BY <2>1, StepMakesRoom DEF AfterFind, RehashStep
<1>2. WellFormed(f) /\ Contents(f) = Contents(x)
  BY FindCorrect
<1>3. WellFormed(y) /\ Contents(y) \subseteq Contents(x)
  BY DeleteCorrect
<1>4. SameShape(f, y)
  BY UpdatesKeepShape
<1> HIDE DEF f, y
<1>5. dictSize(y) + 0 <= dictSize(f) + 0 /\ 0 \in Nat
  <2>1. /\ IsFiniteSet(Contents(x)) /\ dictSize(f) = Cardinality(Contents(x))
        /\ dictSize(y) = Cardinality(Contents(y))
        /\ dictSize(y) \in Nat /\ dictSize(f) \in Nat
    BY <1>2, <1>3, SizeIsCardinality
  <2>2. Cardinality(Contents(y)) <= Cardinality(Contents(x))
    BY <1>3, <2>1, FS_Subset
  <2> QED
    BY <2>1, <2>2
<1>6. Loaded(y, 0)
  BY <1>1, <1>2, <1>3, <1>4, <1>5, SameShapeLoaded
<1> QED
  BY <1>1, <1>6 DEF f, y

(* The calls that resize a table by hand, switch resizing off or suspend     *)
(* rehashing: the server makes none of them.                                 *)
ManualCalls == {"resize", "expand", "toggle", "iterator"}

LoadInv ==
    /\ DictInv
    /\ dict_can_resize = TRUE
    /\ d.iterators = 0
    /\ Loaded(d, 0)

LEMMA StepLoaded ==
    ASSUME Ops \cap ManualCalls = {}, LoadInv, Next
    PROVE  LoadInv'
<1>1. /\ WellFormed(d) /\ dict_can_resize = TRUE /\ d.iterators = 0 /\ Loaded(d, 0)
      /\ TRUE \in BOOLEAN
  BY DEF LoadInv, DictInv
<1>2. DictInv'
  BY StepCorrect DEF LoadInv
<1>3. "resize" \notin Ops /\ "expand" \notin Ops /\ "toggle" \notin Ops /\ "iterator" \notin Ops
  BY DEF ManualCalls
<1>4. SUFFICES dict_can_resize' = TRUE /\ d'.iterators = 0 /\ Loaded(d', 0)
  BY <1>2 DEF LoadInv, Loaded, dictIsRehashing, dictSize
<1>5. ASSUME NEW k \in Keys, NEW v \in Vals, DictAdd(k, v) \/ DictReplace(k, v)
      PROVE  dict_can_resize' = TRUE /\ d'.iterators = 0 /\ Loaded(d', 0)
  <2>1. /\ dict_can_resize' = TRUE
        /\ d' = dictAdd(d, k, v, TRUE) \/ d' = dictReplace(d, k, v, TRUE)
    BY <1>1, <1>5 DEF DictAdd, DictReplace
  <2>2. d'.iterators = 0
    <3>1. dictAdd(d, k, v, TRUE).iterators = d.iterators
      BY <1>1, AddCorrect
    <3>2. dictReplace(d, k, v, TRUE).iterators = d.iterators
      BY <1>1, ReplaceCorrect
    <3> QED
      BY <1>1, <2>1, <3>1, <3>2
  <2>3. Loaded(d', 0)
    BY <1>1, <2>1, UpdateLoaded
  <2> QED
    BY <2>1, <2>2, <2>3
<1>6. ASSUME NEW k \in Keys, DictDelete(k) \/ DictFetchValue(k)
      PROVE  dict_can_resize' = TRUE /\ d'.iterators = 0 /\ Loaded(d', 0)
  <2>1. /\ dict_can_resize' = TRUE
        /\ d' = dictDelete(d, k) \/ d' = AfterFind(d)
    BY <1>1, <1>6 DEF DictDelete, DictFetchValue
  <2>2. dictDelete(d, k).iterators = 0 /\ AfterFind(d).iterators = 0
    BY <1>1, DeleteCorrect, FindCorrect
  <2>3. Loaded(AfterFind(d), 0) /\ Loaded(dictDelete(d, k), 0)
    BY <1>1, LookupLoaded
  <2> QED
    BY <2>1, <2>2, <2>3
<1>7. ASSUME NEW n \in RehashArgs, DictRehash(n)
      PROVE  dict_can_resize' = TRUE /\ d'.iterators = 0 /\ Loaded(d', 0)
  <2>1. d' = dictRehash(d, n) /\ n \in Nat \ {0} /\ dict_can_resize' = TRUE
    BY <1>1, <1>7, CallsAssumption DEF DictRehash
  <2> QED
    BY <1>1, <2>1, RehashPreserves, StepMakesRoom
<1>8. CASE DictEmpty
  <2>1. d' = dictCreate /\ dict_can_resize' = TRUE
    BY <1>1, <1>8 DEF DictEmpty, dictEmpty, dictCreate
  <2> QED
    BY <2>1 DEF dictCreate, NewHt, Loaded, dictIsRehashing, dictSize
<1> QED
  BY <1>3, <1>5, <1>6, <1>7, <1>8 DEF Next, DictResize, DictExpand, DictToggleResize,
     SafeIteratorBegin, SafeIteratorRelease

(* dict.c:128: a caller that adds, replaces, deletes, looks up and rehashes  *)
(* in any order, for any keys and any hash function, never loads the newest  *)
(* table beyond one entry per bucket: a rehash ends before the table it      *)
(* fills is full.                                                            *)
THEOREM LoadBounded ==
    ASSUME Ops \cap ManualCalls = {}
    PROVE  Spec => []LoadFactor
<1>1. Init => LoadInv
  <2> SUFFICES ASSUME Init PROVE LoadInv
    OBVIOUS
  <2>1. Loaded(d, 0) /\ d.iterators = 0 /\ dict_can_resize = TRUE
    BY DEF Init, dictCreate, NewHt, Loaded, dictIsRehashing, dictSize
  <2> QED
    BY <2>1, InitInv DEF LoadInv
<1>2. LoadInv /\ [Next]_vars => LoadInv'
  <2>1. ASSUME LoadInv, Next PROVE LoadInv'
    BY <2>1, StepLoaded
  <2>2. ASSUME LoadInv, UNCHANGED vars PROVE LoadInv'
    BY <2>2 DEF vars, LoadInv, DictInv, TypeOK
  <2> QED
    BY <2>1, <2>2
<1>3. ASSUME LoadInv PROVE LoadFactor
  <2>1. WellFormed(d) /\ Loaded(d, 0)
    BY <1>3 DEF LoadInv, DictInv
  <2>2. dictSize(d) \in Nat /\ d.ht0.size \in Nat /\ d.ht1.size \in Nat
    BY <2>1, SizeIsCardinality, WellFormedFields
  <2>3. CASE dictIsRehashing(d)
    <3>1. d.rehashidx \in Nat /\ d.rehashidx < d.ht0.size
      BY <2>1, <2>3, RehashingFields
    <3> QED
      BY <2>1, <2>2, <2>3, <3>1 DEF Loaded, LoadFactor
  <2>4. CASE ~dictIsRehashing(d)
    BY <2>1, <2>2, <2>4 DEF Loaded, LoadFactor
  <2> QED
    BY <2>3, <2>4
<1> QED
  BY <1>1, <1>2, <1>3, PTL DEF Spec

-----------------------------------------------------------------------------
(* The closed forms.  Bucket by bucket, the loops of dictRehash are at a    *)
(* bucket e of ht0 with the buckets before e moved: the full ones are       *)
(* counted against n, the empty ones against empty_visits.                  *)

Full(x, e) == {b \in x.rehashidx .. e - 1 : x.ht0.table[b] # {}}
Bare(x, e) == {b \in x.rehashidx .. e - 1 : x.ht0.table[b] = {}}

LEMMA VisitedFinite ==
    ASSUME NEW x, WellFormed(x), dictIsRehashing(x), NEW e \in x.rehashidx .. x.ht0.size
    PROVE  /\ IsFiniteSet(Visited(x, e)) /\ Cardinality(Visited(x, e)) \in Nat
           /\ Visited(x, e) \subseteq Entries(x.ht0)
           /\ IsFiniteSet(Full(x, e)) /\ Cardinality(Full(x, e)) \in Nat
           /\ IsFiniteSet(Bare(x, e)) /\ Cardinality(Bare(x, e)) \in Nat
<1>0. x.rehashidx \in Nat
  BY RehashingFields
<1>1. /\ x.rehashidx \in Nat /\ x.ht0.size \in Nat /\ e \in Nat
      /\ DOMAIN x.ht0.table = 0 .. x.ht0.size - 1 /\ IsFiniteSet(Entries(x.ht0))
  <2>1. IsHt(x.ht0) /\ HtUsed(x.ht0) /\ x.ht0.size \in Nat
    BY WellFormedFields
  <2>2. DOMAIN x.ht0.table = 0 .. x.ht0.size - 1
    BY <2>1 DEF IsHt
  <2> QED
    BY <1>0, <2>1, <2>2 DEF HtUsed
<1>2. Visited(x, e) \subseteq Entries(x.ht0)
  BY <1>1 DEF Visited, EntriesIn, Entries
<1>3. IsFiniteSet(Visited(x, e))
  BY <1>1, <1>2, FS_Subset
<1> DEFINE B == x.rehashidx .. e - 1
<1>4. IsFiniteSet(B)
  <2>1. x.rehashidx \in Int /\ e - 1 \in Int
    BY <1>1
  <2> QED
    BY <2>1, FS_Interval
<1>5. Full(x, e) \subseteq B /\ Bare(x, e) \subseteq B
  BY DEF Full, Bare
<1> HIDE DEF B
<1>6. IsFiniteSet(Full(x, e)) /\ IsFiniteSet(Bare(x, e))
  BY <1>4, <1>5, FS_Subset
<1> QED
  BY <1>2, <1>3, <1>6, FS_CardinalityType

LEMMA MoveNothing ==
    ASSUME NEW x, WellFormed(x), dictIsRehashing(x)
    PROVE  /\ MoveBuckets(x, x.rehashidx) = x
           /\ Full(x, x.rehashidx) = {} /\ Bare(x, x.rehashidx) = {}
           /\ Visited(x, x.rehashidx) = {}
<1> DEFINE i == x.rehashidx
           B == i .. i - 1
<1>1. i \in Nat /\ B = {}
  BY RehashingFields
<1>2. Full(x, i) = {} /\ Bare(x, i) = {} /\ Visited(x, i) = {}
  BY <1>1 DEF Full, Bare, Visited, EntriesIn
<1>3. /\ x.ht0 = [table |-> x.ht0.table, size |-> x.ht0.size, used |-> x.ht0.used]
      /\ x.ht0.table \in [0 .. x.ht0.size - 1 -> SUBSET Entry] /\ x.ht0.used \in Nat
      /\ x.ht1 = [table |-> x.ht1.table, size |-> x.ht1.size, used |-> x.ht1.used]
      /\ x.ht1.table \in [0 .. x.ht1.size - 1 -> SUBSET Entry] /\ x.ht1.used \in Nat
      /\ x = [ht0 |-> x.ht0, ht1 |-> x.ht1, rehashidx |-> i, iterators |-> x.iterators]
  BY WellFormedFields DEF IsHt, IsDict
<1>4. EntriesIn(x.ht0, B) = {} /\ Cardinality({}) = 0
  BY <1>1, FS_EmptySet DEF EntriesIn
<1>5. TakeBuckets(x.ht0, B) = x.ht0
  <2>1. [b \in 0 .. x.ht0.size - 1 |-> IF b \in B THEN {} ELSE x.ht0.table[b]] = x.ht0.table
    BY <1>1, <1>3
  <2>2. x.ht0.used - Cardinality(EntriesIn(x.ht0, B)) = x.ht0.used
    <3>1. Cardinality(EntriesIn(x.ht0, B)) = 0
      BY <1>4, Zenon
    <3> QED
      BY <1>3, <3>1
  <2>3. TakeBuckets(x.ht0, B) = [table |-> x.ht0.table, size |-> x.ht0.size, used |-> x.ht0.used]
    BY <2>1, <2>2, Zenon DEF TakeBuckets
  <2> QED
    BY <1>3, <2>3, Zenon
<1>6. LinkAll(x.ht1, {}) = x.ht1
  <2>1. [b \in 0 .. x.ht1.size - 1 |-> x.ht1.table[b] \cup {e \in {} : Bucket(x.ht1, e.key) = b}]
           = x.ht1.table
    BY <1>3
  <2>2. x.ht1.used + Cardinality({}) = x.ht1.used
    BY <1>3, <1>4
  <2>3. LinkAll(x.ht1, {}) = [table |-> x.ht1.table, size |-> x.ht1.size, used |-> x.ht1.used]
    BY <2>1, <2>2, Zenon DEF LinkAll
  <2> QED
    BY <1>3, <2>3, Zenon
<1>7. MoveBuckets(x, i) = x
  BY <1>2, <1>3, <1>5, <1>6, Zenon DEF MoveBuckets, WithTables
<1> QED
  BY <1>2, <1>7

(* The next bucket. *)
LEMMA OneBucketMore ==
    ASSUME NEW x, WellFormed(x), dictIsRehashing(x), NEW e \in x.rehashidx .. x.ht0.size - 1,
           NEW c, c = x.ht0.table[e]
    PROVE  /\ Visited(x, e + 1) = Visited(x, e) \cup c
           /\ Visited(x, e) \cap c = {}
           /\ IsFiniteSet(c) /\ Cardinality(c) \in Nat /\ c \subseteq Entry
           /\ Cardinality(Visited(x, e + 1)) = Cardinality(Visited(x, e)) + Cardinality(c)
           /\ e \in x.rehashidx .. x.ht0.size /\ e + 1 \in x.rehashidx .. x.ht0.size
           /\ e \in 0 .. x.ht0.size - 1 /\ e \in Nat
<1>1. /\ x.rehashidx \in Nat /\ x.ht0.size \in Nat
      /\ x.ht0.table \in [0 .. x.ht0.size - 1 -> SUBSET Entry] /\ HtPlaced(x.ht0)
      /\ IsFiniteSet(Entries(x.ht0))
  BY WellFormedFields, RehashingFields DEF IsHt, HtUsed
<1>2. /\ e \in x.rehashidx .. x.ht0.size /\ e + 1 \in x.rehashidx .. x.ht0.size
      /\ e \in 0 .. x.ht0.size - 1 /\ e \in Nat
      /\ x.rehashidx .. (e + 1) - 1 = (x.rehashidx .. e - 1) \cup {e}
  BY <1>1
<1>3. Visited(x, e + 1) = Visited(x, e) \cup c
  BY <1>2 DEF Visited, EntriesIn
<1>4. c \subseteq Entries(x.ht0) /\ c \subseteq Entry
  BY <1>1, <1>2 DEF Entries
<1>5. IsFiniteSet(c) /\ Cardinality(c) \in Nat
  BY <1>1, <1>4, FS_Subset, FS_CardinalityType
<1>6. Visited(x, e) \cap c = {}
  <2>1. ASSUME NEW f \in Visited(x, e), f \in c PROVE FALSE
    <3>1. PICK b \in x.rehashidx .. e - 1 : f \in x.ht0.table[b]
      BY <2>1 DEF Visited, EntriesIn
    <3>2. b \in 0 .. x.ht0.size - 1 /\ b # e
      BY <1>1, <3>1
    <3>3. Bucket(x.ht0, f.key) = b /\ Bucket(x.ht0, f.key) = e
      BY <1>1, <1>2, <2>1, <3>1, <3>2 DEF HtPlaced
    <3> QED
      BY <3>2, <3>3
  <2> QED
    BY <2>1
<1>7. Cardinality(Visited(x, e + 1)) = Cardinality(Visited(x, e)) + Cardinality(c)
  <2> DEFINE V == Visited(x, e)
  <2>1. IsFiniteSet(V) /\ Cardinality(V) \in Nat
    BY <1>2, VisitedFinite
  <2> HIDE DEF V
  <2>2. Cardinality(V \cup c) = Cardinality(V) + Cardinality(c) - Cardinality(V \cap c)
    BY <1>5, <2>1, FS_Union
  <2>3. Cardinality(V \cap c) = 0
    BY <1>6, FS_EmptySet DEF V
  <2>4. Cardinality(Visited(x, e + 1)) = Cardinality(V \cup c)
    BY <1>3, Zenon DEF V
  <2> DEFINE a == Cardinality(V)
             k == Cardinality(c)
             u == Cardinality(V \cup c)
  <2>5. a \in Nat /\ k \in Nat /\ u = a + k - 0
    BY <1>5, <2>1, <2>2, <2>3, Zenon
  <2> HIDE DEF a, k, u
  <2>6. u = a + k
    BY <2>5
  <2> QED
    BY <2>4, <2>6, Zenon DEF a, k, u, V
<1> QED
  BY <1>2, <1>3, <1>4, <1>5, <1>6, <1>7

LEMMA TakeOneMore ==
    ASSUME NEW x, WellFormed(x), dictIsRehashing(x), NEW e \in x.rehashidx .. x.ht0.size - 1,
           NEW c, c = x.ht0.table[e]
    PROVE  LET y == MoveBuckets(x, e)
           IN  /\ y.rehashidx = e /\ y.ht0.table[e] = c
               /\ y.ht0.used = x.ht0.used - Cardinality(Visited(x, e))
               /\ WithChain(y.ht0, e, {}, -Cardinality(c)) = MoveBuckets(x, e + 1).ht0
               /\ c = {} => y.ht0 = MoveBuckets(x, e + 1).ht0
<1> DEFINE i == x.rehashidx
           h == x.ht0
           y == MoveBuckets(x, e)
           h0 == TakeBuckets(h, i .. e - 1)
           h2 == TakeBuckets(h, i .. (e + 1) - 1)
           V == Visited(x, e)
           t == [b \in 0 .. h.size - 1 |-> IF b \in i .. e - 1 THEN {} ELSE h.table[b]]
           u == [b \in 0 .. h.size - 1 |-> IF b \in i .. (e + 1) - 1 THEN {} ELSE h.table[b]]
<1>1. y.ht0 = h0 /\ y.rehashidx = e /\ MoveBuckets(x, e + 1).ht0 = h2
  BY DEF MoveBuckets, WithTables
<1>2. /\ e \in 0 .. h.size - 1 /\ e \in Nat /\ i \in Nat /\ h.size \in Nat /\ h.used \in Nat
      /\ h.table \in [0 .. h.size - 1 -> SUBSET Entry]
      /\ Cardinality(c) \in Nat /\ Cardinality(V) \in Nat
      /\ Cardinality(Visited(x, e + 1)) = Cardinality(V) + Cardinality(c)
  <2>1. /\ e \in 0 .. h.size - 1 /\ e \in Nat /\ e \in x.rehashidx .. x.ht0.size
        /\ Cardinality(c) \in Nat
        /\ Cardinality(Visited(x, e + 1)) = Cardinality(V) + Cardinality(c)
    BY OneBucketMore
  <2>2. Cardinality(V) \in Nat
    BY <2>1, VisitedFinite
  <2>3. i \in Nat
    BY RehashingFields
  <2>4. h.size \in Nat /\ h.used \in Nat /\ IsHt(h)
    BY WellFormedFields
  <2>5. h.table \in [0 .. h.size - 1 -> SUBSET Entry]
    BY <2>4 DEF IsHt
  <2> QED
    BY <2>1, <2>2, <2>3, <2>4, <2>5, Zenon
<1>3. /\ h0 = [table |-> t, size |-> h.size, used |-> h.used - Cardinality(V)]
      /\ h2 = [table |-> u, size |-> h.size, used |-> h.used - Cardinality(Visited(x, e + 1))]
  BY Zenon DEF TakeBuckets, Visited
<1>4. h.used - Cardinality(Visited(x, e + 1)) = (h.used - Cardinality(V)) + (-Cardinality(c))
  <2> DEFINE a == Cardinality(V)
             k == Cardinality(c)
             m == Cardinality(Visited(x, e + 1))
  <2>1. a \in Nat /\ k \in Nat /\ m = a + k /\ h.used \in Nat
    BY <1>2
  <2> HIDE DEF a, k, m
  <2>2. h.used - m = (h.used - a) + (-k)
    BY <2>1
  <2> QED
    BY <2>2 DEF a, k, m
<1>5. \A b \in 0 .. h.size - 1 : b \in i .. (e + 1) - 1 <=> b \in i .. e - 1 \/ b = e
  BY <1>2
<1>6. [t EXCEPT ![e] = {}] = u
  BY <1>2, <1>5
<1>7. t[e] = c
  BY <1>2
<1> HIDE DEF t, u, h0, h2, y
<1>8. /\ h0.table = t /\ h0.size = h.size /\ h0.used = h.used - Cardinality(V)
  BY <1>3
<1>9. WithChain(h0, e, {}, -Cardinality(c)) = h2
  BY <1>3, <1>4, <1>6, <1>8, Zenon DEF WithChain
<1>10. ASSUME c = {} PROVE h0 = h2
  <2>1. t = u
    BY <1>2, <1>5, <1>10 DEF t, u
  <2>2. h.used - Cardinality(Visited(x, e + 1)) = h.used - Cardinality(V)
    <3>1. Cardinality(c) = 0
      BY <1>10, FS_EmptySet
    <3>2. Cardinality(Visited(x, e + 1)) = Cardinality(V)
      BY <1>2, <3>1
    <3> QED
      BY <3>2
  <2> QED
    BY <1>3, <2>1, <2>2, Zenon
<1> QED
  BY <1>1, <1>7, <1>8, <1>9, <1>10 DEF y

LEMMA LinkOneMore ==
    ASSUME NEW x, WellFormed(x), dictIsRehashing(x), NEW e \in x.rehashidx .. x.ht0.size - 1,
           NEW c, c = x.ht0.table[e]
    PROVE  LET y == MoveBuckets(x, e)
           IN  /\ LinkAll(y.ht1, c) = MoveBuckets(x, e + 1).ht1
               /\ c = {} => y.ht1 = MoveBuckets(x, e + 1).ht1
<1> DEFINE h == x.ht1
           V == Visited(x, e)
           W == Visited(x, e + 1)
           h1 == LinkAll(h, V)
           h2 == LinkAll(h, W)
           t == [b \in 0 .. h.size - 1 |-> h.table[b] \cup {f \in V : Bucket(h, f.key) = b}]
           u == [b \in 0 .. h.size - 1 |-> h.table[b] \cup {f \in W : Bucket(h, f.key) = b}]
           y == MoveBuckets(x, e)
<1>1. y.ht1 = h1 /\ MoveBuckets(x, e + 1).ht1 = h2
  BY DEF MoveBuckets, WithTables
<1>2. /\ W = V \cup c /\ Cardinality(W) = Cardinality(V) + Cardinality(c)
      /\ Cardinality(V) \in Nat /\ Cardinality(c) \in Nat /\ h.used \in Nat
  <2>1. /\ W = V \cup c /\ Cardinality(W) = Cardinality(V) + Cardinality(c)
        /\ Cardinality(c) \in Nat /\ e \in x.rehashidx .. x.ht0.size
    BY OneBucketMore
  <2>2. Cardinality(V) \in Nat
    BY <2>1, VisitedFinite
  <2>3. h.used \in Nat
    BY WellFormedFields
  <2> QED
    BY <2>1, <2>2, <2>3, Zenon
<1>3. /\ h1 = [table |-> t, size |-> h.size, used |-> h.used + Cardinality(V)]
      /\ h2 = [table |-> u, size |-> h.size, used |-> h.used + Cardinality(W)]
  BY Zenon DEF LinkAll
<1> DEFINE v == [b \in 0 .. h1.size - 1 |-> h1.table[b] \cup {f \in c : Bucket(h1, f.key) = b}]
<1>4. LinkAll(h1, c) = [table |-> v, size |-> h1.size, used |-> h1.used + Cardinality(c)]
  BY Zenon DEF LinkAll
<1>5. \A b \in 0 .. h.size - 1 : t[b] = h.table[b] \cup {f \in V : Bucket(h, f.key) = b}
  OBVIOUS
<1> HIDE DEF h1, h2, t, V, W, y
<1>6. h1.table = t /\ h1.size = h.size /\ h1.used = h.used + Cardinality(V)
  BY <1>3
<1>7. \A k : Bucket(h1, k) = Bucket(h, k)
  BY <1>6 DEF Bucket
<1>8. v = u
  <2>1. ASSUME NEW b \in 0 .. h.size - 1
        PROVE  h1.table[b] \cup {f \in c : Bucket(h1, f.key) = b}
                 = h.table[b] \cup {f \in W : Bucket(h, f.key) = b}
    BY <1>2, <1>5, <1>6, <1>7
  <2> QED
    BY <1>6, <2>1
<1>9. h1.used + Cardinality(c) = h.used + Cardinality(W)
  BY <1>2, <1>6
<1>10. LinkAll(h1, c) = h2
  BY <1>3, <1>4, <1>6, <1>8, <1>9, Zenon
<1>11. ASSUME c = {} PROVE h1 = h2
  <2>1. V = W
    BY <1>2, <1>11
  <2> QED
    BY <2>1, Zenon DEF h1, h2
<1> QED
  BY <1>1, <1>10, <1>11 DEF y

(* A turn of the loop is a bucket. *)
BucketTurn(x, e) ==
    LET y == MoveBuckets(x, e)
    IN  /\ y.rehashidx = e /\ y.ht0.table[e] = x.ht0.table[e]
        /\ y.ht0.used = x.ht0.used - Cardinality(Visited(x, e))
        /\ MoveBucket(y) = MoveBuckets(x, e + 1)
        /\ x.ht0.table[e] = {} => WithTables(y, y.ht0, y.ht1, e + 1) = MoveBuckets(x, e + 1)

LEMMA TurnsMove ==
    ASSUME NEW x, WellFormed(x), dictIsRehashing(x), NEW e \in x.rehashidx .. x.ht0.size - 1
    PROVE  BucketTurn(x, e)
<1> DEFINE c == x.ht0.table[e]
           y == MoveBuckets(x, e)
           z == MoveBuckets(x, e + 1)
<1>1. /\ y.rehashidx = e /\ y.ht0.table[e] = c
      /\ y.ht0.used = x.ht0.used - Cardinality(Visited(x, e))
      /\ WithChain(y.ht0, e, {}, -Cardinality(c)) = z.ht0
      /\ c = {} => y.ht0 = z.ht0
  BY TakeOneMore
<1>2. LinkAll(y.ht1, c) = z.ht1 /\ (c = {} => y.ht1 = z.ht1)
  BY LinkOneMore
<1>3. /\ z = [ht0 |-> z.ht0, ht1 |-> z.ht1, rehashidx |-> e + 1, iterators |-> x.iterators]
      /\ y.iterators = x.iterators
  BY DEF MoveBuckets, WithTables
<1> HIDE DEF y, z, c
<1>4. MoveBucket(y) = z
  BY <1>1, <1>2, <1>3, Zenon DEF MoveBucket, WithTables
<1>5. c = {} => WithTables(y, y.ht0, y.ht1, e + 1) = z
  BY <1>1, <1>2, <1>3, Zenon DEF WithTables
<1> QED
  BY <1>1, <1>4, <1>5, Zenon DEF BucketTurn, y, z, c

(* One bucket more, full or empty. *)
LEMMA CountOneMore ==
    ASSUME NEW x, WellFormed(x), dictIsRehashing(x), NEW e \in x.rehashidx .. x.ht0.size - 1
    PROVE  /\ x.ht0.table[e] # {} =>
                 /\ Cardinality(Full(x, e + 1)) = Cardinality(Full(x, e)) + 1
                 /\ Bare(x, e + 1) = Bare(x, e)
           /\ x.ht0.table[e] = {} =>
                 /\ Full(x, e + 1) = Full(x, e)
                 /\ Cardinality(Bare(x, e + 1)) = Cardinality(Bare(x, e)) + 1
                 /\ Visited(x, e + 1) = Visited(x, e)
<1>1. /\ x.rehashidx \in Nat /\ e \in Nat /\ e \in x.rehashidx .. x.ht0.size
      /\ Visited(x, e + 1) = Visited(x, e) \cup x.ht0.table[e]
  BY OneBucketMore, RehashingFields
<1>2. /\ x.rehashidx .. (e + 1) - 1 = (x.rehashidx .. e - 1) \cup {e}
      /\ e \notin x.rehashidx .. e - 1
  BY <1>1
<1>3. IsFiniteSet(Full(x, e)) /\ IsFiniteSet(Bare(x, e))
  BY <1>1, VisitedFinite
<1>4. e \notin Full(x, e) /\ e \notin Bare(x, e)
  BY <1>2 DEF Full, Bare
<1>5. ASSUME x.ht0.table[e] # {}
      PROVE  /\ Cardinality(Full(x, e + 1)) = Cardinality(Full(x, e)) + 1
             /\ Bare(x, e + 1) = Bare(x, e)
  <2>1. Full(x, e + 1) = Full(x, e) \cup {e} /\ Bare(x, e + 1) = Bare(x, e)
    BY <1>2, <1>5 DEF Full, Bare
  <2>2. Cardinality(Full(x, e) \cup {e}) = Cardinality(Full(x, e)) + 1
    BY <1>3, <1>4, FS_AddElement
  <2> QED
    BY <2>1, <2>2
<1>6. ASSUME x.ht0.table[e] = {}
      PROVE  /\ Full(x, e + 1) = Full(x, e)
             /\ Cardinality(Bare(x, e + 1)) = Cardinality(Bare(x, e)) + 1
             /\ Visited(x, e + 1) = Visited(x, e)
  <2>1. Bare(x, e + 1) = Bare(x, e) \cup {e} /\ Full(x, e + 1) = Full(x, e)
    BY <1>2, <1>6 DEF Full, Bare
  <2>2. Cardinality(Bare(x, e) \cup {e}) = Cardinality(Bare(x, e)) + 1
    BY <1>3, <1>4, FS_AddElement
  <2> QED
    BY <1>1, <1>6, <2>1, <2>2
<1> QED
  BY <1>5, <1>6

(* The whole of ht0 visited. *)
LEMMA AllVisited ==
    ASSUME NEW x, WellFormed(x), dictIsRehashing(x)
    PROVE  x.ht0.used - Cardinality(Visited(x, x.ht0.size)) = 0
<1>1. /\ IsHt(x.ht0) /\ HtUsed(x.ht0) /\ x.ht0.size \in Nat /\ x.ht0.used \in Nat
  BY WellFormedFields
<1>2. /\ x.rehashidx \in Nat /\ x.rehashidx < x.ht0.size
      /\ \A b \in 0 .. x.rehashidx - 1 : x.ht0.table[b] = {}
  BY RehashingFields
<1>3. DOMAIN x.ht0.table = 0 .. x.ht0.size - 1
  BY <1>1 DEF IsHt
<1>4. Visited(x, x.ht0.size) \subseteq Entries(x.ht0)
  BY <1>1, <1>2, VisitedFinite
<1>5. ASSUME NEW f \in Entries(x.ht0) PROVE f \in Visited(x, x.ht0.size)
  <2>1. PICK b \in 0 .. x.ht0.size - 1 : f \in x.ht0.table[b]
    BY <1>3 DEF Entries
  <2>2. b \in x.rehashidx .. x.ht0.size - 1
    BY <1>1, <1>2, <2>1
  <2> QED
    BY <2>1, <2>2 DEF Visited, EntriesIn
<1>6. Visited(x, x.ht0.size) = Entries(x.ht0)
  BY <1>4, <1>5
<1>7. x.ht0.used = Cardinality(Visited(x, x.ht0.size))
  BY <1>1, <1>6 DEF HtUsed
<1> QED
  BY <1>1, <1>7

(* The state of the loop before bucket e, allowed m empty buckets. *)
Exhausted(x, m, e) ==
    e > x.rehashidx /\ x.ht0.table[e - 1] = {} /\ Cardinality(Bare(x, e)) = m

LoopState(x, n, m, e) ==
    [d |-> MoveBuckets(x, e), n |-> n - Cardinality(Full(x, e)),
     empty_visits |-> m - Cardinality(Bare(x, e)), returned |-> Exhausted(x, m, e)]

(* Where the closed form stops: at the first bucket with a reason to. *)
Stops(x, n, m, e) ==
    \/ Cardinality(Full(x, e)) = n
    \/ Cardinality(Bare(x, e)) = m
    \/ x.ht0.used - Cardinality(Visited(x, e)) = 0
    \/ e = x.ht0.size

StopsFirst(x, n, m, E) ==
    /\ E \in x.rehashidx .. x.ht0.size /\ Stops(x, n, m, E)
    /\ \A e \in x.rehashidx .. E - 1 : ~Stops(x, n, m, e)

LEMMA EndStopsFirst ==
    ASSUME NEW x, WellFormed(x), dictIsRehashing(x), NEW n \in Nat
    PROVE  StopsFirst(x, n, n * EmptyVisits, RehashEnd(x, n))
<1> DEFINE m == n * EmptyVisits
           S == {e \in x.rehashidx .. x.ht0.size : Stops(x, n, m, e)}
<1>1. x.rehashidx \in Nat /\ x.ht0.size \in Nat /\ x.rehashidx < x.ht0.size
  <2>1. x.ht0.size \in Nat
    BY WellFormedFields
  <2> QED
    BY <2>1, RehashingFields
<1>2. \A e : LoopStops(x, n, e) <=> Stops(x, n, m, e)
  BY Zenon DEF LoopStops, Stops, Full, Bare
<1>3. RehashEnd(x, n) = Min(S)
  <2>1. {e \in x.rehashidx .. x.ht0.size : LoopStops(x, n, e)} = S
    BY <1>2
  <2> QED
    BY <2>1, Zenon DEF RehashEnd
<1>4. x.ht0.size \in S
  BY <1>1 DEF Stops
<1>5. S \in SUBSET Nat
  BY <1>1
<1>6. Min(S) \in S /\ \A e \in S : Min(S) <= e
  <2> HIDE DEF S
  <2>1. \E z \in S : \A y \in S : z <= y
    BY <1>4, <1>5, Least
  <2> QED
    BY <2>1 DEF Min
<1> DEFINE E == Min(S)
<1>7. E \in x.rehashidx .. x.ht0.size /\ Stops(x, n, m, E)
  BY <1>6
<1>8. ASSUME NEW e \in x.rehashidx .. E - 1 PROVE ~Stops(x, n, m, e)
  <2>1. e \in x.rehashidx .. x.ht0.size /\ ~(E <= e)
    BY <1>1, <1>7
  <2> QED
    BY <1>6, <2>1
<1> HIDE DEF E
<1>9. StopsFirst(x, n, m, E)
  BY <1>7, <1>8 DEF StopsFirst
<1> QED
  BY <1>3, <1>9, Zenon DEF E

(* Before a bucket with no reason to stop, a turn is the state before the   *)
(* next bucket.                                                             *)
LEMMA TurnGoesOn ==
    ASSUME NEW x, WellFormed(x), dictIsRehashing(x), NEW n \in Nat, NEW m \in Nat,
           NEW e \in x.rehashidx .. x.ht0.size - 1, ~Stops(x, n, m, e)
    PROVE  RehashTurn(LoopState(x, n, m, e)) = LoopState(x, n, m, e + 1)
<1> DEFINE y == MoveBuckets(x, e)
           z == MoveBuckets(x, e + 1)
           c == x.ht0.table[e]
           f == Cardinality(Full(x, e))
           g == Cardinality(Full(x, e + 1))
           a == Cardinality(Bare(x, e))
           b == Cardinality(Bare(x, e + 1))
           r == Exhausted(x, m, e + 1)
           s == [d |-> y, n |-> n - f, empty_visits |-> m - a, returned |-> FALSE]
           t == [d |-> z, n |-> n - g, empty_visits |-> m - b, returned |-> r]
<1>1. /\ y.rehashidx = e /\ y.ht0.table[e] = c /\ y.ht0.used # 0
      /\ MoveBucket(y) = z
      /\ c = {} => WithTables(y, y.ht0, y.ht1, e + 1) = z
  <2>1. BucketTurn(x, e)
    BY TurnsMove
  <2>2. x.ht0.used - Cardinality(Visited(x, e)) # 0
    BY DEF Stops
  <2> QED
    BY <2>1, <2>2, Zenon DEF BucketTurn
<1>2. f # n /\ a # m
  BY DEF Stops
<1>3. /\ e \in x.rehashidx .. x.ht0.size /\ e + 1 \in x.rehashidx .. x.ht0.size
      /\ x.rehashidx \in Nat /\ e \in Nat
  BY OneBucketMore, RehashingFields
<1>4. f \in Nat /\ a \in Nat /\ g \in Nat /\ b \in Nat
  BY <1>3, VisitedFinite
<1>5. /\ c # {} => g = f + 1 /\ b = a
      /\ c = {} => g = f /\ b = a + 1
  BY CountOneMore
<1>6. r <=> c = {} /\ b = m
  <2>1. e + 1 > x.rehashidx /\ (e + 1) - 1 = e
    BY <1>3
  <2>2. x.ht0.table[(e + 1) - 1] = c
    BY <2>1
  <2> QED
    BY <2>1, <2>2, Zenon DEF Exhausted
<1>7. LoopState(x, n, m, e) = s
  <2>1. ~Exhausted(x, m, e)
    BY <1>2 DEF Exhausted
  <2>2. Exhausted(x, m, e) = FALSE
    BY <2>1 DEF Exhausted
  <2> QED
    BY <2>2, Zenon DEF LoopState
<1>8. LoopState(x, n, m, e + 1) = t
  BY Zenon DEF LoopState
<1>9. r \in BOOLEAN
  BY DEF Exhausted
<1> HIDE DEF y, z, c, f, g, a, b, r
<1>10. /\ n - f # 0
       /\ c # {} => (n - f) - 1 = n - g /\ m - a = m - b
       /\ c = {} => n - f = n - g /\ (m - a) - 1 = m - b /\ (m - a = 1 <=> b = m)
  BY <1>2, <1>4, <1>5
<1>11. CASE c # {}
  <2>1. RehashTurn(s) = [d |-> z, n |-> (n - f) - 1, empty_visits |-> m - a, returned |-> FALSE]
    BY <1>1, <1>10, <1>11, Zenon DEF RehashTurn
  <2>2. r = FALSE
    BY <1>6, <1>9, <1>11
  <2>3. n - g = (n - f) - 1 /\ m - b = m - a
    BY <1>10, <1>11
  <2> QED
    BY <1>7, <1>8, <2>1, <2>2, <2>3, Zenon
<1>12. CASE c = {}
  <2>1. RehashTurn(s) = [d |-> WithTables(y, y.ht0, y.ht1, y.rehashidx + 1), n |-> n - f,
                         empty_visits |-> (m - a) - 1, returned |-> m - a = 1]
    BY <1>1, <1>10, <1>12, Zenon DEF RehashTurn
  <2>2. WithTables(y, y.ht0, y.ht1, y.rehashidx + 1) = z
    BY <1>1, <1>12, Zenon
  <2>3. r = (m - a = 1)
    BY <1>6, <1>9, <1>10, <1>12
  <2>4. n - g = n - f /\ m - b = (m - a) - 1
    BY <1>10, <1>12
  <2> QED
    BY <1>7, <1>8, <2>1, <2>2, <2>3, <2>4, Zenon
<1> QED
  BY <1>11, <1>12

(* Before the first bucket with one, the loop has returned or does so in    *)
(* its next turn, with what the closed form computes.                       *)
Returned(s, r) == s.returned /\ s.d = r

LEMMA TurnReturns ==
    ASSUME NEW x, WellFormed(x), dictIsRehashing(x), NEW n \in Nat \ {0}, NEW m \in Nat \ {0},
           NEW E, StopsFirst(x, n, m, E)
    PROVE  Returned(RehashTurn(LoopState(x, n, m, E)), FinishRehash(MoveBuckets(x, E)))
<1> DEFINE y == MoveBuckets(x, E)
           f == Cardinality(Full(x, E))
           a == Cardinality(Bare(x, E))
           w == Cardinality(Visited(x, E))
           s == LoopState(x, n, m, E)
<1>1. x.rehashidx \in Nat /\ x.ht0.size \in Nat /\ x.ht0.used \in Nat
  <2>1. x.ht0.size \in Nat /\ x.ht0.used \in Nat
    BY WellFormedFields
  <2> QED
    BY <2>1, RehashingFields
<1>2. /\ E \in x.rehashidx .. x.ht0.size /\ Stops(x, n, m, E)
      /\ \A e \in x.rehashidx .. E - 1 : ~Stops(x, n, m, e)
  BY DEF StopsFirst
<1>3. y.ht0.used = x.ht0.used - w
  BY Zenon DEF MoveBuckets, WithTables, TakeBuckets, Visited
<1>4. s.d = y /\ s.n = n - f /\ s.returned = Exhausted(x, m, E)
  BY Zenon DEF LoopState
<1>5. CASE Exhausted(x, m, E)
  <2> DEFINE e == E - 1
  <2>1. e \in x.rehashidx .. x.ht0.size - 1 /\ e \in x.rehashidx .. E - 1 /\ e + 1 = E
    BY <1>1, <1>2, <1>5 DEF Exhausted
  <2>2. x.ht0.table[e] = {} /\ ~Stops(x, n, m, e)
    BY <1>2, <1>5, <2>1 DEF Exhausted
  <2> HIDE DEF e
  <2>3. Visited(x, e + 1) = Visited(x, e)
    BY <2>1, <2>2, CountOneMore
  <2>4. x.ht0.used - Cardinality(Visited(x, e)) # 0
    BY <2>2 DEF Stops
  <2>5. y.ht0.used # 0
    BY <1>3, <2>1, <2>3, <2>4, Zenon
  <2>6. FinishRehash(y) = y
    BY <2>5, Zenon DEF FinishRehash
  <2>7. s.returned
    BY <1>4, <1>5, Zenon
  <2>8. RehashTurn(s) = s
    BY <2>7, Zenon DEF RehashTurn
  <2> QED
    BY <1>4, <2>6, <2>7, <2>8, Zenon DEF Returned
<1>6. CASE ~Exhausted(x, m, E)
  <2>1. ~(s.returned)
    BY <1>4, <1>6, Zenon
  <2>2. n - f = 0 \/ x.ht0.used - w = 0
    <3>1. CASE f = n
      BY <3>1
    <3>2. CASE x.ht0.used - w = 0
      BY <3>2
    <3>3. CASE E = x.ht0.size
      <4>1. w = Cardinality(Visited(x, x.ht0.size))
        BY <3>3, Zenon
      <4> QED
        BY <4>1, AllVisited
    <3>4. CASE a = m
      <4>1. E # x.rehashidx
        <5>1. Bare(x, x.rehashidx) = {}
          BY MoveNothing
        <5>2. Cardinality(Bare(x, x.rehashidx)) = 0
          BY <5>1, FS_EmptySet
        <5> QED
          BY <3>4, <5>2
      <4> DEFINE e == E - 1
      <4>2. e \in x.rehashidx .. x.ht0.size - 1 /\ e \in x.rehashidx .. E - 1 /\ e + 1 = E
            /\ E > x.rehashidx
        BY <1>1, <1>2, <4>1
      <4>3. x.ht0.table[e] # {}
        BY <1>6, <3>4, <4>2 DEF Exhausted
      <4> HIDE DEF e
      <4>4. Bare(x, e + 1) = Bare(x, e)
        BY <4>2, <4>3, CountOneMore
      <4>5. Cardinality(Bare(x, e)) = m
        BY <3>4, <4>2, <4>4, Zenon
      <4> QED
        BY <1>2, <4>2, <4>5, Zenon DEF Stops
    <3> QED
      BY <1>2, <3>1, <3>2, <3>3, <3>4, Zenon DEF Stops
  <2>3. s.n = 0 \/ s.d.ht0.used = 0
    BY <1>3, <1>4, <2>2, Zenon
  <2>4. RehashTurn(s) = [s EXCEPT !.d = FinishRehash(s.d), !.returned = TRUE]
    BY <2>1, <2>3, Zenon DEF RehashTurn
  <2>5. s = [d |-> y, n |-> n - f, empty_visits |-> m - a, returned |-> Exhausted(x, m, E)]
    BY Zenon DEF LoopState
  <2>6. RehashTurn(s) = [d |-> FinishRehash(y), n |-> n - f, empty_visits |-> m - a,
                         returned |-> TRUE]
    <3> HIDE DEF s, y
    <3> QED
      BY <2>4, <2>5
  <2> QED
    BY <2>6 DEF Returned
<1> QED
  BY <1>5, <1>6

(* The loop turn by turn: the buckets up to the first with a reason to      *)
(* stop, and then what it returned with.                                    *)
LoopTurns(x, n, m, E) ==
    [k \in 0 .. x.ht0.size + 1 |->
       IF k <= E - x.rehashidx THEN LoopState(x, n, m, x.rehashidx + k)
       ELSE RehashTurn(LoopState(x, n, m, E))]

LEMMA TurnsFollow ==
    ASSUME NEW x, WellFormed(x), dictIsRehashing(x), NEW n \in Nat \ {0}, NEW m \in Nat \ {0},
           NEW E, StopsFirst(x, n, m, E),
           NEW f, f = LoopTurns(x, n, m, E),
           NEW top, top = x.ht0.size + 1
    PROVE  /\ f[0] = [d |-> x, n |-> n, empty_visits |-> m, returned |-> FALSE]
           /\ \A k \in 1 .. top : f[k] = RehashTurn(f[k - 1])
           /\ Returned(f[top], FinishRehash(MoveBuckets(x, E)))
           /\ DOMAIN f = 0 .. top /\ top \in Nat
<1> DEFINE i == x.rehashidx
<1>1. i \in Nat /\ x.ht0.size \in Nat
  <2>1. x.ht0.size \in Nat
    BY WellFormedFields
  <2> QED
    BY <2>1, RehashingFields
<1>2. /\ E \in i .. x.ht0.size /\ \A e \in i .. E - 1 : ~Stops(x, n, m, e)
  BY DEF StopsFirst
<1> DEFINE L(e) == LoopState(x, n, m, e)
           last == RehashTurn(L(E))
<1>3. /\ DOMAIN f = 0 .. top /\ top \in Nat
      /\ \A k \in 0 .. top : f[k] = IF k <= E - i THEN L(i + k) ELSE last
  BY <1>1 DEF LoopTurns
<1>4. L(i) = [d |-> x, n |-> n, empty_visits |-> m, returned |-> FALSE]
  <2>1. MoveBuckets(x, i) = x /\ Full(x, i) = {} /\ Bare(x, i) = {}
    BY MoveNothing
  <2>2. Cardinality(Full(x, i)) = 0 /\ Cardinality(Bare(x, i)) = 0
    BY <2>1, FS_EmptySet
  <2>3. n - Cardinality(Full(x, i)) = n /\ m - Cardinality(Bare(x, i)) = m
    BY <2>2
  <2>4. Exhausted(x, m, i) = FALSE
    <3>1. ~(i > i)
      BY <1>1
    <3> QED
      BY <3>1 DEF Exhausted
  <2> QED
    BY <2>1, <2>3, <2>4, Zenon DEF LoopState
<1>5. \A e \in i .. E - 1 : RehashTurn(L(e)) = L(e + 1)
  <2> SUFFICES ASSUME NEW e \in i .. E - 1 PROVE RehashTurn(L(e)) = L(e + 1)
    OBVIOUS
  <2>1. e \in i .. x.ht0.size - 1 /\ ~Stops(x, n, m, e) /\ n \in Nat /\ m \in Nat
    BY <1>1, <1>2
  <2> QED
    BY <2>1, TurnGoesOn
<1>6. Returned(last, FinishRehash(MoveBuckets(x, E)))
  BY TurnReturns
<1>7. RehashTurn(last) = last
  <2>1. last.returned
    BY <1>6 DEF Returned
  <2> HIDE DEF last
  <2> QED
    BY <2>1, Zenon DEF RehashTurn
<1> HIDE DEF L, last, i
<1>8. last = RehashTurn(L(E))
  BY DEF last
<1>9. f[0] = L(i)
  <2>1. 0 \in 0 .. top /\ 0 <= E - i /\ i + 0 = i
    BY <1>1, <1>2, <1>3 DEF i
  <2>2. f[0] = L(i + 0)
    BY <1>3, <2>1
  <2> QED
    BY <2>1, <2>2, Zenon
<1>10. ASSUME NEW k \in 1 .. top PROVE f[k] = RehashTurn(f[k - 1])
  <2>1. k - 1 \in 0 .. top /\ k \in 0 .. top /\ k \in Nat
    BY <1>3
  <2>2. CASE k <= E - i
    <3> DEFINE e == i + (k - 1)
    <3>1. k - 1 <= E - i /\ e \in i .. E - 1 /\ e + 1 = i + k
      BY <1>1, <1>2, <2>1, <2>2 DEF i
    <3>2. f[k] = L(i + k) /\ f[k - 1] = L(e)
      BY <1>3, <2>1, <2>2, <3>1
    <3>3. RehashTurn(L(e)) = L(e + 1)
      BY <1>5, <3>1
    <3> HIDE DEF e
    <3> QED
      BY <3>1, <3>2, <3>3, Zenon
  <2>3. CASE ~(k <= E - i) /\ k - 1 <= E - i
    <3>1. i + (k - 1) = E
      BY <1>1, <1>2, <2>1, <2>3 DEF i
    <3>2. f[k] = last /\ f[k - 1] = L(i + (k - 1))
      BY <1>3, <2>1, <2>3
    <3> QED
      BY <1>8, <3>1, <3>2, Zenon
  <2>4. CASE ~(k - 1 <= E - i)
    <3>1. ~(k <= E - i)
      BY <1>1, <1>2, <2>1, <2>4 DEF i
    <3>2. f[k] = last /\ f[k - 1] = last
      BY <1>3, <2>1, <2>4, <3>1
    <3> QED
      BY <1>7, <3>2
  <2> QED
    BY <2>2, <2>3, <2>4
<1>11. f[top] = last
  <2>1. top \in 0 .. top /\ ~(top <= E - i)
    BY <1>1, <1>2, <1>3 DEF i
  <2> QED
    BY <1>3, <2>1
<1> QED
  BY <1>3, <1>4, <1>6, <1>9, <1>10, <1>11, Zenon

(* The loop of dictRehash returns within its turns, with what the closed    *)
(* form computes.                                                           *)
LEMMA RehashLoopAgrees ==
    ASSUME NEW x, WellFormed(x), dictIsRehashing(x), NEW n \in Nat \ {0}
    PROVE  RehashLoop(x, n).returned /\ RehashLoop(x, n).d = dictRehash(x, n)
<1> DEFINE m == n * EmptyVisits
           E == RehashEnd(x, n)
           top == x.ht0.size + 1
           f == LoopTurns(x, n, m, E)
           start == [d |-> x, n |-> n, empty_visits |-> m, returned |-> FALSE]
           after[k \in 0 .. top] == IF k = 0 THEN start ELSE RehashTurn(after[k - 1])
<1>1. m \in Nat \ {0}
  <2>1. EmptyVisits \in Nat \ {0}
    BY DictAssumption
  <2> QED
    BY <2>1
<1>2. StopsFirst(x, n, m, E)
  BY EndStopsFirst
<1> HIDE DEF E
<1>3. RehashLoop(x, n) = after[top]
  BY Zenon DEF RehashLoop
<1>4. dictRehash(x, n) = FinishRehash(MoveBuckets(x, E))
  BY Zenon DEF dictRehash, E
<1> HIDE DEF m
<1>5. /\ f[0] = start
      /\ \A k \in 1 .. top : f[k] = RehashTurn(f[k - 1])
      /\ Returned(f[top], FinishRehash(MoveBuckets(x, E)))
      /\ DOMAIN f = 0 .. top /\ top \in Nat
  BY <1>1, <1>2, TurnsFollow
<1>6. f = [k \in 0 .. top |-> f[k]]
  BY <1>5 DEF LoopTurns
<1> DEFINE F(g) == [k \in 0 .. top |-> IF k = 0 THEN start ELSE RehashTurn(g[k - 1])]
<1> HIDE DEF f, start, top
<1>7. f = F(f)
  <2>1. ASSUME NEW k \in 0 .. top PROVE f[k] = IF k = 0 THEN start ELSE RehashTurn(f[k - 1])
    <3>1. CASE k = 0
      BY <1>5, <3>1
    <3>2. CASE k # 0
      <4>1. k \in 1 .. top
        BY <1>5, <3>2
      <4> QED
        BY <1>5, <3>2, <4>1
    <3> QED
      BY <3>1, <3>2
  <2> QED
    BY <1>6, <2>1
<1>8. after = F(after)
  <2>1. after = CHOOSE g : g = F(g)
    BY DEF after
  <2> HIDE DEF after, F
  <2> QED
    BY <1>7, <2>1, Zenon
<1> HIDE DEF after
<1>9. after[0] = start /\ \A k \in 1 .. top : after[k] = RehashTurn(after[k - 1])
  <2>1. \A k \in 0 .. top : after[k] = IF k = 0 THEN start ELSE RehashTurn(after[k - 1])
    <3>1. \A k \in 0 .. top : F(after)[k] = IF k = 0 THEN start ELSE RehashTurn(after[k - 1])
      OBVIOUS
    <3> HIDE DEF F
    <3> QED
      BY <1>8, <3>1, Zenon
  <2> QED
    BY <1>5, <2>1
<1>10. \A k \in 0 .. top : after[k] = f[k]
  <2> DEFINE S == {k \in 0 .. top : after[k] = f[k]}
  <2>1. 0 \in S
    BY <1>5, <1>9
  <2>2. ASSUME NEW k \in 1 .. top, k - 1 \in S PROVE k \in S
    BY <1>5, <1>9, <2>2
  <2> HIDE DEF S
  <2>3. \A k \in 0 .. top : k \in S
    BY <1>5, <2>1, <2>2, Climb
  <2> QED
    BY <2>3 DEF S
<1>11. after[top] = f[top]
  BY <1>5, <1>10
<1> QED
  BY <1>3, <1>4, <1>5, <1>11, Zenon DEF Returned

(* The loop of _dictNextPower: i is a size, no larger than any size that is *)
(* enough, and large enough itself or larger than the turns made.           *)
Doubled(n, k, i) ==
    /\ i \in Sizes
    /\ \A s \in Sizes : s >= n => i <= s
    /\ i >= n \/ i >= k + 1

LEMMA NextPowerAgrees ==
    ASSUME NEW n \in Nat
    PROVE  NextPower(n) = NextPowerLoop(n)
<1> DEFINE i[k \in 0 .. n] ==
             IF k = 0 THEN DICT_HT_INITIAL_SIZE
             ELSE IF i[k - 1] >= n THEN i[k - 1] ELSE 2 * i[k - 1]
           F(g) == [k \in 0 .. n |->
                      IF k = 0 THEN DICT_HT_INITIAL_SIZE
                      ELSE IF g[k - 1] >= n THEN g[k - 1] ELSE 2 * g[k - 1]]
           next == [k \in 1 .. n |-> [x \in Nat |-> IF x >= n THEN x ELSE 2 * x]]
<1>1. CASE n >= MaxSize - 1
  BY <1>1, Zenon DEF NextPower, NextPowerLoop
<1>2. CASE ~(n >= MaxSize - 1)
  <2>1. NextPowerLoop(n) = i[n] /\ NextPower(n) = Min({s \in Sizes : s >= n})
    BY <1>2, Zenon DEF NextPower, NextPowerLoop
  <2>2. \E f : Follows(f, Nat, DICT_HT_INITIAL_SIZE, n, next)
    <3>1. \A k \in 1 .. n : \A x \in Nat : next[k][x] \in Nat
      OBVIOUS
    <3>2. DICT_HT_INITIAL_SIZE \in Nat
      BY SizesPositive
    <3> HIDE DEF next
    <3>3. Closed(Nat, DICT_HT_INITIAL_SIZE, n, next)
      BY <3>1, <3>2 DEF Closed
    <3> QED
      BY <3>3, StepByStep
  <2>3. PICK f : Follows(f, Nat, DICT_HT_INITIAL_SIZE, n, next)
    BY <2>2
  <2>4. f = F(f)
    <3>1. f \in [0 .. n -> Nat] /\ f[0] = DICT_HT_INITIAL_SIZE
          /\ \A k \in 1 .. n : f[k] = next[k][f[k - 1]]
      BY <2>3 DEF Follows
    <3>2. ASSUME NEW k \in 1 .. n PROVE f[k] = IF f[k - 1] >= n THEN f[k - 1] ELSE 2 * f[k - 1]
      <4>1. k - 1 \in 0 .. n
        OBVIOUS
      <4>2. f[k - 1] \in Nat
        BY <3>1, <4>1
      <4> QED
        BY <3>1, <4>2
    <3>3. ASSUME NEW k \in 0 .. n
          PROVE  f[k] = IF k = 0 THEN DICT_HT_INITIAL_SIZE
                        ELSE IF f[k - 1] >= n THEN f[k - 1] ELSE 2 * f[k - 1]
      <4>1. CASE k = 0
        BY <3>1, <4>1
      <4>2. CASE k # 0
        <5>1. k \in 1 .. n
          BY <4>2
        <5> QED
          BY <3>2, <4>2, <5>1
      <4> QED
        BY <4>1, <4>2
    <3> QED
      BY <3>1, <3>3
  <2>5. i = F(i)
    <3>1. i = CHOOSE g : g = F(g)
      BY DEF i
    <3> HIDE DEF i, F
    <3> QED
      BY <2>4, <3>1, Zenon
  <2> HIDE DEF i
  <2>6. /\ i[0] = DICT_HT_INITIAL_SIZE
        /\ \A k \in 1 .. n : i[k] = IF i[k - 1] >= n THEN i[k - 1] ELSE 2 * i[k - 1]
    <3>1. \A k \in 0 .. n : F(i)[k] = IF k = 0 THEN DICT_HT_INITIAL_SIZE
                                      ELSE IF i[k - 1] >= n THEN i[k - 1] ELSE 2 * i[k - 1]
      OBVIOUS
    <3> HIDE DEF F
    <3>2. \A k \in 0 .. n : i[k] = IF k = 0 THEN DICT_HT_INITIAL_SIZE
                                   ELSE IF i[k - 1] >= n THEN i[k - 1] ELSE 2 * i[k - 1]
      BY <2>5, <3>1, Zenon
    <3> QED
      BY <3>2
  <2> DEFINE S == {k \in 0 .. n : Doubled(n, k, i[k])}
  <2>7. 0 \in S
    <3>1. i[0] \in Sizes /\ i[0] \in Nat /\ i[0] > 0
      BY <2>6, SizesPositive
    <3>2. \A s \in Sizes : i[0] <= s
      BY <2>6, DictAssumption
    <3> QED
      BY <3>1, <3>2 DEF Doubled
  <2>8. ASSUME NEW k \in 1 .. n, k - 1 \in S PROVE k \in S
    <3> DEFINE j == i[k - 1]
    <3>1. j \in Sizes /\ (\A s \in Sizes : s >= n => j <= s) /\ (j >= n \/ j >= (k - 1) + 1)
      BY <2>8 DEF Doubled
    <3>2. j \in Nat /\ j > 0 /\ k \in Nat /\ k > 0
      BY <3>1, SizesPositive
    <3>3. i[k] = IF j >= n THEN j ELSE 2 * j
      BY <2>6
    <3> HIDE DEF j
    <3>4. CASE j >= n
      BY <3>1, <3>2, <3>3, <3>4 DEF Doubled
    <3>5. CASE ~(j >= n)
      <4>1. MaxSize \in Nat /\ j < MaxSize
        BY <1>2, <3>2, <3>5, SizesPositive
      <4>2. 2 * j \in Sizes /\ \A s \in Sizes : j < s => 2 * j <= s
        BY <3>1, <4>1, DictAssumption
      <4>3. \A s \in Sizes : s >= n => 2 * j <= s
        BY <3>2, <3>5, <4>2, SizesPositive
      <4>4. 2 * j >= k + 1
        BY <3>1, <3>2, <3>5
      <4> QED
        BY <3>3, <3>5, <4>2, <4>3, <4>4 DEF Doubled
    <3> QED
      BY <3>4, <3>5
  <2>9. n \in S
    <3> HIDE DEF S
    <3>1. \A k \in 0 .. n : k \in S
      BY <2>7, <2>8, Climb
    <3> QED
      BY <3>1
  <2> DEFINE z == i[n]
             T == {s \in Sizes : s >= n}
  <2>10. z \in T /\ \A s \in T : z <= s
    <3>1. Doubled(n, n, z)
      BY <2>9
    <3>2. z \in Nat
      BY <3>1, SizesPositive DEF Doubled
    <3> HIDE DEF z
    <3> QED
      BY <3>1, <3>2 DEF Doubled
  <2>11. T \in SUBSET Nat
    BY SizesPositive
  <2> HIDE DEF z, T
  <2>12. Min(T) \in T /\ \A s \in T : Min(T) <= s
    BY <2>10 DEF Min
  <2>13. Min(T) = z
    <3> DEFINE y == Min(T)
    <3>1. y \in T /\ z \in T /\ y <= z /\ z <= y
      BY <2>10, <2>12
    <3> HIDE DEF y
    <3>2. y \in Nat /\ z \in Nat
      BY <2>11, <3>1
    <3>3. y = z
      BY <3>1, <3>2
    <3> QED
      BY <3>3 DEF y
  <2> QED
    BY <2>1, <2>13, Zenon DEF z, T
<1> QED
  BY <1>1, <1>2

(* dict.c:182, dict.c:938: at every dict a program of these calls reaches,   *)
(* and for every budget, the loops of dictRehash return before they run out  *)
(* of buckets and leave the dict the closed form computes; the loop of       *)
(* _dictNextPower returns the least size that is enough.                     *)
THEOREM LoopsAgree == Spec => []ClosedFormsAgree
<1>1. ASSUME DictInv PROVE ClosedFormsAgree
  <2>1. WellFormed(d)
    BY <1>1 DEF DictInv
  <2>2. ASSUME dictIsRehashing(d), NEW n \in RehashArgs
        PROVE  RehashLoop(d, n).returned /\ RehashLoop(d, n).d = dictRehash(d, n)
    <3>1. n \in Nat \ {0}
      BY CallsAssumption
    <3> QED
      BY <2>1, <2>2, <3>1, RehashLoopAgrees
  <2>3. \A n \in 0 .. MaxSize : NextPower(n) = NextPowerLoop(n)
    BY NextPowerAgrees
  <2> QED
    BY <2>2, <2>3, Zenon DEF ClosedFormsAgree
<1> QED
  BY <1>1, DictSafety, PTL
=============================================================================
