------------------------------ MODULE DictOps ------------------------------
(***************************************************************************)
(* The hash table of dict.c as operators on values.  A dict is a record    *)
(*                                                                         *)
(*    [ht0, ht1, rehashidx, iterators]                                     *)
(*                                                                         *)
(* and each operation of dict.c is a function from the dict it finds to    *)
(* the dict it leaves.  Dict turns the operations into actions; Keyspace   *)
(* builds the commands of the server on them.                              *)
(*                                                                         *)
(* A bucket is the SET of the entries on its chain: no operation modelled  *)
(* here lets a caller observe the order of a chain of distinct keys.       *)
(***************************************************************************)
EXTENDS Integers, FiniteSets, FiniteSetsExt

CONSTANTS
    Keys,                     \* the keys a caller may use
    Vals,                     \* the values
    Hash,                     \* dictHashKey: SipHash with the fixed zero seed
    Sizes,                    \* the powers of two a table can have
    DICT_HT_INITIAL_SIZE,     \* 4 in dict.h
    MaxSize,                  \* LONG_MAX + 1: the largest table
    dict_force_resize_ratio,  \* 5 in dict.c
    EmptyVisits               \* 10: empty buckets visited per rehash step

(* Sizes is DICT_HT_INITIAL_SIZE doubled any number of times up to MaxSize;  *)
(* the last conjunct says the keys never fill the address space.             *)
ASSUME DictAssumption ==
    /\ IsFiniteSet(Keys)
    /\ Hash \in [Keys -> Nat]
    /\ Sizes \subseteq Nat \ {0}
    /\ DICT_HT_INITIAL_SIZE \in Sizes
    /\ MaxSize \in Sizes
    /\ \A s \in Sizes : /\ DICT_HT_INITIAL_SIZE <= s
                        /\ s <= MaxSize
                        /\ s < MaxSize => 2 * s \in Sizes
                        /\ \A t \in Sizes : s < t => 2 * s <= t
    /\ 2 * Cardinality(Keys) < MaxSize - 1
    /\ dict_force_resize_ratio \in Nat
    /\ EmptyVisits \in Nat \ {0}

Entry == [key : Keys, val : Vals]

-----------------------------------------------------------------------------
(* Tables. *)

(* A table of n empty buckets; NewHt(0) is what _dictReset leaves. *)
NewHt(n) == [table |-> [b \in 0 .. n-1 |-> {}], size |-> n, used |-> 0]

(* The entries of the buckets of B, and of the whole table. *)
EntriesIn(ht, B) == UNION {ht.table[b] : b \in B}

Entries(ht) == UNION {ht.table[b] : b \in DOMAIN ht.table}

(* h & sizemask, for a size that is a power of two. *)
Bucket(ht, k) == Hash[k] % ht.size

(* The entries on k's chain whose key compares equal to k. *)
Match(ht, k) == {e \in ht.table[Bucket(ht, k)] : e.key = k}

(* ht with chain c in bucket i and its counter moved by n. *)
WithChain(ht, i, c, n) ==
    [table |-> [ht.table EXCEPT ![i] = c], size |-> ht.size, used |-> ht.used + n]

Link(ht, e) ==
    LET i == Bucket(ht, e.key) IN WithChain(ht, i, ht.table[i] \cup {e}, 1)

Unlink(ht, k) ==
    LET i == Bucket(ht, k) IN WithChain(ht, i, ht.table[i] \ Match(ht, k), -1)

(* Mutant of SetVal: an overwritten value counts as a new entry. *)
SetValCounted(ht, k, v) ==
    Link([Unlink(ht, k) EXCEPT !.used = @ + 1], [key |-> k, val |-> v])

SetVal(ht, k, v) ==
    LET i == Bucket(ht, k)
    IN WithChain(ht, i, (ht.table[i] \ Match(ht, k)) \cup
                        {[key |-> k, val |-> v]}, 0)

-----------------------------------------------------------------------------
(* The dict. *)

dictCreate ==
    [ht0 |-> NewHt(0), ht1 |-> NewHt(0), rehashidx |-> -1, iterators |-> 0]

(* d with its two tables and its rehash index replaced. *)
WithTables(d, h0, h1, idx) ==
    [ht0 |-> h0, ht1 |-> h1, rehashidx |-> idx, iterators |-> d.iterators]

WithHt0(d, h0) == WithTables(d, h0, d.ht1, d.rehashidx)
WithHt1(d, h1) == WithTables(d, d.ht0, h1, d.rehashidx)

dictIsRehashing(d) == d.rehashidx # -1

dictSize(d) == d.ht0.used + d.ht1.used

(* What a caller thinks the dict holds. *)
Contents(d) == Entries(d.ht0) \cup Entries(d.ht1)

(* Mutant of NextPower: the size asked for, not rounded up. *)
NextPowerUnrounded(n) ==
    IF n < DICT_HT_INITIAL_SIZE THEN DICT_HT_INITIAL_SIZE ELSE n

(* The smallest power of two, from DICT_HT_INITIAL_SIZE up, that is >= n.   *)
NextPower(n) ==
    IF n >= MaxSize - 1 THEN MaxSize ELSE Min({s \in Sizes : s >= n})

dictExpandErr(d, n) ==
    \/ dictIsRehashing(d)
    \/ d.ht0.used > n
    \/ NextPower(n) = d.ht0.size

dictExpand(d, n) ==
    IF dictExpandErr(d, n) THEN d
    ELSE IF d.ht0.size = 0 THEN WithHt0(d, NewHt(NextPower(n)))
    ELSE WithTables(d, d.ht0, NewHt(NextPower(n)), 0)

dictResizeErr(d, can) == ~can \/ dictIsRehashing(d)

(* The size dictResize asks for: the number of elements, at least 4.        *)
Minimal(d) ==
    IF d.ht0.used < DICT_HT_INITIAL_SIZE THEN DICT_HT_INITIAL_SIZE
    ELSE d.ht0.used

dictResize(d, can) ==
    IF dictResizeErr(d, can) THEN d ELSE dictExpand(d, Minimal(d))

-----------------------------------------------------------------------------
(* Incremental rehashing.                                                  *)
(*                                                                         *)
(* The loops of dictRehash(d, n) visit the buckets of ht0 from rehashidx   *)
(* up, move the full ones to ht1 and step over the empty ones.  They stop  *)
(* before bucket e when n full buckets have been moved, n * EmptyVisits    *)
(* empty ones have been met, or ht0.used has come down to 0.  A loop that  *)
(* met none of these before the end of the table would run off its end;    *)
(* the model stops it there and RehashInBounds (Dict) says it never does.  *)

Visited(d, e) == EntriesIn(d.ht0, d.rehashidx .. e-1)

(* Mutant of LoopStops: --n for n-- in the loop of dictRehash. *)
LoopStopsEarly(d, n, e) ==
    \/ Cardinality({b \in d.rehashidx .. e-1 : d.ht0.table[b] # {}}) = n - 1
    \/ e = d.ht0.size

LoopStops(d, n, e) ==
    LET full == {b \in d.rehashidx .. e-1 : d.ht0.table[b] # {}}
        empty == {b \in d.rehashidx .. e-1 : d.ht0.table[b] = {}}
    IN  \/ Cardinality(full) = n
        \/ Cardinality(empty) = n * EmptyVisits
        \/ d.ht0.used - Cardinality(Visited(d, e)) = 0
        \/ e = d.ht0.size

RehashEnd(d, n) ==
    Min({e \in d.rehashidx .. d.ht0.size : LoopStops(d, n, e)})

(* ht without the entries of the buckets of B. *)
TakeBuckets(ht, B) ==
    [table |-> [b \in 0 .. ht.size - 1 |-> IF b \in B THEN {} ELSE ht.table[b]],
     size |-> ht.size,
     used |-> ht.used - Cardinality(EntriesIn(ht, B))]

(* Mutant of LinkAll: every table indexed with the mask of the first. *)
LinkAllOldMask(ht, S) ==
    [table |-> [b \in 0 .. ht.size - 1 |->
                  ht.table[b] \cup
                  {e \in S : Hash[e.key] % DICT_HT_INITIAL_SIZE = b}],
     size |-> ht.size,
     used |-> ht.used + Cardinality(S)]

(* ht with the entries of S, each linked into the bucket of its hash. *)
LinkAll(ht, S) ==
    [table |-> [b \in 0 .. ht.size - 1 |->
                  ht.table[b] \cup {e \in S : Bucket(ht, e.key) = b}],
     size |-> ht.size,
     used |-> ht.used + Cardinality(S)]

(* Mutant of MoveBuckets: rehashidx is not stored. *)
MoveBucketsInPlace(d, e) ==
    WithTables(d, TakeBuckets(d.ht0, d.rehashidx .. e-1),
                  LinkAll(d.ht1, Visited(d, e)), d.rehashidx)

(* Move buckets rehashidx .. e-1 of ht0 to their places in ht1.            *)
MoveBuckets(d, e) ==
    WithTables(d, TakeBuckets(d.ht0, d.rehashidx .. e-1),
                  LinkAll(d.ht1, Visited(d, e)), e)

(* Mutant of FinishRehash: rehashidx is not reset. *)
FinishRehashKeepsIndex(d) ==
    IF d.ht0.used = 0 THEN WithTables(d, d.ht1, NewHt(0), d.rehashidx) ELSE d

(* All of ht0 moved: ht1 takes its place. *)
FinishRehash(d) ==
    IF d.ht0.used = 0 THEN WithTables(d, d.ht1, NewHt(0), -1) ELSE d

dictRehash(d, n) ==
    IF dictIsRehashing(d) THEN FinishRehash(MoveBuckets(d, RehashEnd(d, n)))
    ELSE d

(* Mutant of RehashStep: iterators are not respected. *)
RehashStepAlways(d) == dictRehash(d, 1)

(* The piecemeal step that lookups and updates make. *)
RehashStep(d) == IF d.iterators = 0 THEN dictRehash(d, 1) ELSE d

-----------------------------------------------------------------------------
(* Lookup. *)

(* Mutant of Search: during a rehash only the second table is searched. *)
SearchOneTable(d, k) ==
    IF dictIsRehashing(d) THEN Match(d.ht1, k) ELSE Match(d.ht0, k)

(* The search both tables share: ht0 first, ht1 only while rehashing.       *)
Search(d, k) ==
    IF Match(d.ht0, k) # {} THEN Match(d.ht0, k)
    ELSE IF dictIsRehashing(d) THEN Match(d.ht1, k)
    ELSE {}

(* Mutant of AfterFind: lookups make no rehash step. *)
AfterFindUnmoved(d) == d

(* The dict dictFind leaves behind: an empty dict makes no rehash step.    *)
AfterFind(d) == IF dictSize(d) = 0 THEN d ELSE RehashStep(d)

(* The entry dictFind returns, as a set of at most one element.            *)
dictFind(d, k) == IF dictSize(d) = 0 THEN {} ELSE Search(AfterFind(d), k)

-----------------------------------------------------------------------------
(* Updates.  can is the global dict_can_resize. *)

(* Mutant of NeedsExpand: > for >=. *)
NeedsExpandLate(d, can) ==
    /\ ~dictIsRehashing(d)
    /\ \/ d.ht0.size = 0
       \/ /\ d.ht0.used > d.ht0.size
          /\ can \/ d.ht0.used \div d.ht0.size > dict_force_resize_ratio

NeedsExpand(d, can) ==
    /\ ~dictIsRehashing(d)
    /\ \/ d.ht0.size = 0
       \/ /\ d.ht0.used >= d.ht0.size
          /\ can \/ d.ht0.used \div d.ht0.size > dict_force_resize_ratio

ExpandTarget(d) ==
    IF d.ht0.size = 0 THEN DICT_HT_INITIAL_SIZE ELSE d.ht0.used * 2

ExpandIfNeededErr(d, can) ==
    NeedsExpand(d, can) /\ dictExpandErr(d, ExpandTarget(d))

ExpandIfNeeded(d, can) ==
    IF NeedsExpand(d, can) THEN dictExpand(d, ExpandTarget(d)) ELSE d

(* The dict in which dictAddRaw looks for a slot: stepped, then expanded.  *)
Prepared(d, can) == ExpandIfNeeded(RehashStep(d), can)

(* _dictKeyIndex returns -1: the expansion failed or the key is there.     *)
NoKeyIndex(d, k, can) ==
    ExpandIfNeededErr(RehashStep(d), can) \/ Search(Prepared(d, can), k) # {}

(* Mutant of AddEntry: new entries still go to the first table. *)
AddEntryFirstTable(d, e) == WithHt0(d, Link(d.ht0, e))

(* A new entry goes to ht1 while rehashing, so that ht0 only shrinks.      *)
AddEntry(d, e) ==
    IF dictIsRehashing(d) THEN WithHt1(d, Link(d.ht1, e))
    ELSE WithHt0(d, Link(d.ht0, e))

(* dictAddRaw followed by dictSetVal: the new dict, and whether it added.  *)
dictAddErr(d, k, can) == NoKeyIndex(d, k, can)

dictAdd(d, k, v, can) ==
    IF NoKeyIndex(d, k, can) THEN Prepared(d, can)
    ELSE AddEntry(Prepared(d, can), [key |-> k, val |-> v])

(* dictSetVal on the entry a search for k finds. *)
SetFound(d, k, v) ==
    IF Match(d.ht0, k) # {} THEN WithHt0(d, SetVal(d.ht0, k, v))
    ELSE WithHt1(d, SetVal(d.ht1, k, v))

dictReplace(d, k, v, can) ==
    IF NoKeyIndex(d, k, can) THEN SetFound(Prepared(d, can), k, v)
    ELSE AddEntry(Prepared(d, can), [key |-> k, val |-> v])

dictDeleteErr(d, k) == dictFind(d, k) = {}

(* Mutant of dictDelete: only the first table is unlinked from. *)
dictDeleteFirstTable(d, k) ==
    LET s == AfterFind(d)
    IN IF dictDeleteErr(d, k) \/ Match(s.ht0, k) = {} THEN s
       ELSE WithHt0(s, Unlink(s.ht0, k))

(* dictGenericDelete: like dictFind, then the entry found is unlinked.     *)
dictDelete(d, k) ==
    LET s == AfterFind(d)
    IN IF dictDeleteErr(d, k) THEN s
       ELSE IF Match(s.ht0, k) # {} THEN WithHt0(s, Unlink(s.ht0, k))
       ELSE WithHt1(s, Unlink(s.ht1, k))

(* Both tables cleared and reset; open iterators are forgotten.            *)
dictEmpty(d) ==
    [ht0 |-> NewHt(0), ht1 |-> NewHt(0), rehashidx |-> -1, iterators |-> 0]

-----------------------------------------------------------------------------
(* Well-formed dicts: what every operation relies on and must restore.      *)

(* The shapes of dictht and dict, a table being as long as its size says.   *)
IsHt(ht) ==
    /\ ht = [table |-> ht.table, size |-> ht.size, used |-> ht.used]
    /\ ht.size \in Sizes \cup {0}
    /\ ht.table \in [0 .. ht.size - 1 -> SUBSET Entry]
    /\ ht.used \in Nat

IsDict(x) ==
    /\ x = [ht0 |-> x.ht0, ht1 |-> x.ht1, rehashidx |-> x.rehashidx,
            iterators |-> x.iterators]
    /\ IsHt(x.ht0)
    /\ IsHt(x.ht1)
    /\ x.rehashidx \in Nat \cup {-1}
    /\ x.iterators \in Nat

(* Every entry hangs in the bucket its hash selects. *)
HtPlaced(ht) ==
    \A b \in DOMAIN ht.table : \A e \in ht.table[b] : Bucket(ht, e.key) = b

(* The used counter is the number of entries. *)
HtUsed(ht) ==
    IsFiniteSet(Entries(ht)) /\ ht.used = Cardinality(Entries(ht))

(* No key has two entries, in one table or one in each. *)
Unique(x) ==
    /\ \A e, f \in Contents(x) : e.key = f.key => e = f
    /\ Entries(x.ht0) \cap Entries(x.ht1) = {}

(* ht1 exists exactly while a rehash is running, and rehashidx then points  *)
(* into ht0, every bucket below it already moved.                           *)
Shape(x) ==
    IF dictIsRehashing(x)
    THEN /\ x.ht0.size > 0
         /\ x.ht1.size > 0
         /\ x.rehashidx < x.ht0.size
         /\ \A b \in 0 .. x.rehashidx - 1 : x.ht0.table[b] = {}
    ELSE x.ht1 = NewHt(0)

WellFormed(x) ==
    /\ IsDict(x)
    /\ HtPlaced(x.ht0) /\ HtPlaced(x.ht1)
    /\ HtUsed(x.ht0) /\ HtUsed(x.ht1)
    /\ Unique(x)
    /\ Shape(x)
=============================================================================
