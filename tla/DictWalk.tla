------------------------------ MODULE DictWalk ------------------------------
(***************************************************************************)
(* Traversals of a dict: the iterators of dict.c, dictScan, and the two    *)
(* calls that sample entries at random.  The caller of Dict makes one      *)
(* traversal at a time and goes on with its other calls between the steps  *)
(* of the traversal.                                                       *)
(*                                                                         *)
(* A chain is walked in an arbitrary order.  New entries are linked before *)
(* its head, so they never join the part that is still to be walked.       *)
(***************************************************************************)
EXTENDS Dict

CONSTANTS
    CursorBits,     \* 64: the bits of an unsigned long
    SampleSizes,    \* count of dictGetSomeKeys(d, des, count)
    StepsPerKey,    \* 10: buckets dictGetSomeKeys visits per key asked for
    EmptyJump       \* 5: the least run of empty buckets it jumps after

(* 2 ^ i, a function of i. *)
Pow2[i \in 0 .. CursorBits] == IF i = 0 THEN 1 ELSE 2 * Pow2[i - 1]

(* A table is a power of two, and an unsigned long can index any. *)
ASSUME WalkAssumption ==
    /\ CursorBits \in Nat
    /\ \A s \in Sizes : \E i \in 0 .. CursorBits : s = Pow2[i]
    /\ SampleSizes \subseteq Nat
    /\ {StepsPerKey, EmptyJump} \subseteq Nat

VARIABLES
    walk,   \* the traversal in progress: an iterator or the cursor of a scan
    must,   \* history: keys that were there when it began and have stayed
    seen    \* history: keys it has returned, and that were not deleted since

walkVars == <<walk, must, seen>>

allVars == <<vars, walkVars>>

AllKeys == {e.key : e \in Contents(d)}

Ht(t) == IF t = 0 THEN d.ht0 ELSE d.ht1

NoWalk == [kind |-> "none", done |-> FALSE]

(* dictNext has been called and dictReleaseIterator has not. *)
Begun == walk.kind = "iterator" /\ ~(walk.index = -1 /\ walk.table = 0)

-----------------------------------------------------------------------------
(* Iterators. *)

(* dictGetIterator and dictGetSafeIterator. *)
GetIterator(safe) ==
    /\ walk.kind = "none"
    /\ walk' = [kind |-> "iterator", safe |-> safe, table |-> 0, index |-> -1,
                nextEntry |-> {}, after |-> {}, fingerprint |-> <<>>,
                done |-> FALSE]
    /\ ret' = [op |-> "getIterator"]
    /\ must' = {} /\ seen' = {}
    /\ UNCHANGED <<d, dict_can_resize, open>>

(* The integers that are mixed into one, taken to be told apart by it.  The  *)
(* addresses of the tables are left out: an allocator may use one again.     *)
dictFingerprint == <<d.ht0.size, d.ht0.used, d.ht1.size, d.ht1.used>>

(* The buckets <<table, index>> ahead of an iterator that are not empty.     *)
Ahead(it) ==
    {p \in {0, 1} \X (0 .. MaxSize - 1) :
        /\ p[1] >= it.table
        /\ p[1] = it.table => p[2] > it.index
        /\ p[1] = 1 => it.table = 1 \/ dictIsRehashing(d)
        /\ p[2] < Ht(p[1]).size
        /\ Ht(p[1]).table[p[2]] # {}}

(* The place an iterator comes to when no bucket is ahead of it: the end.    *)
PastEnd(it) ==
    IF it.table = 0 /\ dictIsRehashing(d) THEN <<1, d.ht1.size>>
    ELSE <<it.table, Ht(it.table).size>>

(* What dictNext finds for the iterator it: the entry it returns (a set of   *)
(* at most one key), its place, and the rest of its chain.                   *)
Advances(it) ==
    IF it.nextEntry # {}
    THEN {[table |-> it.table, index |-> it.index,
           entry |-> it.nextEntry, rest |-> it.after]}
    ELSE IF Ahead(it) = {}
    THEN {[table |-> PastEnd(it)[1], index |-> PastEnd(it)[2],
           entry |-> {}, rest |-> {}]}
    ELSE LET p == CHOOSE q \in Ahead(it) : \A r \in Ahead(it) :
                    q[1] < r[1] \/ (q[1] = r[1] /\ q[2] <= r[2])
             chain == {e.key : e \in Ht(p[1]).table[p[2]]}
         IN  {[table |-> p[1], index |-> p[2],
               entry |-> {k}, rest |-> chain \ {k}] : k \in chain}

(* An unsafe iterator over a dict that has changed may return anything. *)
Stale == Begun /\ ~walk.safe /\ walk.fingerprint # dictFingerprint

(* The entries that may head a chain with the keys of S: NULL if it is over. *)
Heads(S) == IF S = {} THEN {{}} ELSE {{k} : k \in S}

(* dictNext.  The first call of a safe iterator counts it, of an unsafe one  *)
(* takes the fingerprint; a caller makes no call after the one that returns  *)
(* NULL.                                                                     *)
Return(it, a) ==
    /\ \E next \in Heads(a.rest) :
         walk' = [kind |-> "iterator", safe |-> it.safe,
                  table |-> a.table, index |-> a.index,
                  nextEntry |-> next, after |-> a.rest \ next,
                  fingerprint |-> it.fingerprint, done |-> a.entry = {}]
    /\ seen' = seen \cup a.entry

(* Mutant of FirstNext: no fingerprint is taken. *)
FirstNextUnmarked ==
    /\ walk.kind = "iterator" /\ ~Begun /\ ~walk.safe
    /\ \E a \in Advances(walk) :
         Return([walk EXCEPT !.fingerprint = <<0, 0, 0, 0>>], a)
    /\ must' = AllKeys
    /\ ret' = [op |-> "iterator"] /\ UNCHANGED <<d, dict_can_resize, open>>

FirstNext ==
    /\ walk.kind = "iterator" /\ ~Begun
    /\ \E a \in Advances(walk) :
         Return([walk EXCEPT !.fingerprint =
                    IF walk.safe THEN <<>> ELSE dictFingerprint], a)
    /\ must' = AllKeys
    /\ IF walk.safe THEN SafeIteratorBegin
       ELSE ret' = [op |-> "iterator"] /\ UNCHANGED <<d, dict_can_resize, open>>

(* What a call of a stale iterator may find. *)
Anything(it) ==
    {[table |-> it.table, index |-> it.index, entry |-> n, rest |-> {}] :
        n \in {{}} \cup Heads(Keys)}

DictNext ==
    /\ Begun /\ ~walk.done
    /\ \E a \in IF Stale THEN Anything(walk) ELSE Advances(walk) :
         /\ Return(walk, a)
         /\ ret' = [op |-> "next", keys |-> a.entry]
    /\ UNCHANGED <<d, dict_can_resize, open, must>>

ReleaseIterator ==
    /\ walk.kind = "iterator"
    /\ IF Begun /\ walk.safe THEN SafeIteratorRelease
       ELSE ret' = [op |-> "release"] /\ UNCHANGED <<d, dict_can_resize, open>>
    /\ walk' = IF Stale THEN [kind |-> "aborted", done |-> FALSE,
                              fingerprint |-> walk.fingerprint]
               ELSE NoWalk
    /\ must' = {} /\ seen' = {}

-----------------------------------------------------------------------------
(* dictScan. *)

ULong == 0 .. Pow2[CursorBits] - 1

BitOf(v, i) == (v \div Pow2[i]) % 2

(* v with the order of its bits reversed. *)
rev(v) ==
    LET low[i \in 0 .. CursorBits] ==
          IF i = 0 THEN 0 ELSE 2 * low[i - 1] + BitOf(v, i - 1)
    IN  low[CursorBits]

(* Mutant of NextCursor: the cursor is incremented from the low bits up. *)
NextCursorPlain(v, size) == (v + 1) % size

(* v |= ~mask, reversed, incremented and reversed, for the table of a size.  *)
NextCursor(v, size) ==
    rev((rev((v % size) + (Pow2[CursorBits] - size)) + 1) % Pow2[CursorBits])

Small == IF d.ht0.size > d.ht1.size THEN d.ht1 ELSE d.ht0
Big == IF d.ht0.size > d.ht1.size THEN d.ht0 ELSE d.ht1

(* Mutant of Expansions: one bucket of the larger table per bucket of the    *)
(* smaller one.                                                              *)
ExpansionsOne(v) ==
    [entries |-> Big.table[v % Big.size], cursor |-> NextCursor(v, Small.size)]

(* The loop over the buckets of the larger table, from v, that expand the    *)
(* bucket of v in the smaller one.                                           *)
Expansions(v) ==
    LET loop[u \in ULong] ==
          LET next == NextCursor(u, Big.size)
              here == Big.table[u % Big.size]
          IN  IF (next % Big.size) \div Small.size = 0
              THEN [entries |-> here, cursor |-> next]
              ELSE [entries |-> here \cup loop[next].entries,
                    cursor |-> loop[next].cursor]
    IN  loop[v]

(* The entries a call with cursor v emits and the cursor it returns. *)
dictScan(v) ==
    IF dictSize(d) = 0 THEN [entries |-> {}, cursor |-> 0]
    ELSE IF ~dictIsRehashing(d)
    THEN [entries |-> d.ht0.table[v % d.ht0.size],
          cursor |-> NextCursor(v, d.ht0.size)]
    ELSE [entries |-> Small.table[v % Small.size] \cup Expansions(v).entries,
          cursor |-> Expansions(v).cursor]

ScanBegin ==
    /\ walk.kind = "none"
    /\ walk' = [kind |-> "scan", cursor |-> 0, done |-> FALSE]
    /\ must' = AllKeys /\ seen' = {}
    /\ ret' = [op |-> "scanBegin"]
    /\ UNCHANGED <<d, dict_can_resize, open>>

DictScan ==
    /\ walk.kind = "scan" /\ ~walk.done
    /\ LET r == dictScan(walk.cursor)
       IN  /\ walk' = [kind |-> "scan", cursor |-> r.cursor, done |-> r.cursor = 0]
           /\ seen' = seen \cup {e.key : e \in r.entries}
    /\ ret' = [op |-> "scan"]
    /\ UNCHANGED <<d, dict_can_resize, open, must>>

(* The caller has got cursor 0, or gives up. *)
ScanEnd ==
    /\ walk.kind = "scan"
    /\ walk' = NoWalk
    /\ must' = {} /\ seen' = {}
    /\ ret' = [op |-> "scanEnd"]
    /\ UNCHANGED <<d, dict_can_resize, open>>

-----------------------------------------------------------------------------
(* Random entries. *)

Alive == walk.kind # "aborted"

(* Calls that only a safe iterator allows between two calls of dictNext. *)
MayUpdate == Alive /\ (Begun => walk.safe)

(* Mutant of RandomBuckets: only the first table is drawn from. *)
RandomBucketsFirst(x) == {<<0, h>> : h \in 0 .. x.ht0.size - 1}

(* The buckets dictGetRandomKey draws from: none below rehashidx.            *)
RandomBuckets(x) ==
    IF dictIsRehashing(x)
    THEN {IF h >= x.ht0.size THEN <<1, h - x.ht0.size>> ELSE <<0, h>> :
            h \in x.rehashidx .. x.ht0.size + x.ht1.size - 1}
    ELSE {<<0, h>> : h \in 0 .. x.ht0.size - 1}

BucketOf(x, p) == IF p[1] = 0 THEN x.ht0.table[p[2]] ELSE x.ht1.table[p[2]]

(* The entries it can return: it draws until it meets a full bucket. *)
RandomEntries(x) == UNION {BucketOf(x, p) : p \in RandomBuckets(x)}

GetRandomKey ==
    /\ MayUpdate /\ dictSize(d) # 0
    /\ d' = RehashStep(d)
    /\ \E e \in RandomEntries(d') : ret' = [op |-> "random", key |-> e.key]
    /\ UNCHANGED <<dict_can_resize, open, walkVars>>

(* The rehash steps dictGetSomeKeys makes first, one per key asked for.      *)
Stepped(n) ==
    LET f[i \in 0 .. n] == IF i = 0 THEN d ELSE RehashStep(f[i-1]) IN f[n]

MaxMaskOf(x) == IF x.ht1.size > x.ht0.size THEN x.ht1.size ELSE x.ht0.size

(* Mutant of SkipTo: an index below rehashidx always jumps to it. *)
SkipToAlways(x, j, i) == IF j = 0 /\ i < x.rehashidx THEN x.rehashidx ELSE i

(* The index at which table j is looked at: below rehashidx table 0 is       *)
(* passed over, and where table 1 has no such bucket the index moves on.     *)
SkipTo(x, j, i) ==
    IF j = 0 /\ i < x.rehashidx /\ i >= x.ht1.size THEN x.rehashidx ELSE i

(* What the visit of table j makes of c = [i, empty, keys, stored]; the      *)
(* caller of random() chooses where to go on after a run of empty buckets.   *)
Probe(x, count, j, c) ==
    LET i == SkipTo(x, j, c.i)
        chain == IF j = 0 THEN x.ht0.table[i] ELSE x.ht1.table[i]
        room == Min({count - c.stored, Cardinality(chain)})
    IN  IF c.stored = count \/ (j = 0 /\ i < x.rehashidx)
           \/ i >= (IF j = 0 THEN x.ht0.size ELSE x.ht1.size)
        THEN {[c EXCEPT !.i = i]}
        ELSE IF chain # {}
        THEN {[i |-> i, empty |-> 0, stored |-> c.stored + room,
               keys |-> c.keys \cup {e.key : e \in s}] : s \in kSubset(room, chain)}
        ELSE IF c.empty + 1 >= EmptyJump /\ c.empty + 1 > count
        THEN {[c EXCEPT !.i = r, !.empty = 0] : r \in 0 .. MaxMaskOf(x) - 1}
        ELSE {[c EXCEPT !.i = i, !.empty = @ + 1]}

(* One turn of the loop, from each of the states C the call may be in. *)
Turn(x, count, C) ==
    LET probed == UNION {Probe(x, count, 0, c) : c \in C}
        both == IF dictIsRehashing(x)
                THEN UNION {Probe(x, count, 1, c) : c \in probed} ELSE probed
    IN  {[c EXCEPT !.i = (@ + 1) % MaxMaskOf(x)] : c \in both}

(* The states in which dictGetSomeKeys may return, from the dict x. *)
SomeKeys(x, count) ==
    LET f[t \in 0 .. count * StepsPerKey] ==
          IF t = 0 THEN {[i |-> i, empty |-> 0, keys |-> {}, stored |-> 0] :
                           i \in 0 .. MaxMaskOf(x) - 1}
          ELSE Turn(x, count, f[t - 1])
    IN  f[count * StepsPerKey]

GetSomeKeys(n) ==
    LET count == Min({n, dictSize(d)})
    IN  /\ MayUpdate /\ count > 0
        /\ d' = Stepped(count)
        /\ \E c \in SomeKeys(d', count) :
             ret' = [op |-> "some", keys |-> c.keys, stored |-> c.stored,
                     count |-> count]
        /\ UNCHANGED <<dict_can_resize, open, walkVars>>

-----------------------------------------------------------------------------
(* The caller. *)

WalkInit == Init /\ walk = NoWalk /\ must = {} /\ seen = {}

Update ==
    /\ MayUpdate
    /\ \/ \E k \in Keys, v \in Vals : DictAdd(k, v) \/ DictReplace(k, v)
       \/ \E n \in ExpandArgs : DictExpand(n)
       \/ DictResize
    /\ UNCHANGED walkVars

(* A lookup, which may make a rehash step under an unsafe iterator. *)
Fetch ==
    /\ Alive
    /\ \E k \in Keys : DictFetchValue(k)
    /\ UNCHANGED walkVars

(* dictRehash ignores iterators, and is not called while one is open. *)
Rehash ==
    /\ Alive /\ ~Begun
    /\ \E n \in RehashArgs : DictRehash(n)
    /\ UNCHANGED walkVars

(* Whether k is the key of the entry an iterator has saved in nextEntry. *)
Saved(k) == walk.kind = "iterator" /\ k \in walk.nextEntry

(* The caller does not delete the entry saved in nextEntry: the iterator     *)
(* would go on from freed memory.  Any other, the one just returned too.     *)
Delete(k) ==
    /\ MayUpdate /\ ~Saved(k)
    /\ DictDelete(k)
    /\ walk' = IF walk.kind # "iterator" THEN walk
               ELSE [walk EXCEPT !.after = @ \ {k}]
    /\ must' = must \ {k} /\ seen' = seen \ {k}

(* dictEmpty, never under an iterator. *)
EmptyAll ==
    /\ Alive /\ ~Begun
    /\ DictEmpty
    /\ must' = {} /\ seen' = {}
    /\ UNCHANGED walk

WalkNext ==
    \/ Update
    \/ Fetch
    \/ Rehash
    \/ EmptyAll
    \/ \E k \in Keys : Delete(k)
    \/ \E safe \in BOOLEAN : GetIterator(safe)
    \/ FirstNext
    \/ DictNext
    \/ ReleaseIterator
    \/ ScanBegin
    \/ DictScan
    \/ ScanEnd
    \/ GetRandomKey
    \/ \E n \in SampleSizes : GetSomeKeys(n)

WalkSpec == WalkInit /\ [][WalkNext]_allVars

-----------------------------------------------------------------------------
(* Properties. *)

(* A traversal that has come to its end has returned every key that was      *)
(* there when it began and stayed: a safe iterator through additions,        *)
(* deletions and expansions, an unsafe one through lookups unless its        *)
(* fingerprint has changed, and dictScan through growing, shrinking and      *)
(* rehashing ("guarantees all elements present in the dictionary get         *)
(* returned between the start and end of the iteration", dict.c:757).        *)
TraversalComplete == walk.done /\ ~Stale => must \subseteq seen

(* An iterator returns no key twice, unless it was deleted and added again:  *)
(* neither when it goes on to the second table nor after a chain changed     *)
(* under it (dictNext, dict.c:556).  An unsafe one whose dict a lookup has   *)
(* changed under it is the exception, and its release fails.                 *)
NoRepeat ==
    [][ret'.op = "next" /\ ~Stale => ret'.keys \cap seen = {}]_allVars

(* The assertion of dictReleaseIterator (dict.c:597) fails only for an       *)
(* iteration that began while a rehash was running: lookups alone change     *)
(* nothing otherwise.                                                        *)
NoFalseAlarm == walk.kind = "aborted" => walk.fingerprint[3] > 0

(* The cursor of a scan, read with its bits reversed, only grows, whatever   *)
(* the table does between two calls: a scan ends after at most as many calls *)
(* as the largest table it met has buckets (dict.c:859-907).                 *)
CursorForward ==
    [][ret'.op = "scan" =>
         walk'.cursor = 0 \/ rev(walk'.cursor) > rev(walk.cursor)]_allVars

(* dictGetRandomKey can return every entry, and of a dict that is not empty  *)
(* it finds one: the buckets it leaves out hold none (dict.c:614-621).       *)
RandomReachesAll ==
    dictSize(d) # 0 => RandomEntries(d) = Contents(d) /\ Contents(d) # {}

(* dictGetSomeKeys stores no more than it was asked for, and only entries of *)
(* the dict.  In tables too small for it to jump it visits every bucket in   *)
(* turn, both tables of a rehash included, and comes back with the full      *)
(* number if it has steps for one round (dict.c:692-732).                    *)
SampleSound ==
    [][ret'.op = "some" =>
         /\ ret'.keys \subseteq AllKeys'
         /\ ret'.stored <= ret'.count
         /\ d'.ht0.size + d'.ht1.size < EmptyJump
              /\ MaxMaskOf(d') <= ret'.count * StepsPerKey
                => ret'.stored = ret'.count]_allVars
=============================================================================
