-------------------------------- MODULE Dict --------------------------------
(***************************************************************************)
(* A dict of dict.c and a caller that makes any sequence of its calls.     *)
(* Every call is one action: the program is single-threaded, so a call     *)
(* runs to its end before the next one starts.  What makes the component   *)
(* hard is the state that survives between calls: two tables with a        *)
(* rehash half-way between them, suspended by safe iterators.              *)
(***************************************************************************)
EXTENDS DictOps

CONSTANTS
    Ops,                   \* the calls the caller makes, a subset of AllOps
    RehashArgs,            \* n of dictRehash(d, n)
    ExpandArgs,            \* size of dictExpand(d, size)
    MaxIterators,          \* bound on the iterators open at once
    ULongSize,             \* 2^64: d->iterators is an unsigned long
    EmptyDuringIteration   \* may dictEmpty be called with iterators open?

AllOps == {"add", "replace", "delete", "fetch", "rehash", "resize", "expand",
           "empty", "toggle", "iterator"}

ASSUME CallsAssumption ==
    /\ Ops \subseteq AllOps
    /\ RehashArgs \subseteq Nat \ {0}
    /\ ExpandArgs \subseteq Nat
    /\ MaxIterators \in Nat
    /\ ULongSize \in Nat
    /\ MaxIterators < ULongSize
    /\ EmptyDuringIteration \in BOOLEAN

VARIABLES
    d,                 \* the dict
    dict_can_resize,   \* the global switch
    ret,               \* the last call and its result
    open               \* history: safe iterators begun and not yet released

vars == <<d, dict_can_resize, ret, open>>

-----------------------------------------------------------------------------
(* The calls. *)

DictAdd(k, v) ==
    /\ "add" \in Ops
    /\ d' = dictAdd(d, k, v, dict_can_resize)
    /\ ret' = [op |-> "add", key |-> k,
               res |-> IF dictAddErr(d, k, dict_can_resize)
                       THEN "DICT_ERR" ELSE "DICT_OK"]
    /\ UNCHANGED <<dict_can_resize, open>>

DictReplace(k, v) ==
    /\ "replace" \in Ops
    /\ d' = dictReplace(d, k, v, dict_can_resize)
    /\ ret' = [op |-> "replace", key |-> k,
               res |-> IF dictAddErr(d, k, dict_can_resize) THEN "0" ELSE "1"]
    /\ UNCHANGED <<dict_can_resize, open>>

(* dictDelete, and dictUnlink followed by dictFreeUnlinkedEntry. *)
DictDelete(k) ==
    /\ "delete" \in Ops
    /\ d' = dictDelete(d, k)
    /\ ret' = [op |-> "delete", key |-> k,
               res |-> IF dictDeleteErr(d, k) THEN "DICT_ERR" ELSE "DICT_OK"]
    /\ UNCHANGED <<dict_can_resize, open>>

DictFetchValue(k) ==
    /\ "fetch" \in Ops
    /\ d' = AfterFind(d)
    /\ ret' = [op |-> "fetch", key |-> k, found |-> dictFind(d, k)]
    /\ UNCHANGED <<dict_can_resize, open>>

(* dictRehash, and each turn of dictRehashMilliseconds (n = 100).  Unlike    *)
(* _dictRehashStep it does not look at d->iterators.                         *)
DictRehash(n) ==
    /\ "rehash" \in Ops
    /\ d' = dictRehash(d, n)
    /\ ret' = [op |-> "rehash", n |-> n, more |-> dictIsRehashing(d')]
    /\ UNCHANGED <<dict_can_resize, open>>

DictResize ==
    /\ "resize" \in Ops
    /\ d' = dictResize(d, dict_can_resize)
    /\ ret' = [op |-> "resize"]
    /\ UNCHANGED <<dict_can_resize, open>>

DictExpand(n) ==
    /\ "expand" \in Ops
    /\ d' = dictExpand(d, n)
    /\ ret' = [op |-> "expand"]
    /\ UNCHANGED <<dict_can_resize, open>>

DictEmpty ==
    /\ "empty" \in Ops
    /\ EmptyDuringIteration \/ open = 0
    /\ d' = dictEmpty(d)
    /\ ret' = [op |-> "empty"]
    /\ UNCHANGED <<dict_can_resize, open>>

(* dictEnableResize and dictDisableResize. *)
DictToggleResize(can) ==
    /\ "toggle" \in Ops
    /\ dict_can_resize' = can
    /\ ret' = [op |-> "toggle"]
    /\ UNCHANGED <<d, open>>

(* Mutant of SafeIteratorBegin: a second iterator is not counted. *)
SafeIteratorBeginFlag ==
    /\ "iterator" \in Ops
    /\ open < MaxIterators
    /\ d' = [d EXCEPT !.iterators = 1]
    /\ open' = open + 1
    /\ ret' = [op |-> "iterator"]
    /\ UNCHANGED dict_can_resize

(* The first dictNext of a safe iterator. *)
SafeIteratorBegin ==
    /\ "iterator" \in Ops
    /\ open < MaxIterators
    /\ d' = [d EXCEPT !.iterators = (@ + 1) % ULongSize]
    /\ open' = open + 1
    /\ ret' = [op |-> "iterator"]
    /\ UNCHANGED dict_can_resize

(* dictReleaseIterator of a safe iterator that has begun. *)
SafeIteratorRelease ==
    /\ "iterator" \in Ops
    /\ open > 0
    /\ d' = [d EXCEPT !.iterators = (@ + ULongSize - 1) % ULongSize]
    /\ open' = open - 1
    /\ ret' = [op |-> "iterator"]
    /\ UNCHANGED dict_can_resize

Init ==
    /\ d = dictCreate
    /\ dict_can_resize = TRUE
    /\ ret = [op |-> "create"]
    /\ open = 0

Next ==
    \/ \E k \in Keys, v \in Vals : DictAdd(k, v) \/ DictReplace(k, v)
    \/ \E k \in Keys : DictDelete(k) \/ DictFetchValue(k)
    \/ \E n \in RehashArgs : DictRehash(n)
    \/ \E n \in ExpandArgs : DictExpand(n)
    \/ \E can \in BOOLEAN : DictToggleResize(can)
    \/ DictResize
    \/ DictEmpty
    \/ SafeIteratorBegin
    \/ SafeIteratorRelease

Spec == Init /\ [][Next]_vars

(* A caller that keeps looking keys up.  The server does: every command      *)
(* begins with a dictFind, and nothing else ever calls dictRehash.           *)
Lookup == \E k \in Keys : DictFetchValue(k)

FairSpec == Spec /\ WF_vars(Lookup)

-----------------------------------------------------------------------------
(* Properties. *)

(* Type invariant: the shapes of dictht and dict (dict.h:69), and the bounds *)
(* on the counters of iterators.                                             *)
TypeOK ==
    /\ IsDict(d)
    /\ d.iterators < ULongSize
    /\ dict_can_resize \in BOOLEAN
    /\ open \in 0 .. MaxIterators

(* Every entry hangs in the bucket its hash selects in its own table, so a   *)
(* lookup that follows the hash cannot miss it (dictFind, dict.c:470).       *)
Placement == HtPlaced(d.ht0) /\ HtPlaced(d.ht1)

(* The used counters, kept by hand across every move of an entry between     *)
(* the tables, equal the number of entries on the chains: dictRehash ends    *)
(* the migration, and frees ht[0], on the counter alone (dict.c:214).        *)
UsedExact == HtUsed(d.ht0) /\ HtUsed(d.ht1)

(* No key has two entries, in one table or one in each: dictAddRaw must have *)
(* looked for the key in every table it could be in (dict.c:957).            *)
KeysUnique == Unique(d)

(* ht[1] exists exactly while a rehash is running and rehashidx then points  *)
(* into ht[0], every bucket below it already moved (dict.c:694).             *)
RehashShape == Shape(d)

(* What every call relies on and restores: the inductive invariant. *)
DictInv == TypeOK /\ WellFormed(d)

(* The assertion of dictRehash, and the comment above it ("rehashidx can't   *)
(* overflow as we are sure there are more elements because ht[0].used != 0", *)
(* dict.c:189): while ht0.used is not 0 a full bucket lies at or above       *)
(* rehashidx, so the scan over empty buckets stays inside the table.         *)
RehashInBounds ==
    dictIsRehashing(d) /\ d.ht0.used # 0 =>
        \E b \in d.rehashidx .. d.ht0.size - 1 : d.ht0.table[b] # {}

(* The dict is the map its callers think it is, through every interleaving   *)
(* of rehash steps, expansions and failed calls with their own calls.        *)
Abstract == INSTANCE KVMap WITH map <- Contents(d)

MapSpec == Abstract!Spec

(* While a safe iterator is open no lookup or update moves an entry from one *)
(* table to the other (dict.c:246: "we can't mess with the two hash tables   *)
(* otherwise some element can be missed or duplicated").  dictRehash called  *)
(* directly, and dictEmpty, are the exceptions.                              *)
KeysIn(ht) == {e.key : e \in Entries(ht)}

NoMoveWhileIterating ==
    [][open > 0 /\ ret'.op \notin {"rehash", "empty"} =>
         /\ KeysIn(d.ht0) \cap KeysIn(d.ht1)' = {}
         /\ KeysIn(d.ht1) \cap KeysIn(d.ht0)' = {}]_vars

(* A rehash in progress only goes forward: until it ends neither table is    *)
(* reallocated, rehashidx never decreases, and a direct dictRehash that      *)
(* returns 1 has advanced it.  One call may end a rehash and start the next, *)
(* but only an update does, and the next starts from the table just filled   *)
(* (dictRehash, dict.c:182, and _dictExpandIfNeeded, dict.c:916).            *)
RehashForward ==
    [][dictIsRehashing(d) /\ dictIsRehashing(d)' =>
         \/ /\ d'.ht0.size = d.ht0.size
            /\ d'.ht1.size = d.ht1.size
            /\ d'.rehashidx >= d.rehashidx
            /\ ret'.op = "rehash" => d'.rehashidx > d.rehashidx
         \/ /\ ret'.op \in {"add", "replace"}
            /\ d'.ht0.size = d.ht1.size
            /\ d'.rehashidx = 0]_vars

(* dict.h:81: "number of iterators currently running".  The count that       *)
(* suspends rehashing is right as long as no caller empties a dict it is     *)
(* iterating over: dictEmpty forgets the iterators that are open (dict.c:986) *)
(* and the release of one would then wrap the unsigned count around.         *)
IteratorsCounted == d.iterators = open

(* A caller that only adds and looks up never loads the newest table beyond  *)
(* one entry per bucket: incremental rehashing finishes a table before the   *)
(* table it fills is full ("USED/BUCKETS ratio near to <= 1", dict.c:128).   *)
LoadFactor ==
    dictSize(d) <= IF dictIsRehashing(d) THEN d.ht1.size ELSE d.ht0.size

(* A rehash that has begun ends, if lookups keep coming, or the dict becomes *)
(* empty: dictFind returns before the rehash step on an empty dict.          *)
RehashCompletes ==
    dictIsRehashing(d) ~> (~dictIsRehashing(d) \/ dictSize(d) = 0)
=============================================================================
