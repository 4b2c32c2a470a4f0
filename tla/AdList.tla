------------------------------- MODULE AdList -------------------------------
(***************************************************************************)
(* The doubly linked lists of adlist.c, on a heap of nodes that are reused *)
(* after they are freed.  A list operation maps a heap to a heap.  Callers *)
(* keep to what adlist.c asks of them: a node is passed with its own list, *)
(* a list is not joined to itself, and an iteration only removes the node  *)
(* it was given last.                                                      *)
(***************************************************************************)
EXTENDS Integers, Sequences, FiniteSets

CONSTANTS
    Nodes,          \* the addresses of nodes: numbers from 1 on
    Lists,          \* the addresses of list structs
    Values          \* the values of nodes (pointers)

NULL == 0

ASSUME ListAssumption ==
    /\ IsFiniteSet(Nodes) /\ Nodes \subseteq Nat \ {NULL}
    /\ Values \subseteq Nat \ {NULL}

VARIABLES
    heap,       \* the list structs (live ones) and the nodes
    iter,       \* a listIter: the next node, the direction, the last node given
    owed,       \* history: nodes the iteration has still to return
    given       \* history: nodes it has returned

listVars == <<heap, iter, owed, given>>

EmptyHeap ==
    [live |-> {},
     head |-> [l \in Lists |-> NULL], tail |-> [l \in Lists |-> NULL],
     len  |-> [l \in Lists |-> 0],
     next |-> [n \in Nodes |-> NULL], prev |-> [n \in Nodes |-> NULL],
     value |-> [n \in Nodes |-> NULL]]          \* NULL: the node is free

Allocated(h) == {n \in Nodes : h.value[n] # NULL}

FreeNodes(h) == Nodes \ Allocated(h)

Fresh(h) == CHOOSE n \in FreeNodes(h) : \A m \in FreeNodes(h) : n <= m

(* The nodes met from n on: at most one step for each node there is. *)
Follow(link, n) ==
    LET after == [m \in Nodes \cup {NULL} |-> IF m = NULL THEN NULL ELSE link[m]]
        at[k \in 0 .. Cardinality(Nodes)] == IF k = 0 THEN n ELSE after[at[k - 1]]
        met == {k \in 0 .. Cardinality(Nodes) : at[k] # NULL}
    IN  [k \in 1 .. Cardinality(met) |-> at[k - 1]]

Forward(h, l) == Follow(h.next, h.head[l])

-----------------------------------------------------------------------------
(* The operations.  EXCEPT at NULL changes nothing, as the test for NULL    *)
(* before such an assignment has it.                                        *)

listCreate(h, l) ==
    [h EXCEPT !.live = @ \cup {l}, !.len[l] = 0,
              !.head[l] = NULL, !.tail[l] = NULL]

(* len nodes are freed, by following next. *)
listEmpty(h, l) ==
    LET w == Forward(h, l)
        freed == {w[i] : i \in 1 .. h.len[l]}
        Clean(f) == [n \in Nodes |-> IF n \in freed THEN NULL ELSE f[n]]
    IN  [h EXCEPT !.value = Clean(@), !.len[l] = 0,
                  !.head[l] = NULL, !.tail[l] = NULL,
                  !.prev = Clean(@), !.next = Clean(@)]

listRelease(h, l) == LET e == listEmpty(h, l) IN [e EXCEPT !.live = @ \ {l}]

listAddNodeHead(h, l, v) ==
    LET n == Fresh(h)
        old == h.head[l]
    IN  [h EXCEPT !.value[n] = v, !.len[l] = @ + 1, !.head[l] = n,
                  !.tail[l] = IF h.len[l] = 0 THEN n ELSE @,
                  !.prev = IF h.len[l] = 0 THEN [@ EXCEPT ![n] = NULL]
                           ELSE [@ EXCEPT ![n] = NULL, ![old] = n],
                  !.next[n] = IF h.len[l] = 0 THEN NULL ELSE old]

listAddNodeTail(h, l, v) ==
    LET n == Fresh(h)
        old == h.tail[l]
    IN  [h EXCEPT !.value[n] = v, !.len[l] = @ + 1,
                  !.head[l] = IF h.len[l] = 0 THEN n ELSE @,
                  !.tail[l] = n,
                  !.prev[n] = IF h.len[l] = 0 THEN NULL ELSE old,
                  !.next = IF h.len[l] = 0 THEN [@ EXCEPT ![n] = NULL]
                           ELSE [@ EXCEPT ![n] = NULL, ![old] = n]]

listInsertNode(h, l, old, v, after) ==
    LET n == Fresh(h)
        p == IF after THEN old ELSE h.prev[old]
        q == IF after THEN h.next[old] ELSE old
    IN  [h EXCEPT !.value[n] = v, !.len[l] = @ + 1,
                  !.head[l] = IF ~after /\ @ = old THEN n ELSE @,
                  !.tail[l] = IF after /\ @ = old THEN n ELSE @,
                  !.prev = [@ EXCEPT ![n] = p, ![q] = n],
                  !.next = [@ EXCEPT ![n] = q, ![p] = n]]

(* Mutant of listDelNode: tail keeps pointing to the node. *)
listDelNodeKeepsTail(h, l, n) ==
    LET p == h.prev[n]
        q == h.next[n]
    IN  [h EXCEPT !.value[n] = NULL, !.len[l] = @ - 1,
                  !.head[l] = IF p = NULL THEN q ELSE @,
                  !.prev = [@ EXCEPT ![q] = p, ![n] = NULL],
                  !.next = [@ EXCEPT ![p] = q, ![n] = NULL]]

(* The node is unlinked and freed: nothing of it is used again. *)
listDelNode(h, l, n) ==
    LET p == h.prev[n]
        q == h.next[n]
    IN  [h EXCEPT !.value[n] = NULL, !.len[l] = @ - 1,
                  !.head[l] = IF p = NULL THEN q ELSE @,
                  !.tail[l] = IF q = NULL THEN p ELSE @,
                  !.prev = [@ EXCEPT ![q] = p, ![n] = NULL],
                  !.next = [@ EXCEPT ![p] = q, ![n] = NULL]]

(* Mutant of listRotate: the head goes to the tail. *)
listRotateBack(h, l) ==
    LET f == h.head[l]
        q == h.next[f]
    IN  IF h.len[l] <= 1 THEN h
        ELSE [h EXCEPT !.head[l] = q, !.tail[l] = f,
                       !.prev = [@ EXCEPT ![f] = h.tail[l], ![q] = NULL],
                       !.next = [@ EXCEPT ![h.tail[l]] = f, ![f] = NULL]]

listRotate(h, l) ==
    LET t == h.tail[l]
        p == h.prev[t]
    IN  IF h.len[l] <= 1 THEN h
        ELSE [h EXCEPT !.head[l] = t, !.tail[l] = p,
                       !.prev = [@ EXCEPT ![h.head[l]] = t, ![t] = NULL],
                       !.next = [@ EXCEPT ![p] = NULL, ![t] = h.head[l]]]

listJoin(h, l, o) ==
    LET first == IF h.tail[l] = NULL THEN h.head[o] ELSE h.head[l]
        last == IF h.tail[o] # NULL THEN h.tail[o] ELSE h.tail[l]
    IN  [h EXCEPT !.len = [@ EXCEPT ![l] = h.len[l] + h.len[o], ![o] = 0],
                  !.head = [@ EXCEPT ![l] = first, ![o] = NULL],
                  !.tail = [@ EXCEPT ![l] = last, ![o] = NULL],
                  !.prev[h.head[o]] = h.tail[l],
                  !.next[h.tail[l]] = h.head[o]]

(* The first k nodes of l are copied, by listAddNodeTail. *)
CopyNodes(h, l, copy, k) ==
    LET w == Forward(h, l)
        copied[i \in 0 .. k] ==
            IF i = 0 THEN listCreate(h, copy)
            ELSE listAddNodeTail(copied[i - 1], copy, h.value[w[i]])
    IN  copied[k]

listDup(h, l, copy) == CopyNodes(h, l, copy, Len(Forward(h, l)))

(* The dup method fails at the k-th node: the copy is released. *)
listDupFails(h, l, copy, k) == listRelease(CopyNodes(h, l, copy, k - 1), copy)

(* Mutant of listIndex: -1 is the penultimate node. *)
listIndexFromOne(h, l, i) ==
    LET w == IF i < 0 THEN Follow(h.prev, h.tail[l]) ELSE Forward(h, l)
        k == IF i < 0 THEN -i ELSE i
    IN  IF k < Len(w) THEN w[k + 1] ELSE NULL

listIndex(h, l, i) ==
    LET w == IF i < 0 THEN Follow(h.prev, h.tail[l]) ELSE Forward(h, l)
        k == IF i < 0 THEN (-i) - 1 ELSE i
    IN  IF k < Len(w) THEN w[k + 1] ELSE NULL

(* No match method: values are compared. *)
listSearchKey(h, l, v) ==
    LET w == Forward(h, l)
        hits == {i \in DOMAIN w : h.value[w[i]] = v}
    IN  IF hits = {} THEN NULL
        ELSE w[CHOOSE i \in hits : \A j \in hits : i <= j]

-----------------------------------------------------------------------------
(* The callers, one of which iterates. *)

NoIter == [on |-> FALSE]

Iterating == iter.on

NodesOf(l) == LET w == Forward(heap, l) IN {w[i] : i \in DOMAIN w}

(* An iteration has a node of l in its hands or before it. *)
Busy(l) == Iterating /\ NodesOf(l) \cap (owed \cup {iter.next, iter.last}) # {}

Settle(new) ==
    \E h \in {new} :
      /\ heap' = h
      /\ owed' = owed \cap Allocated(h)
      /\ given' = given \cap Allocated(h)

Edit(h) == Settle(h) /\ UNCHANGED iter

Room == FreeNodes(heap) # {}

Create(l) == l \notin heap.live /\ Edit(listCreate(heap, l))

Clear(l) == ~Busy(l) /\ (Edit(listEmpty(heap, l)) \/ Edit(listRelease(heap, l)))

Add(l, v) ==
    /\ Room
    /\ Edit(listAddNodeHead(heap, l, v)) \/ Edit(listAddNodeTail(heap, l, v))

Insert(l, n, v, after) ==
    Room /\ n \in NodesOf(l) /\ Edit(listInsertNode(heap, l, n, v, after))

(* During an iteration only the node returned last is removed. *)
Del(l, n) ==
    /\ n \in NodesOf(l)
    /\ Busy(l) => n = iter.last
    /\ Settle(listDelNode(heap, l, n))
    /\ iter' = IF Iterating /\ n = iter.last THEN [iter EXCEPT !.last = NULL] ELSE iter

Rotate(l) == ~Busy(l) /\ Edit(listRotate(heap, l))

Join(l, o) == l # o /\ Edit(listJoin(heap, l, o))

Dup(l, copy) ==
    /\ copy \notin heap.live
    /\ heap.len[l] <= Cardinality(FreeNodes(heap))
    /\ \/ Edit(listDup(heap, l, copy))
       \/ \E k \in 1 .. heap.len[l] : Edit(listDupFails(heap, l, copy, k))

(* listGetIterator, listRewind and listRewindTail. *)
GetIterator(l, dir) ==
    /\ ~Iterating
    /\ iter' = [on |-> TRUE, dir |-> dir, last |-> NULL,
                next |-> IF dir = "head" THEN heap.head[l] ELSE heap.tail[l]]
    /\ owed' = NodesOf(l)
    /\ given' = {}
    /\ UNCHANGED heap

(* Mutant of Beyond: a backward iteration goes forward. *)
BeyondNext(n) == heap.next[n]

(* The node after n in the iteration's direction. *)
Beyond(n) == IF iter.dir = "head" THEN heap.next[n] ELSE heap.prev[n]

(* The caller stops at NULL and releases the iterator. *)
Advance ==
    /\ Iterating
    /\ \/ /\ iter.next # NULL
          /\ iter' = [iter EXCEPT !.next = Beyond(iter.next), !.last = iter.next]
          /\ owed' = owed \ {iter.next}
          /\ given' = given \cup {iter.next}
       \/ /\ iter.next = NULL
          /\ iter' = NoIter /\ owed' = {} /\ given' = {}
    /\ UNCHANGED heap

ListInit == heap = EmptyHeap /\ iter = NoIter /\ owed = {} /\ given = {}

ListNext ==
    \/ \E l \in Lists : Create(l)
    \/ \E l \in heap.live : Clear(l) \/ Rotate(l)
    \/ \E l \in heap.live, v \in Values : Add(l, v)
    \/ \E l \in heap.live, n \in Nodes, v \in Values, after \in BOOLEAN :
         Insert(l, n, v, after)
    \/ \E l \in heap.live, n \in Nodes : Del(l, n)
    \/ \E l, o \in heap.live : Join(l, o)
    \/ \E l \in heap.live, copy \in Lists : Dup(l, copy)
    \/ \E l \in heap.live, dir \in {"head", "tail"} : GetIterator(l, dir)
    \/ Advance

ListSpec == ListInit /\ [][ListNext]_listVars

-----------------------------------------------------------------------------
(* Properties. *)

Reversed(s) == [i \in DOMAIN s |-> s[Len(s) + 1 - i]]

(* The links agree: a list read backward from its tail is the list read      *)
(* forward from its head, reversed; len counts it; no two lists share a node *)
(* and every node allocated is on a list, so none is leaked (every function  *)
(* of adlist.c that assigns head, tail, next or prev).                       *)
WellLinked ==
    /\ \A l \in heap.live :
         /\ Follow(heap.prev, heap.tail[l]) = Reversed(Forward(heap, l))
         /\ heap.len[l] = Cardinality(NodesOf(l))
         /\ heap.len[l] = Len(Forward(heap, l))
    /\ \A l, o \in heap.live : l # o => NodesOf(l) \cap NodesOf(o) = {}
    /\ Allocated(heap) = UNION {NodesOf(l) : l \in heap.live}

(* adlist.c:311-315, listIndex: 0 is the head, -1 the last element, NULL out *)
(* of range; adlist.c:288, listSearchKey: the first match from the head.     *)
LookupsAgree ==
    \A l \in heap.live :
      LET w == Forward(heap, l)
      IN  /\ \A i \in -(Cardinality(Nodes) + 1) .. Cardinality(Nodes) + 1 :
               listIndex(heap, l, i) =
                 IF i \in 0 .. Len(w) - 1 THEN w[i + 1]
                 ELSE IF i \in -Len(w) .. -1 THEN w[Len(w) + 1 + i] ELSE NULL
          /\ \A v \in Values :
               LET n == listSearchKey(heap, l, v)
               IN  IF n = NULL THEN \A m \in NodesOf(l) : heap.value[m] # v
                   ELSE \E i \in DOMAIN w :
                          /\ w[i] = n /\ heap.value[n] = v
                          /\ \A j \in 1 .. i - 1 : heap.value[w[j]] # v

(* adlist.c:216, listNext: an iteration survives the removal of the node it  *)
(* returned last, insertions anywhere and joins.  It never returns a node    *)
(* twice or one that was freed, and when it ends it has returned every node  *)
(* the list had at its beginning and has kept.                               *)
IterationExact ==
    [][ /\ Iterating /\ iter'.on /\ iter' # iter /\ heap' = heap
             => iter.next \in Allocated(heap) \ given
        /\ Iterating /\ ~iter'.on => owed = {} ]_listVars

(* The lists are the sequences of ListSeq: no operation reorders, drops or   *)
(* invents a value, in its own list or in another one.                       *)
ValuesAt(w) == [i \in DOMAIN w |-> heap.value[w[i]]]

LS == INSTANCE ListSeq WITH
         seqs <- [l \in heap.live |-> ValuesAt(Forward(heap, l))]

SequenceSpec == LS!Spec
=============================================================================
