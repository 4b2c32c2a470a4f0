----------------------------- MODULE DictLoops -----------------------------
(***************************************************************************)
(* The loops of dict.c, turn by turn, as the reference for the closed      *)
(* forms of DictOps.                                                       *)
(***************************************************************************)
EXTENDS Dict

(* One full bucket: its entries to ht1, the counters, the next bucket. *)
MoveBucket(t) ==
    LET i == t.rehashidx
        moved == t.ht0.table[i]
    IN  WithTables(t, WithChain(t.ht0, i, {}, -Cardinality(moved)), LinkAll(t.ht1, moved), i + 1)

(* A turn of while(n-- && d->ht[0].used != 0) or of its inner scan over     *)
(* empty buckets; a loop that has returned stays as it is.                  *)
RehashTurn(s) ==
    IF s.returned THEN s
    ELSE IF s.n = 0 \/ s.d.ht0.used = 0
    THEN [s EXCEPT !.d = FinishRehash(s.d), !.returned = TRUE]
    ELSE IF s.d.ht0.table[s.d.rehashidx] # {}
    THEN [d |-> MoveBucket(s.d), n |-> s.n - 1,
          empty_visits |-> s.empty_visits, returned |-> FALSE]
    ELSE [d |-> WithTables(s.d, s.d.ht0, s.d.ht1, s.d.rehashidx + 1), n |-> s.n,
          empty_visits |-> s.empty_visits - 1, returned |-> s.empty_visits = 1]

(* The loop on t after a turn for each bucket and one to return. *)
RehashLoop(t, n) ==
    LET turns == t.ht0.size + 1
        after[k \in 0 .. turns] ==
          IF k = 0 THEN [d |-> t, n |-> n, empty_visits |-> n * EmptyVisits, returned |-> FALSE]
          ELSE RehashTurn(after[k - 1])
    IN  after[turns]

(* while(1) { if (i >= size) return i; i *= 2; }: each turn adds one at     *)
(* least, so that size turns are enough.                                    *)
NextPowerLoop(n) ==
    LET i[k \in 0 .. n] ==
          IF k = 0 THEN DICT_HT_INITIAL_SIZE
          ELSE IF i[k - 1] >= n THEN i[k - 1] ELSE 2 * i[k - 1]
    IN  IF n >= MaxSize - 1 THEN MaxSize ELSE i[n]

(* The closed form of dictRehash computes what its loops do, which return    *)
(* before they run out of buckets, and the closed form of _dictNextPower     *)
(* what its loop does (dict.c:182, dict.c:938).                              *)
ClosedFormsAgree ==
    /\ dictIsRehashing(d) =>
         \A n \in RehashArgs :
           RehashLoop(d, n).returned /\ RehashLoop(d, n).d = dictRehash(d, n)
    /\ \A n \in 0 .. MaxSize : NextPower(n) = NextPowerLoop(n)
=============================================================================
