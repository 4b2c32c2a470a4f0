--------------------------- MODULE DictOpsProofs ---------------------------
(***************************************************************************)
(* What the operations of DictOps do to a well-formed dict: each leaves a  *)
(* well-formed dict and changes the bindings as its name says.  For every  *)
(* set of keys and values, every hash function and every choice of the     *)
(* constants.                                                              *)
(***************************************************************************)
EXTENDS DictOps, NatProofs, FiniteSetTheorems

-----------------------------------------------------------------------------
(* Tables. *)

(* Min of a nonempty set of natural numbers is a member of it. *)
LEMMA MinOfNat ==
    ASSUME NEW S \in SUBSET Nat, S # {}
    PROVE  Min(S) \in S
  BY Least DEF Min

(* The numbers of a table are natural numbers. *)
LEMMA HtNumbers ==
    ASSUME NEW ht, IsHt(ht)
    PROVE  ht.size \in Nat /\ ht.used \in Nat
  BY DictAssumption DEF IsHt

(* The bucket of a key is an index of the table. *)
LEMMA BucketInTable ==
    ASSUME NEW ht, IsHt(ht), ht.size > 0, NEW k \in Keys
    PROVE  Bucket(ht, k) \in 0 .. ht.size - 1
<1>1. Hash[k] \in Nat /\ ht.size \in Nat
  BY DictAssumption DEF IsHt
<1> QED
  BY <1>1 DEF Bucket

(* A new table holds nothing and is well-formed. *)
LEMMA EmptyTable ==
    ASSUME NEW n \in Sizes \cup {0}
    PROVE  /\ IsHt(NewHt(n))
           /\ Entries(NewHt(n)) = {}
           /\ HtPlaced(NewHt(n))
           /\ HtUsed(NewHt(n))
<1>1. Entries(NewHt(n)) = {}
  BY DEF Entries, NewHt
<1>2. IsHt(NewHt(n)) /\ HtPlaced(NewHt(n))
  BY DEF IsHt, NewHt, HtPlaced
<1>3. HtUsed(NewHt(n))
  BY <1>1, FS_EmptySet DEF HtUsed, NewHt
<1> QED
  BY <1>1, <1>2, <1>3

(* In a table whose entries are placed, the chain a lookup follows holds     *)
(* every entry of its key.                                                   *)
LEMMA MatchIsAll ==
    ASSUME NEW ht, IsHt(ht), HtPlaced(ht), ht.size > 0, NEW k \in Keys
    PROVE  Match(ht, k) = {e \in Entries(ht) : e.key = k}
<1>1. Bucket(ht, k) \in DOMAIN ht.table
  BY BucketInTable DEF IsHt
<1>2. Match(ht, k) \subseteq {e \in Entries(ht) : e.key = k}
  BY <1>1 DEF Match, Entries
<1>3. ASSUME NEW e \in Entries(ht), e.key = k
      PROVE  e \in Match(ht, k)
  BY <1>3 DEF Match, Entries, HtPlaced
<1> QED
  BY <1>2, <1>3

(* Replacing one chain leaves the others and the size alone. *)
LEMMA ChainUpdate ==
    ASSUME NEW ht, IsHt(ht), NEW i \in 0 .. ht.size - 1,
           NEW c \in SUBSET Entry, NEW n \in Int, ht.used + n \in Nat
    PROVE  /\ IsHt(WithChain(ht, i, c, n))
           /\ WithChain(ht, i, c, n).size = ht.size
           /\ WithChain(ht, i, c, n).used = ht.used + n
           /\ \A b \in 0 .. ht.size - 1 :
                 WithChain(ht, i, c, n).table[b] =
                    IF b = i THEN c ELSE ht.table[b]
<1> DEFINE t == [ht.table EXCEPT ![i] = c]
           new == WithChain(ht, i, c, n)
<1>1. /\ ht.table \in [0 .. ht.size - 1 -> SUBSET Entry]
      /\ ht.size \in Sizes \cup {0}
  BY DEF IsHt
<1>2. /\ t \in [0 .. ht.size - 1 -> SUBSET Entry]
      /\ \A b \in 0 .. ht.size - 1 : t[b] = IF b = i THEN c ELSE ht.table[b]
  BY <1>1
<1>3. new = [table |-> t, size |-> ht.size, used |-> ht.used + n]
  BY DEF WithChain
<1> HIDE DEF t, new
<1>4. new.table = t /\ new.size = ht.size /\ new.used = ht.used + n
  BY <1>3
<1>5. IsHt(new)
  BY <1>1, <1>2, <1>3, <1>4 DEF IsHt
<1> QED
  BY <1>2, <1>4, <1>5 DEF new

(* In a placed table, entries of different chains are different, and a new    *)
(* chain of entries that hash to its bucket keeps the table placed.           *)
LEMMA ChainReplaced ==
    ASSUME NEW ht, IsHt(ht), HtPlaced(ht), NEW i \in 0 .. ht.size - 1,
           NEW c \in SUBSET Entry, NEW n \in Int, ht.used + n \in Nat,
           \A e \in c : Bucket(ht, e.key) = i
    PROVE  /\ Entries(WithChain(ht, i, c, n)) =
                  (Entries(ht) \ ht.table[i]) \cup c
           /\ HtPlaced(WithChain(ht, i, c, n))
<1> DEFINE new == WithChain(ht, i, c, n)
<1>1. /\ IsHt(new)
      /\ new.size = ht.size
      /\ \A b \in 0 .. ht.size - 1 :
            new.table[b] = IF b = i THEN c ELSE ht.table[b]
  BY ChainUpdate
<1>2. /\ DOMAIN new.table = 0 .. ht.size - 1
      /\ DOMAIN ht.table = 0 .. ht.size - 1
  BY <1>1 DEF IsHt
<1> HIDE DEF new
<1>3. \A b \in 0 .. ht.size - 1 : \A e \in ht.table[b] :
         e \in ht.table[i] => b = i
  BY <1>2 DEF HtPlaced
<1>4. ASSUME NEW e \in Entries(new)
      PROVE  e \in (Entries(ht) \ ht.table[i]) \cup c
  <2>1. PICK b \in 0 .. ht.size - 1 : e \in new.table[b]
    BY <1>2, <1>4 DEF Entries
  <2>2. CASE b = i
    BY <2>1, <2>2, <1>1
  <2>3. CASE b # i
    <3>1. e \in ht.table[b] /\ e \in Entries(ht)
      BY <2>1, <2>3, <1>1, <1>2 DEF Entries
    <3> QED
      BY <3>1, <2>3, <1>3
  <2> QED
    BY <2>2, <2>3
<1>5. ASSUME NEW e \in (Entries(ht) \ ht.table[i]) \cup c
      PROVE  e \in Entries(new)
  <2>1. CASE e \in c
    BY <2>1, <1>1, <1>2 DEF Entries
  <2>2. CASE e \notin c
    <3>1. PICK b \in 0 .. ht.size - 1 : e \in ht.table[b] /\ b # i
      BY <2>2, <1>5, <1>2 DEF Entries
    <3> QED
      BY <3>1, <1>1, <1>2 DEF Entries
  <2> QED
    BY <2>1, <2>2
<1>6. HtPlaced(new)
  <2> SUFFICES ASSUME NEW b \in 0 .. ht.size - 1, NEW e \in new.table[b]
               PROVE  Bucket(ht, e.key) = b
    BY <1>1, <1>2 DEF HtPlaced, Bucket
  <2>1. CASE b = i
    BY <2>1, <1>1
  <2>2. CASE b # i
    BY <2>2, <1>1, <1>2 DEF HtPlaced
  <2> QED
    BY <2>1, <2>2
<1> QED
  BY <1>4, <1>5, <1>6 DEF new

(* Linking an entry adds it, counts it and places it. *)
LEMMA LinkAdds ==
    ASSUME NEW ht, IsHt(ht), HtPlaced(ht), HtUsed(ht), ht.size > 0,
           NEW e \in Entry, e \notin Entries(ht)
    PROVE  /\ IsHt(Link(ht, e))
           /\ Link(ht, e).size = ht.size
           /\ Entries(Link(ht, e)) = Entries(ht) \cup {e}
           /\ HtPlaced(Link(ht, e))
           /\ HtUsed(Link(ht, e))
<1> DEFINE i == Bucket(ht, e.key)
           c == ht.table[i] \cup {e}
           new == Link(ht, e)
<1>1. i \in 0 .. ht.size - 1
  BY BucketInTable DEF Entry
<1>2. /\ ht.table[i] \in SUBSET Entry
      /\ ht.table[i] \subseteq Entries(ht)
      /\ \A f \in ht.table[i] : Bucket(ht, f.key) = i
  BY <1>1 DEF IsHt, Entries, HtPlaced
<1>u. ht.used + 1 \in Nat /\ 1 \in Int
  BY DEF IsHt
<1>3. c \in SUBSET Entry /\ \A f \in c : Bucket(ht, f.key) = i
  BY <1>2
<1>4. new = WithChain(ht, i, c, 1)
  BY DEF Link
<1> HIDE DEF i, c, new
<1>5. IsHt(new) /\ new.size = ht.size /\ new.used = ht.used + 1
  BY <1>1, <1>u, <1>3, <1>4, ChainUpdate
<1>6. Entries(new) = (Entries(ht) \ ht.table[i]) \cup c /\ HtPlaced(new)
  BY <1>1, <1>u, <1>3, <1>4, ChainReplaced
<1>7. Entries(new) = Entries(ht) \cup {e}
  BY <1>2, <1>6 DEF c
<1>8. HtUsed(new)
  BY <1>5, <1>7, FS_AddElement DEF HtUsed
<1> QED
  BY <1>5, <1>6, <1>7, <1>8 DEF new

(* Keys that are unique in a table make a match a single entry. *)
LEMMA MatchIsOne ==
    ASSUME NEW ht, IsHt(ht), HtPlaced(ht), ht.size > 0, NEW k \in Keys,
           \A e, f \in Entries(ht) : e.key = f.key => e = f,
           Match(ht, k) # {}
    PROVE  \E e \in Entries(ht) : Match(ht, k) = {e} /\ e.key = k
  BY MatchIsAll

(* Unlinking removes exactly the entry of the key. *)
LEMMA UnlinkRemoves ==
    ASSUME NEW ht, IsHt(ht), HtPlaced(ht), HtUsed(ht), ht.size > 0,
           NEW k \in Keys,
           \A e, f \in Entries(ht) : e.key = f.key => e = f,
           Match(ht, k) # {}
    PROVE  /\ IsHt(Unlink(ht, k))
           /\ Unlink(ht, k).size = ht.size
           /\ Entries(Unlink(ht, k)) = Entries(ht) \ Match(ht, k)
           /\ HtPlaced(Unlink(ht, k))
           /\ HtUsed(Unlink(ht, k))
           /\ \A b \in 0 .. ht.size - 1 :
                 ht.table[b] = {} => Unlink(ht, k).table[b] = {}
<1> DEFINE i == Bucket(ht, k)
           m == Match(ht, k)
           c == ht.table[i] \ m
           new == Unlink(ht, k)
<1>1. i \in 0 .. ht.size - 1
  BY BucketInTable
<1>2. PICK e \in Entries(ht) : m = {e} /\ e.key = k
  BY MatchIsOne
<1>3. /\ ht.table[i] \in SUBSET Entry
      /\ ht.table[i] \subseteq Entries(ht)
      /\ m \subseteq ht.table[i]
      /\ \A f \in ht.table[i] : Bucket(ht, f.key) = i
  BY <1>1 DEF IsHt, Entries, HtPlaced, Match
<1>4. /\ IsFiniteSet(Entries(ht) \ {e})
      /\ Cardinality(Entries(ht) \ {e}) = ht.used - 1
      /\ Cardinality(Entries(ht) \ {e}) \in Nat
  BY FS_RemoveElement, FS_CardinalityType DEF HtUsed
<1>5. /\ c \in SUBSET Entry
      /\ \A f \in c : Bucket(ht, f.key) = i
      /\ ht.used + (-1) = Cardinality(Entries(ht) \ {e})
  BY <1>3, <1>4 DEF IsHt
<1>6. new = WithChain(ht, i, c, -1)
  BY DEF Unlink
<1> HIDE DEF i, m, c, new
<1>7. /\ IsHt(new) /\ new.size = ht.size /\ new.used = ht.used + (-1)
      /\ \A b \in 0 .. ht.size - 1 :
            new.table[b] = IF b = i THEN c ELSE ht.table[b]
  BY <1>1, <1>4, <1>5, <1>6, ChainUpdate
<1>8. Entries(new) = (Entries(ht) \ ht.table[i]) \cup c /\ HtPlaced(new)
  <2>1. -1 \in Int /\ ht.used + (-1) \in Nat
    BY <1>4, <1>5
  <2>2. \A n \in Int : ht.used + n \in Nat =>
           /\ Entries(WithChain(ht, i, c, n)) = (Entries(ht) \ ht.table[i]) \cup c
           /\ HtPlaced(WithChain(ht, i, c, n))
    BY <1>1, <1>5, ChainReplaced
  <2> QED
    BY <2>1, <2>2, <1>6
<1>9. Entries(new) = Entries(ht) \ m
  BY <1>2, <1>3, <1>8 DEF c
<1>10. HtUsed(new)
  BY <1>2, <1>4, <1>5, <1>7, <1>9 DEF HtUsed
<1>11. ASSUME NEW b \in 0 .. ht.size - 1, ht.table[b] = {}
       PROVE  new.table[b] = {}
  BY <1>7, <1>11 DEF c
<1> QED
  BY <1>7, <1>8, <1>9, <1>10, <1>11 DEF new, m

(* Setting the value of a key that is there replaces its entry. *)
LEMMA SetValReplaces ==
    ASSUME NEW ht, IsHt(ht), HtPlaced(ht), HtUsed(ht), ht.size > 0,
           NEW k \in Keys, NEW v \in Vals,
           \A e, f \in Entries(ht) : e.key = f.key => e = f,
           Match(ht, k) # {}
    PROVE  /\ IsHt(SetVal(ht, k, v))
           /\ SetVal(ht, k, v).size = ht.size
           /\ Entries(SetVal(ht, k, v)) =
                (Entries(ht) \ Match(ht, k)) \cup {[key |-> k, val |-> v]}
           /\ HtPlaced(SetVal(ht, k, v))
           /\ HtUsed(SetVal(ht, k, v))
           /\ \A b \in 0 .. ht.size - 1 :
                 ht.table[b] = {} => SetVal(ht, k, v).table[b] = {}
<1> DEFINE i == Bucket(ht, k)
           m == Match(ht, k)
           n == [key |-> k, val |-> v]
           c == (ht.table[i] \ m) \cup {n}
           new == SetVal(ht, k, v)
<1>1. i \in 0 .. ht.size - 1
  BY BucketInTable
<1>2. PICK e \in Entries(ht) : m = {e} /\ e.key = k
  BY MatchIsOne
<1>3. /\ ht.table[i] \in SUBSET Entry
      /\ ht.table[i] \subseteq Entries(ht)
      /\ m \subseteq ht.table[i]
      /\ \A f \in ht.table[i] : Bucket(ht, f.key) = i
  BY <1>1 DEF IsHt, Entries, HtPlaced, Match
<1>u. ht.used \in Nat /\ ht.used + 0 = ht.used /\ ht.used + 0 \in Nat /\ 0 \in Int
  BY DEF IsHt
<1>n. n \in Entry /\ n.key = k
  BY DEF Entry
<1>4. /\ IsFiniteSet(Entries(ht) \ {e})
      /\ Cardinality(Entries(ht) \ {e}) = ht.used - 1
  BY FS_RemoveElement DEF HtUsed
<1>5. c \in SUBSET Entry /\ \A f \in c : Bucket(ht, f.key) = i
  BY <1>3, <1>n
<1>6. new = WithChain(ht, i, c, 0)
  BY DEF SetVal
<1> HIDE DEF n, i, m, c, new
<1>7. /\ IsHt(new) /\ new.size = ht.size /\ new.used = ht.used
      /\ \A b \in 0 .. ht.size - 1 :
            new.table[b] = IF b = i THEN c ELSE ht.table[b]
  BY <1>1, <1>u, <1>5, <1>6, ChainUpdate
<1>8. Entries(new) = (Entries(ht) \ ht.table[i]) \cup c /\ HtPlaced(new)
  <2>1. /\ Entries(WithChain(ht, i, c, 0)) = (Entries(ht) \ ht.table[i]) \cup c
        /\ HtPlaced(WithChain(ht, i, c, 0))
    BY <1>1, <1>u, <1>5, ChainReplaced
  <2> QED
    BY <2>1, <1>6
<1>9. Entries(new) = (Entries(ht) \ m) \cup {n}
  BY <1>2, <1>3, <1>8 DEF c
<1>10. HtUsed(new)
  <2>1. n \notin Entries(ht) \ {e}
    BY <1>2, <1>n
  <2>2. /\ IsFiniteSet((Entries(ht) \ {e}) \cup {n})
        /\ Cardinality((Entries(ht) \ {e}) \cup {n}) = ht.used - 1 + 1
    BY <2>1, <1>4, FS_AddElement
  <2> QED
    BY <2>2, <1>2, <1>u, <1>7, <1>9 DEF HtUsed
<1>11. ASSUME NEW b \in 0 .. ht.size - 1, ht.table[b] = {}
       PROVE  new.table[b] = {}
  BY <1>2, <1>3, <1>7, <1>11
<1> QED
  BY <1>7, <1>8, <1>9, <1>10, <1>11 DEF new, m, n

(* Taking buckets out of a placed table removes their entries. *)
LEMMA TakeRemoves ==
    ASSUME NEW ht, IsHt(ht), HtPlaced(ht), HtUsed(ht),
           NEW B \in SUBSET (0 .. ht.size - 1),
           NEW S, S = EntriesIn(ht, B),
           NEW new, new = TakeBuckets(ht, B)
    PROVE  /\ IsHt(new)
           /\ new.size = ht.size
           /\ new.used = ht.used - Cardinality(S)
           /\ \A b \in 0 .. ht.size - 1 :
                 new.table[b] = IF b \in B THEN {} ELSE ht.table[b]
           /\ S \subseteq Entries(ht)
           /\ Entries(new) = Entries(ht) \ S
           /\ HtPlaced(new)
           /\ HtUsed(new)
<1> DEFINE t == [b \in 0 .. ht.size - 1 |-> IF b \in B THEN {} ELSE ht.table[b]]
<1>1. /\ ht.table \in [0 .. ht.size - 1 -> SUBSET Entry]
      /\ DOMAIN ht.table = 0 .. ht.size - 1
      /\ ht.size \in Sizes \cup {0}
      /\ ht.used \in Nat
  BY DEF IsHt
<1>2. S \subseteq Entries(ht)
  BY <1>1 DEF Entries, EntriesIn
<1>3. /\ IsFiniteSet(S)
      /\ IsFiniteSet(Entries(ht) \ S)
      /\ Cardinality(Entries(ht) \ S) \in Nat
      /\ Cardinality(Entries(ht) \ S) = ht.used - Cardinality(S)
  <2>1. /\ IsFiniteSet(Entries(ht))
        /\ IsFiniteSet(S)
        /\ Entries(ht) \cap S = S
        /\ ht.used = Cardinality(Entries(ht))
    BY <1>2, FS_Subset DEF HtUsed
  <2>2. /\ IsFiniteSet(Entries(ht) \ S)
        /\ Cardinality(Entries(ht) \ S) =
              Cardinality(Entries(ht)) - Cardinality(Entries(ht) \cap S)
    BY <2>1, FS_Difference
  <2>3. Cardinality(Entries(ht) \ S) \in Nat
    BY <2>2, FS_CardinalityType
  <2> QED
    BY <2>1, <2>2, <2>3
<1>4. new = [table |-> t, size |-> ht.size, used |-> ht.used - Cardinality(S)]
  BY DEF TakeBuckets
<1>5. /\ t \in [0 .. ht.size - 1 -> SUBSET Entry]
      /\ \A b \in 0 .. ht.size - 1 :
            t[b] = IF b \in B THEN {} ELSE ht.table[b]
  BY <1>1
<1> HIDE DEF t
<1>6. /\ new.table = t
      /\ new.size = ht.size
      /\ new.used = ht.used - Cardinality(S)
  BY <1>4
<1>7. IsHt(new)
  BY <1>1, <1>3, <1>4, <1>5, <1>6 DEF IsHt
<1>8. HtPlaced(new)
  BY <1>1, <1>5, <1>6 DEF HtPlaced, Bucket
<1>9. \A b, c \in 0 .. ht.size - 1 : \A e \in ht.table[b] :
         e \in ht.table[c] => b = c
  BY <1>1 DEF HtPlaced
<1>10. Entries(new) = Entries(ht) \ S
  <2>1. ASSUME NEW e \in Entries(new) PROVE e \in Entries(ht) \ S
    <3>1. PICK b \in 0 .. ht.size - 1 : e \in t[b]
      BY <2>1, <1>5, <1>6 DEF Entries
    <3>2. b \notin B /\ e \in ht.table[b]
      BY <3>1, <1>5
    <3>3. e \notin S
      BY <3>2, <1>9 DEF EntriesIn
    <3> QED
      BY <3>2, <3>3, <1>1 DEF Entries
  <2>2. ASSUME NEW e \in Entries(ht) \ S PROVE e \in Entries(new)
    <3>1. PICK b \in 0 .. ht.size - 1 : e \in ht.table[b]
      BY <2>2, <1>1 DEF Entries
    <3>2. b \notin B
      BY <3>1, <2>2 DEF EntriesIn
    <3>3. e \in t[b] /\ b \in DOMAIN t
      BY <3>1, <3>2, <1>5
    <3> QED
      BY <3>3, <1>6 DEF Entries
  <2> QED
    BY <2>1, <2>2
<1>11. HtUsed(new)
  BY <1>3, <1>6, <1>10 DEF HtUsed
<1> QED
  BY <1>2, <1>5, <1>6, <1>7, <1>8, <1>10, <1>11

(* Linking a set of new entries adds, counts and places them all. *)
LEMMA LinkAllAdds ==
    ASSUME NEW ht, IsHt(ht), HtPlaced(ht), HtUsed(ht), ht.size > 0,
           NEW S \in SUBSET Entry, IsFiniteSet(S), S \cap Entries(ht) = {}
    PROVE  LET new == LinkAll(ht, S)
           IN  /\ IsHt(new)
               /\ new.size = ht.size
               /\ Entries(new) = Entries(ht) \cup S
               /\ HtPlaced(new)
               /\ HtUsed(new)
<1> DEFINE new == LinkAll(ht, S)
           t == [b \in 0 .. ht.size - 1 |->
                   ht.table[b] \cup {e \in S : Bucket(ht, e.key) = b}]
<1>1. /\ ht.table \in [0 .. ht.size - 1 -> SUBSET Entry]
      /\ DOMAIN ht.table = 0 .. ht.size - 1
      /\ ht.size \in Sizes \cup {0}
      /\ ht.used \in Nat
  BY DEF IsHt
<1>2. new = [table |-> t, size |-> ht.size, used |-> ht.used + Cardinality(S)]
  BY DEF LinkAll
<1>3. /\ t \in [0 .. ht.size - 1 -> SUBSET Entry]
      /\ \A b \in 0 .. ht.size - 1 :
            t[b] = ht.table[b] \cup {e \in S : Bucket(ht, e.key) = b}
  BY <1>1
<1> HIDE DEF t, new
<1>4. /\ new.table = t
      /\ new.size = ht.size
      /\ new.used = ht.used + Cardinality(S)
      /\ Cardinality(S) \in Nat
  BY <1>2, FS_CardinalityType
<1>5. IsHt(new)
  BY <1>1, <1>2, <1>3, <1>4 DEF IsHt
<1>6. HtPlaced(new)
  <2> SUFFICES ASSUME NEW b \in 0 .. ht.size - 1, NEW e \in t[b]
               PROVE  Bucket(ht, e.key) = b
    BY <1>3, <1>4 DEF HtPlaced, Bucket
  <2> QED
    BY <1>1, <1>3 DEF HtPlaced
<1>7. Entries(new) = Entries(ht) \cup S
  <2>1. ASSUME NEW e \in Entries(new) PROVE e \in Entries(ht) \cup S
    <3>1. PICK b \in 0 .. ht.size - 1 : e \in t[b]
      BY <2>1, <1>3, <1>4 DEF Entries
    <3> QED
      BY <3>1, <1>1, <1>3 DEF Entries
  <2>2. ASSUME NEW e \in Entries(ht) PROVE e \in Entries(new)
    <3>1. PICK b \in 0 .. ht.size - 1 : e \in ht.table[b]
      BY <2>2, <1>1 DEF Entries
    <3> QED
      BY <3>1, <1>3, <1>4 DEF Entries
  <2>3. ASSUME NEW e \in S PROVE e \in Entries(new)
    <3>1. Bucket(ht, e.key) \in 0 .. ht.size - 1
      BY BucketInTable DEF Entry
    <3>2. e \in t[Bucket(ht, e.key)]
      BY <3>1, <1>3
    <3> QED
      BY <3>1, <3>2, <1>3, <1>4 DEF Entries
  <2> QED
    BY <2>1, <2>2, <2>3
<1>8. HtUsed(new)
  <2>1. /\ IsFiniteSet(Entries(ht) \cup S)
        /\ Cardinality(Entries(ht) \cup S) =
             Cardinality(Entries(ht)) + Cardinality(S) - Cardinality(Entries(ht) \cap S)
    BY FS_Union DEF HtUsed
  <2>2. Cardinality(Entries(ht) \cap S) = 0
    <3>1. Entries(ht) \cap S = {}
      OBVIOUS
    <3> QED
      BY <3>1, FS_EmptySet
  <2> QED
    BY <2>1, <2>2, <1>1, <1>4, <1>7 DEF HtUsed
<1> QED
  BY <1>4, <1>5, <1>6, <1>7, <1>8 DEF new

-----------------------------------------------------------------------------
(* Rehashing. *)

(* What a well-formed dict gives to a proof. *)
LEMMA WellFormedFields ==
    ASSUME NEW x, WellFormed(x)
    PROVE  /\ IsDict(x) /\ IsHt(x.ht0) /\ IsHt(x.ht1)
           /\ x.ht0.size \in Nat /\ x.ht1.size \in Nat
           /\ x.ht0.used \in Nat /\ x.ht1.used \in Nat
           /\ x.rehashidx \in Nat \cup {-1} /\ x.iterators \in Nat
           /\ HtPlaced(x.ht0) /\ HtUsed(x.ht0)
           /\ HtPlaced(x.ht1) /\ HtUsed(x.ht1)
           /\ \A e, f \in Contents(x) : e.key = f.key => e = f
           /\ Entries(x.ht0) \cap Entries(x.ht1) = {}
<1>1. IsDict(x) /\ Unique(x)
  BY DEF WellFormed
<1>2. IsHt(x.ht0) /\ IsHt(x.ht1)
  BY <1>1 DEF IsDict
<1>3. /\ x.ht0.size \in Nat /\ x.ht1.size \in Nat
      /\ x.ht0.used \in Nat /\ x.ht1.used \in Nat
  BY <1>2, HtNumbers
<1>4. x.rehashidx \in Nat \cup {-1} /\ x.iterators \in Nat
  BY <1>1 DEF IsDict
<1> QED
  BY <1>1, <1>2, <1>3, <1>4 DEF WellFormed, Unique

(* What it gives while rehashing. *)
LEMMA RehashingFields ==
    ASSUME NEW x, WellFormed(x), dictIsRehashing(x)
    PROVE  /\ x.rehashidx \in Nat
           /\ x.ht0.size > 0 /\ x.ht1.size > 0
           /\ x.rehashidx < x.ht0.size
           /\ \A b \in 0 .. x.rehashidx - 1 : x.ht0.table[b] = {}
<1>1. Shape(x)
  BY DEF WellFormed
<1>2. x.rehashidx \in Nat
  BY WellFormedFields DEF dictIsRehashing
<1> QED
  BY <1>1, <1>2 DEF Shape

(* The buckets a rehash visits are buckets of ht0. *)
LEMMA RehashEndInTable ==
    ASSUME NEW x, WellFormed(x), dictIsRehashing(x), NEW n
    PROVE  RehashEnd(x, n) \in x.rehashidx .. x.ht0.size
<1> DEFINE S == {e \in x.rehashidx .. x.ht0.size : LoopStops(x, n, e)}
<1>1. /\ x.rehashidx \in Nat
      /\ x.ht0.size \in Nat
      /\ x.rehashidx < x.ht0.size
  BY WellFormedFields, RehashingFields
<1>2. x.ht0.size \in S
  BY <1>1 DEF LoopStops
<1>3. S \in SUBSET Nat
  BY <1>1
<1> HIDE DEF S
<1>4. Min(S) \in S
  BY <1>2, <1>3, MinOfNat
<1> QED
  BY <1>4 DEF RehashEnd, S

(* Moving buckets moves their entries: nothing is lost or duplicated, the    *)
(* counters follow, and everything below the new index is empty.             *)
LEMMA MoveBucketsMoves ==
    ASSUME NEW x, WellFormed(x), dictIsRehashing(x),
           NEW e \in x.rehashidx .. x.ht0.size
    PROVE  LET y == MoveBuckets(x, e)
           IN  /\ y = [ht0 |-> y.ht0, ht1 |-> y.ht1, rehashidx |-> e,
                       iterators |-> x.iterators]
               /\ IsHt(y.ht0) /\ HtPlaced(y.ht0) /\ HtUsed(y.ht0)
               /\ IsHt(y.ht1) /\ HtPlaced(y.ht1) /\ HtUsed(y.ht1)
               /\ y.ht0.size = x.ht0.size
               /\ y.ht1.size = x.ht1.size
               /\ Contents(y) = Contents(x)
               /\ Entries(y.ht0) \cap Entries(y.ht1) = {}
               /\ \A b \in 0 .. e-1 : y.ht0.table[b] = {}
<1> DEFINE B == x.rehashidx .. e-1
           S == EntriesIn(x.ht0, B)
           h0 == TakeBuckets(x.ht0, B)
           h1 == LinkAll(x.ht1, S)
           y == MoveBuckets(x, e)
<1>1. /\ x.rehashidx \in Nat
      /\ x.ht0.size \in Nat
      /\ e \in Nat
      /\ IsDict(x) /\ IsHt(x.ht0) /\ IsHt(x.ht1)
      /\ x.ht1.size > 0
      /\ HtPlaced(x.ht0) /\ HtUsed(x.ht0)
      /\ HtPlaced(x.ht1) /\ HtUsed(x.ht1)
      /\ Entries(x.ht0) \cap Entries(x.ht1) = {}
      /\ \A b \in 0 .. x.rehashidx - 1 : x.ht0.table[b] = {}
  BY WellFormedFields, RehashingFields
<1>2. B \in SUBSET (0 .. x.ht0.size - 1)
  BY <1>1
<1>3. y = [ht0 |-> h0, ht1 |-> h1, rehashidx |-> e, iterators |-> x.iterators]
  BY DEF MoveBuckets, Visited, WithTables
<1>4. /\ IsHt(h0) /\ HtPlaced(h0) /\ HtUsed(h0)
      /\ h0.size = x.ht0.size
      /\ \A b \in 0 .. x.ht0.size - 1 :
            h0.table[b] = IF b \in B THEN {} ELSE x.ht0.table[b]
      /\ S \subseteq Entries(x.ht0)
      /\ Entries(h0) = Entries(x.ht0) \ S
  <2>1. S = EntriesIn(x.ht0, B) /\ h0 = TakeBuckets(x.ht0, B)
    OBVIOUS
  <2> HIDE DEF B, S, h0, h1, y
  <2> QED BY <2>1, <1>1, <1>2, TakeRemoves
<1>5. IsFiniteSet(S) /\ S \in SUBSET Entry /\ S \cap Entries(x.ht1) = {}
  <2>1. IsFiniteSet(Entries(x.ht0)) /\ Entries(x.ht0) \subseteq Entry
    BY <1>1 DEF HtUsed, Entries, IsHt
  <2> HIDE DEF S, h0, h1, y
  <2> QED
    BY <2>1, <1>1, <1>4, FS_Subset
<1> HIDE DEF S, h0
<1>6. /\ IsHt(h1) /\ HtPlaced(h1) /\ HtUsed(h1)
      /\ h1.size = x.ht1.size
      /\ Entries(h1) = Entries(x.ht1) \cup S
  BY <1>1, <1>5, LinkAllAdds
<1> HIDE DEF h1, y
<1>7. y.ht0 = h0 /\ y.ht1 = h1
  BY <1>3
<1>8. /\ Contents(y) = Contents(x)
      /\ Entries(y.ht0) \cap Entries(y.ht1) = {}
  BY <1>1, <1>4, <1>5, <1>6, <1>7 DEF Contents
<1>9. ASSUME NEW b \in 0 .. e-1 PROVE y.ht0.table[b] = {}
  <2>1. b \in 0 .. x.ht0.size - 1 /\ (b \in B \/ b \in 0 .. x.rehashidx - 1)
    BY <1>1
  <2> HIDE DEF B
  <2> QED
    BY <2>1, <1>1, <1>4, <1>7
<1> QED
  BY <1>3, <1>4, <1>6, <1>7, <1>8, <1>9 DEF y

(* dictRehash keeps a dict well-formed and its contents the same. *)
LEMMA RehashPreserves ==
    ASSUME NEW x, WellFormed(x), NEW n
    PROVE  /\ WellFormed(dictRehash(x, n))
           /\ Contents(dictRehash(x, n)) = Contents(x)
           /\ dictRehash(x, n).iterators = x.iterators
<1>1. CASE ~dictIsRehashing(x)
  BY <1>1 DEF dictRehash
<1>2. CASE dictIsRehashing(x)
  <2> DEFINE e == RehashEnd(x, n)
             y == MoveBuckets(x, e)
             z == FinishRehash(y)
  <2>1. e \in x.rehashidx .. x.ht0.size
    BY <1>2, RehashEndInTable
  <2> HIDE DEF e
  <2>2. /\ y = [ht0 |-> y.ht0, ht1 |-> y.ht1, rehashidx |-> e,
                iterators |-> x.iterators]
        /\ IsHt(y.ht0) /\ HtPlaced(y.ht0) /\ HtUsed(y.ht0)
        /\ IsHt(y.ht1) /\ HtPlaced(y.ht1) /\ HtUsed(y.ht1)
        /\ y.ht0.size = x.ht0.size
        /\ y.ht1.size = x.ht1.size
        /\ Contents(y) = Contents(x)
        /\ Entries(y.ht0) \cap Entries(y.ht1) = {}
        /\ \A b \in 0 .. e-1 : y.ht0.table[b] = {}
    BY <1>2, <2>1, MoveBucketsMoves
  <2>3. dictRehash(x, n) = z
    BY <1>2 DEF dictRehash, e
  <2> HIDE DEF y, z
  <2>4. /\ e \in Nat /\ y.rehashidx = e /\ y.iterators = x.iterators
        /\ x.iterators \in Nat
        /\ x.ht0.size \in Nat /\ x.ht0.size > 0 /\ x.ht1.size > 0
        /\ \A a, b \in Contents(x) : a.key = b.key => a = b
    BY <1>2, <2>1, <2>2, WellFormedFields, RehashingFields
  <2>5. CASE y.ht0.used = 0
    <3>1. z = [ht0 |-> y.ht1, ht1 |-> NewHt(0), rehashidx |-> -1,
               iterators |-> y.iterators]
      BY <2>5 DEF FinishRehash, WithTables, z
    <3>2. /\ z.ht0 = y.ht1 /\ z.ht1 = NewHt(0) /\ z.rehashidx = -1
          /\ z.iterators = x.iterators
      BY <3>1, <2>4
    <3>3. Entries(y.ht0) = {}
      BY <2>2, <2>5, FS_EmptySet DEF HtUsed
    <3>4. /\ IsHt(z.ht1) /\ Entries(z.ht1) = {} /\ HtPlaced(z.ht1)
          /\ HtUsed(z.ht1)
      BY <3>2, EmptyTable
    <3>5. Contents(z) = Contents(x)
      BY <2>2, <3>2, <3>3, <3>4 DEF Contents
    <3>6. IsDict(z)
      BY <2>2, <2>4, <3>1, <3>2, <3>4 DEF IsDict
    <3>7. Unique(z) /\ Shape(z)
      BY <2>4, <3>2, <3>4, <3>5 DEF Unique, Shape, dictIsRehashing
    <3> QED
      BY <2>2, <2>3, <3>2, <3>4, <3>5, <3>6, <3>7 DEF WellFormed
  <2>6. CASE y.ht0.used # 0
    <3>1. z = y
      BY <2>6 DEF FinishRehash, z
    <3>2. e < x.ht0.size
      <4>1. Entries(y.ht0) # {}
        BY <2>2, <2>6, FS_EmptySet DEF HtUsed
      <4>2. PICK b \in 0 .. x.ht0.size - 1 : y.ht0.table[b] # {}
        <5>1. DOMAIN y.ht0.table = 0 .. x.ht0.size - 1
          BY <2>2 DEF IsHt
        <5> QED
          BY <4>1, <5>1 DEF Entries
      <4>3. b \notin 0 .. e-1
        BY <4>2, <2>2
      <4> QED
        BY <4>3, <2>1, <2>4
    <3>3. IsDict(y)
      BY <2>2, <2>4 DEF IsDict
    <3>4. Unique(y) /\ Shape(y)
      BY <2>2, <2>4, <3>2 DEF Unique, Shape, dictIsRehashing
    <3> QED
      BY <2>2, <2>3, <2>4, <3>1, <3>3, <3>4 DEF WellFormed
  <2> QED
    BY <2>5, <2>6
<1> QED
  BY <1>1, <1>2

(* The step lookups and updates make binds nothing new and loses nothing. *)
LEMMA RehashStepPreserves ==
    ASSUME NEW x, WellFormed(x)
    PROVE  /\ WellFormed(RehashStep(x))
           /\ Contents(RehashStep(x)) = Contents(x)
           /\ RehashStep(x).iterators = x.iterators
  BY RehashPreserves DEF RehashStep

-----------------------------------------------------------------------------
(* Expansion. *)

(* The sizes are positive numbers, the first and the largest among them. *)
LEMMA SizesPositive ==
    /\ MaxSize \in Sizes /\ DICT_HT_INITIAL_SIZE \in Sizes
    /\ \A s \in Sizes : s \in Nat /\ s > 0
<1>1. Sizes \subseteq Nat \ {0}
  BY DictAssumption
<1>2. MaxSize \in Sizes /\ DICT_HT_INITIAL_SIZE \in Sizes
  BY DictAssumption
<1> QED
  BY <1>1, <1>2

(* _dictNextPower returns a size a table can have. *)
LEMMA NextPowerInSizes ==
    ASSUME NEW n \in Nat
    PROVE  NextPower(n) \in Sizes
<1> DEFINE S == {s \in Sizes : s >= n}
<1>1. CASE n >= MaxSize - 1
  BY <1>1, SizesPositive DEF NextPower
<1>2. CASE ~(n >= MaxSize - 1)
  <2>1. MaxSize \in S /\ S \in SUBSET Nat
    BY <1>2, SizesPositive
  <2> HIDE DEF S
  <2>2. Min(S) \in S
    BY <2>1, MinOfNat
  <2> QED
    BY <1>2, <2>2 DEF NextPower, S
<1> QED
  BY <1>1, <1>2

(* dictExpand keeps a dict well-formed and its contents the same. *)
LEMMA ExpandPreserves ==
    ASSUME NEW x, WellFormed(x), NEW n \in Nat
    PROVE  /\ WellFormed(dictExpand(x, n))
           /\ Contents(dictExpand(x, n)) = Contents(x)
           /\ dictExpand(x, n).iterators = x.iterators
<1> DEFINE s == NextPower(n)
           y == dictExpand(x, n)
<1>1. s \in Sizes /\ s \in Nat /\ s > 0
  BY NextPowerInSizes, SizesPositive
<1>2. /\ IsHt(NewHt(s)) /\ Entries(NewHt(s)) = {} /\ HtPlaced(NewHt(s))
      /\ HtUsed(NewHt(s)) /\ NewHt(s).size = s
  <2>1. NewHt(s).size = s
    BY DEF NewHt
  <2> QED
    BY <1>1, <2>1, EmptyTable
<1> HIDE DEF s
<1>3. CASE dictExpandErr(x, n)
  BY <1>3 DEF dictExpand
<1>4. CASE ~dictExpandErr(x, n)
  <2>1. ~dictIsRehashing(x) /\ x.ht1 = NewHt(0) /\ x.rehashidx = -1
    BY <1>4 DEF dictExpandErr, WellFormed, Shape, dictIsRehashing
  <2>2. Entries(x.ht1) = {}
    BY <2>1, EmptyTable
  <2>3. CASE x.ht0.size = 0
    <3>1. y = [ht0 |-> NewHt(s), ht1 |-> x.ht1, rehashidx |-> x.rehashidx,
               iterators |-> x.iterators]
      BY <1>4, <2>3 DEF dictExpand, WithHt0, WithTables, s
    <3> HIDE DEF y
    <3>2. /\ y.ht0 = NewHt(s) /\ y.ht1 = x.ht1 /\ y.rehashidx = x.rehashidx
          /\ y.iterators = x.iterators
      BY <3>1
    <3>3. Entries(x.ht0) = {}
      <4>1. IsHt(x.ht0)
        BY WellFormedFields
      <4>2. DOMAIN x.ht0.table = 0 .. x.ht0.size - 1
        BY <4>1 DEF IsHt
      <4>3. DOMAIN x.ht0.table = {}
        BY <2>3, <4>2
      <4> QED
        BY <4>3 DEF Entries
    <3>4. Contents(y) = Contents(x)
      BY <1>2, <2>2, <3>2, <3>3 DEF Contents
    <3>5. IsDict(y)
      BY <1>2, <3>1, <3>2, WellFormedFields DEF IsDict
    <3>6. Unique(y) /\ Shape(y)
      BY <1>2, <2>1, <2>2, <3>2, <3>4, WellFormedFields
         DEF Unique, Shape, dictIsRehashing
    <3> QED
      BY <1>2, <3>2, <3>4, <3>5, <3>6, WellFormedFields DEF WellFormed, y
  <2>4. CASE x.ht0.size # 0
    <3>1. y = [ht0 |-> x.ht0, ht1 |-> NewHt(s), rehashidx |-> 0,
               iterators |-> x.iterators]
      BY <1>4, <2>4 DEF dictExpand, WithTables, s
    <3> HIDE DEF y
    <3>2. /\ y.ht0 = x.ht0 /\ y.ht1 = NewHt(s) /\ y.rehashidx = 0
          /\ y.iterators = x.iterators
      BY <3>1
    <3>4. Contents(y) = Contents(x)
      BY <1>2, <2>2, <3>2 DEF Contents
    <3>5. IsDict(y)
      BY <1>2, <3>1, <3>2, WellFormedFields DEF IsDict
    <3>6. Unique(y)
      BY <1>2, <3>2, <3>4, WellFormedFields DEF Unique
    <3>7. Shape(y)
      <4>1. x.ht0.size \in Nat
        BY WellFormedFields
      <4> QED
        BY <1>1, <1>2, <2>4, <3>2, <4>1 DEF Shape, dictIsRehashing
    <3> QED
      BY <1>2, <3>2, <3>4, <3>5, <3>6, <3>7, WellFormedFields DEF WellFormed, y
  <2> QED
    BY <2>3, <2>4
<1> QED
  BY <1>3, <1>4

-----------------------------------------------------------------------------
(* Replacing one table by another of the same size. *)

(* Replacing ht0 by a sound table of its size keeps a dict well-formed. *)
LEMMA WithHt0WellFormed ==
    ASSUME NEW x, WellFormed(x), NEW h, IsHt(h), HtPlaced(h), HtUsed(h),
           h.size = x.ht0.size,
           \A e, f \in Entries(h) \cup Entries(x.ht1) : e.key = f.key => e = f,
           Entries(h) \cap Entries(x.ht1) = {},
           dictIsRehashing(x) =>
              \A b \in 0 .. x.ht0.size - 1 : x.ht0.table[b] = {} => h.table[b] = {}
    PROVE  /\ WellFormed(WithHt0(x, h))
           /\ Contents(WithHt0(x, h)) = Entries(h) \cup Entries(x.ht1)
           /\ WithHt0(x, h).iterators = x.iterators
<1> DEFINE y == WithHt0(x, h)
<1>1. y = [ht0 |-> h, ht1 |-> x.ht1, rehashidx |-> x.rehashidx,
           iterators |-> x.iterators]
  BY DEF WithHt0, WithTables
<1> HIDE DEF y
<1>2. /\ y.ht0 = h /\ y.ht1 = x.ht1 /\ y.rehashidx = x.rehashidx
      /\ y.iterators = x.iterators
  BY <1>1
<1>3. IsDict(y)
  BY <1>1, <1>2, WellFormedFields DEF IsDict
<1>4. Contents(y) = Entries(h) \cup Entries(x.ht1)
  BY <1>2 DEF Contents
<1>5. Unique(y)
  BY <1>2, <1>4 DEF Unique
<1>6. Shape(y)
  <2>1. CASE ~dictIsRehashing(x)
    BY <2>1, <1>2 DEF Shape, dictIsRehashing, WellFormed
  <2>2. CASE dictIsRehashing(x)
    <3>1. /\ x.rehashidx \in Nat /\ x.ht0.size \in Nat
          /\ x.ht0.size > 0 /\ x.ht1.size > 0
          /\ x.rehashidx < x.ht0.size
          /\ \A b \in 0 .. x.rehashidx - 1 : x.ht0.table[b] = {}
      BY <2>2, RehashingFields, WellFormedFields
    <3>2. \A b \in 0 .. x.rehashidx - 1 :
             b \in 0 .. x.ht0.size - 1 /\ h.table[b] = {}
      BY <2>2, <3>1
    <3> QED
      BY <2>2, <3>1, <3>2, <1>2 DEF Shape, dictIsRehashing
  <2> QED
    BY <2>1, <2>2
<1> QED
  BY <1>2, <1>3, <1>4, <1>5, <1>6, WellFormedFields DEF WellFormed, y

(* Replacing ht1, during a rehash, by a sound table of its size does too. *)
LEMMA WithHt1WellFormed ==
    ASSUME NEW x, WellFormed(x), dictIsRehashing(x),
           NEW h, IsHt(h), HtPlaced(h), HtUsed(h), h.size = x.ht1.size,
           \A e, f \in Entries(x.ht0) \cup Entries(h) : e.key = f.key => e = f,
           Entries(x.ht0) \cap Entries(h) = {}
    PROVE  /\ WellFormed(WithHt1(x, h))
           /\ Contents(WithHt1(x, h)) = Entries(x.ht0) \cup Entries(h)
           /\ WithHt1(x, h).iterators = x.iterators
<1> DEFINE y == WithHt1(x, h)
<1>1. y = [ht0 |-> x.ht0, ht1 |-> h, rehashidx |-> x.rehashidx,
           iterators |-> x.iterators]
  BY DEF WithHt1, WithTables
<1> HIDE DEF y
<1>2. /\ y.ht0 = x.ht0 /\ y.ht1 = h /\ y.rehashidx = x.rehashidx
      /\ y.iterators = x.iterators
  BY <1>1
<1>3. IsDict(y)
  BY <1>1, <1>2, WellFormedFields DEF IsDict
<1>4. Contents(y) = Entries(x.ht0) \cup Entries(h)
  BY <1>2 DEF Contents
<1>5. Unique(y)
  BY <1>2, <1>4 DEF Unique
<1>6. Shape(y)
  BY <1>2, RehashingFields DEF Shape, dictIsRehashing
<1> QED
  BY <1>2, <1>3, <1>4, <1>5, <1>6, WellFormedFields DEF WellFormed, y

-----------------------------------------------------------------------------
(* Lookup. *)

(* A table without buckets holds nothing, and only an empty dict has one.    *)
LEMMA NonEmptyHasTable ==
    ASSUME NEW x, WellFormed(x), Contents(x) # {}
    PROVE  x.ht0.size > 0
<1> SUFFICES ASSUME x.ht0.size = 0 PROVE FALSE
  BY WellFormedFields
<1>1. ~dictIsRehashing(x)
  BY RehashingFields
<1>2. x.ht1 = NewHt(0)
  BY <1>1 DEF WellFormed, Shape
<1>3. Entries(x.ht1) = {}
  BY <1>2, EmptyTable
<1>4. Entries(x.ht0) = {}
  <2>1. IsHt(x.ht0)
    BY WellFormedFields
  <2>2. DOMAIN x.ht0.table = 0 .. x.ht0.size - 1
    BY <2>1 DEF IsHt
  <2>3. DOMAIN x.ht0.table = {}
    BY <2>2
  <2> QED
    BY <2>3 DEF Entries
<1> QED
  BY <1>3, <1>4 DEF Contents

(* dictSize is 0 exactly when nothing is bound. *)
LEMMA SizeZeroIsEmpty ==
    ASSUME NEW x, WellFormed(x)
    PROVE  (dictSize(x) = 0) <=> (Contents(x) = {})
<1>1. /\ x.ht0.used \in Nat /\ x.ht1.used \in Nat
      /\ HtUsed(x.ht0) /\ HtUsed(x.ht1)
  BY WellFormedFields
<1>2. /\ (x.ht0.used = 0) <=> (Entries(x.ht0) = {})
      /\ (x.ht1.used = 0) <=> (Entries(x.ht1) = {})
  BY <1>1, FS_EmptySet DEF HtUsed
<1>3. (dictSize(x) = 0) <=> (x.ht0.used = 0 /\ x.ht1.used = 0)
  BY <1>1 DEF dictSize
<1>4. (Contents(x) = {}) <=> (Entries(x.ht0) = {} /\ Entries(x.ht1) = {})
  BY DEF Contents
<1> QED
  BY <1>2, <1>3, <1>4

(* The search of the two tables finds exactly the entry bound to the key.    *)
LEMMA SearchFinds ==
    ASSUME NEW x, WellFormed(x), x.ht0.size > 0, NEW k \in Keys
    PROVE  Search(x, k) = {e \in Contents(x) : e.key = k}
<1>1. Match(x.ht0, k) = {e \in Entries(x.ht0) : e.key = k}
  BY WellFormedFields, MatchIsAll
<1>2. CASE dictIsRehashing(x)
  <2>1. Match(x.ht1, k) = {e \in Entries(x.ht1) : e.key = k}
    BY <1>2, WellFormedFields, RehashingFields, MatchIsAll
  <2>2. CASE Match(x.ht0, k) = {}
    BY <1>1, <1>2, <2>1, <2>2 DEF Search, Contents
  <2>3. CASE Match(x.ht0, k) # {}
    <3>1. \A f \in Entries(x.ht1) : f.key # k
      BY <1>1, <2>3, WellFormedFields DEF Contents
    <3> QED
      BY <1>1, <2>3, <3>1 DEF Search, Contents
  <2> QED
    BY <2>2, <2>3
<1>3. CASE ~dictIsRehashing(x)
  <2>1. Entries(x.ht1) = {}
    BY <1>3, EmptyTable DEF WellFormed, Shape
  <2> QED
    BY <1>1, <1>3, <2>1 DEF Search, Contents
<1> QED
  BY <1>2, <1>3

(* dictFind returns the entry bound to the key and changes no binding.       *)
LEMMA FindCorrect ==
    ASSUME NEW x, WellFormed(x), NEW k \in Keys
    PROVE  /\ WellFormed(AfterFind(x))
           /\ Contents(AfterFind(x)) = Contents(x)
           /\ AfterFind(x).iterators = x.iterators
           /\ dictFind(x, k) = {e \in Contents(x) : e.key = k}
<1>1. /\ WellFormed(AfterFind(x))
      /\ Contents(AfterFind(x)) = Contents(x)
      /\ AfterFind(x).iterators = x.iterators
  BY RehashStepPreserves DEF AfterFind
<1>2. CASE dictSize(x) = 0
  BY <1>1, <1>2, SizeZeroIsEmpty DEF dictFind
<1>3. CASE dictSize(x) # 0
  <2>1. Contents(AfterFind(x)) # {}
    BY <1>1, <1>3, SizeZeroIsEmpty
  <2>2. Search(AfterFind(x), k) = {e \in Contents(x) : e.key = k}
    BY <1>1, <2>1, NonEmptyHasTable, SearchFinds
  <2> QED
    BY <1>1, <1>3, <2>2 DEF dictFind
<1> QED
  BY <1>2, <1>3

-----------------------------------------------------------------------------
(* Updates. *)

(* Distinct keys: a table has no more entries than there are keys. *)
LEMMA UsedBounded ==
    ASSUME NEW x, WellFormed(x)
    PROVE  /\ x.ht0.used <= Cardinality(Keys)
           /\ Cardinality(Keys) \in Nat
<1> DEFINE E == Entries(x.ht0)
           f == [e \in E |-> e.key]
<1>1. IsFiniteSet(Keys) /\ IsHt(x.ht0) /\ HtUsed(x.ht0)
  BY DictAssumption, WellFormedFields
<1>2. E \subseteq Entry
  BY <1>1 DEF IsHt, Entries
<1>3. \A e, g \in E : e.key = g.key => e = g
  BY WellFormedFields DEF Contents
<1> HIDE DEF E
<1>4. f \in [E -> Keys]
  BY <1>2 DEF Entry
<1>5. f \in Injection(E, Keys)
  BY <1>3, <1>4 DEF Injection, IsInjective
<1> HIDE DEF f
<1>6. Cardinality(E) <= Cardinality(Keys)
  BY <1>1, <1>5, FS_Injection
<1> QED
  BY <1>1, <1>6, FS_CardinalityType DEF HtUsed, E

(* The expansion before an insertion never fails, whatever the load. *)
LEMMA ExpandNeverFails ==
    ASSUME NEW x, WellFormed(x), NEW can \in BOOLEAN
    PROVE  ~ExpandIfNeededErr(x, can)
<1> SUFFICES ASSUME NeedsExpand(x, can), dictExpandErr(x, ExpandTarget(x))
             PROVE  FALSE
  BY DEF ExpandIfNeededErr
<1>1. ~dictIsRehashing(x) /\ x.ht0.size \in Nat /\ x.ht0.used \in Nat
  BY WellFormedFields DEF NeedsExpand
<1>2. CASE x.ht0.size = 0
  <2>1. ExpandTarget(x) = DICT_HT_INITIAL_SIZE
    BY <1>2 DEF ExpandTarget
  <2>2. /\ DICT_HT_INITIAL_SIZE \in Nat
        /\ DICT_HT_INITIAL_SIZE > 0
        /\ NextPower(DICT_HT_INITIAL_SIZE) # 0
    BY SizesPositive, NextPowerInSizes
  <2>3. x.ht0.used = 0
    <3>1. Contents(x) = {}
      BY <1>2, NonEmptyHasTable
    <3> QED
      BY <3>1, SizeZeroIsEmpty, WellFormedFields DEF dictSize
  <2> QED
    BY <1>1, <1>2, <2>1, <2>2, <2>3 DEF dictExpandErr
<1>3. CASE x.ht0.size # 0
  <2> DEFINE t == x.ht0.used * 2
             S == {s \in Sizes : s >= t}
  <2>1. ExpandTarget(x) = t /\ x.ht0.used >= x.ht0.size
    BY <1>3 DEF ExpandTarget, NeedsExpand
  <2>2. 2 * Cardinality(Keys) < MaxSize - 1
    BY DictAssumption
  <2>3. t \in Nat /\ t >= x.ht0.used /\ t > x.ht0.size /\ t < MaxSize - 1
    BY <1>1, <1>3, <2>1, <2>2, UsedBounded, SizesPositive
  <2>4. MaxSize \in S /\ S \in SUBSET Nat
    BY <2>3, SizesPositive
  <2> HIDE DEF S
  <2>5. Min(S) \in S
    BY <2>4, MinOfNat
  <2>6. NextPower(t) = Min(S)
    BY <2>3, SizesPositive DEF NextPower, S
  <2>7. NextPower(t) \in Nat /\ NextPower(t) >= t
    BY <2>5, <2>6, SizesPositive DEF S
  <2> HIDE DEF t
  <2> QED
    BY <1>1, <2>1, <2>3, <2>7 DEF dictExpandErr
<1> QED
  BY <1>2, <1>3

(* The dict an insertion works on holds the same bindings and has a table.   *)
LEMMA PreparedCorrect ==
    ASSUME NEW x, WellFormed(x), NEW can \in BOOLEAN, NEW k \in Keys
    PROVE  /\ WellFormed(Prepared(x, can))
           /\ Contents(Prepared(x, can)) = Contents(x)
           /\ Prepared(x, can).iterators = x.iterators
           /\ Prepared(x, can).ht0.size > 0
           /\ Search(Prepared(x, can), k) = {e \in Contents(x) : e.key = k}
           /\ NoKeyIndex(x, k, can) <=> {e \in Contents(x) : e.key = k} # {}
<1> DEFINE y == RehashStep(x)
           z == Prepared(x, can)
<1>1. WellFormed(y) /\ Contents(y) = Contents(x) /\ y.iterators = x.iterators
  BY RehashStepPreserves
<1>2. z = ExpandIfNeeded(y, can)
  BY DEF Prepared
<1> HIDE DEF y, z
<1>3. ExpandTarget(y) \in Nat
  BY <1>1, WellFormedFields, SizesPositive DEF ExpandTarget
<1>4. WellFormed(z) /\ Contents(z) = Contents(x) /\ z.iterators = x.iterators
  BY <1>1, <1>2, <1>3, ExpandPreserves DEF ExpandIfNeeded
<1>5. ~ExpandIfNeededErr(y, can)
  BY <1>1, ExpandNeverFails
<1>6. z.ht0.size > 0
  <2>1. y.ht0.size \in Nat
    BY <1>1, WellFormedFields
  <2>2. CASE y.ht0.size = 0
    <3>1. ~dictIsRehashing(y)
      BY <1>1, <2>2, RehashingFields
    <3>2. NeedsExpand(y, can)
      BY <2>2, <3>1 DEF NeedsExpand
    <3>3. z = WithHt0(y, NewHt(NextPower(ExpandTarget(y))))
      BY <1>2, <1>5, <2>2, <3>2 DEF ExpandIfNeeded, ExpandIfNeededErr, dictExpand
    <3>4. z.ht0.size = NextPower(ExpandTarget(y))
      BY <3>3 DEF WithHt0, WithTables, NewHt
    <3> QED
      BY <1>3, <3>4, NextPowerInSizes, SizesPositive
  <2>3. CASE y.ht0.size # 0
    <3>1. z.ht0 = y.ht0
      BY <1>2, <2>3 DEF ExpandIfNeeded, dictExpand, WithTables
    <3> QED
      BY <2>1, <2>3, <3>1
  <2> QED
    BY <2>2, <2>3
<1>7. Search(z, k) = {e \in Contents(x) : e.key = k}
  BY <1>4, <1>6, SearchFinds
<1>8. NoKeyIndex(x, k, can) <=> Search(z, k) # {}
  BY <1>5 DEF NoKeyIndex, y, z
<1> QED
  BY <1>4, <1>6, <1>7, <1>8 DEF z

(* A new entry adds one binding. *)
LEMMA AddEntryAdds ==
    ASSUME NEW x, WellFormed(x), x.ht0.size > 0, NEW n \in Entry,
           {e \in Contents(x) : e.key = n.key} = {}
    PROVE  /\ WellFormed(AddEntry(x, n))
           /\ Contents(AddEntry(x, n)) = Contents(x) \cup {n}
           /\ AddEntry(x, n).iterators = x.iterators
<1>1. /\ n \notin Entries(x.ht0) /\ n \notin Entries(x.ht1)
      /\ \A e \in Entries(x.ht0) \cup Entries(x.ht1) : e.key # n.key
  BY DEF Contents
<1>2. /\ \A e, f \in Entries(x.ht0) \cup Entries(x.ht1) : e.key = f.key => e = f
      /\ Entries(x.ht0) \cap Entries(x.ht1) = {}
  BY WellFormedFields DEF Contents
<1>3. CASE dictIsRehashing(x)
  <2> DEFINE h == Link(x.ht1, n)
  <2>1. /\ IsHt(h) /\ HtPlaced(h) /\ HtUsed(h) /\ h.size = x.ht1.size
        /\ Entries(h) = Entries(x.ht1) \cup {n}
    BY <1>1, <1>3, WellFormedFields, RehashingFields, LinkAdds
  <2> HIDE DEF h
  <2>2. /\ \A e, f \in Entries(x.ht0) \cup Entries(h) : e.key = f.key => e = f
        /\ Entries(x.ht0) \cap Entries(h) = {}
    BY <1>1, <1>2, <2>1
  <2>3. /\ WellFormed(WithHt1(x, h))
        /\ Contents(WithHt1(x, h)) = Entries(x.ht0) \cup Entries(h)
        /\ WithHt1(x, h).iterators = x.iterators
    BY <1>3, <2>1, <2>2, WithHt1WellFormed
  <2>4. AddEntry(x, n) = WithHt1(x, h)
    BY <1>3 DEF AddEntry, h
  <2> QED
    BY <2>1, <2>3, <2>4 DEF Contents
<1>4. CASE ~dictIsRehashing(x)
  <2> DEFINE h == Link(x.ht0, n)
  <2>1. /\ IsHt(h) /\ HtPlaced(h) /\ HtUsed(h) /\ h.size = x.ht0.size
        /\ Entries(h) = Entries(x.ht0) \cup {n}
    BY <1>1, WellFormedFields, LinkAdds
  <2> HIDE DEF h
  <2>2. /\ \A e, f \in Entries(h) \cup Entries(x.ht1) : e.key = f.key => e = f
        /\ Entries(h) \cap Entries(x.ht1) = {}
    BY <1>1, <1>2, <2>1
  <2>3. /\ WellFormed(WithHt0(x, h))
        /\ Contents(WithHt0(x, h)) = Entries(h) \cup Entries(x.ht1)
        /\ WithHt0(x, h).iterators = x.iterators
    BY <1>4, <2>1, <2>2, WithHt0WellFormed
  <2>4. AddEntry(x, n) = WithHt0(x, h)
    BY <1>4 DEF AddEntry, h
  <2> QED
    BY <2>1, <2>3, <2>4 DEF Contents
<1> QED
  BY <1>3, <1>4

(* Where a key that is bound hangs: ht0, or ht1 of a rehash in progress.     *)
LEMMA FoundWhere ==
    ASSUME NEW x, WellFormed(x), x.ht0.size > 0, NEW k \in Keys,
           {e \in Contents(x) : e.key = k} # {}
    PROVE  \/ /\ Match(x.ht0, k) # {}
              /\ Match(x.ht0, k) = {e \in Contents(x) : e.key = k}
              /\ Match(x.ht0, k) \cap Entries(x.ht1) = {}
           \/ /\ Match(x.ht0, k) = {}
              /\ dictIsRehashing(x)
              /\ Match(x.ht1, k) # {}
              /\ Match(x.ht1, k) = {e \in Contents(x) : e.key = k}
              /\ Match(x.ht1, k) \cap Entries(x.ht0) = {}
<1>1. Search(x, k) = {e \in Contents(x) : e.key = k}
  BY SearchFinds
<1>2. Match(x.ht0, k) \subseteq Entries(x.ht0)
  BY WellFormedFields, MatchIsAll
<1>3. dictIsRehashing(x) => Match(x.ht1, k) \subseteq Entries(x.ht1)
  BY WellFormedFields, RehashingFields, MatchIsAll
<1>4. Entries(x.ht0) \cap Entries(x.ht1) = {}
  BY WellFormedFields
<1> QED
  BY <1>1, <1>2, <1>3, <1>4 DEF Search

(* Overwriting the entry a search found replaces the binding of its key. *)
LEMMA SetFoundReplaces ==
    ASSUME NEW x, WellFormed(x), x.ht0.size > 0, NEW k \in Keys, NEW v \in Vals,
           {e \in Contents(x) : e.key = k} # {}
    PROVE  /\ WellFormed(SetFound(x, k, v))
           /\ Contents(SetFound(x, k, v)) =
                (Contents(x) \ {e \in Contents(x) : e.key = k})
                  \cup {[key |-> k, val |-> v]}
           /\ SetFound(x, k, v).iterators = x.iterators
<1> DEFINE M == {e \in Contents(x) : e.key = k}
           n == [key |-> k, val |-> v]
<1>1. n.key = k
  OBVIOUS
<1>2. /\ Contents(x) = Entries(x.ht0) \cup Entries(x.ht1)
      /\ \A e, f \in Contents(x) : e.key = f.key => e = f
      /\ Entries(x.ht0) \cap Entries(x.ht1) = {}
      /\ \A e \in Contents(x) : e.key = k => e \in M
  BY WellFormedFields DEF Contents
<1>3. CASE /\ Match(x.ht0, k) # {}
           /\ Match(x.ht0, k) = M
           /\ Match(x.ht0, k) \cap Entries(x.ht1) = {}
  <2> DEFINE h == SetVal(x.ht0, k, v)
  <2>0. \A e, f \in Entries(x.ht0) : e.key = f.key => e = f
    BY <1>2
  <2>1. /\ IsHt(h) /\ HtPlaced(h) /\ HtUsed(h) /\ h.size = x.ht0.size
        /\ Entries(h) = (Entries(x.ht0) \ Match(x.ht0, k)) \cup {n}
        /\ \A b \in 0 .. x.ht0.size - 1 :
              x.ht0.table[b] = {} => h.table[b] = {}
    BY <1>3, <2>0, WellFormedFields, SetValReplaces
  <2> HIDE DEF h, n, M
  <2>2. /\ \A e, f \in Entries(h) \cup Entries(x.ht1) : e.key = f.key => e = f
        /\ Entries(h) \cap Entries(x.ht1) = {}
    BY <1>1, <1>2, <1>3, <2>1
  <2>3. /\ WellFormed(WithHt0(x, h))
        /\ Contents(WithHt0(x, h)) = Entries(h) \cup Entries(x.ht1)
        /\ WithHt0(x, h).iterators = x.iterators
    BY <2>1, <2>2, WithHt0WellFormed
  <2>4. SetFound(x, k, v) = WithHt0(x, h)
    BY <1>3 DEF SetFound, h
  <2>5. Entries(h) \cup Entries(x.ht1) = (Contents(x) \ M) \cup {n}
    BY <1>2, <1>3, <2>1
  <2> QED
    BY <2>3, <2>4, <2>5 DEF M, n
<1>4. CASE /\ Match(x.ht0, k) = {}
           /\ dictIsRehashing(x)
           /\ Match(x.ht1, k) # {}
           /\ Match(x.ht1, k) = M
           /\ Match(x.ht1, k) \cap Entries(x.ht0) = {}
  <2> DEFINE h == SetVal(x.ht1, k, v)
  <2>0. \A e, f \in Entries(x.ht1) : e.key = f.key => e = f
    BY <1>2
  <2>1. /\ IsHt(h) /\ HtPlaced(h) /\ HtUsed(h) /\ h.size = x.ht1.size
        /\ Entries(h) = (Entries(x.ht1) \ Match(x.ht1, k)) \cup {n}
    BY <1>4, <2>0, WellFormedFields, RehashingFields, SetValReplaces
  <2> HIDE DEF h, n, M
  <2>2. /\ \A e, f \in Entries(x.ht0) \cup Entries(h) : e.key = f.key => e = f
        /\ Entries(x.ht0) \cap Entries(h) = {}
    BY <1>1, <1>2, <1>4, <2>1
  <2>3. /\ WellFormed(WithHt1(x, h))
        /\ Contents(WithHt1(x, h)) = Entries(x.ht0) \cup Entries(h)
        /\ WithHt1(x, h).iterators = x.iterators
    BY <1>4, <2>1, <2>2, WithHt1WellFormed
  <2>4. SetFound(x, k, v) = WithHt1(x, h)
    BY <1>4 DEF SetFound, h
  <2>5. Entries(x.ht0) \cup Entries(h) = (Contents(x) \ M) \cup {n}
    BY <1>2, <1>4, <2>1
  <2> QED
    BY <2>3, <2>4, <2>5 DEF M, n
<1> QED
  BY <1>3, <1>4, FoundWhere

(* dictDelete removes the binding of its key and says if there was one. *)
LEMMA DeleteCorrect ==
    ASSUME NEW x, WellFormed(x), NEW k \in Keys
    PROVE  /\ WellFormed(dictDelete(x, k))
           /\ Contents(dictDelete(x, k)) =
                Contents(x) \ {e \in Contents(x) : e.key = k}
           /\ dictDelete(x, k).iterators = x.iterators
           /\ dictDeleteErr(x, k) <=> {e \in Contents(x) : e.key = k} = {}
<1> DEFINE M == {e \in Contents(x) : e.key = k}
           s == AfterFind(x)
           y == dictDelete(x, k)
<1>1. /\ WellFormed(s) /\ Contents(s) = Contents(x) /\ s.iterators = x.iterators
      /\ dictFind(x, k) = M
  BY FindCorrect
<1>2. dictDeleteErr(x, k) <=> M = {}
  BY <1>1 DEF dictDeleteErr
<1> HIDE DEF s, M
<1>3. CASE M = {}
  <2>1. y = s
    BY <1>2, <1>3 DEF dictDelete, s
  <2> QED
    BY <1>1, <1>2, <1>3, <2>1 DEF M
<1>4. CASE M # {}
  <2>1. s.ht0.size > 0 /\ M = {e \in Contents(s) : e.key = k}
    BY <1>1, <1>4, NonEmptyHasTable DEF M
  <2>2. /\ Contents(s) = Entries(s.ht0) \cup Entries(s.ht1)
        /\ \A e, f \in Contents(s) : e.key = f.key => e = f
        /\ Entries(s.ht0) \cap Entries(s.ht1) = {}
    BY <1>1, WellFormedFields DEF Contents
  <2>3. CASE /\ Match(s.ht0, k) # {}
             /\ Match(s.ht0, k) = M
             /\ Match(s.ht0, k) \cap Entries(s.ht1) = {}
    <3> DEFINE h == Unlink(s.ht0, k)
    <3>0. \A e, f \in Entries(s.ht0) : e.key = f.key => e = f
      BY <2>2
    <3>1. /\ IsHt(h) /\ HtPlaced(h) /\ HtUsed(h) /\ h.size = s.ht0.size
          /\ Entries(h) = Entries(s.ht0) \ Match(s.ht0, k)
          /\ \A b \in 0 .. s.ht0.size - 1 :
                s.ht0.table[b] = {} => h.table[b] = {}
      BY <1>1, <2>1, <2>3, <3>0, WellFormedFields, UnlinkRemoves
    <3>2. y = WithHt0(s, h)
      BY <1>2, <1>4, <2>3 DEF dictDelete, s
    <3> HIDE DEF h, y
    <3>3. /\ \A e, f \in Entries(h) \cup Entries(s.ht1) : e.key = f.key => e = f
          /\ Entries(h) \cap Entries(s.ht1) = {}
      BY <2>2, <3>1
    <3>4. /\ WellFormed(y)
          /\ Contents(y) = Entries(h) \cup Entries(s.ht1)
          /\ y.iterators = s.iterators
      BY <1>1, <3>1, <3>2, <3>3, WithHt0WellFormed
    <3>5. Contents(y) = Contents(x) \ M
      BY <1>1, <2>2, <2>3, <3>1, <3>4
    <3> QED
      BY <1>1, <1>2, <3>4, <3>5 DEF M, y
  <2>4. CASE /\ Match(s.ht0, k) = {}
             /\ dictIsRehashing(s)
             /\ Match(s.ht1, k) # {}
             /\ Match(s.ht1, k) = M
             /\ Match(s.ht1, k) \cap Entries(s.ht0) = {}
    <3> DEFINE h == Unlink(s.ht1, k)
    <3>0. \A e, f \in Entries(s.ht1) : e.key = f.key => e = f
      BY <2>2
    <3>1. /\ IsHt(h) /\ HtPlaced(h) /\ HtUsed(h) /\ h.size = s.ht1.size
          /\ Entries(h) = Entries(s.ht1) \ Match(s.ht1, k)
      BY <1>1, <2>4, <3>0, WellFormedFields, RehashingFields, UnlinkRemoves
    <3>2. y = WithHt1(s, h)
      BY <1>2, <1>4, <2>4 DEF dictDelete, s
    <3> HIDE DEF h, y
    <3>3. /\ \A e, f \in Entries(s.ht0) \cup Entries(h) : e.key = f.key => e = f
          /\ Entries(s.ht0) \cap Entries(h) = {}
      BY <2>2, <3>1
    <3>4. /\ WellFormed(y)
          /\ Contents(y) = Entries(s.ht0) \cup Entries(h)
          /\ y.iterators = s.iterators
      BY <1>1, <2>4, <3>1, <3>2, <3>3, WithHt1WellFormed
    <3>5. Contents(y) = Contents(x) \ M
      BY <1>1, <2>2, <2>4, <3>1, <3>4
    <3> QED
      BY <1>1, <1>2, <3>4, <3>5 DEF M, y
  <2> QED
    BY <1>1, <1>4, <2>1, <2>3, <2>4, FoundWhere
<1> QED
  BY <1>3, <1>4

(* dictAdd binds a key that has no binding and leaves one that has alone. *)
LEMMA AddCorrect ==
    ASSUME NEW x, WellFormed(x), NEW can \in BOOLEAN,
           NEW k \in Keys, NEW v \in Vals
    PROVE  LET M == {e \in Contents(x) : e.key = k}
           IN  /\ WellFormed(dictAdd(x, k, v, can))
               /\ Contents(dictAdd(x, k, v, can)) =
                    IF M = {} THEN Contents(x) \cup {[key |-> k, val |-> v]}
                    ELSE Contents(x)
               /\ dictAdd(x, k, v, can).iterators = x.iterators
               /\ dictAddErr(x, k, can) <=> M # {}
<1> DEFINE M == {e \in Contents(x) : e.key = k}
           n == [key |-> k, val |-> v]
           z == Prepared(x, can)
<1>1. /\ WellFormed(z) /\ Contents(z) = Contents(x)
      /\ z.iterators = x.iterators /\ z.ht0.size > 0
      /\ NoKeyIndex(x, k, can) <=> M # {}
  BY PreparedCorrect
<1>2. n \in Entry /\ n.key = k
  BY DEF Entry
<1>3. dictAdd(x, k, v, can) = IF M # {} THEN z ELSE AddEntry(z, n)
  BY <1>1 DEF dictAdd
<1>4. dictAddErr(x, k, can) <=> M # {}
  BY <1>1 DEF dictAddErr
<1>5. M = {e \in Contents(z) : e.key = n.key}
  BY <1>1, <1>2
<1> HIDE DEF z, n, M
<1>6. CASE M = {}
  <2>1. /\ WellFormed(AddEntry(z, n))
        /\ Contents(AddEntry(z, n)) = Contents(z) \cup {n}
        /\ AddEntry(z, n).iterators = z.iterators
    BY <1>1, <1>2, <1>5, <1>6, AddEntryAdds
  <2> QED
    BY <1>1, <1>3, <1>4, <1>6, <2>1 DEF M, n
<1>7. CASE M # {}
  BY <1>1, <1>3, <1>4, <1>7 DEF M, n
<1> QED
  BY <1>6, <1>7

(* dictReplace binds its key to the new value, whatever it was bound to. *)
LEMMA ReplaceCorrect ==
    ASSUME NEW x, WellFormed(x), NEW can \in BOOLEAN,
           NEW k \in Keys, NEW v \in Vals
    PROVE  /\ WellFormed(dictReplace(x, k, v, can))
           /\ Contents(dictReplace(x, k, v, can)) =
                (Contents(x) \ {e \in Contents(x) : e.key = k})
                   \cup {[key |-> k, val |-> v]}
           /\ dictReplace(x, k, v, can).iterators = x.iterators
<1> DEFINE M == {e \in Contents(x) : e.key = k}
           n == [key |-> k, val |-> v]
           z == Prepared(x, can)
<1>1. /\ WellFormed(z) /\ Contents(z) = Contents(x)
      /\ z.iterators = x.iterators /\ z.ht0.size > 0
      /\ NoKeyIndex(x, k, can) <=> M # {}
  BY PreparedCorrect
<1>2. n \in Entry /\ n.key = k
  BY DEF Entry
<1>3. dictReplace(x, k, v, can) =
        IF M # {} THEN SetFound(z, k, v) ELSE AddEntry(z, n)
  BY <1>1 DEF dictReplace
<1>4. M = {e \in Contents(z) : e.key = n.key} /\ M = {e \in Contents(z) : e.key = k}
  BY <1>1, <1>2
<1> HIDE DEF z, M
<1>5. CASE M = {}
  <2> HIDE DEF n
  <2>1. /\ WellFormed(AddEntry(z, n))
        /\ Contents(AddEntry(z, n)) = Contents(z) \cup {n}
        /\ AddEntry(z, n).iterators = z.iterators
    BY <1>1, <1>2, <1>4, <1>5, AddEntryAdds
  <2>2. Contents(z) \cup {n} = (Contents(x) \ M) \cup {n}
    BY <1>1, <1>5
  <2> QED
    BY <1>1, <1>3, <1>5, <2>1, <2>2 DEF M, n
<1>6. CASE M # {}
  <2>1. /\ WellFormed(SetFound(z, k, v))
        /\ Contents(SetFound(z, k, v)) = (Contents(z) \ M) \cup {n}
        /\ SetFound(z, k, v).iterators = z.iterators
    BY <1>1, <1>4, <1>6, SetFoundReplaces
  <2> QED
    BY <1>1, <1>3, <1>6, <2>1 DEF M
<1> QED
  BY <1>5, <1>6

-----------------------------------------------------------------------------
(* Creation and iterators. *)

(* A new dict is empty and well-formed. *)
LEMMA CreatedWellFormed == WellFormed(dictCreate) /\ Contents(dictCreate) = {}
<1> DEFINE x == dictCreate
<1>1. x = [ht0 |-> NewHt(0), ht1 |-> NewHt(0), rehashidx |-> -1, iterators |-> 0]
  BY DEF dictCreate
<1> HIDE DEF x
<1>2. /\ x.ht0 = NewHt(0) /\ x.ht1 = NewHt(0) /\ x.rehashidx = -1
      /\ x.iterators = 0
  BY <1>1
<1>3. /\ IsHt(NewHt(0)) /\ Entries(NewHt(0)) = {} /\ HtPlaced(NewHt(0))
      /\ HtUsed(NewHt(0))
  BY EmptyTable
<1>4. IsDict(x)
  BY <1>1, <1>2, <1>3 DEF IsDict
<1>5. Contents(x) = {}
  BY <1>2, <1>3 DEF Contents
<1>6. Unique(x) /\ Shape(x)
  BY <1>2, <1>3, <1>5 DEF Unique, Shape, dictIsRehashing
<1> QED
  BY <1>2, <1>3, <1>4, <1>5, <1>6 DEF WellFormed, x

(* A change of the iterator count alone keeps a dict well-formed. *)
LEMMA IteratorsFree ==
    ASSUME NEW x, WellFormed(x), NEW it \in Nat
    PROVE  /\ WellFormed([x EXCEPT !.iterators = it])
           /\ Contents([x EXCEPT !.iterators = it]) = Contents(x)
           /\ [x EXCEPT !.iterators = it].iterators = it
<1> DEFINE y == [x EXCEPT !.iterators = it]
<1>1. x = [ht0 |-> x.ht0, ht1 |-> x.ht1, rehashidx |-> x.rehashidx,
           iterators |-> x.iterators]
  BY WellFormedFields DEF IsDict
<1>2. y = [ht0 |-> x.ht0, ht1 |-> x.ht1, rehashidx |-> x.rehashidx,
           iterators |-> it]
  BY <1>1
<1> HIDE DEF y
<1>3. /\ y.ht0 = x.ht0 /\ y.ht1 = x.ht1 /\ y.rehashidx = x.rehashidx
      /\ y.iterators = it
  BY <1>2
<1>4. Contents(y) = Contents(x)
  BY <1>3 DEF Contents
<1>5. IsDict(y)
  BY <1>2, <1>3, WellFormedFields DEF IsDict
<1>6. Unique(y) /\ Shape(y)
  BY <1>3, <1>4 DEF Unique, Shape, dictIsRehashing, WellFormed
<1> QED
  BY <1>3, <1>4, <1>5, <1>6, WellFormedFields DEF WellFormed, y
=============================================================================
