--------------------------- MODULE KeyspaceProofs ---------------------------
(***************************************************************************)
(* Proofs about Keyspace: whatever commands the clients send, the database *)
(* stays a well-formed dict and no assertion of db.c fails.                *)
(***************************************************************************)
EXTENDS Keyspace, DictOpsProofs

(* The inductive invariant. *)
Safe == TypeOK /\ AssertionsHold

KeysOf(x) == {e.key : e \in Contents(x)}

BoundIn(x, k) == {e \in Contents(x) : e.key = k}

(* A long holds what is stored in it. *)
LEMMA WrapLongType ==
    ASSUME NEW n \in Int
    PROVE  WrapLong(n) \in Long
  BY LongAssumption, WrapInRange DEF WrapLong, Long

(* Adding one to a long: past the largest comes the smallest, as Counters    *)
(* has it.                                                                   *)
LEMMA WrapSuccessor ==
    ASSUME NEW n \in Long
    PROVE  WrapLong(n + 1) = CS!Successor(n)
  BY LongAssumption, WrapNext DEF WrapLong, Long, CS!Successor

(* A C string is a text. *)
LEMMA CTextType ==
    ASSUME NEW t \in Text
    PROVE  CText(t) \in Text /\ (~t.tail => CText(t) = t)
  BY DEF CText, Text

(* The objects commands store: texts, and what decrKey makes of a pointer.   *)
LEMMA ObjectTypes ==
    /\ \A t \in Text : Str(t) \in Vals
    /\ NullPtr \in Vals /\ WildPtr \in Vals
    /\ \A n \in Int : Str(Decimal(WrapLong(n))) \in Vals
    /\ Str(Decimal(1)) \in Vals
<1>1. \A t \in Text : Str(t) \in Vals
  BY KeyspaceAssumption DEF Objects
<1>2. NullPtr \in Vals /\ WildPtr \in Vals
  BY KeyspaceAssumption DEF Objects
<1>3. \A n \in Long : Decimal(n) \in Text
  BY DEF Decimal, Text
<1>4. \A n \in Int : Str(Decimal(WrapLong(n))) \in Vals
  BY <1>1, <1>3, WrapLongType
<1>5. 1 \in Long
  BY LongAssumption DEF Long
<1> QED
  BY <1>1, <1>2, <1>3, <1>4, <1>5

(* Storing an object for a key just looked up keeps the dict well-formed,    *)
(* fails no assertion and binds that key alone: the lookup and the rehash    *)
(* steps it makes leave every key where the second lookup, or dictAdd,       *)
(* expects it.                                                               *)
LEMMA StoreEffect ==
    ASSUME WellFormed(d), NEW k \in Keys, NEW o \in Vals, Store(k, o)
    PROVE  /\ WellFormed(d)' /\ fault' = fault /\ reply' = [is |-> "ok"]
           /\ Contents(d') = (Contents(d) \ BoundIn(d, k)) \cup {[key |-> k, val |-> o]}
<1> DEFINE x == AfterFind(d)
           M == {e \in Contents(d) : e.key = k}
<1>1. /\ WellFormed(x) /\ Contents(x) = Contents(d)
      /\ dictFind(d, k) = M
  BY FindCorrect
<1>2. /\ WellFormed(AfterFind(x)) /\ Contents(AfterFind(x)) = Contents(d)
      /\ dictFind(x, k) = M
  <2> HIDE DEF x
  <2> QED
    BY <1>1, FindCorrect
<1>3. lookupKey(d, k) = {} <=> M = {}
  BY <1>1 DEF lookupKey
<1>4. CASE M = {}
  <2>1. ~dbAddAborts(x, k)
    BY <1>1, <1>4, AddCorrect, ZenonT(30) DEF dbAddAborts, CanResize
  <2>2. /\ WellFormed(dbAdd(x, k, o))
        /\ Contents(dbAdd(x, k, o)) = Contents(d) \cup {[key |-> k, val |-> o]}
    <3> HIDE DEF x
    <3>1. WellFormed(x) /\ TRUE \in BOOLEAN
      BY <1>1
    <3>2. {e \in Contents(x) : e.key = k} = {}
      BY <1>1, <1>4
    <3>3. /\ WellFormed(dictAdd(x, k, o, TRUE))
          /\ Contents(dictAdd(x, k, o, TRUE)) = Contents(x) \cup {[key |-> k, val |-> o]}
      BY <3>1, <3>2, AddCorrect
    <3> QED
      BY <1>1, <3>3 DEF dbAdd, CanResize
  <2>3. d' = dbAdd(x, k, o) /\ fault' = fault /\ reply' = [is |-> "ok"]
    BY <1>3, <1>4, <2>1 DEF Store, Replies
  <2> QED
    BY <1>4, <2>2, <2>3 DEF BoundIn
<1>5. CASE M # {}
  <2>1. ~dbOverwriteAborts(x, k)
    BY <1>2, <1>5 DEF dbOverwriteAborts
  <2>2. /\ WellFormed(dbOverwrite(x, k, o))
        /\ Contents(dbOverwrite(x, k, o)) =
             (Contents(d) \ M) \cup {[key |-> k, val |-> o]}
    <3> DEFINE y == AfterFind(x)
    <3>1. WellFormed(y) /\ Contents(y) = Contents(d)
      BY <1>2
    <3> HIDE DEF y
    <3>2. Contents(y) # {} /\ {e \in Contents(y) : e.key = k} # {}
      BY <1>5, <3>1
    <3>3. y.ht0.size > 0
      BY <3>1, <3>2, NonEmptyHasTable
    <3>4. /\ WellFormed(SetFound(y, k, o))
          /\ Contents(SetFound(y, k, o)) =
               (Contents(y) \ {e \in Contents(y) : e.key = k})
                 \cup {[key |-> k, val |-> o]}
      BY <3>1, <3>2, <3>3, SetFoundReplaces
    <3> QED
      BY <3>1, <3>4 DEF dbOverwrite, y
  <2>3. d' = dbOverwrite(x, k, o) /\ fault' = fault /\ reply' = [is |-> "ok"]
    BY <1>3, <1>5, <2>1 DEF Store, Replies
  <2> QED
    BY <2>2, <2>3 DEF BoundIn
<1> QED
  BY <1>4, <1>5

(* So it loses no key. *)
LEMMA StoreKeeps ==
    ASSUME WellFormed(d), NEW k \in Keys, NEW o \in Vals, Store(k, o)
    PROVE  KeysOf(d) \subseteq KeysOf(d')
<1>1. Contents(d') = (Contents(d) \ BoundIn(d, k)) \cup {[key |-> k, val |-> o]}
  BY StoreEffect
<1>2. ASSUME NEW e \in Contents(d)
      PROVE  \E f \in Contents(d') : f.key = e.key
  <2>1. CASE e.key = k
    <3>1. [key |-> k, val |-> o] \in Contents(d')
      BY <1>1
    <3> QED
      BY <2>1, <3>1
  <2>2. CASE e.key # k
    BY <1>1, <2>2 DEF BoundIn
  <2> QED
    BY <2>1, <2>2
<1> QED
  BY <1>2 DEF KeysOf

(* An object found is an object; the text it points to is a text.            *)
LEMMA FoundObject ==
    ASSUME WellFormed(d), NEW k \in Keys, NEW o \in lookupKey(d, k)
    PROVE  o \in Vals /\ (o.ptr = "text" => o.text \in Text)
<1>1. dictFind(d, k) \subseteq Contents(d)
  BY FindCorrect
<1>2. Contents(d) \subseteq Entry
  <2>1. IsHt(d.ht0) /\ IsHt(d.ht1)
    BY WellFormedFields
  <2>2. ASSUME NEW ht, IsHt(ht) PROVE Entries(ht) \subseteq Entry
    BY <2>2 DEF IsHt, Entries
  <2> QED
    BY <2>1, <2>2 DEF Contents
<1>3. o \in Objects
  BY <1>1, <1>2, KeyspaceAssumption DEF lookupKey, Entry
<1> QED
  BY <1>3, KeyspaceAssumption DEF Objects, Str, NullPtr, WildPtr

(* Every command keeps the invariant. *)
LEMMA CommandSafe ==
    ASSUME Safe, NEW cmd \in Commands, commandServer(cmd)
    PROVE  Safe'
<1> DEFINE k == cmd.key
<1>1. WellFormed(d) /\ fault = "none"
  BY DEF Safe, TypeOK, commandServer
<1>2. k \in Keys /\ (cmd.action = "set" => cmd.val \in SetTexts)
  BY DEF Commands
<1>3. WellFormed(AfterFind(d))
  BY <1>1, <1>2, FindCorrect
<1>4. SUFFICES WellFormed(d)' /\ fault' \in {"none", "segv"}
  BY DEF Safe, TypeOK, AssertionsHold
<1>5. ASSUME NEW o \in Vals, Store(k, o)
      PROVE  WellFormed(d)' /\ fault' = "none"
  BY <1>1, <1>2, <1>5, StoreEffect
<1>6. ASSUME NEW x, WellFormed(x), NEW r, Replies(x, r)
      PROVE  WellFormed(d)' /\ fault' = "none"
  BY <1>1, <1>6 DEF Replies
<1>7. ASSUME Ends("segv")
      PROVE  WellFormed(d)' /\ fault' = "segv"
  BY <1>1, <1>7 DEF Ends
<1> HIDE DEF k
<1>8. CASE get(k)
  BY <1>3, <1>6, <1>7, <1>8 DEF get
<1>9. CASE cmd.action = "set" /\ setKey(k, cmd.val)
  BY <1>2, <1>5, <1>9, ObjectTypes, KeyspaceAssumption DEF setKey
<1>10. CASE incrKey(k)
  <2>1. \A n \in Long : n + 1 \in Int
    BY LongAssumption DEF Long
  <2>2. ASSUME NEW o \in lookupKey(d, k), o.ptr = "text"
        PROVE  o.text.num + 1 \in Int
    <3>1. o.text.num \in Long
      BY <1>1, <1>2, <2>2, FoundObject DEF Text
    <3> QED
      BY <2>1, <3>1
  <2>3. \A n \in WildNumbers : n + 1 \in Int
    BY <2>1, KeyspaceAssumption
  <2> QED
    BY <1>5, <1>7, <1>10, <2>2, <2>3, ObjectTypes DEF incrKey
<1>11. CASE decrKey(k)
  BY <1>5, <1>11, ObjectTypes DEF decrKey
<1>12. CASE UNCHANGED <<d, fault, reply>>
  BY <1>1, <1>12
<1> QED
  BY <1>8, <1>9, <1>10, <1>11, <1>12 DEF commandServer, k

(* db.c:57 and db.c:68: for every set of keys, every hash function and every *)
(* sequence of commands, decr included, the database stays well-formed and   *)
(* the assertions of dbAdd and dbOverwrite hold.                             *)
THEOREM AssertionsNeverFail == Spec => [](TypeOK /\ AssertionsHold)
<1>1. Init => Safe
  BY CreatedWellFormed DEF Init, Safe, TypeOK, AssertionsHold
<1>2. Safe /\ [Next]_vars => Safe'
  <2>1. ASSUME Safe, Next PROVE Safe'
    BY <2>1, CommandSafe DEF Next
  <2>2. ASSUME Safe, UNCHANGED vars PROVE Safe'
    BY <2>2 DEF vars, Safe, TypeOK, AssertionsHold
  <2> QED
    BY <2>1, <2>2
<1>3. Safe => TypeOK /\ AssertionsHold
  BY DEF Safe
<1> QED
  BY <1>1, <1>2, <1>3, PTL DEF Spec

(* A command loses no key. *)
LEMMA CommandKeeps ==
    ASSUME Safe, NEW cmd \in Commands, commandServer(cmd)
    PROVE  KeysOf(d) \subseteq KeysOf(d')
<1> DEFINE k == cmd.key
<1>1. WellFormed(d)
  BY DEF Safe, TypeOK
<1>2. k \in Keys /\ (cmd.action = "set" => cmd.val \in SetTexts)
  BY DEF Commands
<1>3. ASSUME NEW o \in Vals, Store(k, o)
      PROVE  KeysOf(d) \subseteq KeysOf(d')
  BY <1>1, <1>2, <1>3, StoreKeeps
<1>4. ASSUME NEW r, Replies(AfterFind(d), r)
      PROVE  KeysOf(d) \subseteq KeysOf(d')
  BY <1>1, <1>2, <1>4, FindCorrect DEF Replies, KeysOf
<1>5. ASSUME NEW how, Ends(how)
      PROVE  KeysOf(d) \subseteq KeysOf(d')
  BY <1>5 DEF Ends
<1> HIDE DEF k
<1>6. CASE get(k)
  BY <1>4, <1>5, <1>6 DEF get
<1>7. CASE cmd.action = "set" /\ setKey(k, cmd.val)
  BY <1>2, <1>3, <1>7, ObjectTypes, KeyspaceAssumption DEF setKey
<1>8. CASE incrKey(k)
  <2>1. \A n \in Long : n + 1 \in Int
    BY LongAssumption DEF Long
  <2>2. ASSUME NEW o \in lookupKey(d, k), o.ptr = "text"
        PROVE  o.text.num + 1 \in Int
    <3>1. o.text.num \in Long
      BY <1>1, <1>2, <2>2, FoundObject DEF Text
    <3> QED
      BY <2>1, <3>1
  <2>3. \A n \in WildNumbers : n + 1 \in Int
    BY <2>1, KeyspaceAssumption
  <2> QED
    BY <1>3, <1>5, <1>8, <2>2, <2>3, ObjectTypes DEF incrKey
<1>9. CASE decrKey(k)
  BY <1>3, <1>9, ObjectTypes DEF decrKey
<1>10. CASE UNCHANGED <<d, fault, reply>>
  BY <1>10
<1> QED
  BY <1>6, <1>7, <1>8, <1>9, <1>10 DEF commandServer, k

(* For every set of keys and every hash function, no command, decr included, *)
(* loses a key: not in the rehash steps of its lookups, not in an expansion  *)
(* and not by overwriting (command.c:30-56).                                 *)
THEOREM KeysNeverLost == Spec => KeysKept
<1>1. Safe /\ [Next]_vars => [KeysOf(d) \subseteq KeysOf(d')]_vars
  BY CommandKeeps DEF Next
<1>2. Safe /\ [Next]_vars => [{e.key : e \in Contents(d)} \subseteq {e.key : e \in Contents(d')}]_vars
  BY <1>1 DEF KeysOf
<1>3. TypeOK /\ AssertionsHold => Safe
  BY DEF Safe
<1> QED
  BY <1>2, <1>3, AssertionsNeverFail, PTL DEF Spec, KeysKept

-----------------------------------------------------------------------------
(* The commands implement CounterStore.  The refinement mapping, as a        *)
(* function of the dict: the texts it holds, and the keys decr has spoiled.  *)

HeldIn(x, kinds) == {k \in Keys : \E e \in BoundIn(x, k) : e.val.ptr \in kinds}

ObjectIn(x, k) == (CHOOSE e \in BoundIn(x, k) : TRUE).val

TextsIn(x) == [k \in HeldIn(x, {"text"}) |-> ObjectIn(x, k).text]

SpoiledIn(x) == HeldIn(x, {"null", "wild"})

(* The entries of a well-formed dict are entries. *)
LEMMA ContentsAreEntries ==
    ASSUME NEW x, WellFormed(x)
    PROVE  Contents(x) \subseteq Entry
<1>1. IsHt(x.ht0) /\ IsHt(x.ht1)
  BY WellFormedFields
<1>2. ASSUME NEW ht, IsHt(ht) PROVE Entries(ht) \subseteq Entry
  BY <1>2 DEF IsHt, Entries
<1> QED
  BY <1>1, <1>2 DEF Contents

(* What the mapping says of a key that is bound, and of one that is not.     *)
LEMMA MappedBound ==
    ASSUME NEW x, WellFormed(x), NEW e \in Contents(x), NEW k \in Keys, e.key = k
    PROVE  /\ BoundIn(x, k) = {e} /\ ObjectIn(x, k) = e.val
           /\ \A kinds : k \in HeldIn(x, kinds) <=> e.val.ptr \in kinds
           /\ e.val.ptr = "text" => TextsIn(x)[k] = e.val.text
<1>1. BoundIn(x, k) = {e}
  BY WellFormedFields DEF BoundIn
<1>2. ObjectIn(x, k) = e.val
  BY <1>1 DEF ObjectIn
<1>3. \A kinds : k \in HeldIn(x, kinds) <=> e.val.ptr \in kinds
  BY <1>1 DEF HeldIn
<1>4. e.val.ptr = "text" => k \in HeldIn(x, {"text"})
  BY <1>3
<1> QED
  BY <1>1, <1>2, <1>3, <1>4 DEF TextsIn

LEMMA MappedUnbound ==
    ASSUME NEW x, NEW k \in Keys, BoundIn(x, k) = {}
    PROVE  \A kinds : k \notin HeldIn(x, kinds)
  BY DEF HeldIn

(* A key has a text or is spoiled, not both. *)
LEMMA TextNotSpoiled ==
    ASSUME NEW x, WellFormed(x)
    PROVE  HeldIn(x, {"text"}) \cap SpoiledIn(x) = {}
<1> SUFFICES ASSUME NEW k \in Keys, k \in HeldIn(x, {"text"}), k \in SpoiledIn(x)
             PROVE  FALSE
  BY DEF HeldIn
<1>1. PICK e \in BoundIn(x, k) : e.val.ptr = "text"
  BY DEF HeldIn
<1>2. e \in Contents(x) /\ e.key = k
  BY DEF BoundIn
<1> QED
  BY <1>1, <1>2, MappedBound DEF SpoiledIn

(* The mapping depends on the contents alone: rehash steps do not change it. *)
LEMMA MappedContents ==
    ASSUME NEW x, NEW y, Contents(x) = Contents(y)
    PROVE  TextsIn(x) = TextsIn(y) /\ SpoiledIn(x) = SpoiledIn(y)
<1>1. \A k : BoundIn(x, k) = BoundIn(y, k)
  BY DEF BoundIn
<1>2. \A kinds : HeldIn(x, kinds) = HeldIn(y, kinds)
  BY <1>1 DEF HeldIn
<1>3. ASSUME NEW k PROVE ObjectIn(x, k) = ObjectIn(y, k)
  <2>1. BoundIn(x, k) = BoundIn(y, k)
    BY <1>1
  <2> QED
    BY <2>1 DEF ObjectIn
<1> QED
  BY <1>2, <1>3 DEF TextsIn, SpoiledIn

(* Storing for one key changes what the mapping says of that key alone. *)
LEMMA MappedOthers ==
    ASSUME WellFormed(d), NEW k \in Keys, NEW o \in Vals, Store(k, o)
    PROVE  \A j \in Keys \ {k} :
             /\ \A kinds : j \in HeldIn(d', kinds) <=> j \in HeldIn(d, kinds)
             /\ ObjectIn(d', j) = ObjectIn(d, j)
<1>1. Contents(d') = (Contents(d) \ BoundIn(d, k)) \cup {[key |-> k, val |-> o]}
  BY StoreEffect
<1> SUFFICES ASSUME NEW j \in Keys \ {k}
             PROVE  /\ \A kinds : j \in HeldIn(d', kinds) <=> j \in HeldIn(d, kinds)
                    /\ ObjectIn(d', j) = ObjectIn(d, j)
  OBVIOUS
<1>2. BoundIn(d', j) = BoundIn(d, j)
  <2> DEFINE n == [key |-> k, val |-> o]
  <2>1. n.key = k
    OBVIOUS
  <2>2. n \in Contents(d') /\ \A e \in Contents(d') : e \in Contents(d) \/ e = n
    BY <1>1
  <2>3. \A e \in Contents(d) : e.key # k => e \in Contents(d')
    BY <1>1 DEF BoundIn
  <2> HIDE DEF n
  <2> QED
    BY <2>1, <2>2, <2>3 DEF BoundIn
<1>3. \A kinds : j \in HeldIn(d', kinds) <=> j \in HeldIn(d, kinds)
  BY <1>2 DEF HeldIn
<1>4. ObjectIn(d', j) = ObjectIn(d, j)
  BY <1>2 DEF ObjectIn
<1> QED
  BY <1>3, <1>4

(* Storing a text is Put; the key is no longer spoiled. *)
LEMMA StoreIsPut ==
    ASSUME WellFormed(d), NEW k \in Keys, NEW t \in Text, Store(k, Str(t))
    PROVE  /\ TextsIn(d') = CS!Put(TextsIn(d), k, t)
           /\ SpoiledIn(d') = SpoiledIn(d) \ {k}
           /\ reply' = [is |-> "ok"]
<1> DEFINE n == [key |-> k, val |-> Str(t)]
<1>1. Str(t) \in Vals
  BY ObjectTypes
<1>2. /\ WellFormed(d') /\ reply' = [is |-> "ok"]
      /\ Contents(d') = (Contents(d) \ BoundIn(d, k)) \cup {n}
  BY <1>1, StoreEffect
<1>3. n \in Contents(d') /\ n.key = k /\ n.val.ptr = "text" /\ n.val.text = t
  BY <1>2 DEF Str
<1>4. \A j \in Keys \ {k} :
        /\ \A kinds : j \in HeldIn(d', kinds) <=> j \in HeldIn(d, kinds)
        /\ ObjectIn(d', j) = ObjectIn(d, j)
  BY <1>1, MappedOthers
<1> HIDE DEF n
<1>5. /\ \A kinds : k \in HeldIn(d', kinds) <=> "text" \in kinds
      /\ ObjectIn(d', k).text = t
  BY <1>2, <1>3, MappedBound
<1>6. HeldIn(d', {"text"}) = HeldIn(d, {"text"}) \cup {k}
  BY <1>4, <1>5 DEF HeldIn
<1>7. SpoiledIn(d') = SpoiledIn(d) \ {k}
  <2>1. k \notin SpoiledIn(d')
    BY <1>5 DEF SpoiledIn
  <2>2. SpoiledIn(d) \subseteq Keys /\ SpoiledIn(d') \subseteq Keys
    BY DEF SpoiledIn, HeldIn
  <2>3. \A j \in Keys \ {k} : j \in SpoiledIn(d') <=> j \in SpoiledIn(d)
    BY <1>4 DEF SpoiledIn
  <2> QED
    BY <2>1, <2>2, <2>3
<1>8. TextsIn(d') = CS!Put(TextsIn(d), k, t)
  <2>1. DOMAIN TextsIn(d) = HeldIn(d, {"text"}) /\ HeldIn(d, {"text"}) \subseteq Keys
    BY DEF TextsIn, HeldIn
  <2>2. ASSUME NEW j \in HeldIn(d, {"text"}) \cup {k}
        PROVE  ObjectIn(d', j).text = IF j = k THEN t ELSE TextsIn(d)[j]
    BY <1>4, <1>5, <2>1, <2>2 DEF TextsIn
  <2> QED
    BY <1>6, <2>1, <2>2 DEF TextsIn, CS!Put
<1> QED
  BY <1>2, <1>7, <1>8

(* Storing anything leaves the other keys as they were. *)
LEMMA StoreOthers ==
    ASSUME WellFormed(d), NEW k \in Keys, NEW o \in Vals, Store(k, o)
    PROVE  /\ SpoiledIn(d') \ {k} = SpoiledIn(d) \ {k}
           /\ DOMAIN TextsIn(d') \ {k} = DOMAIN TextsIn(d) \ {k}
           /\ \A i \in DOMAIN TextsIn(d) \ {k} : TextsIn(d')[i] = TextsIn(d)[i]
<1>2. \A j \in Keys \ {k} :
        /\ \A kinds : j \in HeldIn(d', kinds) <=> j \in HeldIn(d, kinds)
        /\ ObjectIn(d', j) = ObjectIn(d, j)
  BY MappedOthers
<1>3. \A kinds : HeldIn(d', kinds) \ {k} = HeldIn(d, kinds) \ {k}
  BY <1>2 DEF HeldIn
<1>4. /\ DOMAIN TextsIn(d) = HeldIn(d, {"text"})
      /\ DOMAIN TextsIn(d') = HeldIn(d', {"text"})
      /\ HeldIn(d, {"text"}) \subseteq Keys
  BY DEF TextsIn, HeldIn
<1>5. ASSUME NEW i \in HeldIn(d, {"text"}) \ {k}
      PROVE  TextsIn(d')[i] = TextsIn(d)[i]
  <2>1. i \in HeldIn(d', {"text"}) /\ i \in Keys \ {k}
    BY <1>3, <1>4
  <2> QED
    BY <1>2, <2>1 DEF TextsIn
<1> QED
  BY <1>3, <1>4, <1>5 DEF SpoiledIn

(* The commands of CounterStore. *)
LEMMA AbstractCommands ==
    ASSUME NEW s, NEW cmd, NEW last
    PROVE  /\ cmd.action = "set" =>
                /\ CS!StoreAfter(s, cmd) = CS!Put(s, cmd.key, cmd.val)
                /\ CS!ReplyTo(s, cmd, last) = [is |-> "ok"]
           /\ cmd.action = "incr" =>
                /\ CS!StoreAfter(s, cmd) = CS!Put(s, cmd.key, CS!Incremented(s, cmd.key))
                /\ CS!ReplyTo(s, cmd, last) = [is |-> "ok"]
           /\ cmd.action \notin {"set", "incr"} => CS!StoreAfter(s, cmd) = s
           /\ cmd.action = "get" =>
                CS!ReplyTo(s, cmd, last) =
                  IF cmd.key \in DOMAIN s
                  THEN [is |-> "value", text |-> s[cmd.key]]
                  ELSE [is |-> "missing key"]
           /\ cmd.action = "other" => CS!ReplyTo(s, cmd, last) = last
<1>1. CASE cmd.action = "set"
  BY <1>1 DEF CS!StoreAfter, CS!ReplyTo
<1>2. CASE cmd.action = "incr"
  BY <1>2 DEF CS!StoreAfter, CS!ReplyTo
<1>3. CASE cmd.action = "get"
  BY <1>3 DEF CS!StoreAfter, CS!ReplyTo
<1>4. CASE cmd.action \notin {"set", "incr", "get"}
  BY <1>4 DEF CS!StoreAfter, CS!ReplyTo
<1> QED
  BY <1>1, <1>2, <1>3, <1>4

(* Every command maps to a step of CounterStore. *)
LEMMA CommandRefines ==
    ASSUME Safe, NEW cmd \in Commands, commandServer(cmd)
    PROVE  CS!Next
<1> DEFINE k == cmd.key
           s == TextsIn(d)
           opened == \/ k \in {i \in Keys : CKey[i] # i} \cup SpoiledIn(d)
                     \/ k \in DOMAIN s /\ s[k].tail
<1>1. WellFormed(d) /\ request' = cmd
  BY DEF Safe, TypeOK, commandServer
<1>2. k \in Keys /\ (cmd.action = "set" => cmd.val \in SetTexts /\ cmd.val \in Text)
  BY KeyspaceAssumption DEF Commands
<1>3. cmd \in CS!AllCommands
  BY KeyspaceAssumption DEF Commands, CS!AllCommands, CS!Commands
<1>4. SUFFICES \/ /\ cmd.action # "decr"
                  /\ cmd.action = "get" => ~opened
                  /\ cmd.action = "incr" => k \notin SpoiledIn(d)
                  /\ reply' = CS!ReplyTo(s, cmd, reply)
                  /\ TextsIn(d') = CS!StoreAfter(s, cmd)
                  /\ SpoiledIn(d') = SpoiledIn(d) \ (DOMAIN TextsIn(d') \ DOMAIN s)
               \/ /\ cmd.action = "get" /\ opened
                  /\ TextsIn(d') = s /\ SpoiledIn(d') = SpoiledIn(d)
               \/ /\ \/ cmd.action = "decr"
                     \/ cmd.action = "incr" /\ k \in SpoiledIn(d)
                  /\ SpoiledIn(d') \ {k} = SpoiledIn(d) \ {k}
                  /\ DOMAIN TextsIn(d') \ {k} = DOMAIN s \ {k}
                  /\ \A i \in DOMAIN s \ {k} : TextsIn(d')[i] = s[i]
  BY <1>1, <1>3 DEF CS!Next, CS!Execute, CS!OpenGet, CS!OpenCount, CS!OthersKept, TextsIn, SpoiledIn,
       HeldIn, ObjectIn, BoundIn, Held, Object, Binding
<1>5. \A last : /\ cmd.action = "set" => CS!ReplyTo(s, cmd, last) = [is |-> "ok"]
                /\ cmd.action = "incr" => CS!ReplyTo(s, cmd, last) = [is |-> "ok"]
  BY AbstractCommands
<1>6. DOMAIN s = HeldIn(d, {"text"}) /\ DOMAIN s \cap SpoiledIn(d) = {}
  BY <1>1, TextNotSpoiled DEF TextsIn
<1> HIDE DEF k
<1>7. ASSUME NEW e \in Contents(d), e.key = k
      PROVE  /\ lookupKey(d, k) = {e.val}
             /\ e.val.ptr = "text" => k \in DOMAIN s /\ s[k] = e.val.text
             /\ e.val.ptr \in {"null", "wild"} => k \in SpoiledIn(d)
             /\ e.val \in Vals
  <2>1. BoundIn(d, k) = {e}
    BY <1>1, <1>2, <1>7, MappedBound DEF k
  <2>2. lookupKey(d, k) = {e.val}
    BY <1>1, <1>2, <2>1, FindCorrect DEF lookupKey, BoundIn, k
  <2>3. e.val \in Vals
    BY <1>1, ContentsAreEntries DEF Entry
  <2> QED
    BY <1>1, <1>2, <1>6, <1>7, <2>2, <2>3, MappedBound DEF k, SpoiledIn
<1>8. ASSUME lookupKey(d, k) = {} PROVE k \notin DOMAIN s /\ k \notin SpoiledIn(d)
  <2>1. dictFind(d, k) = BoundIn(d, k)
    BY <1>1, <1>2, FindCorrect DEF BoundIn, k
  <2>2. BoundIn(d, k) = {}
    BY <1>8, <2>1 DEF lookupKey
  <2> QED
    BY <1>2, <1>6, <2>2, MappedUnbound DEF SpoiledIn, k
<1>9. ASSUME NEW o \in lookupKey(d, k)
      PROVE  \E e \in Contents(d) : e.key = k /\ e.val = o
  <2>1. dictFind(d, k) = BoundIn(d, k)
    BY <1>1, <1>2, FindCorrect DEF BoundIn, k
  <2>2. PICK e \in BoundIn(d, k) : o = e.val
    BY <2>1 DEF lookupKey
  <2> QED
    BY <2>2 DEF BoundIn
<1>10. ASSUME NEW r, Replies(AfterFind(d), r)
       PROVE  TextsIn(d') = s /\ SpoiledIn(d') = SpoiledIn(d) /\ reply' = r
  <2>1. Contents(d') = Contents(d)
    BY <1>1, <1>2, <1>10, FindCorrect DEF Replies
  <2> QED
    BY <1>10, <2>1, MappedContents DEF Replies
<1>11. ASSUME NEW t \in Text, Store(k, Str(t)), cmd.action \in {"set", "incr"},
              cmd.action = "incr" => k \notin SpoiledIn(d),
              CS!StoreAfter(s, cmd) = CS!Put(s, k, t)
       PROVE  /\ cmd.action = "incr" => k \notin SpoiledIn(d)
              /\ reply' = CS!ReplyTo(s, cmd, reply)
              /\ TextsIn(d') = CS!StoreAfter(s, cmd)
              /\ SpoiledIn(d') = SpoiledIn(d) \ (DOMAIN TextsIn(d') \ DOMAIN s)
  <2>1. /\ TextsIn(d') = CS!Put(s, k, t)
        /\ SpoiledIn(d') = SpoiledIn(d) \ {k}
        /\ reply' = [is |-> "ok"]
    BY <1>1, <1>2, <1>11, StoreIsPut DEF k
  <2>2. DOMAIN TextsIn(d') = DOMAIN s \cup {k}
    BY <2>1 DEF CS!Put
  <2> HIDE DEF s
  <2>3. SpoiledIn(d') = SpoiledIn(d) \ (DOMAIN TextsIn(d') \ DOMAIN s)
    BY <1>6, <2>1, <2>2
  <2> QED
    BY <1>5, <1>11, <2>1, <2>3
<1>12. ASSUME NEW o \in Vals, Store(k, o)
       PROVE  /\ SpoiledIn(d') \ {k} = SpoiledIn(d) \ {k}
              /\ DOMAIN TextsIn(d') \ {k} = DOMAIN s \ {k}
              /\ \A i \in DOMAIN s \ {k} : TextsIn(d')[i] = s[i]
  BY <1>1, <1>2, <1>12, StoreOthers DEF k
<1>13. CASE cmd.action = "get" /\ get(k)
  <2>1. /\ CS!StoreAfter(s, cmd) = s
        /\ k \in DOMAIN s => CS!ReplyTo(s, cmd, reply) = [is |-> "value", text |-> s[k]]
        /\ k \notin DOMAIN s => CS!ReplyTo(s, cmd, reply) = [is |-> "missing key"]
    BY <1>13, AbstractCommands DEF k
  <2>2. TextsIn(d') = s /\ SpoiledIn(d') = SpoiledIn(d)
    <3>1. CASE d' = d
      BY <3>1
    <3>2. CASE \E r : Replies(AfterFind(d), r)
      BY <1>10, <3>2
    <3> QED
      BY <1>13, <3>1, <3>2 DEF get, Ends
  <2>3. CASE opened
    BY <1>13, <2>2, <2>3
  <2>4. CASE ~opened
    <3>1. CKey[k] = k /\ k \notin SpoiledIn(d) /\ (k \in DOMAIN s => ~s[k].tail)
      BY <1>2, <2>4 DEF k
    <3> HIDE DEF s, opened
    <3>2. ASSUME lookupKey(d, k) = {}, Replies(AfterFind(d), [is |-> "missing key"])
          PROVE  reply' = CS!ReplyTo(s, cmd, reply)
      BY <1>8, <2>1, <3>2 DEF Replies
    <3>3. ASSUME NEW o \in lookupKey(d, k), o.ptr \in {"null", "wild"}
          PROVE  FALSE
      BY <1>7, <1>9, <3>1, <3>3
    <3>4. ASSUME NEW o \in lookupKey(d, k), o.ptr = "text",
                 Replies(AfterFind(d), [is |-> "value", text |-> CText(o.text)])
          PROVE  reply' = CS!ReplyTo(s, cmd, reply)
      <4>1. k \in DOMAIN s /\ s[k] = o.text /\ o.text \in Text
        BY <1>1, <1>2, <1>7, <1>9, <3>4, FoundObject DEF k
      <4>2. CText(o.text) = s[k]
        BY <3>1, <4>1, CTextType
      <4> QED
        BY <2>1, <3>4, <4>1, <4>2 DEF Replies
    <3>5. reply' = CS!ReplyTo(s, cmd, reply)
      BY <1>13, <3>1, <3>2, <3>3, <3>4 DEF get
    <3> QED
      BY <1>13, <2>1, <2>2, <2>4, <3>5
  <2> QED
    BY <2>3, <2>4
<1>14. CASE cmd.action = "set" /\ setKey(k, cmd.val)
  <2>1. CS!StoreAfter(s, cmd) = CS!Put(s, k, cmd.val)
    BY <1>14, AbstractCommands DEF k
  <2> HIDE DEF s
  <2> QED
    BY <1>2, <1>11, <1>14, <2>1 DEF setKey
<1>15. CASE cmd.action = "incr" /\ incrKey(k)
  <2>1. CS!StoreAfter(s, cmd) = CS!Put(s, k, CS!Incremented(s, k))
    BY <1>15, AbstractCommands DEF k
  <2>2. /\ k \in DOMAIN s => CS!Incremented(s, k) = Decimal(CS!Successor(s[k].num))
        /\ k \notin DOMAIN s => CS!Incremented(s, k) = Decimal(1)
    BY DEF CS!Incremented, CS!Decimal, Decimal
  <2> HIDE DEF s
  <2>3. \A n \in Int : Decimal(WrapLong(n)) \in Text
    BY WrapLongType DEF Decimal, Text
  <2>4. Decimal(1) \in Text
    BY LongAssumption DEF Decimal, Text, Long
  <2>5. \A n \in Long : n + 1 \in Int
    BY LongAssumption DEF Long
  <2>6. CASE lookupKey(d, k) = {} /\ Store(k, Str(Decimal(1)))
    BY <1>8, <1>11, <1>15, <2>1, <2>2, <2>4, <2>6
  <2>7. ASSUME NEW o \in lookupKey(d, k), o.ptr = "null", Ends("segv")
        PROVE  d' = d /\ k \in SpoiledIn(d)
    BY <1>7, <1>9, <2>7 DEF Ends
  <2>8. ASSUME NEW o \in lookupKey(d, k), o.ptr = "wild", NEW n \in WildNumbers,
               Store(k, Str(Decimal(WrapLong(n + 1))))
        PROVE  /\ k \in SpoiledIn(d)
               /\ SpoiledIn(d') \ {k} = SpoiledIn(d) \ {k}
               /\ DOMAIN TextsIn(d') \ {k} = DOMAIN s \ {k}
               /\ \A i \in DOMAIN s \ {k} : TextsIn(d')[i] = s[i]
    <3>1. k \in SpoiledIn(d)
      BY <1>7, <1>9, <2>8
    <3>2. Str(Decimal(WrapLong(n + 1))) \in Vals
      BY <2>5, ObjectTypes, KeyspaceAssumption
    <3> QED
      BY <1>12, <2>8, <3>1, <3>2
  <2>9. ASSUME NEW o \in lookupKey(d, k), o.ptr = "text",
               Store(k, Str(Decimal(WrapLong(o.text.num + 1))))
        PROVE  /\ k \notin SpoiledIn(d)
               /\ reply' = CS!ReplyTo(s, cmd, reply)
               /\ TextsIn(d') = CS!StoreAfter(s, cmd)
               /\ SpoiledIn(d') = SpoiledIn(d) \ (DOMAIN TextsIn(d') \ DOMAIN s)
    <3>1. k \in DOMAIN s /\ s[k] = o.text /\ k \notin SpoiledIn(d)
      BY <1>6, <1>7, <1>9, <2>9
    <3>2. o.text.num \in Long
      BY <1>1, <1>2, <2>9, FoundObject DEF Text, k
    <3>3. Decimal(WrapLong(o.text.num + 1)) \in Text
      BY <2>3, <2>5, <3>2
    <3>4. WrapLong(o.text.num + 1) = CS!Successor(s[k].num)
      BY <3>1, <3>2, WrapSuccessor
    <3> QED
      BY <1>11, <1>15, <2>1, <2>2, <2>9, <3>1, <3>3, <3>4
  <2>10. d' = d => TextsIn(d') = s
    BY DEF s
  <2> QED
    BY <1>15, <2>6, <2>7, <2>8, <2>9, <2>10 DEF incrKey
<1>16. CASE cmd.action = "decr" /\ decrKey(k)
  <2>1. \E o \in Vals : Store(k, o)
    BY <1>16, ObjectTypes DEF decrKey
  <2> HIDE DEF s
  <2> QED
    BY <1>12, <1>16, <2>1
<1>17. CASE cmd.action = "other" /\ UNCHANGED <<d, fault, reply>>
  <2>1. CS!StoreAfter(s, cmd) = s /\ CS!ReplyTo(s, cmd, reply) = reply
    BY <1>17, AbstractCommands
  <2>2. TextsIn(d') = s /\ SpoiledIn(d') = SpoiledIn(d)
    BY <1>17
  <2> HIDE DEF s
  <2> QED
    BY <1>17, <2>1, <2>2
<1> QED
  BY <1>13, <1>14, <1>15, <1>16, <1>17 DEF commandServer, k

(* command.c:30-56: for every set of keys, every hash function and every     *)
(* sequence of commands, the server's counters are those of CounterStore:    *)
(* where neither the key nor the text holds a NUL, each reply is the one the *)
(* texts stored so far call for, through every expansion and rehash; a get   *)
(* of any key leaves every text as it was, and decr does harm to no key but  *)
(* its own.                                                                  *)
THEOREM CommandsImplementStore == Spec => StoreSpec
<1>1. Init => CS!Init
  <2> SUFFICES ASSUME Init PROVE CS!Init
    OBVIOUS
  <2>1. Contents(d) = {}
    BY CreatedWellFormed DEF Init
  <2>2. \A kinds : Held(kinds) = {}
    BY <2>1 DEF Held, Binding
  <2> QED
    BY <2>2 DEF Init, CS!Init, CS!EmptyStore, CS!NoReply
<1>2. Safe /\ [Next]_vars => [CS!Next]_(CS!vars)
  <2>1. ASSUME Safe, Next PROVE CS!Next
    BY <2>1, CommandRefines DEF Next
  <2>2. ASSUME UNCHANGED vars PROVE UNCHANGED CS!vars
    BY <2>2 DEF vars, CS!vars, Held, Object, Binding
  <2> QED
    BY <2>1, <2>2
<1>3. TypeOK /\ AssertionsHold => Safe
  BY DEF Safe
<1> QED
  BY <1>1, <1>2, <1>3, AssertionsNeverFail, PTL DEF Spec, StoreSpec, CS!Spec
=============================================================================
