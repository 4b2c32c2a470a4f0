------------------------------ MODULE Keyspace ------------------------------
(***************************************************************************)
(* The commands of the server (command.c, db.c, object.c) on the hash      *)
(* table of dict.c.  A command is one action: the server is single-        *)
(* threaded and commandServer never blocks.                                *)
(***************************************************************************)
EXTENDS DictOps, Texts

CONSTANTS
    CKey,           \* a key as a C string: what comes before its first NUL
    SetTexts,       \* the texts clients pass to set
    Actions,        \* the commands the clients use
    WildNumbers     \* what atol may read from the bytes before a string

VARIABLES
    d,          \* db->dict
    fault,      \* how the process ended: "none" while it runs
    request,    \* the last command
    reply       \* what commandServer left in outbuf

vars == <<d, fault, request, reply>>

(* A robj is the thing its ptr points to: a text, nothing, or bytes some    *)
(* way before a text.                                                       *)
Str(t) == [ptr |-> "text", text |-> t]
NullPtr == [ptr |-> "null"]
WildPtr == [ptr |-> "wild"]

Objects == {Str(t) : t \in Text} \cup {NullPtr, WildPtr}

ASSUME KeyspaceAssumption ==
    /\ CKey \in [Keys -> Keys] /\ \A k \in Keys : CKey[CKey[k]] = CKey[k]
    /\ SetTexts \subseteq Text
    /\ Actions \subseteq {"get", "set", "incr", "decr", "other"}
    /\ WildNumbers \subseteq Long
    /\ Vals = Objects

Commands ==
    [action : Actions \ {"set"}, key : Keys] \cup
    [action : Actions \cap {"set"}, key : Keys, val : SetTexts]

(* dict_can_resize is never turned off by the server. *)
CanResize == TRUE

-----------------------------------------------------------------------------
(* db.c and object.c *)

(* Mutant of lookupKey: the second table is forgotten. *)
lookupKeyFirstTable(x, k) ==
    {e.val : e \in IF dictSize(x) = 0 THEN {} ELSE Match(AfterFind(x).ht0, k)}

(* lookupKey, lookupKeyWrite: the object bound to k, as a set of at most    *)
(* one; AfterFind is the dict the lookup leaves.                            *)
lookupKey(x, k) == {e.val : e \in dictFind(x, k)}

(* dbAdd aborts unless dictAdd returns DICT_OK. *)
dbAddAborts(x, k) == dictAddErr(x, k, CanResize)

dbAdd(x, k, o) == dictAdd(x, k, o, CanResize)

(* dbOverwrite looks the key up a second time and aborts without an entry.  *)
dbOverwriteAborts(x, k) == dictFind(x, k) = {}

(* Mutants of dbOverwrite: the entry is added again, or freed. *)
dbOverwriteAdds(x, k, o) == AddEntry(AfterFind(x), [key |-> k, val |-> o])
dbOverwriteFrees(x, k, o) == dictDelete(AfterFind(x), k)

dbOverwrite(x, k, o) == SetFound(AfterFind(x), k, o)

Ends(how) == fault' = how /\ UNCHANGED <<d, reply>>

Replies(x, r) == d' = x /\ reply' = r /\ UNCHANGED fault

(* How setKey, incrKey and decrKey store an object for a key they have just *)
(* looked up in d.                                                          *)
Store(k, o) ==
    LET x == AfterFind(d)
    IN  \/ /\ lookupKey(d, k) = {}
           /\ IF dbAddAborts(x, k) THEN Ends("assert")
              ELSE Replies(dbAdd(x, k, o), [is |-> "ok"])
        \/ /\ lookupKey(d, k) # {}
           /\ IF dbOverwriteAborts(x, k) THEN Ends("assert")
              ELSE Replies(dbOverwrite(x, k, o), [is |-> "ok"])

-----------------------------------------------------------------------------
(* commandServer *)

(* Both sdscpy and atol read through the pointer of the object.  get makes  *)
(* a new string of its key and copies the text it finds, both up to the     *)
(* first NUL; the other commands take the whole key.                        *)
get(k) ==
    \/ lookupKey(d, CKey[k]) = {} /\ Replies(AfterFind(d), [is |-> "missing key"])
    \/ \E o \in lookupKey(d, CKey[k]) :
         \/ o.ptr = "null" /\ Ends("segv")
         \/ o.ptr = "wild" /\ Replies(AfterFind(d), [is |-> "garbage"])
         \/ /\ o.ptr = "text"
            /\ Replies(AfterFind(d), [is |-> "value", text |-> CText(o.text)])

setKey(k, t) == Store(k, Str(t))

(* Mutant of incrKey: a missing counter is created without counting. *)
incrKeyFromZero(k) ==
    \/ lookupKey(d, k) = {} /\ Store(k, Str(Decimal(0)))
    \/ \E o \in lookupKey(d, k) :
         o.ptr = "text" /\ Store(k, Str(Decimal(WrapLong(o.text.num + 1))))

incrKey(k) ==
    \/ lookupKey(d, k) = {} /\ Store(k, Str(Decimal(1)))
    \/ \E o \in lookupKey(d, k) :
         \/ o.ptr = "null" /\ Ends("segv")
         \/ o.ptr = "wild" /\ \E n \in WildNumbers :
                                Store(k, Str(Decimal(WrapLong(n + 1))))
         \/ o.ptr = "text" /\ Store(k, Str(Decimal(WrapLong(o.text.num + 1))))

(* decrKey subtracts from the pointer and not from the number it points to: *)
(* a null pointer stays null, any other moves one byte down.                *)
decrKey(k) ==
    \/ lookupKey(d, k) = {} /\ Store(k, NullPtr)
    \/ \E o \in lookupKey(d, k) :
         Store(k, IF o.ptr = "null" THEN NullPtr ELSE WildPtr)

commandServer(cmd) ==
    /\ fault = "none"
    /\ request' = cmd
    /\ \/ cmd.action = "get" /\ get(cmd.key)
       \/ cmd.action = "set" /\ setKey(cmd.key, cmd.val)
       \/ cmd.action = "incr" /\ incrKey(cmd.key)
       \/ cmd.action = "decr" /\ decrKey(cmd.key)
       \/ cmd.action = "other" /\ UNCHANGED <<d, fault, reply>>

Init ==
    /\ d = dictCreate
    /\ fault = "none"
    /\ request = [action |-> "none"]
    /\ reply = [is |-> "none"]

Next == \E cmd \in Commands : commandServer(cmd)

Spec == Init /\ [][Next]_vars

-----------------------------------------------------------------------------
(* Properties. *)

Binding(k) == {e \in Contents(d) : e.key = k}

Object(k) == (CHOOSE e \in Binding(k) : TRUE).val

(* Type invariant: the database is a well-formed dict of objects. *)
TypeOK ==
    /\ WellFormed(d)
    /\ fault \in {"none", "assert", "segv"}

(* db.c:53 and db.c:64: dbAdd aborts if the key exists, dbOverwrite if it    *)
(* does not.  Neither ever does, although both make rehash steps of their    *)
(* own after the lookup of setKey, incrKey or decrKey that chose them.       *)
AssertionsHold == fault # "assert"

(* No command loses a key: the database only grows, through every rehash     *)
(* step the lookups make and every overwrite (there is no delete command).   *)
KeysKept ==
    [][{e.key : e \in Contents(d)} \subseteq {e.key : e \in Contents(d')}]_vars

(* The commands implement the counters of CounterStore (command.c:30-56):    *)
(* where no NUL is met, every reply is the one the texts stored so far call  *)
(* for, through every expansion and rehash of the table; a get never changes *)
(* a text, even where one is met, and decr does harm to no key but its own.  *)
Held(kinds) == {k \in Keys : \E e \in Binding(k) : e.val.ptr \in kinds}

CS == INSTANCE CounterStore WITH
         store <- [k \in Held({"text"}) |-> Object(k).text],
         spoiled <- Held({"null", "wild"}),
         Binary <- {k \in Keys : CKey[k] # k}

StoreSpec == CS!Spec

(* db.c:116, the comment on decrKey: decrement.  A counter that holds n > 0  *)
(* holds n - 1 after a decr.                                                 *)
Counts(k, n) == Binding(k) # {} /\ Object(k) = Str(Decimal(n))

DecrDecrements ==
    [][\A k \in Keys : \A n \in 1 .. LONG_MAX :
         request' = [action |-> "decr", key |-> k] /\ Counts(k, n)
            => Counts(k, n - 1)']_vars
=============================================================================
