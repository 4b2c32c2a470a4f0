------------------------------ MODULE ListSeq -------------------------------
(***************************************************************************)
(* What adlist.h promises: a list is a sequence of values, and an operation*)
(* changes the lists it is given in the way its name says and no other.    *)
(* An operation relates the sequences s before to the sequences t after.   *)
(***************************************************************************)
EXTENDS Integers, SequencesExt

CONSTANTS Lists, Values

VARIABLE seqs       \* the sequences, of the lists that exist

With(s, l, q) == [k \in DOMAIN s \cup {l} |-> IF k = l THEN q ELSE s[k]]

Create(s, t, l) == l \notin DOMAIN s /\ t = With(s, l, <<>>)

Release(s, t, l) == t = [k \in DOMAIN s \ {l} |-> s[k]]

Empty(s, t, l) == t = With(s, l, <<>>)

Insert(s, t, l) ==
    \E i \in 1 .. Len(s[l]) + 1, v \in Values : t = With(s, l, InsertAt(s[l], i, v))

Delete(s, t, l) == \E i \in DOMAIN s[l] : t = With(s, l, RemoveAt(s[l], i))

Rotate(s, t, l) ==
    s[l] # <<>> /\ t = With(s, l, <<Last(s[l])>> \o Front(s[l]))

Join(s, t, l, o) == l # o /\ t = [s EXCEPT ![l] = s[l] \o s[o], ![o] = <<>>]

Dup(s, t, l, copy) == copy \notin DOMAIN s /\ t = With(s, copy, s[l])

Init == seqs = [l \in {} |-> <<>>]

Next ==
    \E s \in {seqs}, t \in {seqs'} :
      \/ \E l \in Lists : Create(s, t, l)
      \/ \E l \in DOMAIN s :
           Release(s, t, l) \/ Empty(s, t, l) \/ Delete(s, t, l) \/ Rotate(s, t, l)
      \/ \E l \in DOMAIN s : Insert(s, t, l)
      \/ \E l, o \in DOMAIN s : Join(s, t, l, o)
      \/ \E l \in DOMAIN s, copy \in Lists : Dup(s, t, l, copy)

Spec == Init /\ [][Next]_seqs
=============================================================================
