----------------------------- MODULE MCKeyspace -----------------------------
(* Instances of Keyspace for TLC. *)
EXTENDS Keyspace

(* Keys 1 and 2 share a bucket of a table of 1 or 2, and part in one of 4.   *)
MCHash == [k \in Keys |-> <<0, 2, 1, 5>>[k]]

(* Key 3 is key 2 with a NUL and more behind it. *)
MCCKey == [k \in Keys |-> <<1, 2, 2>>[k]]

(* A text atol reads as 0, with bytes behind a NUL, and one past the end of  *)
(* a long, which atol reads as LONG_MAX.                                     *)
MCTexts == {[odd |-> TRUE, num |-> 0, tail |-> TRUE],
            [odd |-> TRUE, num |-> LONG_MAX, tail |-> FALSE]}

MCVals == Objects
=============================================================================
