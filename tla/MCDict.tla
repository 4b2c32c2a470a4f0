------------------------------- MODULE MCDict -------------------------------
(* Instances of Dict for TLC. *)
EXTENDS DictLoops

(* Collisions in a table of 4 that a table of 8 or 16 tells apart (0, 4, 8), *)
(* a gap of empty buckets, and two hashes that never separate (1 and 17).    *)
HashOf6 == [k \in 1 .. 6 |-> <<0, 4, 8, 1, 17, 6>>[k]]

HashOf3 == [k \in 1 .. 3 |-> <<0, 6, 3>>[k]]

(* No action reads ret, so states that differ in it alone have the same       *)
(* successors; every step is still checked against the action properties.    *)
DictView == <<d, dict_can_resize, open>>
=============================================================================
