------------------------------ MODULE MCServer ------------------------------
(* Instances of Server for TLC. *)
EXTENDS Server, TLC

CONSTANTS c1, c2, c3, k1

(* A counter that is counted up, read, and asked for by an unknown command.  *)
MCRequests == [action : {"get", "incr", "other"}, key : {k1}]

Counting == [action : {"incr"}, key : {k1}]

MCSymmetry == Permutations(Clients)
=============================================================================
