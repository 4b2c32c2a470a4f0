----------------------------- MODULE MCDictWalk -----------------------------
(* The instance of DictWalk for TLC. *)
EXTENDS DictWalk

(* Two keys that collide in every table of up to 4, one that parts from them *)
(* in a table of 2.                                                          *)
WalkHash == [k \in 1 .. 3 |-> <<0, 4, 3>>[k]]

(* No action reads ret; every step is still checked.                         *)
WalkView == <<d, dict_can_resize, open, walkVars>>
=============================================================================
