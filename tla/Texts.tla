-------------------------------- MODULE Texts --------------------------------
(***************************************************************************)
(* The texts the server stores.  A text is abstracted to the number atol   *)
(* reads from it and whether it is spelled the way sdsll2str spells that   *)
(* number ("7") or not ("007", "7x", "abc", a number too large for a       *)
(* long), and to whether bytes follow its first NUL, where a C string ends *)
(* and atol stops.                                                         *)
(***************************************************************************)
EXTENDS Integers

CONSTANT LONG_MAX       \* 2^63 - 1

ASSUME LongAssumption == LONG_MAX \in Nat \ {0}

Long == -(LONG_MAX + 1) .. LONG_MAX

Text == [odd : BOOLEAN, num : Long, tail : BOOLEAN]

(* What strlen, and so sdsnew and sdscpy, take of a text. *)
CText(t) == [t EXCEPT !.tail = FALSE]

(* The value a long holds after n is stored in it (two's complement).       *)
WrapLong(n) ==
    LET w == 2 * (LONG_MAX + 1)
    IN ((n + LONG_MAX + 1) % w) - (LONG_MAX + 1)

(* sdsll2str *)
Decimal(n) == [odd |-> FALSE, num |-> n, tail |-> FALSE]
=============================================================================
