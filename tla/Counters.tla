------------------------------ MODULE Counters ------------------------------
(***************************************************************************)
(* What the commands of the server promise a client, as operators: named   *)
(* texts that can be set, read and counted up.                             *)
(***************************************************************************)
EXTENDS Texts

CONSTANTS
    Keys,
    SetTexts        \* the texts clients pass to set

ASSUME CountersAssumption ==
    SetTexts \subseteq Text

(* "other" is every action commandServer has no branch for. *)
Commands ==
    [action : {"get", "incr", "other"}, key : Keys] \cup
    [action : {"set"}, key : Keys, val : SetTexts]

NoReply == [is |-> "none"]

EmptyStore == [k \in {} |-> Decimal(0)]

Put(s, k, t) == [i \in DOMAIN s \cup {k} |-> IF i = k THEN t ELSE s[i]]

(* The number after n: the largest long is followed by the smallest. *)
Successor(n) == IF n = LONG_MAX THEN -(LONG_MAX + 1) ELSE n + 1

(* Mutant of Incremented: a number too large for a long. *)
IncrementedUnbounded(s, k) ==
    Decimal(IF k \in DOMAIN s THEN s[k].num + 1 ELSE 1)

(* A missing counter counts from 0. *)
Incremented(s, k) ==
    Decimal(IF k \in DOMAIN s THEN Successor(s[k].num) ELSE 1)

(* The texts after a command on the texts s. *)
StoreAfter(s, cmd) ==
    CASE cmd.action = "set"  -> Put(s, cmd.key, cmd.val)
      [] cmd.action = "incr" -> Put(s, cmd.key, Incremented(s, cmd.key))
      [] OTHER               -> s

(* The reply: an action without a branch leaves the last one in outbuf. *)
ReplyTo(s, cmd, last) ==
    CASE cmd.action = "get" ->
           IF cmd.key \in DOMAIN s
           THEN [is |-> "value", text |-> s[cmd.key]]
           ELSE [is |-> "missing key"]
      [] cmd.action \in {"set", "incr"} -> [is |-> "ok"]
      [] OTHER -> last
=============================================================================
