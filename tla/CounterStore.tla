---------------------------- MODULE CounterStore ----------------------------
(***************************************************************************)
(* The counters of Counters as a state machine: one command after another. *)
(* Keyspace shows that command.c and db.c implement it on the hash table.  *)
(*                                                                         *)
(* Two things are left open.  What decr makes of its key, until the key is *)
(* set again: only the other keys are promised to be as they were.  And    *)
(* what get replies where a NUL is met: it passes its key and the text it  *)
(* finds through C strings, and so misses a key that was set with a NUL    *)
(* (command.c:32, 39).                                                     *)
(***************************************************************************)
EXTENDS Counters

CONSTANT Binary     \* the keys that hold a NUL

VARIABLES
    store,      \* the texts of the keys that have one
    spoiled,    \* the keys decr has left without a text
    request,    \* the last command
    reply       \* the answer to it

vars == <<store, spoiled, request, reply>>

AllCommands == Commands \cup [action : {"decr"}, key : Keys]

Init ==
    /\ store = EmptyStore
    /\ spoiled = {}
    /\ request = [action |-> "none"]
    /\ reply = NoReply

OpenGet(cmd) ==
    /\ cmd.action = "get"
    /\ \/ cmd.key \in Binary \cup spoiled
       \/ cmd.key \in DOMAIN store /\ store[cmd.key].tail

(* An incr of a spoiled key may do anything to it, too. *)
OpenCount(cmd) ==
    \/ cmd.action = "decr"
    \/ cmd.action = "incr" /\ cmd.key \in spoiled

Execute(cmd) ==
    /\ ~OpenGet(cmd) /\ ~OpenCount(cmd)
    /\ reply' = ReplyTo(store, cmd, reply)
    /\ store' = StoreAfter(store, cmd)
    /\ spoiled' = spoiled \ (DOMAIN store' \ DOMAIN store)

OthersKept(k) ==
    /\ spoiled' \ {k} = spoiled \ {k}
    /\ DOMAIN store' \ {k} = DOMAIN store \ {k}
    /\ \A i \in DOMAIN store \ {k} : store'[i] = store[i]

Next ==
    \E cmd \in AllCommands :
        /\ request' = cmd
        /\ \/ Execute(cmd)
           \/ OpenGet(cmd) /\ UNCHANGED <<store, spoiled>>
           \/ OpenCount(cmd) /\ OthersKept(cmd.key)

Spec == Init /\ [][Next]_vars
=============================================================================
