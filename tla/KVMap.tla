------------------------------- MODULE KVMap -------------------------------
(***************************************************************************)
(* What dict.h promises its callers: a finite map from keys to values,     *)
(* kept here as the set of its bindings, and the result of the last call.  *)
(* Nothing of tables, chains, rehashing or iterators is visible.           *)
(***************************************************************************)
CONSTANTS Keys, Vals

VARIABLES
    map,    \* the bindings, records [key, val]
    ret     \* the last call: its name, its key and its result

vars == <<map, ret>>

Bound(k) == {e \in map : e.key = k}

(* The calls that never change what the map holds. *)
Maintenance ==
    {"create", "expand", "resize", "rehash", "toggle", "iterator"}

Init == /\ map = {}
        /\ ret = [op |-> "create"]

(* dictAdd: DICT_ERR exactly when the key is there. *)
Add(k, v) ==
    \/ /\ Bound(k) = {}
       /\ map' = map \cup {[key |-> k, val |-> v]}
       /\ ret' = [op |-> "add", key |-> k, res |-> "DICT_OK"]
    \/ /\ Bound(k) # {}
       /\ map' = map
       /\ ret' = [op |-> "add", key |-> k, res |-> "DICT_ERR"]

(* dictReplace: 1 for a new key, 0 for an overwritten one. *)
Replace(k, v) ==
    /\ map' = (map \ Bound(k)) \cup {[key |-> k, val |-> v]}
    /\ ret' = [op |-> "replace", key |-> k,
               res |-> IF Bound(k) = {} THEN "1" ELSE "0"]

(* dictDelete: DICT_ERR exactly when the key is not there. *)
Delete(k) ==
    /\ map' = map \ Bound(k)
    /\ ret' = [op |-> "delete", key |-> k,
               res |-> IF Bound(k) = {} THEN "DICT_ERR" ELSE "DICT_OK"]

(* dictFetchValue: the entry bound to k, or none for NULL. *)
Fetch(k) ==
    /\ map' = map
    /\ ret' = [op |-> "fetch", key |-> k, found |-> Bound(k)]

Empty ==
    /\ map' = {}
    /\ ret' = [op |-> "empty"]

Maintain ==
    /\ map' = map
    /\ ret'.op \in Maintenance

Next ==
    \/ \E k \in Keys, v \in Vals : Add(k, v) \/ Replace(k, v)
    \/ \E k \in Keys : Delete(k) \/ Fetch(k)
    \/ Empty
    \/ Maintain

Spec == Init /\ [][Next]_vars
=============================================================================
