------------------------------ MODULE MCParts -------------------------------
(***************************************************************************)
(* Instances of the parts that share no state: lists, strings, the texts of*)
(* counters, and a client's requests.  A behaviour exercises one of them,  *)
(* so the state spaces add up instead of multiplying.                      *)
(***************************************************************************)
EXTENDS AdList, Sds, MCRequest

VARIABLE part

MCTypeLimit == <<2, 4, 6, 8>>

(* a letter; a capital and a NUL; a backslash, a quote and a control code *)
MCPieces == {<<>>, <<97>>, <<66, NUL>>, <<BS, DQ, 1>>}

MCSeps == {<<97>>, <<66, NUL>>}

MCInit ==
    /\ part \in {"list", "string", "counter", "request"}
    /\ ListInit /\ SdsInit /\ RequestInit

MCNext ==
    /\ \/ part = "list" /\ ListNext /\ UNCHANGED <<sdsVars, reqVars>>
       \/ part = "string" /\ StringNext /\ UNCHANGED <<listVars, reqVars>>
       \/ part = "counter" /\ IncrCounter /\ UNCHANGED <<listVars, reqVars>>
       \/ part = "request" /\ RequestNext /\ UNCHANGED <<listVars, sdsVars>>
    /\ UNCHANGED part

MCSpec == MCInit /\ [][MCNext]_<<listVars, sdsVars, reqVars, part>>
=============================================================================
