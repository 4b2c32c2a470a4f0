----------------------------- MODULE MCRequest ------------------------------
(* Lines for Request. *)
EXTENDS Request

chA == 97
chB == 98

(* Plain requests; a request that fills inbuf; quoted arguments: empty, or    *)
(* with a blank; an unknown command; quotes that do not balance; a key that   *)
(* the server reads as a NUL.                                                 *)
MCLines ==
    {<<SET, SP, chA, SP, chA>>, <<SET, SP, chA, SP, chB, chB>>, <<GET, SP, chA>>,
     <<SET, SP, chB, SP, chA, chB, chA, chB>>,
     <<SET, SP, chA, SP, DQ, DQ>>, <<SET, SP, chA, SP, DQ, chA, SP, chB, DQ>>,
     <<chB, SP, chA>>, <<SET, SP, chA, SP, SQ>>,
     <<GET, SP, SQ, DQ, BS, 120, 48, 48, DQ, SQ>>}
=============================================================================
