----------------------------- MODULE MCCallStack -----------------------------
(* An image of four methods: main, resume, one with a parameter and a local  *)
(* and one with neither.  Calls and natives' callbacks reach all of them.   *)
EXTENDS CallStack

MCMethods   == { 4, 5, 6, 7 }
MCNumParams == [m \in MCMethods |-> CASE m = 6 -> 1 [] m = 7 -> 0 [] OTHER -> 2]
MCNumLocals == [m \in MCMethods |-> IF m = 6 THEN 1 ELSE 0]
MCAddrs     == { 1, 2 }
MCVals      == { 0, 255 }
=============================================================================
