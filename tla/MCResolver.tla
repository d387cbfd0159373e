----------------------------- MODULE MCResolver -----------------------------
(* Two files, of which the first to be walked can be imported under the    *)
(* name m, which is also the name of functions and variables.              *)
EXTENDS Resolver

CONSTANTS p, q

MCBase == [f \in Files |-> IF f = p THEN "m" ELSE "main"]
=============================================================================
