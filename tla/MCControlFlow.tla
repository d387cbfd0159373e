--------------------------- MODULE MCControlFlow ---------------------------
(* Five items: one function of up to four statements, nested in every way  *)
(* they can be, or two declarations with three statements in them.         *)
EXTENDS ControlFlow
=============================================================================
