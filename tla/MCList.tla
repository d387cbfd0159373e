------------------------------- MODULE MCList -------------------------------
(* Two elements, and ints of five bits, so that the third growth of a list *)
(* of three slots overflows: 3, 6, 12, and 24 is too much.                 *)
EXTENDS List

CONSTANTS e1, e2
=============================================================================
