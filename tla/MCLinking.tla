----------------------------- MODULE MCLinking ------------------------------
(* A main file and two others: chains, diamonds, repeated and cyclic       *)
(* imports, functions and externs of one name.                             *)
EXTENDS Linking

CONSTANTS main, a, b

Symmetry == Permutations({a, b})
=============================================================================
