------------------------------ MODULE MCTable ------------------------------
(* Three names whose probe sequences collide and wrap around: all of them  *)
(* start at the last slot of a two-slot table, and two of them at the same *)
(* slot of every larger one.  NULL has the digest 2166136261 of the empty  *)
(* string, given modulo 16, a multiple of every capacity.                  *)
EXTENDS Table

CONSTANTS k1, k2, k3, e1, e2

MCDigest == [k \in Keys \cup {NULL} |-> CASE k = k1 -> 3
                                         [] k = k2 -> 3
                                         [] k = k3 -> 15
                                         [] OTHER -> 5]
=============================================================================
