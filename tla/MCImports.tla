----------------------------- MODULE MCImports -----------------------------
(* Every import graph over three files, the main file among them, with up  *)
(* to two imports a file: chains, diamonds, repeated imports, self-imports *)
(* and cycles.  The table grows at its third module.                       *)
EXTENDS Imports

CONSTANTS main, a, b
=============================================================================
