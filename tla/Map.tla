-------------------------------- MODULE Map --------------------------------
(***************************************************************************)
(* What a Table promises to the resolver, the module loader and the code   *)
(* generator: a partial function from names to elements.  table.c never    *)
(* removes a key, so a key that is present stays present.                  *)
(***************************************************************************)
CONSTANTS Keys,      \* the names used as keys
          Elements,  \* what the table stores (AST nodes, LLVM types)
          NULL       \* absence of an element

VARIABLES dict,      \* what every key is bound to
          answer,    \* what the last look-up returned
          listing    \* what the last enumeration returned

vars == <<dict, answer, listing>>

TypeOK == /\ dict \in [Keys -> Elements \cup {NULL}]
          /\ answer \in Elements \cup {NULL}
          /\ listing \in SUBSET Elements

Init == /\ dict = [k \in Keys |-> NULL]
        /\ answer = NULL
        /\ listing = {}

Put(key, element) == /\ dict' = [dict EXCEPT ![key] = element]
                     /\ UNCHANGED <<answer, listing>>

Get(key) == /\ answer' = dict[key]
            /\ UNCHANGED <<dict, listing>>

GetAll == /\ listing' = {dict[k] : k \in Keys} \ {NULL}
          /\ UNCHANGED <<dict, answer>>

Next == \/ \E k \in Keys, e \in Elements : Put(k, e)
        \/ \E k \in Keys : Get(k)
        \/ GetAll

Spec == Init /\ [][Next]_vars
=============================================================================
