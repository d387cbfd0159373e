------------------------------ MODULE Closure ------------------------------
(***************************************************************************)
(* What loading the imports of a program has to achieve: the set of loaded *)
(* files grows by files that a loaded file or the main file imports, until *)
(* nothing imported is missing, or loading gives up.                       *)
(***************************************************************************)
CONSTANTS Path,      \* the files
          MainPath   \* the file named on the command line

VARIABLES imported,  \* the files every file imports
          loaded,    \* the files found so far
          outcome    \* "open", "closed" or "failed"

vars == <<imported, loaded, outcome>>

Wanted == imported[MainPath] \cup UNION {imported[p] : p \in loaded}

TypeOK == /\ imported \in [Path -> SUBSET Path]
          /\ loaded \in SUBSET Path
          /\ outcome \in {"open", "closed", "failed"}

Init == /\ imported \in [Path -> SUBSET Path]
        /\ loaded = {}
        /\ outcome = "open"

Load(p) == /\ outcome = "open"
           /\ p \in Wanted \ loaded
           /\ loaded' = loaded \cup {p}
           /\ UNCHANGED <<imported, outcome>>

Close == /\ outcome = "open"
         /\ Wanted \subseteq loaded
         /\ outcome' = "closed"
         /\ UNCHANGED <<imported, loaded>>

GiveUp == /\ outcome = "open"
          /\ outcome' = "failed"
          /\ UNCHANGED <<imported, loaded>>

Next == (\E p \in Path : Load(p)) \/ Close \/ GiveUp

Spec == Init /\ [][Next]_vars /\ WF_vars(Next)
=============================================================================
