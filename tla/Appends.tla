------------------------------ MODULE Appends -------------------------------
(* What a List promises (list.h): a sequence to which elements are added   *)
(* at the end, for as long as there is memory.                             *)
EXTENDS Sequences

CONSTANT Elements

VARIABLES contents, failed

Init == contents = <<>> /\ failed = FALSE

Add(e) == ~failed /\ contents' = Append(contents, e) /\ UNCHANGED failed

Fail == ~failed /\ failed' = TRUE /\ UNCHANGED contents

Next == Fail \/ \E e \in Elements : Add(e)

Spec == Init /\ [][Next]_<<contents, failed>>
=============================================================================
