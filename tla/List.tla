-------------------------------- MODULE List --------------------------------
(***************************************************************************)
(* list.c: an array that doubles when it is full.  The specification is    *)
(* ListSpec, so that ParserProofs can extend Parser as well, whose tokens  *)
(* and nodes are kept in lists.                                            *)
(***************************************************************************)
EXTENDS Integers, Sequences

CONSTANTS Elements,       \* what lists are made of
          Garbage,        \* a slot that was never written
          DefaultLength,  \* LIST_DEFAULT_LENGTH
          MaxInt          \* the largest int

ASSUME ListAssumption ==
  /\ Garbage \notin Elements
  /\ DefaultLength \in Nat \ {0} /\ MaxInt \in Nat /\ DefaultLength <= MaxInt

VARIABLES length, capacity, elements,
          exited   \* exit(1) was called

list == <<length, capacity, elements, exited>>

(* That malloc may fail no caller looks at. *)
list_init ==
  /\ length = 0 /\ capacity = DefaultLength
  /\ elements = [i \in 1 .. DefaultLength |-> Garbage]
  /\ exited = FALSE

(* An int that gets too large is negative in every build. *)
Wrapped(n) == IF n <= MaxInt THEN n ELSE n - 2 * (MaxInt + 1)

new_capacity == Wrapped(2 * capacity)

(* realloc: what was there stays. *)
Reallocated == [i \in 1 .. new_capacity |-> IF i <= capacity THEN elements[i] ELSE Garbage]

(* Mutant: the last element has to fit as well. *)
FullLate == capacity < length

Full == capacity < length + 1

list_add(e) ==
  /\ ~exited /\ ~Full
  /\ elements' = [elements EXCEPT ![length + 1] = e]
  /\ length' = length + 1
  /\ UNCHANGED <<capacity, exited>>

(* Mutant: the old elements are not taken along. *)
GrowAfresh(e) ==
  /\ ~exited /\ Full /\ new_capacity >= capacity
  /\ elements' = [i \in 1 .. new_capacity |-> IF i = length + 1 THEN e ELSE Garbage]
  /\ capacity' = new_capacity /\ length' = length + 1
  /\ UNCHANGED exited

list_add_grow(e) ==
  /\ ~exited /\ Full /\ new_capacity >= capacity
  /\ elements' = [Reallocated EXCEPT ![length + 1] = e]
  /\ capacity' = new_capacity /\ length' = length + 1
  /\ UNCHANGED exited

(* The capacity overflows, or realloc fails.  A build that takes the test  *)
(* for an overflow away, as it may, asks realloc for more than there is.   *)
list_add_exit ==
  /\ ~exited /\ Full
  /\ exited' = TRUE
  /\ UNCHANGED <<length, capacity, elements>>

ListNext == list_add_exit \/ \E e \in Elements : list_add(e) \/ list_add_grow(e)

ListSpec == list_init /\ [][ListNext]_list
-----------------------------------------------------------------------------
(* The array has room for the capacity, the capacity for the length, and   *)
(* the capacity in an int.                                                 *)
TypeOK ==
  /\ capacity \in 1 .. MaxInt /\ length \in 0 .. capacity
  /\ elements \in [1 .. capacity -> Elements \cup {Garbage}]
  /\ exited \in BOOLEAN

Contents == [i \in 1 .. length |-> elements[i]]
Implemented == INSTANCE Appends WITH contents <- Contents, failed <- exited

(* Whatever the order of growths, a list is the sequence of what was added *)
(* to it, and nothing else (list.c:19-36).                                 *)
AppendsSpec == Implemented!Spec
=============================================================================
