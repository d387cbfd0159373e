------------------------------- MODULE Table -------------------------------
(***************************************************************************)
(* table.c: the open-addressing hash table that holds the loaded modules,  *)
(* the local names of every scope, the global names and the LLVM types.    *)
(*                                                                         *)
(* table_put runs in three parts, which are three actions: the growth      *)
(* check, one step for every iteration of the rehash loop, and the final   *)
(* table_put_inner.  The program is sequential, so no other call comes in  *)
(* between; the parts are kept apart because the loops are what can fail.  *)
(***************************************************************************)
EXTENDS Integers, FiniteSets

CONSTANTS Keys, Elements, NULL,
          Digest,           \* the 32-bit FNV value of a key, NULL included
          InitialCapacity,  \* 8 in the code
          MaxCapacity       \* the largest table calloc can provide

ASSUME ConstantsAssumption ==
  /\ NULL \notin Keys /\ NULL \notin Elements
  /\ NULL \notin [key : Keys, element : Elements]
  /\ Digest \in [Keys \cup {NULL} -> Nat]
  /\ InitialCapacity \in Nat \ {0}
  /\ MaxCapacity \in Nat

VARIABLES capacity, length, entries,          \* the Table
          old_capacity, old_entries, i,       \* table_put: the rehash loop
          put,                                \* the pending table_put or NULL
          exited,                             \* exit(1) was called
          answer,                             \* last result of table_get
          listing                             \* last result of table_get_all

table == <<capacity, length, entries>>
rehash == <<old_capacity, old_entries, i>>
results == <<answer, listing>>
table_vars == <<table, rehash, put, exited, results>>

Slots == 0 .. capacity - 1
EmptyEntry == [key |-> NULL, element |-> NULL]
Empty(n) == [s \in 0 .. n - 1 |-> EmptyEntry]
Entry == [key : Keys, element : Elements] \cup {EmptyEntry}
Used == {s \in Slots : entries[s].key # NULL}

hash(key, max) == Digest[key] % max

(* The slot the probing loops look at after d turns of (i + 1) % capacity. *)
Probe(key, d) == LET home == hash(key, capacity)
                 IN  IF home + d < capacity THEN home + d
                                            ELSE home + d - capacity

(* Mutant: only a free slot ends the loop, an equal key does not. *)
StopsAtFree(key, s) == entries[s].key = NULL

(* Where the loop of table_put_inner stops: a free slot or the key itself. *)
Stops(key, s) == entries[s].key = NULL \/ entries[s].key = key

table_init ==
  /\ capacity = 0 /\ length = 0 /\ entries = Empty(0)
  /\ old_capacity = 0 /\ old_entries = Empty(0) /\ i = 0
  /\ put = NULL /\ exited = FALSE
  /\ answer = NULL /\ listing = [allocated |-> 0, elements |-> [s \in {} |-> NULL]]

Running == ~exited
Idle == Running /\ put = NULL

(* Mutant: the table grows one entry too late. *)
FullLate == length > capacity

Full == length + 1 > capacity
NewCapacity == IF capacity = 0 THEN InitialCapacity ELSE capacity * 2

(* table_put is called and the entry fits. *)
table_put(key, element) ==
  /\ Idle /\ ~Full
  /\ put' = [key |-> key, element |-> element]
  /\ UNCHANGED <<table, rehash, exited, results>>

(* Mutant: the new array has the old size. *)
GrowTooSmall(key, element) ==
  /\ Idle /\ Full /\ NewCapacity <= MaxCapacity
  /\ put' = [key |-> key, element |-> element]
  /\ old_capacity' = capacity /\ old_entries' = entries /\ i' = 0
  /\ capacity' = NewCapacity
  /\ entries' = Empty(capacity)
  /\ UNCHANGED <<length, exited, results>>

(* table_put is called on a full table: a fresh, zeroed array takes over,  *)
(* and length keeps its value.                                             *)
table_put_grow(key, element) ==
  /\ Idle /\ Full /\ NewCapacity <= MaxCapacity
  /\ put' = [key |-> key, element |-> element]
  /\ old_capacity' = capacity /\ old_entries' = entries /\ i' = 0
  /\ capacity' = NewCapacity
  /\ entries' = Empty(NewCapacity)
  /\ UNCHANGED <<length, exited, results>>

(* calloc returns NULL: the program exits. *)
table_put_exit ==
  /\ Idle /\ Full /\ NewCapacity > MaxCapacity
  /\ exited' = TRUE
  /\ UNCHANGED <<table, rehash, put, results>>

(* Mutant: a new entry is not counted. *)
InnerUncounted(key, element) ==
  \E d \in Slots : LET s == Probe(key, d) IN
    /\ Stops(key, s) /\ \A e \in 0 .. d - 1 : ~Stops(key, Probe(key, e))
    /\ entries' = [entries EXCEPT ![s] = [key |-> key, element |-> element]]
    /\ UNCHANGED <<capacity, length>>

(* Mutant: an element put under its old name is counted again. *)
InnerCountsAll(key, element) ==
  \E d \in Slots : LET s == Probe(key, d) IN
    /\ Stops(key, s) /\ \A e \in 0 .. d - 1 : ~Stops(key, Probe(key, e))
    /\ entries' = [entries EXCEPT ![s] = [key |-> key, element |-> element]]
    /\ length' = length + 1
    /\ UNCHANGED capacity

(* The probing loop, and the write to the slot it stops at.                *)
table_put_inner(key, element) ==
  \E d \in Slots : LET s == Probe(key, d) IN
    /\ Stops(key, s) /\ \A e \in 0 .. d - 1 : ~Stops(key, Probe(key, e))
    /\ length' = IF entries[s].key = NULL THEN length + 1 ELSE length
    /\ entries' = [entries EXCEPT ![s] = [key |-> key, element |-> element]]
    /\ UNCHANGED capacity

(* One iteration of the rehash loop; empty old slots are re-inserted too.  *)
rehash_step ==
  /\ Running /\ put # NULL /\ i < old_capacity
  /\ table_put_inner(old_entries[i].key, old_entries[i].element)
  /\ i' = i + 1
  /\ UNCHANGED <<old_capacity, old_entries, put, exited, results>>

(* The last line of table_put; the old array is freed before it.           *)
insert ==
  /\ Running /\ put # NULL /\ i = old_capacity
  /\ table_put_inner(put.key, put.element)
  /\ put' = NULL /\ old_capacity' = 0 /\ old_entries' = Empty(0) /\ i' = 0
  /\ UNCHANGED <<exited, results>>

(* The element at the first slot along the probe sequence with this key.   *)
Found(key, d) == entries[Probe(key, d)].key = key

table_get(key) ==
  /\ Idle
  /\ \/ \E d \in Slots : /\ Found(key, d)
                         /\ \A e \in 0 .. d - 1 : ~Found(key, e)
                         /\ answer' = entries[Probe(key, d)].element
     \/ (\A d \in Slots : ~Found(key, d)) /\ answer' = NULL
  /\ UNCHANGED <<table, rehash, put, exited, listing>>

(* malloc of length cells, of which one per used slot is written.          *)
table_get_all ==
  /\ Idle
  /\ listing' = [allocated |-> length,
                 elements |-> [s \in Used |-> entries[s].element]]
  /\ UNCHANGED <<table, rehash, put, exited, answer>>

TableNext ==
  \/ \E k \in Keys, e \in Elements : table_put(k, e) \/ table_put_grow(k, e)
  \/ table_put_exit \/ rehash_step \/ insert
  \/ \E k \in Keys : table_get(k)
  \/ table_get_all

(* A call that has been made runs on: the program has one thread.          *)
TableSpec ==
  /\ table_init /\ [][TableNext]_table_vars
  /\ WF_table_vars(rehash_step) /\ WF_table_vars(insert)
-----------------------------------------------------------------------------
(* Every variable stays within the values the C declarations allow, and    *)
(* the arrays have exactly capacity and old_capacity cells.                *)
TableTypeOK ==
  /\ capacity \in Nat /\ length \in Nat
  /\ entries \in [Slots -> Entry]
  /\ old_capacity \in Nat /\ i \in 0 .. old_capacity
  /\ old_entries \in [0 .. old_capacity - 1 -> Entry]
  /\ put \in [key : Keys, element : Elements] \cup {NULL}
  /\ exited \in BOOLEAN
  /\ answer \in Elements \cup {NULL}
  /\ listing.allocated \in Nat
  /\ \A s \in DOMAIN listing.elements : listing.elements[s] \in Elements

(* table_put_inner loops until it meets a free slot or its own key, with   *)
(* no other exit: whenever it is about to run, its probe sequence must     *)
(* contain such a slot, or table_put never returns.                        *)
NextKey == IF i < old_capacity THEN old_entries[i].key ELSE put.key
ProbeStops ==
  put # NULL => \E d \in Slots : Stops(NextKey, Probe(NextKey, d))

(* table_get_all allocates length cells and writes one for every used      *)
(* slot: it must never write more cells than it allocated.                 *)
ListingFits == Cardinality(DOMAIN listing.elements) <= listing.allocated

(* main runs over all length cells of the array: in a table that has not   *)
(* grown every one of them was written.  Past the first growth some never  *)
(* are, for the rehash loop counts the free slots of the old array too.    *)
ListingFilled ==
  capacity <= InitialCapacity =>
    Cardinality(DOMAIN listing.elements) = listing.allocated

(* The keys already moved are looked up in the new array, the others in    *)
(* what is left of the old one.                                            *)
Bindings ==
  [k \in Keys |->
     LET here  == {s \in Slots : entries[s].key = k}
         there == {s \in i .. old_capacity - 1 : old_entries[s].key = k}
     IN  IF here # {} THEN entries[CHOOSE s \in here : TRUE].element
         ELSE IF there # {} THEN old_entries[CHOOSE s \in there : TRUE].element
         ELSE NULL]

M == INSTANCE Map
     WITH dict <- Bindings,
          listing <- {listing.elements[s] : s \in DOMAIN listing.elements}

(* The table implements the map: a look-up finds the last element put      *)
(* under the name, through collisions, wrap-around and every growth, and   *)
(* the enumeration yields each element and nothing else.                   *)
MapSpec == M!Spec

(* Every table_put that does not run out of memory returns. *)
PutReturns == put # NULL ~> put = NULL
=============================================================================
