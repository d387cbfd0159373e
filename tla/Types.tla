------------------------------- MODULE Types -------------------------------
(***************************************************************************)
(* typechecker.c, and what codegen.c makes of the types it finds.          *)
(*                                                                         *)
(* Both passes walk an expression from its operands to its operator, so    *)
(* that of an expression nothing is kept but what the passes made of it:   *)
(* the type the checker gave its node, and the LLVM value generated for    *)
(* it.  Expressions are built on the stack values, and used up by          *)
(* assignments, calls and matches.                                         *)
(***************************************************************************)
EXTENDS Integers, Sequences, SequencesExt

CONSTANTS Names,       \* the names of local variables
          Parameters,  \* the types of the parameters at hand, by their names
          Functions,   \* [type, parameters, rest, vararg] of every function
          Types,       \* the types declarations and branches may name
          MaxValues,   \* bound on the expressions in hand
          MaxWords     \* bound on the words of a type


VARIABLES values,     \* the expressions in hand
          variables,  \* the local variables, NoVariable before they are declared
          declared,   \* those declared with a type
          rest_array, \* of the last rest array: what was stored where, and how many
                      \* parameters come before it
          judged,     \* of the last construct: does it keep to the rules?
          status

vars == <<values, variables, declared, rest_array, judged, status>>

(* A type is a sequence of words, and NoType is NULL.  The word of an array *)
(* carries its length, the others have none.                               *)
NoType == <<>>
word(name) == [kind |-> name, length |-> 0]
value_of(name) == <<word(name)>>
pointer_to(t) == <<word("pointer")>> \o t
array_of(t, length) == <<[kind |-> "array", length |-> length]>> \o t
s4 == value_of("s4")
bool == value_of("bool")
any == value_of("any")
ptr == value_of("ptr")
KindOf(t) == IF t[1].kind \in {"pointer", "array"} THEN t[1].kind ELSE "value"

Width == [bool |-> 1, s1 |-> 8, s2 |-> 16, s4 |-> 32, s8 |-> 64]
IsInteger(t) == Len(t) = 1 /\ t[1].kind \in DOMAIN Width

IsScalar(t) == IsInteger(t) \/ t = ptr

(* The types that parser.c:276 reads are among these: the names are those  *)
(* compiler_initialize puts into its table, but for the struct string.     *)
Words == [kind : {"pointer", "any"} \cup DOMAIN Width, length : {0}]
           \cup [kind : {"array"}, length : Nat]
IsType(t) ==
  /\ t \in Seq(Words) /\ t # <<>> /\ t[Len(t)].kind \in DOMAIN Width \cup {"any"}
  /\ \A i \in 1 .. Len(t) - 1 : t[i].kind \in {"pointer", "array"}

ASSUME NamesAssumption ==
  /\ Names \cap DOMAIN Parameters = {}
  /\ MaxValues \in Nat /\ MaxWords \in Nat
ASSUME TypesAssumption ==
  /\ \A t \in Types : IsType(t)
  /\ \A n \in DOMAIN Parameters : IsType(Parameters[n])
  /\ \A f \in Functions :
       /\ f.type = NoType \/ IsType(f.type)
       /\ f.parameters \in Seq(Seq(Words))
       /\ \A i \in 1 .. Len(f.parameters) : IsType(f.parameters[i])
       /\ f.rest \in BOOLEAN /\ f.vararg \in BOOLEAN
       /\ f.rest => f.parameters # <<>> /\ f.parameters[Len(f.parameters)][1].kind = "pointer"

(* The LLVM type of a type: a pointer does not say what it points to, an   *)
(* array how long it is.                                                   *)
parse_type(t) ==
  LET k == SelectInSeq(t, LAMBDA w : w.kind = "pointer")
  IN  IF k = 0 THEN t ELSE Append(SubSeq(t, 1, k - 1), word("ptr"))

(* llvm is the type of the value, or what an alloca has room for. *)
Value(type, llvm, place, right) ==
  [type |-> type, llvm |-> llvm, place |-> place, right |-> right]
Constant(type) == Value(type, parse_type(type), "constant", TRUE)
NoVariable == Value(NoType, NoType, "none", TRUE)

Init ==
  /\ values = <<>> /\ variables = [n \in Names |-> NoVariable] /\ declared = {}
  /\ rest_array = [before |-> 0, length |-> 0, indices |-> {}, boxed |-> {}]
  /\ judged = TRUE /\ status = "running"

Operands(k) == SubSeq(values, Len(values) - k + 1, Len(values))
Below(k) == SubSeq(values, 1, Len(values) - k)

(* The last k expressions become v, or the program ends.                   *)
Result(k, outcome, v) ==
  /\ judged' = v.right
  /\ IF outcome = "ok" THEN values' = Append(Below(k), v) /\ UNCHANGED status
     ELSE status' = outcome /\ UNCHANGED values

(* A variable is loaded, but for an array: its address is used instead. *)
handle_rvalue(v) ==
  IF v.place # "alloca" THEN v
  ELSE IF v.llvm[1].kind = "array" THEN Value(v.type, ptr, "value", v.right)
  ELSE [v EXCEPT !.place = "value"]

IsArrayVariable(v) == v.place = "alloca" /\ v.llvm # NoType /\ v.llvm[1].kind = "array"
-----------------------------------------------------------------------------
Literals == {Constant(s4), Constant(bool), Constant(pointer_to(value_of("s1")))}

(* Numbers, booleans and strings. *)
parse_literal ==
  /\ status = "running" /\ Len(values) < MaxValues
  /\ \E v \in Literals : values' = Append(values, v)
  /\ judged' = TRUE
  /\ UNCHANGED <<variables, declared, rest_array, status>>

Parameter(n) == Value(Parameters[n], parse_type(Parameters[n]), "value", TRUE)

parse_variable ==
  /\ status = "running" /\ Len(values) < MaxValues
  /\ \/ \E n \in Names : /\ variables[n] # NoVariable
                         /\ values' = Append(values, variables[n])
     \/ \E n \in DOMAIN Parameters : values' = Append(values, Parameter(n))
  /\ judged' = TRUE
  /\ UNCHANGED <<variables, declared, rest_array, status>>

(* Every test of the chain holds of a type that is not the one it names. *)
score_value_type(t) == IF t = bool THEN 2 ELSE 1

(* Mutant: the left operand decides. *)
DeduceLeft(l, r) == IF score_value_type(l) < score_value_type(r) THEN r ELSE l

deduce_type(l, r) == IF score_value_type(l) > score_value_type(r) THEN l ELSE r

(* A sign extension to the type t, if there is one. *)
Extends(v, t) == IsInteger(v.llvm) /\ IsInteger(t)
                   /\ Width[v.llvm[1].kind] < Width[t[1].kind]

Calculates == {"arithmetic", "comparison"}

(* Arithmetic and comparisons take two integers, of which the right one is *)
(* at least as wide, arithmetic s4; logical operators take what can be     *)
(* compared with nothing.                                                  *)
RightOperands(op, l, r) ==
  CASE op = "arithmetic" -> /\ IsInteger(l) /\ l # bool /\ r = s4
                            /\ Width[l[1].kind] <= 32
    [] op = "comparison" -> \/ l = bool /\ r = bool
                            \/ /\ {l, r} \subseteq {value_of(w) : w \in DOMAIN Width} \ {bool}
                               /\ Width[l[1].kind] <= Width[r[1].kind]
    [] op = "logical" -> /\ NoType \notin {l, r} /\ any \notin {l, r}
                         /\ KindOf(l) = KindOf(r) /\ KindOf(l) # "array"

ResultType(op) == IF op = "arithmetic" THEN s4 ELSE bool

Folded(l, r) == IF l.place = "constant" /\ r.place = "constant" THEN "constant"
                ELSE "value"

OperatorOutcome(op, l, r) ==
  LET type == deduce_type(l.type, r.type)
      cast == IF l.type # type THEN <<l>> ELSE IF r.type # type THEN <<r>> ELSE <<>>
      L == IF l.type # type THEN parse_type(type) ELSE l.llvm
      R == IF l.type = type /\ r.type # type THEN parse_type(type) ELSE r.llvm
  IN  IF NoType \in {l.type, r.type} THEN "crash"
      ELSE IF KindOf(l.type) # KindOf(r.type) THEN "assert"
      ELSE IF op = "logical"
      THEN IF IsScalar(l.llvm) /\ IsScalar(r.llvm) THEN "ok" ELSE "invalid"
      ELSE IF KindOf(l.type) # "value" THEN "assert"
      ELSE IF (\A v \in Range(cast) : Extends(v, parse_type(type))) /\ L = R /\ IsInteger(L)
      THEN "ok" ELSE "invalid"

(* The type a calculation really has: that of its operands after the cast. *)
OperatorType(op, l, r) ==
  IF op = "arithmetic" THEN parse_type(deduce_type(l.type, r.type)) ELSE bool

parse_operator(op) ==
  /\ status = "running" /\ Len(values) >= 2
  /\ LET l == handle_rvalue(Operands(2)[1])
         r == handle_rvalue(Operands(2)[2])
     IN  Result(2, OperatorOutcome(op, l, r),
                Value(ResultType(op), OperatorType(op, l, r), Folded(l, r),
                      l.right /\ r.right /\ RightOperands(op, l.type, r.type)))
  /\ UNCHANGED <<variables, declared, rest_array>>

(* The items have the type of the last of them, and have to be constants.  *)
(* Of no items at all the type is read from a variable that was never set. *)
parse_array(k) ==
  /\ status = "running" /\ Len(values) >= k /\ Len(values) - k < MaxValues
  /\ k > 0 => Len(Operands(k)[k].type) < MaxWords
  /\ IF k = 0 THEN Result(0, "undefined", Value(NoType, NoType, "none", FALSE))
     ELSE LET items == Range(Operands(k))
              type == Operands(k)[k].type
          IN Result(k,
               IF type = NoType THEN "crash"
               ELSE IF \A v \in items : v.place = "constant" /\ v.llvm = parse_type(type)
               THEN "ok" ELSE "invalid",
               Value(array_of(type, k), array_of(parse_type(type), k), "constant",
                     \A v \in items : v.right /\ v.type = type /\ v.place = "constant"))
  /\ UNCHANGED <<variables, declared, rest_array>>

(* The indexable is not loaded.  A local pointer is indexed from its own   *)
(* address, which the rules leave out.                                     *)
parse_item_access ==
  /\ status = "running" /\ Len(values) >= 2
  /\ LET indexable == Operands(2)[1]
         index == handle_rvalue(Operands(2)[2])
         type == indexable.type
         item == Tail(type)
     IN  Result(2,
           IF type = NoType THEN "crash"
           ELSE IF KindOf(type) = "value" THEN "undefined"
           ELSE IF IsInteger(index.llvm) /\ (KindOf(type) = "array" => IsArrayVariable(indexable))
           THEN "ok" ELSE "invalid",
           Value(IF type = NoType THEN NoType ELSE item,
                 IF type = NoType THEN NoType ELSE parse_type(item), "value",
                 /\ indexable.right /\ index.right /\ IsInteger(index.type)
                 /\ \/ IsArrayVariable(indexable)
                    \/ type # NoType /\ KindOf(type) = "pointer" /\ indexable.place = "value"))
  /\ UNCHANGED <<variables, declared, rest_array>>

(* A variable gets the type of the first value, whatever it was declared   *)
(* with.  What was declared with a type cannot be assigned to again: the   *)
(* resolver asserts that (and of a name that a match binds it reads a      *)
(* field that was never set: this is left to Resolver).                    *)
parse_declaration(n, type) ==
  /\ status = "running" /\ variables[n] = NoVariable
  /\ variables' = [variables EXCEPT ![n] = Value(type, parse_type(type), "alloca", TRUE)]
  /\ declared' = declared \cup {n}
  /\ judged' = TRUE
  /\ UNCHANGED <<values, rest_array, status>>

parse_assignment(n, type) ==
  /\ status = "running" /\ Len(values) >= 1
  /\ LET v == Operands(1)[1]
         old == variables[n]
         new == old = NoVariable
         room == IF new THEN parse_type(v.type) ELSE old.llvm
         right == /\ v.right /\ ~IsArrayVariable(v) /\ v.type # NoType
                  /\ IF new THEN type \in {NoType, v.type}
                     ELSE type = NoType /\ n \notin declared /\ old.right /\ old.type = v.type
         outcome == IF ~new /\ (n \in declared \/ type # NoType) THEN "assert"
                    ELSE IF new /\ v.type = NoType THEN "crash"
                    ELSE IF handle_rvalue(v).llvm # room THEN "misfit" ELSE "ok"
     IN  /\ ~new => old.type # NoType
         /\ judged' = right
         /\ IF outcome = "ok"
            THEN /\ values' = Below(1)
                 /\ variables' = IF new THEN [variables EXCEPT ![n] = Value(v.type, room, "alloca", right)]
                                 ELSE variables
                 /\ declared' = IF type = NoType THEN declared ELSE declared \cup {n}
                 /\ UNCHANGED status
            ELSE status' = outcome /\ UNCHANGED <<values, variables, declared>>
  /\ UNCHANGED rest_array

(* if and while compare the condition with a null of the type it was       *)
(* given.                                                                  *)
parse_condition ==
  /\ status = "running" /\ Len(values) >= 1
  /\ LET v == Operands(1)[1]
         rvalue == handle_rvalue(v)
     IN  /\ judged' = (v.right /\ v.type # NoType /\ v.type # any /\ KindOf(v.type) # "array")
         /\ IF v.type = NoType THEN status' = "crash" /\ UNCHANGED values
            ELSE IF rvalue.llvm = parse_type(v.type) /\ IsScalar(rvalue.llvm)
            THEN values' = Below(1) /\ UNCHANGED status
            ELSE status' = "invalid" /\ UNCHANGED values
  /\ UNCHANGED <<variables, declared, rest_array>>

(* Nothing compares the value with the type of the function.               *)
parse_return(f) ==
  /\ status = "running" /\ Len(values) >= 1
  /\ LET v == Operands(1)[1]
     IN  /\ judged' = (v.right /\ ~IsArrayVariable(v) /\ v.type = f.type /\ f.type # NoType)
         /\ IF handle_rvalue(v).llvm = parse_type(f.type) /\ f.type # NoType
            THEN values' = Below(1) /\ UNCHANGED status
            ELSE status' = "invalid" /\ UNCHANGED values
  /\ UNCHANGED <<variables, declared, rest_array>>

(* What type each argument i is passed as: the rest are an array, and of   *)
(* a function with "..." the further ones are passed as they are.          *)
Passed(f, k) == IF f.vararg THEN k ELSE Len(f.parameters)
Before(f) == IF f.rest THEN Len(f.parameters) - 1 ELSE Passed(f, Len(f.parameters))

(* A scalar the rules let pass for a parameter of type p. *)
Fits(v, p) == \/ v.type = p /\ ~IsArrayVariable(v)
              \/ Len(p) > 1 /\ p[1].kind = "pointer" /\ IsArrayVariable(v)

ItemType(f) == Tail(f.parameters[Len(f.parameters)])

HasId(t) == t # NoType /\ (\A i \in DOMAIN t : t[i].kind # "any")

(* Mutant: what a type is nested in is only counted. *)
IdOfDepth(t) ==
  100 * (Len(t) - 1) + [s1 |-> 0, s2 |-> 1, s4 |-> 2, s8 |-> 3, bool |-> 4][t[Len(t)].kind]

(* The identity of a type in an any. *)
get_type_id(t) ==
  100 * Len(SelectSeq(t, LAMBDA w : w.kind = "pointer"))
    + 1000 * Len(SelectSeq(t, LAMBDA w : w.kind = "array"))
    + [s1 |-> 0, s2 |-> 1, s4 |-> 2, s8 |-> 3, bool |-> 4][t[Len(t)].kind]

(* Mutant: the items are counted from the first argument. *)
FromFirst(f, j) == j

RestIndex(f, j) == j - 1

CallOutcome(f, k) ==
  LET a == Operands(k)
      n == Before(f)
      rest == {handle_rvalue(a[j + 1]) : j \in n .. k - 1}
  IN  IF k < n THEN "undefined"
      ELSE IF f.rest /\ ItemType(f) = any /\ (\E v \in rest : v.type = NoType) THEN "crash"
      ELSE IF f.rest /\ ItemType(f) = any /\ (\E v \in rest : ~HasId(v.type)) THEN "assert"
      ELSE IF \E i \in 1 .. n : i <= Len(f.parameters)
                 /\ handle_rvalue(a[i]).llvm # parse_type(f.parameters[i]) THEN "invalid"
      ELSE IF f.vararg /\ (\E i \in 1 .. k : a[i].llvm = NoType) THEN "invalid"
      ELSE IF f.rest /\ (\E v \in rest :
                 v.llvm # parse_type(IF ItemType(f) = any THEN v.type ELSE ItemType(f)))
      THEN "misfit" ELSE "ok"

RightArguments(f, k) ==
  LET a == Operands(k)
      n == Before(f)
  IN  /\ k >= Len(f.parameters) - 1 /\ (~f.rest => k >= Len(f.parameters))
      /\ f.vararg \/ f.rest \/ k = Len(f.parameters)
      /\ \A i \in 1 .. k : a[i].right /\ a[i].type # NoType
      /\ \A i \in 1 .. k : i <= Len(f.parameters) /\ (f.rest => i <= n) => Fits(a[i], f.parameters[i])
      /\ f.rest => \A i \in n + 1 .. k :
           /\ ~IsArrayVariable(a[i])
           /\ IF ItemType(f) = any THEN HasId(a[i].type) ELSE a[i].type = ItemType(f)

(* Too few arguments are read from behind the list, too many are dropped.  *)
(* The rest are stored in an array of their own, each any in an any.       *)
parse_function_call(f, k) ==
  /\ status = "running" /\ Len(values) >= k /\ Len(values) - k < MaxValues
  /\ Result(k, CallOutcome(f, k),
            Value(f.type, IF f.type = NoType THEN NoType ELSE parse_type(f.type), "value",
                  RightArguments(f, k)))
  /\ rest_array' = IF f.rest /\ CallOutcome(f, k) = "ok"
                   THEN LET i == Before(f)
                        IN  [before |-> i, length |-> k - i, indices |-> {RestIndex(f, j) : j \in i .. k - 1},
                             boxed |-> IF ItemType(f) = any
                                       THEN {Operands(k)[j + 1].type : j \in i .. k - 1} ELSE {}]
                   ELSE rest_array
  /\ UNCHANGED <<variables, declared>>

(* The name a branch binds gets no type, for it stands for itself.  The    *)
(* matcher is not loaded, and the match has the type of its first branch   *)
(* but no value.                                                           *)
parse_match(n, type) ==
  /\ status = "running" /\ Len(values) >= 1 /\ variables[n] = NoVariable /\ HasId(type)
  /\ LET v == Operands(1)[1]
     IN  /\ judged' = (v.right /\ v.type = any /\ v.place = "value")
         /\ IF v.type # any \/ v.place # "value"
            THEN /\ status' = IF v.type = NoType THEN "crash"
                              ELSE IF KindOf(v.type) # "value" THEN "undefined"
                              ELSE IF v.type # any THEN "assert" ELSE "invalid"
                 /\ UNCHANGED <<values, variables>>
            ELSE /\ values' = Below(1)
                 /\ variables' = [variables EXCEPT ![n] =
                                    Value(NoType, parse_type(type), "alloca", FALSE)]
                 /\ UNCHANGED status
  /\ UNCHANGED <<declared, rest_array>>

Next ==
  \/ parse_literal \/ parse_variable \/ parse_item_access \/ parse_condition
  \/ \E op \in Calculates \cup {"logical"} : parse_operator(op)
  \/ \E k \in 0 .. MaxValues : parse_array(k)
  \/ \E n \in Names, type \in Types : parse_declaration(n, type) \/ parse_match(n, type)
  \/ \E n \in Names, type \in Types \cup {NoType} : parse_assignment(n, type)
  \/ \E f \in Functions : parse_return(f)
  \/ \E f \in Functions, k \in 0 .. MaxValues : parse_function_call(f, k)

Spec == Init /\ [][Next]_vars
-----------------------------------------------------------------------------
(* An expression that keeps to the rules has the LLVM type its type stands *)
(* for (typechecker.c, codegen.c:83), and a construct that keeps to them   *)
(* neither ends the compiler nor makes it generate what LLVM rejects.      *)
Sound ==
  /\ \A v \in Range(values) \cup Range(variables) :
       v.right => v.llvm = parse_type(v.type)
  /\ judged => status = "running"

(* The items of a rest array fill it from the first on exactly if one      *)
(* parameter stands before it: the index is that of the argument less one  *)
(* (codegen.c:254-257).                                                    *)
RestFilled ==
  LET r == rest_array
  IN  r.length > 0 => (r.indices = 0 .. r.length - 1 <=> r.before = 1)

(* The words of a type or an LLVM type without the lengths of its arrays. *)
Kinds(t) == [i \in DOMAIN t |-> t[i].kind]

Mixes(t) == {"pointer", "array"} \subseteq Range(Kinds(t))
Pointers(t) == Len(SelectSeq(t, LAMBDA w : w.kind = "pointer"))

(* A branch of a match that the identity of a passed value selects reads a *)
(* value of the LLVM type that was stored, but for three things that the   *)
(* identity forgets: how long an array is, so that [1, 2] selects a branch *)
(* s4[5] and more is read than was stored; the order of pointers and       *)
(* arrays, where a type has both; and that ten pointers are not an array   *)
(* (codegen.c:61-81, 511-519).                                             *)
IdsDistinguish ==
  \A t \in rest_array.boxed, u \in Types :
    HasId(u) /\ get_type_id(t) = get_type_id(u) /\ Pointers(t) < 10 /\ Pointers(u) < 10 =>
      Kinds(parse_type(t)) = Kinds(parse_type(u)) \/ (Mixes(t) /\ Mixes(u))
=============================================================================
