---------------------------- MODULE ControlFlow ----------------------------
(***************************************************************************)
(* codegen.c: the basic blocks that parse_function, parse_block, parse_if, *)
(* parse_while, parse_return and parse_match append to an LLVM module.     *)
(*                                                                         *)
(* The functions of codegen.c walk the syntax tree recursively: stack is   *)
(* the stack of their activations, value what the last parse_node gave     *)
(* back, and the tree is chosen statement by statement as it is walked.    *)
(* Instructions are kept only as far as the flow of control needs them: a  *)
(* straight piece of code is one instruction named after its statement.    *)
(***************************************************************************)
EXTENDS Integers, Sequences, FiniteSets

CONSTANTS MaxItems,        \* bound on the statements and declarations of a file
          MaxDeclarations, \* bound on the functions and externs of a file
          MaxDepth,        \* bound on the activations of parse_node
          MaxBranches      \* bound on the branches of a match

ASSUME BoundsAssumption ==
  {MaxItems, MaxDeclarations, MaxDepth, MaxBranches} \subseteq Nat

VARIABLES blocks,    \* the instructions of every block, in LLVM's order
          entries,   \* <<b, t>>: b is the first block of a function, typed if t
          at,        \* the block the builder appends to, 0 before the first
          stack,     \* the activations of parse_node
          value,     \* what the last parse_node returned
          count,     \* statements met so far; also their names
          declared,  \* declarations met so far
          status,
          follow,    \* of the source: what may run right after what
          pending,   \* of the source: what may have run last
          odd        \* of the source: what the generator has no answer to

code == <<blocks, entries, at>>
walk == <<stack, value, count, declared, status>>
source == <<follow, pending, odd>>
vars == <<code, walk, source>>

Begin == 0
End == MaxItems + 1
Statement == 1 .. MaxItems

Block == 1 .. Len(blocks)
top == stack[Len(stack)]
Push(frames) == stack \o frames
Pop == SubSeq(stack, 1, Len(stack) - 1)

(* The blocks that hold the allocas of the variables in scope: a function  *)
(* and a block have scopes of their own, see create_scope in resolver.c.   *)
Scoped == {d \in DOMAIN stack : stack[d].kind \in {"function", "block"}}
Visible == UNION {stack[d].names : d \in Scoped}

(* Mutant: a name is put into the outermost scope. *)
OuterScope(d) == d \in Scoped /\ \A e \in Scoped : e >= d

InnerScope(d) == d \in Scoped /\ \A e \in Scoped : e <= d
Declare(s, b) == [d \in DOMAIN s |->
                    IF InnerScope(d) THEN [s[d] EXCEPT !.names = @ \cup {b}]
                                     ELSE s[d]]

(* The kind of the statement, remembered by the function it is directly in *)
(* for the test of its last statement.                                     *)
Noted(kind) == IF top.kind = "function"
               THEN [stack EXCEPT ![Len(stack)].last = kind] ELSE stack

Instruction(op, id, to) == [op |-> op, id |-> id, to |-> to, sees |-> Visible]
Do(id) == Instruction("do", id, {})
Br(b) == Instruction("br", Begin, {b})
CondBr(id, b, c) == Instruction("condbr", id, {b, c})
Ret(id) == Instruction("ret", id, {})
RetVoid(id) == Instruction("retvoid", id, {})

(* n blocks are appended, all of them empty. *)
Appended(n) == blocks \o [k \in 1 .. n |-> <<>>]
Built(bs, b, instruction) == [bs EXCEPT ![b] = Append(@, instruction)]

(* The source runs s next; code that nothing runs before is dead.          *)
Runs(s) == follow' = follow \cup (pending \X {s})
Dead == IF pending = {} THEN {"dead code"} ELSE {}
-----------------------------------------------------------------------------
Init ==
  /\ blocks = <<>> /\ entries = {} /\ at = 0
  /\ stack = <<>> /\ value = "null" /\ count = 0 /\ declared = 0
  /\ status = "running"
  /\ follow = {} /\ pending = {} /\ odd = {}

Running == status = "running"
InFile ==
  /\ Running /\ stack = <<>>
  /\ declared < MaxDeclarations /\ count + declared < MaxItems

(* A statement is next: in a function, in a block, or after else.          *)
InStatement ==
  /\ Running /\ stack # <<>> /\ count + declared < MaxItems
  /\ \/ top.kind \in {"function", "block"}
     \/ top.kind = "else" /\ value = "pending"

(* An expression is next: a statement, or the right side of a branch.      *)
InExpression ==
  \/ InStatement
  \/ /\ Running /\ stack # <<>> /\ count + declared < MaxItems
     /\ top.kind = "match" /\ value = "pending"

name == count + 1

(* Mutant: the builder stays where the function before it ended. *)
NotPositioned(typed) ==
  /\ InFile
  /\ blocks' = Appended(1)
  /\ at' = IF at = 0 THEN 1 ELSE at
  /\ entries' = entries \cup {<<Len(blocks) + 1, typed>>}
  /\ stack' = <<[kind |-> "function", typed |-> typed, last |-> "none",
                 names |-> {}]>>
  /\ value' = "garbage"
  /\ declared' = declared + 1
  /\ pending' = {Begin}
  /\ UNCHANGED <<count, status, follow, odd>>

(* A function with a body.  Its parameters are values, not allocas. *)
parse_function(typed) ==
  /\ InFile
  /\ blocks' = Appended(1)
  /\ at' = Len(blocks) + 1 /\ entries' = entries \cup {<<at', typed>>}
  /\ stack' = <<[kind |-> "function", typed |-> typed, last |-> "none",
                 names |-> {}]>>
  /\ value' = "garbage"
  /\ declared' = declared + 1
  /\ pending' = {Begin}
  /\ UNCHANGED <<count, status, follow, odd>>

(* An extern has no body, but one without a type gets a ret void wherever  *)
(* the builder is: nowhere at first, then in the function before it.       *)
parse_function_external(typed) ==
  /\ InFile
  /\ declared' = declared + 1
  /\ IF typed \/ at = 0
     THEN UNCHANGED <<blocks, odd>>
     ELSE /\ blocks' = Built(blocks, at, RetVoid(End))
          /\ odd' = odd \cup {"late extern"}
  /\ UNCHANGED <<entries, at, stack, value, count, status, follow, pending>>

(* A statement that only declares returns its alloca, one that assigns     *)
(* returns NULL; the first assignment to a name makes its alloca here.     *)
parse_assignment(first, assigns) ==
  /\ InStatement /\ (first \/ assigns)
  /\ count' = name
  /\ blocks' = Built(blocks, at, Do(name))
  /\ stack' = IF first THEN Declare(Noted("other"), at) ELSE Noted("other")
  /\ value' = IF assigns THEN "null" ELSE "instruction"
  /\ Runs(name) /\ pending' = {name}
  /\ odd' = odd \cup Dead \cup
       (IF first /\ top.kind = "else" THEN {"bare declaration"} ELSE {})
  /\ UNCHANGED <<entries, at, declared, status>>

(* An expression that leaves an instruction behind, such as a call. *)
parse_function_call ==
  /\ InExpression
  /\ count' = name
  /\ blocks' = Built(blocks, at, Do(name))
  /\ stack' = Noted("other")
  /\ value' = "instruction"
  /\ Runs(name) /\ pending' = {name}
  /\ odd' = odd \cup Dead
  /\ UNCHANGED <<entries, at, declared, status>>

(* A number, a string, a parameter or foldable arithmetic: no instruction. *)
parse_constant ==
  /\ InExpression
  /\ count' = name
  /\ stack' = Noted("other")
  /\ value' = "constant"
  /\ odd' = odd \cup Dead
  /\ UNCHANGED <<code, declared, status, follow, pending>>

(* A match gives NULL to whoever uses its value, and handle_rvalue reads   *)
(* through it: assignments, returns, conditions and arguments.             *)
match_as_value ==
  /\ InStatement
  /\ status' = "crashed"
  /\ UNCHANGED <<code, stack, value, count, declared, source>>

parse_return ==
  /\ InStatement
  /\ count' = name
  /\ blocks' = Built(blocks, at, Ret(name))
  /\ stack' = Noted("return")
  /\ value' = "terminator"
  /\ Runs(name) /\ pending' = {}
  /\ odd' = odd \cup Dead \cup
       (IF stack[1].typed THEN {} ELSE {"value without a type"})
  /\ UNCHANGED <<entries, at, declared, status>>

Frame(kind) == [kind |-> kind, names |-> {}]

(* value is not initialised: an empty block returns what was there. *)
parse_block ==
  /\ InStatement /\ Len(stack) < MaxDepth
  /\ count' = name
  /\ stack' = Noted("other") \o <<Frame("block")>>
  /\ value' = "garbage"
  /\ odd' = odd \cup Dead
  /\ UNCHANGED <<code, declared, status, follow, pending>>

block_ends ==
  /\ Running /\ stack # <<>> /\ top.kind = "block"
  /\ stack' = Pop
  /\ UNCHANGED <<code, value, count, declared, status, source>>

(* Mutant: only the first two of the three blocks are appended. *)
WhileWithoutEnd ==
  /\ InStatement /\ Len(stack) + 2 <= MaxDepth
  /\ count' = name
  /\ LET n == Len(blocks) IN
       /\ blocks' = Built(Built(Appended(2), at, Br(n + 1)),
                          n + 1, CondBr(name, n + 2, n + 3))
       /\ at' = n + 2
       /\ stack' = Noted("other") \o
            <<[kind |-> "while", start |-> n + 1, end |-> n + 3,
               condition |-> name], Frame("block")>>
  /\ value' = "garbage"
  /\ Runs(name) /\ pending' = {name}
  /\ odd' = odd \cup Dead
  /\ UNCHANGED <<entries, declared, status>>

(* The condition is computed in while.start, the body, always a block, in  *)
(* while.body.                                                             *)
parse_while ==
  /\ InStatement /\ Len(stack) + 2 <= MaxDepth
  /\ count' = name
  /\ LET n == Len(blocks) IN
       /\ blocks' = Built(Built(Appended(3), at, Br(n + 1)),
                          n + 1, CondBr(name, n + 2, n + 3))
       /\ at' = n + 2
       /\ stack' = Noted("other") \o
            <<[kind |-> "while", start |-> n + 1, end |-> n + 3,
               condition |-> name], Frame("block")>>
  /\ value' = "garbage"
  /\ Runs(name) /\ pending' = {name}
  /\ odd' = odd \cup Dead
  /\ UNCHANGED <<entries, declared, status>>

(* The branch back is appended whatever the body ended with.               *)
while_ends ==
  /\ Running /\ stack # <<>> /\ top.kind = "while"
  /\ blocks' = Built(blocks, at, Br(top.start))
  /\ at' = top.end
  /\ stack' = Pop
  /\ value' = "null"
  /\ Runs(top.condition) /\ pending' = {top.condition}
  /\ odd' = odd \cup (IF value = "terminator" THEN {"loop body returns"} ELSE {})
  /\ UNCHANGED <<entries, count, declared, status>>

(* The condition is computed where the builder is; if.then, if.else where  *)
(* there is an else (number 0 stands for none), and if.end are appended.   *)
parse_if(with_else) ==
  /\ InStatement /\ Len(stack) + 2 <= MaxDepth
  /\ count' = name
  /\ LET n     == Len(blocks)
         else_ == IF with_else THEN n + 2 ELSE 0
         end   == IF with_else THEN n + 3 ELSE n + 2
     IN  /\ blocks' = Built(Appended(end - n), at,
                            CondBr(name, n + 1, IF with_else THEN else_ ELSE end))
         /\ at' = n + 1
         /\ stack' = Noted("other") \o
              <<[kind |-> "then", else_ |-> else_, end |-> end,
                 condition |-> name], Frame("block")>>
  /\ value' = "garbage"
  /\ Runs(name) /\ pending' = {name}
  /\ odd' = odd \cup Dead
  /\ UNCHANGED <<entries, declared, status>>

(* Mutant: an arm always goes on to if.end, even after a return. *)
AlwaysCloses == IF value = "garbage" THEN BOOLEAN ELSE {TRUE}

(* Whether the arm that just ended gets its branch to if.end: yes after no *)
(* value or an instruction that is no terminator.  LLVMGetInstructionOpcode*)
(* gives 0, a number below LLVMUnreachable, for what is no instruction.    *)
Closes == CASE value \in {"null", "instruction"}    -> {TRUE}
            [] value \in {"terminator", "constant"} -> {FALSE}
            [] OTHER                                -> BOOLEAN

OddArm == CASE value = "garbage"  -> {"empty arm"}
            [] value = "constant" -> {"valueless arm"}
            [] OTHER              -> {}

(* The arm ended in a block whose value is whatever the stack held.        *)
arm_crashes ==
  /\ Running /\ stack # <<>> /\ top.kind \in {"then", "else"}
  /\ value = "garbage"
  /\ status' = "crashed"
  /\ UNCHANGED <<code, stack, value, count, declared, source>>

then_ends ==
  /\ Running /\ stack # <<>> /\ top.kind = "then"
  /\ \E closes \in Closes :
       blocks' = IF closes THEN Built(blocks, at, Br(top.end)) ELSE blocks
  /\ IF top.else_ = 0
     THEN /\ at' = top.end
          /\ stack' = Pop
          /\ value' = "null"
          /\ pending' = pending \cup {top.condition}
     ELSE /\ at' = top.else_
          /\ stack' = Append(Pop, [kind |-> "else", end |-> top.end,
                                   exits |-> pending])
          /\ value' = "pending"
          /\ pending' = {top.condition}
  /\ odd' = odd \cup OddArm
  /\ UNCHANGED <<entries, count, declared, status, follow>>

else_ends ==
  /\ Running /\ stack # <<>> /\ top.kind = "else" /\ value # "pending"
  /\ \E closes \in Closes :
       blocks' = IF closes THEN Built(blocks, at, Br(top.end)) ELSE blocks
  /\ at' = top.end
  /\ stack' = Pop
  /\ value' = "null"
  /\ pending' = pending \cup top.exits
  /\ odd' = odd \cup OddArm
  /\ UNCHANGED <<entries, count, declared, status, follow>>
-----------------------------------------------------------------------------
(* The value matched on is computed in match.start, which is left open.    *)
(* option is the block of the branch at hand, or 0 between two branches.   *)
parse_match(branches) ==
  /\ InExpression /\ Len(stack) < MaxDepth
  /\ count' = name
  /\ LET n == Len(blocks) IN
       /\ blocks' = Built(Built(Appended(2), at, Br(n + 1)), n + 1, Do(name))
       /\ at' = n + 1
       /\ stack' = Append(Noted("other"),
            [kind |-> "match", start |-> n + 1, end |-> n + 2, next |-> n + 2,
             option |-> 0, left |-> branches, matcher |-> name,
             exits |-> {name}])
  /\ value' = "null"
  /\ Runs(name) /\ pending' = {name}
  /\ odd' = odd \cup Dead
  /\ UNCHANGED <<entries, declared, status>>

(* The branches are generated from the last to the first: each tests the   *)
(* type in match.option and goes on to the one generated before it.  The   *)
(* name it binds goes into the scope the match is in.                      *)
match_option ==
  /\ Running /\ stack # <<>> /\ top.kind = "match"
  /\ top.option = 0 /\ top.left > 0
  /\ LET n == Len(blocks) IN
       /\ blocks' = Built(Appended(2), n + 1, CondBr(Begin, n + 2, top.next))
       /\ at' = n + 2
       /\ stack' = Declare([stack EXCEPT ![Len(stack)].option = n + 1], n + 2)
  /\ value' = "pending"
  /\ pending' = {top.matcher}
  /\ odd' = odd \cup {"match name"}
  /\ UNCHANGED <<entries, count, declared, status, follow>>

(* Mutant: the branches are chained in the wrong direction. *)
NextIsEnd ==
  /\ Running /\ stack # <<>> /\ top.kind = "match"
  /\ top.option # 0 /\ value # "pending"
  /\ blocks' = Built(blocks, at, Br(top.end))
  /\ stack' = [stack EXCEPT ![Len(stack)] =
                 [top EXCEPT !.option = 0, !.left = @ - 1,
                             !.exits = @ \cup pending]]
  /\ UNCHANGED <<entries, at, value, count, declared, status, source>>

match_result ==
  /\ Running /\ stack # <<>> /\ top.kind = "match"
  /\ top.option # 0 /\ value # "pending"
  /\ blocks' = Built(blocks, at, Br(top.end))
  /\ stack' = [stack EXCEPT ![Len(stack)] =
                 [top EXCEPT !.next = top.option, !.option = 0, !.left = @ - 1,
                             !.exits = @ \cup pending]]
  /\ UNCHANGED <<entries, at, value, count, declared, status, source>>

(* match.start is closed last, with a branch to the first option.          *)
match_ends ==
  /\ Running /\ stack # <<>> /\ top.kind = "match"
  /\ top.option = 0 /\ top.left = 0
  /\ blocks' = Built(blocks, top.start, Br(top.next))
  /\ at' = top.end
  /\ stack' = Pop
  /\ value' = "null"
  /\ pending' = top.exits
  /\ UNCHANGED <<entries, count, declared, status, follow, odd>>
-----------------------------------------------------------------------------
(* A function without a type returns, unless its last statement is a       *)
(* return; of an empty function that statement is read in front of the     *)
(* list, which may find anything.                                          *)
function_ends ==
  /\ Running /\ stack # <<>> /\ top.kind = "function"
  /\ \/ /\ ~top.typed /\ top.last # "return"
        /\ blocks' = Built(blocks, at, RetVoid(End))
        /\ Runs(End)
     \/ /\ top.typed \/ top.last \in {"none", "return"}
        /\ UNCHANGED <<blocks, follow>>
  /\ stack' = <<>>
  /\ value' = "null"
  /\ pending' = {}
  /\ odd' = odd
       \cup (IF ~top.typed /\ top.last = "none" THEN {"empty function"} ELSE {})
       \cup (IF top.typed /\ value # "terminator" THEN {"no return"} ELSE {})
  /\ UNCHANGED <<entries, at, count, declared, status>>

function_crashes ==
  /\ Running /\ stack # <<>> /\ top.kind = "function"
  /\ ~top.typed /\ top.last = "none"
  /\ status' = "crashed"
  /\ UNCHANGED <<code, stack, value, count, declared, source>>

file_ends ==
  /\ Running /\ stack = <<>>
  /\ status' = "done"
  /\ UNCHANGED <<code, stack, value, count, declared, source>>

Next ==
  \/ \E typed \in BOOLEAN : parse_function(typed) \/ parse_function_external(typed)
  \/ \E first, assigns \in BOOLEAN : parse_assignment(first, assigns)
  \/ parse_function_call \/ parse_constant \/ match_as_value \/ parse_return
  \/ parse_block \/ block_ends
  \/ parse_while \/ while_ends
  \/ (\E with_else \in BOOLEAN : parse_if(with_else))
  \/ then_ends \/ else_ends \/ arm_crashes
  \/ (\E n \in 0 .. MaxBranches : parse_match(n))
  \/ match_option \/ match_result \/ match_ends
  \/ function_ends \/ function_crashes \/ file_ends

Spec == Init /\ [][Next]_vars
-----------------------------------------------------------------------------
Terminators == {"br", "condbr", "ret", "retvoid"}

Frames ==
       [kind : {"function"}, typed : BOOLEAN, last : {"none", "return", "other"},
        names : SUBSET Block]
  \cup [kind : {"block"}, names : SUBSET Block]
  \cup [kind : {"while"}, start : Block, end : Block, condition : Statement]
  \cup [kind : {"then"}, else_ : Block \cup {0}, end : Block,
        condition : Statement]
  \cup [kind : {"else"}, end : Block, exits : SUBSET (Statement \cup {Begin})]
  \cup [kind : {"match"}, start : Block, end : Block, next : Block,
        option : Block \cup {0}, left : Nat, matcher : Statement,
        exits : SUBSET Statement]

(* Every variable stays within its type: in particular the builder, the    *)
(* activations and the instructions name only blocks that exist.           *)
TypeOK ==
  /\ \A b \in Block : \A k \in DOMAIN blocks[b] :
       /\ blocks[b][k].op \in Terminators \cup {"do"}
       /\ blocks[b][k].id \in Statement \cup {Begin, End}
       /\ blocks[b][k].to \subseteq Block
       /\ blocks[b][k].sees \subseteq Block
  /\ entries \subseteq Block \X BOOLEAN
  /\ at \in Block \cup {0}
  /\ \A d \in DOMAIN stack : stack[d] \in Frames
  /\ value \in {"null", "pending", "garbage", "instruction", "constant",
                "terminator"}
  /\ count \in 0 .. MaxItems /\ declared \in 0 .. MaxDeclarations
  /\ status \in {"running", "crashed", "done"}
  /\ follow \subseteq (Statement \cup {Begin}) \X (Statement \cup {End})
  /\ pending \subseteq Statement \cup {Begin}

(* The function block b belongs to was declared with a type.               *)
Typed(b) == \E e \in entries : /\ e[2] /\ e[1] <= b
                               /\ \A f \in entries : f[1] <= b => f[1] <= e[1]

(* What LLVMVerifyModule asks of the blocks: each ends in its only         *)
(* terminator, none branches to the first block of a function, and what is *)
(* returned fits the function's type.                                      *)
WellFormed ==
  \A b \in Block :
    /\ blocks[b] # <<>>
    /\ \A k \in DOMAIN blocks[b] :
         /\ blocks[b][k].op \in Terminators <=> k = Len(blocks[b])
         /\ \A e \in entries : e[1] \notin blocks[b][k].to
         /\ blocks[b][k].op = "ret" => Typed(b)
         /\ blocks[b][k].op = "retvoid" => ~Typed(b)

BetweenDeclarations == status # "crashed" /\ stack = <<>>

(* Nested in whatever way, the conditionals, loops and matches of a source *)
(* are turned into blocks that LLVM accepts; the sources that are not are  *)
(* those with one of the shapes the generator has no answer to.            *)
Unanswered == odd \ {"match name", "bare declaration"}
RegularIsWellFormed == BetweenDeclarations /\ Unanswered = {} => WellFormed

Ids(b) == {k \in DOMAIN blocks[b] : blocks[b][k].id # Begin}
Targets(b) == IF blocks[b] = <<>> THEN {} ELSE blocks[b][Len(blocks[b])].to

(* The blocks that control reaches from those in S along the branches to.  *)
Onward(S, to) == S \cup UNION {to[b] : b \in S}
Reach(S, to) ==
  LET R[n \in 0 .. Len(blocks)] == IF n = 0 THEN S ELSE Onward(R[n - 1], to)
  IN  R[Len(blocks)]

(* The statements control meets first from the blocks in S on: blocks that *)
(* have no statement of their own are passed through.                      *)
Through == [b \in Block |-> IF Ids(b) = {} THEN Targets(b) ELSE {}]
FirstOf(b, K) == {blocks[b][k].id : k \in {k \in K : \A j \in K : k <= j}}
FirstIn(S) == UNION {FirstOf(b, Ids(b)) : b \in Reach(S, Through)}

(* What follows what when the blocks are run. *)
BlockFlow ==
  ({Begin} \X FirstIn({e[1] : e \in entries})) \cup
  UNION {UNION {
    LET later == {j \in Ids(b) : j > k}
    IN  {blocks[b][k].id} \X
          (IF later = {} THEN FirstIn(Targets(b)) ELSE FirstOf(b, later))
    : k \in Ids(b)} : b \in Block}

(* The blocks run the statements in exactly the orders of the source: each *)
(* arm goes on behind its conditional, a loop's body back to its           *)
(* condition, a match tests its branches, and nothing runs after a return. *)
FlowPreserved ==
  BetweenDeclarations /\ WellFormed /\ "late extern" \notin odd =>
    BlockFlow = follow

(* The blocks of a function are finished when its declaration is: nothing  *)
(* that is generated for a later one ends up in them, but for the ret void *)
(* an extern without a type leaves at their end.                           *)
Finished(b) == stack = <<>> \/ \E e \in entries : e[1] > b
FinishedUntouched ==
  [][\A b \in Block : Finished(b) =>
       \/ blocks'[b] = blocks[b]
       \/ /\ stack = <<>> /\ stack' = <<>> /\ b = at
          /\ blocks'[b] = Append(blocks[b], RetVoid(End))]_vars

(* The blocks control reaches without passing through block a. *)
Avoiding(a) ==
  Reach({e[1] : e \in entries} \ {a}, [b \in Block |-> Targets(b) \ {a}])

(* The blocks whose allocas were in scope where the code of b was built. *)
Seen(b) == UNION {blocks[b][k].sees : k \in DOMAIN blocks[b]}

(* A variable that is in scope where the resolver looks it up has its      *)
(* alloca on every way there.  The scope of a declaration that is itself   *)
(* the else statement, and of a name bound by a match, is wider than that. *)
VisibleDominates ==
  BetweenDeclarations /\ WellFormed
    /\ odd \cap {"match name", "bare declaration"} = {} =>
    \A a \in UNION {Seen(b) : b \in Block} :
      \A b \in Avoiding(a) : a \notin Seen(b)
=============================================================================
