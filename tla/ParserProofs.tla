---------------------------- MODULE ParserProofs ----------------------------
(***************************************************************************)
(* The proofs about the parser and about the lists it reads and fills:     *)
(* LeavesListOnlyUnread for all kinds of tokens and texts of any length;   *)
(* that a list implements Appends, for every default length and int.       *)
(*                                                                         *)
(* Most functions move the cursor only past a token they have compared     *)
(* with a kind, which EOF is not.  The others begin at one of the points   *)
(* Unlooked, and what their callers have seen is what Looked says.  The    *)
(* invariant is that these points stand nowhere but on top of the stack,   *)
(* where Looked holds of them.                                             *)
(***************************************************************************)
EXTENDS Parser, List, TLAPS

Unlooked(p) ==
  p \in {Point("type", "length"), Start("return"), Start("if"), Start("while"),
         Start("function"), Start("import")}

(* The token before the cursor is one that is followed by one not looked at. *)
BehindUnread == at > 1 /\ tokens[at - 1] \in {"extern", "["}

Looked == BehindUnread \/ (at <= Len(tokens) /\ Tok # "eof")

TokensOK ==
  /\ tokens \in Seq(Kinds \cup {"eof"})
  /\ at \in 1 .. Len(tokens) + 1
  /\ \A i \in 1 .. Len(tokens) - 1 : tokens[i] # "eof"
  /\ at = Len(tokens) + 1 /\ Ended =>
       Len(tokens) > 1 /\ tokens[Len(tokens) - 1] \in {"extern", "["}

StackOK ==
  /\ \E S : stack \in Seq(S)
  /\ \A i \in 2 .. Len(stack) : ~Unlooked(stack[i])
  /\ stack # <<>> /\ Unlooked(stack[1]) => Looked

Cursor == TokensOK /\ StackOK /\ LeavesListOnlyUnread

Running == status = "running" /\ at \in 1 .. Len(tokens) /\ stack # <<>>

(* A step past a token that is known not to be EOF, and a step past none.  *)
LEMMA Reads ==
  ASSUME Cursor, Running, at' = at + 1, UNCHANGED <<tokens, status>>,
         Tok # "eof" \/ BehindUnread
  PROVE  TokensOK' /\ LeavesListOnlyUnread'
BY TextsAssumption DEF Cursor, Running, TokensOK, LeavesListOnlyUnread,
   BehindUnread, Tok, Ended

(* A step that reads nothing leaves the cursor in the list. *)
LEMMA Stays ==
  ASSUME Cursor, Running, at' = at + 0, UNCHANGED <<tokens, status>>
  PROVE  TokensOK' /\ LeavesListOnlyUnread'
BY DEF Cursor, Running, TokensOK, LeavesListOnlyUnread, BehindUnread, Tok, Ended

(* The points below the top of the stack are never Unlooked. *)
LEMMA Callers ==
  ASSUME StackOK, Running
  PROVE  \A i \in DOMAIN Tail(stack) : ~Unlooked(Tail(stack)[i])
<1>1. PICK S : stack \in Seq(S)
  BY DEF StackOK
<1> QED
  BY <1>1 DEF Running, StackOK

(* A function that returns uncovers the point its caller goes on at. *)
LEMMA Returns ==
  ASSUME StackOK, Running, stack' = <<>> \o Tail(stack)
  PROVE  StackOK'
<1>1. PICK S : stack \in Seq(S)
  BY DEF StackOK
<1>2. stack' = Tail(stack) /\ stack' \in Seq(S)
  BY <1>1 DEF Running
<1> QED
  BY <1>1, <1>2, Callers DEF StackOK

(* A function that goes on keeps the points below it. *)
LEMMA GoesOn ==
  ASSUME StackOK, Running, NEW p, stack' = <<p>> \o Tail(stack), Unlooked(p) => Looked'
  PROVE  StackOK'
<1>1. PICK S : stack \in Seq(S)
  BY DEF StackOK
<1> DEFINE T == S \cup {p}
<1>2. Tail(stack) \in Seq(S) /\ Tail(stack) \in Seq(T) /\ <<p>> \in Seq(T)
  BY <1>1 DEF Running
<1>3. stack' \in Seq(T) /\ stack'[1] = p
  BY <1>2
<1>4. \A i \in 2 .. Len(stack') : stack'[i] = Tail(stack)[i - 1] /\ i - 1 \in DOMAIN Tail(stack)
  BY <1>2
<1> QED
  BY <1>3, <1>4, Callers DEF StackOK

(* A call puts two points on the stack, neither of them an unread one. *)
LEMMA Calls ==
  ASSUME StackOK, Running, NEW p, NEW q, stack' = <<p, q>> \o Tail(stack),
         Unlooked(p) => Looked', ~Unlooked(q)
  PROVE  StackOK'
<1>1. PICK S : stack \in Seq(S)
  BY DEF StackOK
<1> DEFINE T == S \cup {p, q}
<1>2. Tail(stack) \in Seq(S) /\ Tail(stack) \in Seq(T) /\ <<p, q>> \in Seq(T)
  BY <1>1 DEF Running
<1>3. stack' \in Seq(T) /\ stack'[1] = p /\ stack'[2] = q
  BY <1>2
<1>4. \A i \in 3 .. Len(stack') : stack'[i] = Tail(stack)[i - 2] /\ i - 2 \in DOMAIN Tail(stack)
  BY <1>2
<1>5. \A i \in 2 .. Len(stack') : ~Unlooked(stack'[i])
  <2> SUFFICES ASSUME NEW i \in 2 .. Len(stack') PROVE ~Unlooked(stack'[i])
    OBVIOUS
  <2>1. CASE i = 2
    BY <2>1, <1>3
  <2>2. CASE i # 2
    <3>1. i \in 3 .. Len(stack')
      BY <2>2, <1>3
    <3>2. stack'[i] = Tail(stack)[i - 2] /\ i - 2 \in DOMAIN Tail(stack)
      BY <3>1, <1>4
    <3> QED
      BY <3>2, Callers
  <2> QED
    BY <2>1, <2>2
<1> QED
  BY <1>3, <1>5 DEF StackOK

(* The same of a function that calls two others in a row. *)
LEMMA CallsTwice ==
  ASSUME StackOK, Running, NEW p, NEW q, NEW r, stack' = <<p, q, r>> \o Tail(stack),
         ~Unlooked(p), ~Unlooked(q), ~Unlooked(r)
  PROVE  StackOK'
<1>1. PICK S : stack \in Seq(S)
  BY DEF StackOK
<1> DEFINE T == S \cup {p, q, r}
<1>2. Tail(stack) \in Seq(S) /\ Tail(stack) \in Seq(T) /\ <<p, q, r>> \in Seq(T)
  BY <1>1 DEF Running
<1>3. stack' \in Seq(T) /\ stack'[1] = p /\ stack'[2] = q /\ stack'[3] = r
  BY <1>2
<1>4. \A i \in 4 .. Len(stack') : stack'[i] = Tail(stack)[i - 3] /\ i - 3 \in DOMAIN Tail(stack)
  BY <1>2
<1>5. \A i \in 2 .. Len(stack') : ~Unlooked(stack'[i])
  <2> SUFFICES ASSUME NEW i \in 2 .. Len(stack') PROVE ~Unlooked(stack'[i])
    OBVIOUS
  <2>1. CASE i \in {2, 3}
    BY <2>1, <1>3
  <2>2. CASE i \notin {2, 3}
    <3>1. i \in 4 .. Len(stack')
      BY <2>2, <1>3
    <3>2. stack'[i] = Tail(stack)[i - 3] /\ i - 3 \in DOMAIN Tail(stack)
      BY <3>1, <1>4
    <3> QED
      BY <3>2, Callers
  <2> QED
    BY <2>1, <2>2
<1> QED
  BY <1>3, <1>5 DEF StackOK

(* A refusal leaves the cursor where it is. *)
LEMMA Exits == ASSUME Cursor, Exit PROVE Cursor'
BY DEF Exit, Cursor, TokensOK, StackOK, LeavesListOnlyUnread, Looked,
   BehindUnread, Tok, Ended

(* Of parse_type only the length of an array is unread. *)
LEMMA TypeKeeps == ASSUME Cursor, parse_type PROVE Cursor'
<1>1. CASE At("type", "start") /\ Tok = "*" /\ Step(1, <<Start("type"), Point("type", "pointer")>>, values)
  BY <1>1, Reads, Calls DEF Cursor, Running, At, Point, Start, Step, Unlooked
<1>2. CASE At("type", "start") /\ consume("identifier", <<Point("type", "bracket")>>, Push(Leaf("value")))
  BY <1>2, Reads, GoesOn, Exits DEF Cursor, Running, At, Point, Start, Step,
     Unlooked, consume
<1>3. CASE At("type", "pointer") /\ Step(0, <<>>, Wrap("pointer", 0, 1))
  BY <1>3, Stays, Returns DEF Cursor, Running, At, Point, Start, Step, Unlooked
<1>4. CASE At("type", "bracket") /\ Tok = "[" /\ Step(1, <<Point("type", "length")>>, values)
  BY <1>4, Reads, GoesOn DEF Cursor, Running, At, Point, Start, Step,
     Unlooked, Looked, BehindUnread, TokensOK, Tok
<1>5. CASE At("type", "bracket") /\ Step(0, <<>>, values)
  BY <1>5, Stays, Returns DEF Cursor, Running, At, Point, Start, Step, Unlooked
<1>6. CASE At("type", "length") /\ Step(1, <<Point("type", "end")>>, Wrap("array_type", at, 1))
  BY <1>6, Reads, GoesOn DEF Cursor, Running, At, Point, Start, Step,
     Unlooked, StackOK, Looked
<1>7. CASE At("type", "end") /\ consume("]", <<>>, values)
  BY <1>7, Reads, Returns, Exits DEF Cursor, Running, At, Point, Start, Step,
     Unlooked, consume
<1> QED
  BY <1>1, <1>2, <1>3, <1>4, <1>5, <1>6, <1>7 DEF parse_type

(* One lemma per function of the parser: it keeps the cursor invariant. *)
LEMMA PrimaryKeeps == ASSUME Cursor, parse_primary PROVE Cursor'
<1>1. "eof" \notin DOMAIN Literal
  BY DEF Literal
<1> QED
  BY <1>1, Reads, Returns, Exits
     DEF Cursor, Running, At, Point, Start, Step, Unlooked, parse_primary

LEMMA AccessorKeeps == ASSUME Cursor, parse_accessor PROVE Cursor'
BY Reads, Stays, Calls, GoesOn, Returns, Exits DEF Cursor, Running, At,
   Point, Start, Step, Unlooked, parse_accessor, consume

LEMMA CallKeeps == ASSUME Cursor, parse_call PROVE Cursor'
BY Reads, Stays, Calls, GoesOn, Returns, Exits DEF Cursor, Running, At,
   Point, Start, Step, Unlooked, parse_call, consume

LEMMA ItemAccessKeeps == ASSUME Cursor, parse_item_access PROVE Cursor'
BY Reads, Stays, Calls, GoesOn, Returns, Exits DEF Cursor, Running, At,
   Point, Start, Step, Unlooked, parse_item_access, consume

BinaryFunctions == {"factor", "term", "comparison", "logical_and", "logical_or"}

(* The functions of the binary operators differ in what Operand and        *)
(* Operators say of them.                                                  *)
LEMMA BinaryKeeps ==
  ASSUME Cursor, NEW fn \in BinaryFunctions, NEW repeat \in BOOLEAN, Binary(fn, repeat)
  PROVE  Cursor'
<1>1. "eof" \notin Operators[fn]
  BY DEF BinaryFunctions, Operators
<1>2. ~Unlooked(Start(Operand[fn]))
  BY DEF BinaryFunctions, Operand, Unlooked, Start, Point
<1>3. ~Unlooked(Point(fn, "operator")) /\ ~Unlooked(Point(fn, "right"))
  BY DEF BinaryFunctions, Unlooked, Start, Point
<1>4. CASE At(fn, "start") /\ Step(0, <<Start(Operand[fn]), Point(fn, "operator")>>, values)
  BY <1>4, <1>2, <1>3, Stays, Calls DEF Cursor, Running, At, Step
<1>5. CASE /\ At(fn, "operator") /\ Tok \in Operators[fn]
           /\ Step(1, <<Start(Operand[fn]), Point(fn, "right")>>, Wrap("operator", at, 1))
  BY <1>5, <1>1, <1>2, <1>3, Reads, Calls DEF Cursor, Running, At, Step
<1>6. CASE At(fn, "operator") /\ Step(0, <<>>, values)
  BY <1>6, Stays, Returns DEF Cursor, Running, At, Step
<1>7. CASE At(fn, "right") /\ Step(0, <<Point(fn, "operator")>>, Attached)
  BY <1>7, <1>3, Stays, GoesOn DEF Cursor, Running, At, Step
<1>8. CASE At(fn, "right") /\ Step(0, <<>>, Attached)
  BY <1>8, Stays, Returns DEF Cursor, Running, At, Step
<1> QED
  BY <1>4, <1>5, <1>6, <1>7, <1>8 DEF Binary

(* The five functions of the binary operators. *)
LEMMA OperatorsKeep ==
  ASSUME Cursor,
         parse_factor \/ parse_term \/ parse_comparison \/ parse_logical_and \/ parse_logical_or
  PROVE  Cursor'
BY BinaryKeeps
   DEF BinaryFunctions, parse_factor, parse_term, parse_comparison, parse_logical_and,
       parse_logical_or

LEMMA ArrayKeeps == ASSUME Cursor, parse_array PROVE Cursor'
BY Reads, Stays, Calls, GoesOn, Returns, Exits DEF Cursor, Running, At,
   Point, Start, Step, Unlooked, parse_array, consume

LEMMA MatchKeeps == ASSUME Cursor, parse_match PROVE Cursor'
BY Reads, Stays, Calls, GoesOn, Returns, Exits DEF Cursor, Running, At,
   Point, Start, Step, Unlooked, parse_match, NextBranch, consume

LEMMA ExpressionKeeps == ASSUME Cursor, parse_expression PROVE Cursor'
BY Stays, GoesOn DEF Cursor, Running, At, Point, Start, Step, Unlooked,
   parse_expression

LEMMA AssignmentKeeps == ASSUME Cursor, parse_assignment_or_expression_statement PROVE Cursor'
BY Reads, Stays, Calls, GoesOn, Returns, Exits DEF Cursor, Running, At,
   Point, Start, Step, Unlooked, parse_assignment_or_expression_statement,
   consume

(* What a function that begins at an Unlooked point reads first was looked *)
(* at by its caller.                                                       *)
LEMMA FirstToken ==
  ASSUME Cursor, NEW fn, At(fn, "start"), Unlooked(Start(fn))
  PROVE  Tok # "eof" \/ BehindUnread
BY DEF Cursor, StackOK, At, Start, Looked

LEMMA ReturnKeeps == ASSUME Cursor, parse_return_statement PROVE Cursor'
BY FirstToken, Reads, Calls, Returns, Exits DEF Cursor, Running, At, Point,
   Start, Step, Unlooked, parse_return_statement, consume

LEMMA IfKeeps == ASSUME Cursor, parse_if_statement PROVE Cursor'
BY FirstToken, Reads, Stays, CallsTwice, Calls, Returns DEF Cursor,
   Running, At, Point, Start, Step, Unlooked, parse_if_statement

LEMMA WhileKeeps == ASSUME Cursor, parse_while_statement PROVE Cursor'
BY FirstToken, Reads, Stays, CallsTwice, Returns DEF Cursor, Running, At,
   Point, Start, Step, Unlooked, parse_while_statement

LEMMA ImportKeeps == ASSUME Cursor, parse_import PROVE Cursor'
BY FirstToken, Reads, GoesOn, Returns, Exits DEF Cursor, Running, At,
   Point, Start, Step, Unlooked, parse_import, consume

LEMMA StatementKeeps == ASSUME Cursor, parse_statement PROVE Cursor'
<1>1. Running /\ at' = at + 0 /\ UNCHANGED <<tokens, status>>
  BY DEF parse_statement, At, Step, Running
<1>2. Unlooked(Start(StatementOf(Tok))) => Tok # "eof"
  BY DEF StatementOf, Unlooked, Start, Point
<1>3. Tok # "eof" => Looked'
  BY <1>1 DEF Looked, Tok, Running
<1>4. StackOK'
  BY <1>1, <1>2, <1>3, GoesOn DEF parse_statement, Step, Cursor
<1> QED
  BY <1>1, <1>4, Stays DEF Cursor

LEMMA BlockKeeps == ASSUME Cursor, parse_block PROVE Cursor'
BY Reads, Stays, Calls, GoesOn, Returns, Exits DEF Cursor, Running, At,
   Point, Start, Step, Unlooked, parse_block, consume

LEMMA FunctionKeeps == ASSUME Cursor, parse_function PROVE Cursor'
<1> USE DEF Cursor, Running, At, Point, Start, Step, Unlooked
<1>1. CASE At("function", "start") /\ Step(1, <<Point("function", "name")>>, values)
  BY <1>1, FirstToken, Reads, GoesOn
<1>2. CASE Parameters
  BY <1>2, Reads, Stays, Calls, GoesOn, Exits DEF Parameters, NextParameter,
     consume
<1>3. CASE ReturnType
  BY <1>3, Reads, Stays, GoesOn, Exits DEF ReturnType, consume
<1>4. CASE \/ /\ At("function", "name")
              /\ consume("identifier", <<Point("function", "open")>>, Named)
           \/ /\ At("function", "open")
              /\ consume("(", <<Point("function", "parameters")>>,
                         Push(Node("parameters", 0, <<>>)))
           \/ At("function", "close") /\ consume(")", <<Point("function", "type")>>, Attached)
  BY <1>4, Reads, GoesOn, Exits DEF consume
<1>5. CASE /\ At("function", "body")
           /\ IF top.type = "extern" THEN consume(";", <<>>, values)
              ELSE Step(0, <<Start("block"), Point("function", "end")>>, values)
  BY <1>5, Reads, Stays, Calls, Returns, Exits DEF consume
<1>6. CASE At("function", "end") /\ Step(0, <<>>, Attached)
  BY <1>6, Stays, Returns
<1> QED
  BY <1>1, <1>2, <1>3, <1>4, <1>5, <1>6 DEF parse_function

LEMMA DeclarationKeeps == ASSUME Cursor, parse_declaration PROVE Cursor'
<1>1. Running
  BY DEF parse_declaration, At, Running
<1>2. CASE Tok = "extern" /\ Step(1, <<Start("function")>>, Push(Node("extern", 0, <<>>)))
  <2>1. Looked'
    BY <1>1, <1>2 DEF Step, Looked, BehindUnread, Tok, Running, Cursor, TokensOK
  <2> QED
    BY <1>1, <1>2, <2>1, Reads, GoesOn DEF Step, Cursor
<1>3. CASE Tok = "fun" /\ Step(0, <<Start("function")>>, Push(Node("function", 0, <<>>)))
  <2>1. Looked'
    BY <1>1, <1>3 DEF Step, Looked, Tok, Running
  <2> QED
    BY <1>1, <1>3, <2>1, Stays, GoesOn DEF Step, Cursor
<1>4. CASE Tok = "import" /\ Step(0, <<Start("import")>>, values)
  <2>1. Looked'
    BY <1>1, <1>4 DEF Step, Looked, Tok, Running
  <2> QED
    BY <1>1, <1>4, <2>1, Stays, GoesOn DEF Step, Cursor
<1>5. CASE Step(0, <<Start("statement")>>, values)
  BY <1>1, <1>5, Stays, GoesOn DEF Step, Cursor, Unlooked, Start, Point
<1> QED
  BY <1>2, <1>3, <1>4, <1>5 DEF parse_declaration

LEMMA FileKeeps == ASSUME Cursor, parse PROVE Cursor'
<1>1. CASE status' = "done" /\ UNCHANGED <<tokens, at, stack, values>>
  BY <1>1 DEF Cursor, TokensOK, StackOK, LeavesListOnlyUnread, Looked,
     BehindUnread, Tok, Ended
<1>2. CASE At("file", "declarations") /\ Step(0, <<Start("declaration"), Point("file", "declaration")>>, values)
  BY <1>2, Stays, Calls DEF Cursor, Running, At, Point, Start, Step, Unlooked
<1>3. CASE At("file", "declaration") /\ Step(0, <<Point("file", "declarations")>>, Attached)
  BY <1>3, Stays, GoesOn DEF Cursor, Running, At, Point, Start, Step, Unlooked
<1> QED
  BY <1>1, <1>2, <1>3 DEF parse

(* The text only grows, and ends with EOF. *)
LEMMA NextTokenKeeps == ASSUME Cursor, next_token PROVE Cursor'
BY TextsAssumption DEF next_token, Cursor, TokensOK, StackOK,
   LeavesListOnlyUnread, Looked, BehindUnread, Tok, Ended

(* Behind EOF only an unread token leads. *)
LEMMA OverrunKeeps == ASSUME Cursor, overrun PROVE Cursor'
BY DEF overrun, Cursor, TokensOK, StackOK, LeavesListOnlyUnread, Looked,
   BehindUnread, Tok, Ended

(* The cursor starts at the first token. *)
LEMMA CursorInit == ASSUME Init PROVE Cursor
<1>1. TokensOK /\ LeavesListOnlyUnread
  BY DEF Init, TokensOK, LeavesListOnlyUnread, Ended
<1>2. PICK p : stack = <<p>> /\ ~Unlooked(p)
  BY DEF Init, Unlooked, Point, Start
<1>3. stack \in Seq({p}) /\ Len(stack) = 1 /\ stack[1] = p
  BY <1>2
<1>4. StackOK
  <2>1. \E S : stack \in Seq(S)
    BY <1>3
  <2>2. \A i \in 2 .. Len(stack) : ~Unlooked(stack[i])
    BY <1>3
  <2> QED
    BY <1>2, <1>3, <2>1, <2>2 DEF StackOK
<1> QED
  BY <1>1, <1>4 DEF Cursor

(* Every step keeps the strengthening. *)
LEMMA CursorStep == ASSUME Cursor, [Next]_vars PROVE Cursor'
<1>1. CASE UNCHANGED vars
  BY <1>1 DEF vars, Cursor, TokensOK, StackOK, LeavesListOnlyUnread, Looked,
     BehindUnread, Tok, Ended
<1>2. CASE Next
  BY <1>2, NextTokenKeeps, OverrunKeeps, TypeKeeps, PrimaryKeeps,
     AccessorKeeps, CallKeeps,
     ItemAccessKeeps, OperatorsKeep, ArrayKeeps, MatchKeeps, ExpressionKeeps, AssignmentKeeps,
     ReturnKeeps, IfKeeps, WhileKeeps, StatementKeeps, BlockKeeps, FunctionKeeps, ImportKeeps,
     DeclarationKeeps, FileKeeps
     DEF Next
<1> QED
  BY <1>1, <1>2

(* The parser leaves the list of tokens only behind a token that it skips  *)
(* unread: the one after extern, or the length of an array type.           *)
THEOREM CursorStaysInList == Spec => []LeavesListOnlyUnread
<1>1. Init => Cursor
  BY CursorInit
<1>2. Cursor /\ [Next]_vars => Cursor'
  BY CursorStep
<1>3. Cursor => LeavesListOnlyUnread
  BY DEF Cursor
<1> QED
  BY <1>1, <1>2, <1>3, PTL DEF Spec
-----------------------------------------------------------------------------
(* Lists.  TypeOK is inductive, and with it every step adds one element to *)
(* Contents, or none.                                                      *)
USE DEF Full, new_capacity

(* A capacity that seems to have grown has not overflowed. *)
LEMMA GrowthFits ==
  ASSUME TypeOK, new_capacity >= capacity
  PROVE  new_capacity = 2 * capacity /\ new_capacity <= MaxInt
BY ListAssumption DEF TypeOK, Wrapped

(* An empty list is within its bounds. *)
LEMMA InitType == list_init => TypeOK
<1> SUFFICES ASSUME list_init PROVE TypeOK
  OBVIOUS
<1>1. exited \in BOOLEAN
  BY Zenon DEF list_init
<1>2. /\ capacity \in 1 .. MaxInt /\ length \in 0 .. capacity
      /\ elements \in [1 .. capacity -> Elements \cup {Garbage}]
  BY ListAssumption DEF list_init
<1> QED
  BY <1>1, <1>2 DEF TypeOK

(* Every step of a list keeps to its type. *)
LEMMA StepType == TypeOK /\ [ListNext]_list => TypeOK'
<1> SUFFICES ASSUME TypeOK, [ListNext]_list
             PROVE  TypeOK'
  OBVIOUS
<1>1. CASE \E e \in Elements : list_add(e)
  BY <1>1, ListAssumption DEF list_add, TypeOK
<1>2. CASE \E e \in Elements : list_add_grow(e)
  <2>1. PICK e \in Elements : list_add_grow(e)
    BY <1>2
  <2>2. capacity' = 2 * capacity /\ capacity' <= MaxInt /\ length = capacity
    BY <2>1, GrowthFits DEF list_add_grow, TypeOK
  <2>3. Reallocated \in [1 .. capacity' -> Elements \cup {Garbage}]
    BY <2>1, <2>2 DEF Reallocated, list_add_grow, TypeOK
  <2>4. elements' \in [1 .. capacity' -> Elements \cup {Garbage}]
    BY <2>1, <2>3 DEF list_add_grow
  <2> QED
    BY <2>1, <2>2, <2>4, ListAssumption DEF list_add_grow, TypeOK
<1>3. CASE list_add_exit
  BY <1>3 DEF list_add_exit, TypeOK
<1>4. CASE UNCHANGED list
  BY <1>4 DEF list, TypeOK
<1> QED
  BY <1>1, <1>2, <1>3, <1>4 DEF ListNext

(* The array of a list always has room for its length, and the capacity is *)
(* an int (list.c:19-36).                                                  *)
THEOREM ListTypeCorrect == ListSpec => []TypeOK
BY InitType, StepType, PTL DEF ListSpec

(* A new element behind the others adds one to the contents. *)
LEMMA OneMore ==
  ASSUME TypeOK, NEW e, length' = length + 1,
         \A i \in 1 .. length : elements'[i] = elements[i],
         elements'[length + 1] = e
  PROVE  Contents' = Append(Contents, e)
<1>1. Contents' = [i \in 1 .. length + 1 |-> IF i <= length THEN elements[i] ELSE e]
  BY DEF Contents, TypeOK
<1>2. Contents \in Seq({elements[i] : i \in 1 .. length}) /\ Len(Contents) = length
  BY DEF Contents, TypeOK
<1>3. Append(Contents, e) = [i \in 1 .. length + 1 |-> IF i <= length THEN elements[i] ELSE e]
  BY <1>2 DEF Contents, TypeOK
<1> QED
  BY <1>1, <1>3

(* Adding in place appends. *)
LEMMA AddImplements ==
  ASSUME TypeOK, NEW e \in Elements, list_add(e) \/ list_add_grow(e)
  PROVE  Implemented!Add(e)
<1>1. /\ length' = length + 1
      /\ \A i \in 1 .. length : elements'[i] = elements[i]
      /\ elements'[length + 1] = e
  <2>1. CASE list_add(e)
    BY <2>1 DEF list_add, TypeOK
  <2>2. CASE list_add_grow(e)
    <3>1. new_capacity = 2 * capacity /\ length = capacity
      BY <2>2, GrowthFits DEF list_add_grow, TypeOK
    <3>2. \A i \in 1 .. length : Reallocated[i] = elements[i]
      BY <3>1 DEF Reallocated, TypeOK
    <3>3. length + 1 \in DOMAIN Reallocated
      BY <3>1 DEF Reallocated, TypeOK
    <3> QED
      BY <2>2, <3>1, <3>2, <3>3 DEF list_add_grow, TypeOK, Reallocated
  <2> QED
    BY <2>1, <2>2
<1>2. Contents' = Append(Contents, e)
  BY <1>1, OneMore
<1> QED
  BY <1>2 DEF Implemented!Add, list_add, list_add_grow

(* Every step of a list is one of the sequence, or none. *)
LEMMA StepImplements ==
  TypeOK /\ [ListNext]_list => [Implemented!Next]_<<Contents, exited>>
<1> SUFFICES ASSUME TypeOK, [ListNext]_list
             PROVE  [Implemented!Next]_<<Contents, exited>>
  OBVIOUS
<1>1. CASE \E e \in Elements : list_add(e) \/ list_add_grow(e)
  BY <1>1, AddImplements DEF Implemented!Next
<1>2. CASE list_add_exit
  BY <1>2 DEF list_add_exit, Contents, Implemented!Next, Implemented!Fail
<1>3. CASE UNCHANGED list
  BY <1>3 DEF list, Contents
<1> QED
  BY <1>1, <1>2, <1>3 DEF ListNext

(* A new list is the empty sequence. *)
LEMMA InitImplements == list_init => Implemented!Init
BY DEF list_init, Implemented!Init, Contents

(* A list is the sequence of what was added to it, for every default       *)
(* length, width of an int and order of growths (list.c:19-36).            *)
THEOREM ListIsSequence == ListSpec => AppendsSpec
BY InitImplements, StepImplements, ListTypeCorrect, PTL
   DEF ListSpec, AppendsSpec, Implemented!Spec
=============================================================================
