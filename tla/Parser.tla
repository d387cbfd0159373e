------------------------------- MODULE Parser -------------------------------
(***************************************************************************)
(* parser.c: recursive descent over the list of tokens.                    *)
(*                                                                         *)
(* The C stack is the sequence stack of the points to go on at, the        *)
(* running function first; values holds the nodes that its activations     *)
(* have in hand.  A token is its kind, and a node keeps the index of the   *)
(* token it was made of in place of its text.  The list of tokens is       *)
(* chosen as the cursor reaches it, within Texts, and ends with EOF.       *)
(***************************************************************************)
EXTENDS Integers, Sequences

CONSTANT Texts   \* the texts there are: records of the kinds of their tokens,
                 \* .kinds, and of the most tokens they have before EOF, .most

Kinds == UNION {t.kinds : t \in Texts}

ASSUME TextsAssumption == "eof" \notin Kinds /\ \A t \in Texts : t.most \in Nat

VARIABLES tokens,   \* the tokens the cursor has reached
          at,       \* the index of current_token
          stack,
          values,
          status

vars == <<tokens, at, stack, values, status>>

Point(fn, place) == <<fn, place>>
Start(fn) == Point(fn, "start")

Node(type, i, kids) == [type |-> type, at |-> i, kids |-> kids]
Null == Node("null", 0, <<>>)
Leaf(type) == Node(type, at, <<>>)

Init ==
  /\ tokens = <<>> /\ at = 1
  /\ stack = <<Point("file", "declarations")>>
  /\ values = <<Node("file", 0, <<>>)>>
  /\ status = "running"

Ended == Len(tokens) > 0 /\ tokens[Len(tokens)] = "eof"

Admitted(text) ==
  \E t \in Texts : Len(text) <= t.most /\ \A i \in DOMAIN text : text[i] \in t.kinds

(* The cursor comes to a token: the scanner ends every list with EOF.      *)
next_token ==
  /\ status = "running" /\ at = Len(tokens) + 1 /\ ~Ended
  /\ \E k \in Kinds \cup {"eof"} :
       /\ k # "eof" => Admitted(Append(tokens, k))
       /\ tokens' = Append(tokens, k)
  /\ UNCHANGED <<at, stack, values, status>>

(* The cursor is read behind the EOF token: what is there was never a      *)
(* token, and nothing can be said of what follows.                         *)
overrun ==
  /\ status = "running" /\ at > Len(tokens) /\ Ended
  /\ status' = "overrun"
  /\ UNCHANGED <<tokens, at, stack, values>>

Tok == tokens[at]
At(fn, place) ==
  status = "running" /\ at \in 1 .. Len(tokens)
    /\ stack # <<>> /\ Head(stack) = Point(fn, place)

(* Read n tokens and go on at the points of rest, with other nodes in hand. *)
Step(n, rest, nodes) ==
  /\ at' = at + n /\ stack' = rest \o Tail(stack) /\ values' = nodes
  /\ UNCHANGED <<tokens, status>>

Exit == status' = "failed" /\ UNCHANGED <<tokens, at, stack, values>>

(* Mutant: a token of the wrong kind is reported and skipped. *)
ReportOnly(kind, rest, nodes) == Step(1, rest, nodes)

consume(kind, rest, nodes) ==
  IF Tok = kind THEN Step(1, rest, nodes) ELSE Exit

top == values[Len(values)]
Without(k) == SubSeq(values, 1, Len(values) - k)
Push(node) == Append(values, node)

(* A new node whose children are the last k. *)
Wrap(type, i, k) ==
  Append(Without(k), Node(type, i, SubSeq(values, Len(values) - k + 1, Len(values))))

(* Mutant: children are added in front. *)
AttachFirst(nodes) ==
  LET n == Len(nodes)
  IN  Append(SubSeq(nodes, 1, n - 2),
             [nodes[n - 1] EXCEPT !.kids = <<nodes[n]>> \o @])

(* The last of the nodes becomes the last child of the one before it. *)
Attach(nodes) ==
  LET n == Len(nodes)
  IN  Append(SubSeq(nodes, 1, n - 2),
             [nodes[n - 1] EXCEPT !.kids = Append(@, nodes[n])])
Attached == Attach(values)
-----------------------------------------------------------------------------
(* Anything may stand for the length of an array: the message that it is   *)
(* not a number does not end the program.                                  *)
parse_type ==
  \/ /\ At("type", "start")
     /\ IF Tok = "*"
        THEN Step(1, <<Start("type"), Point("type", "pointer")>>, values)
        ELSE consume("identifier", <<Point("type", "bracket")>>, Push(Leaf("value")))
  \/ /\ At("type", "pointer")
     /\ Step(0, <<>>, Wrap("pointer", 0, 1))
  \/ /\ At("type", "bracket")
     /\ IF Tok = "[" THEN Step(1, <<Point("type", "length")>>, values)
        ELSE Step(0, <<>>, values)
  \/ /\ At("type", "length")
     /\ Step(1, <<Point("type", "end")>>, Wrap("array_type", at, 1))
  \/ /\ At("type", "end")
     /\ consume("]", <<>>, values)

Literal == [true |-> "bool", false |-> "bool", number |-> "number",
            string |-> "string", identifier |-> "variable"]

parse_primary ==
  /\ At("primary", "start")
  /\ IF Tok \in DOMAIN Literal THEN Step(1, <<>>, Push(Leaf(Literal[Tok])))
     ELSE Exit

parse_accessor ==
  \/ /\ At("accessor", "start")
     /\ Step(0, <<Start("primary"), Point("accessor", "colons")>>, values)
  \/ /\ At("accessor", "colons")
     /\ IF top.type = "variable" /\ Tok = "::"
        THEN Step(1, <<Point("accessor", "right")>>, values)
        ELSE Step(0, <<>>, values)
  \/ /\ At("accessor", "right")
     /\ consume("identifier", <<>>,
                Append(Without(1), Node("accessor", 0, <<top, Leaf("variable")>>)))

parse_call ==
  \/ /\ At("call", "start")
     /\ Step(0, <<Start("accessor"), Point("call", "open")>>, values)
  \/ /\ At("call", "open")
     /\ IF top.type \in {"variable", "accessor"} /\ Tok = "("
        THEN Step(1, <<Point("call", "arguments")>>, Wrap("call", 0, 1))
        ELSE Step(0, <<>>, values)
  \/ /\ At("call", "arguments")
     /\ IF Tok = ")" THEN Step(1, <<>>, values)
        ELSE Step(0, <<Start("expression"), Point("call", "argument")>>, values)
  \/ /\ At("call", "argument")
     /\ IF Tok = ","
        THEN Step(1, <<Start("expression"), Point("call", "argument")>>, Attached)
        ELSE consume(")", <<>>, Attached)

parse_item_access ==
  \/ /\ At("item_access", "start")
     /\ Step(0, <<Start("call"), Point("item_access", "open")>>, values)
  \/ /\ At("item_access", "open")
     /\ IF Tok = "["
        THEN Step(1, <<Start("expression"), Point("item_access", "close")>>, values)
        ELSE Step(0, <<>>, values)
  \/ /\ At("item_access", "close")
     /\ consume("]", <<Point("item_access", "open")>>, Wrap("item_access", 0, 2))

Operand == [factor |-> "item_access", term |-> "factor", comparison |-> "term",
            logical_and |-> "comparison", logical_or |-> "logical_and"]
Operators == [factor |-> {"*", "/"}, term |-> {"+", "-"},
              comparison |-> {"==", ">", ">=", "<", "<=", "!="},
              logical_and |-> {"&&"}, logical_or |-> {"||"}]

(* Mutant: a right operand goes back to the function it was called from,   *)
(* so that operators group to the right.                                   *)
RightRecursive(fn, repeat) ==
  \/ /\ At(fn, "start")
     /\ Step(0, <<Start(Operand[fn]), Point(fn, "operator")>>, values)
  \/ /\ At(fn, "operator")
     /\ IF Tok \in Operators[fn]
        THEN Step(1, <<Start(fn), Point(fn, "right")>>, Wrap("operator", at, 1))
        ELSE Step(0, <<>>, values)
  \/ /\ At(fn, "right") /\ Step(0, <<>>, Attached)

(* The five functions of the binary operators: operands and operators of   *)
(* their level, grouped to the left.                                       *)
Binary(fn, repeat) ==
  \/ /\ At(fn, "start")
     /\ Step(0, <<Start(Operand[fn]), Point(fn, "operator")>>, values)
  \/ /\ At(fn, "operator")
     /\ IF Tok \in Operators[fn]
        THEN Step(1, <<Start(Operand[fn]), Point(fn, "right")>>, Wrap("operator", at, 1))
        ELSE Step(0, <<>>, values)
  \/ /\ At(fn, "right")
     /\ Step(0, IF repeat THEN <<Point(fn, "operator")>> ELSE <<>>, Attached)

parse_factor == Binary("factor", TRUE)
parse_term == Binary("term", TRUE)
parse_comparison == Binary("comparison", FALSE)
parse_logical_and == Binary("logical_and", TRUE)
parse_logical_or == Binary("logical_or", TRUE)

(* The comma after the last item is optional. *)
parse_array ==
  \/ /\ At("array", "start")
     /\ IF Tok = "["
        THEN Step(1, <<Point("array", "items")>>, Push(Node("array", 0, <<>>)))
        ELSE Step(0, <<Start("logical_or")>>, values)
  \/ /\ At("array", "items")
     /\ IF Tok = "]" THEN Step(1, <<>>, values)
        ELSE Step(0, <<Start("logical_or"), Point("array", "item")>>, values)
  \/ /\ At("array", "item")
     /\ IF Tok = "," THEN Step(1, <<Point("array", "items")>>, Attached)
        ELSE consume("]", <<>>, Attached)

(* Mutant: what is no branch is waited out instead of refused. *)
BranchesWait ==
  /\ At("match", "branches")
  /\ IF Tok = "}" THEN Step(1, <<>>, values)
     ELSE IF Tok \in {"identifier", "*"}
     THEN Step(0, <<Start("type"), Point("match", "identifier")>>, values)
     ELSE UNCHANGED vars

(* The loop ends at a right brace only: EOF is no type, and exits there.   *)
NextBranch ==
  /\ At("match", "branches")
  /\ IF Tok = "}" THEN Step(1, <<>>, values)
     ELSE Step(0, <<Start("type"), Point("match", "identifier")>>, values)

(* A branch is its identifier, its type and its expression. *)
parse_match ==
  \/ /\ At("match", "start")
     /\ IF Tok = "match" THEN Step(1, <<Start("array"), Point("match", "open")>>, values)
        ELSE Step(0, <<Start("array")>>, values)
  \/ /\ At("match", "open")
     /\ consume("{", <<Point("match", "branches")>>, Wrap("match", 0, 1))
  \/ NextBranch
  \/ /\ At("match", "identifier")
     /\ consume("identifier", <<Point("match", "arrow")>>, Wrap("branch", at, 1))
  \/ /\ At("match", "arrow")
     /\ consume("->", <<Start("expression"), Point("match", "expression")>>, values)
  \/ /\ At("match", "expression")
     /\ Step(0, <<Point("match", "branches")>>, Attach(Attached))

parse_expression ==
  At("expression", "start") /\ Step(0, <<Start("match")>>, values)
-----------------------------------------------------------------------------
(* The expression in hand becomes the name of an assignment, whose children *)
(* are its type or Null, and its value if it has one.                       *)
Assignment(kids) == Append(Without(1), Node("assignment", top.at, kids))

parse_assignment_or_expression_statement ==
  \/ /\ At("assignment", "start")
     /\ Step(0, <<Start("expression"), Point("assignment", "target")>>, values)
  \/ /\ At("assignment", "target") /\ Tok \in {":", "="} /\ top.type # "variable"
     /\ Exit
  \/ /\ At("assignment", "target") /\ Tok = ":" /\ top.type = "variable"
     /\ Step(1, <<Start("type"), Point("assignment", "typed")>>, Assignment(<<>>))
  \/ /\ At("assignment", "target") /\ Tok = "=" /\ top.type = "variable"
     /\ Step(1, <<Start("expression"), Point("assignment", "value")>>,
             Assignment(<<Null>>))
  \/ /\ At("assignment", "target") /\ Tok \notin {":", "="}
     /\ consume(";", <<>>, values)
  \/ /\ At("assignment", "typed")
     /\ IF Tok = "="
        THEN Step(1, <<Start("expression"), Point("assignment", "value")>>, Attached)
        ELSE consume(";", <<>>, Attached)
  \/ /\ At("assignment", "value")
     /\ consume(";", <<>>, Attached)

parse_return_statement ==
  \/ /\ At("return", "start")
     /\ Step(1, <<Start("expression"), Point("return", "semicolon")>>, values)
  \/ /\ At("return", "semicolon")
     /\ consume(";", <<>>, Wrap("return", 0, 1))

parse_if_statement ==
  \/ /\ At("if", "start")
     /\ Step(1, <<Start("expression"), Start("block"), Point("if", "else")>>, values)
  \/ /\ At("if", "else")
     /\ IF Tok = "else"
        THEN Step(1, <<Start("statement"), Point("if", "end")>>, Wrap("if", 0, 2))
        ELSE Step(0, <<>>, Wrap("if", 0, 2))
  \/ At("if", "end") /\ Step(0, <<>>, Attached)

parse_while_statement ==
  \/ /\ At("while", "start")
     /\ Step(1, <<Start("expression"), Start("block"), Point("while", "end")>>, values)
  \/ At("while", "end") /\ Step(0, <<>>, Wrap("while", 0, 2))

StatementOf(kind) == IF kind \in {"while", "if", "return"} THEN kind
                     ELSE IF kind = "{" THEN "block" ELSE "assignment"

parse_statement ==
  At("statement", "start") /\ Step(0, <<Start(StatementOf(Tok))>>, values)

(* The second condition of the loop, that the cursor is in the list, holds *)
(* of EOF too, which is no statement: parse_primary exits.                 *)
parse_block ==
  \/ /\ At("block", "start")
     /\ consume("{", <<Point("block", "statements")>>, Push(Node("block", 0, <<>>)))
  \/ /\ At("block", "statements")
     /\ IF Tok = "}" THEN Step(1, <<>>, values)
        ELSE Step(0, <<Start("statement"), Point("block", "statement")>>, values)
  \/ /\ At("block", "statement")
     /\ Step(0, <<Point("block", "statements")>>, Attached)
-----------------------------------------------------------------------------
(* The node in hand gets its name. *)
Named == Append(Without(1), [top EXCEPT !.at = at])

NextParameter ==
  /\ At("function", "comma")
  /\ IF Tok = "," /\ values[Len(values) - 1].type # "rest"
     THEN Step(1, <<Point("function", "parameter")>>, Attach(Attached))
     ELSE Step(0, <<Point("function", "close")>>, Attach(Attached))

(* The do loop over the parameters, and what follows ... in it: the name   *)
(* of a rest parameter, or the end of the parameters of a vararg function. *)
Parameters ==
  \/ /\ At("function", "parameters")
     /\ Step(0, <<Point("function", IF Tok = ")" THEN "close" ELSE "parameter")>>, values)
  \/ /\ At("function", "parameter")
     /\ IF Tok = "..." THEN Step(1, <<Point("function", "rest")>>, values)
        ELSE consume("identifier", <<Point("function", "colon")>>,
                     Push(Leaf("parameter")))
  \/ /\ At("function", "rest")
     /\ IF Tok = "identifier"
        THEN Step(1, <<Point("function", "colon")>>, Push(Leaf("rest")))
        ELSE Step(0, <<Point("function", "close")>>, Attach(Push(Node("vararg", 0, <<>>))))
  \/ /\ At("function", "colon")
     /\ consume(":", <<Start("type"), Point("function", "comma")>>, values)
  \/ NextParameter

(* The type of a function is a name, with a star or without. *)
ReturnType ==
  \/ /\ At("function", "type")
     /\ IF Tok = ":" THEN Step(1, <<Point("function", "star")>>, values)
        ELSE Step(0, <<Point("function", "body")>>, Attach(Push(Null)))
  \/ /\ At("function", "star")
     /\ IF Tok = "*"
        THEN Step(1, <<Point("function", "named")>>, Push(Node("pointer_to", 0, <<>>)))
        ELSE Step(0, <<Point("function", "named")>>, Push(Node("value", 0, <<>>)))
  \/ /\ At("function", "named")
     /\ consume("identifier", <<Point("function", "body")>>, Attach(Named))

(* The first token is skipped unread: after extern it need not be fun.     *)
(* The node in hand tells an external function from another.               *)
parse_function ==
  \/ At("function", "start") /\ Step(1, <<Point("function", "name")>>, values)
  \/ /\ At("function", "name")
     /\ consume("identifier", <<Point("function", "open")>>, Named)
  \/ /\ At("function", "open")
     /\ consume("(", <<Point("function", "parameters")>>,
                Push(Node("parameters", 0, <<>>)))
  \/ Parameters
  \/ At("function", "close") /\ consume(")", <<Point("function", "type")>>, Attached)
  \/ ReturnType
  \/ /\ At("function", "body")
     /\ IF top.type = "extern" THEN consume(";", <<>>, values)
        ELSE Step(0, <<Start("block"), Point("function", "end")>>, values)
  \/ At("function", "end") /\ Step(0, <<>>, Attached)

(* Mutant: the path is not looked at. *)
ImportUnread ==
  \/ At("import", "start") /\ Step(1, <<Point("import", "path")>>, values)
  \/ At("import", "path") /\ Step(1, <<>>, Push(Leaf("import")))

parse_import ==
  \/ At("import", "start") /\ Step(1, <<Point("import", "path")>>, values)
  \/ At("import", "path") /\ consume("string", <<>>, Push(Leaf("import")))

parse_declaration ==
  /\ At("declaration", "start")
  /\ \/ /\ Tok = "extern"
        /\ Step(1, <<Start("function")>>, Push(Node("extern", 0, <<>>)))
     \/ /\ Tok = "fun"
        /\ Step(0, <<Start("function")>>, Push(Node("function", 0, <<>>)))
     \/ Tok = "import" /\ Step(0, <<Start("import")>>, values)
     \/ Tok \notin {"extern", "fun", "import"} /\ Step(0, <<Start("statement")>>, values)

parse ==
  \/ /\ At("file", "declarations") /\ Tok # "eof"
     /\ Step(0, <<Start("declaration"), Point("file", "declaration")>>, values)
  \/ /\ At("file", "declaration")
     /\ Step(0, <<Point("file", "declarations")>>, Attached)
  \/ /\ At("file", "declarations") /\ Tok = "eof"
     /\ status' = "done" /\ UNCHANGED <<tokens, at, stack, values>>

Next ==
  \/ next_token \/ overrun
  \/ parse_type \/ parse_primary \/ parse_accessor \/ parse_call \/ parse_item_access
  \/ parse_factor \/ parse_term \/ parse_comparison \/ parse_logical_and
  \/ parse_logical_or \/ parse_array \/ parse_match \/ parse_expression
  \/ parse_assignment_or_expression_statement \/ parse_return_statement
  \/ parse_if_statement \/ parse_while_statement \/ parse_statement \/ parse_block
  \/ parse_function \/ parse_import \/ parse_declaration \/ parse

(* One thread that never waits. *)
Spec == Init /\ [][Next]_vars /\ WF_vars(Next)
-----------------------------------------------------------------------------
(* The cursor leaves the list of tokens only at the two places that do not *)
(* look at the token they skip: the one behind extern, and the length of   *)
(* an array type.                                                          *)
LeavesListOnlyUnread ==
  status = "overrun" => tokens[Len(tokens) - 1] \in {"extern", "["}
=============================================================================
