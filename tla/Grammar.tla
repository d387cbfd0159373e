------------------------------ MODULE Grammar ------------------------------
(***************************************************************************)
(* What parser.c accepts and what its trees mean, stated apart from it: a  *)
(* grammar, and the text a tree stands for.                                *)
(***************************************************************************)
EXTENDS Parser, SequencesExt

(* Right sides of the productions; what is no left side is a token.  Where *)
(* the parser does not look at a token, any stands: "token".               *)
Rules == [
  file        |-> {<<>>, <<"declaration", "file">>},
  declaration |-> {<<"import", "string">>, <<"statement">>,
                   <<"fun", "signature", "block">>,
                   <<"extern", "token", "signature", ";">>},
  signature   |-> {<<"identifier", "(", "parameters", ")", "result">>},
  parameters  |-> {<<>>, <<"list">>},
  list        |-> {<<"...">>, <<"...", "parameter">>, <<"parameter", "next">>},
  next        |-> {<<>>, <<",", "list">>},
  parameter   |-> {<<"identifier", ":", "type">>},
  result      |-> {<<>>, <<":", "identifier">>, <<":", "*", "identifier">>},
  type        |-> {<<"*", "type">>, <<"identifier", "length">>},
  length      |-> {<<>>, <<"[", "token", "]">>},
  block       |-> {<<"{", "statements", "}">>},
  statements  |-> {<<>>, <<"statement", "statements">>},
  statement   |-> {<<"block">>, <<"while", "expression", "block">>,
                   <<"if", "expression", "block", "otherwise">>,
                   <<"return", "expression", ";">>, <<"expression", ";">>,
                   <<"identifier", "=", "expression", ";">>,
                   <<"identifier", ":", "type", ";">>,
                   <<"identifier", ":", "type", "=", "expression", ";">>},
  otherwise   |-> {<<>>, <<"else", "statement">>},
  expression  |-> {<<"value">>, <<"match", "value", "{", "branches", "}">>},
  branches    |-> {<<>>,
                   <<"type", "identifier", "->", "expression", "branches">>},
  value       |-> {<<"[", "items", "]">>, <<"logical">>},
  items       |-> {<<>>, <<"logical", "comma">>},
  comma       |-> {<<>>, <<",", "items">>},
  logical     |-> {<<"relation", "logicals">>},
  logicals    |-> {<<>>} \cup {<<op, "logical">> :
                     op \in Operators.logical_and \cup Operators.logical_or},
  relation    |-> {<<"sum", "relations">>},
  relations   |-> {<<>>} \cup {<<op, "sum">> : op \in Operators.comparison},
  sum         |-> {<<"access", "sums">>},
  sums        |-> {<<>>} \cup {<<op, "sum">> :
                     op \in Operators.factor \cup Operators.term},
  access      |-> {<<"single", "indices">>},
  indices     |-> {<<>>, <<"[", "expression", "]", "indices">>},
  single      |-> {<<"number">>, <<"string">>, <<"true">>, <<"false">>,
                   <<"identifier", "member", "call">>},
  member      |-> {<<>>, <<"::", "identifier">>},
  call        |-> {<<>>, <<"(", "arguments", ")">>},
  arguments   |-> {<<>>, <<"expression", "more">>},
  more        |-> {<<>>, <<",", "expression", "more">>}]

(* What right derives can begin with the tokens from i to n.  Every left   *)
(* side derives something, so that a right side that has read them all can *)
(* always be completed.                                                    *)
RECURSIVE Begins(_, _, _)
Begins(right, i, n) ==
  \/ i > n
  \/ /\ i <= n /\ right # <<>>
     /\ IF Head(right) \in DOMAIN Rules
        THEN \E r \in Rules[Head(right)] : Begins(r \o Tail(right), i, n)
        ELSE /\ Head(right) \in {tokens[i], "token"}
             /\ Begins(Tail(right), i + 1, n)

(* The first n tokens begin a program and its EOF. *)
ProgramBegins(n) == Begins(<<"file", "eof">>, 1, n)
-----------------------------------------------------------------------------
(* The text of a node is a sequence of parts: tokens of some kinds, the    *)
(* token the node was made of among them, and its children.                *)
Part(kinds, places, node) ==
  [kinds |-> kinds, places |-> places, node |-> node, optional |-> FALSE]
Anywhere(kinds) == Part(kinds, 1 .. Len(tokens), Null)
T(kind) == <<Anywhere({kind})>>
N(node) == <<Part({}, {}, node)>>
Optional(kind) == <<[Anywhere({kind}) EXCEPT !.optional = TRUE]>>

IsStatement(n) == n.type \in {"assignment", "return", "if", "while", "block",
                              "function", "extern", "import"}
Statement(n) == IF IsStatement(n) THEN N(n) ELSE N(n) \o T(";")

Statements(kids) == FlattenSeq([i \in DOMAIN kids |-> Statement(kids[i])])
Each(kids) == FlattenSeq([i \in DOMAIN kids |-> N(kids[i])])
Listed(kids) == FlattenSeq([i \in DOMAIN kids |->
                  IF i = 1 THEN N(kids[i]) ELSE T(",") \o N(kids[i])])
Perhaps(prefix, n) == IF n = Null THEN <<>> ELSE T(prefix) \o N(n)

Binaries == UNION {Operators[f] : f \in DOMAIN Operators}

(* The parts of a node, in the order of the text. *)
Text(n) ==
  LET k == n.kids
      Own(kinds) == <<Part(kinds, {n.at}, Null)>>
      Name == Own({"identifier"})
  IN CASE n.type = "file" -> Statements(k)
       [] n.type = "bool" -> Own({"true", "false"})
       [] n.type \in {"number", "string"} -> Own({n.type})
       [] n.type \in {"variable", "value"} -> Name
       [] n.type = "pointer" -> T("*") \o N(k[1])
       [] n.type = "pointer_to" -> T("*") \o Name
       [] n.type = "array_type" -> N(k[1]) \o T("[") \o Own(Kinds) \o T("]")
       [] n.type = "accessor" -> N(k[1]) \o T("::") \o N(k[2])
       [] n.type = "call" -> N(k[1]) \o T("(") \o Listed(Tail(k)) \o T(")")
       [] n.type = "item_access" -> N(k[1]) \o T("[") \o N(k[2]) \o T("]")
       [] n.type = "operator" -> N(k[1]) \o Own(Binaries) \o N(k[2])
       [] n.type = "array" -> T("[") \o Listed(k) \o Optional(",") \o T("]")
       [] n.type = "branch" -> N(k[1]) \o Name \o T("->") \o N(k[2])
       [] n.type = "match" -> T("match") \o N(k[1]) \o T("{") \o Each(Tail(k)) \o T("}")
       [] n.type = "assignment" -> Name \o Perhaps(":", k[1])
                                     \o (IF Len(k) = 1 THEN <<>> ELSE T("=") \o N(k[2]))
                                     \o T(";")
       [] n.type = "return" -> T("return") \o N(k[1]) \o T(";")
       [] n.type = "if" -> T("if") \o N(k[1]) \o N(k[2])
                             \o (IF Len(k) = 2 THEN <<>> ELSE T("else") \o Statement(k[3]))
       [] n.type = "while" -> T("while") \o N(k[1]) \o N(k[2])
       [] n.type = "block" -> T("{") \o Statements(k) \o T("}")
       [] n.type = "parameter" -> Name \o T(":") \o N(k[1])
       [] n.type = "rest" -> T("...") \o Name \o T(":") \o N(k[1])
       [] n.type = "vararg" -> T("...")
       [] n.type = "parameters" -> T("(") \o Listed(k) \o T(")")
       [] n.type = "function" -> T("fun") \o Name \o N(k[1]) \o Perhaps(":", k[2])
                                   \o N(k[3])
       [] n.type = "extern" -> T("extern") \o <<Anywhere(Kinds)>> \o Name
                                 \o N(k[1]) \o Perhaps(":", k[2]) \o T(";")
       [] n.type = "import" -> T("import") \o Own({"string"})

(* The index behind the parts if the tokens from i on read like them, or 0. *)
RECURSIVE Behind(_, _)
Behind(parts, i) ==
  IF parts = <<>> \/ i = 0 THEN i
  ELSE LET p == Head(parts)
           found == tokens[i] \in p.kinds /\ i \in p.places
       IN  Behind(Tail(parts),
                  IF p.node # Null THEN Behind(Text(p.node), i)
                  ELSE IF found THEN i + 1 ELSE IF p.optional THEN i ELSE 0)

(* How loosely a node binds: operators by their levels, then the two kinds *)
(* of expressions no operator takes.                                       *)
Rank(n) ==
  CASE n.type = "operator" ->
         LET Has(f) == tokens[n.at] \in Operators[f]
         IN IF Has("factor") THEN 1 ELSE IF Has("term") THEN 2
            ELSE IF Has("comparison") THEN 3 ELSE IF Has("logical_and") THEN 4 ELSE 5
    [] n.type = "array" -> 6
    [] n.type = "match" -> 7
    [] OTHER -> 0

(* Operators group by rank and to the left; comparisons do not group. *)
Groups(n) ==
  CASE n.type = "operator" -> /\ Rank(n.kids[2]) < Rank(n)
                              /\ Rank(n.kids[1]) <= Rank(n)
                              /\ Rank(n.kids[1]) # 3 \/ Rank(n) # 3
    [] n.type = "item_access" -> Rank(n.kids[1]) = 0
    [] n.type = "array" -> \A i \in DOMAIN n.kids : Rank(n.kids[i]) < 6
    [] n.type = "match" -> Rank(n.kids[1]) < 7
    [] n.type = "parameters" ->
         \A i \in DOMAIN n.kids : n.kids[i].type \in {"rest", "vararg"} => i = Len(n.kids)
    [] OTHER -> TRUE

RECURSIVE Everywhere(_, _)
Everywhere(Holds(_), n) ==
  Holds(n) /\ \A i \in DOMAIN n.kids : Everywhere(Holds, n.kids[i])
-----------------------------------------------------------------------------
(* A file is accepted only with a tree that says what its tokens say: read *)
(* off the tree in order, every token is there once, at its place.  No     *)
(* operand, branch or statement is lost, doubled or swapped.               *)
TreeReadsLikeText ==
  status = "done" => Len(values) = 1 /\ Behind(Text(top), 1) = Len(tokens)

(* In the tree of an accepted file operators bind by the levels of the     *)
(* functions that read them, from left to right, and nothing follows a     *)
(* rest parameter or an ellipsis.                                          *)
Precedence == status = "done" => Everywhere(Groups, top)

(* The parser accepts the programs of the grammar and nothing else, and    *)
(* exits at the first token no program goes on with, never at one before.  *)
Recognises ==
  /\ status = "done" => ProgramBegins(Len(tokens))
  /\ status = "failed" => ProgramBegins(at - 1) /\ ~ProgramBegins(at)

(* Parsing ends, whatever the tokens are. *)
ParseEnds == <>(status # "running")
=============================================================================
