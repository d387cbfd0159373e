------------------------------ MODULE MCParser ------------------------------
(* The texts of the run: of the tokens of expressions, with one operator   *)
(* of every level, of declarations, of parameter lists, of statements and  *)
(* of matches, each as long as its constructs need.                        *)
EXTENDS Grammar

Some(kinds, most) == [kinds |-> kinds, most |-> most]

MCTexts == {
  Some({"identifier", "(", ")", "[", "]", ",", "::", "*", "+", "==", "&&", "||", ";"}, 6),
  Some({"identifier", "fun", "extern", "import", "string", "(", ")", ":", "*", "{", "}",
        ";"}, 7),
  Some({"identifier", "fun", "(", ")", ":", "...", ",", "{", "}"}, 11),
  Some({"identifier", "while", "if", "else", "return", "{", "}", ";", "=", ":", "[", "]"}, 7),
  Some({"identifier", "match", "{", "}", "->", ";"}, 9)}
=============================================================================
