------------------------------ MODULE Literals ------------------------------
(***************************************************************************)
(* create_string() of parser.c: the text of a token that scan() found to   *)
(* be a string, without its quotes, goes through escape_string().          *)
(*                                                                         *)
(* The files are scanned as in Scanner.  The strings of the last one are   *)
(* then copied in order, as the parser comes to them.                      *)
(***************************************************************************)
EXTENDS Scanner

VARIABLES original, i, str, pos, last, done,   \* escape_string()
          next                                 \* the index of current_token

literals == <<original, i, str, pos, last, done, next>>

Meaning == {"\\", "n", "\n"}

ASSUME MeaningAssumption == NUL \notin Meaning

E == INSTANCE Escape WITH
       Others <- Characters \ Meaning, Backslash <- "\\", N <- "n",
       Newline <- "\n", Nul <- NUL

LiteralsInit == Init /\ next = 1 /\ E!Start(<<>>)

(* What is between the quotes. *)
Inside(token) == SubSeq(source, token.start + 1, token.start + token.length - 2)

(* The strings of the tokens not yet parsed. *)
Strings == {k \in next .. Len(tokens) : tokens[k].type = "STRING"}

create_string ==
  /\ ~scanning /\ done
  /\ \E k \in Strings :
       /\ \A j \in Strings : k <= j
       /\ next' = k + 1
       /\ original' = Inside(tokens[k])
       /\ str' = [j \in 1 .. Len(Inside(tokens[k])) + 1 |-> NUL]
  /\ i' = 0 /\ pos' = 0 /\ last' = NUL /\ done' = FALSE
  /\ UNCHANGED vars

escape_string == E!Next /\ UNCHANGED <<vars, next>>

(* A file is scanned when all strings of the one before have been copied.  *)
scan_file ==
  /\ done /\ Strings = {}
  /\ scan /\ next' = 1
  /\ UNCHANGED <<original, i, str, pos, last, done>>

scan_next == scan_token /\ UNCHANGED literals

LiteralsNext == scan_file \/ scan_next \/ create_string \/ escape_string

(* The compiler runs on until every string of the file is copied. *)
LiteralsSpec ==
  LiteralsInit /\ [][LiteralsNext]_<<vars, literals>>
    /\ WF_<<vars, literals>>(scan_next \/ create_string \/ escape_string)
-----------------------------------------------------------------------------
(* escape_string() writes nothing before or behind its copy, of whatever   *)
(* the scanner takes for a string, and the copy is what stands between the *)
(* quotes, with a newline for every backslash that an n follows            *)
(* (parser.c:242-266).                                                     *)
Unescaped == E!TypeOK /\ E!Unescaped
=============================================================================
