------------------------------ MODULE Scanner ------------------------------
(***************************************************************************)
(* token.c: scan() cuts a source into tokens, ending with an EOF token.    *)
(*                                                                         *)
(* A character is a one-character string; the source ends with NUL.  The   *)
(* line and column of a token are left out: nothing reads them.            *)
(***************************************************************************)
EXTENDS Integers, Sequences, FiniteSets

CONSTANTS Letters, Digits, Spaces,
          Keywords,   \* pairs of a word, a sequence of characters, and its type
          NUL,
          MaxFiles,   \* bound on the files scanned one after the other
          Sources     \* what each of them may hold, without its NUL

(* '{' and the other characters of the switch of scan_token. *)
Single == {<<"{", "LEFT_BRACE">>, <<"}", "RIGHT_BRACE">>,
           <<"[", "LEFT_BRACKET">>, <<"]", "RIGHT_BRACKET">>,
           <<"(", "LEFT_PAREN">>, <<")", "RIGHT_PAREN">>,
           <<":", "COLON">>, <<";", "SEMICOLON">>, <<",", "COMMA">>,
           <<".", "DOT">>, <<"=", "EQUAL">>, <<"+", "PLUS">>,
           <<"-", "MINUS">>, <<"*", "STAR">>, <<"/", "SLASH">>,
           <<"%", "PERCENT">>, <<"<", "LESS_THAN">>, <<">", "GREATER_THAN">>}

(* The characters that look at the next one. *)
Double == {<<":", ":", "DOUBLE_COLON">>, <<"!", "=", "NOT_EQUAL">>,
           <<"=", "=", "DOUBLE_EQUAL">>, <<"&", "&", "LOGICAL_AND">>,
           <<"|", "|", "LOGICAL_OR">>, <<"-", ">", "ARROW">>,
           <<"<", "=", "LESS_THAN_OR_EQUAL">>,
           <<">", "=", "GREATER_THAN_OR_EQUAL">>}

quote == "\""
Alphanumeric == Letters \cup Digits \cup {"_"}
Symbols == {quote, "!", "&", "|", "\\"} \cup {p[1] : p \in Single}
Characters == Alphanumeric \cup Spaces \cup Symbols

(* As isalpha, isdigit and isspace have it; keywords are words. *)
ASSUME CharactersAssumption ==
  /\ \A f \in 1 .. MaxFiles : Sources[f] \subseteq Seq(Characters)
  /\ NUL \notin Characters
  /\ Letters \cap Digits = {} /\ Spaces \cap (Letters \cup Digits) = {}
  /\ (Letters \cup Digits \cup Spaces) \cap (Symbols \cup {"_"}) = {}
  /\ \A w \in Keywords : /\ w[1] \in Seq(Letters)
                         /\ w[2] \notin {"EOF", "ERROR", "NUMBER", "STRING"}
  /\ MaxFiles \in Nat

VARIABLES source, current,   \* the scanner
          tokens,            \* the list scan() fills
          prev_token_type,   \* a static variable, kept from file to file
          files, scanning

vars == <<source, current, tokens, prev_token_type, files, scanning>>

(* TOKEN_ARROW is the enumerator 0 a static variable starts with. *)
Init ==
  /\ source = <<NUL>> /\ current = 1 /\ tokens = <<>>
  /\ prev_token_type = "ARROW"
  /\ files = 0 /\ scanning = FALSE

(* scan() of the next file. *)
scan ==
  /\ ~scanning /\ files < MaxFiles
  /\ \E s \in Sources[files + 1] : source' = Append(s, NUL)
  /\ current' = 1 /\ tokens' = <<>>
  /\ files' = files + 1 /\ scanning' = TRUE
  /\ UNCHANGED prev_token_type

(* Where a loop over the characters of S that starts at k stops.           *)
Skip(S, k) == CHOOSE j \in k .. Len(source) :
                /\ source[j] \notin S
                /\ \A i \in k .. j - 1 : source[i] \in S

skip_whitespace == Skip(Spaces, current)

Text(k, end) == SubSeq(source, k, end - 1)
Lexeme(type, end) == [type |-> type, end |-> end]

scan_identifier(start) ==
  LET end  == Skip(Alphanumeric, start + 1)
      type == {k[2] : k \in {w \in Keywords : w[1] = Text(start, end)}}
  IN  Lexeme(IF type = {} THEN "IDENTIFIER" ELSE CHOOSE t \in type : TRUE, end)

(* Digits, and behind a point more digits or none. *)
scan_number(start) ==
  LET whole == Skip(Digits, start + 1)
  IN  Lexeme("NUMBER", IF source[whole] = "."
                       THEN Skip(Digits, whole + 1) ELSE whole)

(* Mutant: the end of the file is taken for the closing quote. *)
StringPastEnd(start) ==
  LET end == Skip(Characters \ {quote}, start + 1)
  IN  Lexeme("STRING", end + 1)

(* A string that is not closed is an error as long as the file.            *)
scan_string(start) ==
  LET end == Skip(Characters \ {quote}, start + 1)
  IN  IF source[end] = quote THEN Lexeme("STRING", end + 1)
                             ELSE Lexeme("ERROR", end)

(* Mutant: the switch tests the single characters first. *)
SingleFirst(start) ==
  LET c      == source[start]
      single == {p \in Single : p[1] = c}
      double == {p \in Double : p[1] = c /\ p[2] = source[start + 1]}
  IN  CASE c = "." /\ source[start + 1] = "." /\ source[start + 2] = "." ->
             Lexeme("TRIPLE_DOT", start + 3)
        [] single # {} -> Lexeme((CHOOSE p \in single : TRUE)[2], start + 1)
        [] single = {} /\ double # {} ->
             Lexeme((CHOOSE p \in double : TRUE)[3], start + 2)
        [] OTHER -> Lexeme("ERROR", start + 1)

(* The switch: raw[1] and raw[2] are read only where the character before  *)
(* is not the last one.                                                    *)
scan_symbol(start) ==
  LET c      == source[start]
      double == {p \in Double : p[1] = c /\ p[2] = source[start + 1]}
      single == {p \in Single : p[1] = c}
      dots   == c = "." /\ source[start + 1] = "." /\ source[start + 2] = "."
  IN  CASE dots -> Lexeme("TRIPLE_DOT", start + 3)
        [] double # {} -> Lexeme((CHOOSE p \in double : TRUE)[3], start + 2)
        [] ~dots /\ double = {} /\ single # {} ->
             Lexeme((CHOOSE p \in single : TRUE)[2], start + 1)
        [] OTHER -> Lexeme("ERROR", start + 1)

(* A minus sign directly before a digit belongs to the number, unless the  *)
(* token before is itself a number.                                        *)
Signed(start) == /\ source[start] = "-" /\ source[start + 1] \in Digits
                 /\ prev_token_type # "NUMBER"

LexemeAt(start) ==
  LET c == source[start]
  IN  IF c = NUL THEN Lexeme("EOF", start + 1)
      ELSE IF c \in Letters \cup {"_"} THEN scan_identifier(start)
      ELSE IF c \in Digits \/ Signed(start) THEN scan_number(start)
      ELSE IF c = quote THEN scan_string(start)
      ELSE scan_symbol(start)

TokenOf(start, found) ==
  [type |-> found.type, start |-> start, length |-> found.end - start]

list_add(token) == Append(tokens, token)

(* Mutant: the scanner does not get past an unknown character. *)
StaysOnError ==
  /\ scanning
  /\ LET start == skip_whitespace
         found == LexemeAt(start)
     IN  /\ found.type # "ERROR"
         /\ tokens' = list_add(TokenOf(start, found))
         /\ current' = found.end
         /\ prev_token_type' = found.type
         /\ scanning' = (found.type # "EOF")
  /\ UNCHANGED <<source, files>>

(* The next token; the end of the file is the last one. *)
scan_token ==
  /\ scanning
  /\ LET start == skip_whitespace
         found == LexemeAt(start)
     IN  /\ tokens' = list_add(TokenOf(start, found))
         /\ current' = found.end
         /\ prev_token_type' = found.type
         /\ scanning' = (found.type # "EOF")
  /\ UNCHANGED <<source, files>>

Next == scan \/ scan_token

(* scan() runs on until it has seen the end of the file.                   *)
Spec == Init /\ [][Next]_vars /\ WF_vars(scan_token)
-----------------------------------------------------------------------------
(* The tokens lie in the source in order, without overlap, and only white  *)
(* space is left between them: no character of a program is lost.  The     *)
(* last ends at the NUL: no token is started behind it, and none but EOF   *)
(* takes it in (token.c:102-115, 279-290).                                 *)
Tiles ==
  /\ scanning => current <= Len(source)
  /\ \A k \in DOMAIN tokens :
       LET before == IF k = 1 THEN 1 ELSE tokens[k - 1].start + tokens[k - 1].length
           end    == tokens[k].start + tokens[k].length
       IN  /\ before <= tokens[k].start
           /\ \A i \in before .. tokens[k].start - 1 : source[i] \in Spaces
           /\ end <= Len(source) + (IF tokens[k].type = "EOF" THEN 1 ELSE 0)

(* What a token of each type may look like, given the type before it.      *)
Spelled(text, before) ==
  LET n == Len(text)
      unsigned == IF text[1] = "-" /\ n > 1 THEN Tail(text) ELSE text
  IN  {k[2] : k \in {w \in Keywords : w[1] = text}} \cup
      {p[2] : p \in {q \in Single : <<q[1]>> = text}} \cup
      {p[3] : p \in {q \in Double : <<q[1], q[2]>> = text}} \cup
      (IF text = <<".", ".", ".">> THEN {"TRIPLE_DOT"} ELSE {}) \cup
      (IF /\ text[1] \notin Digits
          /\ \A i \in 1 .. n : text[i] \in Alphanumeric
          /\ \A w \in Keywords : w[1] # text
       THEN {"IDENTIFIER"} ELSE {}) \cup
      (IF /\ text[1] = "-" => before # "NUMBER"
          /\ unsigned[1] \in Digits
          /\ \A i \in DOMAIN unsigned : unsigned[i] \in Digits \cup {"."}
          /\ Cardinality({i \in DOMAIN unsigned : unsigned[i] = "."}) <= 1
       THEN {"NUMBER"} ELSE {}) \cup
      (IF /\ n > 1 /\ text[1] = quote /\ text[n] = quote
          /\ \A i \in 2 .. n - 1 : text[i] # quote
       THEN {"STRING"} ELSE {})

(* Each token, as it is added, is the longest one that starts where it     *)
(* does, and an error only where none starts: operators, keywords and the  *)
(* signs of numbers are told apart by what surrounds them.  Nothing is     *)
(* before the first token of a file: what the static prev_token_type holds *)
(* of the file before does not matter (token.c:151).                       *)
LongestMatch ==
  tokens # <<>> /\ prev_token_type # "EOF" =>
    LET k      == Len(tokens)
        t      == tokens[k]
        before == IF k = 1 THEN "EOF" ELSE tokens[k - 1].type
        spelled(n) == Spelled(SubSeq(source, t.start, t.start + n - 1), before)
    IN  /\ \A n \in t.length + 1 .. Len(source) - t.start : spelled(n) = {}
        /\ IF t.type = "ERROR"
           THEN \A n \in 1 .. t.length : spelled(n) = {}
           ELSE t.type \in spelled(t.length)

(* Every file is scanned to its end. *)
ScanEnds == scanning ~> ~scanning
=============================================================================
