------------------------------- MODULE Escape -------------------------------
(***************************************************************************)
(* escape_string() of parser.c: the text between the quotes of a string    *)
(* token, copied character by character, with a newline for every          *)
(* backslash that an n follows.                                            *)
(***************************************************************************)
EXTENDS Integers, Sequences

CONSTANTS Others,     \* the characters that mean nothing here
          Backslash, N, Newline, Nul

(* What the theorems assume of the characters. *)
CharactersDiffer ==
  /\ {Backslash, N, Newline, Nul} \cap Others = {}
  /\ Backslash # N /\ Newline \notin {Backslash, N} /\ Nul \notin {Backslash, N}

VARIABLES original,  \* the text
          i,         \* how much of it was read
          str,       \* the copy, of which pos characters are written
          pos,
          last,      \* the last character read
          done

vars == <<original, i, str, pos, last, done>>

(* A newline may stand in the source between the quotes. *)
Characters == Others \cup {Backslash, N, Newline}

(* What malloc() gives is arbitrary; a character that was never written is *)
(* Nul here.                                                               *)
Start(text) ==
  /\ original = text
  /\ str = [k \in 1 .. Len(text) + 1 |-> Nul]
  /\ i = 0 /\ pos = 0 /\ last = Nul /\ done = FALSE

Init == \E text \in Seq(Characters) : Start(text)

current == original[i + 1]

IsEscape == last = Backslash /\ current = N

(* Mutant: the newline comes behind the backslash. *)
Behind ==
  /\ i < Len(original) /\ IsEscape
  /\ str' = [str EXCEPT ![pos + 1] = Newline] /\ pos' = pos + 1
  /\ i' = i + 1 /\ last' = current
  /\ UNCHANGED <<original, done>>

(* The newline takes the place of the backslash. *)
escape ==
  /\ i < Len(original) /\ IsEscape
  /\ str' = [str EXCEPT ![pos] = Newline] /\ UNCHANGED pos
  /\ i' = i + 1 /\ last' = current
  /\ UNCHANGED <<original, done>>

copy ==
  /\ i < Len(original) /\ ~IsEscape
  /\ str' = [str EXCEPT ![pos + 1] = current] /\ pos' = pos + 1
  /\ i' = i + 1 /\ last' = current
  /\ UNCHANGED <<original, done>>

return ==
  /\ i = Len(original) /\ ~done
  /\ done' = TRUE
  /\ UNCHANGED <<original, i, str, pos, last>>

Next == escape \/ copy \/ return

Spec == Init /\ [][Next]_vars
-----------------------------------------------------------------------------
(* The copy is never written before its first character or behind its      *)
(* last: pos - 1 is an index when a newline is due.                        *)
TypeOK ==
  /\ original \in Seq(Characters) /\ i \in 0 .. Len(original)
  /\ str \in [1 .. Len(original) + 1 -> Characters \cup {Nul}]
  /\ pos \in 0 .. i
  /\ last \in Characters \cup {Nul} /\ done \in BOOLEAN
  /\ last = Backslash => pos > 0

(* No backslash of the copy has an n behind it. *)
NoEscapeLeft ==
  \A k \in 1 .. pos - 1 : ~(str[k] = Backslash /\ str[k + 1] = N)

(* The copy is the text in which every backslash that an n follows is gone *)
(* and the n is a newline.  Kept are the places of what is not gone.       *)
Escapes(text, k) == k < Len(text) /\ text[k] = Backslash /\ text[k + 1] = N
Kept(text) ==
  LET kept[k \in 0 .. Len(text)] ==
        IF k = 0 THEN <<>>
        ELSE IF Escapes(text, k) THEN kept[k - 1] ELSE Append(kept[k - 1], k)
  IN  kept
Means(text, k) == IF k > 1 /\ Escapes(text, k - 1) THEN Newline ELSE text[k]
Unescaped ==
  done => LET kept == Kept(original)[Len(original)]
          IN  pos = Len(kept) /\ \A k \in 1 .. pos : str[k] = Means(original, kept[k])
=============================================================================
