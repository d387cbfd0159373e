----------------------------- MODULE MCScanner -----------------------------
(* A file of up to MaxLength characters over an alphabet with one or two   *)
(* of each kind, or of up to MaxNumeric over the smaller alphabet of       *)
(* signs, digits and dots, where the scanner looks ahead and back, or of   *)
(* up to MaxQuoted over that of quotes and escapes; and then one of up to  *)
(* two signs, digits and dots.                                             *)
EXTENDS Literals

CONSTANTS MaxLength, Alphabet, MaxNumeric, Numeric, MaxQuoted, Quoted

UpTo(n, S) == UNION {[1 .. k -> S] : k \in 0 .. n}
MCSources == <<UpTo(MaxLength, Alphabet) \cup UpTo(MaxNumeric, Numeric)
                 \cup UpTo(MaxQuoted, Quoted), UpTo(2, Numeric)>>
MCAlphabet == {"i", "f", "1", "_", " ", quote, "=", "-", ">", "&"}
MCQuoted == {quote, "\\", "n"}
MCKeywords == {<<<<"i", "f">>, "IF">>}
=============================================================================
