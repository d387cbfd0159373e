--------------------------- MODULE LiteralsProofs ---------------------------
(***************************************************************************)
(* That scan() loses no character of a file and takes the longest token    *)
(* there is, and that escape_string() copies what it should, for files of  *)
(* any length over any characters.                                         *)
(***************************************************************************)
EXTENDS Literals, FiniteSetTheorems, SequenceTheorems, WellFoundedInduction, TLAPS

(* A set of numbers that is not empty has a least element. *)
LEMMA Least == ASSUME NEW T \in SUBSET Nat, T # {}
               PROVE \E x \in T : \A y \in T : x <= y
<1> DEFINE R == OpToRel(<, Nat)
<1>1. IsWellFoundedOn(R, Nat)
  BY NatLessThanWellFounded
<1>2. PICK x \in T : \A y \in T : ~(<<y, x>> \in R)
  <2> HIDE DEF R
  <2> QED
    BY <1>1, WFMin
<1>3. \A y \in T : ~(y < x)
  BY <1>2 DEF OpToRel
<1> QED
  BY <1>3

(* What holds of 0 and is passed on to the next number holds of all. *)
LEMMA Induction ==
  ASSUME NEW T \in SUBSET Nat, 0 \in T, \A n \in T : n + 1 \in T
  PROVE T = Nat
<1> SUFFICES ASSUME Nat \ T # {} PROVE FALSE
  OBVIOUS
<1>1. PICK x \in Nat \ T : \A y \in Nat \ T : x <= y
  <2> DEFINE U == Nat \ T
  <2>1. U \in SUBSET Nat /\ U # {}
    OBVIOUS
  <2> HIDE DEF U
  <2>2. \E x \in U : \A y \in U : x <= y
    BY <2>1, Least
  <2> QED
    BY <2>2 DEF U
<1>2. x # 0 /\ x - 1 \in Nat /\ x - 1 \in T
  BY <1>1
<1> QED
  BY <1>1, <1>2

(* A source is a text with a NUL behind it, and nowhere else.              *)
Ends(s) == /\ s \in Seq(Characters \cup {NUL}) /\ Len(s) \in Nat \ {0}
           /\ \A k \in 1 .. Len(s) : s[k] = NUL <=> k = Len(s)

(* A loop over a class of characters stops: NUL is in none. *)
LEMMA SkipStops ==
  ASSUME Ends(source), NEW S, NUL \notin S, NEW k \in 1 .. Len(source)
  PROVE /\ Skip(S, k) \in k .. Len(source) /\ source[Skip(S, k)] \notin S
        /\ \A j \in k .. Skip(S, k) - 1 : source[j] \in S
<1> DEFINE T == {j \in k .. Len(source) : source[j] \notin S}
<1>1. T \in SUBSET Nat /\ Len(source) \in T
  BY DEF Ends
<1>2. PICK x \in T : \A y \in T : x <= y
  <2> HIDE DEF T
  <2> QED
    BY <1>1, Least
<1>3. x \in k .. Len(source) /\ source[x] \notin S /\ \A j \in k .. x - 1 : source[j] \in S
  BY <1>2 DEF Ends
<1> QED
  BY <1>3 DEF Skip

(* What starts and what ends a symbol, and what no symbol is called. *)
Reserved == {"EOF", "ERROR", "NUMBER", "STRING"}

(* A symbol of one character. *)
LEMMA SingleIs ==
  ASSUME NEW p \in Single PROVE p[1] \in Symbols /\ p[1] # quote /\ p[2] \notin Reserved
<1>1. \A q \in Single : \E a, b : q = <<a, b>>
  BY Zenon DEF Single
<1>2. PICK a, b : p = <<a, b>>
  BY <1>1
<1>3. p[1] = a /\ p[2] = b
  BY <1>2
<1>4. \A c, d : <<c, d>> \in Single => c # quote /\ d \notin Reserved
  BY DEF Single, quote, Reserved
<1>5. p[1] \in Symbols
  BY DEF Symbols
<1> QED
  BY <1>2, <1>3, <1>4, <1>5

(* A symbol of two characters: none begins with a point. *)
LEMMA DoubleIs ==
  ASSUME NEW p \in Double
  PROVE /\ p[1] \in Symbols /\ p[1] # quote /\ p[1] # "."
        /\ p[2] \in Symbols /\ p[3] \notin Reserved
<1> DEFINE Chars == {"!", "&", "|", ":", "=", "-", ">", "<"}
<1>1. \A q \in Double : \E a, b, c : q = <<a, b, c>>
  BY Zenon DEF Double
<1>2. PICK a, b, c : p = <<a, b, c>>
  BY <1>1
<1>3. p[1] = a /\ p[2] = b /\ p[3] = c
  BY <1>2
<1>4. \A d, e, f : <<d, e, f>> \in Double =>
         d \in Chars /\ e \in Chars /\ f \notin Reserved
  BY DEF Double, Reserved
<1>5. /\ <<":", "COLON">> \in Single /\ <<"=", "EQUAL">> \in Single
      /\ <<"-", "MINUS">> \in Single /\ <<">", "GREATER_THAN">> \in Single
      /\ <<"<", "LESS_THAN">> \in Single
  BY DEF Single
<1>6. Chars \subseteq Symbols
  <2>1. \A d, e : <<d, e>> \in Single => d \in {q[1] : q \in Single}
    OBVIOUS
  <2>2. {":", "=", "-", ">", "<"} \subseteq {q[1] : q \in Single}
    BY <1>5, <2>1
  <2> QED
    BY <2>2 DEF Symbols
<1>7. quote \notin Chars /\ "." \notin Chars
  BY DEF quote
<1> HIDE DEF Chars
<1> QED
  BY <1>2, <1>3, <1>4, <1>6, <1>7

(* A text of n characters that starts in the source at s. *)
Part(s, n) == SubSeq(source, s, s + n - 1)

(* A part of the source in front of the NUL. *)
LEMMA PartIs ==
  ASSUME Ends(source), NEW s \in 1 .. Len(source), NEW n \in 1 .. Len(source) - s
  PROVE /\ Part(s, n) \in Seq(Characters) /\ Len(Part(s, n)) = n
        /\ \A k \in 1 .. n : /\ Part(s, n)[k] = source[s + k - 1]
                             /\ source[s + k - 1] \in Characters
<1>1. Len(source) \in Nat
  BY DEF Ends
<1>2. /\ Len(Part(s, n)) = n /\ \A k \in 1 .. n : Part(s, n)[k] = source[s + k - 1]
  BY <1>1, SubSeqProperties DEF Ends, Part
<1>3. \A k \in 1 .. n : source[s + k - 1] \in Characters
  <2> TAKE k \in 1 .. n
  <2>1. s + k - 1 \in 1 .. Len(source) /\ s + k - 1 # Len(source)
    BY <1>1
  <2> QED
    BY <2>1 DEF Ends
<1>4. Part(s, n) \in Seq(Characters)
  <2>1. Part(s, n) \in Seq(Characters \cup {NUL})
    BY <1>1, SubSeqProperties DEF Ends, Part
  <2>2. Part(s, n) \in [1 .. n -> Characters]
    BY <2>1, <1>2, <1>3, LenProperties
  <2> QED
    BY <2>2, SeqDef
<1> QED
  BY <1>2, <1>3, <1>4
(* The tokens that Spelled says a text may be. *)
IsKeyword(x) == \E w \in Keywords : w[1] = x
IsSingle(x) == \E p \in Single : <<p[1]>> = x
IsDouble(x) == \E p \in Double : <<p[1], p[2]>> = x
IsDots(x) == x = <<".", ".", ".">>
IsWord(x) == x[1] \notin Digits /\ \A k \in 1 .. Len(x) : x[k] \in Alphanumeric
Unsigned(x) == IF x[1] = "-" /\ Len(x) > 1 THEN Tail(x) ELSE x
Dots(x) == {k \in DOMAIN x : x[k] = "."}
IsNumber(x, before) ==
  /\ x[1] = "-" => before # "NUMBER"
  /\ Unsigned(x)[1] \in Digits
  /\ \A k \in DOMAIN Unsigned(x) : Unsigned(x)[k] \in Digits \cup {"."}
  /\ Cardinality(Dots(Unsigned(x))) <= 1
IsString(x) ==
  /\ Len(x) > 1 /\ x[1] = quote /\ x[Len(x)] = quote
  /\ \A k \in 2 .. Len(x) - 1 : x[k] # quote

(* A text is spelled like nothing if it is like none of them ... *)
LEMMA SpelledNothing ==
  ASSUME NEW x, NEW before, ~IsKeyword(x), ~IsSingle(x), ~IsDouble(x), ~IsDots(x),
         ~IsWord(x), ~IsNumber(x, before), ~IsString(x)
  PROVE Spelled(x, before) = {}
<1>1. /\ {w \in Keywords : w[1] = x} = {} /\ {q \in Single : <<q[1]>> = x} = {}
      /\ {q \in Double : <<q[1], q[2]>> = x} = {}
  BY DEF IsKeyword, IsSingle, IsDouble
<1>2. x # <<".", ".", ".">>
  BY DEF IsDots
<1>3. ~(x[1] \notin Digits /\ \A k \in 1 .. Len(x) : x[k] \in Alphanumeric)
  BY DEF IsWord
<1>4. ~(/\ Len(x) > 1 /\ x[1] = quote /\ x[Len(x)] = quote
        /\ \A k \in 2 .. Len(x) - 1 : x[k] # quote)
  BY DEF IsString
<1> DEFINE u == IF x[1] = "-" /\ Len(x) > 1 THEN Tail(x) ELSE x
<1>5. ~(/\ x[1] = "-" => before # "NUMBER"
        /\ u[1] \in Digits
        /\ \A k \in DOMAIN u : u[k] \in Digits \cup {"."}
        /\ Cardinality({k \in DOMAIN u : u[k] = "."}) <= 1)
  BY DEF IsNumber, Unsigned, Dots
<1> HIDE DEF u
<1> SUFFICES
    ({k[2] : k \in {w \in Keywords : w[1] = x}} \cup
     {p[2] : p \in {q \in Single : <<q[1]>> = x}} \cup
     {p[3] : p \in {q \in Double : <<q[1], q[2]>> = x}} \cup
     {} \cup {} \cup {} \cup {}) = {}
  BY <1>2, <1>3, <1>4, <1>5 DEF Spelled, u
<1> QED
  BY <1>1

(* ... and each of them has its type. *)
LEMMA SpelledAs ==
  ASSUME NEW x, NEW before
  PROVE /\ \A w \in Keywords : w[1] = x => w[2] \in Spelled(x, before)
        /\ \A p \in Single : <<p[1]>> = x => p[2] \in Spelled(x, before)
        /\ \A p \in Double : <<p[1], p[2]>> = x => p[3] \in Spelled(x, before)
        /\ IsDots(x) => "TRIPLE_DOT" \in Spelled(x, before)
        /\ IsWord(x) /\ ~IsKeyword(x) => "IDENTIFIER" \in Spelled(x, before)
        /\ IsNumber(x, before) => "NUMBER" \in Spelled(x, before)
        /\ IsString(x) => "STRING" \in Spelled(x, before)
<1>1. \A w \in Keywords : w[1] = x => w[2] \in Spelled(x, before)
  BY DEF Spelled
<1>2. \A p \in Single : <<p[1]>> = x => p[2] \in Spelled(x, before)
  BY DEF Spelled
<1>3. \A p \in Double : <<p[1], p[2]>> = x => p[3] \in Spelled(x, before)
  BY DEF Spelled
<1>4. IsDots(x) => "TRIPLE_DOT" \in Spelled(x, before)
  BY DEF Spelled, IsDots
<1>5. IsWord(x) /\ ~IsKeyword(x) => "IDENTIFIER" \in Spelled(x, before)
  BY DEF Spelled, IsWord, IsKeyword
<1>6. IsNumber(x, before) => "NUMBER" \in Spelled(x, before)
  BY DEF Spelled, IsNumber, Unsigned, Dots
<1>7. IsString(x) => "STRING" \in Spelled(x, before)
  BY DEF Spelled, IsString
<1> QED
  BY <1>1, <1>2, <1>3, <1>4, <1>5, <1>6, <1>7

(* A text of one, two or three characters is the tuple of them. *)
LEMMA TupleIs ==
  ASSUME NEW S, NEW x \in Seq(S)
  PROVE /\ Len(x) = 1 => x = <<x[1]>>
        /\ Len(x) = 2 => x = <<x[1], x[2]>>
        /\ Len(x) = 3 => x = <<x[1], x[2], x[3]>>
<1>1. x \in [1 .. Len(x) -> S] /\ Len(x) \in Nat
  BY LenProperties
<1>2. ASSUME Len(x) = 1 PROVE x = <<x[1]>>
  BY <1>1, <1>2
<1>3. ASSUME Len(x) = 2 PROVE x = <<x[1], x[2]>>
  BY <1>1, <1>3
<1>4. ASSUME Len(x) = 3 PROVE x = <<x[1], x[2], x[3]>>
  BY <1>1, <1>4
<1> QED
  BY <1>2, <1>3, <1>4

(* What the tokens say of the source, for a text of n characters at s. *)
Reads(s, n, x) ==
  /\ IsKeyword(x) => \A k \in 0 .. n - 1 : source[s + k] \in Letters
  /\ IsWord(x) <=> /\ source[s] \notin Digits
                   /\ \A k \in 0 .. n - 1 : source[s + k] \in Alphanumeric
  /\ IsDots(x) <=> n = 3 /\ source[s] = "." /\ source[s + 1] = "." /\ source[s + 2] = "."
  /\ \A p \in Single : <<p[1]>> = x <=> n = 1 /\ p[1] = source[s]
  /\ \A p \in Double :
       <<p[1], p[2]>> = x <=> n = 2 /\ p[1] = source[s] /\ p[2] = source[s + 1]
  /\ IsString(x) <=> /\ n > 1 /\ source[s] = quote /\ source[s + n - 1] = quote
                     /\ \A k \in 1 .. n - 2 : source[s + k] # quote

(* A text that was read from the source is of a kind if the source says so. *)
LEMMA Kinds ==
  ASSUME NEW s \in Nat, NEW n \in Nat \ {0}, NEW x \in Seq(Characters),
         Len(x) = n, \A k \in 1 .. n : x[k] = source[s + k - 1]
  PROVE Reads(s, n, x)
<1>1. \A k, j : k \in 1 .. n /\ j = s + k - 1 => x[k] = source[j]
  OBVIOUS
<1>2. \A k \in 0 .. n - 1 : x[k + 1] = source[s + k] /\ k + 1 \in 1 .. n
  BY <1>1
<1>3. x[1] = source[s]
  BY <1>1
<1>4. ASSUME IsKeyword(x) PROVE \A k \in 0 .. n - 1 : source[s + k] \in Letters
  <2>1. x \in Seq(Letters)
    BY <1>4, CharactersAssumption DEF IsKeyword
  <2>2. \A k \in 1 .. n : x[k] \in Letters
    BY <2>1, <1>1, ElementOfSeq
  <2> QED
    BY <2>2, <1>2
<1>5. IsWord(x) <=> /\ source[s] \notin Digits
                    /\ \A k \in 0 .. n - 1 : source[s + k] \in Alphanumeric
  <2>1. (\A k \in 1 .. n : x[k] \in Alphanumeric)
          <=> (\A k \in 0 .. n - 1 : source[s + k] \in Alphanumeric)
    <3>1. \A k \in 1 .. n : k - 1 \in 0 .. n - 1 /\ x[k] = source[s + (k - 1)]
      BY <1>1
    <3> QED
      BY <3>1, <1>2
  <2> QED
    BY <2>1, <1>1, <1>3 DEF IsWord
<1>6. (n = 2 => x[2] = source[s + 1]) /\ (n = 3 => x[2] = source[s + 1] /\ x[3] = source[s + 2])
  BY <1>1
<1>7. /\ Len(x) = 1 => x = <<x[1]>>
      /\ Len(x) = 2 => x = <<x[1], x[2]>>
      /\ Len(x) = 3 => x = <<x[1], x[2], x[3]>>
  BY TupleIs, Zenon
<1>8. ASSUME Len(x) = 3 PROVE x = <<x[1], x[2], x[3]>>
  <2>1. x \in [1 .. Len(x) -> Characters] /\ Len(x) \in Nat
    BY LenProperties
  <2> QED
    BY <1>8, <2>1
<1>9. IsDots(x) <=> n = 3 /\ source[s] = "." /\ source[s + 1] = "." /\ source[s + 2] = "."
  <2>1. <<".", ".", ".">> = x <=> Len(x) = 3 /\ "." = x[1] /\ "." = x[2] /\ "." = x[3]
    <3>1. ASSUME Len(x) = 3, "." = x[1], "." = x[2], "." = x[3] PROVE <<".", ".", ".">> = x
      <4>1. x = <<x[1], x[2], x[3]>>
        BY <1>8, <3>1
      <4> QED
        BY <4>1, <3>1, Zenon
    <3>2. ASSUME <<".", ".", ".">> = x
          PROVE Len(x) = 3 /\ "." = x[1] /\ "." = x[2] /\ "." = x[3]
      BY <3>2
    <3> QED
      BY <3>1, <3>2
  <2>2. <<".", ".", ".">> = x <=> IsDots(x)
    BY DEF IsDots
  <2> QED
    BY <2>1, <2>2, <1>3, <1>6
<1>10. \A p \in Single : <<p[1]>> = x <=> n = 1 /\ p[1] = source[s]
  <2> TAKE p \in Single
  <2>1. <<p[1]>> = x <=> n = 1 /\ p[1] = x[1]
    BY <1>7
  <2> QED
    BY <2>1, <1>3
<1>11. \A p \in Double :
         <<p[1], p[2]>> = x <=> n = 2 /\ p[1] = source[s] /\ p[2] = source[s + 1]
  <2> TAKE p \in Double
  <2>1. <<p[1], p[2]>> = x <=> Len(x) = 2 /\ p[1] = x[1] /\ p[2] = x[2]
    <3>1. ASSUME Len(x) = 2, p[1] = x[1], p[2] = x[2] PROVE <<p[1], p[2]>> = x
      <4>1. x = <<x[1], x[2]>>
        BY <1>7, <3>1
      <4> QED
        BY <4>1, <3>1, Zenon
    <3>2. ASSUME <<p[1], p[2]>> = x PROVE Len(x) = 2 /\ p[1] = x[1] /\ p[2] = x[2]
      BY <3>2
    <3> QED
      BY <3>1, <3>2
  <2> QED
    BY <2>1, <1>3, <1>6
<1>12. IsString(x) <=> /\ n > 1 /\ source[s] = quote /\ source[s + n - 1] = quote
                       /\ \A k \in 1 .. n - 2 : source[s + k] # quote
  <2>1. (\A k \in 2 .. n - 1 : x[k] # quote)
          <=> (\A k \in 1 .. n - 2 : source[s + k] # quote)
    <3>1. \A k \in 2 .. n - 1 : k - 1 \in 1 .. n - 2 /\ x[k] = source[s + (k - 1)]
      BY <1>1
    <3>2. \A k \in 1 .. n - 2 : k + 1 \in 2 .. n - 1 /\ x[k + 1] = source[s + k]
      BY <1>1
    <3> QED
      BY <3>1, <3>2
  <2>2. x[n] = source[s + n - 1]
    BY <1>1
  <2> QED
    BY <2>1, <2>2, <1>1, <1>3 DEF IsString
<1> QED
  BY <1>4, <1>5, <1>9, <1>10, <1>11, <1>12 DEF Reads

(* Digits and at most one point, a digit first: m characters of the source *)
(* at s.                                                                   *)
Numeric(s, m) ==
  /\ source[s] \in Digits
  /\ \A k \in 0 .. m - 1 : source[s + k] \in Digits \cup {"."}
  /\ \A j, k \in 0 .. m - 1 : source[s + j] = "." /\ source[s + k] = "." => j = k

(* The same, said of the text alone. *)
LEMMA NumericIs ==
  ASSUME NEW s \in Nat, NEW m \in Nat \ {0}, NEW u \in Seq(Characters),
         Len(u) = m, \A k \in 1 .. m : u[k] = source[s + k - 1]
  PROVE  Numeric(s, m) <=> /\ u[1] \in Digits
                           /\ \A k \in DOMAIN u : u[k] \in Digits \cup {"."}
                           /\ Cardinality(Dots(u)) <= 1
<1>1. DOMAIN u = 1 .. m
  BY LenProperties
<1>2. \A k \in 0 .. m - 1 : k + 1 \in 1 .. m /\ u[k + 1] = source[s + k]
  <2>1. \A k, j : k \in 1 .. m /\ j = s + k - 1 => u[k] = source[j]
    OBVIOUS
  <2> QED
    BY <2>1
<1>3. \A k \in 1 .. m : k - 1 \in 0 .. m - 1 /\ u[k] = source[s + (k - 1)]
  <2>1. \A k, j : k \in 1 .. m /\ j = s + k - 1 => u[k] = source[j]
    OBVIOUS
  <2> QED
    BY <2>1
<1>4. u[1] = source[s]
  BY <1>3
<1>5. (\A k \in 1 .. m : u[k] \in Digits \cup {"."})
        <=> (\A k \in 0 .. m - 1 : source[s + k] \in Digits \cup {"."})
  BY <1>2, <1>3
<1>6. IsFiniteSet(Dots(u)) /\ Cardinality(Dots(u)) \in Nat
  <2>1. IsFiniteSet(1 .. m) /\ Dots(u) \subseteq 1 .. m
    BY <1>1, FS_Interval DEF Dots
  <2> QED
    BY <2>1, FS_Subset, FS_CardinalityType
<1>7. ASSUME Cardinality(Dots(u)) <= 1
      PROVE  \A j, k \in 0 .. m - 1 : source[s + j] = "." /\ source[s + k] = "." => j = k
  <2> SUFFICES ASSUME NEW j \in 0 .. m - 1, NEW k \in 0 .. m - 1,
                      source[s + j] = ".", source[s + k] = "."
               PROVE  j = k
    OBVIOUS
  <2>1. j + 1 \in Dots(u) /\ k + 1 \in Dots(u)
    BY <1>1, <1>2 DEF Dots
  <2>2. Cardinality(Dots(u)) # 0
    BY <2>1, <1>6, FS_EmptySet
  <2>3. Cardinality(Dots(u)) = 1
    BY <2>2, <1>6, <1>7
  <2>4. PICK x : Dots(u) = {x}
    BY <2>3, <1>6, FS_Singleton
  <2>5. j + 1 = k + 1
    BY <2>1, <2>4
  <2> QED
    BY <2>5
<1>8. ASSUME \A j, k \in 0 .. m - 1 : source[s + j] = "." /\ source[s + k] = "." => j = k
      PROVE  Cardinality(Dots(u)) <= 1
  <2>1. CASE Dots(u) = {}
    BY <2>1, FS_EmptySet
  <2>2. CASE Dots(u) # {}
    <3>1. PICK x : x \in Dots(u)
      BY <2>2
    <3>2. ASSUME NEW y \in Dots(u) PROVE y = x
      <4>1. /\ x \in 1 .. m /\ y \in 1 .. m /\ u[x] = "." /\ u[y] = "."
        BY <1>1, <3>1 DEF Dots
      <4>2. x - 1 = y - 1
        BY <4>1, <1>3, <1>8
      <4> QED
        BY <4>1, <4>2
    <3>3. Dots(u) = {x}
      BY <3>1, <3>2
    <3>4. \A a : Cardinality({a}) = 1
      BY FS_Singleton
    <3>5. Cardinality(Dots(u)) = 1
      BY <3>3, <3>4
    <3> QED
      BY <3>5
  <2> QED
    BY <2>1, <2>2
<1> QED
  BY <1>1, <1>4, <1>5, <1>7, <1>8 DEF Numeric

(* A number is one of these, or one of these behind a minus sign. *)
LEMMA NumberIs ==
  ASSUME NEW s \in Nat, NEW n \in Nat \ {0}, NEW x \in Seq(Characters), NEW before,
         Len(x) = n, \A k \in 1 .. n : x[k] = source[s + k - 1]
  PROVE  IsNumber(x, before) <=>
           \/ source[s] # "-" /\ Numeric(s, n)
           \/ source[s] = "-" /\ before # "NUMBER" /\ n > 1 /\ Numeric(s + 1, n - 1)
<1>1. x[1] = source[s]
  <2>1. \A k, j : k \in 1 .. n /\ j = s + k - 1 => x[k] = source[j]
    OBVIOUS
  <2> QED
    BY <2>1
<1>2. CASE source[s] # "-"
  <2>1. Unsigned(x) = x
    BY <1>1, <1>2 DEF Unsigned
  <2> QED
    BY <2>1, <1>1, <1>2, NumericIs DEF IsNumber
<1>3. CASE source[s] = "-" /\ n > 1
  <2>1. Unsigned(x) = Tail(x) /\ x # <<>>
    BY <1>1, <1>3 DEF Unsigned
  <2>2. /\ Tail(x) \in Seq(Characters) /\ Len(Tail(x)) = n - 1
        /\ \A k \in 1 .. n - 1 : Tail(x)[k] = x[k + 1]
    BY <2>1, HeadTailProperties
  <2>3. \A k \in 1 .. n - 1 : Tail(x)[k] = source[(s + 1) + k - 1]
    <3>1. \A k, j : k \in 1 .. n /\ j = s + k - 1 => x[k] = source[j]
      OBVIOUS
    <3>2. \A k \in 1 .. n - 1 : k + 1 \in 1 .. n /\ (s + 1) + k - 1 = s + (k + 1) - 1
      OBVIOUS
    <3> QED
      BY <3>1, <3>2, <2>2
  <2> DEFINE u == Tail(x)
  <2>4. Numeric(s + 1, n - 1) <=> /\ u[1] \in Digits
                                  /\ \A k \in DOMAIN u : u[k] \in Digits \cup {"."}
                                  /\ Cardinality(Dots(u)) <= 1
    <3>1. s + 1 \in Nat /\ n - 1 \in Nat \ {0}
      BY <1>3
    <3>2. u \in Seq(Characters) /\ Len(u) = n - 1
      BY <2>2
    <3>3. \A k \in 1 .. n - 1 : u[k] = source[(s + 1) + k - 1]
      BY <2>3
    <3> HIDE DEF u
    <3> QED
      BY <3>1, <3>2, <3>3, NumericIs
  <2> HIDE DEF u
  <2> QED
    BY <2>1, <2>4, <1>1, <1>3 DEF IsNumber, u
<1>4. CASE source[s] = "-" /\ n = 1
  <2>1. Unsigned(x) = x
    BY <1>4 DEF Unsigned
  <2>2. "-" \notin Digits
    <3>1. "-" \in Symbols
      <4>1. <<"-", "MINUS">> \in Single
        BY DEF Single
      <4> QED
        BY <4>1 DEF Symbols
    <3> QED
      BY <3>1, CharactersAssumption
  <2> QED
    BY <2>1, <2>2, <1>1, <1>4 DEF IsNumber
<1> QED
  BY <1>2, <1>3, <1>4

(* What a word may begin with. *)
Initials == Letters \cup {"_"}

(* The classes of characters are apart. *)
LEMMA Classes ==
  /\ quote \in Symbols /\ "." \in Symbols /\ "-" \in Symbols /\ quote # "-" /\ quote # "."
  /\ \A c \in Alphanumeric : c \notin Symbols /\ c # quote /\ c # "." /\ c # "-"
  /\ \A c \in Digits : c \in Alphanumeric /\ c \notin Initials
  /\ \A c \in Letters : c \in Initials
  /\ \A c \in Initials : c \in Alphanumeric
  /\ \A c \in Alphanumeric \cup Symbols \cup {"."} : c # NUL
  /\ NUL \notin Characters
<1>1. <<"-", "MINUS">> \in Single /\ <<".", "DOT">> \in Single
  BY DEF Single
<1>2. "." \in Symbols /\ "-" \in Symbols
  <2>1. \A d, e : <<d, e>> \in Single => d \in {q[1] : q \in Single}
    OBVIOUS
  <2> QED
    BY <1>1, <2>1 DEF Symbols
<1>3. quote \in Symbols
  BY DEF Symbols
<1>4. "_" \notin Symbols
  <2>1. \A p \in Single : p[1] # "_"
    <3> TAKE p \in Single
    <3>1. \A q \in Single : \E a, b : q = <<a, b>>
      BY Zenon DEF Single
    <3>2. PICK a, b : p = <<a, b>>
      BY <3>1
    <3>3. \A c, d : <<c, d>> \in Single => c # "_"
      BY DEF Single
    <3> QED
      BY <3>2, <3>3
  <2>2. "_" \notin {quote, "!", "&", "|", "\\"}
    BY DEF quote
  <2> QED
    BY <2>1, <2>2 DEF Symbols
<1>5. /\ NUL \notin Characters /\ Letters \cap Digits = {}
      /\ (Letters \cup Digits \cup Spaces) \cap (Symbols \cup {"_"}) = {}
  BY CharactersAssumption
<1>6. \A c \in Alphanumeric : c \notin Symbols
  BY <1>4, <1>5 DEF Alphanumeric
<1>7. \A c \in Digits : c \in Alphanumeric /\ c \notin Initials
  BY <1>5 DEF Alphanumeric, Initials
<1>8. (\A c \in Letters : c \in Initials) /\ \A c \in Initials : c \in Alphanumeric
  BY DEF Alphanumeric, Initials
<1>9. \A c \in Alphanumeric \cup Symbols : c # NUL
  BY <1>5 DEF Characters
<1>10. quote # "-" /\ quote # "."
  BY DEF quote
<1> QED
  BY <1>2, <1>3, <1>5, <1>6, <1>7, <1>8, <1>9, <1>10

(* A token may begin at s. *)
Begins(s) == Ends(source) /\ s \in 1 .. Len(source) - 1 /\ source[s] \in Characters \ Spaces

(* Where a token begins, there is a character, and one behind it.          *)
LEMMA BeginsIs ==
  ASSUME NEW s, Begins(s)
  PROVE  /\ Ends(source) /\ s \in Nat /\ s >= 1 /\ Len(source) \in Nat /\ s < Len(source)
         /\ s + 1 \in 1 .. Len(source) /\ source[s] \in Characters /\ source[s] \notin Spaces
<1>1. Ends(source) /\ s \in 1 .. Len(source) - 1 /\ source[s] \in Characters \ Spaces
  BY DEF Begins
<1>2. Len(source) \in Nat
  BY <1>1 DEF Ends
<1> QED
  BY <1>1, <1>2

(* What Kinds and NumberIs say of a part of the source. *)
LEMMA ReadsPart ==
  ASSUME NEW s, Begins(s), NEW n \in 1 .. Len(source) - s, NEW before
  PROVE  /\ Reads(s, n, Part(s, n))
         /\ IsNumber(Part(s, n), before) <=>
              \/ source[s] # "-" /\ Numeric(s, n)
              \/ source[s] = "-" /\ before # "NUMBER" /\ n > 1 /\ Numeric(s + 1, n - 1)
<1>1. Ends(source) /\ s \in 1 .. Len(source) /\ Len(source) \in Nat
  BY BeginsIs
<1> DEFINE x == Part(s, n)
<1>2. /\ x \in Seq(Characters) /\ Len(x) = n
      /\ \A k \in 1 .. n : x[k] = source[s + k - 1]
  BY <1>1, PartIs
<1>3. s \in Nat /\ n \in Nat \ {0}
  BY <1>1
<1> HIDE DEF x
<1>4. Reads(s, n, x)
  BY <1>2, <1>3, Kinds
<1>5. IsNumber(x, before) <=>
        \/ source[s] # "-" /\ Numeric(s, n)
        \/ source[s] = "-" /\ before # "NUMBER" /\ n > 1 /\ Numeric(s + 1, n - 1)
  BY <1>2, <1>3, NumberIs
<1> QED
  BY <1>4, <1>5 DEF x

(* The longest token that starts at s, or an error where none starts.      *)
Longest(s, found, before) ==
  /\ found.end \in s + 1 .. Len(source) /\ found.type # "EOF"
  /\ \A n \in found.end - s + 1 .. Len(source) - s : Spelled(Part(s, n), before) = {}
  /\ IF found.type = "ERROR"
     THEN \A n \in 1 .. found.end - s : Spelled(Part(s, n), before) = {}
     ELSE found.type \in Spelled(Part(s, found.end - s), before)

(* A text of characters in two classes is nothing else. *)
LEMMA SpelledOnly ==
  ASSUME NEW s, Begins(s), NEW n \in 1 .. Len(source) - s, NEW before,
         ~IsKeyword(Part(s, n)), ~IsWord(Part(s, n)),
         \/ source[s] \in Alphanumeric
         \/ source[s] = quote
         \/ source[s] = "-" /\ source[s + 1] \in Digits /\ n > 1,
         ~IsNumber(Part(s, n), before), ~IsString(Part(s, n))
  PROVE  Spelled(Part(s, n), before) = {}
<1> DEFINE x == Part(s, n)
<1>1. Reads(s, n, x)
  BY ReadsPart
<1> HIDE DEF x
<1>2. ~IsSingle(x)
  <2> SUFFICES ASSUME NEW p \in Single, <<p[1]>> = x PROVE FALSE
    BY DEF IsSingle
  <2>1. n = 1 /\ p[1] = source[s]
    BY <1>1 DEF Reads
  <2>2. p[1] \in Symbols /\ p[1] # quote
    BY SingleIs
  <2> QED
    BY <2>1, <2>2, Classes
<1>3. ~IsDouble(x)
  <2> SUFFICES ASSUME NEW p \in Double, <<p[1], p[2]>> = x PROVE FALSE
    BY DEF IsDouble
  <2>1. n = 2 /\ p[1] = source[s] /\ p[2] = source[s + 1]
    BY <1>1 DEF Reads
  <2>2. p[1] \in Symbols /\ p[2] \in Symbols /\ p[1] # quote
    BY DoubleIs
  <2> QED
    BY <2>1, <2>2, Classes
<1>4. ~IsDots(x)
  BY <1>1, Classes DEF Reads, quote
<1> QED
  BY <1>2, <1>3, <1>4, SpelledNothing DEF x

(* Of the characters of words, none is left over. *)
LEMMA IdentifierLongest ==
  ASSUME NEW s, Begins(s), source[s] \in Initials, NEW before
  PROVE  Longest(s, scan_identifier(s), before) /\ scan_identifier(s).type # "STRING"
<1> DEFINE end == Skip(Alphanumeric, s + 1)
           type == {k[2] : k \in {w \in Keywords : w[1] = Text(s, end)}}
           x == Part(s, end - s)
<1>1. /\ Ends(source) /\ s + 1 \in 1 .. Len(source) /\ NUL \notin Alphanumeric
      /\ Len(source) \in Nat /\ s \in Nat
  BY BeginsIs, Classes
<1>2. /\ end \in s + 1 .. Len(source) /\ source[end] \notin Alphanumeric
      /\ \A j \in s + 1 .. end - 1 : source[j] \in Alphanumeric
  BY <1>1, SkipStops
<1> HIDE DEF end
<1>3. source[s] \in Alphanumeric /\ source[s] \notin Digits /\ source[s] # quote /\ source[s] # "-"
  BY Classes
<1>4. ASSUME NEW n \in end - s + 1 .. Len(source) - s PROVE Spelled(Part(s, n), before) = {}
  <2>1. n \in 1 .. Len(source) - s /\ end - s \in 0 .. n - 1 /\ s + (end - s) = end
    BY <1>1, <1>2
  <2>2. Reads(s, n, Part(s, n)) /\ ~IsNumber(Part(s, n), before)
    BY <2>1, <1>3, ReadsPart DEF Numeric
  <2>3. ~IsKeyword(Part(s, n)) /\ ~IsWord(Part(s, n))
    BY <2>1, <2>2, <1>2, Classes DEF Reads
  <2>4. ~IsString(Part(s, n))
    BY <2>2, <1>3 DEF Reads
  <2> QED
    BY <2>1, <2>2, <2>3, <2>4, <1>3, SpelledOnly
<1>5. end - s \in 1 .. Len(source) - s \/ end = Len(source)
  BY <1>1, <1>2
<1>6. x = Text(s, end)
  BY <1>1, <1>2 DEF Part, Text
<1>7. IsWord(x)
  <2>1. end - s \in 1 .. Len(source) - s
    BY <1>1, <1>2
  <2>2. Reads(s, end - s, x)
    BY <2>1, ReadsPart
  <2>3. \A k \in 0 .. end - s - 1 : source[s + k] \in Alphanumeric
    <3> TAKE k \in 0 .. end - s - 1
    <3>1. k = 0 \/ s + k \in s + 1 .. end - 1
      BY <1>1, <1>2
    <3> QED
      BY <3>1, <1>1, <1>2, <1>3
  <2> HIDE DEF x
  <2> QED
    BY <2>2, <2>3, <1>3 DEF Reads
<1> HIDE DEF x
<1> DEFINE t == IF type = {} THEN "IDENTIFIER" ELSE CHOOSE u \in type : TRUE
<1>8. t \in Spelled(x, before) /\ t \notin {"EOF", "ERROR", "STRING"}
  <2>1. CASE type = {}
    <3>1. ~IsKeyword(x)
      BY <2>1, <1>6 DEF IsKeyword
    <3> QED
      BY <2>1, <3>1, <1>7, SpelledAs
  <2>2. CASE type # {}
    <3>1. t \in type
      BY <2>2
    <3>2. PICK w \in Keywords : w[1] = x /\ t = w[2]
      BY <3>1, <1>6
    <3> HIDE DEF t
    <3> QED
      BY <3>2, SpelledAs, CharactersAssumption
  <2> QED
    BY <2>1, <2>2
<1>9. scan_identifier(s) = [type |-> t, end |-> end]
  BY DEF scan_identifier, Lexeme, end
<1> HIDE DEF t
<1> QED
  BY <1>2, <1>4, <1>8, <1>9 DEF Longest, x

(* A string ends at the first quote, and one that does not is none. *)
LEMMA StringLongest ==
  ASSUME NEW s, Begins(s), source[s] = quote, NEW before
  PROVE  /\ Longest(s, scan_string(s), before)
         /\ scan_string(s).type = "STRING" => scan_string(s).end - s >= 2
<1> DEFINE end == Skip(Characters \ {quote}, s + 1)
<1>1. /\ Ends(source) /\ s + 1 \in 1 .. Len(source) /\ NUL \notin Characters \ {quote}
      /\ Len(source) \in Nat /\ s \in Nat
  BY BeginsIs, Classes
<1>2. /\ end \in s + 1 .. Len(source) /\ source[end] \notin Characters \ {quote}
      /\ \A j \in s + 1 .. end - 1 : source[j] \in Characters \ {quote}
  BY <1>1, SkipStops
<1> HIDE DEF end
<1>3. /\ source[s] \notin Alphanumeric /\ source[s] # "-" /\ NUL # quote
      /\ source[s] \notin Digits
  BY Classes
<1>4. IF end = Len(source) THEN source[end] # quote ELSE source[end] = quote
  <2>1. CASE end = Len(source)
    BY <2>1, <1>1, <1>3 DEF Ends
  <2>2. CASE end # Len(source)
    BY <2>2, <1>1, <1>2 DEF Ends
  <2> QED
    BY <2>1, <2>2
<1>5. ASSUME NEW n \in 1 .. Len(source) - s
      PROVE  /\ Reads(s, n, Part(s, n))
             /\ ~IsString(Part(s, n)) => Spelled(Part(s, n), before) = {}
  <2>1. Reads(s, n, Part(s, n)) /\ ~IsNumber(Part(s, n), before)
    BY <1>3, ReadsPart DEF Numeric
  <2>2. 0 \in 0 .. n - 1 /\ s + 0 = s
    BY <1>1
  <2>3. ~IsKeyword(Part(s, n)) /\ ~IsWord(Part(s, n))
    BY <2>1, <2>2, <1>3, Classes DEF Reads
  <2> QED
    BY <2>1, <2>3, SpelledOnly
<1>6. CASE end # Len(source)
  <2>1. scan_string(s) = [type |-> "STRING", end |-> end + 1]
    BY <1>4, <1>6 DEF scan_string, Lexeme, end
  <2> DEFINE m == end + 1 - s
  <2>2. /\ m \in 1 .. Len(source) - s /\ end + 1 \in s + 1 .. Len(source)
        /\ m >= 2 /\ m > 1 /\ s + m - 1 = end
    BY <1>1, <1>2, <1>6
  <2>3. \A k \in 1 .. m - 2 : source[s + k] # quote
    BY <1>1, <1>2
  <2>4. \A n \in m + 1 .. Len(source) - s :
          n \in 1 .. Len(source) - s /\ end - s \in 1 .. n - 2 /\ s + (end - s) = end
    BY <1>1, <1>2
  <2>5. scan_string(s).type = "STRING" /\ scan_string(s).end = end + 1
    BY <2>1
  <2> HIDE DEF m
  <2>6. Reads(s, m, Part(s, m))
    BY <2>2, <1>5
  <2>7. IsString(Part(s, m))
    BY <2>2, <2>3, <2>6, <1>4, <1>6 DEF Reads
  <2>8. ASSUME NEW n \in m + 1 .. Len(source) - s PROVE Spelled(Part(s, n), before) = {}
    <3>1. n \in 1 .. Len(source) - s /\ end - s \in 1 .. n - 2 /\ s + (end - s) = end
      BY <2>4
    <3>2. ~IsString(Part(s, n))
      BY <3>1, <1>4, <1>5, <1>6 DEF Reads
    <3> QED
      BY <3>1, <3>2, <1>5
  <2>9. "STRING" \in Spelled(Part(s, m), before)
    BY <2>7, SpelledAs
  <2>10. scan_string(s).end - s = m
    BY <1>1, <1>2, <2>5 DEF m
  <2> QED
    BY <2>2, <2>5, <2>8, <2>9, <2>10 DEF Longest
<1>7. CASE end = Len(source)
  <2>1. scan_string(s) = [type |-> "ERROR", end |-> end]
    BY <1>4, <1>7 DEF scan_string, Lexeme, end
  <2>2. ASSUME NEW n \in 1 .. end - s PROVE Spelled(Part(s, n), before) = {}
    <3>1. n \in 1 .. Len(source) - s
      BY <1>7
    <3>2. n > 1 => s + n - 1 \in s + 1 .. end - 1
      BY <1>1, <1>2
    <3>3. ~IsString(Part(s, n))
      BY <3>1, <3>2, <1>2, <1>5 DEF Reads
    <3> QED
      BY <3>1, <3>3, <1>5
  <2>3. end - s + 1 .. Len(source) - s = {}
    BY <1>1, <1>7
  <2> QED
    BY <2>1, <2>2, <2>3, <1>2 DEF Longest
<1> QED
  BY <1>6, <1>7

(* A number takes all its digits, and a sign only where it has one. *)
LEMMA NumberLongest ==
  ASSUME NEW s, Begins(s), NEW before, before = "NUMBER" <=> prev_token_type = "NUMBER",
         source[s] \in Digits \/ Signed(s)
  PROVE  Longest(s, scan_number(s), before)
<1> DEFINE whole == Skip(Digits, s + 1)
           point == source[whole] = "."
           end == IF point THEN Skip(Digits, whole + 1) ELSE whole
           f == IF source[s] = "-" THEN 1 ELSE 0
<1>1. /\ Ends(source) /\ s + 1 \in 1 .. Len(source) /\ NUL \notin Digits
      /\ Len(source) \in Nat /\ s \in Nat
  BY BeginsIs, Classes
<1>2. /\ whole \in s + 1 .. Len(source) /\ source[whole] \notin Digits
      /\ \A j \in s + 1 .. whole - 1 : source[j] \in Digits
  BY <1>1, SkipStops
<1>3. f \in {0, 1} /\ source[s + f] \in Digits /\ (f = 1 => before # "NUMBER") /\ s + f < whole
  <2>1. CASE source[s] = "-"
    <3>1. source[s] \notin Digits
      BY <2>1, Classes
    <3>2. source[s + 1] \in Digits /\ before # "NUMBER"
      BY <3>1 DEF Signed
    <3>3. whole # s + 1
      BY <3>2, <1>2
    <3> QED
      BY <2>1, <3>2, <3>3, <1>1, <1>2
  <2>2. CASE source[s] # "-"
    <3>1. f = 0 /\ s + 0 = s
      BY <2>2, <1>1
    <3>2. source[s] \in Digits
      BY <2>2 DEF Signed
    <3> QED
      BY <3>1, <3>2, <1>1, <1>2
  <2> QED
    BY <2>1, <2>2
<1>4. source[s] \in Digits \/ (source[s] = "-" /\ source[s + 1] \in Digits)
  BY DEF Signed
<1> DEFINE b == s + f
<1>5. /\ b \in Nat /\ b \in s .. whole - 1 /\ s <= b
      /\ \A j \in b .. whole - 1 : source[j] \in Digits /\ source[j] # "."
  <2>1. b \in Nat /\ b \in s .. whole - 1 /\ s <= b
    BY <1>1, <1>2, <1>3
  <2>2. ASSUME NEW j \in b .. whole - 1 PROVE source[j] \in Digits
    <3>1. j = b \/ j \in s + 1 .. whole - 1
      BY <1>1, <1>2, <1>3, <2>1
    <3> HIDE DEF whole
    <3> QED
      BY <3>1, <1>2, <1>3
  <2> HIDE DEF b, whole
  <2> QED
    BY <2>1, <2>2, Classes
<1> HIDE DEF whole, b
<1> DEFINE Stops == /\ end \in s + 1 .. Len(source) /\ b < end /\ source[end] \notin Digits
                    /\ \A j \in b .. end - 1 : source[j] \in Digits \cup {"."}
                    /\ \A j, k \in b .. end - 1 : source[j] = "." /\ source[k] = "." => j = k
                    /\ source[end] = "." => \E j \in b .. end - 1 : source[j] = "."
<1>6. ASSUME point PROVE Stops
  <2>1. whole # Len(source)
    <3>1. source[Len(source)] = NUL /\ "." # NUL
      BY <1>1, Classes DEF Ends
    <3> QED
      BY <3>1, <1>6
  <2>2. whole + 1 \in 1 .. Len(source)
    BY <2>1, <1>1, <1>2
  <2>3. /\ Skip(Digits, whole + 1) \in whole + 1 .. Len(source)
        /\ source[Skip(Digits, whole + 1)] \notin Digits
        /\ \A j \in whole + 1 .. Skip(Digits, whole + 1) - 1 : source[j] \in Digits
    BY <2>2, <1>1, SkipStops
  <2>4. end = Skip(Digits, whole + 1)
    BY <1>6
  <2>5. /\ end \in whole + 1 .. Len(source) /\ source[end] \notin Digits
        /\ \A j \in whole + 1 .. end - 1 : source[j] \in Digits
    BY <2>3, <2>4
  <2> HIDE DEF end
  <2>6. end \in s + 1 .. Len(source) /\ b < end /\ whole \in b .. end - 1
    BY <1>1, <1>2, <1>5, <2>5
  <2>7. ASSUME NEW j \in b .. end - 1, j # whole PROVE source[j] \in Digits /\ source[j] # "."
    <3>1. j \in b .. whole - 1 \/ j \in whole + 1 .. end - 1
      BY <1>1, <1>2, <1>5, <2>5, <2>7
    <3> QED
      BY <3>1, <1>5, <2>5, Classes
  <2>8. \A j \in b .. end - 1 : source[j] \in Digits \cup {"."}
    BY <2>7, <1>6
  <2>9. \A j, k \in b .. end - 1 : source[j] = "." /\ source[k] = "." => j = k
    BY <2>7
  <2>10. \E j \in b .. end - 1 : source[j] = "."
    BY <2>6, <1>6
  <2> QED
    BY <2>5, <2>6, <2>8, <2>9, <2>10
<1>7. ASSUME ~point PROVE Stops
  <2>1. end = whole
    BY <1>7
  <2> HIDE DEF end
  <2>2. end \in s + 1 .. Len(source) /\ b < end
    BY <2>1, <1>1, <1>2, <1>5
  <2>3. source[end] \notin Digits /\ source[end] # "."
    BY <2>1, <1>2, <1>7
  <2> QED
    BY <2>1, <2>2, <2>3, <1>5
<1>8. Stops
  BY <1>6, <1>7
<1>9. scan_number(s) = [type |-> "NUMBER", end |-> end]
  BY DEF scan_number, Lexeme, whole
<1>10. scan_number(s).type = "NUMBER" /\ scan_number(s).end = end
  BY <1>9
<1>11. /\ end \in s + 1 .. Len(source) /\ b < end /\ source[end] \notin Digits
       /\ \A j \in b .. end - 1 : source[j] \in Digits \cup {"."}
       /\ \A j, k \in b .. end - 1 : source[j] = "." /\ source[k] = "." => j = k
       /\ source[end] = "." => \E j \in b .. end - 1 : source[j] = "."
  BY <1>8
<1> HIDE DEF end, Stops
<1>12. ASSUME NEW n \in 1 .. Len(source) - s, b < s + n
       PROVE  /\ n - f \in Nat \ {0} /\ (f = 1 => n > 1)
              /\ IsNumber(Part(s, n), before) <=> Numeric(b, n - f)
  <2>1. n - f \in Nat \ {0} /\ (f = 1 => n > 1)
    BY <1>1, <1>3, <1>12 DEF b
  <2>2. CASE source[s] = "-"
    <3>1. f = 1 /\ b = s + 1 /\ before # "NUMBER" /\ n > 1
      BY <2>1, <2>2, <1>3 DEF b
    <3> QED
      BY <2>1, <2>2, <3>1, ReadsPart
  <2>3. CASE source[s] # "-"
    <3>1. f = 0 /\ b = s /\ n - f = n
      BY <1>1, <2>3 DEF b
    <3> QED
      BY <2>1, <2>3, <3>1, ReadsPart
  <2> QED
    BY <2>1, <2>2, <2>3
<1> DEFINE m == end - s
<1>13. m \in 1 .. Len(source) - s /\ b < s + m /\ scan_number(s).end - s = m
  BY <1>1, <1>5, <1>10, <1>11
<1>14. "NUMBER" \in Spelled(Part(s, m), before)
  <2>1. source[b] \in Digits
    BY <1>5
  <2>2. \A k \in 0 .. m - f - 1 : b + k \in b .. end - 1
    BY <1>1, <1>3, <1>5, <1>11 DEF b
  <2>3. \A j, k \in 0 .. m - f - 1 : b + j = b + k => j = k
    BY <1>5
  <2> HIDE DEF m
  <2>4. Numeric(b, m - f)
    BY <2>1, <2>2, <2>3, <1>11 DEF Numeric
  <2>5. IsNumber(Part(s, m), before)
    BY <2>4, <1>12, <1>13
  <2> QED
    BY <2>5, SpelledAs
<1>15. ASSUME NEW n \in m + 1 .. Len(source) - s PROVE Spelled(Part(s, n), before) = {}
  <2>1. /\ n \in 1 .. Len(source) - s /\ b < s + n /\ n > 1
        /\ end - b \in 0 .. n - f - 1 /\ b + (end - b) = end
    BY <1>1, <1>3, <1>5, <1>11, <1>13 DEF b
  <2>2. ~Numeric(b, n - f)
    <3>1. CASE source[end] = "."
      <4>1. PICK j \in b .. end - 1 : source[j] = "."
        BY <3>1, <1>11
      <4>2. j - b \in 0 .. n - f - 1 /\ b + (j - b) = j /\ j - b # end - b
        BY <4>1, <2>1, <1>1, <1>3, <1>5, <1>11
      <4> QED
        BY <3>1, <4>1, <4>2, <2>1 DEF Numeric
    <3>2. CASE source[end] # "."
      BY <3>2, <2>1, <1>11 DEF Numeric
    <3> QED
      BY <3>1, <3>2
  <2>3. Reads(s, n, Part(s, n)) /\ ~IsNumber(Part(s, n), before)
    BY <2>1, <2>2, <1>12, ReadsPart
  <2>4. source[s] \in Digits \/ (source[s] = "-" /\ source[s + 1] \in Digits)
    BY <1>4
  <2>5. source[s] \notin Initials /\ source[s] # quote /\ source[s] \notin Letters
    BY <2>4, Classes
  <2>6. 0 \in 0 .. n - 1 /\ s + 0 = s
    BY <2>1, <1>1
  <2>7. ~IsKeyword(Part(s, n)) /\ ~IsString(Part(s, n))
    BY <2>3, <2>5, <2>6 DEF Reads
  <2>8. ~IsWord(Part(s, n))
    BY <2>3, <2>4, <2>6, Classes DEF Reads
  <2> QED
    BY <2>1, <2>3, <2>4, <2>7, <2>8, Classes, SpelledOnly
<1> QED
  BY <1>10, <1>11, <1>13, <1>14, <1>15 DEF Longest

(* Where nothing else begins, only an operator is spelled. *)
LEMMA SymbolIs ==
  ASSUME NEW s, Begins(s), NEW before, before = "NUMBER" <=> prev_token_type = "NUMBER",
         source[s] \notin Alphanumeric, source[s] # quote, ~Signed(s),
         NEW n \in 1 .. Len(source) - s
  PROVE  /\ \/ \E p \in Single : n = 1 /\ p[1] = source[s]
            \/ \E p \in Double : n = 2 /\ p[1] = source[s] /\ p[2] = source[s + 1]
            \/ n = 3 /\ source[s] = "." /\ source[s + 1] = "." /\ source[s + 2] = "."
            \/ Spelled(Part(s, n), before) = {}
         /\ n = 1 => \A p \in Single :
              p[1] = source[s] => p[2] \in Spelled(Part(s, n), before)
         /\ n = 2 => \A p \in Double :
              p[1] = source[s] /\ p[2] = source[s + 1] => p[3] \in Spelled(Part(s, n), before)
         /\ n = 3 /\ source[s] = "." /\ source[s + 1] = "." /\ source[s + 2] = "."
              => "TRIPLE_DOT" \in Spelled(Part(s, n), before)
<1> DEFINE x == Part(s, n)
<1>1. Reads(s, n, x)
  BY ReadsPart
<1>2. source[s] \notin Digits /\ source[s] \notin Letters
  BY Classes
<1>3. 0 \in 0 .. n - 1 /\ s + 0 = s
  BY BeginsIs
<1>4. ~IsNumber(x, before)
  <2>1. ~(source[s] # "-" /\ Numeric(s, n))
    BY <1>2 DEF Numeric
  <2>2. ~(source[s] = "-" /\ before # "NUMBER" /\ n > 1 /\ Numeric(s + 1, n - 1))
    BY DEF Numeric, Signed
  <2> QED
    BY <2>1, <2>2, ReadsPart
<1> HIDE DEF x
<1>5. ~IsKeyword(x) /\ ~IsWord(x) /\ ~IsString(x)
  BY <1>1, <1>2, <1>3 DEF Reads
<1>6. ~IsSingle(x) /\ ~IsDouble(x) /\ ~IsDots(x) => Spelled(x, before) = {}
  BY <1>4, <1>5, SpelledNothing
<1>7. IsSingle(x) => \E p \in Single : n = 1 /\ p[1] = source[s]
  BY <1>1 DEF Reads, IsSingle
<1>8. IsDouble(x) => \E p \in Double : n = 2 /\ p[1] = source[s] /\ p[2] = source[s + 1]
  BY <1>1 DEF Reads, IsDouble
<1>9. IsDots(x) <=> n = 3 /\ source[s] = "." /\ source[s + 1] = "." /\ source[s + 2] = "."
  BY <1>1 DEF Reads
<1>10. n = 1 => \A p \in Single : p[1] = source[s] => p[2] \in Spelled(x, before)
  <2> SUFFICES ASSUME n = 1, NEW p \in Single, p[1] = source[s] PROVE p[2] \in Spelled(x, before)
    OBVIOUS
  <2>1. <<p[1]>> = x
    BY <1>1 DEF Reads
  <2> QED
    BY <2>1, SpelledAs
<1>11. n = 2 => \A p \in Double :
         p[1] = source[s] /\ p[2] = source[s + 1] => p[3] \in Spelled(x, before)
  <2> SUFFICES ASSUME n = 2, NEW p \in Double, p[1] = source[s], p[2] = source[s + 1]
               PROVE  p[3] \in Spelled(x, before)
    OBVIOUS
  <2>1. <<p[1], p[2]>> = x
    BY <1>1 DEF Reads
  <2> QED
    BY <2>1, SpelledAs
<1>12. IsDots(x) => "TRIPLE_DOT" \in Spelled(x, before)
  BY SpelledAs
<1> QED
  BY <1>6, <1>7, <1>8, <1>9, <1>10, <1>11, <1>12 DEF x

(* The character before the NUL is the last one. *)
LEMMA NextIs ==
  ASSUME Ends(source), NEW j \in 1 .. Len(source), source[j] # NUL
  PROVE  j + 1 \in 1 .. Len(source)
BY DEF Ends

(* Longest, with the number of characters for the end. *)
LEMMA LongestIs ==
  ASSUME NEW s, Begins(s), NEW found, NEW before, NEW m \in 1 .. Len(source) - s,
         found.end = s + m, found.type # "EOF",
         \A n \in m + 1 .. Len(source) - s : Spelled(Part(s, n), before) = {},
         IF found.type = "ERROR"
         THEN \A n \in 1 .. m : Spelled(Part(s, n), before) = {}
         ELSE found.type \in Spelled(Part(s, m), before)
  PROVE  Longest(s, found, before)
<1>1. found.end \in s + 1 .. Len(source) /\ found.end - s = m
  BY BeginsIs
<1> QED
  BY <1>1 DEF Longest

(* Three points go before one, two characters before one. *)
LEMMA SymbolLongest ==
  ASSUME NEW s, Begins(s), NEW before, before = "NUMBER" <=> prev_token_type = "NUMBER",
         source[s] \notin Alphanumeric, source[s] # quote, ~Signed(s)
  PROVE  Longest(s, scan_symbol(s), before) /\ scan_symbol(s).type \notin {"NUMBER", "STRING"}
<1> DEFINE c == source[s]
           double == {p \in Double : p[1] = c /\ p[2] = source[s + 1]}
           single == {p \in Single : p[1] = c}
           dots == c = "." /\ source[s + 1] = "." /\ source[s + 2] = "."
<1>1. Ends(source) /\ s \in Nat /\ Len(source) \in Nat /\ s + 1 \in 1 .. Len(source)
  BY BeginsIs
<1>2. dots => double = {}
  BY DoubleIs
<1>3. CASE dots
  <2>1. scan_symbol(s) = [type |-> "TRIPLE_DOT", end |-> s + 3]
    BY <1>2, <1>3 DEF scan_symbol, Lexeme
  <2>2. scan_symbol(s).type = "TRIPLE_DOT" /\ scan_symbol(s).end = s + 3
    BY <2>1
  <2>3. s + 3 \in s + 1 .. Len(source) /\ 3 \in 1 .. Len(source) - s /\ s + 3 - s = 3
    <3>1. "." # NUL
      BY Classes
    <3>2. (s + 1) + 1 \in 1 .. Len(source)
      BY <1>1, <1>3, <3>1, NextIs
    <3>3. s + 2 \in 1 .. Len(source)
      BY <1>1, <3>2
    <3>4. (s + 2) + 1 \in 1 .. Len(source)
      BY <1>1, <1>3, <3>1, <3>3, NextIs
    <3> QED
      BY <1>1, <3>4
  <2>4. "TRIPLE_DOT" \in Spelled(Part(s, 3), before)
    BY <2>3, <1>3, SymbolIs
  <2>5. \A n \in 3 + 1 .. Len(source) - s : Spelled(Part(s, n), before) = {}
    <3> TAKE n \in 3 + 1 .. Len(source) - s
    <3>1. n \in 1 .. Len(source) - s /\ n # 1 /\ n # 2 /\ n # 3
      BY <1>1
    <3> QED
      BY <3>1, SymbolIs
  <2> QED
    BY <2>2, <2>3, <2>4, <2>5, LongestIs
<1>4. CASE double # {}
  <2>1. PICK p \in Double : /\ p[1] = c /\ p[2] = source[s + 1]
                            /\ scan_symbol(s) = [type |-> p[3], end |-> s + 2]
    <3> DEFINE p == CHOOSE q \in double : TRUE
    <3>1. p \in double
      BY <1>4
    <3>2. p \in Double /\ p[1] = c /\ p[2] = source[s + 1]
      BY <3>1
    <3>3. scan_symbol(s) = [type |-> p[3], end |-> s + 2]
      BY <1>2, <1>4 DEF scan_symbol, Lexeme
    <3> HIDE DEF p
    <3> QED
      BY <3>2, <3>3
  <2>2. /\ p[1] # "." /\ p[2] \in Symbols
        /\ p[3] \notin {"EOF", "ERROR", "NUMBER", "STRING"}
    BY DoubleIs DEF Reserved
  <2>3. scan_symbol(s).type = p[3] /\ scan_symbol(s).end = s + 2
    BY <2>1
  <2>4. s + 2 \in s + 1 .. Len(source) /\ 2 \in 1 .. Len(source) - s /\ s + 2 - s = 2
    <3>1. source[s + 1] # NUL
      BY <2>1, <2>2, Classes
    <3>2. (s + 1) + 1 \in 1 .. Len(source)
      BY <1>1, <3>1, NextIs
    <3> QED
      BY <1>1, <3>2
  <2>5. p[3] \in Spelled(Part(s, 2), before)
    BY <2>1, <2>4, SymbolIs
  <2>6. \A n \in 2 + 1 .. Len(source) - s : Spelled(Part(s, n), before) = {}
    <3> TAKE n \in 2 + 1 .. Len(source) - s
    <3>1. n \in 1 .. Len(source) - s /\ n # 1 /\ n # 2
      BY <1>1
    <3> QED
      BY <3>1, <2>1, <2>2, SymbolIs
  <2> QED
    BY <2>2, <2>3, <2>4, <2>5, <2>6, LongestIs
<1>5. s + 1 \in s + 1 .. Len(source) /\ 1 \in 1 .. Len(source) - s /\ s + 1 - s = 1
  BY <1>1
<1>6. ASSUME ~dots, double = {}
      PROVE  \A n \in 1 + 1 .. Len(source) - s : Spelled(Part(s, n), before) = {}
  <2> TAKE n \in 1 + 1 .. Len(source) - s
  <2>1. n \in 1 .. Len(source) - s /\ n # 1
    BY <1>1
  <2> QED
    BY <2>1, <1>6, SymbolIs
<1>7. CASE ~dots /\ double = {} /\ single # {}
  <2>1. PICK p \in Single : /\ p[1] = c
                            /\ scan_symbol(s) = [type |-> p[2], end |-> s + 1]
    <3> DEFINE p == CHOOSE q \in single : TRUE
    <3>1. p \in single
      BY <1>7
    <3>2. p \in Single /\ p[1] = c
      BY <3>1
    <3>3. scan_symbol(s) = [type |-> p[2], end |-> s + 1]
      BY <1>7 DEF scan_symbol, Lexeme
    <3> HIDE DEF p
    <3> QED
      BY <3>2, <3>3
  <2>2. p[2] \notin {"EOF", "ERROR", "NUMBER", "STRING"}
    BY SingleIs DEF Reserved
  <2>3. scan_symbol(s).type = p[2] /\ scan_symbol(s).end = s + 1
    BY <2>1
  <2>4. p[2] \in Spelled(Part(s, 1), before)
    BY <2>1, <1>5, SymbolIs
  <2> QED
    BY <2>2, <2>3, <2>4, <1>5, <1>6, <1>7, LongestIs
<1>8. CASE ~dots /\ double = {} /\ single = {}
  <2>1. scan_symbol(s) = [type |-> "ERROR", end |-> s + 1]
    BY <1>8 DEF scan_symbol, Lexeme
  <2>2. scan_symbol(s).type = "ERROR" /\ scan_symbol(s).end = s + 1
    BY <2>1
  <2>3. Spelled(Part(s, 1), before) = {}
    BY <1>5, <1>8, SymbolIs
  <2>4. \A n \in 1 .. 1 : Spelled(Part(s, n), before) = {}
    BY <2>3
  <2> QED
    BY <2>2, <2>4, <1>5, <1>6, <1>8, LongestIs
<1> QED
  BY <1>3, <1>4, <1>7, <1>8

(* One of the scan functions finds it. *)
LEMMA LexemeIs ==
  ASSUME NEW s, Begins(s), NEW before, before = "NUMBER" <=> prev_token_type = "NUMBER"
  PROVE  /\ Longest(s, LexemeAt(s), before)
         /\ LexemeAt(s).type = "STRING" => LexemeAt(s).end - s >= 2
<1>1. source[s] # NUL
  BY BeginsIs, Classes
<1>2. CASE source[s] \in Initials
  <2>1. LexemeAt(s) = scan_identifier(s)
    BY <1>1, <1>2 DEF LexemeAt, Initials
  <2> QED
    BY <2>1, <1>2, IdentifierLongest
<1>3. CASE source[s] \in Digits \/ Signed(s)
  <2>1. source[s] \notin Initials
    BY <1>3, Classes DEF Signed
  <2>2. LexemeAt(s) = scan_number(s)
    BY <1>1, <1>3, <2>1 DEF LexemeAt, Initials
  <2>3. scan_number(s).type = "NUMBER"
    BY DEF scan_number, Lexeme
  <2> QED
    BY <2>2, <2>3, <1>3, NumberLongest
<1>4. CASE source[s] = quote
  <2>1. source[s] \notin Initials /\ source[s] \notin Digits /\ ~Signed(s)
    BY <1>4, Classes DEF Signed
  <2>2. LexemeAt(s) = scan_string(s)
    BY <1>1, <1>4, <2>1 DEF LexemeAt, Initials
  <2> QED
    BY <2>2, <1>4, StringLongest
<1>5. CASE source[s] \notin Initials \cup Digits \cup {quote} /\ ~Signed(s)
  <2>1. LexemeAt(s) = scan_symbol(s)
    BY <1>1, <1>5 DEF LexemeAt, Initials
  <2>2. source[s] \notin Alphanumeric
    BY <1>5 DEF Alphanumeric, Initials
  <2> QED
    BY <2>1, <2>2, <1>5, SymbolLongest
<1> QED
  BY <1>2, <1>3, <1>4, <1>5

(* What tokens are. *)
Types == {w[2] : w \in Keywords} \cup {p[2] : p \in Single} \cup {p[3] : p \in Double}
           \cup {"TRIPLE_DOT", "IDENTIFIER"} \cup Reserved
Token == [type : Types, start : Nat \ {0}, length : Nat \ {0}]

(* What a text is spelled like is a type of tokens. *)
LEMMA SpelledTypes == ASSUME NEW x, NEW before PROVE Spelled(x, before) \subseteq Types
BY DEF Spelled, Types, Reserved

(* Tiles, of any tokens. *)
EndOf(ts) == IF ts = <<>> THEN 1 ELSE ts[Len(ts)].start + ts[Len(ts)].length
Covers(src, ts) ==
  \A k \in DOMAIN ts :
    LET before == IF k = 1 THEN 1 ELSE ts[k - 1].start + ts[k - 1].length
        end    == ts[k].start + ts[k].length
    IN  /\ before <= ts[k].start
        /\ \A j \in before .. ts[k].start - 1 : src[j] \in Spaces
        /\ end <= Len(src) + (IF ts[k].type = "EOF" THEN 1 ELSE 0)

(* A token behind the last one leaves no gap but white space. *)
LEMMA CoversMore ==
  ASSUME NEW src, NEW ts \in Seq(Token), Covers(src, ts), NEW t \in Token,
         EndOf(ts) <= t.start, \A j \in EndOf(ts) .. t.start - 1 : src[j] \in Spaces,
         t.start + t.length <= Len(src) + (IF t.type = "EOF" THEN 1 ELSE 0)
  PROVE  Covers(src, Append(ts, t)) /\ EndOf(Append(ts, t)) = t.start + t.length
<1> DEFINE new == Append(ts, t)
           n == Len(ts)
<1>1. /\ n \in Nat /\ Len(new) = n + 1 /\ new \in Seq(Token) /\ new[n + 1] = t
      /\ \A k \in 1 .. n : new[k] = ts[k]
  BY AppendProperties, LenProperties
<1>2. DOMAIN new = 1 .. n + 1 /\ DOMAIN ts = 1 .. n /\ new # <<>>
  BY <1>1, LenProperties
<1>3. EndOf(ts) = IF n + 1 = 1 THEN 1 ELSE new[(n + 1) - 1].start + new[(n + 1) - 1].length
  <2>1. CASE ts = <<>>
    BY <2>1 DEF EndOf
  <2>2. CASE ts # <<>>
    <3>1. n # 0 /\ n \in 1 .. n /\ (n + 1) - 1 = n
      BY <2>2, <1>1, EmptySeq
    <3> QED
      BY <3>1, <1>1, <2>2 DEF EndOf
  <2> QED
    BY <2>1, <2>2
<1>4. EndOf(new) = t.start + t.length
  BY <1>1, <1>2 DEF EndOf
<1> HIDE DEF new, n
<1> SUFFICES ASSUME NEW k \in 1 .. n + 1
             PROVE  LET before == IF k = 1 THEN 1 ELSE new[k - 1].start + new[k - 1].length
                        end    == new[k].start + new[k].length
                    IN  /\ before <= new[k].start
                        /\ \A j \in before .. new[k].start - 1 : src[j] \in Spaces
                        /\ end <= Len(src) + (IF new[k].type = "EOF" THEN 1 ELSE 0)
  BY <1>2, <1>4 DEF Covers, new
<1>5. CASE k = n + 1
  BY <1>1, <1>3, <1>5
<1>6. CASE k \in 1 .. n
  <2>1. new[k] = ts[k] /\ (k # 1 => new[k - 1] = ts[k - 1])
    BY <1>1, <1>6
  <2> QED
    BY <2>1, <1>2, <1>6 DEF Covers
<1> QED
  BY <1>1, <1>5, <1>6

-----------------------------------------------------------------------------
(* The inductive invariant of the scanner: the tokens cover the source up  *)
(* to current, and prev_token_type is what it should be.                   *)
Scanned ==
  /\ Ends(source) /\ files \in Nat /\ scanning \in BOOLEAN
  /\ tokens \in Seq(Token) /\ Covers(source, tokens) /\ current = EndOf(tokens)
  /\ scanning => current \in 1 .. Len(source)
Prev ==
  /\ ~scanning => prev_token_type # "NUMBER"
  /\ IF tokens = <<>> THEN prev_token_type # "NUMBER"
                      ELSE prev_token_type = tokens[Len(tokens)].type
Quoted == \A k \in DOMAIN tokens : tokens[k].type = "STRING" => tokens[k].length >= 2
ScanInv == Scanned /\ Prev /\ Quoted /\ LongestMatch

(* Before the first file there is no token. *)
LEMMA ScanInit == ASSUME Init PROVE ScanInv
<1>1. /\ source = <<NUL>> /\ current = 1 /\ tokens = <<>> /\ prev_token_type = "ARROW"
      /\ files = 0 /\ scanning = FALSE
  BY DEF Init
<1>2. Ends(source)
  <2>1. source \in Seq(Characters \cup {NUL}) /\ Len(source) = 1 /\ source[1] = NUL
    BY <1>1
  <2> QED
    BY <2>1 DEF Ends
<1>3. tokens \in Seq(Token) /\ DOMAIN tokens = {}
  BY <1>1
<1> QED
  BY <1>1, <1>2, <1>3 DEF ScanInv, Scanned, Prev, Quoted, LongestMatch, Covers, EndOf

(* A new file: prev_token_type is that of the end of the file before.      *)
LEMMA ScanFile == ASSUME ScanInv, scan PROVE ScanInv'
<1>1. PICK s \in Sources[files + 1] : source' = Append(s, NUL)
  BY DEF scan
<1>2. /\ ~scanning /\ files < MaxFiles /\ current' = 1 /\ tokens' = <<>>
      /\ files' = files + 1 /\ scanning' = TRUE /\ prev_token_type' = prev_token_type
  BY DEF scan
<1>3. files \in Nat /\ prev_token_type # "NUMBER"
  BY <1>2 DEF ScanInv, Scanned, Prev
<1>4. s \in Seq(Characters) /\ NUL \notin Characters
  <2>1. files + 1 \in 1 .. MaxFiles
    <3>1. MaxFiles \in Nat
      BY CharactersAssumption
    <3> QED
      BY <3>1, <1>2, <1>3
  <2> QED
    BY <2>1, CharactersAssumption
<1>5. Ends(source)' /\ Len(source') \in Nat \ {0}
  <2> DEFINE S == Characters \cup {NUL}
             new == Append(s, NUL)
  <2>1. s \in Seq(S) /\ NUL \in S
    BY <1>4
  <2>2. Len(s) \in Nat /\ \A k \in 1 .. Len(s) : s[k] \in Characters
    BY <1>4, LenProperties, ElementOfSeq
  <2> HIDE DEF S
  <2>3. /\ new \in Seq(S) /\ Len(new) = Len(s) + 1 /\ new[Len(s) + 1] = NUL
        /\ \A k \in 1 .. Len(s) : new[k] = s[k]
    BY <2>1, AppendProperties
  <2> HIDE DEF new
  <2>4. \A k \in 1 .. Len(new) : new[k] = NUL <=> k = Len(new)
    <3> TAKE k \in 1 .. Len(new)
    <3>1. k \in 1 .. Len(s) \/ k = Len(s) + 1
      BY <2>2, <2>3
    <3> QED
      BY <3>1, <2>2, <2>3, <1>4
  <2>5. source' = new
    BY <1>1 DEF new
  <2> QED
    BY <2>2, <2>3, <2>4, <2>5 DEF Ends, S
<1>6. tokens' \in Seq(Token) /\ DOMAIN tokens' = {}
  BY <1>2
<1>7. Scanned'
  BY <1>2, <1>3, <1>5, <1>6 DEF Scanned, Covers, EndOf
<1>8. Prev' /\ Quoted'
  BY <1>2, <1>3, <1>6 DEF Prev, Quoted
<1>9. LongestMatch'
  BY <1>2 DEF LongestMatch
<1> QED
  BY <1>7, <1>8, <1>9 DEF ScanInv

(* A token is the longest there is, and current moves behind it.           *)
LEMMA ScanToken == ASSUME ScanInv, scan_token PROVE ScanInv'
<1> DEFINE s == skip_whitespace
           found == LexemeAt(s)
           t == TokenOf(s, found)
           n == Len(tokens)
           before == IF tokens = <<>> THEN "EOF" ELSE tokens[n].type
<1>1. /\ scanning /\ tokens' = Append(tokens, t) /\ current' = found.end
      /\ prev_token_type' = found.type /\ scanning' = (found.type # "EOF")
      /\ source' = source /\ files' = files
  BY DEF scan_token, list_add
<1>2. /\ Ends(source) /\ files \in Nat /\ tokens \in Seq(Token)
      /\ Covers(source, tokens) /\ current = EndOf(tokens) /\ current \in 1 .. Len(source)
      /\ Len(source) \in Nat
  BY <1>1 DEF ScanInv, Scanned, Ends
<1>3. NUL \notin Spaces
  BY Classes DEF Characters
<1>4. /\ s \in current .. Len(source) /\ source[s] \notin Spaces /\ s \in 1 .. Len(source)
      /\ \A j \in current .. s - 1 : source[j] \in Spaces
  BY <1>2, <1>3, SkipStops DEF skip_whitespace
<1>5. before = "NUMBER" <=> prev_token_type = "NUMBER"
  BY DEF ScanInv, Prev
<1>6. t.type = found.type /\ t.start = s /\ t.length = found.end - s
  BY DEF TokenOf
<1> HIDE DEF s, found
<1>7. /\ found.end \in s + 1 .. Len(source) + (IF found.type = "EOF" THEN 1 ELSE 0)
      /\ found.type \in Types
      /\ found.type = "STRING" => found.end - s >= 2
      /\ found.type # "EOF" => Longest(s, found, before)
  <2>1. CASE s = Len(source)
    <3>1. source[s] = NUL
      BY <2>1, <1>2, <1>4 DEF Ends
    <3>2. found = [type |-> "EOF", end |-> s + 1]
      BY <3>1, Zenon DEF LexemeAt, Lexeme, found
    <3> QED
      BY <3>2, <2>1, <1>2 DEF Types, Reserved
  <2>2. CASE s # Len(source)
    <3>1. Begins(s)
      BY <2>2, <1>2, <1>4 DEF Begins, Ends
    <3>2. Longest(s, found, before) /\ (found.type = "STRING" => found.end - s >= 2)
      BY <3>1, <1>5, LexemeIs DEF found
    <3>3. found.end \in s + 1 .. Len(source) /\ found.type # "EOF"
      BY <3>2 DEF Longest
    <3>4. found.type \in Types
      BY <3>2, SpelledTypes DEF Longest, Types, Reserved
    <3> QED
      BY <3>2, <3>3, <3>4
  <2> QED
    BY <2>1, <2>2
<1>8. /\ found.end - s \in Nat \ {0} /\ s + (found.end - s) = found.end /\ found.end \in Nat
      /\ found.end \in s + 1 .. Len(source) + 1
  BY <1>2, <1>4, <1>7
<1>9. t \in Token
  BY <1>2, <1>4, <1>7, <1>8 DEF Token, TokenOf
<1> HIDE DEF t
<1>10. Covers(source, Append(tokens, t)) /\ EndOf(Append(tokens, t)) = found.end
  <2>1. EndOf(tokens) <= t.start /\ \A j \in EndOf(tokens) .. t.start - 1 : source[j] \in Spaces
    BY <1>2, <1>4, <1>6
  <2>2. t.start + t.length <= Len(source) + (IF t.type = "EOF" THEN 1 ELSE 0)
    BY <1>2, <1>6, <1>7, <1>8
  <2> QED
    BY <2>1, <2>2, <1>2, <1>6, <1>8, <1>9, CoversMore
<1>11. /\ n \in Nat /\ Len(tokens') = n + 1 /\ tokens' \in Seq(Token) /\ tokens'[n + 1] = t
       /\ \A k \in 1 .. n : tokens'[k] = tokens[k]
       /\ tokens' # <<>>
  BY <1>1, <1>2, <1>9, AppendProperties, LenProperties
<1>12. DOMAIN tokens' = 1 .. n + 1 /\ DOMAIN tokens = 1 .. n /\ (tokens = <<>> <=> n = 0)
  BY <1>2, <1>11, LenProperties, EmptySeq
<1>13. Scanned'
  <2>1. (Ends(source) /\ files \in Nat)' /\ scanning' \in BOOLEAN /\ tokens' \in Seq(Token)
    BY <1>1, <1>2, <1>11
  <2>2. Covers(source, tokens)' /\ current' = EndOf(tokens')
    BY <1>1, <1>10
  <2>3. scanning' => current' \in 1 .. Len(source')
    <3>1. scanning' => found.type # "EOF"
      BY <1>1
    <3>2. found.type # "EOF" => found.end \in 1 .. Len(source)
      BY <1>2, <1>4, <1>7
    <3> QED
      BY <3>1, <3>2, <1>1
  <2>4. (scanning \in BOOLEAN)'
    BY <1>1
  <2> QED
    BY <2>1, <2>2, <2>3, <2>4 DEF Scanned
<1>14. Prev'
  BY <1>1, <1>6, <1>11 DEF Prev
<1>15. Quoted'
  <2> SUFFICES ASSUME NEW k \in 1 .. n + 1, tokens'[k].type = "STRING"
               PROVE  tokens'[k].length >= 2
    BY <1>12 DEF Quoted
  <2>1. CASE k = n + 1
    BY <2>1, <1>6, <1>7, <1>11
  <2>2. CASE k \in 1 .. n
    BY <2>2, <1>11, <1>12 DEF ScanInv, Quoted
  <2> QED
    BY <2>1, <2>2, <1>11
<1>16. before = IF n + 1 = 1 THEN "EOF" ELSE tokens'[(n + 1) - 1].type
  <2>1. n # 0 => (n + 1) - 1 \in 1 .. n /\ (n + 1) - 1 = n
    BY <1>11
  <2> QED
    BY <2>1, <1>11, <1>12
<1> HIDE DEF n, before
<1>17. LongestMatch'
  <2>1. CASE found.type = "EOF"
    BY <2>1, <1>1 DEF LongestMatch
  <2>2. CASE found.type # "EOF"
    <3>1. Longest(s, found, before)
      BY <2>2, <1>7
    <3>2. /\ \A m \in t.length + 1 .. Len(source) - t.start : Spelled(Part(s, m), before) = {}
          /\ IF t.type = "ERROR"
             THEN \A m \in 1 .. t.length : Spelled(Part(s, m), before) = {}
             ELSE t.type \in Spelled(Part(s, t.length), before)
      BY <3>1, <1>6 DEF Longest
    <3> QED
      BY <3>2, <1>1, <1>6, <1>11, <1>16 DEF LongestMatch, Part
  <2> QED
    BY <2>1, <2>2
<1> QED
  BY <1>13, <1>14, <1>15, <1>17 DEF ScanInv

(* Every step keeps the invariant. *)
LEMMA ScanStep == ASSUME ScanInv, [Next]_vars PROVE ScanInv'
<1>1. CASE scan
  BY <1>1, ScanFile
<1>2. CASE scan_token
  BY <1>2, ScanToken
<1>3. CASE UNCHANGED vars
  BY <1>3 DEF vars, ScanInv, Scanned, Prev, Quoted, LongestMatch
<1> QED
  BY <1>1, <1>2, <1>3 DEF Next

(* The invariant says what Tiles says. *)
LEMMA ScanTiles == ASSUME ScanInv PROVE Tiles
BY DEF ScanInv, Scanned, Tiles, Covers

(* The tokens of a file lie in it in order, and only white space is left   *)
(* between them (token.c:102-115, 279-290).                                *)
THEOREM NoCharacterIsLost == Spec => []Tiles
<1>1. Init => ScanInv
  BY ScanInit
<1>2. ScanInv /\ [Next]_vars => ScanInv'
  BY ScanStep
<1>3. ScanInv => Tiles
  BY ScanTiles
<1> QED
  BY <1>1, <1>2, <1>3, PTL DEF Spec

(* Each token is the longest one that starts where it does, and an error   *)
(* only where none starts (token.c:151).                                   *)
THEOREM TokensAreLongest == Spec => []LongestMatch
<1>1. Init => ScanInv
  BY ScanInit
<1>2. ScanInv /\ [Next]_vars => ScanInv'
  BY ScanStep
<1>3. ScanInv => LongestMatch
  BY DEF ScanInv
<1> QED
  BY <1>1, <1>2, <1>3, PTL DEF Spec

-----------------------------------------------------------------------------
(* escape_string(): its characters are apart, and all of a source are      *)
(* among them.                                                             *)
LEMMA EscapeCharacters ==
  /\ E!CharactersDiffer /\ Characters \subseteq E!Characters
  /\ "\\" # "n" /\ "\n" # "\\" /\ "\n" # "n" /\ NUL # "\\" /\ NUL # "n"
BY MeaningAssumption, CharactersAssumption
   DEF E!CharactersDiffer, E!Characters, Meaning

(* The recursion of Kept ends, and does what it says. *)
LEMMA KeptUnfolds ==
  ASSUME NEW S, NEW text \in Seq(S)
  PROVE  /\ E!Kept(text)[0] = <<>>
         /\ \A k \in 1 .. Len(text) :
              E!Kept(text)[k] = IF E!Escapes(text, k) THEN E!Kept(text)[k - 1]
                                ELSE Append(E!Kept(text)[k - 1], k)
         /\ \A k \in 0 .. Len(text) : E!Kept(text)[k] \in Seq(Nat)
<1> DEFINE N == Len(text)
           Grow(q, k) == IF E!Escapes(text, k) THEN q ELSE Append(q, k)
           Turn(g, k) == IF k = 0 THEN <<>> ELSE Grow(g[k - 1], k)
           Upto(m) == \E g : g = [k \in 0 .. m |-> Turn(g, k)]
           T == {m \in Nat : Upto(m)}
<1>1. N \in Nat
  OBVIOUS
<1> HIDE DEF N, Grow
<1>2. Upto(0)
  <2> DEFINE g == [k \in 0 .. 0 |-> <<>>]
  <2>1. g = [k \in 0 .. 0 |-> Turn(g, k)]
    OBVIOUS
  <2> QED
    BY <2>1
<1>3. ASSUME NEW m \in Nat, Upto(m) PROVE Upto(m + 1)
  <2>1. PICK g : g = [k \in 0 .. m |-> Turn(g, k)]
    BY <1>3
  <2> DEFINE h == [k \in 0 .. m + 1 |-> IF k = m + 1 THEN Grow(g[m], m + 1) ELSE g[k]]
  <2>2. ASSUME NEW k \in 0 .. m + 1 PROVE h[k] = Turn(h, k)
    <3>1. CASE k = m + 1
      <4>1. h[k] = Grow(g[m], m + 1) /\ k # 0 /\ k - 1 = m /\ h[m] = g[m]
        BY <3>1
      <4> QED
        BY <3>1, <4>1
    <3>2. CASE k # m + 1
      <4>1. k \in 0 .. m /\ h[k] = g[k]
        BY <3>2
      <4>2. g[k] = Turn(g, k)
        <5> HIDE DEF Turn
        <5> QED
          BY <2>1, <4>1
      <4>3. k # 0 => h[k - 1] = g[k - 1]
        BY <4>1
      <4> QED
        BY <4>1, <4>2, <4>3
    <3> QED
      BY <3>1, <3>2
  <2>3. h = [k \in 0 .. m + 1 |-> Turn(h, k)]
    <3> DEFINE r == [k \in 0 .. m + 1 |-> Turn(h, k)]
    <3>1. \A k \in 0 .. m + 1 : h[k] = r[k]
      <4> HIDE DEF h, Turn
      <4> QED
        BY <2>2
    <3>2. h = [k \in 0 .. m + 1 |-> h[k]] /\ r = [k \in 0 .. m + 1 |-> r[k]]
      OBVIOUS
    <3> HIDE DEF h, r
    <3>3. h = r
      BY <3>1, <3>2
    <3> QED
      BY <3>3 DEF r
  <2> HIDE DEF h, Turn
  <2> QED
    BY <2>3
<1>4. N \in T
  <2> HIDE DEF Upto
  <2>1. T \in SUBSET Nat /\ 0 \in T /\ \A m \in T : m + 1 \in T
    BY <1>2, <1>3
  <2> HIDE DEF T
  <2>2. T = Nat
    BY <2>1, Induction
  <2> QED
    BY <2>2, <1>1
<1>5. PICK g : g = [k \in 0 .. N |-> Turn(g, k)]
  BY <1>4
<1>6. E!Kept(text) = CHOOSE w : w = [k \in 0 .. N |-> Turn(w, k)]
  BY DEF E!Kept, N, Grow
<1> DEFINE w == E!Kept(text)
<1>7. w = [k \in 0 .. N |-> Turn(w, k)]
  <2> HIDE DEF Turn
  <2> QED
    BY <1>5, <1>6
<1> HIDE DEF w
<1>8. w[0] = <<>> /\ \A k \in 1 .. N : w[k] = Grow(w[k - 1], k)
  <2>1. \A k \in 0 .. N : w[k] = Turn(w, k)
    <3> HIDE DEF Turn
    <3> QED
      BY <1>7
  <2>2. 0 \in 0 .. N /\ \A k \in 1 .. N : k \in 0 .. N /\ k # 0
    BY <1>1
  <2> QED
    BY <2>1, <2>2
<1>9. \A k \in 0 .. N : w[k] \in Seq(Nat)
  <2> DEFINE U == {m \in Nat : m <= N => w[m] \in Seq(Nat)}
  <2>1. 0 \in U
    <3>1. <<>> \in Seq(Nat)
      OBVIOUS
    <3> HIDE DEF Turn
    <3> QED
      BY <3>1, <1>8
  <2>2. ASSUME NEW m \in U PROVE m + 1 \in U
    <3> SUFFICES ASSUME m + 1 <= N PROVE w[m + 1] \in Seq(Nat)
      OBVIOUS
    <3>1. w[m] \in Seq(Nat) /\ m + 1 \in 1 .. N /\ (m + 1) - 1 = m
      BY <1>1
    <3>2. w[m + 1] = Grow(w[m], m + 1)
      BY <1>8, <3>1
    <3>3. Append(w[m], m + 1) \in Seq(Nat)
      BY <3>1, AppendProperties
    <3> QED
      BY <3>1, <3>2, <3>3 DEF Grow
  <2>3. U \in SUBSET Nat
    OBVIOUS
  <2> HIDE DEF U
  <2>4. U = Nat
    BY <2>1, <2>2, <2>3, Induction
  <2> QED
    BY <2>4, <1>1 DEF U
<1> QED
  BY <1>8, <1>9 DEF w, N, Grow

(* What is between the quotes of a string are characters of the source.    *)
LEMMA InsideIs ==
  ASSUME ScanInv, NEW k \in DOMAIN tokens, tokens[k].type = "STRING"
  PROVE  Inside(tokens[k]) \in Seq(E!Characters)
<1> DEFINE t == tokens[k]
           a == t.start + 1
           b == t.start + t.length - 2
<1>1. /\ Ends(source) /\ Len(source) \in Nat /\ Covers(source, tokens)
      /\ tokens \in Seq(Token)
  BY DEF ScanInv, Scanned, Ends
<1>2. t.start \in Nat \ {0} /\ t.length \in Nat \ {0} /\ t.length >= 2
  <2>1. t \in Token
    BY <1>1, ElementOfSeq, LenProperties
  <2>2. t.length >= 2
    BY DEF ScanInv, Quoted
  <2> QED
    BY <2>1, <2>2 DEF Token
<1>3. t.start + t.length <= Len(source) + (IF t.type = "EOF" THEN 1 ELSE 0)
  BY <1>1 DEF Covers
<1>4. a \in 1 .. Len(source) + 1 /\ b \in a - 1 .. Len(source) /\ b < Len(source)
  BY <1>1, <1>2, <1>3
<1> HIDE DEF a, b
<1> DEFINE x == SubSeq(source, a, b)
<1>5. /\ Len(x) \in Nat /\ DOMAIN x = 1 .. Len(x) /\ x \in Seq(Characters \cup {NUL})
      /\ Len(x) = b - a + 1
      /\ \A j \in 1 .. b - a + 1 : x[j] = source[a + j - 1]
  <2>1. source \in Seq(Characters \cup {NUL})
    BY <1>1 DEF Ends
  <2>2. /\ x \in Seq(Characters \cup {NUL}) /\ Len(x) = b - a + 1
        /\ \A j \in 1 .. b - a + 1 : x[j] = source[a + j - 1]
    BY <2>1, <1>1, <1>4, SubSeqProperties
  <2> HIDE DEF x
  <2> QED
    BY <2>2, LenProperties
<1> HIDE DEF x
<1>6. \A j \in 1 .. Len(x) : x[j] \in E!Characters
  <2> TAKE j \in 1 .. Len(x)
  <2>1. a + j - 1 \in 1 .. Len(source) /\ a + j - 1 # Len(source)
    BY <1>1, <1>4, <1>5
  <2> QED
    BY <2>1, <1>1, <1>5, EscapeCharacters DEF Ends
<1>7. x \in [1 .. Len(x) -> E!Characters]
  BY <1>5, <1>6, LenProperties
<1>8. x \in Seq(E!Characters)
  BY <1>5, <1>7, SeqDef
<1> QED
  BY <1>8 DEF Inside, x, a, b


(* Copied is what the text keeps so far, and a backslash in front of an n  *)
(* that is yet to come; and the character read last is known.              *)
Copied ==
  /\ last = IF i = 0 THEN NUL ELSE original[i]
  /\ pos = Len(E!Kept(original)[i])
             + (IF i # 0 /\ E!Escapes(original, i) THEN 1 ELSE 0)
  /\ \A k \in 1 .. Len(E!Kept(original)[i]) :
       str[k] = E!Means(original, E!Kept(original)[i][k])
  /\ done => i = Len(original)

(* A backslash at the end of the copy is the character read last.          *)
LastKept == pos > 0 /\ str[pos] = "\\" => last = "\\"

CopyInv == E!TypeOK /\ Copied /\ LastKept /\ E!NoEscapeLeft

(* An empty copy is right. *)
LEMMA CopyStarts == \A text \in Seq(E!Characters) : E!Start(text) => CopyInv
<1> SUFFICES ASSUME NEW text \in Seq(E!Characters), E!Start(text) PROVE CopyInv
  OBVIOUS
<1>1. Len(text) \in Nat
  OBVIOUS
<1>2. /\ original = text /\ i = 0 /\ pos = 0 /\ last = NUL /\ done = FALSE
      /\ str = [k \in 1 .. Len(text) + 1 |-> NUL]
  BY DEF E!Start
<1>3. E!TypeOK
  <2>1. original \in Seq(E!Characters) /\ i \in 0 .. Len(original) /\ pos \in 0 .. i
    BY <1>1, <1>2
  <2>2. str \in [1 .. Len(original) + 1 -> E!Characters \cup {NUL}]
    BY <1>2
  <2>3. last \in E!Characters \cup {NUL} /\ done \in BOOLEAN /\ last # "\\"
    BY <1>2, EscapeCharacters
  <2> QED
    BY <2>1, <2>2, <2>3 DEF E!TypeOK
<1>4. E!Kept(original)[0] = <<>>
  BY <1>2, KeptUnfolds
<1>5. Copied
  BY <1>2, <1>4 DEF Copied
<1>6. LastKept /\ E!NoEscapeLeft
  BY <1>2 DEF LastKept, E!NoEscapeLeft
<1> QED
  BY <1>3, <1>5, <1>6 DEF CopyInv

(* Every step writes within the copy. *)
LEMMA CopyTypes == ASSUME E!TypeOK, E!Next PROVE E!TypeOK'
<1>1. E!CharactersDiffer
  BY EscapeCharacters
<1>2. CASE E!escape
  BY <1>1, <1>2 DEF E!TypeOK, E!escape, E!IsEscape, E!current, E!CharactersDiffer, E!Characters
<1>3. CASE E!copy
  <2>1. E!current \in E!Characters
    BY <1>3 DEF E!copy, E!current, E!TypeOK
  <2> QED
    BY <1>3, <2>1 DEF E!TypeOK, E!copy
<1>4. CASE E!return
  BY <1>4 DEF E!TypeOK, E!return
<1> QED
  BY <1>2, <1>3, <1>4 DEF E!Next

(* What Kept becomes with one more character of the text.                  *)
LEMMA KeptNext ==
  ASSUME E!TypeOK, i < Len(original), NEW old, old = E!Kept(original)[i],
         NEW new, new = E!Kept(original)[i + 1]
  PROVE  /\ i \in Nat /\ Len(original) \in Nat /\ Len(old) \in Nat
         /\ E!Escapes(original, i + 1) => new = old
         /\ ~E!Escapes(original, i + 1) =>
              /\ Len(new) = Len(old) + 1 /\ new[Len(old) + 1] = i + 1
              /\ \A k \in 1 .. Len(old) : new[k] = old[k]
<1>1. /\ original \in Seq(E!Characters) /\ i \in Nat /\ Len(original) \in Nat
      /\ i \in 0 .. Len(original) /\ i + 1 \in 1 .. Len(original) /\ (i + 1) - 1 = i
  BY DEF E!TypeOK
<1>2. new = IF E!Escapes(original, i + 1) THEN old ELSE Append(old, i + 1)
  BY <1>1, KeptUnfolds
<1>3. old \in Seq(Nat)
  BY <1>1, KeptUnfolds
<1> QED
  BY <1>1, <1>2, <1>3, AppendProperties, LenProperties

(* The newline takes the place of the backslash, and no escape is left.    *)
LEMMA EscapeCopies == ASSUME CopyInv, E!escape PROVE Copied' /\ LastKept' /\ E!NoEscapeLeft'
<1> DEFINE old == E!Kept(original)[i]
           new == E!Kept(original)[i + 1]
<1>1. /\ i < Len(original) /\ last = "\\" /\ original[i + 1] = "n" /\ E!TypeOK
      /\ str' = [str EXCEPT ![pos] = "\n"] /\ pos' = pos /\ i' = i + 1
      /\ last' = original[i + 1] /\ original' = original /\ done' = done
  BY DEF CopyInv, E!escape, E!IsEscape, E!current
<1>2. /\ i \in Nat /\ Len(original) \in Nat /\ pos \in Nat /\ pos > 0
      /\ pos \in 1 .. Len(original) + 1 /\ DOMAIN str = 1 .. Len(original) + 1
  BY <1>1 DEF E!TypeOK
<1>3. i # 0 /\ original[i] = "\\"
  BY <1>1, EscapeCharacters DEF CopyInv, Copied
<1>4. E!Escapes(original, i) /\ ~E!Escapes(original, i + 1)
  BY <1>1, <1>2, <1>3, EscapeCharacters DEF E!Escapes
<1>5. /\ Len(old) \in Nat /\ Len(new) = Len(old) + 1 /\ new[Len(old) + 1] = i + 1
      /\ \A k \in 1 .. Len(old) : new[k] = old[k]
  BY <1>1, <1>4, KeptNext
<1>6. /\ pos = Len(old) + 1
      /\ \A k \in 1 .. Len(old) : str[k] = E!Means(original, old[k])
  BY <1>3, <1>4 DEF CopyInv, Copied
<1>7. str'[pos] = "\n" /\ \A k \in 1 .. pos - 1 : str'[k] = str[k]
  BY <1>1, <1>2
<1>8. E!Means(original, i + 1) = "\n"
  <2>1. i + 1 > 1 /\ (i + 1) - 1 = i
    BY <1>2, <1>3
  <2> QED
    BY <2>1, <1>4 DEF E!Means
<1> HIDE DEF old, new
<1>9. \A k \in 1 .. Len(new) : str'[k] = E!Means(original, new[k])
  <2> TAKE k \in 1 .. Len(new)
  <2>1. CASE k = pos
    BY <2>1, <1>5, <1>6, <1>7, <1>8
  <2>2. CASE k # pos
    <3>1. k \in 1 .. Len(old) /\ k \in 1 .. pos - 1
      BY <2>2, <1>5, <1>6
    <3> QED
      BY <3>1, <1>5, <1>6, <1>7
  <2> QED
    BY <2>1, <2>2
<1>10. done' => FALSE
  BY <1>1 DEF CopyInv, Copied
<1>11. Copied'
  <2>1. i + 1 # 0 /\ Len(new) = pos
    BY <1>2, <1>5, <1>6
  <2> QED
    BY <1>1, <1>2, <1>4, <1>5, <1>6, <1>9, <1>10, <2>1 DEF Copied, new
<1>12. LastKept'
  BY <1>1, <1>7, EscapeCharacters DEF LastKept
<1>13. E!NoEscapeLeft'
  <2> SUFFICES ASSUME NEW k \in 1 .. pos - 1 PROVE ~(str'[k] = "\\" /\ str'[k + 1] = "n")
    BY <1>1 DEF E!NoEscapeLeft
  <2>1. CASE k = pos - 1
    <3>1. k + 1 = pos
      BY <2>1, <1>2
    <3> QED
      BY <3>1, <1>7, EscapeCharacters
  <2>2. CASE k # pos - 1
    <3>1. k + 1 \in 1 .. pos - 1
      BY <2>2, <1>2
    <3> QED
      BY <3>1, <1>7 DEF CopyInv, E!NoEscapeLeft
  <2> QED
    BY <2>1, <2>2
<1> QED
  BY <1>11, <1>12, <1>13

(* A copied character is kept, or is the backslash of an escape to come.   *)
LEMMA CopyCopies == ASSUME CopyInv, E!copy PROVE Copied' /\ LastKept' /\ E!NoEscapeLeft'
<1> DEFINE old == E!Kept(original)[i]
           new == E!Kept(original)[i + 1]
           c == original[i + 1]
<1>1. /\ i < Len(original) /\ ~(last = "\\" /\ c = "n") /\ E!TypeOK
      /\ str' = [str EXCEPT ![pos + 1] = c] /\ pos' = pos + 1 /\ i' = i + 1
      /\ last' = c /\ original' = original /\ done' = done
  BY DEF CopyInv, E!copy, E!IsEscape, E!current
<1>2. /\ i \in Nat /\ Len(original) \in Nat /\ pos \in Nat
      /\ pos + 1 \in 1 .. Len(original) + 1 /\ DOMAIN str = 1 .. Len(original) + 1
  BY <1>1 DEF E!TypeOK
<1>3. i # 0 => ~E!Escapes(original, i)
  BY <1>1 DEF CopyInv, Copied, E!Escapes
<1>4. /\ Len(old) \in Nat
      /\ E!Escapes(original, i + 1) => new = old
      /\ ~E!Escapes(original, i + 1) =>
           /\ Len(new) = Len(old) + 1 /\ new[Len(old) + 1] = i + 1
           /\ \A k \in 1 .. Len(old) : new[k] = old[k]
  BY <1>1, KeptNext
<1>5. pos = Len(old) /\ \A k \in 1 .. Len(old) : str[k] = E!Means(original, old[k])
  <2>1. ~(i # 0 /\ E!Escapes(original, i))
    BY <1>3
  <2>2. pos = Len(old) + 0 /\ \A k \in 1 .. Len(old) : str[k] = E!Means(original, old[k])
    BY <2>1 DEF CopyInv, Copied
  <2> QED
    BY <2>2, <1>4
<1>6. str'[pos + 1] = c /\ \A k \in 1 .. pos : str'[k] = str[k]
  BY <1>1, <1>2
<1>7. E!Means(original, i + 1) = c
  <2>1. i + 1 > 1 => i # 0 /\ (i + 1) - 1 = i
    BY <1>2
  <2> QED
    BY <2>1, <1>3 DEF E!Means
<1> HIDE DEF old, new, c
<1>8. /\ pos + 1 = Len(new) + (IF E!Escapes(original, i + 1) THEN 1 ELSE 0)
      /\ \A k \in 1 .. Len(new) : str'[k] = E!Means(original, new[k])
  <2>1. CASE E!Escapes(original, i + 1)
    BY <2>1, <1>4, <1>5, <1>6
  <2>2. CASE ~E!Escapes(original, i + 1)
    <3>1. pos + 1 = Len(new) /\ Len(new) = Len(old) + 1
      BY <2>2, <1>4, <1>5
    <3>2. ASSUME NEW k \in 1 .. Len(new) PROVE str'[k] = E!Means(original, new[k])
      <4>1. CASE k = Len(old) + 1
        BY <4>1, <2>2, <1>4, <1>5, <1>6, <1>7
      <4>2. CASE k # Len(old) + 1
        <5>1. k \in 1 .. Len(old) /\ k \in 1 .. pos
          BY <4>2, <3>1, <1>4, <1>5
        <5> QED
          BY <5>1, <2>2, <1>4, <1>5, <1>6
      <4> QED
        BY <4>1, <4>2
    <3> QED
      BY <2>2, <3>1, <3>2
  <2> QED
    BY <2>1, <2>2
<1>9. done' => FALSE
  BY <1>1, <1>2 DEF CopyInv, Copied
<1>10. Copied'
  <2>1. i + 1 # 0
    BY <1>2
  <2> QED
    BY <1>1, <1>8, <1>9, <2>1 DEF Copied, new, c
<1>11. LastKept'
  BY <1>1, <1>6 DEF LastKept
<1>12. E!NoEscapeLeft'
  <2> SUFFICES ASSUME NEW k \in 1 .. pos PROVE ~(str'[k] = "\\" /\ str'[k + 1] = "n")
    BY <1>1, <1>2 DEF E!NoEscapeLeft
  <2>1. CASE k = pos
    BY <2>1, <1>1, <1>6 DEF CopyInv, LastKept
  <2>2. CASE k # pos
    <3>1. k + 1 \in 1 .. pos /\ k \in 1 .. pos - 1
      BY <2>2, <1>2
    <3> QED
      BY <3>1, <1>6 DEF CopyInv, E!NoEscapeLeft
  <2> QED
    BY <2>1, <2>2
<1> QED
  BY <1>10, <1>11, <1>12

(* Every step of escape_string() keeps the copy right. *)
LEMMA CopyStep == ASSUME CopyInv, E!Next PROVE CopyInv'
<1>1. E!TypeOK'
  BY CopyTypes DEF CopyInv
<1>2. CASE E!return
  <2>1. Copied' /\ LastKept' /\ E!NoEscapeLeft'
    BY <1>2 DEF CopyInv, Copied, LastKept, E!NoEscapeLeft, E!return
  <2> QED
    BY <1>1, <2>1 DEF CopyInv
<1> QED
  BY <1>1, <1>2, EscapeCopies, CopyCopies DEF CopyInv, E!Next

(* At the end, what is copied is all that the text keeps. *)
LEMMA CopyUnescaped == ASSUME CopyInv PROVE Unescaped
<1>1. Len(original) \in Nat /\ E!TypeOK
  BY DEF CopyInv, E!TypeOK
<1>2. ~E!Escapes(original, Len(original))
  BY <1>1 DEF E!Escapes
<1>3. ASSUME done
      PROVE  LET kept == E!Kept(original)[Len(original)]
             IN  pos = Len(kept) /\ \A k \in 1 .. pos : str[k] = E!Means(original, kept[k])
  <2> DEFINE kept == E!Kept(original)[Len(original)]
  <2>1. kept \in Seq(Nat)
    BY <1>1, KeptUnfolds DEF E!TypeOK
  <2>2. Len(kept) \in Nat
    BY <2>1
  <2>3. /\ pos = Len(kept) + 0
        /\ \A k \in 1 .. Len(kept) : str[k] = E!Means(original, kept[k])
    BY <1>2, <1>3 DEF CopyInv, Copied
  <2> HIDE DEF kept
  <2>4. pos = Len(kept) /\ \A k \in 1 .. pos : str[k] = E!Means(original, kept[k])
    BY <2>2, <2>3
  <2> QED
    BY <2>4 DEF kept
<1> QED
  BY <1>1, <1>3 DEF Unescaped, E!Unescaped
-----------------------------------------------------------------------------
(* The scanner and escape_string() together: the string that is copied     *)
(* next is one of the tokens.                                              *)
LiteralsInv == ScanInv /\ CopyInv /\ next \in Nat \ {0}

(* At first there is nothing to copy. *)
LEMMA LiteralsStarts == ASSUME LiteralsInit PROVE LiteralsInv
<1>1. ScanInv
  BY ScanInit DEF LiteralsInit
<1>2. <<>> \in Seq(E!Characters)
  OBVIOUS
<1>3. CopyInv
  BY <1>2, CopyStarts DEF LiteralsInit
<1> QED
  BY <1>1, <1>3 DEF LiteralsInv, LiteralsInit

(* A new copy is that of a string of the source. *)
LEMMA CreateString == ASSUME LiteralsInv, create_string PROVE LiteralsInv'
<1>1. PICK k \in Strings : /\ next' = k + 1 /\ original' = Inside(tokens[k])
                           /\ str' = [j \in 1 .. Len(Inside(tokens[k])) + 1 |-> NUL]
  BY DEF create_string
<1>2. /\ i' = 0 /\ pos' = 0 /\ last' = NUL /\ done' = FALSE
      /\ ~scanning /\ UNCHANGED vars
  BY DEF create_string
<1>3. k \in DOMAIN tokens /\ tokens[k].type = "STRING" /\ k + 1 \in Nat \ {0}
  <2>1. tokens \in Seq(Token)
    BY DEF LiteralsInv, ScanInv, Scanned
  <2> QED
    BY <2>1, LenProperties DEF Strings, LiteralsInv
<1>4. Inside(tokens[k]) \in Seq(E!Characters)
  BY <1>3, InsideIs DEF LiteralsInv
<1>5. CopyInv'
  <2>1. (\A text \in Seq(E!Characters) : E!Start(text) => CopyInv)'
    BY CopyStarts, PTL
  <2>2. E!Start(original)'
    BY <1>1, <1>2 DEF E!Start
  <2>3. original' \in Seq(E!Characters)
    BY <1>1, <1>4
  <2> QED
    BY <2>1, <2>2, <2>3 DEF E!Start
<1>6. ScanInv'
  BY <1>2, ScanStep DEF LiteralsInv
<1> QED
  BY <1>1, <1>3, <1>5, <1>6 DEF LiteralsInv

(* Every step keeps both invariants. *)
LEMMA LiteralsStep ==
  ASSUME LiteralsInv, [LiteralsNext]_<<vars, literals>> PROVE LiteralsInv'
<1>1. CASE scan_file \/ scan_next
  <2>1. ScanInv'
    BY <1>1, ScanStep DEF scan_file, scan_next, Next, LiteralsInv
  <2>2. UNCHANGED <<original, i, str, pos, last, done>> /\ next' \in Nat \ {0}
    BY <1>1 DEF scan_file, scan_next, literals, LiteralsInv
  <2>3. CopyInv'
    BY <2>2 DEF LiteralsInv, CopyInv, Copied, LastKept, E!TypeOK, E!NoEscapeLeft
  <2> QED
    BY <2>1, <2>2, <2>3 DEF LiteralsInv
<1>2. CASE create_string
  BY <1>2, CreateString
<1>3. CASE escape_string
  <2>1. CopyInv' /\ ScanInv'
    BY <1>3, CopyStep, ScanStep DEF escape_string, LiteralsInv
  <2> QED
    BY <1>3, <2>1 DEF escape_string, LiteralsInv
<1>4. CASE UNCHANGED <<vars, literals>>
  <2>1. UNCHANGED vars /\ UNCHANGED literals
    BY <1>4
  <2>2. ScanInv'
    BY <2>1, ScanStep DEF LiteralsInv
  <2>3. CopyInv' /\ next' = next
    BY <2>1 DEF literals, LiteralsInv, CopyInv, Copied, LastKept, E!TypeOK, E!NoEscapeLeft
  <2> QED
    BY <2>2, <2>3 DEF LiteralsInv
<1> QED
  BY <1>1, <1>2, <1>3, <1>4 DEF LiteralsNext

(* The copy of every string of every file is what stands between its       *)
(* quotes, with a newline for every backslash that an n follows; nothing   *)
(* is written before or behind it (parser.c:242-266).                      *)
THEOREM CopiesAreUnescaped == LiteralsSpec => []Unescaped
<1>1. LiteralsInit => LiteralsInv
  BY LiteralsStarts
<1>2. LiteralsInv /\ [LiteralsNext]_<<vars, literals>> => LiteralsInv'
  BY LiteralsStep
<1>3. LiteralsInv => Unescaped
  BY CopyUnescaped DEF LiteralsInv
<1> QED
  BY <1>1, <1>2, <1>3, PTL DEF LiteralsSpec

(* Nor has any copy, finished or not, a backslash with an n behind it.     *)
THEOREM NoEscapeIsLeft == LiteralsSpec => []E!NoEscapeLeft
<1>1. LiteralsInit => LiteralsInv
  BY LiteralsStarts
<1>2. LiteralsInv /\ [LiteralsNext]_<<vars, literals>> => LiteralsInv'
  BY LiteralsStep
<1>3. LiteralsInv => E!NoEscapeLeft
  BY DEF LiteralsInv, CopyInv
<1> QED
  BY <1>1, <1>2, <1>3, PTL DEF LiteralsSpec
=============================================================================
