---------------------------- MODULE TypesProofs ----------------------------
(***************************************************************************)
(* The proofs about Types, for all functions, parameters and types of any  *)
(* length: what keeps to the checker's rules generates, and what is stored *)
(* where in a rest array.                                                  *)
(*                                                                         *)
(* An array that is loaded is given as an address, so that its LLVM type   *)
(* is no longer that of its type; and two types that differ may have one   *)
(* LLVM type.  The invariant is therefore about the expressions before     *)
(* they are loaded (Sane), and the lemmas say of each construct that its   *)
(* rules keep arrays out where they would be loaded, or take them for      *)
(* pointers.                                                               *)
(***************************************************************************)
EXTENDS Types, SequenceTheorems, WellFoundedInduction, TLAPS

(* A set of numbers that is not empty has a least element. *)
LEMMA Least == ASSUME NEW T \in SUBSET Nat, T # {}
               PROVE \E x \in T : \A y \in T : x <= y
<1> DEFINE R == OpToRel(<, Nat)
<1>1. IsWellFoundedOn(R, Nat)
  BY NatLessThanWellFounded
<1>2. PICK x \in T : \A y \in T : ~(<<y, x>> \in R)
  <2> HIDE DEF R
  <2> QED
    BY <1>1, WFMin
<1>3. \A y \in T : ~(y < x)
  BY <1>2 DEF OpToRel
<1> QED
  BY <1>3

(* Min is that element. *)
LEMMA MinIs == ASSUME NEW T \in SUBSET Nat, T # {}
               PROVE Min(T) \in T /\ \A y \in T : Min(T) <= y
BY Least DEF Min

(* A word before the words of a type. *)
LEMMA Before1 ==
  ASSUME NEW S, NEW s \in Seq(S), NEW e \in S
  PROVE  /\ <<e>> \o s \in Seq(S) /\ Len(<<e>> \o s) = Len(s) + 1
         /\ <<e>> \o s # <<>> /\ (<<e>> \o s)[1] = e
         /\ \A i \in 1 .. Len(s) : (<<e>> \o s)[i + 1] = s[i]
         /\ \A i \in 2 .. Len(s) + 1 : (<<e>> \o s)[i] = s[i - 1]
<1> DEFINE w == <<e>>
<1>1. w \in Seq(S) /\ Len(w) = 1 /\ w[1] = e /\ Len(s) \in Nat
  OBVIOUS
<1> HIDE DEF w
<1>2. /\ w \o s \in Seq(S) /\ Len(w \o s) = Len(w) + Len(s)
      /\ \A i \in 1 .. Len(w) + Len(s) :
           (w \o s)[i] = IF i <= Len(w) THEN w[i] ELSE s[i - Len(w)]
  BY <1>1, ConcatProperties
<1> DEFINE ws == w \o s
<1> HIDE DEF ws
<1>3. ws \in Seq(S) /\ Len(ws) = Len(s) + 1
  BY <1>1, <1>2 DEF ws
<1>4. ws[1] = e /\ ws # <<>>
  BY <1>1, <1>2, <1>3 DEF ws
<1>5. \A i \in 2 .. Len(s) + 1 : ws[i] = s[i - 1]
  BY <1>1, <1>2 DEF ws
<1>6. \A i \in 1 .. Len(s) : ws[i + 1] = s[i]
  <2> TAKE i \in 1 .. Len(s)
  <2>1. i + 1 \in 2 .. Len(s) + 1 /\ (i + 1) - 1 = i
    BY <1>1
  <2> QED
    BY <1>5, <2>1
<1> QED
  BY <1>3, <1>4, <1>5, <1>6 DEF w, ws

(* A word behind the words of a type. *)
LEMMA Behind1 ==
  ASSUME NEW S, NEW s \in Seq(S), NEW e \in S
  PROVE  /\ Append(s, e) \in Seq(S) /\ Len(Append(s, e)) = Len(s) + 1
         /\ Append(s, e) # <<>>
         /\ \A i \in 1 .. Len(s) : Append(s, e)[i] = s[i]
         /\ s = <<>> => Append(s, e) = <<e>>
<1>1. s = <<>> => Append(s, e) = <<e>>
  OBVIOUS
<1> QED
  BY <1>1, AppendProperties

(* The words of types, and of LLVM types. *)
AnyWord == Words \cup {word("ptr")}

Name == DOMAIN Width \cup {"any"}
Type == {t \in Seq(Words) : IsType(t)}

(* The words that others are nested in, and the names, which are no such.  *)
Array(length) == [kind |-> "array", length |-> length]
Nesting == {word("pointer")} \cup {Array(n) : n \in Nat}

(* The names are none of the words that types are made with, and a word    *)
(* that is no array is told by its name.                                   *)
LEMMA WordsAre ==
  /\ Words \subseteq AnyWord /\ word("ptr") \in AnyWord /\ word("ptr").kind = "ptr"
  /\ Nesting \subseteq Words /\ \A w \in Nesting : w.kind \in {"pointer", "array"}
  /\ \A n \in Nat : Array(n) \in Nesting /\ Array(n).kind = "array"
  /\ word("pointer") \in Nesting /\ word("pointer").kind = "pointer"
  /\ \A w \in Name : word(w) \in Words /\ word(w).kind = w
  /\ \A w \in Name : w # "pointer" /\ w # "array"
  /\ \A w \in Words : w.kind # "array" => w = word(w.kind)
<1>1. Words \subseteq AnyWord /\ word("ptr") \in AnyWord /\ word("ptr").kind = "ptr"
  BY DEF AnyWord, word
<1>2. word("pointer") \in Words /\ word("pointer").kind = "pointer" /\ word("pointer") \in Nesting
  BY DEF Words, word, Nesting
<1>3. \A n \in Nat : Array(n) \in Words /\ Array(n).kind = "array" /\ Array(n) \in Nesting
  BY DEF Words, Array, Nesting
<1>4. \A w \in Nesting : w \in Words /\ w.kind \in {"pointer", "array"}
  <2>1. \A w \in Nesting : w = word("pointer") \/ \E n \in Nat : w = Array(n)
    BY DEF Nesting
  <2> QED
    BY <1>2, <1>3, <2>1
<1>5. \A w \in Name : word(w) \in Words /\ word(w).kind = w
  BY DEF Name, Words, word
<1>6. \A w \in Name : w # "pointer" /\ w # "array"
  BY DEF Width, Name
<1>7. \A w \in Words : w.kind # "array" => w = word(w.kind)
  BY DEF Words, word
<1> QED
  BY <1>1, <1>2, <1>3, <1>4, <1>5, <1>6, <1>7

(* A type of one word is a name; of more, a pointer or an array.           *)
LEMMA TypeIs ==
  ASSUME NEW t \in Type
  PROVE  /\ t \in Seq(Words) /\ t \in Seq(AnyWord) /\ Len(t) \in Nat \ {0} /\ t # NoType
         /\ t[Len(t)].kind \in Name /\ \A i \in 1 .. Len(t) - 1 : t[i].kind \in {"pointer", "array"}
         /\ KindOf(t) = "value" => /\ Len(t) = 1 /\ t[1].kind \in Name /\ t = <<t[1]>>
                                  /\ t[1].kind \notin {"pointer", "array"}
         /\ KindOf(t) # "value" => Len(t) > 1 /\ KindOf(t) = t[1].kind
                                  /\ t[1].kind \in {"pointer", "array"}
<1> DEFINE n == Len(t)
<1>1. t \in Seq(Words) /\ t # <<>> /\ IsType(t)
  BY DEF Type, IsType
<1>2. n \in Nat \ {0}
  BY <1>1, EmptySeq
<1>3. t \in Seq(AnyWord)
  BY <1>1, WordsAre, SeqMonotonic
<1>4. /\ t[n].kind \in Name /\ \A i \in 1 .. n - 1 : t[i].kind \in {"pointer", "array"}
  BY <1>1 DEF IsType, Name
<1>5. ASSUME n = 1 PROVE t = <<t[1]>>
  <2> DEFINE w == t[1]
             u == <<w>>
  <2>1. w \in AnyWord
    <3>1. 1 \in 1 .. Len(t)
      BY <1>5
    <3> QED
      BY <1>3, <3>1, ElementOfSeq
  <2> HIDE DEF w
  <2>2. u \in Seq(AnyWord) /\ Len(u) = 1 /\ u[1] = w
    BY <2>1
  <2> HIDE DEF u
  <2>3. \A i \in 1 .. Len(t) : t[i] = u[i]
    BY <1>5, <2>2 DEF w
  <2>4. t = u
    BY <1>3, <1>5, <2>2, <2>3, SeqEqual
  <2> QED
    BY <2>4 DEF u, w
<1> HIDE DEF n
<1>6. CASE n = 1
  <2>1. t[1].kind \in Name
    BY <1>4, <1>6
  <2>2. t[1].kind # "pointer" /\ t[1].kind # "array"
    BY <2>1, WordsAre
  <2>3. KindOf(t) = "value"
    BY <2>2 DEF KindOf
  <2>4. t = <<t[1]>>
    BY <1>5, <1>6
  <2> QED
    BY <1>1, <1>2, <1>3, <1>4, <1>6, <2>1, <2>2, <2>3, <2>4 DEF NoType, n
<1>7. CASE n # 1
  <2>1. n > 1 /\ 1 \in 1 .. n - 1
    BY <1>2, <1>7
  <2>2. t[1].kind \in {"pointer", "array"}
    BY <1>4, <2>1
  <2>3. KindOf(t) = t[1].kind /\ KindOf(t) # "value"
    BY <2>2 DEF KindOf
  <2> QED
    BY <1>1, <1>2, <1>3, <1>4, <2>1, <2>2, <2>3 DEF NoType, n
<1> QED
  BY <1>6, <1>7

(* A type of one word is told by its name. *)
LEMMA ValueTypeIs ==
  ASSUME NEW t \in Type, KindOf(t) = "value"
  PROVE  t = value_of(t[1].kind) /\ t[1].kind \in Name /\ Len(t) = 1
<1> DEFINE e == t[1]
<1>1. Len(t) = 1 /\ e.kind \in Name /\ t = <<e>> /\ t \in Seq(Words)
  BY TypeIs
<1>2. e \in Words
  <2>1. 1 \in 1 .. Len(t) /\ t \in Seq(Words)
    BY <1>1
  <2> QED
    BY <2>1, ElementOfSeq
<1> HIDE DEF e
<1>3. e = word(e.kind)
  BY <1>1, <1>2, WordsAre
<1> QED
  BY <1>1, <1>3 DEF value_of, e

(* A type without a pointer is its own LLVM type. *)
LEMMA NoPointer ==
  ASSUME NEW t, {i \in 1 .. Len(t) : t[i].kind = "pointer"} = {}
  PROVE  parse_type(t) = t
BY DEF parse_type, SelectInSeq

(* From its first pointer on, a type is a ptr. *)
LEMMA FirstPointer ==
  ASSUME NEW t \in Seq(AnyWord), NEW k \in 1 .. Len(t), t[k].kind = "pointer",
         \A i \in 1 .. k - 1 : t[i].kind # "pointer"
  PROVE  parse_type(t) = Append(SubSeq(t, 1, k - 1), word("ptr"))
<1> DEFINE I == {i \in 1 .. Len(t) : t[i].kind = "pointer"}
           m == Min(I)
<1>1. I \in SUBSET Nat /\ I # {} /\ k \in I
  OBVIOUS
<1>2. parse_type(t) = IF m = 0 THEN t ELSE Append(SubSeq(t, 1, m - 1), word("ptr"))
  BY <1>1 DEF parse_type, SelectInSeq
<1> HIDE DEF I
<1>3. m \in I /\ m <= k
  BY <1>1, MinIs
<1> HIDE DEF m
<1>4. m = k
  BY <1>3 DEF I
<1> QED
  BY <1>2, <1>4

(* The LLVM type of a type tells arrays from the others; a pointer is a    *)
(* ptr, and a name is itself.                                              *)
LEMMA LLVMTypeIs ==
  ASSUME NEW t \in Type
  PROVE  /\ parse_type(t) \in Seq(AnyWord) /\ parse_type(t) # NoType
         /\ parse_type(t)[1].kind = "array" <=> t[1].kind = "array"
         /\ t[1].kind = "pointer" => parse_type(t) = ptr
         /\ KindOf(t) = "value" => parse_type(t) = t
<1> DEFINE I == {i \in 1 .. Len(t) : t[i].kind = "pointer"}
           n == Len(t)
           p == parse_type(t)
<1>1. t \in Seq(AnyWord) /\ n \in Nat \ {0} /\ t # NoType
  BY TypeIs
<1>2. KindOf(t) = "value" => n = 1 /\ t[1].kind # "pointer"
  BY TypeIs
<1>3. CASE I = {}
  <2>1. parse_type(t) = t
    BY <1>3, NoPointer
  <2> HIDE DEF n
  <2>2. 1 \in 1 .. n
    BY <1>1
  <2>3. t[1].kind # "pointer"
    BY <1>3, <2>2 DEF n
  <2> QED
    BY <1>1, <2>1, <2>3
<1>4. CASE I # {}
  <2>1. I \in SUBSET Nat
    OBVIOUS
  <2> HIDE DEF I
  <2>2. PICK k \in I : \A j \in I : k <= j
    BY <1>4, <2>1, Least
  <2>3. k \in 1 .. Len(t) /\ t[k].kind = "pointer" /\ \A i \in 1 .. k - 1 : t[i].kind # "pointer"
    BY <1>1, <2>2 DEF I
  <2>4. p = Append(SubSeq(t, 1, k - 1), word("ptr"))
    BY <1>1, <2>3, FirstPointer
  <2> DEFINE s == SubSeq(t, 1, k - 1)
             e == word("ptr")
  <2>5. \A i \in 1 .. k - 1 : t[i] \in AnyWord
    BY <1>1, <2>3, ElementOfSeq
  <2>6. /\ s \in Seq(AnyWord) /\ Len(s) = k - 1
        /\ \A i \in 1 .. k - 1 : s[i] = t[i]
    BY <1>1, <2>3, <2>5, SubSeqProperties
  <2>7. e \in AnyWord /\ p = Append(s, e)
    BY <2>4, WordsAre
  <2> HIDE DEF s, e, p, n
  <2>8. /\ p \in Seq(AnyWord) /\ p # <<>>
        /\ \A i \in 1 .. Len(s) : p[i] = s[i]
        /\ s = <<>> => p = <<e>>
    BY <2>6, <2>7, Behind1
  <2>9. k \in 1 .. n
    BY <2>3 DEF n
  <2>10. CASE k = 1
    <3>1. s = <<>>
      BY <2>6, <2>10
    <3>2. p = <<e>> /\ t[1].kind = "pointer" /\ KindOf(t) # "value"
      BY <1>2, <2>3, <2>8, <2>10, <3>1
    <3>3. p = ptr /\ p[1].kind = "ptr"
      BY <3>2, WordsAre DEF e, ptr, value_of
    <3> QED
      BY <2>8, <3>2, <3>3 DEF NoType, p
  <2>11. CASE k # 1
    <3>1. 1 \in 1 .. k - 1 /\ 1 \in 1 .. Len(s) /\ n # 1
      BY <1>1, <2>6, <2>9, <2>11
    <3>2. p[1] = t[1] /\ t[1].kind # "pointer" /\ KindOf(t) # "value"
      BY <1>2, <2>3, <2>6, <2>8, <3>1
    <3> QED
      BY <2>8, <3>2 DEF NoType, p
  <2> QED
    BY <2>10, <2>11
<1> QED
  BY <1>3, <1>4

(* A pointer to a type is a type, and so is an array of it. *)
LEMMA OfIs ==
  ASSUME NEW t \in Type, NEW w \in Nesting
  PROVE  <<w>> \o t \in Type
<1> DEFINE a == <<w>> \o t
           n == Len(t)
<1>1. /\ t \in Seq(Words) /\ n \in Nat \ {0} /\ t[n].kind \in Name
      /\ \A i \in 1 .. n - 1 : t[i].kind \in {"pointer", "array"}
  BY TypeIs
<1>2. w \in Words /\ w.kind \in {"pointer", "array"}
  BY WordsAre
<1>3. /\ a \in Seq(Words) /\ Len(a) = n + 1 /\ a[1] = w
      /\ \A i \in 2 .. n + 1 : a[i] = t[i - 1]
  BY <1>1, <1>2, Before1
<1> HIDE DEF a
<1>4. a # <<>> /\ a[n + 1].kind \in Name /\ Len(a) - 1 = n
  BY <1>1, <1>3
<1>5. ASSUME NEW i \in 1 .. n PROVE a[i].kind \in {"pointer", "array"}
  <2>1. CASE i = 1
    BY <1>2, <1>3, <2>1
  <2>2. CASE i # 1
    <3>1. i \in 2 .. n + 1 /\ i - 1 \in 1 .. n - 1
      BY <1>1, <2>2
    <3> QED
      BY <1>1, <1>3, <3>1
  <2> QED
    BY <2>1, <2>2
<1>6. a \in Type
  BY <1>3, <1>4, <1>5 DEF Type, IsType, Name
<1> QED
  BY <1>6 DEF a

(* The LLVM type of an array is an array of that of its items. *)
LEMMA ArrayIs ==
  ASSUME NEW t \in Type, NEW length \in Nat
  PROVE  /\ array_of(t, length) \in Type /\ pointer_to(t) \in Type
         /\ parse_type(array_of(t, length)) = array_of(parse_type(t), length)
<1> DEFINE e == Array(length)
           a == <<e>> \o t
           n == Len(t)
<1>1. e \in AnyWord /\ e \in Nesting /\ e.kind = "array" /\ word("pointer") \in Nesting
  BY WordsAre
<1>2. array_of(t, length) = a /\ array_of(parse_type(t), length) = <<e>> \o parse_type(t)
  BY DEF array_of, Array
<1> HIDE DEF e
<1>3. t \in Seq(AnyWord) /\ n \in Nat \ {0}
  BY TypeIs
<1>4. /\ a \in Seq(AnyWord) /\ Len(a) = n + 1 /\ a[1].kind = "array" /\ a[1] = e
      /\ \A i \in 1 .. n : a[i + 1] = t[i]
      /\ \A i \in 2 .. n + 1 : a[i] = t[i - 1]
  BY <1>1, <1>3, Before1
<1>5. a \in Type /\ pointer_to(t) \in Type
  <2>1. \A w \in Nesting : <<w>> \o t \in Type
    BY OfIs
  <2> QED
    BY <1>1, <2>1 DEF pointer_to
<1> HIDE DEF a
<1>6. parse_type(a) = <<e>> \o parse_type(t)
  <2> DEFINE I == {i \in 1 .. Len(t) : t[i].kind = "pointer"}
             J == {i \in 1 .. Len(a) : a[i].kind = "pointer"}
  <2>1. CASE I = {}
    <3>1. ASSUME NEW i \in 1 .. n + 1 PROVE a[i].kind # "pointer"
      <4>1. CASE i = 1
        BY <1>4, <4>1
      <4>2. CASE i # 1
        <5>1. i \in 2 .. n + 1 /\ i - 1 \in 1 .. n
          BY <1>3, <4>2
        <5>2. a[i] = t[i - 1]
          BY <1>4, <5>1
        <5> QED
          BY <2>1, <5>1, <5>2
      <4> QED
        BY <4>1, <4>2
    <3>3. J = {}
      BY <1>4, <3>1
    <3>2. parse_type(a) = a /\ parse_type(t) = t
      BY <2>1, <3>3, NoPointer
    <3> QED
      BY <3>2 DEF a
  <2>2. CASE I # {}
    <3>1. I \in SUBSET Nat
      OBVIOUS
    <3> HIDE DEF I
    <3>2. PICK k \in I : \A j \in I : k <= j
      BY <2>2, <3>1, Least
    <3>3. k \in 1 .. n /\ t[k].kind = "pointer" /\ \A i \in 1 .. k - 1 : t[i].kind # "pointer"
      BY <1>3, <3>2 DEF I
    <3>4. parse_type(t) = Append(SubSeq(t, 1, k - 1), word("ptr"))
      BY <1>3, <3>3, FirstPointer
    <3>5. k + 1 \in 1 .. Len(a) /\ a[k + 1].kind = "pointer"
      BY <1>3, <1>4, <3>3
    <3>6. ASSUME NEW i \in 1 .. (k + 1) - 1 PROVE a[i].kind # "pointer"
      <4>1. CASE i = 1
        BY <1>4, <4>1
      <4>2. CASE i # 1
        <5>1. i \in 2 .. n + 1 /\ i - 1 \in 1 .. k - 1
          BY <1>3, <3>3, <4>2
        <5> QED
          BY <1>4, <3>3, <5>1
      <4> QED
        BY <4>1, <4>2
    <3>7. parse_type(a) = Append(SubSeq(a, 1, (k + 1) - 1), word("ptr"))
      BY <1>4, <3>5, <3>6, FirstPointer
    <3> DEFINE s == SubSeq(t, 1, k - 1)
               u == SubSeq(a, 1, (k + 1) - 1)
    <3>8. /\ s \in Seq(AnyWord) /\ Len(s) = k - 1
          /\ \A i \in 1 .. k - 1 : s[i] = t[i]
      BY <1>3, <3>3, SubSeqProperties, ElementOfSeq
    <3>9. /\ u \in Seq(AnyWord) /\ Len(u) = k
          /\ \A i \in 1 .. k : u[i] = a[i]
      <4>1. \A i \in 1 .. (k + 1) - 1 : a[i] \in AnyWord
        BY <1>3, <1>4, <3>3, ElementOfSeq
      <4>2. 1 <= (k + 1) - 1 /\ ((k + 1) - 1) - 1 + 1 = k /\ (k + 1) - 1 \in Int
        BY <3>3
      <4>3. /\ u \in Seq(AnyWord) /\ Len(u) = ((k + 1) - 1) - 1 + 1
            /\ \A i \in 1 .. ((k + 1) - 1) - 1 + 1 : u[i] = a[1 + i - 1]
        BY <4>1, <4>2, SubSeqProperties
      <4> QED
        BY <4>2, <4>3
    <3> HIDE DEF s, u
    <3>10. u = <<e>> \o s
      <4> DEFINE w == <<e>> \o s
      <4>1. /\ w \in Seq(AnyWord) /\ Len(w) = k /\ w[1] = e
            /\ \A i \in 2 .. k : w[i] = s[i - 1]
        <5>2. /\ <<e>> \o s \in Seq(AnyWord) /\ Len(<<e>> \o s) = Len(s) + 1
              /\ (<<e>> \o s)[1] = e
              /\ \A i \in 2 .. Len(s) + 1 : (<<e>> \o s)[i] = s[i - 1]
          BY <1>1, <3>8, Before1
        <5>3. Len(s) + 1 = k
          BY <3>3, <3>8
        <5> QED
          BY <5>2, <5>3
      <4> HIDE DEF w
      <4>2. \A i \in 1 .. k : u[i] = w[i]
        <5> TAKE i \in 1 .. k
        <5>1. CASE i = 1
          BY <1>4, <3>9, <4>1, <5>1
        <5>2. CASE i # 1
          <6>1. i \in 2 .. k /\ i - 1 \in 1 .. k - 1 /\ i \in 2 .. n + 1
            BY <1>3, <3>3, <5>2
          <6>2. u[i] = a[i] /\ a[i] = t[i - 1]
            BY <1>4, <3>9, <6>1
          <6>3. w[i] = s[i - 1] /\ s[i - 1] = t[i - 1]
            BY <3>8, <4>1, <6>1
          <6> QED
            BY <6>2, <6>3
        <5> QED
          BY <5>1, <5>2
      <4>3. u = w
        BY <3>9, <4>1, <4>2, SeqEqual
      <4> QED
        BY <4>3 DEF w
    <3>11. Append(<<e>> \o s, word("ptr")) = <<e>> \o Append(s, word("ptr"))
      <4> DEFINE p == word("ptr")
      <4>1. p \in AnyWord
        BY WordsAre
      <4> HIDE DEF p
      <4> QED
        BY <1>1, <3>8, <4>1 DEF p
    <3> QED
      BY <3>4, <3>7, <3>10, <3>11 DEF s, u
  <2> QED
    BY <2>1, <2>2
<1> QED
  BY <1>5, <1>6, <1>2

(* What a pointer or array is of is a type too. *)
LEMMA ItemIs == ASSUME NEW t \in Type, KindOf(t) # "value" PROVE Tail(t) \in Type
<1> DEFINE n == Len(t)
           u == Tail(t)
<1>1. /\ t \in Seq(Words) /\ n \in Nat /\ n > 1 /\ t # <<>>
      /\ t[n].kind \in Name /\ \A i \in 1 .. n - 1 : t[i].kind \in {"pointer", "array"}
  BY TypeIs DEF NoType
<1>2. /\ u \in Seq(Words) /\ Len(u) = n - 1
      /\ \A i \in 1 .. Len(u) : u[i] = t[i + 1]
  BY <1>1, HeadTailProperties
<1> HIDE DEF u, n
<1>3. n - 1 \in 1 .. Len(u) /\ (n - 1) + 1 = n /\ Len(u) - 1 = n - 2
  BY <1>1, <1>2
<1>4. u # <<>> /\ u[Len(u)].kind \in Name
  BY <1>1, <1>2, <1>3
<1>5. ASSUME NEW i \in 1 .. Len(u) - 1 PROVE u[i].kind \in {"pointer", "array"}
  <2>1. i \in 1 .. Len(u) /\ i + 1 \in 1 .. n - 1
    BY <1>1, <1>2
  <2> QED
    BY <1>1, <1>2, <2>1
<1>6. u \in Type
  BY <1>2, <1>4, <1>5 DEF Type, IsType, Name
<1> QED
  BY <1>6 DEF u
-----------------------------------------------------------------------------
(* An expression or variable whose rules were kept has the LLVM type of    *)
(* its type.                                                               *)
Good(v) == v.right => v.llvm = parse_type(v.type)
Places == {"constant", "value", "alloca", "none"}
Values == [type : Type \cup {NoType}, llvm : Seq(AnyWord), place : Places, right : BOOLEAN]
Sane == {v \in Values : /\ Good(v) /\ (v.place = "alloca" => v.llvm # NoType)
                        /\ (v.place = "constant" => v.type # NoType)}

(* What is loaded has it too, but for arrays that are given as addresses.  *)
LEMMA RvalueIs ==
  ASSUME NEW v \in Sane
  PROVE  LET r == handle_rvalue(v)
         IN  /\ r.type = v.type /\ r.right = v.right /\ r.llvm \in Seq(AnyWord)
             /\ v.right /\ ~IsArrayVariable(v) => r.llvm = parse_type(v.type)
             /\ IsArrayVariable(v) => r.llvm = ptr /\ v.llvm[1].kind = "array"
             /\ v.place # "alloca" => r = v
<1>1. /\ v \in Values /\ v.right \in BOOLEAN /\ v.llvm \in Seq(AnyWord)
      /\ (v.right => v.llvm = parse_type(v.type)) /\ (v.place = "alloca" => v.llvm # NoType)
  BY DEF Sane, Values, Good
<1>2. ptr \in Seq(AnyWord)
  BY WordsAre DEF ptr, value_of
<1>3. CASE v.place # "alloca"
  BY <1>1, <1>3 DEF handle_rvalue, IsArrayVariable
<1>4. CASE v.place = "alloca" /\ v.llvm[1].kind = "array"
  <2>1. handle_rvalue(v) = Value(v.type, ptr, "value", v.right)
    BY <1>4 DEF handle_rvalue
  <2>2. IsArrayVariable(v)
    BY <1>1, <1>4 DEF IsArrayVariable
  <2> QED
    BY <1>2, <1>4, <2>1, <2>2 DEF Value
<1>5. CASE v.place = "alloca" /\ v.llvm[1].kind # "array"
  <2>1. handle_rvalue(v) = [v EXCEPT !.place = "value"]
    BY <1>5 DEF handle_rvalue
  <2>2. ~IsArrayVariable(v)
    BY <1>5 DEF IsArrayVariable
  <2>3. LET r == [v EXCEPT !.place = "value"]
        IN  r.type = v.type /\ r.right = v.right /\ r.llvm = v.llvm
    BY <1>1 DEF Values
  <2> QED
    BY <1>1, <1>5, <2>1, <2>2, <2>3
<1> QED
  BY <1>3, <1>4, <1>5

(* Of what keeps to the rules, only arrays are array variables. *)
LEMMA ArrayVariableIs ==
  ASSUME NEW v \in Sane, v.right, IsArrayVariable(v)
  PROVE  v.type # NoType /\ v.type \in Type /\ v.type[1].kind = "array" /\ KindOf(v.type) = "array"
<1>1. /\ v.type \in Type \cup {NoType} /\ v.llvm = parse_type(v.type)
      /\ v.llvm # NoType /\ v.llvm[1].kind = "array"
  BY DEF Sane, Values, Good, IsArrayVariable
<1>2. v.type # NoType
  <2>1. parse_type(NoType) = NoType
    BY NoPointer DEF NoType
  <2> QED
    BY <1>1, <2>1
<1>3. v.type[1].kind = "array"
  BY <1>1, <1>2, LLVMTypeIs
<1> QED
  BY <1>1, <1>2, <1>3 DEF KindOf

Inv ==
  /\ values \in Seq(Sane) /\ variables \in [Names -> Sane]
  /\ judged \in BOOLEAN /\ (judged => status = "running")

(* The last k expressions and those below them. *)
LEMMA OperandsAre ==
  ASSUME Inv, NEW k \in Nat, k <= Len(values)
  PROVE  /\ \A i \in 1 .. k : Operands(k)[i] \in Sane
         /\ Len(Operands(k)) = k
         /\ Below(k) \in Seq(Sane)
<1> DEFINE n == Len(values)
           m == n - k + 1
           o == SubSeq(values, m, n)
           b == SubSeq(values, 1, n - k)
<1>1. values \in Seq(Sane) /\ n \in Nat
  BY DEF Inv
<1>2. o = Operands(k) /\ b = Below(k)
  BY DEF Operands, Below
<1>3. \A i \in 1 .. n : values[i] \in Sane
  BY <1>1, ElementOfSeq
<1> HIDE DEF n
<1>4. m \in Int /\ n \in Int /\ m >= 1 /\ n - m + 1 = k
  BY <1>1 DEF n
<1> HIDE DEF m
<1>5. \A i \in m .. n : values[i] \in Sane
  BY <1>3, <1>4
<1>6. /\ o \in Seq(Sane) /\ Len(o) = IF m <= n THEN n - m + 1 ELSE 0
  BY <1>4, <1>5, SubSeqProperties
<1>7. Len(o) = k
  BY <1>4, <1>6
<1>8. \A i \in 1 .. k : o[i] \in Sane
  BY <1>6, <1>7, ElementOfSeq
<1>9. b \in Seq(Sane)
  <2>1. n - k \in Int /\ 1 \in Int /\ \A i \in 1 .. n - k : values[i] \in Sane
    BY <1>1, <1>3
  <2> QED
    BY <2>1, SubSeqProperties
<1> QED
  BY <1>2, <1>7, <1>8, <1>9

(* What takes the place of the last k expressions keeps the invariant. *)
LEMMA ResultKeeps ==
  ASSUME Inv, NEW k \in Nat, k <= Len(values), NEW outcome, NEW v,
         status = "running", Result(k, outcome, v), UNCHANGED variables,
         v.right \in BOOLEAN, v.right => outcome = "ok", outcome = "ok" => v \in Sane
  PROVE  Inv'
<1>1. judged' = v.right
  BY DEF Result
<1>2. judged' \in BOOLEAN
  BY <1>1, Zenon
<1>3. CASE outcome = "ok"
  <2>1. values' = Append(Below(k), v) /\ status' = status
    BY <1>3 DEF Result
  <2>2. Below(k) \in Seq(Sane) /\ v \in Sane
    BY <1>3, OperandsAre
  <2> DEFINE b == Below(k)
  <2> HIDE DEF b
  <2>3. Append(b, v) \in Seq(Sane)
    BY <2>2, AppendProperties DEF b
  <2> QED
    BY <1>2, <2>1, <2>3 DEF Inv, b
<1>4. CASE outcome # "ok"
  <2>1. values' = values /\ ~v.right
    BY <1>4 DEF Result
  <2>2. ~judged'
    BY <1>1, <2>1, Zenon
  <2> QED
    BY <1>2, <2>1, <2>2 DEF Inv
<1> QED
  BY <1>3, <1>4

(* What a value has to be to be sane. *)
LEMMA ValueIs ==
  ASSUME NEW t \in Type \cup {NoType}, NEW l \in Seq(AnyWord), NEW place \in Places,
         NEW right \in BOOLEAN, right => l = parse_type(t),
         place = "alloca" => l # NoType, place = "constant" => t # NoType
  PROVE  Value(t, l, place, right) \in Sane
<1> DEFINE v == Value(t, l, place, right)
<1>1. v = [type |-> t, llvm |-> l, place |-> place, right |-> right]
  BY DEF Value
<1>2. v \in Values /\ v.type = t /\ v.llvm = l /\ v.place = place /\ v.right = right
  BY <1>1 DEF Values
<1> HIDE DEF v
<1>3. Good(v)
  BY <1>2 DEF Good
<1>4. (v.place = "alloca" => v.llvm # NoType) /\ (v.place = "constant" => v.type # NoType)
  BY <1>2
<1> QED
  BY <1>2, <1>3, <1>4 DEF Sane, v

(* The types of literals and results. *)
LEMMA NamesAre ==
  /\ \A w \in Name : value_of(w) \in Type
  /\ s4 \in Type /\ bool \in Type /\ pointer_to(value_of("s1")) \in Type
<1>1. ASSUME NEW w \in Name PROVE value_of(w) \in Type
  <2> DEFINE e == word(w)
             t == <<e>>
  <2>1. e \in Words /\ e.kind = w
    BY WordsAre
  <2> HIDE DEF e
  <2>2. t \in Seq(Words) /\ t # <<>> /\ Len(t) = 1 /\ t[1].kind = w
    BY <2>1
  <2> HIDE DEF t
  <2>3. t[Len(t)].kind \in Name /\ \A i \in 1 .. Len(t) - 1 : t[i].kind \in {"pointer", "array"}
    BY <2>2
  <2>4. t \in Type
    BY <2>2, <2>3 DEF Type, IsType, Name
  <2> QED
    BY <2>4 DEF t, e, value_of
<1>2. "s4" \in Name /\ "bool" \in Name /\ "s1" \in Name
  BY DEF Name, Width
<1>3. s4 \in Type /\ bool \in Type /\ value_of("s1") \in Type
  BY <1>1, <1>2 DEF s4, bool
<1>4. pointer_to(value_of("s1")) \in Type
  <2>1. 0 \in Nat
    OBVIOUS
  <2> QED
    BY <1>3, <2>1, ArrayIs
<1> QED
  BY <1>1, <1>3, <1>4

(* Literals and variables. *)
LEMMA ConstantIs == ASSUME NEW t \in Type PROVE Constant(t) \in Sane
<1> DEFINE l == parse_type(t)
<1>1. l \in Seq(AnyWord) /\ t \in Type \cup {NoType} /\ t # NoType
  BY LLVMTypeIs, TypeIs
<1> HIDE DEF l
<1>2. "constant" \in Places /\ "constant" # "alloca"
  BY DEF Places
<1>3. Value(t, l, "constant", TRUE) \in Sane
  BY <1>1, <1>2, ValueIs DEF l
<1> QED
  BY <1>3 DEF Constant, l

(* An expression that is sane may be added to those in hand. *)
LEMMA PushKeeps ==
  ASSUME Inv, NEW v \in Sane, values' = Append(values, v), judged' = TRUE,
         status = "running", UNCHANGED <<variables, status>>
  PROVE  Inv'
<1>1. values' \in Seq(Sane)
  BY AppendProperties DEF Inv
<1> QED
  BY <1>1 DEF Inv

LEMMA LiteralKeeps == ASSUME Inv, parse_literal PROVE Inv'
<1>1. PICK v \in Literals : values' = Append(values, v)
  BY DEF parse_literal
<1>2. v \in Sane
  BY NamesAre, ConstantIs DEF Literals
<1>3. judged' = TRUE /\ status = "running" /\ UNCHANGED <<variables, status>>
  BY DEF parse_literal
<1> QED
  BY <1>1, <1>2, <1>3, PushKeeps

LEMMA VariableKeeps == ASSUME Inv, parse_variable PROVE Inv'
<1>1. judged' = TRUE /\ status = "running" /\ UNCHANGED <<variables, status>>
  BY DEF parse_variable
<1>2. CASE \E n \in Names : values' = Append(values, variables[n])
  <2>1. PICK n \in Names : values' = Append(values, variables[n])
    BY <1>2
  <2>2. variables[n] \in Sane
    BY DEF Inv
  <2> QED
    BY <1>1, <2>1, <2>2, PushKeeps
<1>3. CASE \E n \in DOMAIN Parameters : values' = Append(values, Parameter(n))
  <2>1. PICK n \in DOMAIN Parameters : values' = Append(values, Parameter(n))
    BY <1>3
  <2>2. Parameters[n] \in Type
    BY TypesAssumption DEF Type, IsType
  <2>3. Parameter(n) \in Sane
    <3> DEFINE t == Parameters[n]
               l == parse_type(t)
    <3>1. t \in Type \cup {NoType} /\ l \in Seq(AnyWord)
      BY <2>2, LLVMTypeIs
    <3> HIDE DEF t, l
    <3>2. "value" \in Places /\ "value" # "alloca" /\ "value" # "constant"
      BY DEF Places
    <3>3. Value(t, l, "value", TRUE) \in Sane
      BY <3>1, <3>2, ValueIs DEF l
    <3> QED
      BY <3>3 DEF Parameter, t, l
  <2> QED
    BY <1>1, <2>1, <2>3, PushKeeps
<1> QED
  BY <1>2, <1>3 DEF parse_variable

(* What has been loaded: arrays may be addresses. *)
Loaded(v) ==
  /\ v.type \in Type \cup {NoType} /\ v.right \in BOOLEAN /\ v.llvm \in Seq(AnyWord)
  /\ v.right /\ v.type \in Type /\ KindOf(v.type) # "array" => v.llvm = parse_type(v.type)

(* Every sane expression can be loaded. *)
LEMMA LoadedIs == ASSUME NEW v \in Sane PROVE Loaded(handle_rvalue(v))
<1> DEFINE r == handle_rvalue(v)
<1>1. /\ r.type = v.type /\ r.right = v.right /\ r.llvm \in Seq(AnyWord)
      /\ v.right /\ ~IsArrayVariable(v) => r.llvm = parse_type(v.type)
  BY RvalueIs
<1>2. v.type \in Type \cup {NoType} /\ v.right \in BOOLEAN
  BY DEF Sane, Values
<1>3. v.right /\ KindOf(v.type) # "array" => ~IsArrayVariable(v)
  BY ArrayVariableIs
<1> HIDE DEF r
<1>4. Loaded(r)
  BY <1>1, <1>2, <1>3 DEF Loaded
<1> QED
  BY <1>4 DEF r

(* An integer type is a name. *)
LEMMA IntegerIs ==
  ASSUME NEW t \in Type, IsInteger(t)
  PROVE  /\ KindOf(t) = "value" /\ t = value_of(t[1].kind) /\ t[1].kind \in DOMAIN Width
         /\ parse_type(t) = t
<1>1. Len(t) = 1 /\ t[1].kind \in DOMAIN Width
  BY DEF IsInteger
<1>2. KindOf(t) = "value"
  BY <1>1, TypeIs
<1>3. t = value_of(t[1].kind)
  BY <1>2, ValueTypeIs
<1> QED
  BY <1>1, <1>2, <1>3, LLVMTypeIs

(* The integer types and their widths. *)
LEMMA WidthsAre ==
  /\ DOMAIN Width = {"bool", "s1", "s2", "s4", "s8"}
  /\ Width["bool"] = 1 /\ Width["s1"] = 8 /\ Width["s2"] = 16
  /\ Width["s4"] = 32 /\ Width["s8"] = 64
BY DEF Width

(* All types but any and arrays are scalars to LLVM. *)
LEMMA ScalarIs ==
  ASSUME NEW t \in Type, t # any, KindOf(t) # "array"
  PROVE  IsScalar(parse_type(t))
<1>1. CASE KindOf(t) = "value"
  <2>1. t = value_of(t[1].kind) /\ t[1].kind \in Name /\ Len(t) = 1 /\ parse_type(t) = t
    BY <1>1, ValueTypeIs, LLVMTypeIs
  <2>2. t[1].kind # "any"
    BY <2>1 DEF any
  <2>3. t[1].kind \in DOMAIN Width
    BY <2>1, <2>2 DEF Name
  <2> QED
    BY <2>1, <2>3 DEF IsScalar, IsInteger
<1>2. CASE KindOf(t) # "value"
  <2>1. t[1].kind = "pointer"
    BY <1>2, TypeIs
  <2> QED
    BY <2>1, LLVMTypeIs DEF IsScalar
<1> QED
  BY <1>1, <1>2

(* The narrower of two integers is extended to the wider. *)
LEMMA CastIs ==
  ASSUME NEW l, NEW r, Loaded(l), Loaded(r), l.right, r.right,
         l.type \in Type, r.type \in Type, IsInteger(l.type), IsInteger(r.type),
         deduce_type(l.type, r.type) = r.type,
         l.type = r.type \/ Width[l.type[1].kind] < Width[r.type[1].kind],
         NEW op \in Calculates
  PROVE  OperatorOutcome(op, l, r) = "ok"
<1> DEFINE s == l.type
           t == r.type
<1>1. /\ KindOf(s) = "value" /\ s[1].kind \in DOMAIN Width /\ parse_type(s) = s
      /\ KindOf(t) = "value" /\ t[1].kind \in DOMAIN Width /\ parse_type(t) = t
  BY IntegerIs
<1>2. l.llvm = s /\ r.llvm = t /\ s # NoType /\ t # NoType
  <2>1. KindOf(s) # "array" /\ KindOf(t) # "array"
    BY <1>1
  <2> QED
    BY <1>1, <2>1, TypeIs DEF Loaded
<1>3. op # "logical"
  BY DEF Calculates
<1>4. deduce_type(s, t) = t /\ IsInteger(s) /\ IsInteger(t) /\ NoType \notin {s, t}
  BY <1>2
<1>5. CASE s = t
  <2> DEFINE cast == IF s # t THEN <<l>> ELSE IF t # t THEN <<r>> ELSE <<>>
  <2>1. cast = <<>>
    BY <1>5
  <2>2. \A v \in Range(cast) : Extends(v, parse_type(t))
    BY <2>1 DEF Range
  <2> QED
    BY <1>1, <1>2, <1>3, <1>4, <1>5, <2>2 DEF OperatorOutcome
<1>6. CASE s # t
  <2> DEFINE cast == IF s # t THEN <<l>> ELSE IF t # t THEN <<r>> ELSE <<>>
  <2>1. cast = <<l>> /\ Range(cast) = {l}
    BY <1>6 DEF Range
  <2>2. Extends(l, parse_type(t))
    BY <1>1, <1>2, <1>4, <1>6 DEF Extends
  <2>3. \A v \in Range(cast) : Extends(v, parse_type(t))
    BY <2>1, <2>2
  <2> QED
    BY <1>1, <1>2, <1>3, <1>4, <1>6, <2>3 DEF OperatorOutcome
<1> QED
  BY <1>5, <1>6

(* The right operand decides, unless only the left one is bool. *)
LEMMA DeducedIs ==
  ASSUME NEW l, NEW r
  PROVE  /\ deduce_type(l, r) \in {l, r}
         /\ (l = bool => r = bool) => deduce_type(l, r) = r
BY DEF deduce_type, score_value_type

(* Operands that keep to the rules are calculated with, and the result has *)
(* the type the checker says.                                              *)
LEMMA RightOperandsPass ==
  ASSUME NEW op \in Calculates \cup {"logical"}, NEW l, NEW r, Loaded(l), Loaded(r),
         l.right, r.right, RightOperands(op, l.type, r.type)
  PROVE  /\ OperatorOutcome(op, l, r) = "ok"
         /\ OperatorType(op, l, r) = parse_type(ResultType(op))
<1> DEFINE s == l.type
           t == r.type
<1>1. /\ s4 \in Type /\ bool \in Type /\ IsInteger(s4) /\ IsInteger(bool)
      /\ s4 # bool /\ s4[1].kind = "s4" /\ bool[1].kind = "bool" /\ parse_type(bool) = bool
  <2>1. s4 \in Type /\ bool \in Type
    BY NamesAre
  <2>2. IsInteger(s4) /\ IsInteger(bool) /\ s4 # bool /\ s4[1].kind = "s4" /\ bool[1].kind = "bool"
    BY WidthsAre DEF s4, bool, value_of, word, IsInteger
  <2> QED
    BY <2>1, <2>2, IntegerIs
<1>2. /\ s \in Type \cup {NoType} /\ t \in Type \cup {NoType}
  BY DEF Loaded
<1>3. ~IsInteger(NoType)
  BY DEF IsInteger, NoType
<1>4. CASE op = "arithmetic"
  <2>1. IsInteger(s) /\ s # bool /\ t = s4 /\ Width[s[1].kind] <= 32
    BY <1>4 DEF RightOperands
  <2>2. s \in Type /\ t \in Type /\ IsInteger(t) /\ t[1].kind = "s4"
    BY <1>1, <1>2, <1>3, <2>1
  <2>3. deduce_type(s, t) = t
    BY <2>1, DeducedIs
  <2>4. s = t \/ Width[s[1].kind] < Width[t[1].kind]
    <3>1. s = value_of(s[1].kind) /\ s[1].kind \in DOMAIN Width
      BY <2>1, <2>2, IntegerIs
    <3>2. s[1].kind = "s4" => s = t
      BY <2>1, <3>1 DEF s4
    <3>3. s[1].kind # "s4" => Width[s[1].kind] < Width["s4"]
      BY <2>1, <3>1, WidthsAre
    <3> QED
      BY <2>2, <3>2, <3>3
  <2>5. op \in Calculates
    BY <1>4 DEF Calculates
  <2>6. OperatorOutcome(op, l, r) = "ok"
    BY <2>1, <2>2, <2>3, <2>4, <2>5, CastIs
  <2>7. OperatorType(op, l, r) = parse_type(t) /\ ResultType(op) = s4
    BY <1>4, <2>3 DEF OperatorType, ResultType
  <2> QED
    BY <2>1, <2>6, <2>7
<1>5. CASE op = "comparison"
  <2>1. \/ s = bool /\ t = bool
        \/ /\ {s, t} \subseteq {value_of(w) : w \in DOMAIN Width} \ {bool}
           /\ Width[s[1].kind] <= Width[t[1].kind]
    BY <1>5 DEF RightOperands
  <2>2. s \in Type /\ t \in Type /\ IsInteger(s) /\ IsInteger(t)
    <3>1. CASE s = bool /\ t = bool
      BY <1>1, <3>1
    <3>2. CASE {s, t} \subseteq {value_of(w) : w \in DOMAIN Width} \ {bool}
      <4>1. PICK v \in DOMAIN Width, w \in DOMAIN Width : s = value_of(v) /\ t = value_of(w)
        BY <3>2
      <4>2. IsInteger(value_of(v)) /\ IsInteger(value_of(w))
        BY DEF IsInteger, value_of, word
      <4> QED
        BY <1>2, <1>3, <4>1, <4>2
    <3> QED
      BY <2>1, <3>1, <3>2
  <2>3. s = bool => t = bool
    BY <2>1
  <2>4. deduce_type(s, t) = t
    BY <2>3, DeducedIs
  <2>5. s = t \/ Width[s[1].kind] < Width[t[1].kind]
    <3>1. s = value_of(s[1].kind) /\ t = value_of(t[1].kind) /\ s[1].kind \in DOMAIN Width /\ t[1].kind \in DOMAIN Width
      BY <2>2, IntegerIs
    <3> DEFINE v == s[1].kind
               w == t[1].kind
    <3>2. s = t \/ Width[v] <= Width[w]
      BY <2>1
    <3>3. v = w => s = t
      BY <3>1
    <3>4. v \in DOMAIN Width /\ w \in DOMAIN Width
      BY <3>1
    <3> HIDE DEF v, w, s, t
    <3>5. v = w \/ Width[v] # Width[w]
      BY <3>4, WidthsAre
    <3>6. Width[v] \in Int /\ Width[w] \in Int
      BY <3>4, WidthsAre
    <3> QED
      BY <3>2, <3>3, <3>5, <3>6 DEF v, w
  <2>6. op \in Calculates
    BY <1>5 DEF Calculates
  <2>7. OperatorOutcome(op, l, r) = "ok"
    BY <2>2, <2>4, <2>5, <2>6, CastIs
  <2>8. OperatorType(op, l, r) = bool /\ ResultType(op) = bool
    BY <1>5 DEF OperatorType, ResultType
  <2> QED
    BY <1>1, <2>7, <2>8
<1>6. CASE op = "logical"
  <2>1. /\ NoType \notin {s, t} /\ any \notin {s, t}
        /\ KindOf(s) = KindOf(t) /\ KindOf(s) # "array"
    BY <1>6 DEF RightOperands
  <2>2. s \in Type /\ t \in Type
    BY <1>2, <2>1
  <2>3. l.llvm = parse_type(s) /\ r.llvm = parse_type(t)
    BY <2>1, <2>2 DEF Loaded
  <2>4. IsScalar(l.llvm) /\ IsScalar(r.llvm)
    BY <2>1, <2>2, <2>3, ScalarIs
  <2>5. OperatorOutcome(op, l, r) = "ok"
    BY <1>6, <2>1, <2>4 DEF OperatorOutcome
  <2>6. OperatorType(op, l, r) = bool /\ ResultType(op) = bool
    BY <1>6 DEF OperatorType, ResultType
  <2> QED
    BY <1>1, <2>5, <2>6
<1> QED
  BY <1>4, <1>5, <1>6 DEF Calculates

(* Operators. *)
LEMMA OperatorKeeps ==
  ASSUME Inv, NEW op \in Calculates \cup {"logical"}, parse_operator(op)
  PROVE  Inv'
<1> DEFINE l == handle_rvalue(Operands(2)[1])
           r == handle_rvalue(Operands(2)[2])
           outcome == OperatorOutcome(op, l, r)
           right == l.right /\ r.right /\ RightOperands(op, l.type, r.type)
           llvm == OperatorType(op, l, r)
           place == Folded(l, r)
           v == Value(ResultType(op), llvm, place, right)
<1>1. /\ status = "running" /\ 2 <= Len(values) /\ UNCHANGED variables
      /\ Result(2, outcome, v)
  BY DEF parse_operator
<1>2. Operands(2)[1] \in Sane /\ Operands(2)[2] \in Sane
  BY <1>1, OperandsAre
<1>3. Loaded(l) /\ Loaded(r)
  BY <1>2, LoadedIs
<1> HIDE DEF l, r
<1>4. right \in BOOLEAN /\ l.right \in BOOLEAN /\ r.right \in BOOLEAN
  BY <1>3, Zenon DEF Loaded
<1>5. right => outcome = "ok" /\ llvm = parse_type(ResultType(op))
  BY <1>3, RightOperandsPass
<1>6. outcome = "ok" => llvm \in Seq(AnyWord)
  <2> SUFFICES ASSUME outcome = "ok" PROVE llvm \in Seq(AnyWord)
    OBVIOUS
  <2>1. l.type # NoType /\ r.type # NoType
    BY DEF OperatorOutcome
  <2>2. deduce_type(l.type, r.type) \in Type
    BY <1>3, <2>1, DeducedIs DEF Loaded
  <2>3. parse_type(deduce_type(l.type, r.type)) \in Seq(AnyWord) /\ bool \in Seq(AnyWord)
    BY <2>2, LLVMTypeIs, NamesAre, TypeIs
  <2> QED
    BY <2>3 DEF OperatorType
<1>7. place \in Places /\ place # "alloca"
  BY DEF Folded, Places
<1>8. ResultType(op) \in Type \cup {NoType} /\ ResultType(op) # NoType
  BY NamesAre, TypeIs DEF ResultType
<1> HIDE DEF outcome, right, llvm, place
<1>9. v.right = right
  BY DEF Value
<1>10. outcome = "ok" => v \in Sane
  BY <1>4, <1>5, <1>6, <1>7, <1>8, ValueIs
<1> HIDE DEF v
<1> QED
  BY <1>1, <1>4, <1>5, <1>9, <1>10, ResultKeeps

(* Items that keep to the rules become an array of the type of the last. *)
LEMMA ArrayKeeps ==
  ASSUME Inv, NEW k \in 0 .. MaxValues, parse_array(k)
  PROVE  Inv'
<1>1. status = "running" /\ k <= Len(values) /\ UNCHANGED variables /\ k \in Nat
  BY NamesAssumption DEF parse_array
<1>2. CASE k = 0
  <2> DEFINE v == Value(NoType, NoType, "none", FALSE)
             undefined == "undefined"
  <2>1. Result(k, undefined, v)
    BY <1>2 DEF parse_array
  <2>2. v.right = FALSE /\ undefined # "ok"
    BY DEF Value
  <2> HIDE DEF v, undefined
  <2> QED
    BY <1>1, <2>1, <2>2, ResultKeeps
<1>3. CASE k # 0
  <2> DEFINE items == Range(Operands(k))
             type == Operands(k)[k].type
             outcome == IF type = NoType THEN "crash"
                        ELSE IF \A v \in items : v.place = "constant" /\ v.llvm = parse_type(type)
                        THEN "ok" ELSE "invalid"
             right == \A v \in items : v.right /\ v.type = type /\ v.place = "constant"
             llvm == array_of(parse_type(type), k)
             of == array_of(type, k)
             array == Value(of, llvm, "constant", right)
  <2>1. Result(k, outcome, array)
    BY <1>3 DEF parse_array
  <2>2. items \subseteq Sane /\ Operands(k)[k] \in items
    <3>1. k \in 1 .. k /\ Len(Operands(k)) = k /\ \A i \in 1 .. k : Operands(k)[i] \in Sane
      BY <1>1, <1>3, OperandsAre
    <3>2. DOMAIN Operands(k) = 1 .. k
      BY <3>1 DEF Operands
    <3> QED
      BY <3>1, <3>2 DEF Range
  <2>3. type \in Type \cup {NoType}
    BY <2>2 DEF Sane, Values
  <2>4. right => type # NoType
    BY <2>2 DEF Sane
  <2> HIDE DEF items, type
  <2>5. right => \A v \in items : v.llvm = parse_type(type)
    BY <2>2 DEF Sane, Good
  <2>6. right => outcome = "ok"
    BY <2>4, <2>5
  <2>7. right \in BOOLEAN
    OBVIOUS
  <2>8. ASSUME type # NoType PROVE of \in Type /\ llvm = parse_type(of) /\ llvm \in Seq(AnyWord)
    BY <1>1, <2>3, <2>8, ArrayIs, LLVMTypeIs
  <2>9. outcome = "ok" => type # NoType
    OBVIOUS
  <2>10. "constant" \in Places /\ "constant" # "alloca"
    BY DEF Places
  <2> HIDE DEF outcome, right, llvm, of
  <2>11. array.right = right
    BY DEF Value
  <2>12. outcome = "ok" => array \in Sane
    <3> SUFFICES ASSUME outcome = "ok" PROVE array \in Sane
      OBVIOUS
    <3>1. of \in Type \cup {NoType} /\ of # NoType /\ llvm \in Seq(AnyWord) /\ llvm = parse_type(of)
      BY <2>8, <2>9, TypeIs
    <3> QED
      BY <2>7, <2>10, <3>1, ValueIs
  <2> HIDE DEF array
  <2> QED
    BY <1>1, <2>1, <2>6, <2>7, <2>11, <2>12, ResultKeeps
<1> QED
  BY <1>2, <1>3

(* What is indexed by the rules is an array or a pointer, and the item has *)
(* the type it is of.                                                      *)
LEMMA ItemAccessKeeps == ASSUME Inv, parse_item_access PROVE Inv'
<1> DEFINE indexable == Operands(2)[1]
           index == handle_rvalue(Operands(2)[2])
           type == indexable.type
           item == Tail(type)
           outcome == IF type = NoType THEN "crash"
                      ELSE IF KindOf(type) = "value" THEN "undefined"
                      ELSE IF IsInteger(index.llvm) /\ (KindOf(type) = "array" => IsArrayVariable(indexable))
                      THEN "ok" ELSE "invalid"
           of == IF type = NoType THEN NoType ELSE item
           llvm == IF type = NoType THEN NoType ELSE parse_type(item)
           right == /\ indexable.right /\ index.right /\ IsInteger(index.type)
                    /\ \/ IsArrayVariable(indexable)
                       \/ type # NoType /\ KindOf(type) = "pointer" /\ indexable.place = "value"
           v == Value(of, llvm, "value", right)
<1>1. /\ status = "running" /\ 2 <= Len(values) /\ UNCHANGED variables
      /\ Result(2, outcome, v)
  BY DEF parse_item_access
<1>2. indexable \in Sane /\ Operands(2)[2] \in Sane
  BY <1>1, OperandsAre
<1>3. Loaded(index)
  BY <1>2, LoadedIs
<1>4. type \in Type \cup {NoType}
  BY <1>2 DEF Sane, Values
<1>5. right => type \in Type /\ KindOf(type) # "value" /\ type # NoType
  BY <1>2, <1>4, ArrayVariableIs
<1>6. right => (KindOf(type) = "array" => IsArrayVariable(indexable))
  OBVIOUS
<1> HIDE DEF index
<1>7. ASSUME right PROVE IsInteger(index.llvm)
  <2>1. index.type # NoType /\ IsInteger(index.type) /\ index.right
    BY <1>7 DEF IsInteger, NoType
  <2>2. index.type \in Type
    BY <1>3, <2>1 DEF Loaded
  <2>3. KindOf(index.type) = "value" /\ parse_type(index.type) = index.type
    BY <2>1, <2>2, IntegerIs
  <2> QED
    BY <1>3, <2>1, <2>2, <2>3 DEF Loaded
<1> HIDE DEF indexable, type
<1>8. right => outcome = "ok"
  BY <1>5, <1>6, <1>7
<1>9. outcome = "ok" => type # NoType /\ KindOf(type) # "value"
  OBVIOUS
<1>10. ASSUME type # NoType, KindOf(type) # "value"
       PROVE  of \in Type /\ llvm = parse_type(of) /\ llvm \in Seq(AnyWord)
  BY <1>4, <1>10, ItemIs, LLVMTypeIs
<1>11. right \in BOOLEAN
  <2>1. indexable.right \in BOOLEAN /\ index.right \in BOOLEAN
    BY <1>2, <1>3 DEF Sane, Values, Loaded
  <2> QED
    BY <2>1, Zenon
<1>12. "value" \in Places /\ "value" # "alloca" /\ "value" # "constant"
  BY DEF Places
<1> HIDE DEF outcome, of, llvm, right
<1>13. v.right = right
  BY DEF Value
<1>14. outcome = "ok" => v \in Sane
  <2> SUFFICES ASSUME outcome = "ok" PROVE v \in Sane
    OBVIOUS
  <2>1. of \in Type \cup {NoType} /\ llvm \in Seq(AnyWord) /\ llvm = parse_type(of)
    BY <1>9, <1>10
  <2> QED
    BY <1>11, <1>12, <2>1, ValueIs
<1> HIDE DEF v
<1> QED
  BY <1>1, <1>8, <1>11, <1>13, <1>14, ResultKeeps

(* NULL stands for itself, and a variable not declared is sane. *)
LEMMA NoTypeIs == parse_type(NoType) = NoType /\ NoType \in Seq(AnyWord)
BY NoPointer DEF NoType

LEMMA NoVariableIs == NoVariable \in Sane
<1>1. "none" \in Places /\ "none" # "alloca" /\ "none" # "constant"
  BY DEF Places
<1>2. Value(NoType, NoType, "none", TRUE) \in Sane
  BY <1>1, NoTypeIs, ValueIs
<1> QED
  BY <1>2 DEF NoVariable

(* A declared variable has room for its type. *)
LEMMA DeclarationKeeps ==
  ASSUME Inv, NEW n \in Names, NEW type \in Types, parse_declaration(n, type)
  PROVE  Inv'
<1> DEFINE v == Value(type, parse_type(type), "alloca", TRUE)
<1>1. type \in Type
  BY TypesAssumption DEF Type, IsType
<1>2. v \in Sane
  BY <1>1, ValueIs, LLVMTypeIs DEF Places
<1>3. /\ status = "running" /\ judged' = TRUE /\ UNCHANGED <<values, status>>
      /\ variables' = [variables EXCEPT ![n] = v]
  BY DEF parse_declaration
<1> HIDE DEF v
<1> QED
  BY <1>2, <1>3 DEF Inv

(* A value that keeps to the rules fits a variable of its type. *)
LEMMA AssignmentKeeps ==
  ASSUME Inv, NEW n \in Names, NEW type \in Types \cup {NoType}, parse_assignment(n, type)
  PROVE  Inv'
<1> DEFINE v == Operands(1)[1]
           old == variables[n]
           new == old = NoVariable
           room == IF new THEN parse_type(v.type) ELSE old.llvm
           right == /\ v.right /\ ~IsArrayVariable(v) /\ v.type # NoType
                    /\ IF new THEN type \in {NoType, v.type}
                       ELSE type = NoType /\ n \notin declared /\ old.right /\ old.type = v.type
           outcome == IF ~new /\ (n \in declared \/ type # NoType) THEN "assert"
                      ELSE IF new /\ v.type = NoType THEN "crash"
                      ELSE IF handle_rvalue(v).llvm # room THEN "misfit" ELSE "ok"
<1>1. /\ status = "running" /\ 1 <= Len(values) /\ judged' = right
      /\ outcome = "ok" =>
           /\ values' = Below(1) /\ status' = status
           /\ variables' = IF new THEN [variables EXCEPT ![n] = Value(v.type, room, "alloca", right)]
                           ELSE variables
      /\ outcome # "ok" => status' = outcome /\ UNCHANGED <<values, variables>>
  BY DEF parse_assignment
<1>2. v \in Sane /\ Below(1) \in Seq(Sane)
  BY <1>1, OperandsAre
<1>3. old \in Sane
  BY DEF Inv
<1> HIDE DEF v, old
<1>4. right \in BOOLEAN
  <2>1. v.right \in BOOLEAN /\ old.right \in BOOLEAN
    BY <1>2, <1>3 DEF Sane, Values
  <2> QED
    BY <2>1, Zenon
<1>5. ASSUME right PROVE outcome = "ok"
  <2>1. v.right /\ ~IsArrayVariable(v) /\ v.type # NoType
    BY <1>5
  <2>2. handle_rvalue(v).llvm = parse_type(v.type)
    BY <1>2, <2>1, RvalueIs
  <2>3. ~new => old.llvm = parse_type(v.type) /\ n \notin declared /\ type = NoType
    BY <1>3, <1>5 DEF Sane, Good
  <2>4. handle_rvalue(v).llvm = room
    BY <2>2, <2>3
  <2> QED
    BY <2>1, <2>3, <2>4
<1>6. judged' \in BOOLEAN
  BY <1>1, <1>4, Zenon
<1>7. CASE outcome = "ok"
  <2>1. variables' \in [Names -> Sane]
    <3>1. CASE new
      <4> DEFINE w == Value(v.type, room, "alloca", right)
      <4>1. v.type \in Type
        BY <1>2, <1>7, <3>1 DEF Sane, Values
      <4>2. room = parse_type(v.type) /\ room \in Seq(AnyWord) /\ room # NoType
        BY <3>1, <4>1, LLVMTypeIs
      <4>3. "alloca" \in Places /\ "alloca" # "constant" /\ v.type \in Type \cup {NoType}
        BY <4>1 DEF Places
      <4>4. w \in Sane
        <5> HIDE DEF room, right
        <5> QED
          BY <1>4, <4>2, <4>3, ValueIs
      <4>5. variables' = [variables EXCEPT ![n] = w]
        BY <1>1, <1>7, <3>1
      <4> HIDE DEF w
      <4> QED
        BY <4>4, <4>5 DEF Inv
    <3>2. CASE ~new
      BY <1>1, <1>7, <3>2 DEF Inv
    <3> QED
      BY <3>1, <3>2
  <2>2. values' \in Seq(Sane) /\ status' = status
    BY <1>1, <1>2, <1>7
  <2> QED
    BY <1>1, <1>6, <2>1, <2>2 DEF Inv
<1>8. CASE outcome # "ok"
  <2>1. ~right
    BY <1>5, <1>8
  <2>2. ~judged'
    BY <1>1, <2>1, Zenon
  <2>3. UNCHANGED <<values, variables>>
    BY <1>1, <1>8
  <2> QED
    BY <1>6, <2>2, <2>3 DEF Inv
<1> QED
  BY <1>7, <1>8

(* What is used up keeps the invariant. *)
LEMMA UsedUpKeeps ==
  ASSUME Inv, NEW right, right \in BOOLEAN, judged' = right, status = "running",
         1 <= Len(values), UNCHANGED variables,
         \/ values' = Below(1) /\ UNCHANGED status
         \/ ~right /\ UNCHANGED values
  PROVE  Inv'
<1>1. judged' \in BOOLEAN /\ (judged' => right)
  BY Zenon
<1>2. Below(1) \in Seq(Sane)
  BY OperandsAre
<1>3. values' \in Seq(Sane) /\ (judged' => status' = "running")
  BY <1>1, <1>2 DEF Inv
<1> QED
  BY <1>1, <1>3 DEF Inv

(* Conditions, returns and matches. *)
LEMMA ConditionKeeps == ASSUME Inv, parse_condition PROVE Inv'
<1> DEFINE v == Operands(1)[1]
           r == handle_rvalue(v)
           right == v.right /\ v.type # NoType /\ v.type # any /\ KindOf(v.type) # "array"
<1>1. /\ status = "running" /\ 1 <= Len(values) /\ judged' = right /\ UNCHANGED variables
      /\ v.type # NoType /\ r.llvm = parse_type(v.type) /\ IsScalar(r.llvm) =>
           values' = Below(1) /\ UNCHANGED status
      /\ ~(v.type # NoType /\ r.llvm = parse_type(v.type) /\ IsScalar(r.llvm)) => UNCHANGED values
  BY DEF parse_condition
<1>2. v \in Sane
  BY <1>1, OperandsAre
<1> HIDE DEF v
<1>3. right \in BOOLEAN
  <2>1. v.right \in BOOLEAN
    BY <1>2 DEF Sane, Values
  <2> QED
    BY <2>1, Zenon
<1>4. ASSUME right PROVE v.type # NoType /\ r.llvm = parse_type(v.type) /\ IsScalar(r.llvm)
  <2>1. v.right /\ v.type \in Type /\ v.type # any /\ KindOf(v.type) # "array"
    BY <1>2, <1>4 DEF Sane, Values
  <2>2. ~IsArrayVariable(v)
    BY <1>2, <2>1, ArrayVariableIs
  <2>3. r.llvm = parse_type(v.type)
    BY <1>2, <2>1, <2>2, RvalueIs
  <2> QED
    BY <1>4, <2>1, <2>3, ScalarIs
<1> HIDE DEF right
<1> QED
  BY <1>1, <1>3, <1>4, UsedUpKeeps

LEMMA ReturnKeeps ==
  ASSUME Inv, NEW f \in Functions, parse_return(f)
  PROVE  Inv'
<1> DEFINE v == Operands(1)[1]
           r == handle_rvalue(v)
           right == v.right /\ ~IsArrayVariable(v) /\ v.type = f.type /\ f.type # NoType
<1>1. /\ status = "running" /\ 1 <= Len(values) /\ judged' = right /\ UNCHANGED variables
      /\ r.llvm = parse_type(f.type) /\ f.type # NoType => values' = Below(1) /\ UNCHANGED status
      /\ ~(r.llvm = parse_type(f.type) /\ f.type # NoType) => UNCHANGED values
  BY DEF parse_return
<1>2. v \in Sane
  BY <1>1, OperandsAre
<1> HIDE DEF v
<1>3. right \in BOOLEAN
  <2>1. v.right \in BOOLEAN
    BY <1>2 DEF Sane, Values
  <2> QED
    BY <2>1, Zenon
<1>4. right => r.llvm = parse_type(f.type) /\ f.type # NoType
  BY <1>2, RvalueIs
<1> HIDE DEF right, r
<1> QED
  BY <1>1, <1>3, <1>4, UsedUpKeeps

LEMMA MatchKeeps ==
  ASSUME Inv, NEW n \in Names, NEW type \in Types, parse_match(n, type)
  PROVE  Inv'
<1> DEFINE v == Operands(1)[1]
           right == v.right /\ v.type = any /\ v.place = "value"
           w == Value(NoType, parse_type(type), "alloca", FALSE)
<1>1. /\ status = "running" /\ 1 <= Len(values) /\ judged' = right
      /\ right => /\ values' = Below(1) /\ UNCHANGED status
                  /\ variables' = [variables EXCEPT ![n] = w]
      /\ \/ UNCHANGED <<values, variables>>
         \/ values' = Below(1) /\ variables' = [variables EXCEPT ![n] = w]
  <2> DEFINE taken == ~(v.type # any \/ v.place # "value")
  <2>1. status = "running" /\ 1 <= Len(values) /\ judged' = right
    BY DEF parse_match
  <2>2. /\ taken => /\ values' = Below(1) /\ UNCHANGED status
                    /\ variables' = [variables EXCEPT ![n] = w]
        /\ ~taken => UNCHANGED <<values, variables>>
    <3> HIDE DEF w
    <3> QED
      BY DEF parse_match, w
  <2>3. right => taken
    OBVIOUS
  <2> HIDE DEF w, v, taken, right
  <2> QED
    BY <2>1, <2>2, <2>3
<1>2. v \in Sane /\ Below(1) \in Seq(Sane)
  BY <1>1, OperandsAre
<1> HIDE DEF v
<1>3. type \in Type
  BY TypesAssumption DEF Type, IsType
<1>4. w \in Sane
  BY <1>3, ValueIs, LLVMTypeIs DEF Places
<1> HIDE DEF w
<1>5. right \in BOOLEAN
  <2>1. v.right \in BOOLEAN
    BY <1>2 DEF Sane, Values
  <2> QED
    BY <2>1, Zenon
<1>6. judged' \in BOOLEAN /\ (judged' => right)
  BY <1>1, <1>5, Zenon
<1> HIDE DEF right
<1>7. values' \in Seq(Sane) /\ variables' \in [Names -> Sane]
  BY <1>1, <1>2, <1>4 DEF Inv
<1>8. judged' => status' = "running"
  BY <1>1, <1>6
<1> QED
  BY <1>6, <1>7, <1>8 DEF Inv

(* What is assumed of a function. *)
LEMMA FunctionIs ==
  ASSUME NEW f \in Functions
  PROVE  /\ f.type \in Type \cup {NoType} /\ Len(f.parameters) \in Nat
         /\ \A i \in 1 .. Len(f.parameters) : f.parameters[i] \in Type
         /\ f.rest \in BOOLEAN /\ f.vararg \in BOOLEAN
         /\ Before(f) \in Nat /\ Before(f) <= Len(f.parameters)
         /\ Before(f) = IF f.rest THEN Len(f.parameters) - 1 ELSE Len(f.parameters)
         /\ f.rest => ItemType(f) \in Type
<1> DEFINE parameters == f.parameters
           n == Len(parameters)
<1>1. /\ f.type = NoType \/ IsType(f.type)
      /\ parameters \in Seq(Seq(Words))
      /\ \A i \in 1 .. n : IsType(parameters[i])
      /\ f.rest \in BOOLEAN /\ f.vararg \in BOOLEAN
      /\ f.rest => parameters # <<>> /\ parameters[n][1].kind = "pointer"
  BY TypesAssumption
<1>2. f.type \in Type \cup {NoType}
  BY <1>1 DEF Type, IsType
<1>3. n \in Nat /\ (parameters # <<>> => n # 0)
  BY <1>1, EmptySeq
<1>4. \A i \in 1 .. n : parameters[i] \in Type
  BY <1>1 DEF Type, IsType
<1>5. Before(f) = IF f.rest THEN n - 1 ELSE n
  BY DEF Before, Passed
<1> HIDE DEF n
<1>6. Before(f) \in Nat /\ Before(f) <= n
  BY <1>1, <1>3, <1>5
<1>7. ASSUME f.rest PROVE ItemType(f) \in Type
  <2> DEFINE p == parameters[n]
  <2>1. p \in Type /\ p[1].kind = "pointer"
    BY <1>1, <1>3, <1>4, <1>7
  <2>2. KindOf(p) # "value"
    BY <2>1 DEF KindOf
  <2>3. Tail(p) \in Type
    <3> HIDE DEF p
    <3> QED
      BY <2>1, <2>2, ItemIs
  <2> QED
    BY <2>3 DEF ItemType, n
<1> QED
  BY <1>1, <1>2, <1>3, <1>4, <1>5, <1>6, <1>7 DEF n

(* An argument that fits is given as what the parameter takes. *)
LEMMA FittingIs ==
  ASSUME NEW v \in Sane, v.right, NEW p \in Type, Fits(v, p)
  PROVE  handle_rvalue(v).llvm = parse_type(p)
<1>1. CASE v.type = p /\ ~IsArrayVariable(v)
  BY <1>1, RvalueIs
<1>2. CASE Len(p) > 1 /\ p[1].kind = "pointer" /\ IsArrayVariable(v)
  <2>1. handle_rvalue(v).llvm = ptr
    BY <1>2, RvalueIs
  <2>2. parse_type(p) = ptr
    BY <1>2, LLVMTypeIs
  <2> QED
    BY <2>1, <2>2
<1> QED
  BY <1>1, <1>2 DEF Fits

(* Arguments that keep to the rules are taken. *)
LEMMA RightArgumentsPass ==
  ASSUME Inv, NEW f \in Functions, NEW k \in Nat, k <= Len(values), RightArguments(f, k)
  PROVE  CallOutcome(f, k) = "ok"
<1> DEFINE a == Operands(k)
           n == Before(f)
           m == Len(f.parameters)
           rest == {handle_rvalue(a[j + 1]) : j \in n .. k - 1}
           item == ItemType(f)
<1>1. \A i \in 1 .. k : a[i] \in Sane
  BY OperandsAre
<1>2. /\ k >= m - 1 /\ (~f.rest => k >= m)
      /\ \A i \in 1 .. k : a[i].right /\ a[i].type # NoType
      /\ \A i \in 1 .. k : i <= m /\ (f.rest => i <= n) => Fits(a[i], f.parameters[i])
      /\ f.rest => \A i \in n + 1 .. k :
           /\ ~IsArrayVariable(a[i])
           /\ IF item = any THEN HasId(a[i].type) ELSE a[i].type = item
  BY DEF RightArguments
<1>3. /\ m \in Nat /\ f.rest \in BOOLEAN /\ n \in Nat /\ n <= m
      /\ n = IF f.rest THEN m - 1 ELSE m
      /\ \A i \in 1 .. m : f.parameters[i] \in Type
  BY FunctionIs
<1> HIDE DEF n, m, item
<1>4. k >= n
  BY <1>2, <1>3
<1>5. ASSUME NEW i \in 1 .. n PROVE handle_rvalue(a[i]).llvm = parse_type(f.parameters[i])
  <2>1. i \in 1 .. k /\ i \in 1 .. m /\ i <= m
    BY <1>3, <1>4
  <2>2. Fits(a[i], f.parameters[i])
    BY <1>2, <2>1
  <2>3. a[i] \in Sane /\ a[i].right /\ f.parameters[i] \in Type
    BY <1>1, <1>2, <1>3, <2>1
  <2> HIDE DEF a
  <2> QED
    BY <2>2, <2>3, FittingIs
<1>6. ASSUME NEW i \in 1 .. k PROVE a[i].llvm # NoType
  <2>1. a[i] \in Sane /\ a[i].right /\ a[i].type # NoType
    BY <1>1, <1>2
  <2> HIDE DEF a
  <2>2. a[i].type \in Type /\ a[i].llvm = parse_type(a[i].type)
    BY <2>1 DEF Sane, Values, Good
  <2> QED
    BY <2>2, LLVMTypeIs
<1>7. ASSUME f.rest, NEW v \in rest
      PROVE  /\ item = any => v.type # NoType /\ HasId(v.type)
             /\ v.llvm = parse_type(IF item = any THEN v.type ELSE item)
  <2>1. PICK j \in n .. k - 1 : v = handle_rvalue(a[j + 1])
    OBVIOUS
  <2> DEFINE w == a[j + 1]
  <2>2. j + 1 \in 1 .. k /\ j + 1 \in n + 1 .. k
    BY <1>3
  <2>3. /\ w \in Sane /\ w.right /\ ~IsArrayVariable(w)
        /\ IF item = any THEN HasId(w.type) ELSE w.type = item
    BY <1>1, <1>2, <1>7, <2>2
  <2> HIDE DEF w
  <2>4. v.type = w.type /\ v.llvm = parse_type(w.type)
    BY <2>1, <2>3, RvalueIs DEF w
  <2> QED
    BY <2>3, <2>4 DEF HasId
<1> DEFINE crash == f.rest /\ item = any /\ (\E v \in rest : v.type = NoType)
           assert == f.rest /\ item = any /\ (\E v \in rest : ~HasId(v.type))
           invalid == \E i \in 1 .. n : i <= m /\ handle_rvalue(a[i]).llvm # parse_type(f.parameters[i])
           untyped == f.vararg /\ (\E i \in 1 .. k : a[i].llvm = NoType)
           misfit == f.rest /\ (\E v \in rest :
                       v.llvm # parse_type(IF item = any THEN v.type ELSE item))
<1>8. CallOutcome(f, k) =
        IF k < n THEN "undefined" ELSE IF crash THEN "crash" ELSE IF assert THEN "assert"
        ELSE IF invalid THEN "invalid" ELSE IF untyped THEN "invalid"
        ELSE IF misfit THEN "misfit" ELSE "ok"
  BY DEF CallOutcome, n, m, item
<1>9. ~crash /\ ~assert /\ ~misfit
  BY <1>7
<1>10. ~invalid /\ ~untyped
  BY <1>5, <1>6
<1>11. ~(k < n)
  BY <1>3, <1>4
<1> HIDE DEF crash, assert, invalid, untyped, misfit
<1> QED
  BY <1>8, <1>9, <1>10, <1>11

(* Calls. *)
LEMMA CallKeeps ==
  ASSUME Inv, NEW f \in Functions, NEW k \in 0 .. MaxValues, parse_function_call(f, k)
  PROVE  Inv'
<1> DEFINE type == f.type
           outcome == CallOutcome(f, k)
           llvm == IF type = NoType THEN NoType ELSE parse_type(type)
           right == RightArguments(f, k)
           v == Value(type, llvm, "value", right)
<1>1. /\ status = "running" /\ k <= Len(values) /\ UNCHANGED variables /\ k \in Nat
      /\ Result(k, outcome, v)
  BY NamesAssumption DEF parse_function_call
<1>2. right => outcome = "ok"
  BY <1>1, RightArgumentsPass
<1>3. right \in BOOLEAN
  <2>1. \A i \in 1 .. k : Operands(k)[i].right \in BOOLEAN
    BY <1>1, OperandsAre DEF Sane, Values
  <2>2. f.rest \in BOOLEAN /\ f.vararg \in BOOLEAN
    BY FunctionIs
  <2> QED
    BY <2>1, <2>2, Zenon DEF RightArguments
<1>4. type \in Type \cup {NoType}
  BY FunctionIs
<1> HIDE DEF outcome, right, type
<1>5. llvm = parse_type(type) /\ llvm \in Seq(AnyWord)
  BY <1>4, NoTypeIs, LLVMTypeIs
<1>6. "value" \in Places /\ "value" # "alloca" /\ "value" # "constant"
  BY DEF Places
<1> HIDE DEF llvm
<1>7. v \in Sane
  BY <1>3, <1>4, <1>5, <1>6, ValueIs
<1>8. v.right = right
  BY DEF Value
<1> HIDE DEF v
<1> QED
  BY <1>1, <1>2, <1>3, <1>7, <1>8, ResultKeeps

(* Nothing has been evaluated and no variable declared at first. *)
LEMMA InitInv == Init => Inv
<1> SUFFICES ASSUME Init PROVE Inv
  OBVIOUS
<1>1. values \in Seq(Sane) /\ judged = TRUE /\ status = "running"
  BY DEF Init
<1>2. variables \in [Names -> Sane]
  BY NoVariableIs DEF Init
<1> QED
  BY <1>1, <1>2 DEF Inv

(* Every step keeps the invariant. *)
LEMMA NextKeeps == Inv /\ [Next]_vars => Inv'
<1> SUFFICES ASSUME Inv, [Next]_vars PROVE Inv'
  OBVIOUS
<1>1. CASE parse_literal
  BY <1>1, LiteralKeeps
<1>2. CASE parse_variable
  BY <1>2, VariableKeeps
<1>3. CASE parse_item_access
  BY <1>3, ItemAccessKeeps
<1>4. CASE parse_condition
  BY <1>4, ConditionKeeps
<1>5. CASE \E op \in Calculates \cup {"logical"} : parse_operator(op)
  BY <1>5, OperatorKeeps
<1>6. CASE \E k \in 0 .. MaxValues : parse_array(k)
  BY <1>6, ArrayKeeps
<1>7. CASE \E n \in Names, type \in Types : parse_declaration(n, type) \/ parse_match(n, type)
  BY <1>7, DeclarationKeeps, MatchKeeps
<1>8. CASE \E n \in Names, type \in Types \cup {NoType} : parse_assignment(n, type)
  BY <1>8, AssignmentKeeps
<1>9. CASE \E f \in Functions : parse_return(f)
  BY <1>9, ReturnKeeps
<1>10. CASE \E f \in Functions, k \in 0 .. MaxValues : parse_function_call(f, k)
  BY <1>10, CallKeeps
<1>11. CASE UNCHANGED vars
  BY <1>11 DEF vars, Inv
<1> QED
  BY <1>1, <1>2, <1>3, <1>4, <1>5, <1>6, <1>7, <1>8, <1>9, <1>10, <1>11 DEF Next

(* The invariant is enough. *)
LEMMA InvIsSound == Inv => Sound
<1> SUFFICES ASSUME Inv PROVE Sound
  OBVIOUS
<1>1. ASSUME NEW v \in Range(values) PROVE v \in Sane
  <2>1. values \in Seq(Sane)
    BY DEF Inv
  <2>2. PICK i \in DOMAIN values : v = values[i]
    BY DEF Range
  <2> QED
    BY <2>1, <2>2, ElementOfSeq
<1>2. ASSUME NEW v \in Range(variables) PROVE v \in Sane
  BY DEF Range, Inv
<1>3. \A v \in Range(values) \cup Range(variables) : v.right => v.llvm = parse_type(v.type)
  BY <1>1, <1>2 DEF Sane, Good
<1> QED
  BY <1>3 DEF Sound, Inv

(* The checker's rules are enough: an expression that keeps to them has    *)
(* the LLVM type its type stands for, the lengths of arrays included       *)
(* (typechecker.c, codegen.c:83), and no construct that keeps to them ends *)
(* the compiler or generates what LLVM rejects, whatever the functions,    *)
(* parameters and types there are.                                         *)
THEOREM RightExpressionsGenerate == Spec => []Sound
<1>1. Inv /\ [Next]_vars => Inv'
  BY NextKeeps
<1> QED
  BY <1>1, InitInv, InvIsSound, PTL DEF Spec
-----------------------------------------------------------------------------
(* The rest array has an item for each argument after those before it,     *)
(* stored one place too early.                                             *)
RestInv ==
  LET r == rest_array
  IN  /\ r.before \in Int /\ r.length \in Int
      /\ r.indices = {j - 1 : j \in r.before .. r.before + r.length - 1}

(* A call sets the array so; no other step touches it. *)
LEMMA RestIsSet ==
  ASSUME NEW f \in Functions, NEW k \in 0 .. MaxValues, RestInv, parse_function_call(f, k)
  PROVE  RestInv'
<1>1. CASE rest_array' = rest_array
  BY <1>1 DEF RestInv
<1>2. CASE rest_array' # rest_array
  <2> DEFINE n == Before(f)
             boxed == IF ItemType(f) = any
                      THEN {Operands(k)[j + 1].type : j \in n .. k - 1} ELSE {}
             r == [before |-> n, length |-> k - n,
                   indices |-> {RestIndex(f, j) : j \in n .. k - 1}, boxed |-> boxed]
  <2>1. rest_array' = r
    BY <1>2 DEF parse_function_call
  <2>2. n \in Int /\ k \in Int
    BY FunctionIs, NamesAssumption
  <2> HIDE DEF n, boxed
  <2>3. k - n \in Int /\ n + (k - n) - 1 = k - 1
    BY <2>2
  <2>4. r.before = n /\ r.length = k - n /\ r.indices = {j - 1 : j \in n .. k - 1}
    BY DEF RestIndex
  <2> HIDE DEF r
  <2> QED
    BY <2>1, <2>2, <2>3, <2>4 DEF RestInv
<1> QED
  BY <1>1, <1>2

LEMMA RestKeeps == RestInv /\ [Next]_vars => RestInv'
<1> SUFFICES ASSUME RestInv, [Next]_vars PROVE RestInv'
  OBVIOUS
<1>1. CASE \E f \in Functions, k \in 0 .. MaxValues : parse_function_call(f, k)
  BY <1>1, RestIsSet
<1>2. CASE UNCHANGED rest_array
  BY <1>2 DEF RestInv
<1>3. CASE parse_literal \/ parse_variable \/ parse_item_access \/ parse_condition
  BY <1>2, <1>3 DEF parse_literal, parse_variable, parse_item_access, parse_condition
<1>4. CASE \E op \in Calculates \cup {"logical"} : parse_operator(op)
  BY <1>2, <1>4 DEF parse_operator
<1>5. CASE \E k \in 0 .. MaxValues : parse_array(k)
  BY <1>2, <1>5 DEF parse_array
<1>6. CASE \E n \in Names, type \in Types : parse_declaration(n, type) \/ parse_match(n, type)
  BY <1>2, <1>6 DEF parse_declaration, parse_match
<1>7. CASE \E n \in Names, type \in Types \cup {NoType} : parse_assignment(n, type)
  BY <1>2, <1>7 DEF parse_assignment
<1>8. CASE \E f \in Functions : parse_return(f)
  BY <1>2, <1>8 DEF parse_return
<1>9. CASE UNCHANGED vars
  BY <1>2, <1>9 DEF vars
<1> QED
  BY <1>1, <1>3, <1>4, <1>5, <1>6, <1>7, <1>8, <1>9 DEF Next

LEMMA InitRest == Init => RestInv
BY DEF Init, RestInv

LEMMA RestInvFills == RestInv => RestFilled
<1> SUFFICES ASSUME RestInv PROVE RestFilled
  OBVIOUS
<1> DEFINE b == rest_array.before
           n == rest_array.length
           indices == rest_array.indices
<1>1. b \in Int /\ n \in Int /\ indices = {j - 1 : j \in b .. b + n - 1}
  BY DEF RestInv
<1> HIDE DEF b, n, indices
<1>2. ASSUME n > 0, b = 1 PROVE indices = 0 .. n - 1
  <2>1. indices = {j - 1 : j \in 1 .. n}
    BY <1>1, <1>2
  <2>2. \A i \in 0 .. n - 1 : i + 1 \in 1 .. n /\ (i + 1) - 1 = i
    BY <1>1
  <2>3. \A j \in 1 .. n : j - 1 \in 0 .. n - 1
    BY <1>1
  <2>4. indices \subseteq 0 .. n - 1
    BY <2>1, <2>3
  <2>5. 0 .. n - 1 \subseteq indices
    BY <2>1, <2>2
  <2> QED
    BY <2>4, <2>5
<1>3. ASSUME n > 0, indices = 0 .. n - 1 PROVE b = 1
  <2>1. b \in b .. b + n - 1 /\ b - 1 \in indices
    BY <1>1, <1>3
  <2>2. 0 \in indices
    BY <1>1, <1>3
  <2>3. PICK j \in b .. b + n - 1 : 0 = j - 1
    BY <1>1, <2>2
  <2>4. j \in Int /\ b <= j /\ 0 = j - 1
    BY <1>1, <2>3
  <2>5. b <= 1
    BY <1>1, <2>4
  <2>6. b - 1 \in 0 .. n - 1
    BY <1>3, <2>1
  <2>7. b >= 1
    BY <1>1, <2>6
  <2> QED
    BY <1>1, <2>5, <2>7
<1> QED
  BY <1>2, <1>3 DEF RestFilled, b, n, indices

(* The items of a rest array fill it from the first on exactly if one      *)
(* parameter stands before it, of every function and every call of it      *)
(* (codegen.c:254-257).                                                    *)
THEOREM RestArraysFilled == Spec => []RestFilled
<1>1. RestInv /\ [Next]_vars => RestInv'
  BY RestKeeps
<1> QED
  BY <1>1, InitRest, RestInvFills, PTL DEF Spec
=============================================================================
