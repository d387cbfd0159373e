---------------------------- MODULE LinkingProofs ---------------------------
(***************************************************************************)
(* A call goes to the module that makes it (CallsStayInModule) and, in the *)
(* linked program, to the function that was meant (SymbolsResolve), and    *)
(* linking fails only where the program says a thing twice (LinkFails),    *)
(* for any files, however they import each other.                          *)
(***************************************************************************)
EXTENDS Linking, FiniteSetTheorems, SequenceTheorems, WellFoundedInduction, TLAPS

(* A set of numbers that is not empty has a least element. *)
LEMMA Least == ASSUME NEW T \in SUBSET Nat, T # {}
               PROVE \E x \in T : \A y \in T : x <= y
<1> DEFINE R == OpToRel(<, Nat)
<1>1. IsWellFoundedOn(R, Nat)
  BY NatLessThanWellFounded
<1>2. PICK x \in T : \A y \in T : ~(<<y, x>> \in R)
  <2> HIDE DEF R
  <2> QED
    BY <1>1, WFMin
<1>3. \A y \in T : ~(y < x)
  BY <1>2 DEF OpToRel
<1> QED
  BY <1>3

(* What holds of 0 and is passed on to the next number holds of all. *)
LEMMA Induction ==
  ASSUME NEW T \in SUBSET Nat, 0 \in T, \A n \in T : n + 1 \in T
  PROVE T = Nat
<1> SUFFICES ASSUME Nat \ T # {} PROVE FALSE
  OBVIOUS
<1>1. PICK x \in Nat \ T : \A y \in Nat \ T : x <= y
  <2> DEFINE U == Nat \ T
  <2>1. U \in SUBSET Nat /\ U # {}
    OBVIOUS
  <2> HIDE DEF U
  <2>2. \E x \in U : \A y \in U : x <= y
    BY <2>1, Least
  <2> QED
    BY <2>2 DEF U
<1>2. x # 0 /\ x - 1 \in Nat /\ x - 1 \in T
  BY <1>1
<1> QED
  BY <1>1, <1>2

(* A bounded set of numbers that is not empty has a greatest element. *)
LEMMA Greatest == ASSUME NEW n \in Nat, NEW T \in SUBSET (1 .. n), T # {}
                  PROVE \E x \in T : \A y \in T : y <= x
<1> DEFINE U == {n - y : y \in T}
<1>1. U \in SUBSET Nat /\ U # {}
  <2>1. \A y \in T : n - y \in Nat
    OBVIOUS
  <2> QED
    BY <2>1
<1>2. PICK u \in U : \A v \in U : u <= v
  <2> HIDE DEF U
  <2> QED
    BY <1>1, Least
<1>3. PICK x \in T : u = n - x
  OBVIOUS
<1>4. ASSUME NEW y \in T PROVE y <= x
  <2>1. n - x <= n - y
    BY <1>2, <1>3
  <2> QED
    BY <2>1
<1> QED
  BY <1>4

(* The items of a text that are functions, and the symbol of each.         *)
IsFunction(t, i) == t[i].kind = "fun"
IsDeclared(t, i) == t[i].kind \in {"fun", "extern"}
Symbol(f, i) ==
  LET it == TextOf(f)[i]
  IN  IF it.kind = "extern" \/ it.what = "main" THEN <<it.what>> ELSE <<PathOf(f), it.what>>

(* The symbols that LLVM did not make up. *)
Plain == {<<n>> : n \in Names \cup Externs} \cup {<<p, n>> : p \in Paths, n \in Names}

(* At most one, and no, item of a kind and a name.                         *)
Once(f, kind, name) ==
  \A i, j \in DOMAIN TextOf(f) :
    TextOf(f)[i] = Item(kind, name) /\ TextOf(f)[j] = Item(kind, name) => i = j
Never(f, kind, name) == \A i \in DOMAIN TextOf(f) : TextOf(f)[i] # Item(kind, name)

Alone(f, name) == /\ Once(f, "fun", name) /\ Once(f, "extern", name)
                  /\ Never(f, "import", PathOf(f))

All == {Entry} \cup Reach(text, MainPath)
Built == IF status = "linked" THEN All ELSE All \ ({file} \cup todo)
Done == {i \in DOMAIN TextOf(file) : i < item}

TypeOK ==
  /\ text \in [Paths -> Texts]
  /\ todo \subseteq Reach(text, MainPath) /\ file \in All \ todo
  /\ item \in Nat \ {0}
  /\ DOMAIN refs = Nodes /\ refs = [node \in Nodes |-> refs[node]]

(* Where a plain symbol of the module at hand comes from.                  *)
FromOwn(s) == \E i \in Done : IsDeclared(TextOf(file), i) /\ s = Symbol(file, i)
FromImport(s) ==
  \E j \in Done : /\ TextOf(file)[j].kind = "import"
                  /\ \E i \in DOMAIN text[TextOf(file)[j].what] :
                       /\ IsFunction(text[TextOf(file)[j].what], i)
                       /\ s = <<TextOf(file)[j].what, text[TextOf(file)[j].what][i].what>>
Origin == \A s \in DOMAIN here \cap Plain : FromOwn(s) \/ FromImport(s)

HasMain(f) == \E i \in DOMAIN TextOf(f) : TextOf(f)[i] = Item("fun", "main")
Heads(f, s) == s[1] = PathOf(f) \/ (s[1] = "main" /\ HasMain(f))
Owned == \A s \in Defined(here) : Heads(file, s)

Good(node) == refs[node].module = file /\ refs[node].symbol # <<>>

OwnKept ==
  \A i \in Done : IsDeclared(TextOf(file), i) =>
    /\ Good(Node(file, i))
    /\ Alone(file, TextOf(file)[i].what) =>
         /\ refs[Node(file, i)].symbol = Symbol(file, i) /\ Symbol(file, i) \in DOMAIN here
         /\ IsFunction(TextOf(file), i) => here[Symbol(file, i)] = Node(file, i)
ImportsKept ==
  \A j \in Done, p \in Paths : TextOf(file)[j] = Item("import", p) =>
    \A i \in DOMAIN text[p], n \in Names : text[p][i] = Item("fun", n) =>
      /\ Good(Node(p, i))
      /\ Alone(p, n) /\ Once(file, "import", p) =>
           refs[Node(p, i)].symbol = <<p, n>> /\ <<p, n>> \in DOMAIN here

LinkedOwned == \A s \in Defined(linked) : \E q \in Built : Heads(q, s)
LinkedKept ==
  \A q \in Built : \A i \in DOMAIN TextOf(q) :
    IsFunction(TextOf(q), i) /\ Alone(q, TextOf(q)[i].what) =>
      Symbol(q, i) \in DOMAIN linked /\ linked[Symbol(q, i)] = Node(q, i)
Linked == status # "doubly_defined" => LinkedOwned /\ LinkedKept

Clear(c) == /\ Alone(c.to.file, TextOf(c.to.file)[c.to.item].what)
            /\ Once(c.from, "import", PathOf(c.to.file))
Means(c) ==
  IF c.to.file = c.from THEN Symbol(c.to.file, c.to.item)
  ELSE <<PathOf(c.to.file), TextOf(c.to.file)[c.to.item].what>>
CallKept(c) ==
  /\ c.from \in All /\ c.ref.module = c.from /\ c.ref # NoRef
  /\ c.to.file \in All /\ c.to.item \in DOMAIN TextOf(c.to.file)
  /\ c.to = Node(c.to.file, c.to.item)
  /\ IsDeclared(TextOf(c.to.file), c.to.item)
  /\ c.to.file # c.from => IsFunction(TextOf(c.to.file), c.to.item)
  /\ Clear(c) => c.ref.symbol = Means(c) /\ c.ref.symbol \in DOMAIN linked \cup DOMAIN here
CallsKept == \A c \in calls : ~c.stray => CallKept(c)

Over == status = "linked" => here = <<>>

IInv == TypeOK /\ Origin /\ Owned /\ OwnKept /\ ImportsKept /\ Linked /\ CallsKept /\ Over /\ LinkFails

-----------------------------------------------------------------------------
(* A text is a series of items. *)
LEMMA TextItems ==
  ASSUME NEW t \in Texts
  PROVE /\ Len(t) \in Nat /\ Len(t) <= MaxItems /\ DOMAIN t = 1 .. Len(t)
        /\ \A i \in DOMAIN t :
             /\ t[i] = Item(t[i].kind, t[i].what)
             /\ \/ t[i].kind = "import" /\ t[i].what \in Paths
                \/ t[i].kind = "fun" /\ t[i].what \in Names
                \/ t[i].kind = "extern" /\ t[i].what \in Externs
<1>1. PICK n \in 0 .. MaxItems : t \in [1 .. n -> Items]
  BY DEF Texts
<1>2. n \in Nat /\ n <= MaxItems
  BY <1>1, PathsAssumption
<1>3. Len(t) = n /\ DOMAIN t = 1 .. n
  BY <1>1, <1>2
<1>4. ASSUME NEW i \in DOMAIN t
      PROVE /\ t[i] = Item(t[i].kind, t[i].what)
            /\ \/ t[i].kind = "import" /\ t[i].what \in Paths
               \/ t[i].kind = "fun" /\ t[i].what \in Names
               \/ t[i].kind = "extern" /\ t[i].what \in Externs
  BY <1>1, <1>3 DEF Items, Item
<1> QED
  BY <1>2, <1>3, <1>4

(* A text imports files that exist. *)
LEMMA ImportedPaths == ASSUME NEW t \in Texts PROVE Imported(t) \subseteq Paths
<1> SUFFICES ASSUME NEW i \in DOMAIN t, t[i].kind = "import" PROVE t[i].what \in Paths
  BY DEF Imported
<1> QED
  BY TextItems

(* The recursion that follows the imports ends. *)
LEMMA WithinUnfolds ==
  ASSUME NEW t \in [Paths -> Texts], NEW p \in Paths
  PROVE /\ Cardinality(Paths) \in Nat
        /\ Within(t, p)[0] = Imported(t[p])
        /\ \A i \in 1 .. Cardinality(Paths) : Within(t, p)[i] = Wider(t, Within(t, p)[i - 1])
<1> DEFINE N == Cardinality(Paths)
           B == Imported(t[p])
           W(S) == Wider(t, S)
           Turn(g, i) == IF i = 0 THEN B ELSE W(g[i - 1])
           Upto(m) == \E g : g = [i \in 0 .. m |-> Turn(g, i)]
           T == {m \in Nat : Upto(m)}
<1>1. N \in Nat
  BY PathsAssumption, FS_CardinalityType
<1> HIDE DEF N, B, W
<1>2. Upto(0)
  <2> DEFINE g == [i \in 0 .. 0 |-> B]
  <2>1. g = [i \in 0 .. 0 |-> Turn(g, i)]
    OBVIOUS
  <2> QED
    BY <2>1
<1>3. ASSUME NEW m \in Nat, Upto(m) PROVE Upto(m + 1)
  <2>1. PICK g : g = [i \in 0 .. m |-> Turn(g, i)]
    BY <1>3
  <2> DEFINE h == [i \in 0 .. m + 1 |-> IF i = m + 1 THEN W(g[m]) ELSE g[i]]
  <2>2. ASSUME NEW i \in 0 .. m + 1 PROVE h[i] = Turn(h, i)
    <3>1. CASE i = m + 1
      <4>1. h[i] = W(g[m]) /\ i # 0 /\ i - 1 = m /\ h[m] = g[m]
        BY <3>1
      <4> QED
        BY <4>1
    <3>2. CASE i # m + 1
      <4>1. i \in 0 .. m /\ h[i] = g[i]
        BY <3>2
      <4>2. g[i] = Turn(g, i)
        <5> HIDE DEF Turn
        <5> QED
          BY <2>1, <4>1
      <4>3. i # 0 => h[i - 1] = g[i - 1]
        BY <4>1
      <4> QED
        BY <4>1, <4>2, <4>3
    <3> QED
      BY <3>1, <3>2
  <2>3. h = [i \in 0 .. m + 1 |-> Turn(h, i)]
    <3> DEFINE k == [i \in 0 .. m + 1 |-> Turn(h, i)]
    <3>1. \A i \in 0 .. m + 1 : h[i] = k[i]
      <4> HIDE DEF h, Turn
      <4> QED
        BY <2>2
    <3>2. h = [i \in 0 .. m + 1 |-> h[i]] /\ k = [i \in 0 .. m + 1 |-> k[i]]
      OBVIOUS
    <3> HIDE DEF h, k
    <3>3. h = k
      BY <3>1, <3>2
    <3> QED
      BY <3>3 DEF k
  <2> HIDE DEF h, Turn
  <2> QED
    BY <2>3
<1>4. T = Nat
  <2> HIDE DEF Upto
  <2>1. T \in SUBSET Nat /\ 0 \in T /\ \A m \in T : m + 1 \in T
    BY <1>2, <1>3
  <2> HIDE DEF T
  <2> QED
    BY <2>1, Induction
<1>5. PICK g : g = [i \in 0 .. N |-> Turn(g, i)]
  <2>1. N \in T
    <3> HIDE DEF T
    <3> QED
      BY <1>1, <1>4
  <2> QED
    BY <2>1
<1>6. Within(t, p) = CHOOSE w : w = [i \in 0 .. N |-> Turn(w, i)]
  BY DEF Within, N, B, W
<1> DEFINE w == Within(t, p)
<1>7. w = [i \in 0 .. N |-> Turn(w, i)]
  <2> HIDE DEF Turn
  <2> QED
    BY <1>5, <1>6
<1> HIDE DEF w
<1>8. w[0] = B /\ \A i \in 1 .. N : w[i] = W(w[i - 1])
  <2>1. \A i \in 0 .. N : w[i] = Turn(w, i)
    <3> HIDE DEF Turn
    <3> QED
      BY <1>7
  <2>2. 0 \in 0 .. N /\ \A i \in 1 .. N : i \in 0 .. N /\ i # 0
    BY <1>1
  <2> QED
    BY <2>1, <2>2
<1> QED
  BY <1>1, <1>8 DEF w, N, B, W

(* What is imported is widened to a set that imports nothing more, for     *)
(* every time it is not such a set it has one more of the paths.           *)
LEMMA ReachCloses ==
  ASSUME NEW t \in [Paths -> Texts], NEW p \in Paths
  PROVE /\ Reach(t, p) \subseteq Paths /\ Imported(t[p]) \subseteq Reach(t, p)
        /\ \A q \in Reach(t, p) : Imported(t[q]) \subseteq Reach(t, p)
<1> DEFINE N == Cardinality(Paths)
           w == Within(t, p)
           Closes(S) == \A q \in S : Imported(t[q]) \subseteq S
           Fits(i) == /\ w[i] \subseteq Paths /\ Imported(t[p]) \subseteq w[i]
                      /\ Closes(w[i]) \/ Cardinality(w[i]) > i
           T == {i \in Nat : i <= N => Fits(i)}
<1>1. N \in Nat /\ IsFiniteSet(Paths)
  BY FS_CardinalityType, PathsAssumption
<1>2. w[0] = Imported(t[p]) /\ \A i \in 1 .. N : w[i] = Wider(t, w[i - 1])
  BY WithinUnfolds
<1>3. \A q \in Paths : Imported(t[q]) \subseteq Paths
  BY ImportedPaths
<1> HIDE DEF N, w
<1>4. Fits(0)
  <2>1. w[0] \subseteq Paths /\ IsFiniteSet(w[0])
    BY <1>1, <1>2, <1>3, FS_Subset
  <2>2. CASE w[0] = {}
    BY <1>2, <2>1, <2>2
  <2>3. CASE w[0] # {}
    <3>1. Cardinality(w[0]) \in Nat /\ Cardinality(w[0]) # 0
      BY <2>1, <2>3, FS_EmptySet, FS_CardinalityType
    <3>2. Cardinality(w[0]) > 0
      BY <3>1
    <3> QED
      BY <1>2, <2>1, <3>2
  <2> QED
    BY <2>2, <2>3
<1>5. ASSUME NEW i \in Nat, i + 1 <= N, Fits(i) PROVE Fits(i + 1)
  <2> DEFINE S == w[i]
             V == w[i + 1]
  <2>1. V = S \cup UNION {Imported(t[q]) : q \in S}
    <3>1. i + 1 \in 1 .. N /\ (i + 1) - 1 = i
      BY <1>1, <1>5
    <3> QED
      BY <1>2, <3>1 DEF Wider
  <2>2. S \subseteq Paths /\ Imported(t[p]) \subseteq S /\ (Closes(S) \/ Cardinality(S) > i)
    BY <1>5
  <2> HIDE DEF S, V
  <2>3. V \subseteq Paths /\ S \subseteq V /\ Imported(t[p]) \subseteq V
    BY <1>3, <2>1, <2>2
  <2>4. IsFiniteSet(V) /\ Cardinality(V) \in Nat /\ Cardinality(S) \in Nat
    BY <1>1, <2>2, <2>3, FS_Subset, FS_CardinalityType
  <2>5. CASE Closes(S)
    <3>1. V = S
      BY <2>1, <2>5
    <3> QED
      BY <2>3, <2>5, <3>1 DEF V
  <2>6. CASE ~Closes(S)
    <3>1. V # S
      BY <2>1, <2>6
    <3>2. Cardinality(S) <= Cardinality(V) /\ Cardinality(S) # Cardinality(V)
      BY <2>3, <2>4, <3>1, FS_Subset
    <3>3. Cardinality(V) > i + 1
      BY <2>2, <2>4, <2>6, <3>2
    <3> QED
      BY <2>3, <3>3 DEF V
  <2> QED
    BY <2>5, <2>6
<1>6. Fits(N)
  <2> HIDE DEF Fits
  <2>1. T \in SUBSET Nat /\ 0 \in T /\ \A i \in T : i + 1 \in T
    BY <1>1, <1>4, <1>5
  <2> HIDE DEF T
  <2>2. N \in T
    BY <1>1, <2>1, Induction
  <2> QED
    BY <1>1, <2>2 DEF T
<1>7. Closes(w[N])
  <2>1. Cardinality(w[N]) \in Nat /\ Cardinality(w[N]) <= N
    BY <1>1, <1>6, FS_Subset, FS_CardinalityType DEF N
  <2> QED
    BY <1>1, <1>6, <2>1
<1> QED
  BY <1>6, <1>7 DEF Reach, N, w

(* So does the one that declares the functions of an imported file.        *)
LEMMA ItemsUnfold ==
  ASSUME text \in [Paths -> Texts], NEW p \in Paths
  PROVE /\ WithItems(p)[0] = Module
        /\ \A i \in 1 .. Len(text[p]) : WithItems(p)[i] = Declare(WithItems(p)[i - 1], p, i)
<1> DEFINE N == Len(text[p])
           B == Module
           W(m, i) == Declare(m, p, i)
           Turn(g, i) == IF i = 0 THEN B ELSE W(g[i - 1], i)
           Upto(m) == \E g : g = [i \in 0 .. m |-> Turn(g, i)]
           T == {m \in Nat : Upto(m)}
<1>1. N \in Nat
  BY TextItems
<1> HIDE DEF N, B, W
<1>2. Upto(0)
  <2> DEFINE g == [i \in 0 .. 0 |-> B]
  <2>1. g = [i \in 0 .. 0 |-> Turn(g, i)]
    OBVIOUS
  <2> QED
    BY <2>1
<1>3. ASSUME NEW m \in Nat, Upto(m) PROVE Upto(m + 1)
  <2>1. PICK g : g = [i \in 0 .. m |-> Turn(g, i)]
    BY <1>3
  <2> DEFINE h == [i \in 0 .. m + 1 |-> IF i = m + 1 THEN W(g[m], m + 1) ELSE g[i]]
  <2>2. ASSUME NEW i \in 0 .. m + 1 PROVE h[i] = Turn(h, i)
    <3>1. CASE i = m + 1
      <4>1. h[i] = W(g[m], m + 1) /\ i # 0 /\ i - 1 = m /\ h[m] = g[m]
        BY <3>1
      <4> QED
        BY <4>1
    <3>2. CASE i # m + 1
      <4>1. i \in 0 .. m /\ h[i] = g[i]
        BY <3>2
      <4>2. g[i] = Turn(g, i)
        <5> HIDE DEF Turn
        <5> QED
          BY <2>1, <4>1
      <4>3. i # 0 => h[i - 1] = g[i - 1]
        BY <4>1
      <4> QED
        BY <4>1, <4>2, <4>3
    <3> QED
      BY <3>1, <3>2
  <2>3. h = [i \in 0 .. m + 1 |-> Turn(h, i)]
    <3> DEFINE k == [i \in 0 .. m + 1 |-> Turn(h, i)]
    <3>1. \A i \in 0 .. m + 1 : h[i] = k[i]
      <4> HIDE DEF h, Turn
      <4> QED
        BY <2>2
    <3>2. h = [i \in 0 .. m + 1 |-> h[i]] /\ k = [i \in 0 .. m + 1 |-> k[i]]
      OBVIOUS
    <3> HIDE DEF h, k
    <3>3. h = k
      BY <3>1, <3>2
    <3> QED
      BY <3>3 DEF k
  <2> HIDE DEF h, Turn
  <2> QED
    BY <2>3
<1>4. T = Nat
  <2> HIDE DEF Upto
  <2>1. T \in SUBSET Nat /\ 0 \in T /\ \A m \in T : m + 1 \in T
    BY <1>2, <1>3
  <2> HIDE DEF T
  <2> QED
    BY <2>1, Induction
<1>5. PICK g : g = [i \in 0 .. N |-> Turn(g, i)]
  <2>1. N \in T
    <3> HIDE DEF T
    <3> QED
      BY <1>1, <1>4
  <2> QED
    BY <2>1
<1>6. WithItems(p) = CHOOSE w : w = [i \in 0 .. N |-> Turn(w, i)]
  BY DEF WithItems, N, B, W
<1> DEFINE w == WithItems(p)
<1>7. w = [i \in 0 .. N |-> Turn(w, i)]
  <2> HIDE DEF Turn
  <2> QED
    BY <1>5, <1>6
<1> HIDE DEF w
<1>8. w[0] = B /\ \A i \in 1 .. N : w[i] = W(w[i - 1], i)
  <2>1. \A i \in 0 .. N : w[i] = Turn(w, i)
    <3> HIDE DEF Turn
    <3> QED
      BY <1>7
  <2>2. 0 \in 0 .. N /\ \A i \in 1 .. N : i \in 0 .. N /\ i # 0
    BY <1>1
  <2> QED
    BY <2>1, <2>2
<1> QED
  BY <1>8 DEF w, N, B, W

(* What AddFunction makes of a module: one more symbol, which is the plain *)
(* one unless the module has it already.                                   *)
Adds(m, n, symbol, node, definition, s) ==
  /\ n.here = With(m.here, s, definition)
  /\ n.refs = [m.refs EXCEPT ![node] = [module |-> file, symbol |-> s]]
  /\ s # <<>> /\ s[1] = symbol[1]
  /\ \/ s = symbol /\ symbol \notin DOMAIN m.here
     \/ s \notin Plain /\ symbol \in DOMAIN m.here

(* LLVMAddFunction adds one symbol: the one asked for if it is free. *)
LEMMA FunctionAdded ==
  ASSUME NEW m, NEW symbol \in Plain, NEW node, NEW definition
  PROVE \E s : Adds(m, AddFunction(m, symbol, node, definition), symbol, node, definition, s)
<1> DEFINE x == ToString(m.renamed + 1)
           s == Fresh(m, symbol)
<1>1. s = IF symbol \in DOMAIN m.here THEN Append(symbol, x) ELSE symbol
  BY DEF Fresh
<1>2. /\ AddFunction(m, symbol, node, definition).here = With(m.here, s, definition)
      /\ AddFunction(m, symbol, node, definition).refs
           = [m.refs EXCEPT ![node] = [module |-> file, symbol |-> s]]
  BY DEF AddFunction
<1> HIDE DEF x, s
<1>3. \/ \E n \in Names \cup Externs : symbol = <<n>>
      \/ \E p \in Paths, n \in Names : symbol = <<p, n>>
  BY DEF Plain
<1>4. symbol # <<>>
  BY <1>3
<1>5. Append(symbol, x) # <<>> /\ Append(symbol, x)[1] = symbol[1] /\ Append(symbol, x) \notin Plain
  <2>1. ASSUME NEW n \in Names \cup Externs, symbol = <<n>>
        PROVE Append(symbol, x) # <<>> /\ Append(symbol, x)[1] = symbol[1]
              /\ Append(symbol, x) \notin Plain
    <3> DEFINE a == Append(symbol, x)
    <3>1. symbol \in Seq({n, x}) /\ Len(symbol) = 1 /\ symbol[1] = n
      BY <2>1
    <3>2. a # <<>> /\ Len(a) = 2 /\ a[1] = n
      <4> DEFINE S == {n, x}
      <4>1. symbol \in Seq(S) /\ x \in S
        BY <3>1
      <4> HIDE DEF S
      <4>2. a # <<>> /\ Len(a) = Len(symbol) + 1 /\ \A i \in 1 .. Len(symbol) : a[i] = symbol[i]
        BY <4>1, AppendProperties
      <4> QED
        BY <3>1, <4>2
    <3> HIDE DEF a
    <3>3. a # <<>> /\ \A b \in Names \cup Externs : a # <<b>>
      BY <3>2
    <3>4. \A q \in Paths, b \in Names : a # <<q, b>>
      BY <3>2, PathsAssumption
    <3>5. a \notin Plain
      BY <3>3, <3>4 DEF Plain
    <3>6. a[1] = symbol[1]
      BY <3>1, <3>2
    <3> QED
      BY <3>3, <3>5, <3>6 DEF a
  <2>2. ASSUME NEW p \in Paths, NEW n \in Names, symbol = <<p, n>>
        PROVE Append(symbol, x) # <<>> /\ Append(symbol, x)[1] = symbol[1]
              /\ Append(symbol, x) \notin Plain
    <3> DEFINE a == Append(symbol, x)
    <3>1. symbol \in Seq({p, n, x}) /\ Len(symbol) = 2 /\ symbol[1] = p
      BY <2>2
    <3>2. a # <<>> /\ Len(a) = 3 /\ a[1] = p
      <4> DEFINE S == {p, n, x}
      <4>1. symbol \in Seq(S) /\ x \in S
        BY <3>1
      <4> HIDE DEF S
      <4>2. a # <<>> /\ Len(a) = Len(symbol) + 1 /\ \A i \in 1 .. Len(symbol) : a[i] = symbol[i]
        BY <4>1, AppendProperties
      <4> QED
        BY <3>1, <4>2
    <3> HIDE DEF a
    <3>3. a # <<>> /\ \A b \in Names \cup Externs : a # <<b>>
      BY <3>2
    <3>4. \A q \in Paths, b \in Names : a # <<q, b>>
      BY <3>2
    <3>5. a \notin Plain
      BY <3>3, <3>4 DEF Plain
    <3>6. a[1] = symbol[1]
      BY <3>1, <3>2
    <3> QED
      BY <3>3, <3>5, <3>6 DEF a
  <2> QED
    BY <1>3, <2>1, <2>2
<1>6. Adds(m, AddFunction(m, symbol, node, definition), symbol, node, definition, s)
  BY <1>1, <1>2, <1>4, <1>5 DEF Adds
<1> QED
  BY <1>6

(* The file at hand and those that are loaded are files, with a text. *)
LEMMA FilesHaveTexts ==
  ASSUME TypeOK
  PROVE /\ MainPath \in Paths /\ Entry \notin Paths /\ All \subseteq Files /\ file \in Files
        /\ \A f \in Files : PathOf(f) \in Paths /\ TextOf(f) \in Texts
        /\ \A p \in Paths : PathOf(p) = p /\ TextOf(p) = text[p] /\ p \in Files
<1>1. MainPath \in Paths /\ Entry \notin Paths /\ text \in [Paths -> Texts]
  BY PathsAssumption DEF TypeOK
<1>2. All \subseteq Files /\ file \in Files
  BY <1>1, ReachCloses DEF All, Files, TypeOK
<1>3. \A f \in Files : PathOf(f) \in Paths /\ TextOf(f) \in Texts
  BY <1>1 DEF Files, PathOf, TextOf
<1>4. \A p \in Paths : PathOf(p) = p /\ TextOf(p) = text[p] /\ p \in Files
  BY <1>1 DEF Files, PathOf, TextOf
<1> QED
  BY <1>1, <1>2, <1>3, <1>4

(* A node stands for every item of a file. *)
LEMMA ItemsHaveNodes ==
  ASSUME TypeOK, NEW f \in Files, NEW i \in DOMAIN TextOf(f)
  PROVE i \in Nat /\ i >= 1 /\ Node(f, i) \in Nodes /\ Node(f, i) # NoNode
<1>1. i \in 1 .. MaxItems
  <2>1. TextOf(f) \in Texts
    BY FilesHaveTexts
  <2> DEFINE t == TextOf(f)
  <2>2. Len(t) \in Nat /\ Len(t) <= MaxItems /\ DOMAIN t = 1 .. Len(t)
    BY <2>1, TextItems
  <2>3. i \in DOMAIN t /\ MaxItems \in Nat
    BY PathsAssumption
  <2> HIDE DEF t
  <2> QED
    BY <2>2, <2>3
<1> QED
  BY <1>1, PathsAssumption DEF Nodes, Node, NoNode

(* The symbol of an item tells its file, unless it is external or main,    *)
(* and what the item is.                                                   *)
LEMMA SymbolTells ==
  ASSUME TypeOK, NEW f \in Files, NEW i \in DOMAIN TextOf(f), IsDeclared(TextOf(f), i)
  PROVE /\ Symbol(f, i) \in Plain
        /\ IsFunction(TextOf(f), i) => Heads(f, Symbol(f, i))
        /\ \A p \in Paths, n \in Names : Symbol(f, i) = <<p, n>> => PathOf(f) = p
        /\ \A j \in DOMAIN TextOf(f) :
             IsDeclared(TextOf(f), j) /\ Symbol(f, j) = Symbol(f, i) => TextOf(f)[j] = TextOf(f)[i]
<1> DEFINE t == TextOf(f)
<1>1. PathOf(f) \in Paths /\ t \in Texts
  BY FilesHaveTexts
<1>2. \A j \in DOMAIN t :
        /\ t[j] = Item(t[j].kind, t[j].what)
        /\ IsDeclared(t, j) => \/ t[j].kind = "fun" /\ t[j].what \in Names
                               \/ t[j].kind = "extern" /\ t[j].what \in Externs
  <2> HIDE DEF t
  <2> QED
    BY <1>1, TextItems DEF IsDeclared
<1>3. \A j : Symbol(f, j) = IF t[j].kind = "extern" \/ t[j].what = "main"
                            THEN <<t[j].what>> ELSE <<PathOf(f), t[j].what>>
  BY DEF Symbol
<1>4. IsFunction(t, i) => Heads(f, Symbol(f, i))
  <2> SUFFICES ASSUME IsFunction(t, i) PROVE Heads(f, Symbol(f, i))
    OBVIOUS
  <2>1. CASE t[i].what = "main"
    <3>1. Symbol(f, i)[1] = "main"
      BY <1>3, <2>1
    <3>2. t[i] = Item("fun", "main")
      BY <1>2, <2>1 DEF IsFunction
    <3> QED
      BY <3>1, <3>2 DEF Heads, HasMain
  <2>2. CASE t[i].what # "main"
    <3>1. t[i].kind # "extern"
      BY DEF IsFunction
    <3>2. Symbol(f, i)[1] = PathOf(f)
      BY <1>3, <2>2, <3>1
    <3> QED
      BY <3>2 DEF Heads
  <2> QED
    BY <2>1, <2>2
<1>5. i \in DOMAIN t /\ IsDeclared(t, i)
  OBVIOUS
<1>6. IsFunction(TextOf(f), i) => Heads(f, Symbol(f, i))
  BY <1>4
<1>7. Names \cap Externs = {}
  BY PathsAssumption
<1> HIDE DEF t
<1>8. Symbol(f, i) \in Plain
  <2>1. CASE t[i].kind = "extern" \/ t[i].what = "main"
    <3>1. Symbol(f, i) = <<t[i].what>>
      BY <1>3, <2>1
    <3>2. t[i].what \in Names \cup Externs
      BY <1>2, <1>5
    <3> QED
      BY <3>1, <3>2 DEF Plain
  <2>2. CASE ~(t[i].kind = "extern" \/ t[i].what = "main")
    <3>1. Symbol(f, i) = <<PathOf(f), t[i].what>>
      BY <1>3, <2>2
    <3>2. t[i].what \in Names
      BY <1>2, <1>5, <2>2
    <3> QED
      BY <1>1, <3>1, <3>2 DEF Plain
  <2> QED
    BY <2>1, <2>2
<1>9. \A p \in Paths, n \in Names : Symbol(f, i) = <<p, n>> => PathOf(f) = p
  BY <1>3
<1>10. ASSUME NEW j \in DOMAIN t, IsDeclared(t, j), Symbol(f, j) = Symbol(f, i)
       PROVE t[j] = t[i]
  <2>1. t[j].what = t[i].what
    BY <1>3, <1>10
  <2>2. t[j].kind = t[i].kind
    BY <1>2, <1>5, <1>7, <1>10, <2>1
  <2> QED
    BY <1>2, <1>5, <2>1, <2>2
<1> QED
  BY <1>6, <1>8, <1>9, <1>10 DEF t

(* What is said of the texts stays. *)
LEMMA TextStays ==
  ASSUME text' = text
  PROVE /\ \A f : TextOf(f)' = TextOf(f)
        /\ \A f, i : Symbol(f, i)' = Symbol(f, i)
        /\ \A f, s : Heads(f, s)' <=> Heads(f, s)
        /\ \A f, n : Alone(f, n)' <=> Alone(f, n)
        /\ \A f, k, n : Once(f, k, n)' <=> Once(f, k, n)
        /\ All' = All
<1>1. \A f : TextOf(f)' = TextOf(f)
  BY DEF TextOf
<1>2. \A f : HasMain(f)' <=> HasMain(f)
  BY <1>1 DEF HasMain
<1>3. \A f, i : Symbol(f, i)' = Symbol(f, i)
  BY <1>1 DEF Symbol
<1>4. \A f, s : Heads(f, s)' <=> Heads(f, s)
  BY <1>2 DEF Heads
<1>5. \A f, k, n : Once(f, k, n)' <=> Once(f, k, n)
  BY <1>1 DEF Once
<1>6. \A f, k, n : Never(f, k, n)' <=> Never(f, k, n)
  BY <1>1 DEF Never
<1>7. \A f, n : Alone(f, n)' <=> Alone(f, n)
  BY <1>5, <1>6 DEF Alone
<1>8. All' = All
  BY DEF All
<1> QED
  BY <1>1, <1>2, <1>3, <1>4, <1>5, <1>7, <1>8

(* What declaring the first k items of an imported file makes of the       *)
(* module at hand.                                                         *)
Touched(p, k, node) == \E i \in 1 .. k : IsFunction(text[p], i) /\ node = Node(p, i)
FromFile(p, k, s) == \E i \in 1 .. k : IsFunction(text[p], i) /\ s = <<p, text[p][i].what>>
Referred(p, k, i, m) ==
  /\ m.refs[Node(p, i)].module = file
  /\ m.refs[Node(p, i)].symbol # <<>> /\ m.refs[Node(p, i)].symbol \in DOMAIN m.here
  /\ \/ m.refs[Node(p, i)].symbol = <<p, text[p][i].what>>
     \/ <<p, text[p][i].what>> \in DOMAIN here
     \/ \E j \in 1 .. k : j # i /\ text[p][j] = text[p][i]
Declared(p, k, m) ==
  /\ DOMAIN m.refs = Nodes /\ m.refs = [node \in Nodes |-> m.refs[node]]
  /\ \A node \in Nodes : ~Touched(p, k, node) => m.refs[node] = refs[node]
  /\ \A i \in 1 .. k : IsFunction(text[p], i) => Referred(p, k, i, m)
  /\ DOMAIN here \subseteq DOMAIN m.here
  /\ \A s \in DOMAIN m.here \cap Plain : s \in DOMAIN here \/ FromFile(p, k, s)
  /\ \A s \in DOMAIN here \cap Plain : m.here[s] = here[s]
  /\ Defined(m.here) \subseteq Defined(here)

(* One more item of an imported file is declared. *)
LEMMA DeclaresOne ==
  ASSUME TypeOK, NEW p \in Paths, NEW k \in Nat, k + 1 <= Len(text[p]), NEW m, Declared(p, k, m)
  PROVE Declared(p, k + 1, Declare(m, p, k + 1))
<1> DEFINE l == k + 1
           n == Declare(m, p, l)
           t == text[p]
           symbol == <<p, t[l].what>>
<1>1. /\ t \in Texts /\ l \in DOMAIN t /\ l \in Nat /\ l >= 1
      /\ \A i \in 1 .. l : i \in DOMAIN t /\ Node(p, i) \in Nodes
  <2>1. t \in Texts /\ p \in Files /\ TextOf(p) = t
    BY FilesHaveTexts
  <2>2. Len(t) \in Nat /\ DOMAIN t = 1 .. Len(t)
    BY <2>1, TextItems
  <2>3. l \in DOMAIN t /\ \A i \in 1 .. l : i \in DOMAIN t
    BY <2>2
  <2>4. \A i \in DOMAIN t : Node(p, i) \in Nodes
    BY <2>1, ItemsHaveNodes
  <2> QED
    BY <2>1, <2>3, <2>4
<1>2. t[l] = Item(t[l].kind, t[l].what) /\ (t[l].kind = "fun" => t[l].what \in Names)
  BY <1>1, TextItems
<1>3. n = IF t[l].kind # "fun" THEN m ELSE AddFunction(m, symbol, Node(p, l), NoNode)
  BY DEF Declare, parse_function_definition, resolve_identifier_name
<1>4. \A i \in 1 .. l : i \in 1 .. k \/ i = l
  OBVIOUS
<1>5. \A i \in 1 .. k : i \in 1 .. l /\ i # l
  OBVIOUS
<1>6. l \in 1 .. l
  OBVIOUS
<1>7. CASE t[l].kind # "fun"
  <2> HIDE DEF l
  <2>1. n = m /\ ~IsFunction(t, l)
    BY <1>3, <1>7 DEF IsFunction
  <2> HIDE DEF n, t
  <2>2. \A node : Touched(p, l, node) <=> Touched(p, k, node)
    BY <1>4, <1>5, <2>1 DEF Touched, t
  <2>3. \A s : FromFile(p, k, s) => FromFile(p, l, s)
    BY <1>5 DEF FromFile
  <2>4. ASSUME NEW i \in 1 .. l, IsFunction(text[p], i) PROVE Referred(p, l, i, n)
    <3>1. i \in 1 .. k /\ Referred(p, k, i, m)
      BY <1>4, <2>1, <2>4 DEF Declared, t
    <3> QED
      BY <1>5, <2>1, <3>1 DEF Referred
  <2>5. Declared(p, l, n)
    BY <2>1, <2>2, <2>3, <2>4 DEF Declared
  <2> QED
    BY <2>5 DEF n, l
<1>8. CASE t[l].kind = "fun"
  <2>1. IsFunction(t, l)
    BY <1>8 DEF IsFunction
  <2>2. symbol \in Plain
    BY <1>2, <1>8 DEF Plain
  <2>3. PICK s : Adds(m, n, symbol, Node(p, l), NoNode, s)
    BY <1>3, <1>8, <2>2, FunctionAdded
  <2> HIDE DEF n, l
  <2>4. /\ DOMAIN n.here = DOMAIN m.here \cup {s} /\ n.here[s] = NoNode
        /\ \A x \in DOMAIN m.here : x # s => n.here[x] = m.here[x]
    BY <2>3 DEF Adds, With
  <2>5. DOMAIN m.refs = Nodes /\ Node(p, l) \in Nodes
    BY <1>1, <1>6 DEF Declared
  <2>6. /\ DOMAIN n.refs = Nodes /\ n.refs = [node \in Nodes |-> n.refs[node]]
        /\ n.refs[Node(p, l)] = [module |-> file, symbol |-> s]
        /\ \A node \in Nodes : node # Node(p, l) => n.refs[node] = m.refs[node]
    BY <2>3, <2>5 DEF Adds
  <2>7. /\ s # <<>>
        /\ \/ s = symbol /\ symbol \notin DOMAIN m.here
           \/ s \notin Plain /\ symbol \in DOMAIN m.here
    <3> HIDE DEF symbol
    <3> QED
      BY <2>3 DEF Adds
  <2>8. \A i \in 1 .. k : Node(p, i) # Node(p, l)
    BY <1>5 DEF Node
  <2>9. \A node : Touched(p, l, node) <=> Touched(p, k, node) \/ node = Node(p, l)
    BY <1>4, <1>5, <1>6, <2>1 DEF Touched
  <2>10. /\ \A x : FromFile(p, k, x) => FromFile(p, l, x)
         /\ FromFile(p, l, symbol)
    BY <1>5, <1>6, <2>1 DEF FromFile
  <2>11. DOMAIN here \subseteq DOMAIN m.here
    BY DEF Declared
  <2>12. ASSUME symbol \in DOMAIN m.here
         PROVE symbol \in DOMAIN here \/ \E j \in 1 .. l : j # l /\ text[p][j] = text[p][l]
    <3>1. symbol \in DOMAIN here \/ FromFile(p, k, symbol)
      BY <2>2, <2>12 DEF Declared
    <3>2. ASSUME NEW j \in 1 .. k, IsFunction(text[p], j), symbol = <<p, text[p][j].what>>
          PROVE j \in 1 .. l /\ j # l /\ text[p][j] = text[p][l]
      <4>1. j \in 1 .. l /\ j # l /\ j \in DOMAIN t
        BY <1>1, <1>5
      <4>2. t[j] = Item(t[j].kind, t[j].what)
        BY <1>1, <4>1, TextItems
      <4>3. t[j].kind = t[l].kind /\ t[j].what = t[l].what
        BY <1>8, <3>2 DEF IsFunction
      <4> QED
        BY <1>2, <4>1, <4>2, <4>3
    <3> QED
      BY <3>1, <3>2 DEF FromFile
  <2>13. ASSUME NEW i \in 1 .. l, IsFunction(text[p], i) PROVE Referred(p, l, i, n)
    <3>1. CASE i = l
      BY <2>4, <2>6, <2>7, <2>12, <3>1 DEF Referred
    <3>2. CASE i # l
      <4>1. i \in 1 .. k /\ Referred(p, k, i, m)
        BY <1>4, <2>13, <3>2 DEF Declared
      <4>2. n.refs[Node(p, i)] = m.refs[Node(p, i)]
        BY <1>1, <2>6, <2>8, <4>1
      <4> QED
        BY <1>5, <2>4, <4>1, <4>2 DEF Referred
    <3> QED
      BY <3>1, <3>2
  <2>14. \A node \in Nodes : ~Touched(p, l, node) => n.refs[node] = refs[node]
    BY <2>6, <2>9 DEF Declared
  <2>15. \A x \in DOMAIN n.here \cap Plain : x \in DOMAIN here \/ FromFile(p, l, x)
    BY <2>4, <2>7, <2>10 DEF Declared
  <2>16. \A x \in DOMAIN here \cap Plain : n.here[x] = here[x]
    BY <2>4, <2>7, <2>11 DEF Declared
  <2>17. Defined(n.here) \subseteq Defined(here)
    <3>1. Defined(n.here) \subseteq Defined(m.here)
      BY <2>4 DEF Defined
    <3> QED
      BY <3>1 DEF Declared
  <2>18. Declared(p, l, n)
    BY <2>4, <2>6, <2>11, <2>13, <2>14, <2>15, <2>16, <2>17 DEF Declared
  <2> QED
    BY <2>18 DEF n, l
<1> QED
  BY <1>7, <1>8

(* An imported file is declared to its end. *)
LEMMA DeclaresAll ==
  ASSUME TypeOK, NEW p \in Paths
  PROVE Declared(p, Len(text[p]), WithItems(p)[Len(text[p])])
<1> DEFINE N == Len(text[p])
           w == WithItems(p)
           T == {k \in Nat : k <= N => Declared(p, k, w[k])}
<1>1. N \in Nat /\ text \in [Paths -> Texts]
  BY TextItems DEF TypeOK
<1>2. w[0] = Module /\ \A i \in 1 .. N : w[i] = Declare(w[i - 1], p, i)
  BY <1>1, ItemsUnfold
<1> HIDE DEF N, w
<1>3. Declared(p, 0, w[0])
  <2>1. 1 .. 0 = {}
    OBVIOUS
  <2>2. w[0].refs = refs /\ w[0].here = here
    BY <1>2 DEF Module
  <2> QED
    BY <2>1, <2>2 DEF Declared, TypeOK
<1>4. ASSUME NEW k \in Nat, k + 1 <= N, Declared(p, k, w[k]) PROVE Declared(p, k + 1, w[k + 1])
  <2>1. k + 1 \in 1 .. N /\ (k + 1) - 1 = k
    BY <1>1, <1>4
  <2>2. w[k + 1] = Declare(w[k], p, k + 1)
    BY <1>2, <2>1
  <2>3. Declared(p, k + 1, Declare(w[k], p, k + 1))
    BY <1>4, DeclaresOne DEF N
  <2> QED
    BY <2>2, <2>3
<1>5. T \in SUBSET Nat /\ 0 \in T /\ \A k \in T : k + 1 \in T
  BY <1>1, <1>3, <1>4
<1>6. N \in T
  <2> HIDE DEF T
  <2> QED
    BY <1>1, <1>5, Induction
<1> QED
  BY <1>1, <1>6 DEF N, w

(* What is said of the texts alone stays true while a file is built. *)
LEMMA FileStays ==
  ASSUME text' = text, file' = file
  PROVE /\ TextOf(file)' = TextOf(file)
        /\ \A i : Symbol(file, i)' = Symbol(file, i)
        /\ \A s : Heads(file, s)' <=> Heads(file, s)
        /\ \A n : Alone(file, n)' <=> Alone(file, n)
        /\ \A k, n : Once(file, k, n)' <=> Once(file, k, n)
<1>1. TextOf(file)' = TextOf(file)
  BY DEF TextOf
<1>2. HasMain(file)' <=> HasMain(file)
  BY <1>1 DEF HasMain
<1>3. \A i : Symbol(file, i)' = Symbol(file, i)
  BY <1>1 DEF Symbol
<1>4. \A s : Heads(file, s)' <=> Heads(file, s)
  BY <1>2 DEF Heads
<1>5. \A k, n : Once(file, k, n)' <=> Once(file, k, n)
  BY <1>1 DEF Once
<1>6. \A k, n : Never(file, k, n)' <=> Never(file, k, n)
  BY <1>1 DEF Never
<1>7. \A n : Alone(file, n)' <=> Alone(file, n)
  BY <1>5, <1>6 DEF Alone
<1> QED
  BY <1>1, <1>3, <1>4, <1>5, <1>7

(* The next item is one of the file, and is done in a step. *)
Advances == /\ item <= Len(TextOf(file)) /\ item' = item + 1
            /\ UNCHANGED <<text, todo, file, linked>>
(* After an item is done, the items done are one more. *)
LEMMA ItemDone ==
  ASSUME TypeOK, Advances
  PROVE /\ item \in DOMAIN TextOf(file) /\ Done' = Done \cup {item} /\ item \notin Done
        /\ Done \subseteq DOMAIN TextOf(file)
<1> DEFINE t == TextOf(file)
<1>1. t \in Texts
  BY FilesHaveTexts
<1>2. Len(t) \in Nat /\ DOMAIN t = 1 .. Len(t)
  BY <1>1, TextItems
<1>3. item \in Nat /\ item >= 1 /\ item <= Len(t) /\ item' = item + 1
  BY DEF TypeOK, Advances
<1>4. TextOf(file)' = t
  <2>1. text' = text /\ file' = file
    BY DEF Advances
  <2> QED
    BY <2>1 DEF TextOf
<1>5. Done = {i \in DOMAIN t : i < item} /\ Done' = {i \in DOMAIN t : i < item'}
  BY <1>4 DEF Done
<1> HIDE DEF t
<1>6. item \in DOMAIN t
  BY <1>2, <1>3
<1>7. \A i \in DOMAIN t : i < item' <=> i < item \/ i = item
  BY <1>2, <1>3
<1>8. ~(item < item)
  BY <1>3
<1> QED
  BY <1>5, <1>6, <1>7, <1>8 DEF t

(* What the module at hand and the references are known to be.             *)
Hold == TypeOK /\ Origin /\ Owned /\ OwnKept /\ ImportsKept
Grows == DOMAIN here \subseteq DOMAIN here'

(* An import leaves a reference of this module on each function of the file. *)
LEMMA ImportKeeps == ASSUME Hold, parse_import, NEW p, p = What PROVE Hold' /\ Grows
<1> DEFINE N == Len(text[p])
           m == WithItems(p)[N]
           t == TextOf(file)
<1> USE DEF Hold
<1>1. Advances /\ t[item].kind = "import"
  BY DEF parse_import, At, Advances
<1>2. /\ item \in DOMAIN t /\ Done' = Done \cup {item} /\ item \notin Done
      /\ Done \subseteq DOMAIN t
  BY <1>1, ItemDone
<1>3. t \in Texts /\ PathOf(file) \in Paths /\ t = text[PathOf(file)] /\ file \in Files
  BY FilesHaveTexts DEF TextOf
<1>4. p \in Paths /\ p = t[item].what
  <2>1. p = t[item].what
    BY DEF What
  <2> HIDE DEF t
  <2> QED
    BY <1>1, <1>2, <1>3, <2>1, TextItems
<1>5. here' = m.here /\ refs' = m.refs /\ text' = text /\ file' = file /\ todo' = todo
  BY DEF parse_import, Becomes
<1>6. Declared(p, N, m)
  BY <1>4, DeclaresAll
<1>7. text[p] \in Texts /\ p \in Files /\ TextOf(p) = text[p] /\ DOMAIN text[p] = 1 .. N
  <2>1. text[p] \in Texts /\ p \in Files /\ TextOf(p) = text[p]
    BY <1>4, FilesHaveTexts
  <2> QED
    BY <2>1, TextItems
<1>8. All' = All /\ t' = t
  BY <1>5, TextStays DEF TextOf
<1>9. item' = item + 1 /\ item \in Nat
  BY <1>1 DEF Advances, TypeOK
<1>10. /\ DOMAIN refs' = Nodes /\ refs' = [node \in Nodes |-> refs'[node]]
       /\ \A node \in Nodes : ~Touched(p, N, node) => refs'[node] = refs[node]
       /\ DOMAIN here \subseteq DOMAIN here'
       /\ \A s \in DOMAIN here' \cap Plain : s \in DOMAIN here \/ FromFile(p, N, s)
       /\ \A s \in DOMAIN here \cap Plain : here'[s] = here[s]
       /\ Defined(here') \subseteq Defined(here)
  BY <1>5, <1>6 DEF Declared
<1>11. \A i \in DOMAIN text[p] : IsFunction(text[p], i) =>
         /\ refs'[Node(p, i)].module = file
         /\ refs'[Node(p, i)].symbol # <<>> /\ refs'[Node(p, i)].symbol \in DOMAIN here'
         /\ \/ refs'[Node(p, i)].symbol = <<p, text[p][i].what>>
            \/ <<p, text[p][i].what>> \in DOMAIN here
            \/ \E j \in DOMAIN text[p] : j # i /\ text[p][j] = text[p][i]
  <2> SUFFICES ASSUME NEW i \in DOMAIN text[p], IsFunction(text[p], i)
               PROVE /\ refs'[Node(p, i)].module = file
                     /\ refs'[Node(p, i)].symbol # <<>> /\ refs'[Node(p, i)].symbol \in DOMAIN here'
                     /\ \/ refs'[Node(p, i)].symbol = <<p, text[p][i].what>>
                        \/ <<p, text[p][i].what>> \in DOMAIN here
                        \/ \E j \in DOMAIN text[p] : j # i /\ text[p][j] = text[p][i]
    OBVIOUS
  <2> HIDE DEF N, m
  <2>1. Referred(p, N, i, m)
    BY <1>6, <1>7 DEF Declared
  <2> QED
    BY <1>5, <1>7, <2>1 DEF Referred
<1>12. \A node : Touched(p, N, node) => Good(node)'
  <2> SUFFICES ASSUME NEW i \in DOMAIN text[p], IsFunction(text[p], i) PROVE Good(Node(p, i))'
    BY <1>7 DEF Touched
  <2> QED
    BY <1>5, <1>11 DEF Good
<1>13. \A node \in Nodes : Good(node) => Good(node)'
  <2> SUFFICES ASSUME NEW node \in Nodes, Good(node) PROVE Good(node)'
    OBVIOUS
  <2> QED
    BY <1>5, <1>10, <1>12 DEF Good
<1> HIDE DEF N, m, t
<1>14. TypeOK'
  BY <1>5, <1>8, <1>9, <1>10 DEF TypeOK
<1>15. Origin'
  <2> SUFFICES ASSUME NEW s \in DOMAIN here' \cap Plain PROVE FromOwn(s)' \/ FromImport(s)'
    BY DEF Origin
  <2>1. FromOwn(s) => FromOwn(s)'
    BY <1>2, <1>5, <1>8, TextStays DEF FromOwn, t
  <2>2. FromImport(s) => FromImport(s)'
    BY <1>2, <1>5, <1>8 DEF FromImport, t
  <2>3. FromFile(p, N, s) => FromImport(s)'
    <3>1. item \in Done' /\ t'[item].kind = "import" /\ t'[item].what = p /\ text' = text
      BY <1>1, <1>2, <1>4, <1>5, <1>8
    <3>2. SUFFICES ASSUME NEW i \in DOMAIN text[p], IsFunction(text[p], i), s = <<p, text[p][i].what>>
                   PROVE FromImport(s)'
      BY <1>7 DEF FromFile
    <3> QED
      BY <3>1, <3>2 DEF FromImport, t
  <2> QED
    BY <1>10, <2>1, <2>2, <2>3 DEF Origin
<1>16. Owned'
  BY <1>5, <1>10, FileStays DEF Owned
<1>17. OwnKept'
  <2> SUFFICES ASSUME NEW i \in Done', IsDeclared(t, i)
               PROVE /\ Good(Node(file, i))'
                     /\ Alone(file, t[i].what) =>
                          /\ refs'[Node(file, i)].symbol = Symbol(file, i)
                          /\ Symbol(file, i) \in DOMAIN here'
                          /\ IsFunction(t, i) => here'[Symbol(file, i)] = Node(file, i)
    BY <1>5, <1>8, FileStays DEF OwnKept, t
  <2>1. i \in Done
    BY <1>1, <1>2 DEF IsDeclared
  <2>2. Good(Node(file, i)) /\ Node(file, i) \in Nodes
    BY <1>2, <1>3, <2>1, ItemsHaveNodes DEF OwnKept, t
  <2>3. ASSUME Alone(file, t[i].what)
        PROVE /\ refs'[Node(file, i)].symbol = Symbol(file, i)
              /\ Symbol(file, i) \in DOMAIN here'
              /\ IsFunction(t, i) => here'[Symbol(file, i)] = Node(file, i)
    <3>1. /\ refs[Node(file, i)].symbol = Symbol(file, i) /\ Symbol(file, i) \in DOMAIN here
          /\ IsFunction(t, i) => here[Symbol(file, i)] = Node(file, i)
      BY <2>1, <2>3 DEF OwnKept, t
    <3>2. p # PathOf(file)
      <4>1. t[item] # Item("import", PathOf(file))
        BY <1>2, <2>3 DEF Alone, Never, t
      <4>2. t[item] = Item(t[item].kind, t[item].what)
        BY <1>2, <1>3, TextItems
      <4> QED
        BY <1>1, <1>4, <4>1, <4>2
    <3>3. ~Touched(p, N, Node(file, i))
      <4>1. file # p
        BY <1>4, <3>2, FilesHaveTexts
      <4> QED
        BY <4>1 DEF Touched, Node
    <3>4. Symbol(file, i) \in Plain
      BY <1>2, <1>3, <2>1, SymbolTells DEF t
    <3> QED
      BY <1>10, <2>2, <3>1, <3>3, <3>4
  <2> QED
    BY <1>5, <1>13, <2>2, <2>3 DEF Good
<1>18. ImportsKept'
  <2> SUFFICES ASSUME NEW j \in Done', NEW q \in Paths, t[j] = Item("import", q),
                      NEW i \in DOMAIN text[q], NEW n \in Names, text[q][i] = Item("fun", n)
               PROVE /\ Good(Node(q, i))'
                     /\ Alone(q, n) /\ Once(file, "import", q) =>
                          /\ refs'[Node(q, i)].symbol = <<q, n>>
                          /\ <<q, n>> \in DOMAIN here'
    <3>1. TextOf(file)' = t
      BY <1>8 DEF t
    <3>2. \A k, b : Once(file, k, b)' <=> Once(file, k, b)
      BY <1>5, FileStays
    <3>3. \A f, b : Alone(f, b)' <=> Alone(f, b)
      BY <1>5, TextStays
    <3> QED
      BY <1>5, <3>1, <3>2, <3>3 DEF ImportsKept
  <2>1. j \in DOMAIN t /\ q \in Paths /\ t[j] = Item("import", q) /\ t[item] = Item("import", p)
    BY <1>1, <1>2, <1>3, <1>4, TextItems
  <2>2. text[q] \in Texts /\ TextOf(q) = text[q] /\ q \in Files /\ PathOf(q) = q
    BY <2>1, FilesHaveTexts
  <2>3. Node(q, i) \in Nodes
    BY <2>2, ItemsHaveNodes
  <2>4. IsFunction(text[q], i) /\ text[q][i].what = n /\ t[j].kind = "import" /\ t[j].what = q
    BY DEF IsFunction, Item
  <2>5. <<q, n>> \in Plain
    BY <2>1, <2>4 DEF Plain
  <2>6. CASE j \in Done
    <3>1. /\ Good(Node(q, i))
          /\ Alone(q, n) /\ Once(file, "import", q) =>
               /\ refs[Node(q, i)].symbol = <<q, n>>
               /\ <<q, n>> \in DOMAIN here
      BY <2>6 DEF ImportsKept, t
    <3>2. Once(file, "import", q) => p # q
      BY <1>2, <2>1, <2>6 DEF Once, t
    <3>3. p # q => ~Touched(p, N, Node(q, i))
      BY DEF Touched, Node
    <3>4. Good(Node(q, i))'
      BY <1>13, <2>3, <3>1
    <3>5. ASSUME Alone(q, n), Once(file, "import", q)
          PROVE /\ refs'[Node(q, i)].symbol = <<q, n>>
                /\ <<q, n>> \in DOMAIN here'
      BY <1>10, <2>3, <3>1, <3>2, <3>3, <3>5
    <3> QED
      BY <3>4, <3>5
  <2>7. CASE j = item
    <3>1. q = p
      BY <1>4, <2>4, <2>7
    <3>2. Good(Node(q, i))'
      BY <1>7, <1>12, <2>4, <3>1 DEF Touched
    <3>3. ASSUME Alone(q, n), Once(file, "import", q),
                 <<q, n>> \in DOMAIN here
          PROVE FALSE
      <4> DEFINE s == <<q, n>>
      <4>1. ASSUME NEW l \in Done, IsDeclared(t, l), s = Symbol(file, l) PROVE FALSE
        <5>1. PathOf(file) = q
          <6>1. l \in DOMAIN TextOf(file) /\ IsDeclared(TextOf(file), l)
            BY <1>2, <4>1 DEF t
          <6>2. \A b \in Paths, d \in Names : Symbol(file, l) = <<b, d>> => PathOf(file) = b
            <7> HIDE DEF s
            <7> QED
              BY <1>3, <6>1, SymbolTells
          <6> QED
            BY <2>1, <2>4, <4>1, <6>2
        <5>2. t = text[q]
          BY <1>3, <5>1
        <5> QED
          BY <1>2, <2>1, <2>2, <3>1, <3>3, <5>2 DEF Alone, Never
      <4>2. ASSUME NEW l \in Done, t[l].kind = "import", t[l].what = q PROVE FALSE
        <5>1. l \in DOMAIN t /\ t[l] = Item("import", q)
          BY <1>2, <1>3, <4>2, TextItems
        <5> QED
          BY <1>2, <2>1, <3>1, <3>3, <5>1 DEF Once, t
      <4>3. FromOwn(s) \/ FromImport(s)
        BY <2>5, <3>3 DEF Origin
      <4>4. FromOwn(s) => \E l \in Done : IsDeclared(t, l) /\ s = Symbol(file, l)
        <5> HIDE DEF s
        <5> QED
          BY DEF FromOwn, t
      <4>5. FromImport(s) => \E l \in Done : t[l].kind = "import" /\ t[l].what = q
        BY DEF FromImport, t
      <4> HIDE DEF s
      <4> QED
        BY <4>1, <4>2, <4>3, <4>4, <4>5
    <3>4. ASSUME Alone(q, n), NEW l \in DOMAIN text[q], l # i, text[q][l] = text[q][i]
          PROVE FALSE
      BY <2>2, <3>4 DEF Alone, Once
    <3>5. ASSUME Alone(q, n), Once(file, "import", q)
          PROVE /\ refs'[Node(q, i)].symbol = <<q, n>>
                /\ <<q, n>> \in DOMAIN here'
      BY <1>11, <2>4, <3>1, <3>3, <3>4, <3>5
    <3> QED
      BY <3>2, <3>5
  <2> QED
    BY <1>2, <2>6, <2>7
<1> QED
  BY <1>10, <1>14, <1>15, <1>16, <1>17, <1>18 DEF Grows

(* A function or an extern of the file at hand is added to its module.     *)
AddsItem(x, definition) ==
  /\ Advances /\ x = item /\ IsDeclared(TextOf(file), x)
  /\ definition = IF IsFunction(TextOf(file), x) THEN Node(file, x) ELSE NoNode
  /\ here' = AddFunction(Module, Symbol(file, x), Node(file, x), definition).here
  /\ refs' = AddFunction(Module, Symbol(file, x), Node(file, x), definition).refs

(* A function or an extern of the file at hand keeps what holds in between. *)
LEMMA ItemKeeps == ASSUME Hold, NEW x, NEW d, AddsItem(x, d) PROVE Hold' /\ Grows
<1> USE DEF Hold
<1> DEFINE t == TextOf(file)
           m == AddFunction(Module, Symbol(file, x), Node(file, x), d)
<1>1. /\ Advances /\ x = item /\ IsDeclared(t, x) /\ here' = m.here /\ refs' = m.refs
      /\ d = IF IsFunction(t, x) THEN Node(file, x) ELSE NoNode
  BY DEF AddsItem
<1>2. /\ x \in DOMAIN t /\ Done' = Done \cup {x} /\ x \notin Done
      /\ Done \subseteq DOMAIN t
  BY <1>1, ItemDone
<1>3. /\ t \in Texts /\ PathOf(file) \in Paths /\ t = text[PathOf(file)] /\ file \in Files
  BY FilesHaveTexts DEF TextOf
<1>4. text' = text /\ file' = file /\ todo' = todo /\ item' = item + 1 /\ item \in Nat
  BY <1>1 DEF Advances, TypeOK
<1>5. All' = All /\ TextOf(file)' = t
  BY <1>4, TextStays DEF TextOf
<1>6. Symbol(file, x) \in Plain
  BY <1>1, <1>2, <1>3, SymbolTells
<1>7. PICK s : Adds(Module, m, Symbol(file, x), Node(file, x), d, s)
  BY <1>6, FunctionAdded
<1> HIDE DEF m, t
<1>8. /\ here' = With(here, s, d) /\ s # <<>> /\ s[1] = Symbol(file, x)[1]
      /\ refs' = [refs EXCEPT ![Node(file, x)] = [module |-> file, symbol |-> s]]
      /\ \/ s = Symbol(file, x) /\ Symbol(file, x) \notin DOMAIN here
         \/ s \notin Plain /\ Symbol(file, x) \in DOMAIN here
  BY <1>1, <1>7 DEF Adds, Module
<1>9. /\ DOMAIN here' = DOMAIN here \cup {s} /\ here'[s] = d
      /\ \A y \in DOMAIN here : y # s => here'[y] = here[y]
  BY <1>8 DEF With
<1>10. \A y \in DOMAIN here \cap Plain : y \in DOMAIN here' /\ here'[y] = here[y]
  BY <1>8, <1>9
<1>11. Node(file, x) \in Nodes /\ x \in Nat
  BY <1>2, <1>3, ItemsHaveNodes DEF t
<1>12. DOMAIN refs = Nodes
  BY DEF TypeOK
<1>13. /\ DOMAIN refs' = Nodes /\ refs' = [node \in Nodes |-> refs'[node]]
       /\ refs'[Node(file, x)] = [module |-> file, symbol |-> s]
       /\ \A node \in Nodes : node # Node(file, x) => refs'[node] = refs[node]
  BY <1>8, <1>11, <1>12
<1>14. \A node \in Nodes : Good(node) \/ node = Node(file, x) => Good(node)'
  <2> SUFFICES ASSUME NEW node \in Nodes, Good(node) \/ node = Node(file, x) PROVE Good(node)'
    OBVIOUS
  <2>1. CASE node = Node(file, x)
    BY <1>4, <1>8, <1>13, <2>1 DEF Good
  <2>2. CASE node # Node(file, x)
    BY <1>4, <1>13, <2>2 DEF Good
  <2> QED
    BY <2>1, <2>2
<1>15. TypeOK'
  BY <1>4, <1>5, <1>13 DEF TypeOK
<1>16. Origin'
  <2> SUFFICES ASSUME NEW y \in DOMAIN here' \cap Plain PROVE FromOwn(y)' \/ FromImport(y)'
    BY DEF Origin
  <2>1. FromOwn(y) => FromOwn(y)'
    BY <1>2, <1>4, <1>5, FileStays DEF FromOwn, t
  <2>2. FromImport(y) => FromImport(y)'
    BY <1>2, <1>4, <1>5 DEF FromImport, t
  <2>3. y = Symbol(file, x) => FromOwn(y)'
    BY <1>1, <1>2, <1>4, <1>5, FileStays DEF FromOwn, t
  <2> QED
    BY <1>8, <1>9, <2>1, <2>2, <2>3 DEF Origin
<1>17. Owned'
  <2>1. \A y \in DOMAIN here : here[y] # NoNode => Heads(file, y)
    BY DEF Owned, Defined
  <2>2. d # NoNode => Heads(file, Symbol(file, x))
    BY <1>1, <1>2, <1>3, SymbolTells DEF t
  <2>3. \A y : Heads(file, y) <=> y[1] = PathOf(file) \/ (y[1] = "main" /\ HasMain(file))
    BY DEF Heads
  <2>4. d # NoNode => Heads(file, s)
    BY <1>8, <2>2, <2>3
  <2>5. \A y \in DOMAIN here' : here'[y] # NoNode => Heads(file, y)
    BY <1>9, <2>1, <2>4
  <2>6. \A y : Heads(file, y)' <=> Heads(file, y)
    BY <1>4, FileStays
  <2> QED
    BY <2>5, <2>6 DEF Owned, Defined
<1>18. OwnKept'
  <2> SUFFICES ASSUME NEW i \in Done', IsDeclared(t, i)
               PROVE /\ Good(Node(file, i))'
                     /\ Alone(file, t[i].what) =>
                          /\ refs'[Node(file, i)].symbol = Symbol(file, i)
                          /\ Symbol(file, i) \in DOMAIN here'
                          /\ IsFunction(t, i) => here'[Symbol(file, i)] = Node(file, i)
    BY <1>4, <1>5, FileStays DEF OwnKept, t
  <2>1. i \in DOMAIN t
    BY <1>2
  <2>2. Node(file, i) \in Nodes /\ Symbol(file, i) \in Plain
    BY <1>3, <2>1, ItemsHaveNodes, SymbolTells DEF t
  <2>3. CASE i \in Done
    <3>1. /\ Good(Node(file, i))
          /\ Alone(file, t[i].what) =>
               /\ refs[Node(file, i)].symbol = Symbol(file, i) /\ Symbol(file, i) \in DOMAIN here
               /\ IsFunction(t, i) => here[Symbol(file, i)] = Node(file, i)
      BY <2>3 DEF OwnKept, t
    <3>2. Node(file, i) # Node(file, x)
      BY <1>2, <2>3 DEF Node
    <3>3. refs'[Node(file, i)] = refs[Node(file, i)]
      BY <1>13, <2>2, <3>2
    <3>4. Good(Node(file, i))'
      BY <1>4, <3>1, <3>3 DEF Good
    <3> QED
      BY <1>10, <2>2, <3>1, <3>3, <3>4
  <2>4. CASE i = x
    <3>1. ASSUME Alone(file, t[x].what), Symbol(file, x) \in DOMAIN here PROVE FALSE
      <4>1. ASSUME NEW l \in Done, IsDeclared(t, l), Symbol(file, x) = Symbol(file, l) PROVE FALSE
        <5>1. l \in DOMAIN t /\ l # x
          BY <1>2
        <5>2. t[l] = t[x]
          BY <1>1, <1>2, <1>3, <4>1, <5>1, SymbolTells DEF t
        <5>3. t[x] = Item(t[x].kind, t[x].what) /\ t[x].kind \in {"fun", "extern"}
          BY <1>1, <1>2, <1>3, TextItems DEF IsDeclared
        <5>4. Once(file, "fun", t[x].what) /\ Once(file, "extern", t[x].what)
          BY <3>1 DEF Alone
        <5> QED
          BY <1>2, <5>1, <5>2, <5>3, <5>4 DEF Once, t
      <4>2. ASSUME NEW l \in Done, t[l].kind = "import", NEW i1 \in DOMAIN text[t[l].what],
                   IsFunction(text[t[l].what], i1),
                   Symbol(file, x) = <<t[l].what, text[t[l].what][i1].what>>
            PROVE FALSE
        <5>1. l \in DOMAIN t /\ t[l] = Item("import", t[l].what) /\ t[l].what \in Paths
          BY <1>2, <1>3, <4>2, TextItems
        <5>2. text[t[l].what] \in Texts
          BY <5>1 DEF TypeOK
        <5>3. text[t[l].what][i1].what \in Names
          BY <4>2, <5>2, TextItems DEF IsFunction
        <5>4. PathOf(file) = t[l].what
          BY <1>1, <1>2, <1>3, <4>2, <5>1, <5>3, SymbolTells DEF t
        <5>5. Never(file, "import", PathOf(file))
          BY <3>1 DEF Alone
        <5> QED
          BY <5>1, <5>4, <5>5 DEF Never, t
      <4>3. FromOwn(Symbol(file, x)) \/ FromImport(Symbol(file, x))
        BY <1>6, <3>1 DEF Origin
      <4> QED
        BY <4>1, <4>2, <4>3 DEF FromOwn, FromImport, t
    <3>2. Good(Node(file, i))'
      BY <1>4, <1>8, <1>13, <2>4 DEF Good
    <3>3. Alone(file, t[x].what) => s = Symbol(file, x)
      BY <1>8, <3>1
    <3>4. IsFunction(t, x) => d = Node(file, x)
      BY <1>1
    <3> QED
      BY <1>9, <1>13, <2>4, <3>2, <3>3, <3>4
  <2> QED
    BY <1>2, <2>3, <2>4
<1>19. ImportsKept'
  <2> SUFFICES ASSUME NEW j \in Done', NEW q \in Paths, t[j] = Item("import", q),
                      NEW i \in DOMAIN text[q], NEW n \in Names, text[q][i] = Item("fun", n)
               PROVE /\ Good(Node(q, i))'
                     /\ Alone(q, n) /\ Once(file, "import", q) =>
                          refs'[Node(q, i)].symbol = <<q, n>> /\ <<q, n>> \in DOMAIN here'
    <3>1. TextOf(file)' = t
      BY <1>5 DEF t
    <3>2. \A k, b : Once(file, k, b)' <=> Once(file, k, b)
      BY <1>4, FileStays
    <3>3. \A f, b : Alone(f, b)' <=> Alone(f, b)
      BY <1>4, TextStays
    <3> QED
      BY <1>4, <3>1, <3>2, <3>3 DEF ImportsKept
  <2>1. j \in Done
    BY <1>1, <1>2 DEF IsDeclared, Item
  <2>2. q \in Files /\ TextOf(q) = text[q] /\ PathOf(q) = q
    BY FilesHaveTexts
  <2>3. Node(q, i) \in Nodes
    BY <2>2, ItemsHaveNodes
  <2>4. /\ Good(Node(q, i))
        /\ Alone(q, n) /\ Once(file, "import", q) =>
             refs[Node(q, i)].symbol = <<q, n>> /\ <<q, n>> \in DOMAIN here
    BY <2>1 DEF ImportsKept, t
  <2>5. Good(Node(q, i))'
    BY <1>14, <2>3, <2>4
  <2>6. Alone(q, n) => q # file
    BY <1>2, <2>1, <2>2 DEF Alone, Never, t
  <2>7. q # file => Node(q, i) # Node(file, x)
    BY DEF Node
  <2>8. <<q, n>> \in Plain
    BY DEF Plain
  <2>9. ASSUME Alone(q, n), Once(file, "import", q)
        PROVE refs'[Node(q, i)].symbol = <<q, n>> /\ <<q, n>> \in DOMAIN here'
    BY <1>9, <1>13, <2>3, <2>4, <2>6, <2>7, <2>9
  <2> QED
    BY <2>5, <2>9
<1> QED
  BY <1>9, <1>15, <1>16, <1>17, <1>18, <1>19 DEF Grows

(* The latest item is one of the items. *)
LEMMA LatestIsItem ==
  ASSUME NEW f, NEW n \in Nat, NEW kind, NEW name, NEW node \in Latest(f, n, kind, name)
  PROVE \E i \in 1 .. n : TextOf(f)[i] = Item(kind, name) /\ node = Node(f, i)
<1> DEFINE found == {i \in 1 .. n : TextOf(f)[i] = Item(kind, name)}
<1>1. /\ found # {}
      /\ node = Node(f, CHOOSE i \in found : \A j \in found : j <= i)
  BY DEF Latest
<1>2. \E i \in found : \A j \in found : j <= i
  <2>1. found \in SUBSET (1 .. n)
    OBVIOUS
  <2> HIDE DEF found
  <2> QED
    BY <1>1, <2>1, Greatest
<1> DEFINE i == CHOOSE i \in found : \A j \in found : j <= i
<1>3. i \in found
  <2> HIDE DEF found
  <2> QED
    BY <1>2
<1>4. node = Node(f, i)
  BY <1>1
<1> HIDE DEF i
<1> QED
  BY <1>3, <1>4

(* What a call is known to be, one step on.                                *)
LEMMA CallStays ==
  ASSUME text' = text, NEW c
  PROVE CallKept(c)' <=>
          /\ c.from \in All /\ c.ref.module = c.from /\ c.ref # NoRef
          /\ c.to.file \in All /\ c.to.item \in DOMAIN TextOf(c.to.file)
          /\ c.to = Node(c.to.file, c.to.item)
          /\ IsDeclared(TextOf(c.to.file), c.to.item)
          /\ c.to.file # c.from => IsFunction(TextOf(c.to.file), c.to.item)
          /\ Clear(c) => /\ c.ref.symbol = Means(c)
                         /\ c.ref.symbol \in DOMAIN linked' \cup DOMAIN here'
<1> DEFINE f == c.to.file
           i == c.to.item
           g == c.from
<1>1. f' = f /\ i' = i /\ g' = g
  OBVIOUS
<1> HIDE DEF f, i, g
<1>2. TextOf(f)' = TextOf(f) /\ Symbol(f, i)' = Symbol(f, i) /\ All' = All
  BY <1>1, TextStays DEF TextOf, Symbol, f, i
<1>3. Clear(c)' <=> Clear(c)
  <2>1. \A h : TextOf(h)' = TextOf(h)
    BY TextStays
  <2>2. \A h, n : Alone(h, n)' <=> Alone(h, n)
    BY TextStays
  <2>3. \A h, k, n : Once(h, k, n)' <=> Once(h, k, n)
    BY TextStays
  <2> QED
    BY <2>1, <2>2, <2>3 DEF Clear
<1>4. Means(c)' = Means(c)
  BY <1>1, <1>2 DEF Means, f, i, g
<1>5. IsFunction(TextOf(f), i)' <=> IsFunction(TextOf(f), i)
  BY <1>1, <1>2 DEF IsFunction
<1> QED
  BY <1>2, <1>3, <1>4, <1>5 DEF CallKept, f, i

(* A call that was made stays what it is, whatever is built later. *)
LEMMA OldCallKept ==
  ASSUME text' = text, NEW c, CallKept(c),
         DOMAIN linked \cup DOMAIN here \subseteq DOMAIN linked' \cup DOMAIN here'
  PROVE CallKept(c)'
<1>1. Clear(c) => c.ref.symbol \in DOMAIN linked' \cup DOMAIN here'
  BY DEF CallKept
<1> QED
  BY <1>1, CallStays DEF CallKept

(* A call of an item of the file at hand that is done, or of a function of *)
(* a file imported by one.                                                 *)
LEMMA OwnCallKept ==
  ASSUME TypeOK, text' = text, file' = file, OwnKept', file \in All, NEW c,
         NEW i \in Done', IsDeclared(TextOf(file), i), i \in DOMAIN TextOf(file),
         c.from = file, c.to = Node(file, i), c.ref = refs'[Node(file, i)]
  PROVE CallKept(c)'
<1> DEFINE t == TextOf(file)
<1>1. /\ refs'[Node(file, i)].module = file /\ refs'[Node(file, i)].symbol # <<>>
      /\ Alone(file, t[i].what) =>
            /\ refs'[Node(file, i)].symbol = Symbol(file, i)
            /\ Symbol(file, i) \in DOMAIN here'
  <2>1. TextOf(file)' = t
    BY DEF TextOf
  <2> HIDE DEF t
  <2> QED
    BY <2>1, FileStays DEF OwnKept, Good, t
<1>2. c.to.file = file /\ c.to.item = i
  BY DEF Node
<1>3. c.ref # NoRef
  BY <1>1 DEF NoRef
<1>4. Clear(c) => Alone(file, t[i].what)
  BY <1>2 DEF Clear
<1>5. Means(c) = Symbol(file, i)
  BY <1>2 DEF Means
<1> QED
  BY <1>1, <1>2, <1>3, <1>4, <1>5, CallStays

(* A call of an imported function is made through this module. *)
LEMMA ImportedCallKept ==
  ASSUME TypeOK, text' = text, file' = file, ImportsKept', file \in All, NEW c,
         NEW j \in Done', NEW p \in Paths, p \in All, TextOf(file)[j] = Item("import", p),
         p # file, NEW i \in DOMAIN text[p], NEW n \in Names, text[p][i] = Item("fun", n),
         c.from = file, c.to = Node(p, i), c.ref = refs'[Node(p, i)]
  PROVE CallKept(c)'
<1>1. /\ refs'[Node(p, i)].module = file /\ refs'[Node(p, i)].symbol # <<>>
      /\ Alone(p, n) /\ Once(file, "import", p) =>
            /\ refs'[Node(p, i)].symbol = <<p, n>> /\ <<p, n>> \in DOMAIN here'
  <2>1. TextOf(file)' = TextOf(file)
    BY FileStays
  <2>2. \A k, b : Once(file, k, b)' <=> Once(file, k, b)
    BY FileStays
  <2>3. \A f, b : Alone(f, b)' <=> Alone(f, b)
    BY TextStays
  <2> QED
    BY <2>1, <2>2, <2>3 DEF ImportsKept, Good
<1>2. c.to.file = p /\ c.to.item = i
  BY DEF Node
<1>3. c.ref # NoRef
  BY <1>1 DEF NoRef
<1>4. TextOf(p) = text[p] /\ PathOf(p) = p
  BY FilesHaveTexts
<1>5. IsDeclared(text[p], i) /\ text[p][i].what = n /\ text[p][i].kind = "fun"
  BY DEF IsDeclared, Item
<1>6. Clear(c) => Alone(p, n) /\ Once(file, "import", p)
  BY <1>2, <1>4, <1>5 DEF Clear
<1>7. Means(c) = <<p, n>> /\ IsFunction(TextOf(p), i)
  BY <1>2, <1>4, <1>5 DEF Means, IsFunction
<1> QED
  BY <1>1, <1>2, <1>3, <1>4, <1>5, <1>6, <1>7, CallStays

(* The two actions that add an item of the file at hand. *)
LEMMA ExternKeeps == ASSUME Hold, parse_function_external PROVE Hold' /\ Grows
<1> DEFINE t == TextOf(file)
<1>1. PICK x : x = item
  OBVIOUS
<1>2. t[x].kind = "extern" /\ What = t[x].what
  BY <1>1 DEF parse_function_external, At, What
<1>3. resolve_identifier(What, TRUE) = Symbol(file, x)
  BY <1>2 DEF resolve_identifier, Symbol
<1>4. Advances /\ Becomes(AddFunction(Module, resolve_identifier(What, TRUE), Node(file, item), NoNode))
  BY DEF parse_function_external, At, Advances, parse_function_definition
<1>5. IsDeclared(t, x) /\ ~IsFunction(t, x)
  BY <1>2 DEF IsDeclared, IsFunction
<1>6. AddsItem(x, NoNode)
  BY <1>1, <1>3, <1>4, <1>5 DEF AddsItem, Becomes
<1> QED
  BY <1>6, ItemKeeps

(* The files that are imported by a loaded one are loaded. *)
LEMMA ImportsLoaded ==
  ASSUME TypeOK, NEW j \in DOMAIN TextOf(file), TextOf(file)[j].kind = "import"
  PROVE TextOf(file)[j].what \in Paths /\ TextOf(file)[j].what \in All
<1> DEFINE q == TextOf(file)[j].what
           R == Reach(text, MainPath)
<1>1. q \in Imported(text[PathOf(file)])
  BY DEF Imported, TextOf
<1>2. /\ R \subseteq Paths /\ Imported(text[MainPath]) \subseteq R
      /\ \A p \in R : Imported(text[p]) \subseteq R
  BY PathsAssumption, ReachCloses DEF TypeOK
<1>3. file = Entry \/ file \in R
  BY DEF TypeOK, All
<1> HIDE DEF R, q
<1>4. q \in R
  <2>1. CASE file = Entry
    BY <1>1, <1>2, <2>1 DEF PathOf
  <2>2. CASE file # Entry
    BY <1>1, <1>2, <1>3, <2>2 DEF PathOf
  <2> QED
    BY <2>1, <2>2
<1> QED
  BY <1>2, <1>4 DEF R, q, All

LEMMA FunctionKeeps ==
  ASSUME Hold, CallsKept, parse_function PROVE Hold' /\ Grows /\ CallsKept'
<1> DEFINE t == TextOf(file)
<1>1. PICK x : x = item
  OBVIOUS
<1>2. t[x].kind = "fun" /\ What = t[x].what
  BY <1>1 DEF parse_function, At, What
<1>3. resolve_identifier(What, FALSE) = Symbol(file, x)
  BY <1>2 DEF resolve_identifier, resolve_identifier_name, Symbol
<1>4. Advances /\ Becomes(AddFunction(Module, resolve_identifier(What, FALSE), Node(file, item), Node(file, item)))
  BY DEF parse_function, At, Advances, parse_function_definition
<1>5. IsDeclared(t, x) /\ IsFunction(t, x)
  BY <1>2 DEF IsDeclared, IsFunction
<1>6. AddsItem(x, Node(file, x))
  BY <1>1, <1>3, <1>4, <1>5 DEF AddsItem, Becomes
<1>7. Hold' /\ Grows
  BY <1>6, ItemKeeps
<1>8. TypeOK /\ OwnKept' /\ ImportsKept'
  BY <1>7 DEF Hold
<1>9. /\ text' = text /\ file' = file /\ linked' = linked
      /\ item \in DOMAIN t /\ Done' = Done \cup {item} /\ Done \subseteq DOMAIN t
  BY <1>4, <1>8, ItemDone DEF Advances
<1>10. file \in All /\ t \in Texts /\ Len(t) \in Nat /\ DOMAIN t = 1 .. Len(t)
  <2>1. file \in All /\ t \in Texts
    BY <1>8, FilesHaveTexts DEF TypeOK
  <2> HIDE DEF t
  <2> QED
    BY <2>1, TextItems
<1>11. PICK node \in Own \cup Beside \cup Stray :
         calls' = calls \cup {[from |-> file, to |-> node, ref |-> refs'[node],
                               stray |-> node \notin Own \cup Beside]}
  BY DEF parse_function, Becomes
<1> DEFINE c == [from |-> file, to |-> node, ref |-> refs'[node], stray |-> node \notin Own \cup Beside]
<1>12. PICK b : b = c
  OBVIOUS
<1>13. /\ calls' = calls \cup {b} /\ b.from = file /\ b.to = node /\ b.ref = refs'[node]
       /\ ~b.stray => node \in Own \cup Beside
  BY <1>11, <1>12
<1> HIDE DEF c
<1>14. \A i \in 1 .. item : i \in DOMAIN t /\ i \in Done'
  <2> HIDE DEF t
  <2>1. item \in Nat /\ item <= Len(t)
    BY <1>9, <1>10
  <2>2. \A i \in 1 .. item : i \in DOMAIN t /\ (i < item \/ i = item)
    BY <1>10, <2>1
  <2> QED
    BY <1>9, <2>2 DEF Done, t
<1>15. item \in Nat
  BY <1>8 DEF TypeOK
<1>16. ASSUME node \in Own PROVE CallKept(b)'
  <2>1. \/ \E n \in Names : node \in Latest(file, item, "fun", n)
        \/ \E n \in Externs : node \in Latest(file, item, "extern", n)
    BY <1>16 DEF Own
  <2>2. PICK i \in 1 .. item : IsDeclared(t, i) /\ node = Node(file, i)
    <3>1. ASSUME NEW n, NEW k \in {"fun", "extern"}, node \in Latest(file, item, k, n)
          PROVE \E i \in 1 .. item : IsDeclared(t, i) /\ node = Node(file, i)
      <4>1. PICK i \in 1 .. item : t[i] = Item(k, n) /\ node = Node(file, i)
        BY <1>15, <3>1, LatestIsItem
      <4>2. IsDeclared(t, i)
        BY <4>1 DEF IsDeclared, Item
      <4> QED
        BY <4>1, <4>2
    <3> QED
      BY <2>1, <3>1
  <2>3. i \in Done' /\ i \in DOMAIN t
    BY <1>14
  <2> QED
    BY <1>8, <1>9, <1>10, <1>13, <2>2, <2>3, OwnCallKept
<1>17. ASSUME node \in Beside PROVE CallKept(b)'
  <2>1. PICK q \in Earlier \cap Imported(SubSeq(t, 1, item)), n \in Names :
           node \in Latest(q, Len(text[q]), "fun", n)
    BY <1>17 DEF Beside, Sought
  <2>2. PICK j \in 1 .. item : t[j].kind = "import" /\ q = t[j].what
    <3> DEFINE u == SubSeq(t, 1, item)
    <3>1. PICK j \in DOMAIN u : u[j].kind = "import" /\ q = u[j].what
      BY <2>1 DEF Imported
    <3>2. /\ u \in Seq(Items) /\ Len(u) = item
          /\ \A k \in 1 .. item : u[k] = t[k]
      <4>1. item \in Int /\ 1 <= item /\ item - 1 + 1 = item /\ \A k \in 1 .. item : 1 + k - 1 = k
        BY <1>9, <1>10, <1>15
      <4>2. \A k \in 1 .. item : t[k] \in Items
        <5>1. t \in [1 .. Len(t) -> Items]
          <6>1. PICK l \in Nat : t \in [1 .. l -> Items]
            BY <1>10, PathsAssumption DEF Texts
          <6> QED
            BY <6>1
        <5> QED
          BY <1>10, <1>14, <5>1
      <4> HIDE DEF t
      <4> QED
        BY <4>1, <4>2, SubSeqProperties
    <3>3. DOMAIN u = 1 .. item
      BY <3>2
    <3> HIDE DEF u
    <3> QED
      BY <3>1, <3>2, <3>3
  <2>3. j \in DOMAIN t /\ j \in Done'
    BY <1>14
  <2>4. q \in Paths /\ q \in All /\ t[j] = Item("import", q)
    <3>1. t[j] = Item(t[j].kind, t[j].what)
      BY <1>10, <2>3, TextItems
    <3> QED
      BY <1>8, <2>2, <2>3, <3>1, ImportsLoaded
  <2>5. TextOf(q) = text[q] /\ text[q] \in Texts
    BY <1>8, <2>4, FilesHaveTexts
  <2>6. Len(text[q]) \in Nat /\ DOMAIN text[q] = 1 .. Len(text[q])
    BY <2>5, TextItems
  <2>7. PICK i \in DOMAIN text[q] : text[q][i] = Item("fun", n) /\ node = Node(q, i)
    BY <2>1, <2>5, <2>6, LatestIsItem
  <2>8. q # file
    BY <2>1, <2>4, PathsAssumption DEF Earlier, PathOf
  <2> QED
    BY <1>8, <1>9, <1>10, <1>13, <2>3, <2>4, <2>7, <2>8, ImportedCallKept
<1>18. ~b.stray => CallKept(b)'
  BY <1>13, <1>16, <1>17
<1>19. \A a \in calls : ~a.stray => CallKept(a)'
  <2>1. DOMAIN linked \cup DOMAIN here \subseteq DOMAIN linked' \cup DOMAIN here'
    BY <1>7, <1>9 DEF Grows
  <2> SUFFICES ASSUME NEW a \in calls, ~a.stray PROVE CallKept(a)'
    OBVIOUS
  <2>2. CallKept(a)
    BY DEF CallsKept
  <2> QED
    BY <1>9, <2>1, <2>2, OldCallKept
<1>20. CallsKept'
  BY <1>13, <1>18, <1>19 DEF CallsKept
<1> QED
  BY <1>7, <1>20

(* Counting the items of a file that are the same.                         *)
LEMMA CountTells ==
  ASSUME TypeOK, NEW f \in Files, NEW kind, NEW name
  PROVE /\ Count(f, kind, name) <= 1 => Once(f, kind, name)
        /\ Count(f, kind, name) = 0 => Never(f, kind, name)
        /\ ~Never(f, kind, name) => Count(f, kind, name) > 0
<1> DEFINE t == TextOf(f)
           S == {i \in DOMAIN t : t[i] = Item(kind, name)}
<1>1. t \in Texts
  BY FilesHaveTexts
<1>2. DOMAIN t = 1 .. Len(t) /\ Len(t) \in Nat
  <2> HIDE DEF t
  <2> QED
    BY <1>1, TextItems
<1>3. IsFiniteSet(DOMAIN t)
  BY <1>2, FS_Interval
<1>4. S \subseteq DOMAIN t
  OBVIOUS
<1>5. Count(f, kind, name) = Cardinality(S)
  BY DEF Count
<1>6. /\ Once(f, kind, name) <=> \A i, j \in S : i = j
      /\ Never(f, kind, name) <=> S = {}
  BY DEF Once, Never
<1> HIDE DEF t, S
<1>7. IsFiniteSet(S) /\ Cardinality(S) \in Nat
  BY <1>3, <1>4, FS_Subset, FS_CardinalityType
<1>8. Cardinality(S) = 0 <=> S = {}
  BY <1>7, FS_EmptySet
<1>9. Cardinality(S) = 1 <=> \E x : S = {x}
  BY <1>7, FS_Singleton
<1> QED
  BY <1>5, <1>6, <1>7, <1>8, <1>9

(* Two files that define a symbol.                                         *)
LEMMA BothDefine ==
  ASSUME TypeOK, NEW q \in All, NEW f \in All, q # f, NEW s, Heads(q, s), Heads(f, s)
  PROVE \/ MainPath \in Reach(text, MainPath)
        \/ \E a, b \in Reach(text, MainPath) \cup {MainPath} :
             a # b /\ Count(a, "fun", "main") > 0 /\ Count(b, "fun", "main") > 0
<1>1. /\ MainPath \in Paths /\ Entry \notin Paths /\ All \subseteq Files
      /\ \A g \in Files : PathOf(g) \in Paths
  BY FilesHaveTexts
<1>2. q \in Files /\ f \in Files
  BY <1>1
<1> DEFINE R == Reach(text, MainPath)
<1>3. /\ PathOf(q) = IF q = Entry THEN MainPath ELSE q
      /\ PathOf(f) = IF f = Entry THEN MainPath ELSE f
      /\ q = Entry \/ q \in R
      /\ f = Entry \/ f \in R
  BY DEF PathOf, All
<1>4. CASE PathOf(q) = PathOf(f)
  <2> HIDE DEF R
  <2>1. MainPath \in R
    BY <1>3, <1>4
  <2> QED
    BY <2>1 DEF R
<1>5. CASE PathOf(q) # PathOf(f)
  <2>1. "main" \notin Paths
    BY PathsAssumption
  <2>2. HasMain(q) /\ HasMain(f)
    BY <1>1, <1>2, <1>5, <2>1 DEF Heads
  <2>3. ASSUME NEW g \in All, HasMain(g) PROVE Count(PathOf(g), "fun", "main") > 0
    <3>1. TextOf(PathOf(g)) = TextOf(g) /\ PathOf(g) \in Files
      BY <1>1, <2>3 DEF TextOf, PathOf, Files
    <3>2. ~Never(PathOf(g), "fun", "main")
      BY <2>3, <3>1 DEF HasMain, Never
    <3> QED
      BY <3>1, <3>2, CountTells
  <2>4. Count(PathOf(q), "fun", "main") > 0 /\ Count(PathOf(f), "fun", "main") > 0
    BY <2>2, <2>3
  <2>5. PathOf(q) \in R \cup {MainPath} /\ PathOf(f) \in R \cup {MainPath}
    <3> HIDE DEF R
    <3> QED
      BY <1>3
  <2> QED
    BY <1>5, <2>4, <2>5
<1> QED
  BY <1>4, <1>5

(* A module that is done becomes part of that of the main file.            *)
LEMMA ModuleKeeps == ASSUME IInv, build_module PROVE IInv'
<1> DEFINE t == TextOf(file)
           doubly == Defined(linked) \cap Defined(here)
<1> USE DEF IInv
<1>1. /\ status = "running" /\ item > Len(t) /\ item' = 1 /\ here' = <<>>
      /\ text' = text /\ refs' = refs /\ calls' = calls
      /\ status' = IF doubly # {} THEN "doubly_defined"
                   ELSE IF todo = {} THEN "linked" ELSE status
      /\ linked' = [s \in DOMAIN linked \cup DOMAIN here |->
                      IF s \in Defined(here) THEN here[s]
                      ELSE IF s \in DOMAIN linked THEN linked[s] ELSE NoNode]
      /\ IF todo = {} THEN todo' = todo /\ file' = file
         ELSE file' \in todo /\ todo' = todo \ {file'}
  BY DEF build_module, Link
<1>2. /\ file \in All /\ file \notin todo /\ todo \subseteq Reach(text, MainPath) /\ item \in Nat
      /\ All = {Entry} \cup Reach(text, MainPath)
      /\ text \in [Paths -> Texts]
  BY DEF TypeOK, All
<1>3. All' = All
  BY <1>1, TextStays
<1>4. file' \in All /\ file' \notin todo' /\ todo' \subseteq Reach(text, MainPath)
  BY <1>1, <1>2
<1>5. TypeOK'
  BY <1>1, <1>3, <1>4 DEF TypeOK
<1>6. Done = DOMAIN t
  <2>1. t \in Texts
    BY FilesHaveTexts
  <2>2. Len(t) \in Nat /\ DOMAIN t = 1 .. Len(t)
    <3> HIDE DEF t
    <3> QED
      BY <2>1, TextItems
  <2> QED
    BY <1>1, <1>2, <2>2 DEF Done
<1>7. Done' = {}
  <2> DEFINE u == TextOf(file)'
  <2>1. file' \in Files
    BY <1>4, FilesHaveTexts
  <2>2. PICK f \in Files : f = file'
    BY <2>1
  <2>3. u = TextOf(f)
    BY <1>1, <2>2 DEF TextOf
  <2>4. TextOf(f) \in Texts
    BY FilesHaveTexts
  <2>5. DOMAIN TextOf(f) = 1 .. Len(TextOf(f)) /\ Len(TextOf(f)) \in Nat
    BY <2>4, TextItems
  <2>6. Done' = {i \in DOMAIN TextOf(f) : i < 1}
    BY <1>1, <2>2 DEF Done, TextOf
  <2> QED
    BY <2>5, <2>6
<1>8. DOMAIN here' = {}
  BY <1>1
<1>9. Origin' /\ Owned' /\ OwnKept' /\ ImportsKept' /\ Over'
  BY <1>1, <1>7, <1>8 DEF Origin, Owned, Defined, OwnKept, ImportsKept, Over
<1>10. LinkedOwned /\ LinkedKept /\ Built = All \ ({file} \cup todo)
  BY <1>1 DEF Linked, Built
<1>11. DOMAIN linked' = DOMAIN linked \cup DOMAIN here
  BY <1>1
<1>12. CallsKept'
  <2> SUFFICES ASSUME NEW a \in calls, ~a.stray PROVE CallKept(a)'
    BY <1>1 DEF CallsKept
  <2>1. CallKept(a)
    BY DEF CallsKept
  <2> QED
    BY <1>1, <1>11, <2>1, OldCallKept
<1>13. LinkFails'
  <2> SUFFICES ASSUME status' = "doubly_defined" PROVE LinkFails'
    BY DEF LinkFails
  <2>1. PICK s : s \in Defined(linked) /\ s \in Defined(here)
    <3>1. doubly # {}
      BY <1>1
    <3> QED
      BY <3>1
  <2>2. PICK q \in All : q # file /\ Heads(q, s)
    BY <1>10, <2>1 DEF LinkedOwned
  <2>3. Heads(file, s)
    BY <2>1 DEF Owned
  <2>4. \/ MainPath \in Reach(text, MainPath)
        \/ \E a, b \in Reach(text, MainPath) \cup {MainPath} :
             a # b /\ Count(a, "fun", "main") > 0 /\ Count(b, "fun", "main") > 0
    BY <1>2, <2>2, <2>3, BothDefine
  <2>5. \A f, k, n : Count(f, k, n)' = Count(f, k, n)
    BY <1>1 DEF Count, TextOf
  <2> QED
    BY <1>1, <2>4, <2>5 DEF LinkFails
<1>14. Linked'
  <2> SUFFICES ASSUME status' # "doubly_defined" PROVE LinkedOwned' /\ LinkedKept'
    BY DEF Linked
  <2>1. doubly = {}
    BY <1>1
  <2>2. Built' = Built \cup {file}
    <3>1. CASE todo = {}
      BY <1>1, <1>2, <1>3, <1>10, <2>1, <3>1 DEF Built
    <3>2. CASE todo # {}
      <4>1. status' # "linked" /\ file' \in todo /\ todo' = todo \ {file'}
        BY <1>1, <2>1, <3>2
      <4>2. Built' = All \ ({file'} \cup todo')
        BY <1>3, <4>1 DEF Built
      <4> QED
        BY <1>2, <1>10, <4>1, <4>2
    <3> QED
      BY <3>1, <3>2
  <2>3. \A s \in Defined(here) : s \in DOMAIN linked' /\ linked'[s] = here[s]
    BY <1>1 DEF Defined
  <2>4. \A s \in DOMAIN linked \ Defined(here) : s \in DOMAIN linked' /\ linked'[s] = linked[s]
    BY <1>1
  <2>5. Defined(linked') \subseteq Defined(linked) \cup Defined(here)
    <3>1. \A s \in DOMAIN linked' \ Defined(here) :
            linked'[s] = IF s \in DOMAIN linked THEN linked[s] ELSE NoNode
      BY <1>1
    <3> QED
      BY <3>1 DEF Defined
  <2>6. LinkedOwned'
    <3> SUFFICES ASSUME NEW s \in Defined(linked') PROVE \E q \in Built' : Heads(q, s)'
      BY DEF LinkedOwned
    <3>1. CASE s \in Defined(linked)
      BY <1>1, <1>10, <2>2, <3>1, TextStays DEF LinkedOwned
    <3>2. CASE s \in Defined(here)
      <4>1. Heads(file, s)
        BY <3>2 DEF Owned
      <4>2. PICK f : f = file
        OBVIOUS
      <4>3. Heads(f, s)' /\ f \in Built'
        BY <1>1, <2>2, <4>1, <4>2, TextStays
      <4> QED
        BY <4>3
    <3> QED
      BY <2>5, <3>1, <3>2
  <2>7. LinkedKept'
    <3>1. SUFFICES ASSUME NEW q \in Built', NEW i \in DOMAIN TextOf(q),
                          IsFunction(TextOf(q), i), Alone(q, TextOf(q)[i].what)
                   PROVE Symbol(q, i) \in DOMAIN linked' /\ linked'[Symbol(q, i)] = Node(q, i)
      <4>1. \A f : TextOf(f)' = TextOf(f)
        BY <1>1, TextStays
      <4>2. \A f, j : Symbol(f, j)' = Symbol(f, j)
        BY <1>1, TextStays
      <4>3. \A f, n : Alone(f, n)' <=> Alone(f, n)
        BY <1>1, TextStays
      <4> QED
        BY <4>1, <4>2, <4>3 DEF LinkedKept
    <3>2. q \in Files
      BY <1>2, <1>10, <2>2, FilesHaveTexts
    <3>3. Node(q, i) # NoNode
      BY <3>2, ItemsHaveNodes
    <3>4. CASE q = file
      <4>1. Symbol(q, i) \in DOMAIN here /\ here[Symbol(q, i)] = Node(q, i)
        BY <1>6, <3>1, <3>4 DEF OwnKept, IsFunction, IsDeclared
      <4>2. Symbol(q, i) \in Defined(here)
        BY <3>3, <4>1 DEF Defined
      <4> QED
        BY <2>3, <4>1, <4>2
    <3>5. CASE q # file
      <4>1. q \in Built
        BY <2>2, <3>5
      <4>2. Symbol(q, i) \in DOMAIN linked /\ linked[Symbol(q, i)] = Node(q, i)
        BY <1>10, <3>1, <4>1 DEF LinkedKept
      <4>3. Symbol(q, i) \in Defined(linked)
        BY <3>3, <4>2 DEF Defined
      <4> QED
        BY <2>1, <2>4, <4>2, <4>3
    <3> QED
      BY <3>4, <3>5
  <2> QED
    BY <2>6, <2>7
<1> QED
  BY <1>5, <1>9, <1>12, <1>13, <1>14

(* While a module is built, nothing is linked.                             *)
LEMMA LinkedStays ==
  ASSUME IInv, Hold', CallsKept', Advances, status = "running", status' \in {"running", "crash"}
  PROVE IInv'
<1>1. LinkedOwned /\ LinkedKept /\ Built = All \ ({file} \cup todo)
  BY DEF IInv, Linked, Built
<1>2. text' = text /\ file' = file /\ todo' = todo /\ linked' = linked
  BY DEF Advances
<1>3. Built' = Built
  BY <1>1, <1>2, TextStays DEF Built
<1>4. LinkedOwned'
  <2>1. \A f, s : Heads(f, s)' <=> Heads(f, s)
    BY <1>2, TextStays
  <2> QED
    BY <1>1, <1>2, <1>3, <2>1 DEF LinkedOwned
<1>5. LinkedKept'
  <2>1. \A f : TextOf(f)' = TextOf(f)
    BY <1>2, TextStays
  <2>2. \A f, j : Symbol(f, j)' = Symbol(f, j)
    BY <1>2, TextStays
  <2>3. \A f, n : Alone(f, n)' <=> Alone(f, n)
    BY <1>2, TextStays
  <2> QED
    BY <1>1, <1>2, <1>3, <2>1, <2>2, <2>3 DEF LinkedKept
<1>6. Over' /\ LinkFails'
  BY DEF Over, LinkFails
<1> QED
  BY <1>4, <1>5, <1>6 DEF IInv, Hold, Linked

(* Without new calls, the old ones are kept. *)
LEMMA CallsStay ==
  ASSUME CallsKept, Grows, text' = text, linked' = linked, calls' = calls PROVE CallsKept'
<1> SUFFICES ASSUME NEW a \in calls, ~a.stray PROVE CallKept(a)'
  BY DEF CallsKept
<1>1. CallKept(a)
  BY DEF CallsKept
<1>2. DOMAIN linked \cup DOMAIN here \subseteq DOMAIN linked' \cup DOMAIN here'
  BY DEF Grows
<1> QED
  BY <1>1, <1>2, OldCallKept

(* The invariant holds at first, and is kept by every step. *)
LEMMA InitInv == Init => IInv
<1> SUFFICES ASSUME Init PROVE IInv
  OBVIOUS
<1>1. /\ text \in [Paths -> Texts] /\ refs = [node \in Nodes |-> NoRef]
      /\ todo = Reach(text, MainPath) /\ file = Entry /\ item = 1
      /\ here = <<>> /\ linked = <<>> /\ calls = {} /\ status = "running"
  BY DEF Init
<1>2. Reach(text, MainPath) \subseteq Paths /\ Entry \notin Paths /\ MainPath \in Paths
  BY <1>1, PathsAssumption, ReachCloses
<1>3. TypeOK
  BY <1>1, <1>2 DEF TypeOK, All
<1>4. Done = {}
  <2>1. TextOf(file) \in Texts
    BY <1>3, FilesHaveTexts
  <2> DEFINE t == TextOf(file)
  <2>2. Len(t) \in Nat /\ DOMAIN t = 1 .. Len(t)
    <3> HIDE DEF t
    <3> QED
      BY <2>1, TextItems
  <2> QED
    BY <1>1, <2>2 DEF Done
<1>5. DOMAIN here = {} /\ DOMAIN linked = {}
  BY <1>1
<1>6. Origin /\ Owned /\ OwnKept /\ ImportsKept
  BY <1>4, <1>5 DEF Origin, Owned, Defined, OwnKept, ImportsKept
<1>7. Built = {}
  BY <1>1 DEF Built, All
<1>8. Linked
  BY <1>5, <1>7 DEF Linked, LinkedOwned, LinkedKept, Defined
<1>9. CallsKept /\ Over /\ LinkFails
  BY <1>1 DEF CallsKept, Over, LinkFails
<1> QED
  BY <1>3, <1>6, <1>8, <1>9 DEF IInv

LEMMA StutterInv == ASSUME IInv, UNCHANGED vars PROVE IInv'
<1> USE DEF IInv, vars
<1>1. text' = text /\ file' = file
  OBVIOUS
<1>2. TypeOK'
  BY TextStays DEF TypeOK
<1>3. Done' = Done
  BY FileStays DEF Done
<1>4. TextOf(file)' = TextOf(file)
  BY FileStays
<1>5. Origin'
  <2>1. \A s : FromOwn(s)' <=> FromOwn(s)
    BY <1>3, <1>4, FileStays DEF FromOwn
  <2>2. \A s : FromImport(s)' <=> FromImport(s)
    BY <1>3, <1>4 DEF FromImport
  <2> QED
    BY <2>1, <2>2 DEF Origin
<1>6. Owned'
  BY FileStays DEF Owned
<1>7. OwnKept'
  BY <1>3, <1>4, FileStays DEF OwnKept, Good
<1>8. ImportsKept'
  <2>1. \A k, b : Once(file, k, b)' <=> Once(file, k, b)
    BY FileStays
  <2>2. \A f, b : Alone(f, b)' <=> Alone(f, b)
    BY TextStays
  <2> QED
    BY <1>3, <1>4, <2>1, <2>2 DEF ImportsKept, Good
<1>9. Built' = Built
  BY TextStays DEF Built
<1>10. LinkedOwned' <=> LinkedOwned
  <2>1. \A f, s : Heads(f, s)' <=> Heads(f, s)
    BY TextStays
  <2> QED
    BY <1>9, <2>1 DEF LinkedOwned
<1>11. LinkedKept' <=> LinkedKept
  <2>1. \A f : TextOf(f)' = TextOf(f)
    BY TextStays
  <2>2. \A f, j : Symbol(f, j)' = Symbol(f, j)
    BY TextStays
  <2>3. \A f, n : Alone(f, n)' <=> Alone(f, n)
    BY TextStays
  <2> QED
    BY <1>9, <2>1, <2>2, <2>3 DEF LinkedKept
<1>12. Linked'
  BY <1>10, <1>11 DEF Linked
<1>13. CallsKept'
  BY CallsStay DEF Grows
<1>14. Over' /\ LinkFails'
  <2>1. \A f, k, n : Count(f, k, n)' = Count(f, k, n)
    BY DEF Count, TextOf
  <2> QED
    BY <2>1 DEF Over, LinkFails
<1> QED
  BY <1>2, <1>5, <1>6, <1>7, <1>8, <1>12, <1>13, <1>14

LEMMA NextInv == ASSUME IInv, Next PROVE IInv'
<1>1. Hold /\ CallsKept
  BY DEF IInv, Hold
<1>2. CASE parse_import
  <2>1. PICK p : p = What
    OBVIOUS
  <2>2. Hold' /\ Grows
    BY <1>1, <1>2, <2>1, ImportKeeps
  <2>3. /\ Advances /\ calls' = calls /\ status' = status /\ status = "running"
        /\ text' = text /\ linked' = linked
    BY <1>2 DEF parse_import, At, Advances
  <2> QED
    BY <1>1, <2>2, <2>3, CallsStay, LinkedStays
<1>3. CASE parse_function_external
  <2>1. Hold' /\ Grows
    BY <1>1, <1>3, ExternKeeps
  <2>2. /\ Advances /\ calls' = calls /\ status' = status /\ status = "running"
        /\ text' = text /\ linked' = linked
    BY <1>3 DEF parse_function_external, At, Advances
  <2> QED
    BY <1>1, <2>1, <2>2, CallsStay, LinkedStays
<1>4. CASE parse_function
  <2>1. Hold' /\ CallsKept'
    BY <1>1, <1>4, FunctionKeeps
  <2>2. Advances /\ status = "running" /\ status' \in {"running", "crash"}
    BY <1>4 DEF parse_function, At, Advances
  <2> QED
    BY <2>1, <2>2, LinkedStays
<1>5. CASE build_module
  BY <1>5, ModuleKeeps
<1> QED
  BY <1>2, <1>3, <1>4, <1>5 DEF Next

(* The invariant behind the three theorems.                                *)
THEOREM Invariance == Spec => []IInv
<1>1. IInv /\ [Next]_vars => IInv'
  BY NextInv, StutterInv
<1> QED
  BY <1>1, InitInv, PTL DEF Spec

(* Whatever modules were built before, a function of the file at hand or   *)
(* of one it imports is called by way of the module at hand: backend_ref   *)
(* is shared by all modules, and every module sets the ones it uses before *)
(* it uses them (codegen.c:226-228, 428-439).                              *)
THEOREM CallsGoThroughTheModule == Spec => []CallsStayInModule
<1>1. IInv => CallsStayInModule
  BY DEF IInv, CallsKept, CallKept, CallsStayInModule
<1> QED
  BY <1>1, Invariance, PTL

(* Two modules define a symbol only if both files have a main or the main  *)
(* file is loaded again as a module (codegen.c:24-39, main.c:75-92).       *)
THEOREM LinkFailsOnlyThen == Spec => []LinkFails
<1>1. IInv => LinkFails
  BY DEF IInv
<1> QED
  BY <1>1, Invariance, PTL

(* What LLVM had no reason to rename, it did not rename.                   *)
LEMMA UnambiguousIsClear ==
  ASSUME IInv, NEW c \in calls, ~c.stray, Unambiguous(c) PROVE Clear(c)
<1>1. CallKept(c) /\ TypeOK
  BY DEF IInv, CallsKept
<1>2. c.to.file \in Files /\ c.from \in Files
  BY <1>1, FilesHaveTexts DEF CallKept
<1> DEFINE f == c.to.file
           n == TextOf(f)[c.to.item].what
<1>3. /\ Count(f, "fun", n) <= 1 /\ Count(f, "extern", n) <= 1
      /\ Count(f, "import", PathOf(f)) = 0 /\ Count(c.from, "import", PathOf(f)) <= 1
  BY DEF Unambiguous
<1> HIDE DEF f, n
<1>4. f \in Files
  BY <1>2 DEF f
<1>5. /\ Once(f, "fun", n) /\ Once(f, "extern", n) /\ Never(f, "import", PathOf(f))
      /\ Once(c.from, "import", PathOf(f))
  BY <1>1, <1>2, <1>3, <1>4, CountTells
<1> QED
  BY <1>5 DEF Clear, Alone, f, n

(* In the linked program the symbol of a call is that of the function that *)
(* was meant, or of an external one that no file defines, for every call   *)
(* but that of the main of another file (codegen.c:33-39, 226-230,         *)
(* 428-439; main.c:88-93).                                                 *)
THEOREM CallsResolve == Spec => []SymbolsResolve
<1>1. ASSUME IInv PROVE SymbolsResolve
  <2> SUFFICES ASSUME status = "linked", NEW c \in calls, ~c.stray, Unambiguous(c),
                      ~ImportedMain(c)
               PROVE linked[c.ref.symbol] = IF TextOf(c.to.file)[c.to.item].kind = "fun"
                                            THEN c.to ELSE NoNode
    BY DEF SymbolsResolve
  <2> DEFINE f == c.to.file
             i == c.to.item
             t == TextOf(f)
             s == Symbol(f, i)
  <2>1. CallKept(c) /\ TypeOK /\ LinkedOwned /\ LinkedKept /\ Built = All /\ here = <<>>
    BY <1>1 DEF IInv, CallsKept, Linked, Built, Over
  <2>2. /\ f \in All /\ i \in DOMAIN t /\ c.to = Node(f, i) /\ IsDeclared(t, i)
        /\ c.ref.symbol = s /\ s \in DOMAIN linked
    <3>1. Clear(c) /\ DOMAIN here = {}
      BY <1>1, <2>1, UnambiguousIsClear
    <3>2. Means(c) = Symbol(f, i)
      BY <2>1 DEF CallKept, Means, ImportedMain, IsFunction, Symbol
    <3> QED
      BY <2>1, <3>1, <3>2 DEF CallKept
  <2>3. f \in Files /\ t \in Texts /\ All \subseteq Files
    BY <2>1, <2>2, FilesHaveTexts
  <2>4. CASE t[i].kind = "fun"
    <3>1. Alone(f, t[i].what)
      BY <1>1, UnambiguousIsClear DEF Clear
    <3>2. linked[s] = Node(f, i)
      BY <2>1, <2>2, <2>4, <3>1 DEF LinkedKept, IsFunction
    <3> QED
      BY <2>2, <2>4, <3>2
  <2>5. CASE t[i].kind # "fun"
    <3> HIDE DEF t
    <3>1. t[i].kind = "extern" /\ t[i].what \in Externs
      BY <2>2, <2>3, <2>5, TextItems DEF IsDeclared
    <3>2. s = <<t[i].what>>
      BY <3>1 DEF Symbol, t
    <3> HIDE DEF s
    <3>3. ASSUME linked[s] # NoNode PROVE FALSE
      <4>1. s \in Defined(linked)
        BY <2>2, <3>3 DEF Defined
      <4>2. PICK q \in All : Heads(q, s)
        BY <2>1, <4>1 DEF LinkedOwned
      <4>3. PathOf(q) \in Paths /\ TextOf(q) \in Texts
        BY <2>1, <2>3, <4>2, FilesHaveTexts
      <4>4. s[1] \in Externs
        BY <3>1, <3>2
      <4>5. s[1] = "main" /\ HasMain(q)
        BY <4>2, <4>3, <4>4, PathsAssumption DEF Heads
      <4>6. PICK j \in DOMAIN TextOf(q) : TextOf(q)[j] = Item("fun", "main")
        BY <4>5 DEF HasMain
      <4>7. "main" \in Names
        <5>1. TextOf(q)[j].kind = "fun" /\ TextOf(q)[j].what = "main"
          BY <4>6 DEF Item
        <5> QED
          BY <4>3, <5>1, TextItems
      <4> QED
        BY <4>4, <4>5, <4>7, PathsAssumption
    <3> QED
      BY <2>2, <2>5, <3>3 DEF t
  <2> QED
    BY <2>4, <2>5
<1> QED
  BY <1>1, Invariance, PTL
=============================================================================
