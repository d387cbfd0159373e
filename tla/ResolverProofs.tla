--------------------------- MODULE ResolverProofs ---------------------------
(***************************************************************************)
(* Names are bound as the text says (LexicalBinding), what is local to a   *)
(* file stays there (Private) and no assignment hides a variable           *)
(* (NoShadowing), for any files, names and nesting.                        *)
(***************************************************************************)
EXTENDS Resolver, SequenceTheorems, WellFoundedInduction, TLAPS

(* A set of numbers that is not empty has a least element. *)
LEMMA Least == ASSUME NEW T \in SUBSET Nat, T # {}
               PROVE \E x \in T : \A y \in T : x <= y
<1> DEFINE R == OpToRel(<, Nat)
<1>1. IsWellFoundedOn(R, Nat)
  BY NatLessThanWellFounded
<1>2. PICK x \in T : \A y \in T : ~(<<y, x>> \in R)
  <2> HIDE DEF R
  <2> QED
    BY <1>1, WFMin
<1>3. \A y \in T : ~(y < x)
  BY <1>2 DEF OpToRel
<1> QED
  BY <1>3

(* What holds of 0 and is passed on to the next number holds of all. *)
LEMMA Induction ==
  ASSUME NEW T \in SUBSET Nat, 0 \in T, \A n \in T : n + 1 \in T
  PROVE T = Nat
<1> SUFFICES ASSUME Nat \ T # {} PROVE FALSE
  OBVIOUS
<1>1. PICK x \in Nat \ T : \A y \in Nat \ T : x <= y
  <2> DEFINE U == Nat \ T
  <2>1. U \in SUBSET Nat /\ U # {}
    OBVIOUS
  <2> HIDE DEF U
  <2>2. \E x \in U : \A y \in U : x <= y
    BY <2>1, Least
  <2> QED
    BY <2>2 DEF U
<1>2. x # 0 /\ x - 1 \in Nat /\ x - 1 \in T
  BY <1>1
<1> QED
  BY <1>1, <1>2

(* A bounded set of numbers that is not empty has a greatest element. *)
LEMMA Greatest == ASSUME NEW n \in Nat, NEW T \in SUBSET (1 .. n), T # {}
                  PROVE \E x \in T : \A y \in T : y <= x
<1> DEFINE U == {n - y : y \in T}
<1>1. U \in SUBSET Nat /\ U # {}
  <2>1. \A y \in T : n - y \in Nat
    OBVIOUS
  <2> QED
    BY <2>1
<1>2. PICK u \in U : \A v \in U : u <= v
  <2> HIDE DEF U
  <2> QED
    BY <1>1, Least
<1>3. PICK x \in T : u = n - x
  OBVIOUS
<1>4. ASSUME NEW y \in T PROVE y <= x
  <2>1. n - x <= n - y
    BY <1>2, <1>3
  <2> QED
    BY <2>1
<1> QED
  BY <1>4

Entry == [kind : {"function", "extern"} \cup Local, name : Names, file : Files,
          region : Nat, target : Files \cup {NoFile}, typed : BOOLEAN]

TypeOK ==
  /\ nodes \in Seq(Entry)
  /\ locals \in Seq([Key -> Nat]) /\ Len(locals) >= 1
  /\ prev \in Seq(Nat) /\ Len(prev) = Len(locals)
  /\ file_scope \in [Files -> {NULL} \cup 2 .. Len(locals)]
  /\ open \in Seq(2 .. Len(locals))
  /\ module_path \in Files \cup {NoFile}

(* The scope around a scope is older, and the constructs around the walk   *)
(* are the scopes around the current one, out to the file's.               *)
Nested ==
  /\ prev[1] = NULL
  /\ \A s \in 2 .. Len(locals) : prev[s] \in 1 .. s - 1
  /\ \A k \in 1 .. Len(open) :
       prev[open[k]] = IF k = 1 THEN global_scope ELSE open[k - 1]
  /\ current_scope = IF open = <<>> THEN global_scope ELSE open[Len(open)]
  /\ \A f \in Files : file_scope[f] # NULL => prev[file_scope[f]] = global_scope
  /\ open # <<>> => module_path \in Files /\ file_scope[module_path] = open[1]

Older == TypeOK /\ prev[1] = NULL /\ \A s \in 2 .. Len(locals) : prev[s] \in 1 .. s - 1

KeyIn(path, name, s) == IF s = global_scope THEN resolve_identifier(path, name, FALSE)
                        ELSE Plain(name)

(* Whatever is looked up is a key of some table. *)
LEMMA KeysAreKeys == ASSUME NEW path \in Files \cup {NoFile}, NEW name \in Names, NEW s
                     PROVE KeyIn(path, name, s) \in Key /\ Plain(name) \in Key
BY DEF KeyIn, Key, resolve_identifier, Plain

(* The recursion of lookup_identifier ends, and does what it says.         *)
LEMMA WalkUnfolds ==
  ASSUME Older, NEW path \in Files \cup {NoFile}, NEW name \in Names
  PROVE /\ Walk(path, name)[NULL] = NULL
        /\ \A s \in Scope :
             Walk(path, name)[s] =
               IF locals[s][KeyIn(path, name, s)] # NULL
               THEN locals[s][KeyIn(path, name, s)] ELSE Walk(path, name)[prev[s]]
<1> DEFINE N == Len(locals)
           At(s) == locals[s][KeyIn(path, name, s)]
           Turn(g, s) == IF s = NULL THEN NULL
                         ELSE IF At(s) # NULL THEN At(s) ELSE g[prev[s]]
           Upto(m) == \E g \in [0 .. m -> Nat] :
                        \A s \in 0 .. m : g[s] = Turn(g, s)
           T == {m \in Nat : m <= N => Upto(m)}
<1>1. N \in Nat
  BY DEF Older, TypeOK
<1>2. \A s \in 1 .. N : At(s) \in Nat /\ prev[s] \in 0 .. s - 1
  <2> SUFFICES ASSUME NEW s \in 1 .. N PROVE At(s) \in Nat /\ prev[s] \in 0 .. s - 1
    OBVIOUS
  <2>1. KeyIn(path, name, s) \in Key
    BY KeysAreKeys
  <2>2. locals[s] \in [Key -> Nat]
    BY DEF Older, TypeOK
  <2>3. prev[s] \in 0 .. s - 1
    BY <1>1 DEF Older, NULL
  <2> QED
    BY <2>1, <2>2, <2>3
<1>3. Upto(0)
  <2> DEFINE g == [s \in 0 .. 0 |-> 0]
  <2>1. g \in [0 .. 0 -> Nat] /\ \A s \in 0 .. 0 : g[s] = Turn(g, s)
    BY <1>1 DEF NULL
  <2> QED
    BY <2>1
<1>4. ASSUME NEW m \in Nat, m + 1 <= N, Upto(m) PROVE Upto(m + 1)
  <2>1. PICK g \in [0 .. m -> Nat] : \A s \in 0 .. m : g[s] = Turn(g, s)
    BY <1>4
  <2> DEFINE h == [s \in 0 .. m + 1 |-> IF s = m + 1 THEN Turn(g, m + 1) ELSE g[s]]
  <2>2. Turn(g, m + 1) \in Nat
    <3>1. m + 1 \in 1 .. N
      BY <1>1, <1>4
    <3>2. prev[m + 1] \in 0 .. m /\ At(m + 1) \in Nat
      BY <1>2, <3>1
    <3> HIDE DEF At
    <3> QED
      BY <3>2, <2>1, <1>1 DEF NULL
  <2>3. h \in [0 .. m + 1 -> Nat]
    <3> HIDE DEF Turn
    <3> QED
      BY <2>1, <2>2
  <2>4. ASSUME NEW s \in 0 .. m + 1 PROVE h[s] = Turn(h, s)
    <3>1. s # 0 => prev[s] \in 0 .. m /\ prev[s] # m + 1 /\ prev[s] \in 0 .. m + 1
      BY <1>1, <1>2, <1>4
    <3>2. Turn(h, s) = Turn(g, s)
      <4> HIDE DEF At
      <4> QED
        BY <3>1 DEF NULL
    <3> HIDE DEF Turn
    <3> QED
      BY <3>2, <2>1
  <2> HIDE DEF h, Turn
  <2> QED
    BY <2>3, <2>4
<1>5. T = Nat
  <2> HIDE DEF Upto
  <2>1. T \in SUBSET Nat /\ 0 \in T /\ \A m \in T : m + 1 \in T
    BY <1>1, <1>3, <1>4
  <2> HIDE DEF T
  <2> QED
    BY <2>1, Induction
<1>6. PICK g \in [0 .. N -> Nat] : \A s \in 0 .. N : g[s] = Turn(g, s)
  <2>1. N \in T
    <3> HIDE DEF T
    <3> QED
      BY <1>1, <1>5
  <2>2. Upto(N)
    <3> HIDE DEF Upto
    <3> QED
      BY <2>1, <1>1
  <2> QED
    BY <2>2
<1>7. g = [s \in Scope \cup {NULL} |-> Turn(g, s)]
  <2> HIDE DEF Turn
  <2>1. Scope \cup {NULL} = 0 .. N
    BY <1>1 DEF Scope, NULL
  <2> QED
    BY <2>1, <1>6
<1>8. Walk(path, name) = CHOOSE w : w = [s \in Scope \cup {NULL} |-> Turn(w, s)]
  BY DEF Walk, KeyIn
<1>9. Walk(path, name) = [s \in Scope \cup {NULL} |-> Turn(Walk(path, name), s)]
  <2> HIDE DEF Turn
  <2> QED
    BY <1>7, <1>8
<1>10. \A s \in Scope \cup {NULL} : Walk(path, name)[s] = Turn(Walk(path, name), s)
  <2> HIDE DEF Turn
  <2> QED
    BY <1>9
<1>11. \A s \in Scope : s # NULL
  BY DEF Scope, NULL
<1> QED
  BY <1>10, <1>11

(* x is what Newest(S) should be. *)
IsNewest(x, S) == IF S = {} THEN x = NULL ELSE x \in S /\ \A e \in S : e <= x

(* The newest of a set of nodes is the one that IsNewest says. *)
LEMMA NewestIs == ASSUME NEW S \in SUBSET Nat, NEW x, IsNewest(x, S)
                  PROVE Newest(S) = x
<1>1. CASE S = {}
  BY <1>1 DEF IsNewest, Newest
<1>2. CASE S # {}
  <2>1. x \in S /\ \A e \in S : e <= x
    BY <1>2 DEF IsNewest
  <2>2. \A y \in S : (\A e \in S : e <= y) => y = x
    BY <2>1
  <2> QED
    BY <1>2, <2>1, <2>2 DEF Newest
<1> QED
  BY <1>1, <1>2

(* A new node is the newest of the set it joins. *)
LEMMA NewestAdded == ASSUME NEW n \in Nat, NEW S \in SUBSET (1 .. n)
                     PROVE IsNewest(n + 1, S \cup {n + 1})
BY DEF IsNewest

(* The declarations of a name that each table is about. *)
LocalsOf(s, name) == {d \in Node : /\ nodes[d].name = name /\ nodes[d].kind \in Local
                                   /\ nodes[d].region = s}
OwnOf(f, name) == {d \in Node : /\ nodes[d].name = name /\ nodes[d].kind = "function"
                                /\ nodes[d].file = f}
SharedAs(name) == {d \in Node : /\ nodes[d].name = name
                                /\ \/ nodes[d].kind = "extern"
                                   \/ (nodes[d].kind = "function" /\ name = Main)}

(* Each table holds the newest declaration it is about. *)
Tables ==
  \A name \in Names :
    /\ \A s \in 2 .. Len(locals) : IsNewest(locals[s][Plain(name)], LocalsOf(s, name))
    /\ name # Main => \A f \in Files : IsNewest(locals[1][<<f, name>>], OwnOf(f, name))
    /\ IsNewest(locals[1][Plain(name)], SharedAs(name))

(* Every declaration is of a file whose walk has begun, in a scope of its. *)
FiledAs(D, scopes, n, regions, path) ==
  /\ D.kind = "file" => D.target \in Files
  /\ D.kind = "function" => D.region = scopes[D.file]
  /\ scopes[D.file] # NULL
  /\ D.region \in 2 .. n
  /\ \A k \in 1 .. Len(regions) : D.region = regions[k] => D.file = path
  /\ \A f \in Files : D.region = scopes[f] => D.file = f

Filed == \A d \in Node : FiledAs(nodes[d], file_scope, Len(locals), open, module_path)

(* The scope of a file is around the walk only while that file is walked.  *)
Apart == \A f \in Files, k \in 1 .. Len(open) :
           file_scope[f] = open[k] => k = 1 /\ f = module_path

Inv == TypeOK /\ Nested /\ Tables /\ Filed /\ Apart

(* The invariant has what the walk outwards needs. *)
LEMMA InvOlder == Inv => Older
BY DEF Inv, Nested, Older

(* The scopes of regions, each in the one before it, the first in a file's *)
(* surroundings.                                                           *)
Chain(regions) ==
  /\ regions \in Seq(2 .. Len(locals))
  /\ \A k \in 1 .. Len(regions) :
       prev[regions[k]] = IF k = 1 THEN global_scope ELSE regions[k - 1]

(* From region k outwards, a name is found in the innermost region that    *)
(* has it, or else in the global scope.                                    *)
Outwards(path, name, regions, k) ==
  /\ (\A j \in 1 .. k : locals[regions[j]][Plain(name)] = NULL) =>
       Walk(path, name)[regions[k]] = locals[1][resolve_identifier(path, name, FALSE)]
  /\ \A j \in 1 .. k :
       locals[regions[j]][Plain(name)] # NULL
         /\ (\A i \in j + 1 .. k : locals[regions[i]][Plain(name)] = NULL) =>
       Walk(path, name)[regions[k]] = locals[regions[j]][Plain(name)]

(* From any open scope, the walk finds the innermost declaration, then     *)
(* those outside (resolver.c:54-72).                                       *)
LEMMA WalkChain ==
  ASSUME Inv, NEW path \in Files, NEW name \in Names, NEW regions, Chain(regions),
         NEW k \in 1 .. Len(regions)
  PROVE  Outwards(path, name, regions, k)
<1> DEFINE W(s) == Walk(path, name)[s]
           L(j) == locals[regions[j]][Plain(name)]
           G == locals[1][resolve_identifier(path, name, FALSE)]
           P(m) == /\ (\A j \in 1 .. m : L(j) = NULL) => W(regions[m]) = G
                   /\ \A j \in 1 .. m : L(j) # NULL /\ (\A i \in j + 1 .. m : L(i) = NULL)
                        => W(regions[m]) = L(j)
           T == {m \in Nat : m \in 1 .. Len(regions) => P(m)}
<1>1. /\ Len(regions) \in Nat
      /\ \A j \in 1 .. Len(regions) : regions[j] \in 2 .. Len(locals)
  BY DEF Chain
<1>2. Len(locals) \in Nat /\ Len(locals) >= 1
  BY DEF Inv, TypeOK
<1>3. W(NULL) = NULL
  BY WalkUnfolds, InvOlder
<1>4. W(1) = G
  <2>1. W(1) = IF G # NULL THEN G ELSE W(prev[1])
    <3>1. 1 \in Scope
      BY <1>2 DEF Scope
    <3> QED
      BY WalkUnfolds, InvOlder, <3>1 DEF KeyIn, global_scope
  <2> QED
    BY <2>1, <1>3 DEF Inv, Nested
<1>5. ASSUME NEW m \in 1 .. Len(regions)
      PROVE W(regions[m]) = IF L(m) # NULL THEN L(m) ELSE W(prev[regions[m]])
  <2>1. regions[m] \in Scope /\ regions[m] # global_scope
    BY <1>1, <1>2 DEF Scope, global_scope
  <2> QED
    BY WalkUnfolds, InvOlder, <2>1 DEF KeyIn
<1>6. ASSUME NEW m \in 1 .. Len(regions), m > 1 => P(m - 1) PROVE P(m)
  <2>1. prev[regions[m]] = IF m = 1 THEN 1 ELSE regions[m - 1]
    BY DEF Chain, global_scope
  <2>2. CASE m = 1
    <3>1. W(regions[1]) = IF L(1) # NULL THEN L(1) ELSE G
      BY <2>1, <2>2, <1>4, <1>5
    <3> HIDE DEF W, L, G
    <3> QED
      BY <3>1, <2>2
  <2>3. CASE m > 1
    <3>1. W(regions[m]) = IF L(m) # NULL THEN L(m) ELSE W(regions[m - 1])
      BY <2>1, <2>3, <1>5
    <3>2. P(m - 1)
      BY <1>6, <2>3
    <3> HIDE DEF W, L, G
    <3> QED
      BY <3>1, <3>2, <2>3
  <2>4. m = 1 \/ m > 1
    BY <1>1
  <2> HIDE DEF P
  <2> QED
    BY <2>2, <2>3, <2>4
<1>7. T = Nat
  <2> HIDE DEF P
  <2>1. T \in SUBSET Nat
    OBVIOUS
  <2>4. 0 \in T
    BY <1>1
  <2>2. ASSUME NEW m \in Nat, m \in 1 .. Len(regions) => P(m), m + 1 \in 1 .. Len(regions)
        PROVE P(m + 1)
    <3>1. m + 1 > 1 => P((m + 1) - 1)
      <4>1. (m + 1) - 1 = m
        OBVIOUS
      <4>2. m + 1 > 1 => m \in 1 .. Len(regions)
        BY <1>1, <2>2
      <4> QED
        BY <4>1, <4>2, <2>2
    <3> QED
      BY <3>1, <1>6, <2>2
  <2>3. \A m \in T : m + 1 \in T
    BY <2>2
  <2> HIDE DEF T
  <2> QED
    BY <2>1, <2>3, <2>4, Induction
<1>8. P(k)
  <2> HIDE DEF P
  <2>1. k \in T
    BY <1>1, <1>7
  <2> QED
    BY <2>1
<1> QED
  BY <1>8 DEF Outwards

(* A look-up finds what a reader expects. *)
LEMMA LookupExpected ==
  ASSUME Inv, NEW path \in Files, NEW name \in Names, NEW regions, Chain(regions),
         regions = <<>> => OwnOf(path, name) = {}
  PROVE lookup_identifier(path, name,
                          IF regions = <<>> THEN NULL ELSE regions[Len(regions)])
          = Expected(name, path, regions)
<1> DEFINE L(j) == locals[regions[j]][Plain(name)]
           G == locals[1][resolve_identifier(path, name, FALSE)]
           S == locals[1][Plain(name)]
           inner == {k \in DOMAIN regions : LocalsOf(regions[k], name) # {}}
           own == IF name # Main THEN OwnOf(path, name) ELSE {}
           scope == IF regions = <<>> THEN NULL ELSE regions[Len(regions)]
           x == Walk(path, name)[scope]
<1>1. /\ Len(regions) \in Nat /\ DOMAIN regions = 1 .. Len(regions)
      /\ \A j \in 1 .. Len(regions) : regions[j] \in 2 .. Len(locals)
  BY DEF Chain
<1>2. \A j \in 1 .. Len(regions) : IsNewest(L(j), LocalsOf(regions[j], name))
  BY <1>1 DEF Inv, Tables
<1>3. Node \in SUBSET Nat /\ NULL \notin Node
  BY DEF Inv, TypeOK, Node, NULL
<1>4. IsNewest(S, SharedAs(name))
  BY DEF Inv, Tables
<1>5. name # Main => IsNewest(G, OwnOf(path, name))
  BY DEF Inv, Tables, resolve_identifier
<1>6. name = Main => G = S
  BY DEF resolve_identifier
<1>7. lookup_identifier(path, name, scope) = IF x # NULL THEN x ELSE S
  BY DEF lookup_identifier, global_scope
<1>8. Expected(name, path, regions) =
        IF inner # {}
        THEN Newest(LocalsOf(regions[CHOOSE k \in inner : \A j \in inner : j <= k], name))
        ELSE IF own # {} THEN Newest(own) ELSE Newest(SharedAs(name))
  <2> DEFINE named == {d \in Node : nodes[d].name = name}
             within(k) == {d \in named : /\ nodes[d].kind \in Local
                                         /\ nodes[d].region = regions[k]}
             inner_ == {k \in DOMAIN regions : within(k) # {}}
             own_ == {d \in named : /\ nodes[d].kind = "function"
                                    /\ nodes[d].file = path /\ name # Main}
             shared_ == {d \in named : \/ nodes[d].kind = "extern"
                                       \/ (nodes[d].kind = "function" /\ name = Main)}
  <2>1. Expected(name, path, regions) =
          IF inner_ # {} THEN Newest(within(CHOOSE k \in inner_ : \A j \in inner_ : j <= k))
          ELSE IF own_ # {} THEN Newest(own_) ELSE Newest(shared_)
    BY DEF Expected
  <2>2. \A k : within(k) = LocalsOf(regions[k], name)
    BY DEF LocalsOf
  <2>3. own_ = own
    BY DEF OwnOf
  <2>4. shared_ = SharedAs(name)
    BY DEF SharedAs
  <2> HIDE DEF within, own_, shared_, own
  <2>5. inner_ = inner
    BY <2>2
  <2> HIDE DEF inner_, inner
  <2> QED
    BY <2>1, <2>2, <2>3, <2>4, <2>5
<1>9. CASE inner # {}
  <2>1. inner \in SUBSET (1 .. Len(regions))
    BY <1>1
  <2>2. \E k \in inner : \A j \in inner : j <= k
    <3> HIDE DEF inner
    <3> QED
      BY <2>1, <1>1, <1>9, Greatest
  <2> DEFINE m == CHOOSE k \in inner : \A j \in inner : j <= k
  <2>3. m \in inner /\ \A j \in inner : j <= m
    <3> HIDE DEF inner
    <3> QED
      BY <2>2
  <2> HIDE DEF m
  <2>4. m \in 1 .. Len(regions) /\ LocalsOf(regions[m], name) # {}
    BY <2>3, <1>1
  <2>5. L(m) \in LocalsOf(regions[m], name)
    BY <2>4, <1>2 DEF IsNewest
  <2>6. L(m) # NULL
    BY <2>5, <1>3 DEF LocalsOf
  <2>7. \A i \in m + 1 .. Len(regions) : L(i) = NULL
    <3> SUFFICES ASSUME NEW i \in m + 1 .. Len(regions) PROVE L(i) = NULL
      OBVIOUS
    <3>1. i \in 1 .. Len(regions) /\ ~(i <= m)
      BY <2>4, <1>1
    <3>2. i \notin inner
      BY <3>1, <2>3
    <3>3. LocalsOf(regions[i], name) = {}
      BY <3>1, <3>2, <1>1
    <3> QED
      BY <3>1, <3>3, <1>2 DEF IsNewest
  <2>8. regions # <<>> /\ Len(regions) \in 1 .. Len(regions)
    BY <2>4, <1>1
  <2>9. x = L(m)
    <3>1. \A j \in 1 .. Len(regions) :
            L(j) # NULL /\ (\A i \in j + 1 .. Len(regions) : L(i) = NULL) =>
              Walk(path, name)[regions[Len(regions)]] = L(j)
      <4>1. Outwards(path, name, regions, Len(regions))
        BY <2>8, WalkChain
      <4> QED
        BY <4>1 DEF Outwards
    <3>2. Walk(path, name)[regions[Len(regions)]] = L(m)
      BY <2>4, <2>6, <2>7, <3>1
    <3> QED
      BY <3>2, <2>8
  <2>10. Newest(LocalsOf(regions[m], name)) = L(m)
    <3>1. LocalsOf(regions[m], name) \in SUBSET Nat
      BY <1>3 DEF LocalsOf
    <3>2. IsNewest(L(m), LocalsOf(regions[m], name))
      BY <2>4, <1>2
    <3> HIDE DEF L
    <3> QED
      BY <3>1, <3>2, NewestIs
  <2> QED
    BY <1>7, <1>8, <1>9, <2>6, <2>9, <2>10 DEF m
<1>10. CASE inner = {}
  <2>1. x = IF regions = <<>> THEN NULL ELSE G
    <3>1. CASE regions = <<>>
      BY <3>1, WalkUnfolds, InvOlder
    <3>2. CASE regions # <<>>
      <4>1. Len(regions) \in 1 .. Len(regions)
        BY <3>2, <1>1 DEF Chain
      <4>2. \A j \in 1 .. Len(regions) : LocalsOf(regions[j], name) = {}
        BY <1>1, <1>10
      <4>3. \A j \in 1 .. Len(regions) : L(j) = NULL
        BY <4>2, <1>2 DEF IsNewest
      <4>4. Walk(path, name)[regions[Len(regions)]] = G
        <5>1. (\A j \in 1 .. Len(regions) : L(j) = NULL) =>
                Walk(path, name)[regions[Len(regions)]] = G
          <6>1. Outwards(path, name, regions, Len(regions))
            BY <4>1, WalkChain
          <6> QED
            BY <6>1 DEF Outwards
        <5> QED
          BY <5>1, <4>3
      <4> HIDE DEF G
      <4> QED
        BY <3>2, <4>4
    <3> QED
      BY <3>1, <3>2
  <2>2. Newest(SharedAs(name)) = S
    <3>1. SharedAs(name) \in SUBSET Nat
      BY <1>3 DEF SharedAs
    <3> HIDE DEF S
    <3> QED
      BY <3>1, <1>4, NewestIs
  <2>3. CASE own # {}
    <3>1. name # Main /\ OwnOf(path, name) # {} /\ own = OwnOf(path, name)
      BY <2>3
    <3>2. G \in OwnOf(path, name)
      BY <3>1, <1>5 DEF IsNewest
    <3>3. G # NULL
      BY <3>2, <1>3 DEF OwnOf
    <3>4. Newest(own) = G
      <4>1. OwnOf(path, name) \in SUBSET Nat
        BY <1>3 DEF OwnOf
      <4> HIDE DEF G
      <4> QED
        BY <4>1, <3>1, <1>5, NewestIs
    <3>5. x = G
      BY <2>1, <3>1
    <3> HIDE DEF x, G, own, inner
    <3> QED
      BY <1>7, <1>8, <1>10, <2>3, <3>3, <3>4, <3>5
  <2>4. CASE own = {}
    <3>1. name # Main => G = NULL
      BY <2>4, <1>5 DEF IsNewest
    <3> HIDE DEF x, G, own, inner, S
    <3> QED
      BY <1>6, <1>7, <1>8, <1>10, <2>1, <2>2, <2>4, <3>1
  <2> QED
    BY <2>3, <2>4
<1> QED
  BY <1>9, <1>10

(* What one more declaration changes. *)
LEMMA Declared1 ==
  ASSUME TypeOK, NEW D \in Entry, nodes' = Append(nodes, D)
  PROVE /\ Len(nodes') = Len(nodes) + 1 /\ nodes' \in Seq(Entry)
        /\ Node' = Node \cup {Len(nodes) + 1}
        /\ \A d \in Node : nodes'[d] = nodes[d]
        /\ nodes'[Len(nodes) + 1] = D
        /\ Len(nodes) \in Nat /\ Len(nodes) + 1 \notin Node
<1>1. Len(nodes) \in Nat /\ nodes \in Seq(Entry)
  BY DEF TypeOK
<1>2. Len(nodes') = Len(nodes) + 1 /\ nodes' \in Seq(Entry)
  BY <1>1
<1> QED
  BY <1>1, <1>2 DEF Node

(* One more declaration changes the one set it belongs to. *)
LEMMA SetsDeclared ==
  ASSUME TypeOK, NEW D \in Entry, nodes' = Append(nodes, D)
  PROVE /\ \A s, n : LocalsOf(s, n)' =
             IF D.name = n /\ D.kind \in Local /\ D.region = s
             THEN LocalsOf(s, n) \cup {Len(nodes) + 1} ELSE LocalsOf(s, n)
        /\ \A f, n : OwnOf(f, n)' =
             IF D.name = n /\ D.kind = "function" /\ D.file = f
             THEN OwnOf(f, n) \cup {Len(nodes) + 1} ELSE OwnOf(f, n)
        /\ \A n : SharedAs(n)' =
             IF D.name = n /\ (D.kind = "extern" \/ (D.kind = "function" /\ n = Main))
             THEN SharedAs(n) \cup {Len(nodes) + 1} ELSE SharedAs(n)
<1>1. /\ Node' = Node \cup {Len(nodes) + 1} /\ nodes'[Len(nodes) + 1] = D
      /\ \A d \in Node : nodes'[d] = nodes[d]
      /\ Len(nodes) + 1 \notin Node
  BY Declared1
<1>2. ASSUME NEW s, NEW n PROVE LocalsOf(s, n)' =
             IF D.name = n /\ D.kind \in Local /\ D.region = s
             THEN LocalsOf(s, n) \cup {Len(nodes) + 1} ELSE LocalsOf(s, n)
  BY <1>1 DEF LocalsOf
<1>3. ASSUME NEW f, NEW n PROVE OwnOf(f, n)' =
             IF D.name = n /\ D.kind = "function" /\ D.file = f
             THEN OwnOf(f, n) \cup {Len(nodes) + 1} ELSE OwnOf(f, n)
  BY <1>1 DEF OwnOf
<1>4. ASSUME NEW n PROVE SharedAs(n)' =
             IF D.name = n /\ (D.kind = "extern" \/ (D.kind = "function" /\ n = Main))
             THEN SharedAs(n) \cup {Len(nodes) + 1} ELSE SharedAs(n)
  BY <1>1 DEF SharedAs
<1> QED
  BY <1>2, <1>3, <1>4

(* The sets of declarations hold nodes that exist. *)
LEMMA SetsBounded ==
  ASSUME TypeOK
  PROVE /\ Len(nodes) \in Nat
        /\ \A s, n : LocalsOf(s, n) \in SUBSET (1 .. Len(nodes))
        /\ \A f, n : OwnOf(f, n) \in SUBSET (1 .. Len(nodes))
        /\ \A n : SharedAs(n) \in SUBSET (1 .. Len(nodes))
BY DEF TypeOK, LocalsOf, OwnOf, SharedAs, Node

(* Put() changes one cell. *)
LEMMA PutOne ==
  ASSUME TypeOK, NEW s \in Scope, NEW key \in Key, Put(s, key)
  PROVE /\ locals' \in Seq([Key -> Nat]) /\ Len(locals') = Len(locals)
        /\ \A t \in Scope, k \in Key :
             locals'[t][k] = IF t = s /\ k = key THEN Len(nodes) + 1 ELSE locals[t][k]
<1>1. locals \in Seq([Key -> Nat]) /\ Len(nodes) + 1 \in Nat /\ s \in 1 .. Len(locals)
  BY DEF TypeOK, Scope
<1>2. locals[s] \in [Key -> Nat]
  BY <1>1
<1> DEFINE T == [locals[s] EXCEPT ![key] = Len(nodes) + 1]
<1>3. T \in [Key -> Nat] /\ \A k \in Key : T[k] = IF k = key THEN Len(nodes) + 1 ELSE locals[s][k]
  BY <1>1, <1>2
<1>4. locals' = [locals EXCEPT ![s] = T]
  BY DEF Put
<1> HIDE DEF T
<1>5. locals' \in Seq([Key -> Nat]) /\ Len(locals') = Len(locals)
  BY <1>1, <1>3, <1>4
<1>6. \A t \in 1 .. Len(locals) : locals'[t] = IF t = s THEN T ELSE locals[t]
  BY <1>1, <1>4
<1> QED
  BY <1>3, <1>5, <1>6 DEF Scope

(* A local declaration or an extern is put where its name belongs.         *)
Belongs(D, s, key) ==
  /\ key = Plain(D.name)
  /\ \/ D.kind \in Local /\ s = D.region
     \/ D.kind = "extern" /\ s = global_scope

(* Putting a declaration under its key, in its scope, keeps the tables true. *)
LEMMA TablesDeclared ==
  ASSUME Inv, NEW D \in Entry, nodes' = Append(nodes, D), NEW s \in Scope, NEW key \in Key,
         Put(s, key), Belongs(D, s, key), D.region \in 2 .. Len(locals)
  PROVE Tables'
<1>1. TypeOK /\ Tables
  BY DEF Inv
<1> DEFINE n == Len(nodes)
<1>2. n \in Nat
  BY <1>1, SetsBounded
<1>3. /\ Len(locals') = Len(locals) /\ Len(locals) \in Nat /\ Len(locals) >= 1
      /\ \A t \in Scope, k \in Key :
            locals'[t][k] = IF t = s /\ k = key THEN n + 1 ELSE locals[t][k]
  BY <1>1, PutOne DEF TypeOK
<1> SUFFICES ASSUME NEW name \in Names
             PROVE /\ \A t \in 2 .. Len(locals) :
                        IsNewest(locals'[t][Plain(name)], LocalsOf(t, name)')
                   /\ name # Main => \A f \in Files :
                        IsNewest(locals'[1][<<f, name>>], OwnOf(f, name)')
                   /\ IsNewest(locals'[1][Plain(name)], SharedAs(name)')
  BY <1>3 DEF Tables, IsNewest
<1>4. Plain(name) \in Key /\ \A f \in Files : <<f, name>> \in Key /\ <<f, name>> # key
  <2>1. key[1] = NoFile
    BY DEF Belongs, Plain
  <2> QED
    BY <2>1, NamesAssumption DEF Key, Plain
<1>5. Plain(name) = key <=> name = D.name
  BY DEF Belongs, Plain
<1>6. ASSUME NEW t \in 2 .. Len(locals)
      PROVE IsNewest(locals'[t][Plain(name)], LocalsOf(t, name)')
  <2>1. IsNewest(locals[t][Plain(name)], LocalsOf(t, name))
    BY <1>1 DEF Tables
  <2>2. t \in Scope /\ t # global_scope
    BY <1>3 DEF Scope, global_scope
  <2>3. locals'[t][Plain(name)] = IF t = s /\ name = D.name THEN n + 1 ELSE locals[t][Plain(name)]
    BY <1>3, <1>4, <1>5, <2>2
  <2>4. LocalsOf(t, name)' = IF D.name = name /\ D.kind \in Local /\ D.region = t
                             THEN LocalsOf(t, name) \cup {n + 1} ELSE LocalsOf(t, name)
    BY <1>1, SetsDeclared
  <2>5. D.kind \in Local /\ D.region = t <=> t = s
    BY <2>2 DEF Belongs, Local
  <2>6. LocalsOf(t, name) \in SUBSET (1 .. n)
    BY <1>1, SetsBounded
  <2> HIDE DEF n
  <2> QED
    BY <1>2, <2>1, <2>3, <2>4, <2>5, <2>6, NewestAdded
<1>7. ASSUME name # Main, NEW f \in Files
      PROVE IsNewest(locals'[1][<<f, name>>], OwnOf(f, name)')
  <2>1. locals'[1][<<f, name>>] = locals[1][<<f, name>>]
    BY <1>3, <1>4 DEF Scope
  <2>2. OwnOf(f, name)' = OwnOf(f, name)
    <3>1. D.kind # "function"
      BY DEF Belongs, Local
    <3> QED
      BY <3>1, <1>1, SetsDeclared
  <2> QED
    BY <1>1, <1>7, <2>1, <2>2 DEF Tables
<1>8. IsNewest(locals'[1][Plain(name)], SharedAs(name)')
  <2>1. IsNewest(locals[1][Plain(name)], SharedAs(name))
    BY <1>1 DEF Tables
  <2>2. locals'[1][Plain(name)] = IF s = 1 /\ name = D.name THEN n + 1 ELSE locals[1][Plain(name)]
    BY <1>3, <1>4, <1>5 DEF Scope
  <2>3. s = 1 <=> D.kind = "extern"
    BY DEF Belongs, Local, global_scope
  <2>4. SharedAs(name)' = IF D.name = name /\ D.kind = "extern"
                          THEN SharedAs(name) \cup {n + 1} ELSE SharedAs(name)
    <3>1. D.kind # "function"
      BY DEF Belongs, Local
    <3> QED
      BY <3>1, <1>1, SetsDeclared
  <2>5. SharedAs(name) \in SUBSET (1 .. n)
    BY <1>1, SetsBounded
  <2> HIDE DEF n
  <2> QED
    BY <1>2, <2>1, <2>2, <2>3, <2>4, <2>5, NewestAdded
<1> QED
  BY <1>6, <1>7, <1>8

(* A declaration where the walk is. *)
LEMMA DeclaresKeeps ==
  ASSUME Inv, open # <<>>, NEW D \in Entry, nodes' = Append(nodes, D),
         NEW s \in Scope, NEW key \in Key, Put(s, key), Belongs(D, s, key),
         D.file = module_path, D.region = open[Len(open)],
         D.kind = "file" => D.target \in Files,
         UNCHANGED <<prev, current_scope, module_path, file_scope, open>>
  PROVE Inv'
<1>1. TypeOK /\ Nested /\ Filed /\ Apart
  BY DEF Inv
<1>2. /\ Len(nodes) \in Nat /\ nodes' \in Seq(Entry) /\ nodes'[Len(nodes) + 1] = D
      /\ Node' = Node \cup {Len(nodes) + 1} /\ \A d \in Node : nodes'[d] = nodes[d]
  BY <1>1, Declared1
<1>3. locals' \in Seq([Key -> Nat]) /\ Len(locals') = Len(locals)
  BY <1>1, PutOne
<1>4. TypeOK'
  BY <1>1, <1>2, <1>3 DEF TypeOK
<1>5. Len(open) \in 1 .. Len(open) /\ D.region \in 2 .. Len(locals)
  BY <1>1 DEF TypeOK
<1>6. Tables'
  BY <1>5, TablesDeclared
<1>7. Nested' /\ Apart'
  BY <1>1, <1>3 DEF Nested, Apart
<1>8. Filed'
  <2>1. D.kind # "function"
    BY DEF Belongs, Local
  <2>2. file_scope[D.file] # NULL
    <3>1. file_scope[D.file] = open[1]
      BY <1>1 DEF Nested
    <3>2. open \in Seq(2 .. Len(locals)) /\ 1 \in 1 .. Len(open)
      BY <1>1, <1>5 DEF TypeOK
    <3>3. open[1] \in 2 .. Len(locals)
      BY <3>2
    <3> QED
      BY <3>1, <3>3 DEF NULL
  <2>3. ASSUME NEW f \in Files, D.region = file_scope[f] PROVE D.file = f
    BY <1>1, <1>5, <2>3 DEF Apart
  <2>4. FiledAs(D, file_scope, Len(locals), open, module_path)
    BY <1>5, <2>1, <2>2, <2>3 DEF FiledAs
  <2> QED
    BY <1>1, <1>2, <1>3, <2>4 DEF Filed
<1> QED
  BY <1>4, <1>6, <1>7, <1>8 DEF Inv

(* A scope is entered: inside the current one, or for the next file. *)
Enters ==
  /\ prev' = Append(prev, current_scope) /\ open' = Append(open, Len(locals) + 1)
  /\ current_scope' = Len(locals) + 1
  /\ \/ open # <<>> /\ UNCHANGED <<module_path, file_scope>>
     \/ \E f \in Files :
          /\ open = <<>> /\ file_scope[f] = NULL
          /\ module_path' = f
          /\ file_scope' = [file_scope EXCEPT ![f] = Len(locals) + 1]

(* Opening a scope keeps the scopes nested. *)
LEMMA EntersNested ==
  ASSUME Inv, Enters, locals' \in Seq([Key -> Nat]), Len(locals') = Len(locals) + 1,
         nodes' \in Seq(Entry)
  PROVE TypeOK' /\ Nested' /\ Apart'
<1> DEFINE n == Len(locals)
<1>1. /\ n \in Nat /\ n >= 1 /\ prev \in Seq(Nat) /\ Len(prev) = n
      /\ file_scope \in [Files -> {NULL} \cup 2 .. n] /\ open \in Seq(2 .. n)
      /\ Len(open) \in Nat /\ \A k \in 1 .. Len(open) : open[k] \in 2 .. n
  <2>1. /\ locals \in Seq([Key -> Nat]) /\ n >= 1 /\ prev \in Seq(Nat) /\ Len(prev) = n
        /\ file_scope \in [Files -> {NULL} \cup 2 .. n] /\ open \in Seq(2 .. n)
    BY DEF Inv, TypeOK
  <2>2. n \in Nat
    BY <2>1
  <2> HIDE DEF n
  <2>3. open \in Seq(2 .. n)
    BY <2>1
  <2>4. Len(open) \in Nat
    BY <2>3
  <2>5. ASSUME NEW k \in 1 .. Len(open) PROVE open[k] \in 2 .. n
    BY <2>3, ElementOfSeq
  <2> QED
    BY <2>1, <2>2, <2>4, <2>5
<1>2. Nested /\ Apart
  BY DEF Inv
<1>3. current_scope \in 1 .. n
  <2>1. CASE open = <<>>
    BY <2>1, <1>1, <1>2 DEF Nested, global_scope
  <2>2. CASE open # <<>>
    <3>1. Len(open) \in 1 .. Len(open)
      BY <2>2, <1>1
    <3>2. open[Len(open)] \in 2 .. n
      BY <3>1, <1>1
    <3>3. current_scope = open[Len(open)]
      BY <2>2, <1>2 DEF Nested
    <3> QED
      BY <3>2, <3>3
  <2> QED
    BY <2>1, <2>2
<1>4. /\ prev' \in Seq(Nat) /\ Len(prev') = n + 1 /\ prev'[n + 1] = current_scope
      /\ \A s \in 1 .. n : prev'[s] = prev[s]
  BY <1>1, <1>3 DEF Enters
<1>5. /\ open' \in Seq(2 .. n + 1) /\ Len(open') = Len(open) + 1
      /\ open'[Len(open) + 1] = n + 1 /\ \A k \in 1 .. Len(open) : open'[k] = open[k]
  <2>1. open \in Seq(2 .. n + 1) /\ n + 1 \in 2 .. n + 1
    BY <1>1
  <2> QED
    BY <1>1, <2>1 DEF Enters
<1>6. /\ file_scope' \in [Files -> {NULL} \cup 2 .. n + 1]
      /\ \A f \in Files : file_scope'[f] = file_scope[f]
           \/ (open = <<>> /\ file_scope'[f] = n + 1 /\ module_path' = f)
      /\ module_path' \in Files
      /\ open = <<>> => file_scope'[module_path'] = n + 1
      /\ open # <<>> => file_scope' = file_scope /\ module_path' = module_path
  <2>1. CASE open # <<>>
    <3>1. file_scope' = file_scope /\ module_path' = module_path
      BY <2>1 DEF Enters
    <3>2. \A f \in Files : file_scope[f] \in {NULL} \cup 2 .. n + 1
      BY <1>1
    <3> QED
      BY <1>1, <1>2, <2>1, <3>1, <3>2 DEF Nested
  <2>2. CASE open = <<>>
    <3>1. PICK f \in Files : /\ module_path' = f
                             /\ file_scope' = [file_scope EXCEPT ![f] = n + 1]
      BY <2>2 DEF Enters
    <3>2. \A g \in Files : file_scope[g] \in {NULL} \cup 2 .. n + 1
      BY <1>1
    <3>3. n + 1 \in 2 .. n + 1
      BY <1>1
    <3> HIDE DEF n
    <3> QED
      BY <1>1, <2>2, <3>1, <3>2, <3>3
  <2> QED
    BY <2>1, <2>2
<1>7. TypeOK'
  BY <1>1, <1>4, <1>5, <1>6 DEF TypeOK
<1> HIDE DEF n
<1>8. Apart'
  <2> SUFFICES ASSUME NEW f \in Files, NEW k \in 1 .. Len(open'), file_scope'[f] = open'[k]
               PROVE k = 1 /\ f = module_path'
    BY DEF Apart
  <2>1. CASE open = <<>>
    <3>1. k = 1 /\ open'[k] = n + 1
      <4>1. Len(open') = 1 /\ Len(open) = 0
        BY <1>5, <2>1
      <4>2. k = 1
        BY <4>1
      <4> QED
        BY <4>1, <4>2, <1>5
    <3>2. file_scope[f] # n + 1
      <4>1. file_scope[f] \in {NULL} \cup 2 .. n
        BY <1>1
      <4> QED
        BY <4>1, <1>1 DEF NULL
    <3> QED
      BY <1>6, <3>1, <3>2
  <2>2. CASE open # <<>>
    <3>1. file_scope'[f] = file_scope[f] /\ file_scope[f] # n + 1
      <4>1. file_scope[f] \in {NULL} \cup 2 .. n
        BY <1>1
      <4>2. file_scope[f] # n + 1
        BY <4>1, <1>1 DEF NULL
      <4> QED
        BY <4>2, <1>6, <2>2
    <3>2. k \in 1 .. Len(open)
      <4>1. k # Len(open) + 1
        BY <1>5, <3>1
      <4>2. k \in 1 .. Len(open) + 1
        BY <1>5
      <4>3. Len(open) \in Nat
        BY <1>1
      <4> QED
        BY <4>1, <4>2, <4>3
    <3> QED
      BY <1>2, <1>5, <1>6, <2>2, <3>1, <3>2 DEF Apart
  <2> QED
    BY <2>1, <2>2
<1>9. Nested'
  <2>1. prev'[1] = NULL
    BY <1>1, <1>2, <1>4 DEF Nested
  <2>2. ASSUME NEW s \in 2 .. n + 1 PROVE prev'[s] \in 1 .. s - 1
    <3>1. CASE s = n + 1
      BY <3>1, <1>1, <1>3, <1>4
    <3>2. CASE s # n + 1
      <4>1. s \in 2 .. n
        BY <3>2, <1>1
      <4> QED
        <5>1. prev[s] \in 1 .. s - 1
          BY <4>1, <1>2 DEF Nested, n
        <5>2. s \in 1 .. n
          BY <4>1, <1>1
        <5> QED
          BY <5>1, <5>2, <1>4
    <3> QED
      BY <3>1, <3>2
  <2>3. ASSUME NEW k \in 1 .. Len(open')
        PROVE prev'[open'[k]] = IF k = 1 THEN global_scope ELSE open'[k - 1]
    <3>1. CASE k = Len(open) + 1
      <4>1. prev'[open'[k]] = current_scope
        BY <3>1, <1>4, <1>5
      <4>2. k = 1 <=> open = <<>>
        BY <3>1, <1>1
      <4>3. k # 1 => k - 1 = Len(open) /\ k - 1 \in 1 .. Len(open)
        BY <3>1, <1>1
      <4>4. current_scope = IF open = <<>> THEN global_scope ELSE open[Len(open)]
        BY <1>2 DEF Nested
      <4>5. k # 1 => open'[k - 1] = open[Len(open)]
        BY <4>3, <1>5
      <4> QED
        BY <4>1, <4>2, <4>4, <4>5
    <3>2. CASE k \in 1 .. Len(open)
      <4>1. open'[k] = open[k] /\ open[k] \in 1 .. n /\ prev'[open[k]] = prev[open[k]]
        <5>1. open[k] \in 2 .. n
          BY <3>2, <1>1
        <5>2. open[k] \in 1 .. n
          BY <5>1, <1>1
        <5> QED
          BY <3>2, <5>2, <1>4, <1>5
      <4>2. k # 1 => open'[k - 1] = open[k - 1]
        <5>1. k # 1 => k - 1 \in 1 .. Len(open)
          BY <3>2, <1>1
        <5> QED
          BY <5>1, <1>5
      <4> QED
        BY <3>2, <4>1, <4>2, <1>2 DEF Nested
    <3> QED
      BY <3>1, <3>2, <1>1, <1>5
  <2>4. /\ open' # <<>> /\ current_scope' = open'[Len(open')]
        /\ open' # <<>> => module_path' \in Files /\ file_scope'[module_path'] = open'[1]
    <3>1. open # <<>> => 1 \in 1 .. Len(open)
      BY <1>1
    <3>2. open # <<>> => file_scope[module_path] = open[1]
      BY <1>2 DEF Nested
    <3>3. open = <<>> => Len(open) + 1 = 1
      OBVIOUS
    <3>4. open' # <<>> /\ current_scope' = open'[Len(open')]
      BY <1>1, <1>5 DEF Enters, n
    <3> QED
      BY <1>5, <1>6, <3>1, <3>2, <3>3, <3>4
  <2>5. ASSUME NEW f \in Files, file_scope'[f] # NULL PROVE prev'[file_scope'[f]] = global_scope
    <3>1. CASE file_scope'[f] = file_scope[f]
      <4>1. file_scope[f] \in 1 .. n /\ prev[file_scope[f]] = global_scope
        BY <3>1, <2>5, <1>1, <1>2 DEF Nested
      <4> QED
        BY <3>1, <4>1, <1>4
    <3>2. CASE open = <<>> /\ file_scope'[f] = n + 1
      BY <3>2, <1>2, <1>4 DEF Nested
    <3> QED
      BY <3>1, <3>2, <1>6
  <2> QED
    BY <2>1, <2>2, <2>3, <2>4, <2>5 DEF Nested, n
<1> QED
  BY <1>7, <1>8, <1>9

(* What was declared before is not in the new scope. *)
LEMMA EntersFiled ==
  ASSUME Inv, Enters, NEW d \in Node
  PROVE FiledAs(nodes[d], file_scope', Len(locals) + 1, open', module_path')
<1> DEFINE D == nodes[d]
           n == Len(locals)
<1>1. FiledAs(D, file_scope, n, open, module_path)
  BY DEF Inv, Filed
<1>2. /\ n \in Nat /\ Len(open) \in Nat /\ D.file \in Files
      /\ file_scope \in [Files -> {NULL} \cup 2 .. n]
      /\ open \in Seq(2 .. n)
  <2>1. nodes \in Seq(Entry) /\ d \in 1 .. Len(nodes)
    BY DEF Inv, TypeOK, Node
  <2>2. D \in Entry
    BY <2>1
  <2>3. D.file \in Files
    BY <2>2 DEF Entry
  <2> QED
    BY <2>3 DEF Inv, TypeOK
<1>3. /\ Len(open') = Len(open) + 1 /\ open'[Len(open) + 1] = n + 1
      /\ \A k \in 1 .. Len(open) : open'[k] = open[k]
  BY <1>2 DEF Enters
<1>4. D.region \in 2 .. n + 1 /\ D.region # n + 1
  BY <1>1, <1>2 DEF FiledAs
<1> HIDE DEF D
<1>5. CASE open # <<>>
  <2>1. file_scope' = file_scope /\ module_path' = module_path
    BY <1>5 DEF Enters
  <2>2. ASSUME NEW k \in 1 .. Len(open'), D.region = open'[k] PROVE D.file = module_path
    <3>1. k \in 1 .. Len(open) /\ D.region = open[k]
      BY <1>2, <1>3, <1>4, <2>2
    <3> QED
      BY <3>1, <1>1 DEF FiledAs
  <2>3. FiledAs(D, file_scope', n + 1, open', module_path')
    BY <1>1, <1>4, <2>1, <2>2 DEF FiledAs
  <2> QED
    BY <2>3 DEF D
<1>6. CASE open = <<>>
  <2>1. PICK f \in Files : /\ module_path' = f /\ file_scope[f] = NULL
                           /\ file_scope' = [file_scope EXCEPT ![f] = n + 1]
    BY <1>6 DEF Enters
  <2>2. D.file # f /\ file_scope'[D.file] = file_scope[D.file]
    BY <1>1, <1>2, <2>1 DEF FiledAs
  <2>3. ASSUME NEW k \in 1 .. Len(open') PROVE D.region # open'[k]
    <3>1. k = Len(open) + 1
      BY <1>2, <1>3, <1>6
    <3> QED
      BY <3>1, <1>3, <1>4
  <2>4. ASSUME NEW g \in Files, D.region = file_scope'[g] PROVE D.file = g
    <3>1. file_scope'[g] = file_scope[g]
      BY <1>2, <1>4, <2>1, <2>4
    <3> QED
      BY <3>1, <2>4, <1>1 DEF FiledAs
  <2>5. FiledAs(D, file_scope', n + 1, open', module_path')
    BY <1>1, <1>4, <2>2, <2>3, <2>4 DEF FiledAs
  <2> QED
    BY <2>5 DEF D
<1> QED
  BY <1>5, <1>6

(* A file or a block is entered with an empty table. *)
LEMMA EmptyEntered ==
  ASSUME Inv, Enters, locals' = Append(locals, EmptyTable), nodes' = nodes
  PROVE Inv'
<1> DEFINE n == Len(locals)
<1>1. locals \in Seq([Key -> Nat]) /\ n \in Nat /\ n >= 1 /\ nodes \in Seq(Entry)
  BY DEF Inv, TypeOK
<1>2. EmptyTable \in [Key -> Nat]
  BY DEF EmptyTable, NULL
<1>3. /\ locals' \in Seq([Key -> Nat]) /\ Len(locals') = n + 1
      /\ \A s \in 1 .. n : locals'[s] = locals[s]
      /\ locals'[n + 1] = EmptyTable
  BY <1>1, <1>2
<1>4. TypeOK' /\ Nested' /\ Apart'
  BY <1>1, <1>3, EntersNested
<1>5. Node' = Node
  BY DEF Node
<1>6. \A d \in Node : nodes[d].region \in 2 .. n
  BY DEF Inv, Filed, FiledAs
<1>7. Filed'
  BY <1>3, <1>5, EntersFiled DEF Filed
<1> HIDE DEF n
<1>8. Tables'
  <2> SUFFICES ASSUME NEW name \in Names
               PROVE /\ \A s \in 2 .. n + 1 : IsNewest(locals'[s][Plain(name)], LocalsOf(s, name))
                     /\ name # Main => \A f \in Files : IsNewest(locals'[1][<<f, name>>], OwnOf(f, name))
                     /\ IsNewest(locals'[1][Plain(name)], SharedAs(name))
    <3>1. /\ \A t, x : LocalsOf(t, x)' = LocalsOf(t, x)
          /\ \A f, x : OwnOf(f, x)' = OwnOf(f, x)
          /\ \A x : SharedAs(x)' = SharedAs(x)
      BY <1>5 DEF LocalsOf, OwnOf, SharedAs
    <3> QED
      BY <1>3, <3>1 DEF Tables
  <2>1. ASSUME NEW s \in 2 .. n + 1
        PROVE IsNewest(locals'[s][Plain(name)], LocalsOf(s, name))
    <3>1. CASE s = n + 1
      <4>1. LocalsOf(s, name) = {}
        BY <3>1, <1>1, <1>6 DEF LocalsOf
      <4>2. locals'[s][Plain(name)] = NULL
        BY <3>1, <1>3, KeysAreKeys DEF EmptyTable
      <4> QED
        BY <4>1, <4>2 DEF IsNewest
    <3>2. CASE s # n + 1
      <4>1. s \in 2 .. n /\ s \in 1 .. n
        BY <3>2, <1>1
      <4>2. IsNewest(locals[s][Plain(name)], LocalsOf(s, name))
        BY <4>1 DEF Inv, Tables, n
      <4> QED
        BY <4>1, <4>2, <1>3
    <3> QED
      BY <3>1, <3>2
  <2>2. locals'[1] = locals[1]
    BY <1>1, <1>3
  <2> QED
    BY <2>1, <2>2 DEF Inv, Tables
<1> QED
  BY <1>4, <1>7, <1>8 DEF Inv

(* A function and its parameters are declared, the latter in its scope.    *)
LEMMA FunctionNodes ==
  ASSUME Inv, NEW name \in Names, NEW parameters \in Seq(Names), parse_function(name, parameters)
  PROVE /\ nodes' \in Seq(Entry) /\ Len(nodes') = Len(nodes) + 1 + Len(parameters)
        /\ \A d \in 1 .. Len(nodes) : nodes'[d] = nodes[d]
        /\ nodes'[Len(nodes) + 1] = Declaration("function", name)
        /\ \A k \in 1 .. Len(parameters) :
             nodes'[Len(nodes) + 1 + k] =
               [Declaration("parameter", parameters[k]) EXCEPT !.region = Len(locals) + 1]
        /\ Len(nodes) \in Nat /\ Len(parameters) \in Nat
        /\ module_path \in Files /\ Len(open) = 1 /\ open[1] \in 2 .. Len(locals)
<1>1. /\ nodes \in Seq(Entry) /\ Len(nodes) \in Nat /\ Len(parameters) \in Nat
      /\ Len(locals) \in Nat
  BY DEF Inv, TypeOK
<1>2. Len(open) = 1 /\ open # <<>>
  <2>1. Len(open) = 1
    BY DEF parse_function, AtFileLevel
  <2>2. ASSUME open = <<>> PROVE FALSE
    <3>1. Len(open) = 0
      BY <2>2
    <3> QED
      BY <2>1, <3>1
  <2> QED
    BY <2>1, <2>2
<1>3. module_path \in Files /\ open[1] \in 2 .. Len(locals)
  BY <1>2 DEF Inv, TypeOK, Nested
<1> DEFINE F == Declaration("function", name)
           P == [k \in 1 .. Len(parameters) |->
                   [Declaration("parameter", parameters[k]) EXCEPT !.region = Len(locals) + 1]]
<1>4. nodes' = Append(nodes, F) \o P
  BY DEF parse_function
<1>5. F \in Entry
  BY <1>2, <1>3 DEF Declaration, Entry
<1>6. P \in Seq(Entry) /\ Len(P) = Len(parameters)
  <2>1. \A k \in 1 .. Len(parameters) :
          [Declaration("parameter", parameters[k]) EXCEPT !.region = Len(locals) + 1] \in Entry
    <3> SUFFICES ASSUME NEW k \in 1 .. Len(parameters)
                 PROVE [Declaration("parameter", parameters[k]) EXCEPT !.region = Len(locals) + 1]
                         \in Entry
      OBVIOUS
    <3> DEFINE D == [kind |-> "parameter", name |-> parameters[k], file |-> module_path,
                     region |-> open[Len(open)], target |-> NoFile, typed |-> FALSE]
    <3>1. D \in Entry
      BY <1>2, <1>3 DEF Entry, Local
    <3>2. Declaration("parameter", parameters[k]) = D
      BY DEF Declaration
    <3> HIDE DEF D
    <3>3. [D EXCEPT !.region = Len(locals) + 1] \in Entry
      BY <3>1, <1>1 DEF Entry
    <3> QED
      BY <3>2, <3>3
  <2> QED
    BY <2>1, <1>1
<1>7. \A k \in 1 .. Len(parameters) :
        P[k] = [Declaration("parameter", parameters[k]) EXCEPT !.region = Len(locals) + 1]
  OBVIOUS
<1> HIDE DEF F, P
<1>8. /\ Append(nodes, F) \in Seq(Entry) /\ Len(Append(nodes, F)) = Len(nodes) + 1
      /\ \A d \in 1 .. Len(nodes) : Append(nodes, F)[d] = nodes[d]
      /\ Append(nodes, F)[Len(nodes) + 1] = F
  BY <1>1, <1>5
<1> DEFINE A == Append(nodes, F)
<1> HIDE DEF A
<1>9. /\ A \o P \in Seq(Entry) /\ Len(A \o P) = Len(A) + Len(P)
      /\ \A d \in 1 .. Len(A) : (A \o P)[d] = A[d]
      /\ \A k \in 1 .. Len(P) : (A \o P)[Len(A) + k] = P[k]
  BY <1>6, <1>8 DEF A
<1>10. /\ nodes' = A \o P /\ Len(A) = Len(nodes) + 1 /\ Len(P) = Len(parameters)
       /\ A[Len(nodes) + 1] = F /\ \A d \in 1 .. Len(nodes) : A[d] = nodes[d]
  BY <1>4, <1>6, <1>8 DEF A
<1>11. /\ Len(nodes) + 1 \in 1 .. Len(nodes) + 1
       /\ \A d \in 1 .. Len(nodes) : d \in 1 .. Len(nodes) + 1
  BY <1>1
<1> QED
  BY <1>1, <1>2, <1>3, <1>7, <1>9, <1>10, <1>11 DEF F

(* The table of a new function has the last parameter of every name.       *)
LastOf(x, parameters) == {k \in 1 .. Len(parameters) : parameters[k] = x}
ParameterTable(function, parameters) ==
  [k \in Key |-> IF k[1] = NoFile /\ LastOf(k[2], parameters) # {}
                 THEN function + (CHOOSE j \in LastOf(k[2], parameters) :
                                    \A i \in LastOf(k[2], parameters) : i <= j)
                 ELSE NULL]

(* The table of a function's scope holds the last parameter of each name. *)
LEMMA ParameterTableIs ==
  ASSUME NEW function \in Nat, NEW parameters \in Seq(Names)
  PROVE /\ ParameterTable(function, parameters) \in [Key -> Nat]
        /\ \A x \in Names :
             IsNewest(ParameterTable(function, parameters)[Plain(x)],
                      {function + k : k \in LastOf(x, parameters)})
<1> DEFINE last(x) == CHOOSE j \in LastOf(x, parameters) :
                        \A i \in LastOf(x, parameters) : i <= j
<1>1. Len(parameters) \in Nat
  OBVIOUS
<1>2. ASSUME NEW x, LastOf(x, parameters) # {}
      PROVE last(x) \in LastOf(x, parameters) /\ \A i \in LastOf(x, parameters) : i <= last(x)
  <2>1. LastOf(x, parameters) \in SUBSET (1 .. Len(parameters))
    BY DEF LastOf
  <2>2. \E j \in LastOf(x, parameters) : \A i \in LastOf(x, parameters) : i <= j
    BY <1>1, <1>2, <2>1, Greatest
  <2> QED
    BY <2>2
<1> HIDE DEF last
<1>3. ASSUME NEW x, LastOf(x, parameters) # {} PROVE function + last(x) \in Nat
  <2>1. last(x) \in Nat
    BY <1>1, <1>2, <1>3 DEF LastOf
  <2> QED
    BY <2>1
<1>4. ParameterTable(function, parameters) =
        [k \in Key |-> IF k[1] = NoFile /\ LastOf(k[2], parameters) # {}
                       THEN function + last(k[2]) ELSE NULL]
  BY DEF ParameterTable, last
<1>5. ParameterTable(function, parameters) \in [Key -> Nat]
  BY <1>3, <1>4 DEF NULL
<1>6. ASSUME NEW x \in Names
      PROVE IsNewest(ParameterTable(function, parameters)[Plain(x)],
                     {function + k : k \in LastOf(x, parameters)})
  <2>1. Plain(x) \in Key /\ Plain(x)[1] = NoFile /\ Plain(x)[2] = x
    BY DEF Plain, Key
  <2>2. ParameterTable(function, parameters)[Plain(x)] =
          IF LastOf(x, parameters) # {} THEN function + last(x) ELSE NULL
    BY <1>4, <2>1
  <2>3. CASE LastOf(x, parameters) = {}
    BY <2>2, <2>3 DEF IsNewest
  <2>4. CASE LastOf(x, parameters) # {}
    <3>1. \A i \in LastOf(x, parameters) : function + i <= function + last(x)
      <4>1. \A i \in LastOf(x, parameters) : i \in Nat
        BY <1>1 DEF LastOf
      <4> QED
        BY <4>1, <1>2, <2>4
    <3>2. last(x) \in LastOf(x, parameters)
      BY <1>2, <2>4
    <3> QED
      BY <2>2, <2>4, <3>1, <3>2 DEF IsNewest
  <2> QED
    BY <2>3, <2>4
<1> QED
  BY <1>5, <1>6

(* What the declarations of a function and its parameters change.          *)
SetsOfFunction(name, parameters, m, n) ==
  /\ \A x : LocalsOf(n + 1, x)' = {m + 1 + k : k \in LastOf(x, parameters)}
  /\ \A s \in 2 .. n : \A x : LocalsOf(s, x)' = LocalsOf(s, x)
  /\ \A f, x : OwnOf(f, x)' = IF f = module_path /\ x = name
                              THEN OwnOf(f, x) \cup {m + 1} ELSE OwnOf(f, x)
  /\ \A x : SharedAs(x)' = IF x = name /\ x = Main
                           THEN SharedAs(x) \cup {m + 1} ELSE SharedAs(x)

(* What a function and its parameters add to the sets of declarations. *)
LEMMA FunctionSets ==
  ASSUME Inv, NEW name \in Names, NEW parameters \in Seq(Names), parse_function(name, parameters),
         NEW m, m = Len(nodes), NEW n, n = Len(locals)
  PROVE SetsOfFunction(name, parameters, m, n)
<1> DEFINE p == Len(parameters)
<1>1. /\ m \in Nat /\ p \in Nat /\ n \in Nat /\ n >= 1 /\ module_path \in Files
      /\ Len(open) = 1 /\ open[1] \in 2 .. n
  BY FunctionNodes DEF Inv, TypeOK
<1> HIDE DEF p
<1>2. /\ Node' = 1 .. m + 1 + p /\ Node = 1 .. m
      /\ \A d \in Node : nodes'[d] = nodes[d]
      /\ nodes'[m + 1] = Declaration("function", name)
      /\ \A k \in 1 .. p : nodes'[m + 1 + k] =
             [Declaration("parameter", parameters[k]) EXCEPT !.region = n + 1]
  BY FunctionNodes DEF Node, p
<1>3. /\ nodes'[m + 1].kind = "function" /\ nodes'[m + 1].name = name
      /\ nodes'[m + 1].file = module_path
  BY <1>2 DEF Declaration
<1>4. ASSUME NEW k \in 1 .. p
      PROVE /\ nodes'[m + 1 + k].kind = "parameter" /\ nodes'[m + 1 + k].name = parameters[k]
            /\ nodes'[m + 1 + k].region = n + 1
  <2>1. nodes'[m + 1 + k] = [Declaration("parameter", parameters[k]) EXCEPT !.region = n + 1]
    BY <1>2
  <2> QED
    BY <2>1 DEF Declaration
<1>5. \A d \in Node : nodes[d].region \in 2 .. n
  BY DEF Inv, Filed, FiledAs
<1>6. ASSUME NEW d \in Node'
      PROVE d \in Node \/ d = m + 1 \/ \E k \in 1 .. p : d = m + 1 + k
  <2>1. CASE d > m + 1
    <3>1. d - (m + 1) \in 1 .. p /\ d = m + 1 + (d - (m + 1))
      BY <2>1, <1>1, <1>2
    <3> QED
      BY <3>1
  <2> QED
    BY <1>1, <1>2, <2>1
<1>7. /\ m + 1 \in Node' /\ m + 1 \notin Node
      /\ \A d \in Node : d \in Node'
      /\ \A k \in 1 .. p : m + 1 + k \in Node'
  BY <1>1, <1>2
<1>8. n + 1 \notin 2 .. n
  BY <1>1
<1>9. ASSUME NEW x PROVE LocalsOf(n + 1, x)' = {m + 1 + k : k \in LastOf(x, parameters)}
  <2>1. ASSUME NEW d \in LocalsOf(n + 1, x)' PROVE \E k \in LastOf(x, parameters) : d = m + 1 + k
    <3>1. /\ d \in Node' /\ nodes'[d].name = x /\ nodes'[d].kind \in Local
          /\ nodes'[d].region = n + 1
      BY <2>1 DEF LocalsOf
    <3>2. d \notin Node
      BY <3>1, <1>2, <1>5, <1>8
    <3>3. d # m + 1
      BY <3>1, <1>3 DEF Local
    <3>4. PICK k \in 1 .. p : d = m + 1 + k
      BY <3>1, <3>2, <3>3, <1>6
    <3>5. k \in LastOf(x, parameters)
      BY <3>1, <3>4, <1>4 DEF LastOf, p
    <3> QED
      BY <3>4, <3>5
  <2>2. ASSUME NEW k \in LastOf(x, parameters) PROVE m + 1 + k \in LocalsOf(n + 1, x)'
    <3>1. k \in 1 .. p /\ parameters[k] = x
      BY DEF LastOf, p
    <3>2. /\ m + 1 + k \in Node' /\ nodes'[m + 1 + k].name = x
          /\ nodes'[m + 1 + k].kind = "parameter" /\ nodes'[m + 1 + k].region = n + 1
      BY <3>1, <1>4, <1>7
    <3> QED
      BY <3>2 DEF LocalsOf, Local
  <2> QED
    BY <2>1, <2>2
<1>10. ASSUME NEW s \in 2 .. n, NEW x PROVE LocalsOf(s, x)' = LocalsOf(s, x)
  <2>1. ASSUME NEW d \in Node', nodes'[d].kind \in Local, nodes'[d].region = s PROVE d \in Node
    <3>1. d # m + 1
      BY <2>1, <1>3 DEF Local
    <3>2. \A k \in 1 .. p : d # m + 1 + k
      BY <2>1, <1>4, <1>8
    <3> QED
      BY <3>1, <3>2, <1>6
  <2> QED
    BY <2>1, <1>2, <1>7 DEF LocalsOf
<1>11. ASSUME NEW d \in Node', nodes'[d].kind \in {"function", "extern"}
       PROVE d \in Node \/ d = m + 1
  BY <1>11, <1>4, <1>6
<1>12. ASSUME NEW f, NEW x
       PROVE OwnOf(f, x)' = IF f = module_path /\ x = name
                            THEN OwnOf(f, x) \cup {m + 1} ELSE OwnOf(f, x)
  BY <1>2, <1>3, <1>7, <1>11 DEF OwnOf
<1>13. ASSUME NEW x
       PROVE SharedAs(x)' = IF x = name /\ x = Main THEN SharedAs(x) \cup {m + 1} ELSE SharedAs(x)
  BY <1>2, <1>3, <1>7, <1>11 DEF SharedAs
<1> QED
  BY <1>9, <1>10, <1>12, <1>13 DEF SetsOfFunction

(* The tables of a new function: it is in the global one, its parameters   *)
(* are in a new one.                                                       *)
LocalsOfFunction(key, parameters, m, n) ==
  /\ locals' \in Seq([Key -> Nat]) /\ Len(locals') = n + 1
  /\ locals'[n + 1] = ParameterTable(m + 1, parameters)
  /\ \A s \in 1 .. n, k \in Key :
       locals'[s][k] = IF s = 1 /\ k = key THEN m + 1 ELSE locals[s][k]

(* What a function and its parameters do to the tables of the scopes. *)
LEMMA FunctionLocals ==
  ASSUME Inv, NEW name \in Names, NEW parameters \in Seq(Names), parse_function(name, parameters),
         NEW m, m = Len(nodes), NEW n, n = Len(locals),
         NEW key, key = resolve_identifier(module_path, name, FALSE)
  PROVE LocalsOfFunction(key, parameters, m, n)
<1>1. /\ m \in Nat /\ n \in Nat /\ n >= 1 /\ module_path \in Files
      /\ locals \in Seq([Key -> Nat])
  BY FunctionNodes DEF Inv, TypeOK
<1> DEFINE T == ParameterTable(m + 1, parameters)
           S == [locals EXCEPT ![global_scope][key] = m + 1]
           U == [locals[1] EXCEPT ![key] = m + 1]
<1>2. locals' = Append(S, T)
  BY DEF parse_function, ParameterTable, LastOf
<1>3. T \in [Key -> Nat]
  BY <1>1, ParameterTableIs
<1>4. key \in Key
  BY <1>1 DEF resolve_identifier, Plain, Key
<1>5. locals[1] \in [Key -> Nat]
  BY <1>1
<1> HIDE DEF S, T
<1>6. U \in [Key -> Nat] /\ \A k \in Key : U[k] = IF k = key THEN m + 1 ELSE locals[1][k]
  <2>1. m + 1 \in Nat
    BY <1>1
  <2> QED
    BY <2>1, <1>4, <1>5
<1>7. S = [locals EXCEPT ![1] = U]
  BY DEF global_scope, S
<1> HIDE DEF U
<1>8. S \in Seq([Key -> Nat]) /\ Len(S) = n /\ \A s \in 1 .. n : S[s] = IF s = 1 THEN U ELSE locals[s]
  BY <1>1, <1>6, <1>7
<1>9. /\ locals' \in Seq([Key -> Nat]) /\ Len(locals') = n + 1
      /\ locals'[n + 1] = T /\ \A s \in 1 .. n : locals'[s] = S[s]
  BY <1>1, <1>2, <1>3, <1>8
<1> QED
  BY <1>6, <1>8, <1>9 DEF T, LocalsOfFunction

(* parse_function keeps the tables true. *)
LEMMA FunctionTables ==
  ASSUME Inv, NEW name \in Names, NEW parameters \in Seq(Names), parse_function(name, parameters)
  PROVE Tables'
<1>1. PICK m : m = Len(nodes)
  OBVIOUS
<1>2. PICK n : n = Len(locals)
  OBVIOUS
<1>3. PICK key : key = resolve_identifier(module_path, name, FALSE)
  OBVIOUS
<1>4. m \in Nat /\ n \in Nat /\ n >= 1 /\ module_path \in Files
  BY <1>1, <1>2, FunctionNodes DEF Inv, TypeOK
<1>5. /\ Len(locals') = n + 1 /\ locals'[n + 1] = ParameterTable(m + 1, parameters)
      /\ \A s \in 1 .. n, k \in Key :
            locals'[s][k] = IF s = 1 /\ k = key THEN m + 1 ELSE locals[s][k]
  <2>1. LocalsOfFunction(key, parameters, m, n)
    BY <1>1, <1>2, <1>3, FunctionLocals
  <2> QED
    BY <2>1 DEF LocalsOfFunction
<1>6. /\ \A x : LocalsOf(n + 1, x)' = {m + 1 + k : k \in LastOf(x, parameters)}
      /\ \A s \in 2 .. n : \A x : LocalsOf(s, x)' = LocalsOf(s, x)
      /\ \A f, x : OwnOf(f, x)' = IF f = module_path /\ x = name
                                  THEN OwnOf(f, x) \cup {m + 1} ELSE OwnOf(f, x)
      /\ \A x : SharedAs(x)' = IF x = name /\ x = Main
                               THEN SharedAs(x) \cup {m + 1} ELSE SharedAs(x)
  <2>1. SetsOfFunction(name, parameters, m, n)
    BY <1>1, <1>2, FunctionSets
  <2> QED
    BY <2>1 DEF SetsOfFunction
<1>7. /\ \A f, x : OwnOf(f, x) \in SUBSET (1 .. m)
      /\ \A x : SharedAs(x) \in SUBSET (1 .. m)
  BY <1>1, SetsBounded DEF Inv
<1>8. ASSUME NEW x \in Names, NEW s \in 2 .. n + 1
      PROVE IsNewest(locals'[s][Plain(x)], LocalsOf(s, x)')
  <2>1. CASE s = n + 1
    <3>1. IsNewest(ParameterTable(m + 1, parameters)[Plain(x)],
                   {m + 1 + k : k \in LastOf(x, parameters)})
      <4>1. m + 1 \in Nat
        BY <1>4
      <4> QED
        BY <4>1, ParameterTableIs
    <3> QED
      BY <2>1, <3>1, <1>5, <1>6
  <2>2. CASE s # n + 1
    <3>1. s \in 2 .. n /\ s \in 1 .. n /\ s # 1 /\ Plain(x) \in Key
      BY <1>4, <2>2, KeysAreKeys
    <3>2. locals'[s][Plain(x)] = locals[s][Plain(x)]
      BY <3>1, <1>5
    <3>3. IsNewest(locals[s][Plain(x)], LocalsOf(s, x))
      BY <3>1, <1>2 DEF Inv, Tables
    <3> QED
      BY <3>1, <3>2, <3>3, <1>6
  <2> QED
    BY <2>1, <2>2
<1>9. \A k \in Key : locals'[1][k] = IF k = key THEN m + 1 ELSE locals[1][k]
  <2>1. 1 \in 1 .. n
    BY <1>4
  <2> QED
    BY <2>1, <1>5
<1>10. ASSUME NEW x \in Names, x # Main, NEW f \in Files
       PROVE IsNewest(locals'[1][<<f, x>>], OwnOf(f, x)')
  <2>1. <<f, x>> \in Key
    BY DEF Key
  <2>2. <<f, x>> = key <=> f = module_path /\ x = name
    BY <1>3, <1>10, <1>4, NamesAssumption DEF resolve_identifier, Plain
  <2>3. IsNewest(locals[1][<<f, x>>], OwnOf(f, x))
    BY <1>10 DEF Inv, Tables
  <2>4. IsNewest(m + 1, OwnOf(f, x) \cup {m + 1})
    BY <1>4, <1>7, NewestAdded
  <2> QED
    BY <2>1, <2>2, <2>3, <2>4, <1>6, <1>9
<1>11. ASSUME NEW x \in Names PROVE IsNewest(locals'[1][Plain(x)], SharedAs(x)')
  <2>1. Plain(x) \in Key
    BY DEF Key, Plain
  <2>2. Plain(x) = key <=> x = name /\ x = Main
    BY <1>3, <1>4, NamesAssumption DEF resolve_identifier, Plain
  <2>3. IsNewest(locals[1][Plain(x)], SharedAs(x))
    BY DEF Inv, Tables
  <2>4. IsNewest(m + 1, SharedAs(x) \cup {m + 1})
    BY <1>4, <1>7, NewestAdded
  <2> QED
    BY <2>1, <2>2, <2>3, <2>4, <1>6, <1>9
<1>12. \A x, y : IsNewest(x, y)' = IsNewest(x, y)
  BY DEF IsNewest, NULL
<1> QED
  BY <1>5, <1>8, <1>10, <1>11, <1>12 DEF Tables

(* A function is declared and entered. *)
LEMMA FunctionKeeps ==
  ASSUME Inv, NEW name \in Names, NEW parameters \in Seq(Names), parse_function(name, parameters)
  PROVE Inv' /\ Enters
<1>1. PICK m : m = Len(nodes)
  OBVIOUS
<1>2. PICK n : n = Len(locals)
  OBVIOUS
<1>3. PICK p : p = Len(parameters)
  OBVIOUS
<1>4. /\ m \in Nat /\ n \in Nat /\ p \in Nat /\ module_path \in Files
      /\ Len(open) = 1 /\ open[1] \in 2 .. n
      /\ file_scope \in [Files -> {NULL} \cup 2 .. n]
  BY <1>1, <1>2, <1>3, FunctionNodes DEF Inv, TypeOK
<1>5. /\ nodes' \in Seq(Entry) /\ Len(nodes') = m + 1 + p
      /\ \A d \in 1 .. m : nodes'[d] = nodes[d]
      /\ nodes'[m + 1] = Declaration("function", name)
      /\ \A k \in 1 .. p : nodes'[m + 1 + k] =
             [Declaration("parameter", parameters[k]) EXCEPT !.region = n + 1]
  BY <1>1, <1>2, <1>3, FunctionNodes
<1>6. Enters
  <2>1. open # <<>>
    BY FunctionNodes
  <2> QED
    BY <2>1 DEF Enters, parse_function
<1>7. locals' \in Seq([Key -> Nat]) /\ Len(locals') = Len(locals) + 1
  <2>1. PICK key : key = resolve_identifier(module_path, name, FALSE)
    OBVIOUS
  <2>2. LocalsOfFunction(key, parameters, m, n)
    BY <1>1, <1>2, <2>1, FunctionLocals
  <2> QED
    BY <2>2, <1>2 DEF LocalsOfFunction
<1>8. TypeOK' /\ Nested' /\ Apart'
  BY <1>5, <1>6, <1>7, EntersNested
<1>9. /\ module_path' = module_path /\ file_scope' = file_scope
      /\ file_scope[module_path] = open[1]
  <2>1. open # <<>>
    BY FunctionNodes
  <2> QED
    BY <2>1 DEF parse_function, Inv, Nested
<1>10. Filed'
  <2> SUFFICES ASSUME NEW d \in Node'
               PROVE FiledAs(nodes'[d], file_scope', n + 1, open', module_path')
    BY <1>2, <1>7 DEF Filed
  <2>1. CASE d \in 1 .. m
    BY <1>1, <1>2, <1>5, <1>6, <2>1, EntersFiled DEF Node
  <2>2. CASE d = m + 1
    <3> DEFINE D == nodes'[d]
    <3>1. D.kind = "function" /\ D.file = module_path /\ D.region = open[1]
      BY <1>4, <1>5, <2>2 DEF Declaration
    <3>2. \A f \in Files : D.region = file_scope[f] => f = module_path
      <4>1. 1 \in 1 .. Len(open)
        BY <1>4
      <4> QED
        BY <3>1, <4>1 DEF Inv, Apart
    <3>3. D.region \in 2 .. n + 1 /\ file_scope[module_path] # NULL
      BY <1>4, <1>9, <3>1 DEF NULL
    <3> HIDE DEF D
    <3>4. FiledAs(D, file_scope', n + 1, open', module_path')
      BY <1>9, <3>1, <3>2, <3>3 DEF FiledAs
    <3> QED
      BY <3>4 DEF D
  <2>3. ASSUME NEW k \in 1 .. p, d = m + 1 + k
        PROVE FiledAs(nodes'[d], file_scope', n + 1, open', module_path')
    <3> DEFINE D == nodes'[d]
    <3>1. D.kind = "parameter" /\ D.file = module_path /\ D.region = n + 1
      BY <1>5, <2>3 DEF Declaration
    <3>2. \A f \in Files : D.region # file_scope[f]
      BY <1>4, <3>1 DEF NULL
    <3>3. D.region \in 2 .. n + 1 /\ file_scope[module_path] # NULL
      BY <1>4, <1>9, <3>1 DEF NULL
    <3> HIDE DEF D
    <3>4. FiledAs(D, file_scope', n + 1, open', module_path')
      BY <1>9, <3>1, <3>2, <3>3 DEF FiledAs
    <3> QED
      BY <3>4 DEF D
  <2>4. d \in 1 .. m \/ d = m + 1 \/ \E k \in 1 .. p : d = m + 1 + k
    <3>1. d \in 1 .. m + 1 + p
      BY <1>5 DEF Node
    <3>2. CASE d > m + 1
      <4>1. d - (m + 1) \in 1 .. p /\ d = m + 1 + (d - (m + 1))
        BY <3>1, <3>2, <1>4
      <4> QED
        BY <4>1
    <3> QED
      BY <3>1, <3>2, <1>4
  <2> QED
    BY <2>1, <2>2, <2>3, <2>4
<1> QED
  BY <1>6, <1>8, <1>10, FunctionTables DEF Inv

(* The end of a file, a function or a block. *)
Leaves ==
  /\ open # <<>> /\ leave_scope /\ UNCHANGED tables
  /\ module_path' = IF Len(open) = 1 THEN NoFile ELSE module_path

(* Closing a scope keeps the invariant. *)
LEMMA LeavesKeeps == ASSUME Inv, Leaves PROVE Inv'
<1> DEFINE q == Len(open) - 1
<1>1. /\ open \in Seq(2 .. Len(locals)) /\ Len(open) \in Nat /\ Len(open) >= 1
      /\ module_path \in Files /\ q \in Nat
  BY DEF Inv, TypeOK, Nested, Leaves
<1>2. /\ open' \in Seq(2 .. Len(locals)) /\ Len(open') = q
      /\ \A k \in 1 .. q : open'[k] = open[k] /\ k \in 1 .. Len(open)
      /\ open' = <<>> <=> Len(open) = 1
  <2>1. open' = SubSeq(open, 1, q)
    BY DEF Leaves, leave_scope
  <2>2. \A k \in 1 .. q : open[k] \in 2 .. Len(locals) /\ k \in 1 .. Len(open)
    BY <1>1
  <2>3. /\ SubSeq(open, 1, q) \in Seq(2 .. Len(locals))
        /\ Len(SubSeq(open, 1, q)) = IF 1 <= q THEN q - 1 + 1 ELSE 0
        /\ \A k \in 1 .. q - 1 + 1 : SubSeq(open, 1, q)[k] = open[1 + k - 1]
    <3> HIDE DEF q
    <3>1. 1 \in Int /\ q \in Int
      BY <1>1
    <3> QED
      BY <2>2, <3>1, SubSeqProperties
  <2> HIDE DEF q
  <2>4. q - 1 + 1 = q /\ \A k \in 1 .. q : 1 + k - 1 = k
    BY <1>1
  <2>5. Len(open') = q
    BY <1>1, <2>1, <2>3
  <2>6. \A k \in 1 .. q : open'[k] = open[k]
    BY <2>1, <2>3, <2>4
  <2>7. open' # <<>> => Len(open') \in Nat \ {0}
    BY <2>1, <2>3, EmptySeq
  <2>8. open' = <<>> => Len(open') = 0
    BY EmptySeq
  <2>9. q = 0 <=> Len(open) = 1
    BY <1>1 DEF q
  <2>10. open' = <<>> <=> Len(open) = 1
    BY <2>5, <2>7, <2>8, <2>9
  <2> QED
    BY <2>1, <2>2, <2>3, <2>5, <2>6, <2>10
<1>3. /\ nodes' = nodes /\ locals' = locals /\ prev' = prev /\ file_scope' = file_scope
      /\ module_path' \in Files \cup {NoFile}
      /\ open' # <<>> => module_path' = module_path /\ Len(open) > 1
  <2>1. open' # <<>> => Len(open) # 1
    BY <1>1, <1>2
  <2>2. nodes' = nodes /\ locals' = locals /\ prev' = prev /\ file_scope' = file_scope
    BY DEF Leaves, tables
  <2>3. module_path' = IF Len(open) = 1 THEN NoFile ELSE module_path
    BY DEF Leaves
  <2>4. open' # <<>> => Len(open) > 1
    <3>1. \A k \in Nat : k >= 1 /\ k # 1 => k > 1
      OBVIOUS
    <3> QED
      BY <1>1, <2>1, <3>1
  <2> QED
    BY <1>1, <2>1, <2>2, <2>3, <2>4
<1>4. TypeOK'
  BY <1>2, <1>3 DEF Inv, TypeOK
<1>5. Apart'
  <2> SUFFICES ASSUME NEW f \in Files, NEW k \in 1 .. Len(open'), file_scope[f] = open'[k]
               PROVE k = 1 /\ f = module_path'
    BY <1>3 DEF Apart
  <2>1. k \in 1 .. q /\ open' # <<>>
    BY <1>2
  <2> QED
    BY <2>1, <1>2, <1>3 DEF Inv, Apart
<1>6. Nested'
  <2>1. current_scope' = prev[open[Len(open)]] /\ Len(open) \in 1 .. Len(open)
    BY <1>1 DEF Inv, Nested, Leaves, leave_scope
  <2>2. current_scope' = IF Len(open) = 1 THEN global_scope ELSE open[q]
    BY <2>1 DEF Inv, Nested
  <2>3. open' = <<>> <=> Len(open) = 1
    BY <1>1, <1>2
  <2>4. open' # <<>> => q \in 1 .. q /\ 1 \in 1 .. q
    <3>1. open' # <<>> => q # 0
      BY <1>1, <2>3
    <3>2. \A k \in Nat : k # 0 => k \in 1 .. k /\ 1 \in 1 .. k
      OBVIOUS
    <3> HIDE DEF q
    <3> QED
      BY <1>1, <3>1, <3>2
  <2>5. current_scope' = IF open' = <<>> THEN global_scope ELSE open'[Len(open')]
    BY <1>2, <2>2, <2>3, <2>4
  <2>6. ASSUME NEW k \in 1 .. Len(open')
        PROVE prev[open'[k]] = IF k = 1 THEN global_scope ELSE open'[k - 1]
    <3>1. k \in 1 .. q /\ (k # 1 => k - 1 \in 1 .. q)
      BY <1>1, <1>2
    <3>2. prev[open[k]] = IF k = 1 THEN global_scope ELSE open[k - 1]
      BY <3>1, <1>2 DEF Inv, Nested
    <3> QED
      BY <3>1, <3>2, <1>2
  <2>7. open' # <<>> => module_path' \in Files /\ file_scope[module_path'] = open'[1]
    BY <1>1, <1>2, <1>3, <2>4 DEF Inv, Nested
  <2> QED
    BY <1>3, <2>5, <2>6, <2>7 DEF Inv, Nested
<1>7. Filed'
  <2> SUFFICES ASSUME NEW d \in Node
               PROVE FiledAs(nodes[d], file_scope, Len(locals), open', module_path')
    BY <1>3 DEF Filed, Node
  <2>1. FiledAs(nodes[d], file_scope, Len(locals), open, module_path)
    BY DEF Inv, Filed
  <2>2. ASSUME NEW k \in 1 .. Len(open'), nodes[d].region = open'[k]
        PROVE nodes[d].file = module_path'
    <3>1. k \in 1 .. q /\ open' # <<>>
      BY <1>2
    <3> QED
      BY <3>1, <2>1, <2>2, <1>2, <1>3 DEF FiledAs
  <2> QED
    BY <2>1, <2>2 DEF FiledAs
<1>8. Tables'
  <2>1. Node' = Node
    BY <1>3 DEF Node
  <2>2. /\ \A s, x : LocalsOf(s, x)' = LocalsOf(s, x)
        /\ \A f, x : OwnOf(f, x)' = OwnOf(f, x)
        /\ \A x : SharedAs(x)' = SharedAs(x)
    BY <1>3, <2>1 DEF LocalsOf, OwnOf, SharedAs
  <2> QED
    BY <1>3, <2>2 DEF Inv, Tables
<1> QED
  BY <1>4, <1>5, <1>6, <1>7, <1>8 DEF Inv

(* Nothing is declared and no file is walked. *)
LEMMA InitInv == Init => Inv
<1> SUFFICES ASSUME Init PROVE Inv
  OBVIOUS
<1>1. EmptyTable \in [Key -> Nat]
  BY DEF EmptyTable, NULL
<1>2. /\ nodes = <<>> /\ open = <<>> /\ locals = <<EmptyTable>> /\ prev = <<NULL>>
      /\ file_scope = [f \in Files |-> NULL] /\ current_scope = global_scope
      /\ module_path = NoFile
  BY DEF Init
<1>3. Len(locals) = 1 /\ locals[1] = EmptyTable /\ prev[1] = NULL /\ Len(prev) = 1
  BY <1>2
<1>4. Len(nodes) = 0 /\ Len(open) = 0 /\ Node = {}
  BY <1>2 DEF Node
<1>5. TypeOK
  <2>1. locals \in Seq([Key -> Nat])
    <3> HIDE DEF EmptyTable
    <3> QED
      BY <1>1, <1>2
  <2>2. prev \in Seq(Nat)
    BY <1>2 DEF NULL
  <2> QED
    BY <1>2, <1>3, <2>1, <2>2 DEF TypeOK
<1>6. Nested
  BY <1>2, <1>3, <1>4 DEF Nested
<1>7. Filed /\ Apart
  BY <1>4 DEF Filed, Apart
<1>8. Tables
  <2> SUFFICES ASSUME NEW name \in Names
               PROVE /\ \A s \in 2 .. Len(locals) : IsNewest(locals[s][Plain(name)], LocalsOf(s, name))
                     /\ name # Main =>
                          \A f \in Files : IsNewest(locals[1][<<f, name>>], OwnOf(f, name))
                     /\ IsNewest(locals[1][Plain(name)], SharedAs(name))
    BY DEF Tables
  <2>1. SharedAs(name) = {} /\ \A f : OwnOf(f, name) = {}
    BY <1>4 DEF SharedAs, OwnOf
  <2>2. Plain(name) \in Key /\ \A f \in Files : <<f, name>> \in Key
    BY DEF Plain, Key
  <2> QED
    BY <1>3, <2>1, <2>2 DEF IsNewest, EmptyTable
<1> QED
  BY <1>5, <1>6, <1>7, <1>8 DEF Inv

(* What is declared where the walk is, and may be put into its scope.      *)
LEMMA Declarations ==
  ASSUME Inv, InFile, NEW kind \in {"function", "extern"} \cup Local, NEW name \in Names
  PROVE /\ Declaration(kind, name) \in Entry
        /\ Declaration(kind, name).file = module_path
        /\ Declaration(kind, name).region = open[Len(open)]
        /\ Declaration(kind, name).kind = kind /\ Declaration(kind, name).name = name
        /\ open # <<>> /\ module_path \in Files /\ current_scope = open[Len(open)]
        /\ current_scope \in Scope /\ global_scope \in Scope /\ Plain(name) \in Key
<1>1. open # <<>> /\ open \in Seq(2 .. Len(locals)) /\ Len(locals) \in Nat /\ Len(locals) >= 1
  BY DEF InFile, Inv, TypeOK
<1>2. Len(open) \in 1 .. Len(open)
  BY <1>1
<1>3. open[Len(open)] \in 2 .. Len(locals)
  BY <1>1, <1>2
<1>4. open[Len(open)] \in Nat /\ open[Len(open)] \in Scope /\ global_scope \in Scope
  BY <1>1, <1>3 DEF Scope, global_scope
<1>5. module_path \in Files /\ current_scope = open[Len(open)]
  BY <1>1 DEF Inv, Nested
<1>6. Declaration(kind, name) \in Entry
  BY <1>4, <1>5 DEF Declaration, Entry
<1>7. Plain(name) \in Key
  BY DEF Plain, Key
<1> QED
  BY <1>1, <1>4, <1>5, <1>6, <1>7 DEF Declaration

(* What stands outside of functions stands in a file. *)
LEMMA FileIsWalked == ASSUME AtFileLevel PROVE InFile
<1>1. Running /\ Len(open) = 1
  BY DEF AtFileLevel
<1>2. ASSUME open = <<>> PROVE FALSE
  <2>1. Len(open) = 0
    BY <1>2
  <2> QED
    BY <1>1, <2>1
<1> QED
  BY <1>1, <1>2 DEF InFile

(* A step that declares something in or from the current scope.            *)
Declares(D, s) ==
  /\ D \in Entry /\ D.file = module_path /\ D.region = open[Len(open)]
  /\ nodes' = Append(nodes, D) /\ Put(s, Plain(D.name)) /\ s \in Scope
  /\ open # <<>> /\ (D.kind = "file" => D.target \in Files)
  /\ \/ D.kind \in Local /\ s = D.region
     \/ D.kind = "extern" /\ s = global_scope
  /\ UNCHANGED <<prev, current_scope, module_path, file_scope, open>>

(* A declaration keeps the invariant. *)
LEMMA DeclaresInv == ASSUME Inv, NEW D, NEW s, Declares(D, s) PROVE Inv'
<1>1. /\ D \in Entry /\ s \in Scope
      /\ UNCHANGED <<prev, current_scope, module_path, file_scope, open>>
  BY DEF Declares
<1>2. D.name \in Names
  BY <1>1 DEF Entry
<1>3. Plain(D.name) \in Key
  BY <1>2 DEF Plain, Key
<1>4. Belongs(D, s, Plain(D.name))
  BY DEF Declares, Belongs
<1> QED
  BY <1>1, <1>3, <1>4, DeclaresKeeps DEF Declares

(* The three statements that declare one thing: an import, an extern, a match. *)
LEMMA ImportDeclares ==
  ASSUME Inv, NEW g \in Files, parse_import(g)
  PROVE \E D, s : Declares(D, s) /\ D.kind = "file"
<1> DEFINE B == Declaration("file", Base[g])
           D == [B EXCEPT !.target = g]
<1>1. AtFileLevel /\ Base[g] \in Names
  BY NamesAssumption DEF parse_import
<1>2. /\ B \in Entry /\ B.file = module_path /\ B.region = open[Len(open)]
      /\ B.kind = "file" /\ B.name = Base[g]
      /\ open # <<>> /\ current_scope = open[Len(open)] /\ current_scope \in Scope
  BY <1>1, FileIsWalked, Declarations DEF Local
<1>3. nodes' = Append(nodes, D) /\ Put(current_scope, Plain(Base[g]))
      /\ UNCHANGED <<prev, current_scope, module_path, file_scope, open>>
  BY DEF parse_import
<1> HIDE DEF B
<1>4. /\ D \in Entry /\ D.file = B.file /\ D.region = B.region /\ D.kind = B.kind
      /\ D.name = B.name /\ D.target = g
  BY <1>2 DEF Entry
<1> HIDE DEF D
<1>5. Declares(D, current_scope)
  BY <1>2, <1>3, <1>4 DEF Declares, Local
<1> QED
  BY <1>2, <1>4, <1>5

LEMMA ExternDeclares ==
  ASSUME Inv, NEW name \in Names, parse_function_external(name)
  PROVE \E D, s : Declares(D, s) /\ D.kind = "extern"
<1> DEFINE D == Declaration("extern", name)
<1>1. /\ D \in Entry /\ D.file = module_path /\ D.region = open[Len(open)]
      /\ D.kind = "extern" /\ D.name = name /\ open # <<>> /\ global_scope \in Scope
  <2>1. InFile
    BY FileIsWalked DEF parse_function_external
  <2> QED
    BY <2>1, Declarations
<1>2. /\ nodes' = Append(nodes, D) /\ Put(global_scope, Plain(name))
      /\ UNCHANGED <<prev, current_scope, module_path, file_scope, open>>
  BY DEF parse_function_external, resolve_identifier
<1> HIDE DEF D
<1>3. Declares(D, global_scope)
  BY <1>1, <1>2 DEF Declares
<1> QED
  BY <1>1, <1>3

LEMMA MatchDeclares ==
  ASSUME Inv, NEW name \in Names, parse_match(name)
  PROVE \E D, s : Declares(D, s) /\ D.kind = "match"
<1> DEFINE D == Declaration("match", name)
<1>1. /\ D \in Entry /\ D.file = module_path /\ D.region = open[Len(open)]
      /\ D.kind = "match" /\ D.name = name /\ open # <<>>
      /\ current_scope = open[Len(open)] /\ current_scope \in Scope
  <2>1. InFile
    BY DEF parse_match
  <2> QED
    BY <2>1, Declarations DEF Local
<1>2. /\ nodes' = Append(nodes, D) /\ Put(current_scope, Plain(name))
      /\ UNCHANGED <<prev, current_scope, module_path, file_scope, open>>
  BY DEF parse_match
<1> HIDE DEF D
<1>3. Declares(D, current_scope)
  BY <1>1, <1>2 DEF Declares, Local
<1> QED
  BY <1>1, <1>3

(* An assignment declares only a name that stands for nothing.             *)
LEMMA AssignmentDeclares ==
  ASSUME Inv, NEW name \in Names, NEW typed \in BOOLEAN, parse_assignment(name, typed)
  PROVE \/ \E D, s : /\ Declares(D, s) /\ D.kind = "assignment"
                    /\ InFile /\ Declared(D.name) = NULL
        \/ UNCHANGED <<tables, current_scope, module_path, open>>
<1> DEFINE B == Declaration("assignment", name)
           D == [B EXCEPT !.typed = typed]
<1>1. InFile /\ UNCHANGED <<prev, current_scope, module_path, file_scope, open>>
  BY DEF parse_assignment
<1>2. CASE UNCHANGED <<nodes, locals>>
  BY <1>1, <1>2 DEF tables
<1>3. CASE Declared(name) = NULL /\ nodes' = Append(nodes, D) /\ Put(current_scope, Plain(name))
  <2>1. /\ B \in Entry /\ B.file = module_path /\ B.region = open[Len(open)]
        /\ B.kind = "assignment" /\ B.name = name
        /\ open # <<>> /\ current_scope = open[Len(open)] /\ current_scope \in Scope
    BY <1>1, Declarations DEF Local
  <2> HIDE DEF B
  <2>2. /\ D \in Entry /\ D.file = B.file /\ D.region = B.region /\ D.kind = B.kind
        /\ D.name = B.name
    BY <2>1 DEF Entry
  <2>3. nodes' = Append(nodes, D)
    BY <1>3
  <2> HIDE DEF D
  <2>4. Declares(D, current_scope)
    BY <1>1, <1>3, <2>1, <2>2, <2>3 DEF Declares, Local
  <2> QED
    BY <1>1, <1>3, <2>1, <2>2, <2>4
<1> QED
  BY <1>2, <1>3 DEF parse_assignment

(* A file or a block is entered. *)
LEMMA FileEnters ==
  ASSUME Inv, NEW f \in Files, parse_file_node(f)
  PROVE Enters /\ locals' = Append(locals, EmptyTable) /\ nodes' = nodes
<1>1. current_scope = global_scope /\ open = <<>>
  BY DEF parse_file_node, Inv, Nested
<1> QED
  BY <1>1 DEF parse_file_node, create_scope, Enters

(* A block opens an empty scope, and the end of a file or of a scope closes one. *)
LEMMA BlockEnters ==
  ASSUME parse_block
  PROVE Enters /\ locals' = Append(locals, EmptyTable) /\ nodes' = nodes
BY DEF parse_block, create_scope, Enters, InFile

LEMMA FileLeaves == ASSUME file_ends PROVE Leaves
<1>1. open # <<>>
  BY FileIsWalked DEF file_ends, InFile
<1> QED
  BY <1>1 DEF file_ends, AtFileLevel, Leaves

LEMMA ScopeLeaves == ASSUME Inv, scope_ends PROVE Leaves
<1>1. open # <<>> /\ Len(open) > 1 /\ leave_scope /\ UNCHANGED <<tables, module_path>>
  BY DEF scope_ends, InFile
<1>2. Len(open) > 1
  BY DEF scope_ends
<1>3. ASSUME Len(open) = 1 PROVE FALSE
  <2>1. ~(1 > 1)
    OBVIOUS
  <2> QED
    BY <1>2, <1>3, <2>1
<1> QED
  BY <1>1, <1>3 DEF Leaves

(* Every step declares, enters, leaves, or only reads. *)
DeclaresOne == \E D, s : /\ Declares(D, s)
                         /\ D.kind = "assignment" => InFile /\ Declared(D.name) = NULL
EntersEmpty == Enters /\ locals' = Append(locals, EmptyTable) /\ nodes' = nodes
DeclaresFunction ==
  \E name \in Names, parameters \in Seq(Names) : parse_function(name, parameters)
OnlyReads == UNCHANGED <<tables, current_scope, module_path, open>>
Step == DeclaresOne \/ EntersEmpty \/ DeclaresFunction \/ Leaves \/ OnlyReads

(* Every action of the resolver is one of five kinds of step. *)
LEMMA Steps == ASSUME Inv, [Next]_vars PROVE Step
<1>1. ASSUME NEW f \in Files, parse_file_node(f) PROVE Step
  BY <1>1, FileEnters DEF Step, EntersEmpty
<1>2. ASSUME NEW f \in Files, parse_import(f) PROVE Step
  BY <1>2, ImportDeclares DEF Step, DeclaresOne, OnlyReads
<1>3. CASE file_ends
  BY <1>3, FileLeaves DEF Step
<1>4. CASE parse_block
  BY <1>4, BlockEnters DEF Step, EntersEmpty
<1>5. CASE scope_ends
  BY <1>5, ScopeLeaves DEF Step
<1>6. ASSUME NEW name \in Names, NEW parameters \in ParameterLists, parse_function(name, parameters)
      PROVE Step
  <2>1. PICK n \in 0 .. MaxParameters : parameters \in [1 .. n -> Names]
    BY DEF ParameterLists
  <2>2. n \in Nat
    BY <2>1, NamesAssumption
  <2>3. parameters \in Seq(Names)
    BY <2>1, <2>2, SeqDef
  <2> QED
    BY <1>6, <2>3 DEF Step, DeclaresFunction
<1>7. ASSUME NEW name \in Names, parse_function_external(name) PROVE Step
  BY <1>7, ExternDeclares DEF Step, DeclaresOne, OnlyReads
<1>8. ASSUME NEW name \in Names, NEW typed \in BOOLEAN, parse_assignment(name, typed) PROVE Step
  BY <1>8, AssignmentDeclares DEF Step, DeclaresOne, OnlyReads
<1>9. ASSUME NEW name \in Names, parse_match(name) PROVE Step
  BY <1>9, MatchDeclares DEF Step, DeclaresOne, OnlyReads
<1>10. ASSUME NEW name \in Names, parse_variable(name) PROVE Step
  BY <1>10 DEF Step, OnlyReads, parse_variable
<1>11. ASSUME NEW name \in Names, accessor_crashes(name) PROVE Step
  BY <1>11 DEF Step, OnlyReads, accessor_crashes
<1>12. ASSUME NEW name \in Names, NEW right \in Names, parse_accessor(name, right) PROVE Step
  BY <1>12 DEF Step, OnlyReads, parse_accessor
<1>13. CASE UNCHANGED vars
  BY <1>13 DEF Step, OnlyReads, vars
<1> QED
  BY <1>1, <1>2, <1>3, <1>4, <1>5, <1>6, <1>7, <1>8, <1>9, <1>10, <1>11, <1>12, <1>13 DEF Next

(* A step that only reads keeps the invariant. *)
LEMMA NothingKeeps ==
  ASSUME Inv, UNCHANGED <<tables, current_scope, module_path, open>> PROVE Inv'
<1>1. /\ nodes' = nodes /\ locals' = locals /\ prev' = prev /\ file_scope' = file_scope
      /\ current_scope' = current_scope /\ module_path' = module_path /\ open' = open
  BY DEF tables
<1>2. Node' = Node
  BY <1>1 DEF Node
<1>3. TypeOK' /\ Nested' /\ Apart'
  BY <1>1 DEF Inv, TypeOK, Nested, Apart
<1>4. Filed'
  BY <1>1, <1>2 DEF Inv, Filed
<1>5. Tables'
  <2>1. /\ \A s, x : LocalsOf(s, x)' = LocalsOf(s, x)
        /\ \A f, x : OwnOf(f, x)' = OwnOf(f, x)
        /\ \A x : SharedAs(x)' = SharedAs(x)
    BY <1>1, <1>2 DEF LocalsOf, OwnOf, SharedAs
  <2> QED
    BY <1>1, <2>1 DEF Inv, Tables
<1> QED
  BY <1>3, <1>4, <1>5 DEF Inv

(* Each kind of step keeps the invariant. *)
LEMMA StepInv == ASSUME Inv, Step PROVE Inv'
<1>1. CASE DeclaresOne
  BY <1>1, DeclaresInv DEF DeclaresOne
<1>2. CASE EntersEmpty
  BY <1>2, EmptyEntered DEF EntersEmpty
<1>3. CASE DeclaresFunction
  BY <1>3, FunctionKeeps DEF DeclaresFunction
<1>4. CASE Leaves
  BY <1>4, LeavesKeeps
<1>5. CASE OnlyReads
  BY <1>5, NothingKeeps DEF OnlyReads
<1> QED
  BY <1>1, <1>2, <1>3, <1>4, <1>5 DEF Step

(* The invariant behind the properties below.                              *)
THEOREM Invariance == Spec => []Inv
<1>1. Inv /\ [Next]_vars => Inv'
  BY Steps, StepInv
<1> QED
  BY <1>1, InitInv, PTL DEF Spec
-----------------------------------------------------------------------------
(* What a reader expects is a declaration of the name.                     *)
Meant(d, name, file, regions) ==
  \/ \E k \in 1 .. Len(regions) : d \in LocalsOf(regions[k], name)
  \/ name # Main /\ d \in OwnOf(file, name)
  \/ d \in SharedAs(name)

(* The declaration that the text says a name means is a visible one of that name. *)
LEMMA ExpectedIsMeant ==
  ASSUME Inv, NEW name \in Names, NEW file, NEW regions, NEW t, regions \in Seq(t),
         Expected(name, file, regions) # NULL
  PROVE Meant(Expected(name, file, regions), name, file, regions)
<1> DEFINE named == {d \in Node : nodes[d].name = name}
           within(k) == {d \in named : /\ nodes[d].kind \in Local
                                       /\ nodes[d].region = regions[k]}
           inner == {k \in DOMAIN regions : within(k) # {}}
           own == {d \in named : /\ nodes[d].kind = "function"
                                 /\ nodes[d].file = file /\ name # Main}
           shared == {d \in named : \/ nodes[d].kind = "extern"
                                    \/ (nodes[d].kind = "function" /\ name = Main)}
           m == CHOOSE k \in inner : \A j \in inner : j <= k
           x == Expected(name, file, regions)
<1>1. Expected(name, file, regions) =
        IF inner # {} THEN Newest(within(m))
        ELSE IF own # {} THEN Newest(own) ELSE Newest(shared)
  BY DEF Expected
<1>2. ASSUME NEW S, S \in SUBSET (1 .. Len(nodes)), Newest(S) # NULL PROVE Newest(S) \in S
  <2>1. S # {} /\ Len(nodes) \in Nat
    BY <1>2, SetsBounded DEF Newest, Inv
  <2>2. \E d \in S : \A e \in S : e <= d
    BY <1>2, <2>1, Greatest
  <2> QED
    BY <2>1, <2>2 DEF Newest
<1>3. DOMAIN regions = 1 .. Len(regions) /\ Len(regions) \in Nat
  OBVIOUS
<1>4. /\ \A k : within(k) = LocalsOf(regions[k], name)
      /\ shared = SharedAs(name) /\ own = IF name = Main THEN {} ELSE OwnOf(file, name)
  BY DEF LocalsOf, SharedAs, OwnOf
<1>5. /\ \A k : within(k) \in SUBSET (1 .. Len(nodes))
      /\ own \in SUBSET (1 .. Len(nodes)) /\ shared \in SUBSET (1 .. Len(nodes))
  BY DEF Node
<1>6. CASE inner # {}
  <2>1. inner \in SUBSET (1 .. Len(regions))
    BY <1>3
  <2>2. m \in inner
    <3> HIDE DEF inner
    <3>1. \E k \in inner : \A j \in inner : j <= k
      BY <1>3, <1>6, <2>1, Greatest
    <3> QED
      BY <3>1
  <2> HIDE DEF m, within
  <2>3. m \in 1 .. Len(regions)
    BY <2>1, <2>2
  <2>4. x \in within(m)
    BY <1>1, <1>2, <1>5, <1>6
  <2> QED
    BY <2>3, <2>4, <1>4 DEF Meant
<1>7. CASE inner = {} /\ own # {}
  <2> HIDE DEF inner, own, m, shared
  <2>1. x \in own
    BY <1>1, <1>2, <1>5, <1>7
  <2> QED
    BY <2>1, <1>4 DEF Meant
<1>8. CASE inner = {} /\ own = {}
  <2> HIDE DEF inner, own, m, shared
  <2>1. x \in shared
    BY <1>1, <1>2, <1>5, <1>8
  <2> QED
    BY <2>1, <1>4 DEF Meant
<1> QED
  BY <1>6, <1>7, <1>8

(* A plain name is looked up from the innermost construct around the walk. *)
LEMMA DeclaredExpected ==
  ASSUME Inv, InFile, NEW name \in Names
  PROVE /\ Declared(name) = Expected(name, module_path, open)
        /\ open \in Seq(2 .. Len(locals)) /\ module_path \in Files
<1>1. /\ open # <<>> /\ open \in Seq(2 .. Len(locals)) /\ module_path \in Files
      /\ current_scope = open[Len(open)]
  BY DEF InFile, Inv, TypeOK, Nested
<1>2. Chain(open)
  BY DEF Inv, TypeOK, Nested, Chain
<1>3. lookup_identifier(module_path, name, IF open = <<>> THEN NULL ELSE open[Len(open)])
        = Expected(name, module_path, open)
  BY <1>1, <1>2, LookupExpected
<1> QED
  BY <1>1, <1>3 DEF Declared

(* A member is looked up at the top of its file.                           *)
Top(f) == IF file_scope[f] = NULL THEN <<>> ELSE <<file_scope[f]>>

(* A member is found where the text of its file says it is. *)
LEMMA MemberExpected ==
  ASSUME Inv, NEW f \in Files, NEW right \in Names
  PROVE /\ lookup_identifier(f, right, file_scope[f]) = Expected(right, f, Top(f))
        /\ Top(f) \in Seq(2 .. Len(locals))
<1>1. file_scope[f] \in {NULL} \cup 2 .. Len(locals)
  BY DEF Inv, TypeOK
<1>2. CASE file_scope[f] = NULL
  <2>1. Top(f) = <<>> /\ Top(f) \in Seq(2 .. Len(locals)) /\ Len(Top(f)) = 0
    BY <1>2 DEF Top
  <2>2. Chain(Top(f))
    BY <2>1 DEF Chain
  <2>3. OwnOf(f, right) = {}
    BY <1>2 DEF Inv, Filed, FiledAs, OwnOf
  <2>4. lookup_identifier(f, right, IF Top(f) = <<>> THEN NULL ELSE Top(f)[Len(Top(f))])
          = Expected(right, f, Top(f))
    BY <2>2, <2>3, LookupExpected
  <2> QED
    BY <2>1, <2>4, <1>2
<1>3. CASE file_scope[f] # NULL
  <2>1. /\ Top(f) = <<file_scope[f]>> /\ Top(f) \in Seq(2 .. Len(locals)) /\ Len(Top(f)) = 1
        /\ Top(f) # <<>> /\ Top(f)[1] = file_scope[f]
    BY <1>1, <1>3 DEF Top
  <2>2. Chain(Top(f))
    BY <2>1, <1>3 DEF Chain, Inv, Nested
  <2>3. lookup_identifier(f, right, IF Top(f) = <<>> THEN NULL ELSE Top(f)[Len(Top(f))])
          = Expected(right, f, Top(f))
    BY <2>1, <2>2, LookupExpected
  <2> QED
    BY <2>1, <2>3
<1> QED
  BY <1>2, <1>3

(* What a name stands for is a declaration, of the file unless it is shared. *)
LEMMA DeclaredMeant ==
  ASSUME Inv, InFile, NEW name \in Names, Declared(name) # NULL
  PROVE /\ Declared(name) \in Node
        /\ Shared(Declared(name)) \/ nodes[Declared(name)].file = module_path
        /\ nodes[Declared(name)].kind = "file" => nodes[Declared(name)].target \in Files
<1> DEFINE d == Declared(name)
<1>1. Meant(d, name, module_path, open)
  BY DeclaredExpected, ExpectedIsMeant
<1> HIDE DEF d
<1>2. ASSUME NEW k \in 1 .. Len(open), d \in LocalsOf(open[k], name)
      PROVE d \in Node /\ nodes[d].file = module_path
  BY <1>2 DEF LocalsOf, Inv, Filed, FiledAs
<1>3. d \in OwnOf(module_path, name) => d \in Node /\ nodes[d].file = module_path
  BY DEF OwnOf
<1>4. d \in SharedAs(name) => d \in Node /\ Shared(d)
  BY DEF SharedAs, Shared
<1>5. d \in Node /\ (Shared(d) \/ nodes[d].file = module_path)
  BY <1>1, <1>2, <1>3, <1>4 DEF Meant
<1>6. nodes[d].kind = "file" => nodes[d].target \in Files
  BY <1>5 DEF Inv, Filed, FiledAs
<1> QED
  BY <1>5, <1>6 DEF d

(* Every name a file uses stands for the declaration that the text of the  *)
(* program puts closest around it, and every member of an imported file    *)
(* for that file's, whichever files were walked before and however the     *)
(* scopes were entered and left.                                           *)
THEOREM BindingIsLexical == Spec => []LexicalBinding
<1>1. Inv => LexicalBinding
  <2> SUFFICES ASSUME Inv, InFile, NEW name \in Names
               PROVE /\ Declared(name) = Expected(name, module_path, open)
                     /\ Declared(name) # NULL /\ nodes[Declared(name)].kind = "file" =>
                          \A right \in Names :
                            Member(name, right) =
                              Expected(right, nodes[Declared(name)].target,
                                       Top(nodes[Declared(name)].target))
    BY DEF LexicalBinding, Top
  <2>1. Declared(name) = Expected(name, module_path, open)
    BY DeclaredExpected
  <2>2. ASSUME Declared(name) # NULL, nodes[Declared(name)].kind = "file", NEW right \in Names
        PROVE Member(name, right) = Expected(right, nodes[Declared(name)].target,
                                             Top(nodes[Declared(name)].target))
    <3>1. nodes[Declared(name)].target \in Files
      BY <2>2, DeclaredMeant
    <3> QED
      BY <3>1, MemberExpected DEF Member
  <2> QED
    BY <2>1, <2>2
<1> QED
  BY <1>1, Invariance, PTL

(* A file gets at nothing that is local to another file, and at functions  *)
(* of another file only through an accessor that names it.                 *)
THEOREM FilesArePrivate == Spec => []Private
<1>1. Inv => Private
  <2> SUFFICES ASSUME Inv, InFile, NEW name \in Names, Declared(name) # NULL
               PROVE /\ Shared(Declared(name)) \/ nodes[Declared(name)].file = module_path
                     /\ nodes[Declared(name)].kind = "file" => \A right \in Names :
                          Member(name, right) # NULL =>
                            \/ Shared(Member(name, right))
                            \/ /\ nodes[Member(name, right)].file = nodes[Declared(name)].target
                               /\ nodes[Member(name, right)].region =
                                    file_scope[nodes[Member(name, right)].file]
    BY DEF Private
  <2>1. Shared(Declared(name)) \/ nodes[Declared(name)].file = module_path
    BY DeclaredMeant
  <2>2. ASSUME nodes[Declared(name)].kind = "file", NEW right \in Names, Member(name, right) # NULL
        PROVE \/ Shared(Member(name, right))
              \/ /\ nodes[Member(name, right)].file = nodes[Declared(name)].target
                 /\ nodes[Member(name, right)].region = file_scope[nodes[Member(name, right)].file]
    <3>1. PICK f \in Files : f = nodes[Declared(name)].target
      BY <2>2, DeclaredMeant
    <3>2. PICK e : e = Member(name, right)
      OBVIOUS
    <3>3. e = Expected(right, f, Top(f)) /\ Top(f) \in Seq(2 .. Len(locals)) /\ e # NULL
      BY <2>2, <3>1, <3>2, MemberExpected DEF Member
    <3>4. Meant(e, right, f, Top(f))
      BY <3>3, ExpectedIsMeant
    <3>5. ASSUME NEW k \in 1 .. Len(Top(f)), e \in LocalsOf(Top(f)[k], right)
          PROVE nodes[e].file = f /\ nodes[e].region = file_scope[f]
      <4>1. Top(f)[k] = file_scope[f]
        BY <3>5 DEF Top
      <4>2. e \in Node /\ nodes[e].region = file_scope[f]
        BY <3>5, <4>1 DEF LocalsOf
      <4>3. FiledAs(nodes[e], file_scope, Len(locals), open, module_path)
        BY <4>2 DEF Inv, Filed
      <4> QED
        BY <4>2, <4>3 DEF FiledAs
    <3>6. e \in OwnOf(f, right) => nodes[e].file = f /\ nodes[e].region = file_scope[f]
      <4> SUFFICES ASSUME e \in OwnOf(f, right)
                   PROVE nodes[e].file = f /\ nodes[e].region = file_scope[f]
        OBVIOUS
      <4>1. e \in Node /\ nodes[e].kind = "function" /\ nodes[e].file = f
        BY DEF OwnOf
      <4>2. FiledAs(nodes[e], file_scope, Len(locals), open, module_path)
        BY <4>1 DEF Inv, Filed
      <4> QED
        BY <4>1, <4>2 DEF FiledAs
    <3>7. e \in SharedAs(right) => Shared(e)
      BY DEF SharedAs, Shared
    <3> QED
      BY <3>1, <3>2, <3>4, <3>5, <3>6, <3>7 DEF Meant
  <2> QED
    BY <2>1, <2>2
<1> QED
  BY <1>1, Invariance, PTL

(* A name that nothing is found for has no declaration around the walk.    *)
LEMMA NothingAround ==
  ASSUME Inv, InFile, NEW name \in Names, Declared(name) = NULL, NEW j \in 1 .. Len(open)
  PROVE LocalsOf(open[j], name) = {}
<1> DEFINE inner == {k \in 1 .. Len(open) : LocalsOf(open[k], name) # {}}
<1>1. /\ Chain(open) /\ Len(open) \in Nat /\ module_path \in Files
      /\ current_scope = open[Len(open)] /\ Len(open) \in 1 .. Len(open)
      /\ \A k \in 1 .. Len(open) : open[k] \in 2 .. Len(locals)
  <2>1. open # <<>> /\ open \in Seq(2 .. Len(locals))
    BY DEF InFile, Inv, TypeOK
  <2>2. Chain(open)
    BY DEF Inv, TypeOK, Nested, Chain
  <2>3. module_path \in Files /\ current_scope = open[Len(open)]
    BY <2>1 DEF Inv, Nested
  <2> QED
    BY <2>1, <2>2, <2>3
<1>2. SUFFICES ASSUME inner # {} PROVE FALSE
  OBVIOUS
<1>3. PICK m \in inner : \A k \in inner : k <= m
  <2>1. inner \in SUBSET (1 .. Len(open))
    OBVIOUS
  <2> HIDE DEF inner
  <2> QED
    BY <1>1, <1>2, <2>1, Greatest
<1>4. \A k \in 1 .. Len(open) : IsNewest(locals[open[k]][Plain(name)], LocalsOf(open[k], name))
  BY <1>1 DEF Inv, Tables
<1>5. locals[open[m]][Plain(name)] # NULL
  BY <1>4 DEF IsNewest, LocalsOf, Node, NULL
<1>6. \A i \in m + 1 .. Len(open) : locals[open[i]][Plain(name)] = NULL
  <2> SUFFICES ASSUME NEW i \in m + 1 .. Len(open) PROVE locals[open[i]][Plain(name)] = NULL
    OBVIOUS
  <2>1. i \in 1 .. Len(open) /\ ~(i <= m)
    BY <1>1
  <2>2. LocalsOf(open[i], name) = {}
    BY <2>1, <1>3
  <2> QED
    BY <2>1, <2>2, <1>4 DEF IsNewest
<1>7. Walk(module_path, name)[open[Len(open)]] = locals[open[m]][Plain(name)]
  <2>1. Outwards(module_path, name, open, Len(open))
    BY <1>1, WalkChain
  <2> QED
    BY <2>1, <1>5, <1>6 DEF Outwards
<1>8. Declared(name) = locals[open[m]][Plain(name)]
  BY <1>1, <1>5, <1>7 DEF Declared, lookup_identifier
<1> QED
  BY <1>5, <1>8

(* No variable is in a scope around the walk that has, or is inside a      *)
(* scope that has, an older declaration of its name.                       *)
Hides(d, e) ==
  /\ e < d /\ nodes[d].kind = "assignment" /\ nodes[e].kind \in Local
  /\ nodes[d].name = nodes[e].name
  /\ \E j, k \in DOMAIN open : nodes[d].region = open[k] /\ nodes[e].region = open[j] /\ j <= k

(* No variable is shadowed if none is hidden. *)
LEMMA NoneHidden == NoShadowing <=> \A d, e \in Node : ~Hides(d, e)
BY DEF NoShadowing, Hides

(* A declaration shadows nothing: an assignment declares only names it did not find. *)
LEMMA ShadowDeclares ==
  ASSUME Inv, NoShadowing, NEW D, NEW s, Declares(D, s),
         D.kind = "assignment" => InFile /\ Declared(D.name) = NULL
  PROVE NoShadowing'
<1>1. /\ D \in Entry /\ nodes' = Append(nodes, D) /\ open' = open
      /\ open \in Seq(2 .. Len(locals))
  BY DEF Declares, Inv, TypeOK
<1>2. /\ Len(nodes) \in Nat /\ nodes'[Len(nodes) + 1] = D
      /\ Node' = Node \cup {Len(nodes) + 1} /\ \A d \in Node : nodes'[d] = nodes[d]
      /\ \A d \in Node : d < Len(nodes) + 1
  BY <1>1, Declared1 DEF Inv, Node
<1>3. ASSUME NEW d \in Node', NEW e \in Node', Hides(d, e)' PROVE FALSE
  <2>1. /\ e < d /\ nodes'[d].kind = "assignment" /\ nodes'[e].kind \in Local
        /\ nodes'[d].name = nodes'[e].name
        /\ \E j, k \in DOMAIN open :
             nodes'[d].region = open[k] /\ nodes'[e].region = open[j] /\ j <= k
    BY <1>1, <1>3 DEF Hides
  <2>2. e \in Node
    BY <1>2, <1>3, <2>1 DEF Node
  <2>3. CASE d \in Node
    <3>1. Hides(d, e)
      BY <1>2, <2>1, <2>2, <2>3 DEF Hides
    <3> QED
      BY <3>1, <2>2, <2>3, NoneHidden
  <2>4. CASE d = Len(nodes) + 1
    <3>1. D.kind = "assignment" /\ D.name \in Names /\ InFile /\ Declared(D.name) = NULL
      BY <1>1, <1>2, <2>1, <2>4 DEF Entry
    <3>2. PICK j \in DOMAIN open : nodes[e].region = open[j]
      BY <1>2, <2>1, <2>2
    <3>3. j \in 1 .. Len(open)
      BY <1>1
    <3>4. e \in LocalsOf(open[j], D.name)
      BY <1>2, <2>1, <2>2, <2>4, <3>2 DEF LocalsOf
    <3> QED
      BY <3>1, <3>3, <3>4, NothingAround
  <2> QED
    BY <1>2, <2>3, <2>4
<1> QED
  BY <1>3 DEF NoShadowing, Hides

(* What is open in the new state was open before, or has no variable.      *)
LEMMA ShadowKeeps ==
  ASSUME Inv, NoShadowing,
         \A d \in Node : d \in Node' /\ nodes'[d] = nodes[d],
         \A d \in Node' : d \in Node \/ nodes'[d].kind # "assignment",
         \A d \in Node', e \in Node : d < e => d \in Node,
         open' \in Seq(Nat),
         \A d \in Node : \A k \in 1 .. Len(open') :
           nodes[d].region = open'[k] =>
             \A j \in 1 .. k : j \in 1 .. Len(open) /\ open[j] = open'[j]
  PROVE NoShadowing'
<1>1. DOMAIN open' = 1 .. Len(open') /\ DOMAIN open = 1 .. Len(open)
  BY DEF Inv, TypeOK
<1>2. ASSUME NEW d \in Node', NEW e \in Node', Hides(d, e)' PROVE FALSE
  <2>1. /\ e < d /\ nodes'[d].kind = "assignment" /\ nodes'[e].kind \in Local
        /\ nodes'[d].name = nodes'[e].name
    BY <1>2 DEF Hides
  <2>2. PICK j \in DOMAIN open', k \in DOMAIN open' :
          nodes'[d].region = open'[k] /\ nodes'[e].region = open'[j] /\ j <= k
    BY <1>2 DEF Hides
  <2>3. d \in Node
    BY <1>2, <2>1
  <2>4. e \in Node
    BY <1>2, <2>1, <2>3
  <2>5. j \in 1 .. k /\ k \in 1 .. k /\ k \in 1 .. Len(open')
    BY <1>1, <2>2
  <2>6. /\ j \in DOMAIN open /\ k \in DOMAIN open /\ open[j] = open'[j] /\ open[k] = open'[k]
    BY <1>1, <2>2, <2>3, <2>5
  <2>7. Hides(d, e)
    BY <2>1, <2>2, <2>3, <2>4, <2>6 DEF Hides
  <2> QED
    BY <2>3, <2>4, <2>7, NoneHidden
<1> QED
  BY <1>2 DEF NoShadowing, Hides

(* Opening a scope shadows nothing. *)
LEMMA ShadowEnters ==
  ASSUME Inv, NoShadowing, Enters,
         \A d \in Node : d \in Node' /\ nodes'[d] = nodes[d],
         \A d \in Node' : d \in Node \/ nodes'[d].kind # "assignment",
         \A d \in Node', e \in Node : d < e => d \in Node
  PROVE NoShadowing'
<1>1. /\ open \in Seq(2 .. Len(locals)) /\ Len(open) \in Nat /\ Len(locals) \in Nat
      /\ \A k \in 1 .. Len(open) : open[k] \in Nat
  BY DEF Inv, TypeOK
<1>2. /\ open' \in Seq(Nat) /\ Len(open') = Len(open) + 1 /\ open'[Len(open) + 1] = Len(locals) + 1
      /\ \A k \in 1 .. Len(open) : open'[k] = open[k]
  <2>1. open \in Seq(Nat) /\ Len(locals) + 1 \in Nat
    BY <1>1
  <2>2. open' = Append(open, Len(locals) + 1)
    BY DEF Enters
  <2> QED
    BY <1>1, <2>1, <2>2
<1>3. ASSUME NEW d \in Node, NEW k \in 1 .. Len(open'), nodes[d].region = open'[k], NEW j \in 1 .. k
      PROVE j \in 1 .. Len(open) /\ open[j] = open'[j]
  <2>1. nodes[d].region \in 2 .. Len(locals)
    BY DEF Inv, Filed, FiledAs
  <2>2. k # Len(open) + 1
    BY <1>1, <1>2, <1>3, <2>1
  <2>3. j \in 1 .. Len(open)
    BY <1>1, <1>2, <2>2
  <2> QED
    BY <2>3, <1>2
<1> QED
  BY <1>2, <1>3, ShadowKeeps

(* No step shadows anything. *)
LEMMA ShadowStep == ASSUME Inv, NoShadowing, Step PROVE NoShadowing'
<1>1. CASE DeclaresOne
  BY <1>1, ShadowDeclares DEF DeclaresOne
<1>2. CASE EntersEmpty
  <2>1. Node' = Node /\ nodes' = nodes /\ Enters
    BY <1>2 DEF Node, EntersEmpty
  <2> QED
    BY <2>1, ShadowEnters
<1>3. CASE DeclaresFunction
  <2>1. PICK name \in Names, parameters \in Seq(Names) : parse_function(name, parameters)
    BY <1>3 DEF DeclaresFunction
  <2>2. PICK m : m = Len(nodes)
    OBVIOUS
  <2>3. PICK p : p = Len(parameters)
    OBVIOUS
  <2>4. /\ m \in Nat /\ p \in Nat /\ Len(nodes') = m + 1 + p
        /\ \A d \in 1 .. m : nodes'[d] = nodes[d]
        /\ nodes'[m + 1] = Declaration("function", name)
        /\ \A k \in 1 .. p : nodes'[m + 1 + k] =
               [Declaration("parameter", parameters[k]) EXCEPT !.region = Len(locals) + 1]
    BY <2>1, <2>2, <2>3, FunctionNodes
  <2>5. /\ nodes'[m + 1].kind # "assignment"
        /\ \A k \in 1 .. p : nodes'[m + 1 + k].kind # "assignment"
    <3>1. nodes'[m + 1].kind = "function"
      BY <2>4 DEF Declaration
    <3>2. ASSUME NEW k \in 1 .. p PROVE nodes'[m + 1 + k].kind = "parameter"
      <4>1. nodes'[m + 1 + k] =
              [Declaration("parameter", parameters[k]) EXCEPT !.region = Len(locals) + 1]
        BY <2>4
      <4> QED
        BY <4>1 DEF Declaration
    <3> QED
      BY <3>1, <3>2
  <2>6. Node = 1 .. m /\ Node' = 1 .. m + 1 + p
    BY <2>2, <2>4 DEF Node
  <2>7. ASSUME NEW d \in Node' PROVE d \in Node \/ nodes'[d].kind # "assignment"
    <3>1. CASE d > m + 1
      <4>1. d - (m + 1) \in 1 .. p /\ d = m + 1 + (d - (m + 1))
        BY <3>1, <2>4, <2>6
      <4> QED
        BY <4>1, <2>5
    <3>2. CASE d = m + 1
      BY <3>2, <2>5
    <3>3. CASE d < m + 1
      BY <3>3, <2>4, <2>6
    <3> QED
      BY <3>1, <3>2, <3>3, <2>4, <2>6
  <2>8. \A d \in Node : d \in Node' /\ nodes'[d] = nodes[d]
    BY <2>4, <2>6
  <2>9. \A d \in Node', e \in Node : d < e => d \in Node
    BY <2>4, <2>6
  <2>10. Enters
    BY <2>1, FunctionKeeps
  <2> QED
    BY <2>7, <2>8, <2>9, <2>10, ShadowEnters
<1>4. CASE Leaves
  <2>1. Node' = Node /\ nodes' = nodes
    BY <1>4 DEF Leaves, tables, Node
  <2>2. open' = SubSeq(open, 1, Len(open) - 1)
    BY <1>4 DEF Leaves, leave_scope
  <2>3. open \in Seq(2 .. Len(locals)) /\ Len(open) \in Nat /\ Len(locals) \in Nat
    BY DEF Inv, TypeOK
  <2>4. \A k \in 1 .. Len(open) - 1 : open[k] \in Nat /\ k \in 1 .. Len(open)
    BY <2>3
  <2>5. /\ SubSeq(open, 1, Len(open) - 1) \in Seq(Nat)
        /\ Len(SubSeq(open, 1, Len(open) - 1)) =
             IF 1 <= Len(open) - 1 THEN Len(open) - 1 - 1 + 1 ELSE 0
        /\ \A k \in 1 .. Len(open) - 1 - 1 + 1 :
             SubSeq(open, 1, Len(open) - 1)[k] = open[1 + k - 1]
    BY <2>3, <2>4, SubSeqProperties
  <2>6. ASSUME NEW k \in 1 .. Len(open'), NEW j \in 1 .. k
        PROVE j \in 1 .. Len(open) /\ open[j] = open'[j]
    <3>1. j \in 1 .. Len(open) - 1 - 1 + 1 /\ 1 + j - 1 = j /\ j \in 1 .. Len(open)
      BY <2>2, <2>3, <2>5
    <3> QED
      BY <3>1, <2>2, <2>5
  <2> QED
    BY <2>1, <2>2, <2>5, <2>6, ShadowKeeps
<1>5. CASE OnlyReads
  <2>1. Node' = Node /\ nodes' = nodes /\ open' = open
    BY <1>5 DEF OnlyReads, tables, Node
  <2> QED
    BY <2>1 DEF NoShadowing
<1> QED
  BY <1>1, <1>2, <1>3, <1>4, <1>5 DEF Step

(* An assignment makes a variable only where nothing of that name is       *)
(* visible, so that none ever hides another declaration.                   *)
THEOREM NothingIsShadowed == Spec => []NoShadowing
<1>1. Init => NoShadowing
  <2> SUFFICES ASSUME Init PROVE NoShadowing
    OBVIOUS
  <2>1. Node = {}
    BY DEF Init, Node
  <2> QED
    BY <2>1 DEF NoShadowing
<1>2. Inv /\ NoShadowing /\ [Next]_vars => NoShadowing'
  BY Steps, ShadowStep
<1> QED
  BY <1>1, <1>2, Invariance, PTL DEF Spec
=============================================================================
