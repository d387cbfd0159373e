---------------------------- MODULE DriverProofs ----------------------------
(***************************************************************************)
(* The proofs about the driver: about Imports, for every finite set of     *)
(* files and every import graph over them; and about Table, in which it    *)
(* keeps the modules it has loaded, for every set of names, every digest   *)
(* function and every capacity: that the loops end and stay in their       *)
(* arrays, that the table implements Map, and that its length is what it    *)
(* holds until it grows.                                                   *)
(***************************************************************************)
EXTENDS Imports, Table, SequenceTheorems, FiniteSetTheorems,
        WellFoundedInduction, TLAPS

(* A set of numbers that is not empty has a least element. *)
LEMMA Least == ASSUME NEW T \in SUBSET Nat, T # {}
               PROVE \E x \in T : \A y \in T : x <= y
<1> DEFINE R == OpToRel(<, Nat)
<1>1. IsWellFoundedOn(R, Nat)
  BY NatLessThanWellFounded
<1>2. PICK x \in T : \A y \in T : ~(<<y, x>> \in R)
  <2> HIDE DEF R
  <2> QED
    BY <1>1, WFMin
<1>3. \A y \in T : ~(y < x)
  BY <1>2 DEF OpToRel
<1> QED
  BY <1>3

(* What holds of 0 and is passed on to the next number holds of all. *)
LEMMA Induction ==
  ASSUME NEW T \in SUBSET Nat, 0 \in T, \A n \in T : n + 1 \in T
  PROVE T = Nat
<1> SUFFICES ASSUME Nat \ T # {} PROVE FALSE
  OBVIOUS
<1>1. PICK x \in Nat \ T : \A y \in Nat \ T : x <= y
  <2> DEFINE U == Nat \ T
  <2>1. U \in SUBSET Nat /\ U # {}
    OBVIOUS
  <2> HIDE DEF U
  <2>2. \E x \in U : \A y \in U : x <= y
    BY <2>1, Least
  <2> QED
    BY <2>2 DEF U
<1>2. x # 0 /\ x - 1 \in Nat /\ x - 1 \in T
  BY <1>1
<1> QED
  BY <1>1, <1>2

(* What a file imports is a list of paths. *)
LEMMA ImportsAreSequences ==
  ASSUME TypeOK, NEW n \in Node
  PROVE  /\ imports[FileOf(n)] \in Seq(Path)
         /\ Len(imports[FileOf(n)]) \in Nat
         /\ DOMAIN imports[FileOf(n)] = 1 .. Len(imports[FileOf(n)])
<1>1. FileOf(n) \in Path
  BY PathsAssumption DEF Node, FileOf
<1>2. imports[FileOf(n)] \in SeqUpTo(MaxImports)
  BY <1>1 DEF TypeOK
<1>3. PICK k \in 0 .. MaxImports : imports[FileOf(n)] \in [1 .. k -> Path]
  BY <1>2 DEF SeqUpTo
<1>4. k \in Nat
  BY PathsAssumption
<1>5. imports[FileOf(n)] \in Seq(Path)
  BY <1>3, <1>4, SeqDef
<1>6. QED
  BY <1>5, LenProperties

LEMMA ConnectsReflexive == ASSUME NEW g, NEW a PROVE Connects(g, a, a)
  BY DEF Connects

LEMMA ConnectsStep ==
  ASSUME NEW g, NEW a, NEW b \in Node, NEW c \in ImportedBy(g, b),
         Connects(g, a, b)
  PROVE  Connects(g, a, c)
  BY DEF Connects

LEMMA ImportedElement ==
  ASSUME TypeOK, NEW n \in Node, NEW j \in 1 .. Len(imports[FileOf(n)])
  PROVE  /\ imports[FileOf(n)][j] \in Path
         /\ imports[FileOf(n)][j] \in Imported(n)
<1>1. imports[FileOf(n)] \in Seq(Path)
      /\ DOMAIN imports[FileOf(n)] = 1 .. Len(imports[FileOf(n)])
  BY ImportsAreSequences
<1>2. QED
  BY <1>1, ElementOfSeq DEF Imported, ImportedBy, Range

LEMMA ImportedIndex ==
  ASSUME TypeOK, NEW n \in Node, NEW q \in Imported(n)
  PROVE  \E j \in 1 .. Len(imports[FileOf(n)]) : imports[FileOf(n)][j] = q
  BY ImportsAreSequences DEF Imported, ImportedBy, Range
-----------------------------------------------------------------------------
(* The strengthening: the stack holds the main file and then loaded files, *)
(* each the import its predecessor is at, no file twice; what a loop index *)
(* has passed is loaded; what is loaded is on the stack or resolved.       *)
Rooted == status = "traverse" => Len(stack) >= 1 /\ stack[1] = MainNode
Distinct == \A j, k \in 1 .. Len(stack) : stack[j] = stack[k] => j = k
Calls == \A k \in 1 .. Len(stack) - 1 :
  /\ stack[k + 1] \in modules
  /\ next[stack[k]] <= Len(imports[FileOf(stack[k])])
  /\ stack[k + 1] = imports[FileOf(stack[k])][next[stack[k]]]
Passed == \A n \in Node : \A j \in 1 .. next[n] - 1 :
  imports[FileOf(n)][j] \in modules
Split == \A q \in modules :
  \/ \E k \in 1 .. Len(stack) : stack[k] = q
  \/ \E k \in 1 .. Len(resolved) : resolved[k] = q
Chained == \A k \in 1 .. Len(stack) : \A j \in 1 .. k :
  Connects(imports, stack[j], stack[k])
Ordered == \A k \in 1 .. Len(resolved) : \A q \in Imported(resolved[k]) :
  \/ \E j \in 1 .. k - 1 : resolved[j] = q
  \/ Connects(imports, q, resolved[k])

IInv == /\ TypeOK /\ Rooted /\ Distinct /\ Calls /\ Passed /\ Split
        /\ Chained /\ Ordered /\ ImportFound /\ AbortOnlyOnCycle

LEMMA InitIInv == Init => IInv
<1> SUFFICES ASSUME Init PROVE IInv
  OBVIOUS
<1>1. /\ stack = <<MainNode>> /\ Len(stack) = 1 /\ stack[1] = MainNode
      /\ next = [n \in Node |-> 1] /\ modules = {} /\ resolved = <<>>
      /\ built = <<>> /\ status = "traverse" /\ Len(resolved) = 0
      /\ imports \in [Path -> SeqUpTo(MaxImports)]
  BY DEF Init
<1>2. TypeOK
  <2>1. \A n \in Node : Len(imports[FileOf(n)]) \in Nat
    <3> SUFFICES ASSUME NEW n \in Node PROVE Len(imports[FileOf(n)]) \in Nat
      OBVIOUS
    <3>1. imports[FileOf(n)] \in SeqUpTo(MaxImports)
      BY <1>1, PathsAssumption DEF Node, FileOf
    <3>2. PICK k \in 0 .. MaxImports : imports[FileOf(n)] \in [1 .. k -> Path]
      BY <3>1 DEF SeqUpTo
    <3>3. imports[FileOf(n)] \in Seq(Path)
      BY <3>2, PathsAssumption, SeqDef
    <3>4. QED
      BY <3>3, LenProperties
  <2>2. /\ stack \in Seq(Node) /\ resolved \in Seq(Node)
        /\ built \in Seq(Node \cup {Garbage})
    BY <1>1 DEF Node
  <2>3. QED
    BY <1>1, <2>1, <2>2 DEF TypeOK
<1>3. Rooted /\ Distinct /\ Calls /\ Passed /\ Split /\ Ordered
  BY <1>1 DEF Rooted, Distinct, Calls, Passed, Split, Ordered
<1>4. Chained
  BY <1>1, ConnectsReflexive DEF Chained
<1>5. QED
  BY <1>1, <1>2, <1>3, <1>4 DEF IInv, ImportFound, AbortOnlyOnCycle

LEMMA TopFacts ==
  ASSUME IInv, Traversing
  PROVE  /\ Len(stack) \in Nat \ {0}
         /\ \A k \in 1 .. Len(stack) : stack[k] \in Node
         /\ top = stack[Len(stack)] /\ top \in Node
         /\ next[top] \in Nat \ {0} /\ next[top] <= Len(imports[FileOf(top)]) + 1
         /\ Len(imports[FileOf(top)]) \in Nat
<1>1. Len(stack) \in Nat \ {0}
  BY LenProperties, SMT DEF IInv, TypeOK, Rooted, Traversing
<1>2. \A k \in 1 .. Len(stack) : stack[k] \in Node
  BY ElementOfSeq DEF IInv, TypeOK
<1>3. top \in Node
  BY <1>1, <1>2 DEF top
<1>4. next[top] \in Nat \ {0} /\ next[top] <= Len(imports[FileOf(top)]) + 1
  BY <1>3 DEF IInv, TypeOK
<1>5. QED
  BY <1>1, <1>2, <1>3, <1>4, ImportsAreSequences DEF top, IInv

(* An import already in the table only moves the loop index. *)
LEMMA SkipStep == IInv /\ skip_import => IInv'
<1> SUFFICES ASSUME IInv, skip_import PROVE IInv'
  OBVIOUS
<1> USE DEF IInv
<1>1. /\ Traversing /\ AtImport /\ import_path \in modules
      /\ next' = [next EXCEPT ![top] = @ + 1]
      /\ UNCHANGED <<imports, stack, modules, resolved, built, status>>
  BY DEF skip_import
<1>2. /\ Len(stack) \in Nat \ {0}
      /\ \A k \in 1 .. Len(stack) : stack[k] \in Node
      /\ top = stack[Len(stack)] /\ top \in Node
      /\ next[top] \in Nat \ {0} /\ next[top] <= Len(imports[FileOf(top)])
      /\ Len(imports[FileOf(top)]) \in Nat
  BY <1>1, TopFacts DEF AtImport
<1>3. next \in [Node -> Nat \ {0}]
  BY DEF TypeOK
<1>4. /\ next' \in [Node -> Nat \ {0}]
      /\ next'[top] = next[top] + 1
      /\ \A n \in Node : n # top => next'[n] = next[n]
  BY <1>1, <1>2, <1>3
<1>5. TypeOK'
  BY <1>1, <1>2, <1>4 DEF TypeOK
<1>6. Calls'
  <2> SUFFICES ASSUME NEW k \in 1 .. Len(stack) - 1
               PROVE  next'[stack[k]] = next[stack[k]]
    BY <1>1 DEF Calls
  <2>1. k \in 1 .. Len(stack) /\ Len(stack) \in 1 .. Len(stack) /\ k # Len(stack)
    BY <1>2
  <2>2. stack[k] # top
    BY <1>2, <2>1 DEF Distinct
  <2>3. QED
    BY <1>2, <1>4, <2>1, <2>2
<1>7. Passed'
  <2> SUFFICES ASSUME NEW n \in Node, NEW j \in 1 .. next'[n] - 1
               PROVE  imports[FileOf(n)][j] \in modules
    BY <1>1 DEF Passed
  <2>1. CASE n # top
    BY <1>4, <2>1 DEF Passed
  <2>2. CASE n = top /\ j # next[top]
    <3>1. j \in 1 .. next[top] - 1
      BY <1>2, <1>4, <2>2
    <3>2. QED
      BY <2>2, <3>1 DEF Passed
  <2>3. CASE n = top /\ j = next[top]
    BY <1>1, <2>3 DEF import_path
  <2>4. QED
    BY <2>1, <2>2, <2>3
<1>8. Rooted' /\ Distinct' /\ Split' /\ Chained'
  BY <1>1 DEF Rooted, Distinct, Split, Chained
<1>9. Ordered'
  BY <1>1 DEF Ordered, Imported
<1>10. ImportFound' /\ AbortOnlyOnCycle'
  BY <1>1 DEF ImportFound, AbortOnlyOnCycle, Traversing
<1>11. QED
  BY <1>5, <1>6, <1>7, <1>8, <1>9, <1>10

(* A new module goes on top of the stack; the file below imports it. *)
LEMMA LoadStep == IInv /\ load_import => IInv'
<1> SUFFICES ASSUME IInv, load_import PROVE IInv'
  OBVIOUS
<1> USE DEF IInv
<1> DEFINE p == import_path
           L == Len(stack)
<1>1. /\ Traversing /\ AtImport /\ p \notin modules
      /\ modules' = modules \cup {p} /\ stack' = Append(stack, p)
      /\ UNCHANGED <<imports, next, resolved, built, status>>
  BY DEF load_import
<1>2. /\ L \in Nat \ {0} /\ \A k \in 1 .. L : stack[k] \in Node
      /\ top = stack[L] /\ top \in Node
      /\ next[top] \in Nat \ {0} /\ next[top] <= Len(imports[FileOf(top)])
      /\ Len(imports[FileOf(top)]) \in Nat
  BY <1>1, TopFacts DEF AtImport
<1>3. p = imports[FileOf(top)][next[top]]
  BY DEF import_path
<1> HIDE DEF p, L
<1>4. p \in Path /\ p \in Imported(top) /\ p \in Node /\ p # MainNode
  <2>1. next[top] \in 1 .. Len(imports[FileOf(top)])
    BY <1>2
  <2>2. QED
    BY <1>2, <1>3, <2>1, ImportedElement, PathsAssumption DEF Node
<1>5. /\ stack' \in Seq(Node) /\ Len(stack') = L + 1
      /\ \A k \in 1 .. L : stack'[k] = stack[k]
      /\ stack'[L + 1] = p
  BY <1>1, <1>2, <1>4 DEF TypeOK, L
<1>6. TypeOK'
  BY <1>1, <1>4, <1>5 DEF TypeOK
<1>7. Rooted'
  BY <1>1, <1>2, <1>5 DEF Rooted, L
<1>8. \A k \in 1 .. L : stack[k] # p
  <2> SUFFICES ASSUME NEW k \in 1 .. L PROVE stack[k] # p
    OBVIOUS
  <2>1. CASE k = 1
    BY <1>1, <1>4, <2>1 DEF Rooted, Traversing
  <2>2. CASE k # 1
    <3>1. k - 1 \in 1 .. L - 1 /\ k - 1 + 1 = k
      BY <1>2, <2>2
    <3>2. stack[k] \in modules
      BY <3>1 DEF Calls, L
    <3>3. QED
      BY <1>1, <3>2
  <2>3. QED
    BY <2>1, <2>2
<1>9. Distinct'
  <2> SUFFICES ASSUME NEW j \in 1 .. L + 1, NEW k \in 1 .. L + 1,
                      stack'[j] = stack'[k]
               PROVE  j = k
    BY <1>5 DEF Distinct
  <2>1. CASE j \in 1 .. L /\ k \in 1 .. L
    BY <1>5, <2>1 DEF Distinct, L
  <2>2. CASE j = L + 1 \/ k = L + 1
    BY <1>2, <1>5, <1>8, <2>2
  <2>3. QED
    BY <1>2, <2>1, <2>2
<1>10. Calls'
  <2> SUFFICES ASSUME NEW k \in 1 .. L
               PROVE  /\ stack'[k + 1] \in modules'
                      /\ next[stack[k]] <= Len(imports[FileOf(stack[k])])
                      /\ stack'[k + 1] = imports[FileOf(stack[k])][next[stack[k]]]
    BY <1>1, <1>2, <1>5 DEF Calls
  <2>1. CASE k = L
    BY <1>1, <1>2, <1>3, <1>5, <2>1
  <2>2. CASE k # L
    <3>1. k \in 1 .. L - 1 /\ k + 1 \in 1 .. L
      BY <1>2, <2>2
    <3>2. QED
      BY <1>1, <1>5, <3>1 DEF Calls, L
  <2>3. QED
    BY <2>1, <2>2
<1>11. Passed'
  BY <1>1 DEF Passed
<1>12. Split'
  <2> SUFFICES ASSUME NEW q \in modules'
               PROVE  \/ \E k \in 1 .. L + 1 : stack'[k] = q
                      \/ \E k \in 1 .. Len(resolved) : resolved[k] = q
    BY <1>1, <1>5 DEF Split
  <2>1. CASE q = p
    BY <1>2, <1>5, <2>1
  <2>2. CASE q \in modules
    <3>1. CASE \E k \in 1 .. L : stack[k] = q
      BY <1>2, <1>5, <3>1
    <3>2. QED
      BY <2>2, <3>1 DEF Split, L
  <2>3. QED
    BY <1>1, <2>1, <2>2
<1>13. Chained'
  <2> SUFFICES ASSUME NEW k \in 1 .. L + 1, NEW j \in 1 .. k
               PROVE  Connects(imports, stack'[j], stack'[k])
    BY <1>1, <1>5 DEF Chained
  <2>1. CASE k \in 1 .. L
    <3>1. j \in 1 .. L
      BY <1>2, <2>1
    <3>2. QED
      BY <1>5, <2>1, <3>1 DEF Chained, L
  <2>2. CASE k = L + 1 /\ j = L + 1
    BY <2>2, ConnectsReflexive
  <2>3. CASE k = L + 1 /\ j # L + 1
    <3>1. j \in 1 .. L /\ L \in 1 .. L
      BY <1>2, <2>3
    <3>2. Connects(imports, stack[j], top)
      BY <1>2, <3>1 DEF Chained, L
    <3>3. Connects(imports, stack[j], p)
      BY <1>2, <1>4, <3>2, ConnectsStep DEF Imported
    <3>4. QED
      BY <1>5, <2>3, <3>1, <3>3
  <2>4. QED
    BY <1>2, <2>1, <2>2, <2>3
<1>14. Ordered'
  BY <1>1 DEF Ordered, Imported
<1>15. ImportFound' /\ AbortOnlyOnCycle'
  BY <1>1 DEF ImportFound, AbortOnlyOnCycle, Traversing
<1>16. QED
  BY <1>6, <1>7, <1>9, <1>10, <1>11, <1>12, <1>13, <1>14, <1>15

(* When the traversal of the top file ends, all its imports are loaded, and *)
(* those not resolved yet lie below it on the stack and lead to it.         *)
LEMMA AtTheEnd ==
  ASSUME IInv, Traversing, ~AtImport
  PROVE  /\ Imported(top) \subseteq modules
         /\ \A q \in modules :
              \/ \E k \in 1 .. Len(resolved) : resolved[k] = q
              \/ Connects(imports, q, top)
         /\ top = MainNode =>
              \A q \in modules : \E k \in 1 .. Len(resolved) : resolved[k] = q
<1> USE DEF IInv
<1>1. /\ Len(stack) \in Nat \ {0}
      /\ top = stack[Len(stack)] /\ top \in Node
      /\ next[top] \in Nat /\ Len(imports[FileOf(top)]) \in Nat
      /\ next[top] > Len(imports[FileOf(top)])
  BY TopFacts DEF AtImport
<1>2. Imported(top) \subseteq modules
  <2> SUFFICES ASSUME NEW q \in Imported(top) PROVE q \in modules
    OBVIOUS
  <2>1. PICK j \in 1 .. Len(imports[FileOf(top)]) :
          imports[FileOf(top)][j] = q
    BY <1>1, ImportedIndex
  <2>2. j \in 1 .. next[top] - 1
    BY <1>1
  <2>3. QED
    BY <1>1, <2>1, <2>2 DEF Passed
<1>3. ASSUME NEW q \in modules, NEW k \in 1 .. Len(stack), stack[k] = q
      PROVE  Connects(imports, q, top) /\ top # MainNode
  <2>1. Len(stack) \in 1 .. Len(stack) /\ k \in 1 .. Len(stack)
    BY <1>1
  <2>2. Connects(imports, q, top)
    BY <1>1, <1>3, <2>1 DEF Chained
  <2>3. top # MainNode
    <3> SUFFICES ASSUME top = MainNode PROVE FALSE
      OBVIOUS
    <3>1. stack[1] = MainNode /\ 1 \in 1 .. Len(stack)
      BY <1>1 DEF Rooted, Traversing
    <3>2. Len(stack) = 1
      BY <1>1, <2>1, <3>1 DEF Distinct
    <3>3. q = MainNode
      BY <1>3, <3>1, <3>2
    <3>4. QED
      BY <3>3, PathsAssumption DEF TypeOK
  <2>4. QED
    BY <2>2, <2>3
<1>4. QED
  BY <1>2, <1>3 DEF Split

(* The top file is resolved and the loop below it moves on. *)
LEMMA ResolveStep == IInv /\ resolve_module => IInv'
<1> SUFFICES ASSUME IInv, resolve_module PROVE IInv'
  OBVIOUS
<1> USE DEF IInv
<1> DEFINE L == Len(stack)
           R == Len(resolved)
           c == stack[L - 1]
<1>1. /\ Traversing /\ ~AtImport
      /\ resolved' = Append(resolved, top)
      /\ stack' = SubSeq(stack, 1, L - 1)
      /\ IF L = 1 THEN status' = "build" /\ next' = next
         ELSE next' = [next EXCEPT ![c] = @ + 1] /\ status' = status
      /\ UNCHANGED <<imports, modules, built>>
  BY DEF resolve_module
<1>2. /\ L \in Nat \ {0} /\ \A k \in 1 .. L : stack[k] \in Node
      /\ top = stack[L] /\ top \in Node
  BY <1>1, TopFacts
<1>e. /\ Imported(top) \subseteq modules
      /\ \A q \in modules :
           \/ \E k \in 1 .. Len(resolved) : resolved[k] = q
           \/ Connects(imports, q, top)
  BY <1>1, AtTheEnd
<1> HIDE DEF L, R
<1>3. /\ stack' \in Seq(Node) /\ Len(stack') = L - 1
      /\ \A k \in 1 .. L - 1 : stack'[k] = stack[k]
  <2>1. \A k \in 1 .. L - 1 : stack[k] \in Node
    BY <1>2
  <2>2. 1 \in Int /\ L - 1 \in Int
    BY <1>2
  <2>3. /\ SubSeq(stack, 1, L - 1) \in Seq(Node)
        /\ Len(SubSeq(stack, 1, L - 1)) =
             IF 1 <= L - 1 THEN (L - 1) - 1 + 1 ELSE 0
        /\ \A k \in 1 .. (L - 1) - 1 + 1 :
             SubSeq(stack, 1, L - 1)[k] = stack[1 + k - 1]
    BY ONLY <2>1, <2>2, SubSeqProperties
  <2>4. Len(stack') = L - 1
    BY <1>1, <1>2, <2>3
  <2>5. \A k \in 1 .. L - 1 :
          k \in 1 .. (L - 1) - 1 + 1 /\ 1 + k - 1 = k
    BY <1>2
  <2>6. QED
    BY <1>1, <2>3, <2>4, <2>5
<1>4. /\ R \in Nat /\ resolved' \in Seq(Node) /\ Len(resolved') = R + 1
      /\ \A k \in 1 .. R : resolved'[k] = resolved[k]
      /\ resolved'[R + 1] = top
  BY <1>1, <1>2 DEF TypeOK, R
<1>5. next \in [Node -> Nat \ {0}]
  BY DEF TypeOK
<1>6. ASSUME L # 1
      PROVE  /\ c \in Node /\ next'[c] = next[c] + 1
             /\ next' \in [Node -> Nat \ {0}]
             /\ \A n \in Node : n # c => next'[n] = next[n]
             /\ next[c] <= Len(imports[FileOf(c)])
             /\ Len(imports[FileOf(c)]) \in Nat
             /\ imports[FileOf(c)][next[c]] \in modules
  <2>1. L - 1 \in 1 .. L - 1 /\ L - 1 \in 1 .. L
    BY <1>2, <1>6
  <2>2. c \in Node
    BY <1>2, <2>1
  <2>3. /\ next[c] <= Len(imports[FileOf(c)])
        /\ imports[FileOf(c)][next[c]] \in modules
    BY <2>1 DEF Calls, L
  <2>4. Len(imports[FileOf(c)]) \in Nat
    BY <2>2, ImportsAreSequences
  <2>5. next' = [next EXCEPT ![c] = @ + 1]
    BY <1>1, <1>6
  <2> HIDE DEF c
  <2>6. next'[c] = next[c] + 1 /\ next' \in [Node -> Nat \ {0}]
        /\ \A n \in Node : n # c => next'[n] = next[n]
    BY <1>5, <2>2, <2>5
  <2>7. QED
    BY <2>2, <2>3, <2>4, <2>6
<1>7. L = 1 => next' = next
  BY <1>1
<1>8. TypeOK'
  <2>1. next' \in [Node -> Nat \ {0}]
    BY <1>5, <1>6, <1>7
  <2>2. \A n \in Node : next'[n] <= Len(imports[FileOf(n)]) + 1
    <3> SUFFICES ASSUME NEW n \in Node
                 PROVE  next'[n] <= Len(imports[FileOf(n)]) + 1
      OBVIOUS
    <3>1. CASE next'[n] = next[n]
      BY <3>1 DEF TypeOK
    <3>2. CASE next'[n] # next[n]
      <4>1. L # 1 /\ n = c
        BY <1>6, <1>7, <3>2
      <4>2. QED
        BY <1>5, <1>6, <4>1
    <3>3. QED
      BY <3>1, <3>2
  <2>3. status' \in {"traverse", "build"}
    BY <1>1 DEF Traversing
  <2>4. QED
    BY <1>1, <1>3, <1>4, <2>1, <2>2, <2>3 DEF TypeOK
<1>9. Rooted'
  BY <1>1, <1>2, <1>3 DEF Rooted, L
<1>10. Distinct'
  <2> SUFFICES ASSUME NEW j \in 1 .. L - 1, NEW k \in 1 .. L - 1,
                      stack'[j] = stack'[k]
               PROVE  j = k
    BY <1>3 DEF Distinct
  <2>1. j \in 1 .. L /\ k \in 1 .. L /\ stack[j] = stack[k]
    BY <1>2, <1>3
  <2>2. QED
    BY <2>1 DEF Distinct, L
<1>11. Calls'
  <2> SUFFICES ASSUME NEW k \in 1 .. L - 2
               PROVE  /\ stack[k + 1] \in modules
                      /\ next'[stack[k]] <= Len(imports[FileOf(stack[k])])
                      /\ stack[k + 1] = imports[FileOf(stack[k])][next'[stack[k]]]
    <3>1. \A k \in 1 .. L - 2 : k \in 1 .. L - 1 /\ k + 1 \in 1 .. L - 1
      BY <1>2
    <3>2. Len(stack') - 1 = L - 2
      BY <1>2, <1>3
    <3>3. QED
      BY <1>1, <1>3, <3>1, <3>2 DEF Calls
  <2>1. L # 1 /\ k \in 1 .. L - 1 /\ k \in 1 .. L /\ L - 1 \in 1 .. L
        /\ k # L - 1
    BY <1>2
  <2>2. stack[k] # c /\ stack[k] \in Node
    BY <1>2, <2>1 DEF Distinct, L
  <2>3. next'[stack[k]] = next[stack[k]]
    BY <1>6, <2>1, <2>2
  <2>4. QED
    BY <2>1, <2>3 DEF Calls, L
<1>12. Passed'
  <2> SUFFICES ASSUME NEW n \in Node, NEW j \in 1 .. next'[n] - 1
               PROVE  imports[FileOf(n)][j] \in modules
    BY <1>1 DEF Passed
  <2>1. CASE next'[n] = next[n]
    BY <2>1 DEF Passed
  <2>2. CASE next'[n] # next[n]
    <3>1. L # 1 /\ n = c
      BY <1>6, <1>7, <2>2
    <3>2. j = next[c] \/ j \in 1 .. next[c] - 1
      BY <1>5, <1>6, <3>1
    <3>3. QED
      BY <1>6, <3>1, <3>2 DEF Passed
  <2>3. QED
    BY <2>1, <2>2
<1>13. Split'
  <2> SUFFICES ASSUME NEW q \in modules
               PROVE  \/ \E k \in 1 .. L - 1 : stack'[k] = q
                      \/ \E k \in 1 .. R + 1 : resolved'[k] = q
    BY <1>1, <1>3, <1>4 DEF Split
  <2>1. ASSUME NEW k \in 1 .. L, stack[k] = q
        PROVE  \/ \E m \in 1 .. L - 1 : stack'[m] = q
               \/ \E m \in 1 .. R + 1 : resolved'[m] = q
    <3>1. k \in 1 .. L - 1 \/ k = L
      BY <1>2
    <3>2. R + 1 \in 1 .. R + 1
      BY <1>4
    <3>3. QED
      BY <1>2, <1>3, <1>4, <2>1, <3>1, <3>2
  <2>2. ASSUME NEW k \in 1 .. R, resolved[k] = q
        PROVE  \E m \in 1 .. R + 1 : resolved'[m] = q
    <3>1. k \in 1 .. R + 1
      BY <1>4
    <3>2. QED
      BY <1>4, <2>2, <3>1
  <2>3. QED
    BY <2>1, <2>2 DEF Split, L, R
<1>14. Chained'
  <2> SUFFICES ASSUME NEW k \in 1 .. L - 1, NEW j \in 1 .. k
               PROVE  Connects(imports, stack'[j], stack'[k])
    BY <1>1, <1>3 DEF Chained
  <2>1. j \in 1 .. L - 1 /\ k \in 1 .. L
    BY <1>2
  <2>2. QED
    BY <1>3, <2>1 DEF Chained, L
<1>15. Ordered'
  <2> SUFFICES ASSUME NEW k \in 1 .. R + 1, NEW q \in Imported(resolved'[k])
               PROVE  \/ \E j \in 1 .. k - 1 : resolved'[j] = q
                      \/ Connects(imports, q, resolved'[k])
    BY <1>1, <1>4 DEF Ordered, Imported
  <2>1. CASE k \in 1 .. R
    <3>1. resolved'[k] = resolved[k] /\ \A j \in 1 .. k - 1 : j \in 1 .. R
      BY <1>4, <2>1
    <3>2. QED
      BY <1>4, <2>1, <3>1 DEF Ordered, R
  <2>2. CASE k = R + 1
    <3>1. resolved'[k] = top /\ k - 1 = R
      BY <1>4, <2>2
    <3>2. q \in modules
      BY <1>e, <3>1
    <3>3. QED
      BY <1>e, <1>4, <3>1, <3>2 DEF R
  <2>3. QED
    BY <1>4, <2>1, <2>2
<1>16. ImportFound' /\ AbortOnlyOnCycle'
  BY <1>1 DEF ImportFound, AbortOnlyOnCycle, Traversing
<1>17. QED
  BY <1>8, <1>9, <1>10, <1>11, <1>12, <1>13, <1>14, <1>15, <1>16

(* Only the assertion of parse_variable can fail, and only on a cycle. *)
LEMMA FailStep == IInv /\ resolve_fails => IInv'
<1> SUFFICES ASSUME IInv, resolve_fails PROVE IInv'
  OBVIOUS
<1> USE DEF IInv
<1>1. /\ Traversing /\ ~AtImport
      /\ UNCHANGED <<imports, stack, next, modules, resolved, built>>
  BY DEF resolve_fails, loading
<1>2. /\ Imported(top) \subseteq modules
      /\ \A q \in modules :
           \/ \E k \in 1 .. Len(resolved) : resolved[k] = q
           \/ Connects(imports, q, top)
      /\ top = MainNode =>
           \A q \in modules : \E k \in 1 .. Len(resolved) : resolved[k] = q
  BY <1>1, AtTheEnd
<1>3. status' = "assert_declaration" /\ Unscoped(top) # {}
  BY <1>2 DEF resolve_fails
<1>4. PICK q \in Imported(top) : q \notin Range(resolved)
  BY <1>3 DEF Unscoped
<1>5. ~ \E k \in 1 .. Len(resolved) : resolved[k] = q
  BY <1>4, LenProperties DEF Range, TypeOK
<1>6. AbortOnlyOnCycle'
  BY <1>1, <1>2, <1>4, <1>5 DEF AbortOnlyOnCycle, Reaches, top, Imported
<1>7. TypeOK'
  BY <1>1, <1>3 DEF TypeOK, Final, Failures
<1>8. Distinct' /\ Calls' /\ Passed' /\ Split' /\ Chained'
  BY <1>1 DEF Distinct, Calls, Passed, Split, Chained
<1>9. Ordered'
  BY <1>1 DEF Ordered, Imported
<1>10. Rooted' /\ ImportFound'
  BY <1>3 DEF Rooted, ImportFound
<1>11. QED
  BY <1>6, <1>7, <1>8, <1>9, <1>10

(* The remaining steps leave everything the strengthening is about alone. *)
LEMMA OtherStep ==
  IInv /\ (load_fails \/ build_main \/ build_module \/ build_garbage
           \/ build_ends \/ UNCHANGED vars) => IInv'
<1> SUFFICES ASSUME IInv,
                    \/ load_fails \/ build_main \/ build_module
                    \/ build_garbage \/ build_ends \/ UNCHANGED vars
             PROVE  IInv'
  OBVIOUS
<1> USE DEF IInv
<1>1. UNCHANGED <<imports, stack, next, modules, resolved>>
  BY DEF load_fails, build_main, build_module, build_garbage, build_ends,
         vars, loading
<1>2. \/ UNCHANGED status
      \/ status' \in {"crashed", "exited", "done", "undefined"}
  BY DEF load_fails, build_main, build_module, build_garbage, build_ends, vars, Undefined
<1>3. \/ UNCHANGED built
      \/ \E n \in Node \cup {Garbage} : built' \in {<<n>>, Append(built, n)}
  <2>1. modules \subseteq Node
    BY DEF TypeOK, Node
  <2>2. QED
    BY <2>1 DEF load_fails, build_main, build_module, build_garbage,
                build_ends, vars, Node
<1>4. TypeOK'
  <2>1. built' \in Seq(Node \cup {Garbage})
    <3>1. built \in Seq(Node \cup {Garbage})
      BY DEF TypeOK
    <3>2. ASSUME NEW n \in Node \cup {Garbage}
          PROVE  /\ <<n>> \in Seq(Node \cup {Garbage})
                 /\ Append(built, n) \in Seq(Node \cup {Garbage})
      BY <3>1, <3>2
    <3>3. QED
      BY <1>3, <3>1, <3>2
  <2>2. status' \in {"traverse", "build", Undefined} \cup Final
    BY <1>2 DEF TypeOK, Final, Failures, Undefined
  <2>3. QED
    BY <1>1, <2>1, <2>2 DEF TypeOK
<1>5. Rooted' /\ Distinct' /\ Calls' /\ Passed' /\ Split' /\ Chained'
  BY <1>1, <1>2 DEF Rooted, Distinct, Calls, Passed, Split, Chained
<1>6. Ordered'
  BY <1>1 DEF Ordered, Imported
<1>7. ImportFound'
  BY <1>2 DEF ImportFound
<1>8. AbortOnlyOnCycle'
  BY <1>1, <1>2 DEF AbortOnlyOnCycle, Reaches, Imported, top
<1>9. QED
  BY <1>4, <1>5, <1>6, <1>7, <1>8

(* The inductive invariant of loading and resolving holds throughout.      *)
THEOREM Invariance == Spec => []IInv
<1>1. Init => IInv
  BY InitIInv
<1>2. IInv /\ [Next]_vars => IInv'
  BY SkipStep, LoadStep, ResolveStep, FailStep, OtherStep DEF Next
<1>3. QED
  BY <1>1, <1>2, PTL DEF Spec
-----------------------------------------------------------------------------
(* Every variable stays within its type. *)
THEOREM TypeCorrect == Spec => []TypeOK
<1>1. IInv => TypeOK
  BY DEF IInv
<1>2. QED
  BY <1>1, Invariance, PTL

(* The assertion of parse_import never fails, whatever imports what. *)
THEOREM ImportAssertionHolds == Spec => []ImportFound
<1>1. IInv => ImportFound
  BY DEF IInv
<1>2. QED
  BY <1>1, Invariance, PTL

(* No file is traversed inside its own traversal. *)
THEOREM TraversalNeverReenters == Spec => []NoReentry
<1>1. IInv => NoReentry
  <2> SUFFICES ASSUME IInv PROVE \A j, k \in DOMAIN stack :
                                   stack[j] = stack[k] => j = k
    BY DEF NoReentry, IsInjective
  <2>1. DOMAIN stack = 1 .. Len(stack)
    BY LenProperties DEF IInv, TypeOK
  <2>2. QED
    BY <2>1 DEF IInv, Distinct
<1>2. QED
  BY <1>1, Invariance, PTL

(* Files are resolved after what they import, up to import cycles. *)
THEOREM ResolvedInOrder == Spec => []ResolveOrder
<1>1. IInv => ResolveOrder
  <2> SUFFICES ASSUME IInv PROVE ResolveOrder
    OBVIOUS
  <2>1. DOMAIN resolved = 1 .. Len(resolved)
    BY LenProperties DEF IInv, TypeOK
  <2>2. QED
    BY <2>1 DEF IInv, Ordered, ResolveOrder, Reaches
<1>2. QED
  BY <1>1, Invariance, PTL

(* The assertion of parse_variable fails only for the import cycles. *)
THEOREM AbortsOnlyOnCycles == Spec => []AbortOnlyOnCycle
<1>1. IInv => AbortOnlyOnCycle
  BY DEF IInv
<1>2. QED
  BY <1>1, Invariance, PTL
-----------------------------------------------------------------------------
(* The length of a table that has not grown is the number of its keys. *)
LEMMA LengthUngrown ==
  ASSUME NEW n \in 0 .. Cardinality(Path), n <= TableCapacity PROVE table_length[n] = n
<1> DEFINE N == Cardinality(Path)
           Turn(g, j) == IF j <= TableCapacity THEN j ELSE g[j - 1] + table_capacity[j - 1] + 1
           Upto(m) == \E g : g = [j \in 0 .. m |-> Turn(g, j)]
           T == {m \in Nat : Upto(m)}
<1>1. N \in Nat /\ TableCapacity \in Nat
  BY PathsAssumption, FS_CardinalityType
<1> HIDE DEF N
<1>2. Upto(0)
  <2> DEFINE g == [j \in 0 .. 0 |-> j]
  <2>1. g = [j \in 0 .. 0 |-> Turn(g, j)]
    BY <1>1
  <2> QED
    BY <2>1
<1>3. ASSUME NEW m \in Nat, Upto(m) PROVE Upto(m + 1)
  <2>1. PICK g : g = [j \in 0 .. m |-> Turn(g, j)]
    BY <1>3
  <2> DEFINE x == IF m + 1 <= TableCapacity THEN m + 1 ELSE g[m] + table_capacity[m] + 1
             h == [j \in 0 .. m + 1 |-> IF j = m + 1 THEN x ELSE g[j]]
  <2>2. ASSUME NEW j \in 0 .. m + 1 PROVE h[j] = Turn(h, j)
    <3>1. CASE j = m + 1
      <4>1. h[j] = x /\ j - 1 = m /\ h[m] = g[m]
        BY <3>1
      <4> HIDE DEF h
      <4> QED
        BY <3>1, <4>1
    <3>2. CASE j # m + 1
      <4>1. j \in 0 .. m /\ h[j] = g[j]
        BY <3>2
      <4>2. g[j] = Turn(g, j)
        <5> HIDE DEF Turn
        <5> QED
          BY <2>1, <4>1
      <4>3. j > TableCapacity => h[j - 1] = g[j - 1]
        <5>1. j > TableCapacity => j - 1 \in 0 .. m + 1 /\ j - 1 # m + 1
          BY <1>1, <4>1
        <5> QED
          BY <5>1
      <4> HIDE DEF h
      <4> QED
        BY <1>1, <4>1, <4>2, <4>3
    <3> QED
      BY <3>1, <3>2
  <2>3. h = [j \in 0 .. m + 1 |-> Turn(h, j)]
    <3> DEFINE k == [j \in 0 .. m + 1 |-> Turn(h, j)]
    <3>1. \A j \in 0 .. m + 1 : h[j] = k[j]
      <4> HIDE DEF h, Turn
      <4> QED
        BY <2>2
    <3>2. h = [j \in 0 .. m + 1 |-> h[j]] /\ k = [j \in 0 .. m + 1 |-> k[j]]
      OBVIOUS
    <3> HIDE DEF h, k
    <3>3. h = k
      BY <3>1, <3>2
    <3> QED
      BY <3>3 DEF k
  <2> HIDE DEF h, Turn
  <2> QED
    BY <2>3
<1>4. T = Nat
  <2> HIDE DEF Upto
  <2>1. T \in SUBSET Nat /\ 0 \in T /\ \A m \in T : m + 1 \in T
    BY <1>2, <1>3
  <2> HIDE DEF T
  <2> QED
    BY <2>1, Induction
<1>5. PICK g : g = [j \in 0 .. N |-> Turn(g, j)]
  <2>1. N \in T
    <3> HIDE DEF T
    <3> QED
      BY <1>1, <1>4
  <2> QED
    BY <2>1
<1>6. table_length = CHOOSE w : w = [j \in 0 .. N |-> Turn(w, j)]
  BY DEF table_length, N
<1> DEFINE w == table_length
<1>7. w = [j \in 0 .. N |-> Turn(w, j)]
  <2> HIDE DEF Turn
  <2> QED
    BY <1>5, <1>6
<1> HIDE DEF w
<1>8. n \in 0 .. N
  BY DEF N
<1>9. w[n] = Turn(w, n)
  <2> HIDE DEF Turn
  <2> QED
    BY <1>7, <1>8
<1>10. w[n] = n
  BY <1>9
<1> QED
  BY <1>10 DEF w

(* The loop of main reads a cell that was never written only when the      *)
(* table has grown.                                                        *)
LEMMA GarbageOnlyGrown ==
  ASSUME TypeOK, build_garbage PROVE Cardinality(modules) > TableCapacity
<1>1. /\ IsFiniteSet(modules) /\ Cardinality(modules) \in Nat /\ TableCapacity \in Nat
      /\ Cardinality(modules) <= Cardinality(Path) /\ Cardinality(Path) \in Nat
  BY PathsAssumption, FS_Subset, FS_CardinalityType DEF TypeOK
<1> SUFFICES ASSUME Cardinality(modules) <= TableCapacity PROVE FALSE
  BY <1>1
<1>2. Cardinality(modules) \in 0 .. Cardinality(Path)
  BY <1>1
<1>3. Cells = Cardinality(modules)
  BY <1>2, LengthUngrown DEF Cells
<1>4. Cell \in Cardinality(modules) + 1 .. Cardinality(modules)
  BY <1>3 DEF build_garbage
<1> QED
  BY <1>1, <1>4

(* What holds between loading and compiling: nothing is compiled before    *)
(* the main file is resolved and its traversal has ended, what is resolved *)
(* has all its imports in the table, and what is compiled is resolved as   *)
(* long as that table has not grown.                                       *)
Before == status = "traverse" => built = <<>>
After == status = "build" =>
  Len(stack) = 0 /\ \E k \in 1 .. Len(resolved) : resolved[k] = MainNode
Closed == \A k \in 1 .. Len(resolved) : Imported(resolved[k]) \subseteq modules
Sources == Cardinality(modules) <= TableCapacity =>
  \A k \in 1 .. Len(built) :
    \E j \in 1 .. Len(resolved) : resolved[j] = built[k]

Phases == Before /\ After /\ Closed /\ Sources

LEMMA InitPhases == Init => Phases
  BY DEF Init, Phases, Before, After, Closed, Sources

LEMMA NextPhases == IInv /\ Phases /\ [Next]_vars => Phases'
<1> SUFFICES ASSUME IInv, Phases, [Next]_vars PROVE Phases'
  OBVIOUS
<1>1. TypeOK
  BY DEF IInv
<1>2. ASSUME UNCHANGED <<imports, resolved>>, modules \subseteq modules'
      PROVE  Closed'
  BY <1>2 DEF Phases, Closed, Imported
<1>3. ASSUME skip_import \/ load_import PROVE Phases'
  <2>1. /\ status = "traverse" /\ status' = "traverse"
        /\ UNCHANGED <<imports, resolved, built>> /\ modules \subseteq modules'
    BY <1>3 DEF skip_import, load_import, Traversing
  <2>2. built' = <<>> /\ Len(built') = 0
    BY <2>1 DEF Phases, Before
  <2>3. QED
    BY <1>2, <2>1, <2>2 DEF Phases, Before, After, Sources
<1>4. ASSUME load_fails \/ resolve_fails PROVE Phases'
  <2>1. /\ status' \notin {"traverse", "build"}
        /\ UNCHANGED <<imports, modules, resolved, built>>
    BY <1>4 DEF load_fails, resolve_fails, loading
  <2>2. QED
    BY <1>2, <2>1 DEF Phases, Before, After, Sources
<1>5. ASSUME resolve_module PROVE Phases'
  <2>1. /\ status = "traverse" /\ Traversing
        /\ Imported(top) \subseteq modules
        /\ resolved' = Append(resolved, top)
        /\ stack' = SubSeq(stack, 1, Len(stack) - 1)
        /\ \/ Len(stack) = 1 /\ status' = "build"
           \/ status' = "traverse"
        /\ UNCHANGED <<imports, modules, built>>
    BY <1>5 DEF resolve_module, Traversing
  <2>2. built = <<>> /\ Len(built') = 0
    BY <2>1 DEF Phases, Before
  <2>3. top \in Node /\ top = stack[Len(stack)]
    BY <2>1, TopFacts
  <2>4. /\ Len(resolved) \in Nat /\ Len(resolved') = Len(resolved) + 1
        /\ \A k \in 1 .. Len(resolved) : resolved'[k] = resolved[k]
        /\ resolved'[Len(resolved) + 1] = top
    BY <1>1, <2>1, <2>3 DEF TypeOK
  <2>5. Before' /\ Sources'
    BY <2>1, <2>2 DEF Before, Sources
  <2>6. Closed'
    <3> SUFFICES ASSUME NEW k \in 1 .. Len(resolved')
                 PROVE  Imported(resolved'[k]) \subseteq modules
      BY <2>1 DEF Closed, Imported
    <3>1. k \in 1 .. Len(resolved) \/ k = Len(resolved')
      BY <2>4
    <3>2. QED
      BY <2>1, <2>4, <3>1 DEF Phases, Closed
  <2>7. After'
    <3> SUFFICES ASSUME Len(stack) = 1, status' = "build" PROVE After'
      BY <2>1 DEF After
    <3>1. stack' = <<>>
      BY <2>1, SubSeqEmpty
    <3>2. top = MainNode
      BY <2>1, <2>3 DEF IInv, Rooted
    <3>3. QED
      BY <2>4, <3>1, <3>2 DEF After
  <2>8. QED
    BY <2>5, <2>6, <2>7 DEF Phases
<1>6. ASSUME build_main \/ build_module \/ build_garbage \/ build_ends
      PROVE  Phases'
  <2>1. /\ status = "build" /\ status' \in {"build", Undefined, "done"}
        /\ UNCHANGED <<imports, stack, modules, resolved>>
    BY <1>6 DEF build_main, build_module, build_garbage, build_ends, loading
  <2> SUFFICES ASSUME Cardinality(modules) <= TableCapacity PROVE Sources'
    BY <1>2, <2>1 DEF Phases, Before, After, Sources, Undefined
  <2>2. \/ UNCHANGED built
        \/ \E n \in modules \cup {MainNode} :
             built' = <<n>> \/ built' = Append(built, n)
    <3>1. ~build_garbage
      <4>1. /\ IsFiniteSet(modules) /\ Cardinality(modules) \in Nat
            /\ TableCapacity \in Nat
        BY <1>1, PathsAssumption, FS_Subset, FS_CardinalityType DEF TypeOK
      <4> QED
        BY <1>1, <4>1, GarbageOnlyGrown
    <3> QED
      BY <1>6, <3>1 DEF build_main, build_module, build_ends
  <2>3. \A n \in modules \cup {MainNode} :
          \E j \in 1 .. Len(resolved) : resolved[j] = n
    BY <2>1 DEF Phases, After, IInv, Split
  <2>4. CASE UNCHANGED built
    BY <2>1, <2>4 DEF Phases, Sources
  <2>5. ASSUME NEW n \in modules \cup {MainNode},
               built' = <<n>> \/ built' = Append(built, n)
        PROVE  Sources'
    <3>1. \A k \in 1 .. Len(built') :
            (k \in 1 .. Len(built) /\ built'[k] = built[k]) \/ built'[k] = n
      <4>1. CASE built' = <<n>>
        BY <4>1
      <4>2. CASE built' = Append(built, n)
        <5>1. built \in Seq(Node \cup {Garbage}) /\ Len(built) \in Nat
          BY <1>1, LenProperties DEF TypeOK
        <5>2. n \in Node \cup {Garbage}
          BY <1>1 DEF TypeOK, Node
        <5>3. /\ Len(built') = Len(built) + 1
              /\ \A k \in 1 .. Len(built) : built'[k] = built[k]
              /\ built'[Len(built) + 1] = n
          BY <4>2, <5>1, <5>2, AppendProperties
        <5> QED
          BY <5>1, <5>3
      <4> QED
        BY <2>5, <4>1, <4>2
    <3> QED
      BY <2>1, <2>3, <3>1 DEF Phases, Sources
  <2> QED
    BY <2>2, <2>4, <2>5
<1>7. CASE UNCHANGED vars
  BY <1>7 DEF vars, loading, Phases, Before, After, Closed, Sources, Imported
<1>8. QED
  BY <1>3, <1>4, <1>5, <1>6, <1>7 DEF Next

(* The phases of the driver hold throughout. *)
LEMMA PhasesInvariant == Spec => []Phases
<1>1. QED
  BY InitPhases, NextPhases, Invariance, PTL DEF Spec

(* As long as the table of modules has not grown, the code generator runs  *)
(* only on resolved nodes (main.c:86-93).                                  *)
THEOREM OnlyResolvedIsBuilt == Spec => []BuiltResolved
<1>1. IInv /\ Phases => BuiltResolved
  <2> SUFFICES ASSUME IInv, Phases PROVE BuiltResolved
    OBVIOUS
  <2>1. DOMAIN built = 1 .. Len(built) /\ DOMAIN resolved = 1 .. Len(resolved)
    BY LenProperties DEF IInv, TypeOK
  <2>2. QED
    BY <2>1 DEF Phases, Sources, BuiltResolved, Range
<1>2. QED
  BY <1>1, Invariance, PhasesInvariant, PTL
-----------------------------------------------------------------------------
(* The mapping of Imports to Closure, named for the proof.                 *)
Graph == [p \in Path |-> Range(imports[p])]
Outcome == IF status = "traverse" THEN "open"
           ELSE IF status \in {"build", "done"} \/ built # <<>>
                THEN "closed" ELSE "failed"

LEMMA GraphOfMain == C!Wanted = Imported(MainNode) \cup
                                  UNION {Graph[p] : p \in modules}
  BY PathsAssumption DEF C!Wanted, Graph, Imported, ImportedBy, FileOf

LEMMA GraphOf ==
  ASSUME NEW p \in Path
  PROVE  Graph[p] = Imported(p)
  BY PathsAssumption DEF Graph, Imported, ImportedBy, FileOf

(* The initial states are those of the closure. *)
LEMMA ClosureInit == Init => C!Init
<1> SUFFICES ASSUME Init PROVE C!Init
  OBVIOUS
<1>1. Graph \in [Path -> SUBSET Path]
  <2> SUFFICES ASSUME NEW p \in Path PROVE Range(imports[p]) \subseteq Path
    BY DEF Graph
  <2>1. TypeOK /\ p \in Node /\ FileOf(p) = p
    BY InitIInv, PathsAssumption DEF IInv, Node, FileOf
  <2>2. imports[p] \in Seq(Path)
    BY <2>1, ImportsAreSequences
  <2>3. QED
    BY <2>2, LenProperties DEF Range
<1>2. modules = {} /\ Outcome = "open"
  BY DEF Init, Outcome
<1>3. QED
  BY <1>1, <1>2 DEF C!Init, Graph, Outcome

(* Every step is a step of the closure, or leaves it unchanged: a file is  *)
(* loaded because a loaded file imports it, and the main file is resolved  *)
(* only when no import of a loaded file is missing.                        *)
LEMMA ClosureStep ==
  IInv /\ Phases /\ [Next]_vars => [C!Next]_(C!vars)
<1> SUFFICES ASSUME IInv, Phases, [Next]_vars
             PROVE  C!Next \/ UNCHANGED <<Graph, modules, Outcome>>
  BY DEF C!vars, Graph, Outcome
<1>1. TypeOK
  BY DEF IInv
<1>2. ASSUME UNCHANGED imports PROVE Graph' = Graph
  BY <1>2 DEF Graph
<1>3. ASSUME NEW n \in Path, n \in modules PROVE Imported(n) \subseteq C!Wanted
  BY <1>3, GraphOf, GraphOfMain
<1>4. ASSUME load_import PROVE C!Next
  <2>1. /\ Traversing /\ AtImport /\ import_path \notin modules
        /\ modules' = modules \cup {import_path}
        /\ UNCHANGED <<imports, status>> /\ status = "traverse"
    BY <1>4 DEF load_import, Traversing
  <2>2. /\ Len(stack) \in Nat \ {0} /\ top = stack[Len(stack)] /\ top \in Node
        /\ next[top] \in 1 .. Len(imports[FileOf(top)])
    BY <2>1, TopFacts DEF AtImport
  <2>3. import_path \in Path /\ import_path \in Imported(top)
    BY <1>1, <2>2, ImportedElement DEF import_path
  <2>4. top = MainNode \/ top \in modules
    <3>1. CASE Len(stack) = 1
      BY <2>1, <2>2, <3>1 DEF IInv, Rooted
    <3>2. CASE Len(stack) # 1
      <4>1. /\ Len(stack) - 1 \in 1 .. Len(stack) - 1
            /\ Len(stack) - 1 + 1 = Len(stack)
        <5>1. \A m \in Nat \ {0} : m # 1 => m - 1 \in 1 .. m - 1 /\ m - 1 + 1 = m
          OBVIOUS
        <5>2. QED
          BY <2>2, <3>2, <5>1
      <4>2. QED
        BY <2>2, <4>1 DEF IInv, Calls
    <3>3. QED
      BY <3>1, <3>2
  <2>5. import_path \in C!Wanted
    BY <1>1, <1>3, <2>3, <2>4, GraphOfMain DEF TypeOK
  <2>6. Outcome = "open" /\ Outcome' = "open" /\ Graph' = Graph
    BY <1>2, <2>1 DEF Outcome
  <2>7. C!Load(import_path)
    BY <2>1, <2>5, <2>6 DEF C!Load, Graph, Outcome
  <2>8. QED
    BY <2>3, <2>7 DEF C!Next
<1>5. ASSUME skip_import PROVE UNCHANGED <<Graph, modules, Outcome>>
  BY <1>2, <1>5 DEF skip_import, Outcome
<1>6. ASSUME load_fails \/ resolve_fails PROVE C!Next
  <2>1. /\ status = "traverse" /\ UNCHANGED <<imports, modules, built>>
        /\ status' \in Failures
    BY <1>6 DEF load_fails, resolve_fails, loading, Traversing, Failures
  <2>2. built' = <<>>
    BY <2>1 DEF Phases, Before
  <2>3. Outcome = "open" /\ Outcome' = "failed" /\ Graph' = Graph
    BY <1>2, <2>1, <2>2 DEF Outcome, Failures
  <2>4. C!GiveUp
    BY <2>1, <2>3 DEF C!GiveUp, Graph, Outcome
  <2>5. QED
    BY <2>4 DEF C!Next
<1>7. ASSUME resolve_module
      PROVE  C!Next \/ UNCHANGED <<Graph, modules, Outcome>>
  <2>1. /\ Traversing /\ ~AtImport /\ status = "traverse"
        /\ \/ Len(stack) = 1 /\ status' = "build"
           \/ UNCHANGED status
        /\ UNCHANGED <<imports, modules, built>>
    BY <1>7 DEF resolve_module, Traversing
  <2>2. Outcome = "open" /\ Graph' = Graph
    BY <1>2, <2>1 DEF Outcome
  <2>3. CASE UNCHANGED status
    BY <2>1, <2>2, <2>3 DEF Outcome
  <2>4. CASE Len(stack) = 1 /\ status' = "build"
    <3>1. top = MainNode
      BY <2>1, <2>4, TopFacts DEF IInv, Rooted
    <3>2. /\ Imported(MainNode) \subseteq modules
          /\ \A q \in modules : \E k \in 1 .. Len(resolved) : resolved[k] = q
      BY <2>1, <3>1, AtTheEnd
    <3>3. \A q \in modules : Graph[q] \subseteq modules
      <4> SUFFICES ASSUME NEW q \in modules PROVE Graph[q] \subseteq modules
        OBVIOUS
      <4>1. q \in Path
        BY <1>1 DEF TypeOK
      <4>2. PICK k \in 1 .. Len(resolved) : resolved[k] = q
        BY <3>2
      <4>3. Imported(q) \subseteq modules
        BY <4>2 DEF Phases, Closed
      <4>4. QED
        BY <4>1, <4>3, GraphOf
    <3>4. C!Wanted \subseteq modules
      BY <3>2, <3>3, GraphOfMain
    <3>5. Outcome' = "closed"
      BY <2>4 DEF Outcome
    <3>6. C!Close
      BY <2>1, <2>2, <3>4, <3>5 DEF C!Close, Graph, Outcome
    <3>7. QED
      BY <3>6 DEF C!Next
  <2>5. QED
    BY <2>1, <2>3, <2>4
<1>8. ASSUME build_main \/ build_module \/ build_garbage \/ build_ends
      PROVE  UNCHANGED <<Graph, modules, Outcome>>
  <2>1. UNCHANGED <<imports, modules>> /\ status = "build"
    BY <1>8 DEF build_main, build_module, build_garbage, build_ends, loading
  <2>2. \/ status' \in {"build", "done"}
        \/ status' = Undefined /\ UNCHANGED built /\ built # <<>>
    <3>1. CASE build_garbage
      <4>1. IsFiniteSet(modules)
        BY <1>1, PathsAssumption, FS_Subset DEF TypeOK
      <4>2. Cardinality(modules) \in Nat
        BY <4>1, FS_CardinalityType
      <4>3. Len(built) >= 1 \/ ~ Len(built) \in Cardinality(modules) + 1 .. Cells
        BY <4>2
      <4>4. Len(built) >= 1
        BY <3>1, <4>3 DEF build_garbage, Cell
      <4>5. built # <<>>
        BY <4>4
      <4>6. QED
        BY <3>1, <4>5 DEF build_garbage
    <3>2. CASE build_main \/ build_module \/ build_ends
      BY <3>2 DEF build_main, build_module, build_ends
    <3>3. QED
      BY <1>8, <3>1, <3>2
  <2>3. Outcome = "closed" /\ Outcome' = "closed"
    BY <2>1, <2>2 DEF Outcome, Undefined
  <2>4. QED
    BY <1>2, <2>1, <2>3
<1>9. CASE UNCHANGED vars
  BY <1>2, <1>9 DEF vars, loading, Outcome
<1>10. QED
  BY <1>4, <1>5, <1>6, <1>7, <1>8, <1>9 DEF Next

(* Loading implements the closure of the import relation. *)
THEOREM ClosureSafety == Spec => C!Init /\ [][C!Next]_(C!vars)
<1>1. QED
  BY ClosureInit, ClosureStep, Invariance, PhasesInvariant, PTL DEF Spec
-----------------------------------------------------------------------------
(* As long as the table has not grown: the main file is compiled first,    *)
(* then modules that were not.                                             *)
Listed ==
  status \in {"build", "done"} /\ Cardinality(modules) <= TableCapacity =>
    \/ built = <<>> /\ status = "build"
    \/ /\ Len(built) >= 1 /\ built[1] = MainNode /\ IsInjective(built)
       /\ Range(built) \subseteq modules \cup {MainNode}
       /\ IsFiniteSet(Range(built)) /\ Cardinality(Range(built)) = Len(built)
       /\ status = "done" => Len(built) = Cardinality(modules) + 1

(* Every step keeps it. *)
LEMMA ListedNext == IInv /\ Phases /\ Listed /\ [Next]_vars => Listed'
<1> SUFFICES ASSUME IInv, Phases, Listed, [Next]_vars PROVE Listed'
  OBVIOUS
<1>1. /\ IsFiniteSet(modules) /\ Cardinality(modules) \in Nat /\ MainNode \notin modules
      /\ Cardinality(modules) <= Cardinality(Path) /\ Cardinality(Path) \in Nat
      /\ built \in Seq(Node \cup {Garbage}) /\ Len(built) \in Nat
      /\ DOMAIN built = 1 .. Len(built)
  BY PathsAssumption, FS_Subset, FS_CardinalityType, LenProperties DEF IInv, TypeOK
<1>2. Cardinality(modules) <= TableCapacity => Cells = Cardinality(modules)
  <2>1. Cardinality(modules) \in 0 .. Cardinality(Path)
    BY <1>1
  <2> QED
    BY <2>1, LengthUngrown DEF Cells
<1>3. CASE \/ skip_import \/ load_import \/ load_fails \/ resolve_module \/ resolve_fails
  <2>1. status = "traverse" /\ built' = built
    BY <1>3 DEF skip_import, load_import, load_fails, resolve_module, resolve_fails, Traversing, loading
  <2>2. built' = <<>>
    BY <2>1 DEF Phases, Before
  <2>3. status' # "done"
    BY <1>3, <2>1 DEF skip_import, load_import, load_fails, resolve_module, resolve_fails, Failures
  <2> QED
    BY <2>2, <2>3 DEF Listed
<1>4. CASE build_main
  <2>1. built' = <<MainNode>> /\ status' = "build"
    BY <1>4 DEF build_main
  <2>2. /\ Len(built') = 1 /\ built'[1] = MainNode /\ IsInjective(built')
        /\ Range(built') = {MainNode}
    BY <2>1 DEF IsInjective, Range
  <2>3. IsFiniteSet({MainNode}) /\ Cardinality({MainNode}) = 1
    BY FS_Singleton
  <2>4. Range(built') \subseteq modules' \cup {MainNode}
    BY <2>2
  <2>5. IsFiniteSet(Range(built')) /\ Cardinality(Range(built')) = Len(built')
    BY <2>2, <2>3
  <2>6. Len(built') >= 1 /\ status' # "done"
    BY <2>1, <2>2
  <2> QED
    BY <2>2, <2>4, <2>5, <2>6 DEF Listed
<1>5. CASE build_module
  <2> SUFFICES ASSUME Cardinality(modules) <= TableCapacity PROVE Listed'
    BY <1>5 DEF build_module, loading, Listed
  <2>1. PICK p \in modules \ Range(built) : built' = Append(built, p)
    BY <1>5 DEF build_module
  <2>2. /\ status = "build" /\ status' = "build" /\ modules' = modules
        /\ Len(built) >= 1 /\ Len(built) <= Cardinality(modules)
    BY <1>1, <1>5 DEF build_module, Cell, loading
  <2>3. built # <<>>
    BY <2>2
  <2>4. /\ built[1] = MainNode /\ IsInjective(built)
        /\ Range(built) \subseteq modules \cup {MainNode}
        /\ IsFiniteSet(Range(built)) /\ Cardinality(Range(built)) = Len(built)
    BY <2>2, <2>3 DEF Listed
  <2>5. p \in Node \cup {Garbage}
    BY DEF IInv, TypeOK, Node
  <2>6. /\ built' \in Seq(Node \cup {Garbage}) /\ Len(built') = Len(built) + 1
        /\ \A k \in 1 .. Len(built) : built'[k] = built[k]
        /\ built'[Len(built) + 1] = p
    BY <1>1, <2>1, <2>5, AppendProperties
  <2>7. DOMAIN built' = 1 .. Len(built) + 1
    BY <2>6, LenProperties
  <2>8. \A k \in 1 .. Len(built) + 1 : k \in 1 .. Len(built) \/ k = Len(built) + 1
    BY <1>1
  <2>9. \A k \in 1 .. Len(built) : k \in 1 .. Len(built) + 1 /\ built[k] \in Range(built)
    BY <1>1 DEF Range
  <2>10. Range(built') = Range(built) \cup {p}
    <3>1. Len(built) + 1 \in 1 .. Len(built) + 1
      BY <1>1
    <3> QED
      BY <1>1, <2>6, <2>7, <2>8, <2>9, <3>1 DEF Range
  <2>11. IsInjective(built')
    BY <1>1, <2>1, <2>4, <2>6, <2>7, <2>8, <2>9 DEF IsInjective
  <2>12. /\ IsFiniteSet(Range(built) \cup {p})
         /\ Cardinality(Range(built) \cup {p}) = Cardinality(Range(built)) + 1
    BY <2>1, <2>4, FS_AddElement
  <2>13. Len(built') >= 1 /\ built'[1] = MainNode
    BY <1>1, <2>2, <2>4, <2>6
  <2> QED
    BY <2>2, <2>4, <2>6, <2>10, <2>11, <2>12, <2>13 DEF Listed
<1>6. CASE build_garbage
  <2> SUFFICES ASSUME Cardinality(modules) <= TableCapacity PROVE FALSE
    BY <1>6 DEF build_garbage, loading, Listed
  <2>1. Cell \in Cardinality(modules) + 1 .. Cardinality(modules)
    BY <1>2, <1>6 DEF build_garbage
  <2> QED
    BY <1>1, <2>1
<1>7. CASE build_ends
  <2> SUFFICES ASSUME Cardinality(modules) <= TableCapacity PROVE Listed'
    BY <1>7 DEF build_ends, loading, Listed
  <2>1. /\ status = "build" /\ modules' = modules /\ built' = built
        /\ Len(built) = Cardinality(modules) + 1
    BY <1>2, <1>7 DEF build_ends, Cell, loading
  <2>2. built # <<>>
    BY <1>1, <2>1
  <2> QED
    BY <2>1, <2>2 DEF Listed
<1>8. CASE UNCHANGED vars
  BY <1>8 DEF vars, loading, Listed
<1> QED
  BY <1>3, <1>4, <1>5, <1>6, <1>7, <1>8 DEF Next

(* As long as the table of modules has not grown, the program is compiled  *)
(* whole: the main file first and then every module once (main.c:85-93).   *)
THEOREM ModulesBuiltOnce == Spec => []BuiltOnce
<1>1. Init => Listed
  BY DEF Init, Listed
<1>2. IInv /\ Listed => BuiltOnce
  <2> SUFFICES ASSUME IInv, Listed, status = "done", Cardinality(modules) <= TableCapacity
               PROVE  /\ IsInjective(built) /\ built[1] = MainNode
                      /\ Range(built) = modules \cup {MainNode}
    BY DEF BuiltOnce
  <2>1. /\ built[1] = MainNode /\ IsInjective(built)
        /\ Range(built) \subseteq modules \cup {MainNode}
        /\ Cardinality(Range(built)) = Cardinality(modules) + 1
    BY DEF Listed
  <2>2. IsFiniteSet(modules) /\ MainNode \notin modules
    BY PathsAssumption, FS_Subset DEF IInv, TypeOK
  <2>3. /\ IsFiniteSet(modules \cup {MainNode})
        /\ Cardinality(modules \cup {MainNode}) = Cardinality(modules) + 1
    BY <2>2, FS_AddElement
  <2>4. Range(built) = modules \cup {MainNode}
    BY <2>1, <2>3, FS_Subset
  <2> QED
    BY <2>1, <2>4
<1> QED
  BY <1>1, <1>2, ListedNext, Invariance, PhasesInvariant, PTL DEF Spec

-----------------------------------------------------------------------------
(* The table of modules. *)

(* A probe index is a slot. *)
LEMMA HashInRange ==
  ASSUME NEW key \in Keys \cup {NULL}, NEW max \in Nat \ {0}
  PROVE  hash(key, max) \in 0 .. max - 1
  BY ConstantsAssumption, SMT DEF hash

LEMMA ProbeInRange ==
  ASSUME NEW key \in Keys \cup {NULL}, capacity \in Nat, NEW d \in Slots
  PROVE  Probe(key, d) \in Slots
<1>1. capacity \in Nat \ {0}
  BY SMT DEF Slots
<1> DEFINE home == hash(key, capacity)
<1>2. home \in 0 .. capacity - 1
  BY <1>1, HashInRange
<1> HIDE DEF home
<1>3. QED
  BY <1>1, <1>2, SMT DEF Slots, Probe, home

(* The probe sequence of a key visits every slot. *)
LEMMA ProbeCovers ==
  ASSUME NEW key \in Keys \cup {NULL}, capacity \in Nat, NEW s \in Slots
  PROVE  \E d \in Slots : Probe(key, d) = s
<1>1. capacity \in Nat \ {0}
  BY SMT DEF Slots
<1> DEFINE home == hash(key, capacity)
           d == IF s >= home THEN s - home ELSE s - home + capacity
<1>2. home \in 0 .. capacity - 1
  BY <1>1, HashInRange
<1>3. Probe(key, d) = IF home + d < capacity THEN home + d
                                             ELSE home + d - capacity
  BY DEF Probe
<1> HIDE DEF home
<1>4. d \in Slots
  BY <1>1, <1>2, SMT DEF Slots
<1>5. Probe(key, d) = s
  BY <1>1, <1>2, <1>3, SMT DEF Slots
<1>6. QED
  BY <1>4, <1>5
-----------------------------------------------------------------------------
(* The used slots are among finitely many. *)
LEMMA UsedFinite ==
  ASSUME capacity \in Nat
  PROVE  IsFiniteSet(Used) /\ Cardinality(Used) \in Nat
<1>1. IsFiniteSet(Slots)
  BY FS_Interval, SMT DEF Slots
<1>2. Used \in SUBSET Slots
  BY DEF Used
<1>3. QED
  BY <1>1, <1>2, FS_Subset, FS_CardinalityType

(* As long as fewer slots are used than there are, some slot is free, and  *)
(* the probe sequence of every key comes to it.                            *)
LEMMA FreeSlotStops ==
  ASSUME TableTypeOK, Cardinality(Used) < capacity, NEW key \in Keys \cup {NULL}
  PROVE  \E d \in Slots : Stops(key, Probe(key, d))
<1>1. capacity \in Nat
  BY DEF TableTypeOK
<1>2. Cardinality(Slots) = capacity /\ IsFiniteSet(Slots)
  BY <1>1, FS_Interval, SMT DEF Slots
<1>3. Used # Slots
  BY <1>1, <1>2, UsedFinite, SMT
<1>4. PICK s \in Slots : entries[s].key = NULL
  BY <1>3 DEF Used
<1>5. PICK d \in Slots : Probe(key, d) = s
  BY <1>1, <1>4, ProbeCovers
<1>6. QED
  BY <1>4, <1>5 DEF Stops

(* What table_put_inner does to the types and to the number of used slots. *)
LEMMA InnerStep ==
  ASSUME TableTypeOK,
         NEW key, NEW element, [key |-> key, element |-> element] \in Entry,
         table_put_inner(key, element)
  PROVE  /\ capacity' = capacity
         /\ entries' \in [Slots' -> Entry]
         /\ length' \in {length, length + 1}
         /\ Cardinality(Used') \in Nat
         /\ Cardinality(Used') - Cardinality(Used) \in 0 .. length' - length
<1>1. key \in Keys \cup {NULL}
  BY SMT DEF Entry, EmptyEntry
<1>2. PICK d \in Slots :
        LET s == Probe(key, d) IN
          /\ Stops(key, s)
          /\ length' = IF entries[s].key = NULL THEN length + 1 ELSE length
          /\ entries' =
               [entries EXCEPT ![s] = [key |-> key, element |-> element]]
          /\ UNCHANGED capacity
  BY DEF table_put_inner
<1> DEFINE s == Probe(key, d)
<1>3. s \in Slots
  BY <1>1, ProbeInRange DEF TableTypeOK
<1>a. /\ Stops(key, s)
      /\ length' = IF entries[s].key = NULL THEN length + 1 ELSE length
      /\ entries' = [entries EXCEPT ![s] = [key |-> key, element |-> element]]
      /\ capacity' = capacity
  BY <1>2
<1> HIDE DEF s
<1>4. Slots' = Slots
  BY <1>a DEF Slots
<1>5. entries \in [Slots -> Entry]
  BY DEF TableTypeOK
<1>6. entries' \in [Slots' -> Entry]
  BY <1>a, <1>4, <1>5
<1>7. Used' = IF key = NULL THEN Used \ {s} ELSE Used \cup {s}
  BY <1>3, <1>4, <1>5, <1>a DEF Used
<1>8. IsFiniteSet(Used) /\ Cardinality(Used) \in Nat /\ length \in Nat
  BY UsedFinite DEF TableTypeOK
<1>9. CASE entries[s].key = NULL
  <2>1. length' = length + 1
    BY <1>a, <1>9
  <2>2. Used' = Used \/ Used' = Used \cup {s}
    BY <1>7, <1>9 DEF Used
  <2>3. Cardinality(Used') \in {Cardinality(Used), Cardinality(Used) + 1}
    BY <1>8, <2>2, FS_AddElement
  <2>4. QED
    BY <1>8, <1>a, <1>6, <2>1, <2>3, SMT
<1>10. CASE entries[s].key # NULL
  <2>1. key # NULL /\ s \in Used
    BY <1>3, <1>a, <1>10 DEF Stops, Used
  <2>2. Used' = Used
    BY <1>7, <2>1
  <2>3. length' = length
    BY <1>a, <1>10
  <2>4. QED
    BY <1>8, <1>a, <1>6, <2>2, <2>3, SMT
<1>11. QED
  BY <1>9, <1>10
-----------------------------------------------------------------------------
(* The strengthening.  A pending table_put has one slot to spare beyond    *)
(* those that the entries still in the old array can take (Room); that it  *)
(* starts with one is because length, which decides on growth, never       *)
(* counts fewer than the used slots (Counted).                             *)
Settled == put = NULL => old_capacity = 0
Room == put # NULL => Cardinality(Used) + (old_capacity - i) < capacity
Counted == Cardinality(Used) <= length
Fits == IsFiniteSet(DOMAIN listing.elements) /\ ListingFits
TInv == TableTypeOK /\ Settled /\ Room /\ Counted /\ Fits

LEMMA InitTInv == table_init => TInv
<1> SUFFICES ASSUME table_init PROVE TInv
  OBVIOUS
<1>1. capacity = 0 /\ old_capacity = 0 /\ length = 0 /\ i = 0 /\ put = NULL
  BY DEF table_init
<1>2. Slots = {} /\ 0 .. old_capacity - 1 = {}
  BY <1>1, SMT DEF Slots
<1>3. Empty(0) \in [{} -> Entry]
  BY SMT DEF Empty
<1>4. entries \in [Slots -> Entry] /\ old_entries \in [{} -> Entry]
  BY <1>2, <1>3 DEF table_init
<1>5. DOMAIN listing.elements = {} /\ listing.allocated = 0
  BY DEF table_init
<1>6. exited \in BOOLEAN /\ answer = NULL
  BY DEF table_init
<1>7. TableTypeOK
  BY <1>1, <1>2, <1>4, <1>5, <1>6, SMT DEF TableTypeOK
<1>8. Used = {}
  BY <1>2 DEF Used
<1>9. QED
  BY <1>1, <1>5, <1>7, <1>8, FS_EmptySet, SMT
     DEF TInv, Settled, Room, Counted, Fits, ListingFits

(* Every step of the table keeps the strengthening. *)
LEMMA NextTInv == TInv /\ [TableNext]_table_vars => TInv'
<1> SUFFICES ASSUME TInv, [TableNext]_table_vars PROVE TInv'
  OBVIOUS
<1>1. TableTypeOK /\ Settled /\ Room /\ Counted /\ Fits
  BY DEF TInv
<1>2. IsFiniteSet(Used) /\ Cardinality(Used) \in Nat
  BY <1>1, UsedFinite DEF TableTypeOK
<1>3. ASSUME NEW k \in Keys, NEW e \in Elements, table_put(k, e) PROVE TInv'
  <2>1. UNCHANGED <<capacity, length, entries, old_capacity, old_entries, i,
                    exited, answer, listing>>
    BY <1>3 DEF table_put, table, rehash, results
  <2>2. put = NULL /\ length + 1 <= capacity
    BY <1>1, <1>3, SMT DEF table_put, Idle, Full, TableTypeOK
  <2>3. put' \in [key : Keys, element : Elements] /\ put' # NULL
    BY <1>3, ConstantsAssumption DEF table_put
  <2>4. Used' = Used
    BY <2>1 DEF Used, Slots
  <2>5. TableTypeOK'
    BY <1>1, <2>1, <2>3 DEF TableTypeOK, Slots
  <2>6. Room'
    BY <1>1, <1>2, <2>1, <2>2, <2>4, SMT DEF Room, Settled, Counted, TableTypeOK
  <2>7. QED
    BY <1>1, <2>1, <2>3, <2>4, <2>5, <2>6
       DEF TInv, Settled, Counted, Fits, ListingFits
<1>4. ASSUME NEW k \in Keys, NEW e \in Elements, table_put_grow(k, e)
      PROVE  TInv'
  <2>1. /\ UNCHANGED <<length, exited, answer, listing>>
        /\ put = NULL
        /\ old_capacity' = capacity /\ old_entries' = entries /\ i' = 0
        /\ capacity' = NewCapacity /\ entries' = Empty(NewCapacity)
    BY <1>4 DEF table_put_grow, results, Idle
  <2>2. put' \in [key : Keys, element : Elements] /\ put' # NULL
    BY <1>4, ConstantsAssumption DEF table_put_grow
  <2>3. NewCapacity \in Nat /\ capacity < NewCapacity
    BY <1>1, ConstantsAssumption, SMT DEF NewCapacity, TableTypeOK
  <2>4. entries' = [s \in Slots' |-> EmptyEntry]
    BY <2>1 DEF Empty, Slots
  <2>5. Used' = {}
    BY <2>4 DEF Used, EmptyEntry
  <2>6. TableTypeOK'
    <3>1. entries' \in [Slots' -> Entry]
      BY <2>4 DEF Entry
    <3>2. old_entries' \in [0 .. old_capacity' - 1 -> Entry]
      BY <1>1, <2>1 DEF TableTypeOK, Slots
    <3>3. capacity' \in Nat /\ old_capacity' \in Nat /\ i' \in 0 .. old_capacity'
      BY <1>1, <2>1, <2>3, SMT DEF TableTypeOK
    <3>4. QED
      BY <1>1, <2>1, <2>2, <3>1, <3>2, <3>3 DEF TableTypeOK
  <2>7. Cardinality(Used') = 0
    BY <2>5, FS_EmptySet
  <2>8. Room' /\ Counted'
    BY <1>1, <2>1, <2>3, <2>7, SMT DEF Room, Counted, TableTypeOK
  <2>9. QED
    BY <1>1, <2>1, <2>2, <2>6, <2>8 DEF TInv, Settled, Fits, ListingFits
<1>5. ASSUME table_put_exit PROVE TInv'
  <2>1. UNCHANGED <<capacity, length, entries, old_capacity, old_entries, i,
                    put, answer, listing>> /\ exited' = TRUE
    BY <1>5 DEF table_put_exit, table, rehash, results
  <2>2. Used' = Used
    BY <2>1 DEF Used, Slots
  <2>3. TableTypeOK'
    BY <1>1, <2>1 DEF TableTypeOK, Slots
  <2>4. QED
    BY <1>1, <2>1, <2>2, <2>3
       DEF TInv, Settled, Room, Counted, Fits, ListingFits
<1>6. ASSUME rehash_step PROVE TInv'
  <2> DEFINE old == old_entries[i]
  <2>1. /\ UNCHANGED <<old_capacity, old_entries, put, exited, answer, listing>>
        /\ put # NULL /\ i < old_capacity /\ i' = i + 1
        /\ table_put_inner(old.key, old.element)
    BY <1>6 DEF rehash_step, results
  <2>2. i \in 0 .. old_capacity - 1 /\ i' \in 0 .. old_capacity
    BY <1>1, <2>1, SMT DEF TableTypeOK
  <2>3. old \in Entry
    BY <1>1, <2>2 DEF TableTypeOK
  <2>4. [key |-> old.key, element |-> old.element] \in Entry
    BY <2>3, SMT DEF Entry, EmptyEntry
  <2> HIDE DEF old
  <2>5. /\ capacity' = capacity /\ entries' \in [Slots' -> Entry]
        /\ length' \in {length, length + 1}
        /\ Cardinality(Used') \in Nat
        /\ Cardinality(Used') - Cardinality(Used) \in 0 .. length' - length
    BY <1>1, <2>1, <2>4, InnerStep
  <2>6. /\ length' \in Nat
        /\ Cardinality(Used') <= length'
        /\ Cardinality(Used') <= Cardinality(Used) + 1
    BY <1>1, <1>2, <2>5, SMT DEF Counted, TableTypeOK
  <2>7. TableTypeOK'
    BY <1>1, <2>1, <2>2, <2>5, <2>6 DEF TableTypeOK, Slots
  <2>8. Room'
    <3>1. Cardinality(Used) + (old_capacity - i) < capacity
      BY <1>1, <2>1 DEF Room
    <3>2. /\ capacity \in Nat /\ old_capacity \in Nat /\ i \in Int
          /\ i' = i + 1 /\ old_capacity' = old_capacity
      BY <1>1, <2>1, SMT DEF TableTypeOK
    <3>3. Cardinality(Used') + (old_capacity' - i') < capacity'
      BY <1>2, <2>5, <2>6, <3>1, <3>2, SMT
    <3>4. QED
      BY <3>3 DEF Room
  <2>9. QED
    BY <1>1, <2>1, <2>6, <2>7, <2>8
       DEF TInv, Settled, Counted, Fits, ListingFits
<1>7. ASSUME insert PROVE TInv'
  <2>1. /\ UNCHANGED <<exited, answer, listing>>
        /\ put # NULL /\ put' = NULL
        /\ old_capacity' = 0 /\ old_entries' = Empty(0) /\ i' = 0
        /\ table_put_inner(put.key, put.element)
    BY <1>7 DEF insert, results
  <2>2. [key |-> put.key, element |-> put.element] \in Entry
    BY <1>1, <2>1 DEF TableTypeOK, Entry
  <2>3. /\ capacity' = capacity /\ entries' \in [Slots' -> Entry]
        /\ length' \in {length, length + 1}
        /\ Cardinality(Used') \in Nat
        /\ Cardinality(Used') - Cardinality(Used) \in 0 .. length' - length
    BY <1>1, <2>1, <2>2, InnerStep
  <2>4. length' \in Nat /\ Cardinality(Used') <= length'
    BY <1>1, <1>2, <2>3, SMT DEF Counted, TableTypeOK
  <2>5. old_entries' \in [0 .. old_capacity' - 1 -> Entry]
    BY <2>1 DEF Empty, Entry
  <2>6. TableTypeOK'
    BY <1>1, <2>1, <2>3, <2>4, <2>5 DEF TableTypeOK, Slots
  <2>7. QED
    BY <1>1, <2>1, <2>4, <2>6
       DEF TInv, Settled, Room, Counted, Fits, ListingFits
<1>8. ASSUME NEW k \in Keys, table_get(k) PROVE TInv'
  <2>1. UNCHANGED <<capacity, length, entries, old_capacity, old_entries, i,
                    put, exited, listing>>
    BY <1>8 DEF table_get, table, rehash
  <2>2. answer' \in Elements \cup {NULL}
    <3>1. CASE answer' = NULL
      BY <3>1
    <3>2. CASE \E d \in Slots : answer' = entries[Probe(k, d)].element
      <4>1. PICK d \in Slots : answer' = entries[Probe(k, d)].element
        BY <3>2
      <4>2. entries[Probe(k, d)] \in Entry
        BY <1>1, ProbeInRange DEF TableTypeOK
      <4>3. QED
        BY <4>1, <4>2, SMT DEF Entry, EmptyEntry
    <3>3. QED
      BY <1>8, <3>1, <3>2 DEF table_get
  <2>3. Used' = Used
    BY <2>1 DEF Used, Slots
  <2>4. TableTypeOK'
    BY <1>1, <2>1, <2>2 DEF TableTypeOK, Slots
  <2>5. QED
    BY <1>1, <2>1, <2>3, <2>4
       DEF TInv, Settled, Room, Counted, Fits, ListingFits
<1>9. ASSUME table_get_all PROVE TInv'
  <2>1. UNCHANGED <<capacity, length, entries, old_capacity, old_entries, i,
                    put, exited, answer>>
    BY <1>9 DEF table_get_all, table, rehash
  <2>2. /\ listing'.allocated = length
        /\ listing'.elements = [s \in Used |-> entries[s].element]
    BY <1>9 DEF table_get_all
  <2>3. Used' = Used
    BY <2>1 DEF Used, Slots
  <2>4. \A s \in Used : entries[s].element \in Elements
    BY <1>1, SMT DEF TableTypeOK, Used, Entry, EmptyEntry
  <2>5. TableTypeOK'
    BY <1>1, <2>1, <2>2, <2>4 DEF TableTypeOK, Slots
  <2>6. Fits'
    BY <1>1, <1>2, <2>2 DEF Fits, ListingFits, Counted
  <2>7. QED
    BY <1>1, <2>1, <2>3, <2>5, <2>6 DEF TInv, Settled, Room, Counted
<1>10. CASE UNCHANGED table_vars
  <2>1. UNCHANGED <<capacity, length, entries, old_capacity, old_entries, i,
                    put, exited, answer, listing>>
    BY <1>10 DEF table_vars, table, rehash, results
  <2>2. Used' = Used
    BY <2>1 DEF Used, Slots
  <2>3. TableTypeOK'
    BY <1>1, <2>1 DEF TableTypeOK, Slots
  <2>4. QED
    BY <1>1, <2>1, <2>2, <2>3
       DEF TInv, Settled, Room, Counted, Fits, ListingFits
<1>11. QED
  BY <1>3, <1>4, <1>5, <1>6, <1>7, <1>8, <1>9, <1>10 DEF TableNext

(* The inductive invariant holds throughout: while a table_put is under    *)
(* way there is room for all that is still to be inserted, and length is   *)
(* never smaller than the number of used slots.                            *)
THEOREM TableInvariance == TableSpec => []TInv
<1>1. table_init => TInv
  BY InitTInv
<1>2. TInv /\ [TableNext]_table_vars => TInv'
  BY NextTInv
<1>3. QED
  BY <1>1, <1>2, PTL DEF TableSpec

(* Every variable stays within its type and both arrays within bounds. *)
THEOREM TableTypeCorrect == TableSpec => []TableTypeOK
<1>1. TInv => TableTypeOK
  BY DEF TInv
<1>2. QED
  BY <1>1, TableInvariance, PTL

(* table_put_inner always has a slot to stop at, whatever the names hash   *)
(* to and however often the table has grown: no look-up of a slot in       *)
(* table_put loops forever.                                                *)
THEOREM ProbingStops == TableSpec => []ProbeStops
<1>1. TInv => ProbeStops
  <2> SUFFICES ASSUME TInv, put # NULL
               PROVE  \E d \in Slots : Stops(NextKey, Probe(NextKey, d))
    BY DEF ProbeStops
  <2>1. TableTypeOK /\ IsFiniteSet(Used) /\ Cardinality(Used) \in Nat
    BY UsedFinite DEF TInv, TableTypeOK
  <2>2. Cardinality(Used) < capacity
    BY <2>1, SMT DEF TInv, Room, TableTypeOK
  <2>3. NextKey \in Keys \cup {NULL}
    <3>1. CASE i < old_capacity
      <4>1. i \in 0 .. old_capacity - 1
        BY <2>1, <3>1, SMT DEF TableTypeOK
      <4>2. old_entries[i] \in Entry
        BY <2>1, <4>1 DEF TableTypeOK
      <4>3. QED
        BY <3>1, <4>2, SMT DEF NextKey, Entry, EmptyEntry
    <3>2. CASE ~(i < old_capacity)
      BY <2>1, <3>2 DEF NextKey, TableTypeOK
    <3>3. QED
      BY <3>1, <3>2
  <2>4. QED
    BY <2>1, <2>2, <2>3, FreeSlotStops
<1>2. QED
  BY <1>1, TableInvariance, PTL

(* table_get_all never writes past the array it allocates. *)
THEOREM ListingInBounds == TableSpec => []ListingFits
<1>1. TInv => ListingFits
  BY DEF TInv, Fits
<1>2. QED
  BY <1>1, TableInvariance, PTL
-----------------------------------------------------------------------------
(* The table implements Map.  A used slot is where the probing loop comes  *)
(* to first when it looks for the key that is there (Chains), so that no   *)
(* key is in two slots.  While the old array is inserted again, the new    *)
(* one holds nothing but keys that were met in it already (Moved), which   *)
(* therefore go to free slots.                                             *)
At(size, key, d) ==
  IF (Digest[key] % size) + d < size THEN (Digest[key] % size) + d
                                     ELSE (Digest[key] % size) + d - size

(* The turn at which a probe for key, in an array of that size, meets s    *)
(* behind slots of other keys only.                                        *)
Meets(size, array, key, s, d) ==
  /\ At(size, key, d) = s
  /\ \A e \in 0 .. d - 1 : array[At(size, key, e)].key \notin {NULL, key}

Chains ==
  \A s \in Used : \E d \in Slots : Meets(capacity, entries, entries[s].key, s, d)

Unique == \A s, t \in Used : entries[s].key = entries[t].key => s = t

OldUnique ==
  \A s, t \in 0 .. old_capacity - 1 :
    old_entries[s].key # NULL /\ old_entries[s].key = old_entries[t].key => s = t

Moved ==
  old_capacity > 0 =>
    \A s \in Used : \E j \in 0 .. i - 1 : old_entries[j].key = entries[s].key

CInv == TInv /\ Chains /\ OldUnique /\ Moved

(* A key has at most one slot. *)
LEMMA ChainsUnique == TableTypeOK /\ Chains => Unique
<1> SUFFICES ASSUME TableTypeOK, Chains, NEW s \in Used, NEW t \in Used,
                    entries[s].key = entries[t].key
             PROVE  s = t
  BY DEF Unique
<1> DEFINE k == entries[s].key
<1>1. PICK d \in Slots : Meets(capacity, entries, k, s, d)
  BY DEF Chains
<1>2. PICK f \in Slots : Meets(capacity, entries, k, t, f)
  BY DEF Chains
<1>3. entries[s].key = k /\ entries[t].key = k
  OBVIOUS
<1> HIDE DEF k
<1>4. ~(d < f) /\ ~(f < d)
  BY <1>1, <1>2, <1>3 DEF Slots, Meets
<1> QED
  BY <1>1, <1>2, <1>4 DEF Slots, TableTypeOK, Meets

(* Where the probe for a key that is there stops is the slot of that key. *)
LEMMA ProbeMeets ==
  ASSUME NEW key, NEW d, \A e \in 0 .. d - 1 : ~Stops(key, Probe(key, e))
  PROVE  Meets(capacity, entries, key, Probe(key, d), d)
<1>1. \A e : Probe(key, e) = At(capacity, key, e)
  BY DEF Probe, hash, At
<1> QED
  BY <1>1 DEF Meets, Stops

(* What the inner function writes, and where. *)
LEMMA InnerSlot ==
  ASSUME TableTypeOK, NEW key, NEW element,
         [key |-> key, element |-> element] \in Entry,
         table_put_inner(key, element)
  PROVE  \E s \in Slots :
           /\ Stops(key, s)
           /\ length' = IF entries[s].key = NULL THEN length + 1 ELSE length
           /\ entries' = [entries EXCEPT ![s] = [key |-> key, element |-> element]]
           /\ capacity' = capacity /\ Slots' = Slots
           /\ \E d \in Slots : Meets(capacity, entries, key, s, d)
<1>1. key \in Keys \cup {NULL}
  BY SMT DEF Entry, EmptyEntry
<1>2. PICK d \in Slots :
        LET s == Probe(key, d) IN
          /\ Stops(key, s) /\ \A e \in 0 .. d - 1 : ~Stops(key, Probe(key, e))
          /\ length' = IF entries[s].key = NULL THEN length + 1 ELSE length
          /\ entries' = [entries EXCEPT ![s] = [key |-> key, element |-> element]]
          /\ UNCHANGED capacity
  BY DEF table_put_inner
<1>3. Probe(key, d) \in Slots
  BY <1>1, ProbeInRange DEF TableTypeOK
<1>4. Slots' = Slots
  BY <1>2 DEF Slots
<1>5. Meets(capacity, entries, key, Probe(key, d), d)
  BY <1>2, ProbeMeets
<1> QED
  BY <1>2, <1>3, <1>4, <1>5

(* A key stays where it was, and a new one is where it is looked for. *)
LEMMA InnerChains ==
  ASSUME TableTypeOK, Chains, NEW key \in Keys, NEW element \in Elements,
         table_put_inner(key, element)
  PROVE  Chains'
<1>1. [key |-> key, element |-> element] \in Entry
  BY DEF Entry
<1>2. PICK s \in Slots :
        /\ Stops(key, s)
        /\ entries' = [entries EXCEPT ![s] = [key |-> key, element |-> element]]
        /\ capacity' = capacity /\ Slots' = Slots
        /\ \E d \in Slots : Meets(capacity, entries, key, s, d)
  BY <1>1, InnerSlot
<1>3. /\ entries \in [Slots -> Entry] /\ capacity \in Nat
      /\ entries'[s].key = key /\ key # NULL
      /\ \A t \in Slots \ {s} : entries'[t] = entries[t]
  BY <1>2, ConstantsAssumption DEF TableTypeOK
<1>4. ASSUME NEW k \in Keys, NEW t \in Slots, NEW d \in Slots,
             Meets(capacity, entries, k, t, d), k # key \/ t = s
      PROVE  Meets(capacity, entries', k, t, d)
  <2> SUFFICES ASSUME NEW e \in 0 .. d - 1
               PROVE  entries'[At(capacity, k, e)].key \notin {NULL, k}
    BY <1>4 DEF Meets
  <2>1. entries[At(capacity, k, e)].key \notin {NULL, k}
    BY <1>4 DEF Meets
  <2>2. At(capacity, k, e) \in Slots
    <3>1. e \in Slots
      BY <1>3 DEF Slots
    <3>2. Probe(k, e) \in Slots
      BY <1>3, <3>1, ProbeInRange
    <3> QED
      BY <3>2 DEF Probe, hash, At
  <2>3. CASE At(capacity, k, e) # s
    BY <1>3, <2>1, <2>2, <2>3
  <2>4. CASE At(capacity, k, e) = s
    BY <1>2, <1>3, <1>4, <2>1, <2>4 DEF Stops, Meets
  <2> QED
    BY <2>3, <2>4
<1>5. ASSUME NEW t \in Slots, t # s, entries[t].key = key PROVE FALSE
  <2>1. PICK d \in Slots : Meets(capacity, entries, key, t, d)
    BY <1>3, <1>5 DEF Chains, Used
  <2>2. PICK f \in Slots : Meets(capacity, entries, key, s, f)
    BY <1>2
  <2>3. ~(d < f) /\ ~(f < d)
    BY <1>2, <1>5, <2>1, <2>2 DEF Slots, Meets, Stops
  <2> QED
    BY <1>3, <1>5, <2>1, <2>2, <2>3 DEF Slots, Meets
<1>6. ASSUME NEW t \in Slots, entries'[t].key # NULL
      PROVE  \E d \in Slots : Meets(capacity, entries', entries'[t].key, t, d)
  <2>1. CASE t = s
    BY <1>2, <1>3, <1>4, <2>1
  <2>2. CASE t # s
    <3>1. entries'[t] = entries[t] /\ entries[t].key \in Keys /\ t \in Used
      BY <1>3, <1>6, <2>2 DEF Entry, EmptyEntry, Used
    <3>2. entries[t].key # key
      BY <1>5, <2>2
    <3>3. PICK d \in Slots : Meets(capacity, entries, entries[t].key, t, d)
      BY <3>1 DEF Chains
    <3> QED
      BY <1>4, <3>1, <3>2, <3>3
  <2> QED
    BY <2>1, <2>2
<1> QED
  BY <1>2, <1>6 DEF Chains, Used

(* Every step of the rehash loop ends at a free slot. *)
LEMMA RehashFree ==
  ASSUME CInv, rehash_step
  PROVE  /\ i \in 0 .. old_capacity - 1 /\ old_entries[i] \in Entry
         /\ \E s \in Slots :
              /\ entries[s].key = NULL /\ entries[s] = EmptyEntry
              /\ length' = length + 1
              /\ entries' = [entries EXCEPT ![s] = old_entries[i]]
              /\ capacity' = capacity /\ Slots' = Slots
<1> DEFINE old == old_entries[i]
<1>1. TableTypeOK /\ i \in 0 .. old_capacity - 1 /\ old_capacity > 0
  BY DEF CInv, TInv, rehash_step, TableTypeOK
<1>2. old \in Entry /\ old = [key |-> old.key, element |-> old.element]
  BY <1>1 DEF TableTypeOK, Entry, EmptyEntry
<1>3. table_put_inner(old.key, old.element)
  BY DEF rehash_step
<1>4. \A t \in Used : entries[t].key # old.key
  <2> SUFFICES ASSUME NEW t \in Used, entries[t].key = old.key PROVE FALSE
    OBVIOUS
  <2>1. PICK j \in 0 .. i - 1 : old_entries[j].key = entries[t].key
    BY <1>1 DEF CInv, Moved
  <2> QED
    BY <1>1, <2>1 DEF CInv, OldUnique, Used, TableTypeOK
<1> HIDE DEF old
<1>5. PICK s \in Slots :
        /\ Stops(old.key, s)
        /\ length' = IF entries[s].key = NULL THEN length + 1 ELSE length
        /\ entries' = [entries EXCEPT ![s] = [key |-> old.key, element |-> old.element]]
        /\ capacity' = capacity /\ Slots' = Slots
  BY <1>1, <1>2, <1>3, InnerSlot
<1>6. entries[s].key = NULL
  BY <1>4, <1>5 DEF Stops, Used
<1>7. entries[s] = EmptyEntry
  BY <1>1, <1>6, ConstantsAssumption DEF TableTypeOK, Entry, EmptyEntry
<1> QED
  BY <1>1, <1>2, <1>5, <1>6, <1>7 DEF old

(* An old entry is moved to where its key will be looked for. *)
LEMMA RehashKeeps == ASSUME CInv, rehash_step PROVE Chains' /\ OldUnique' /\ Moved'
<1> DEFINE old == old_entries[i]
<1>1. PICK s \in Slots :
        /\ entries[s].key = NULL /\ entries[s] = EmptyEntry
        /\ entries' = [entries EXCEPT ![s] = old]
        /\ capacity' = capacity /\ Slots' = Slots
  BY RehashFree
<1>2. /\ TableTypeOK /\ Chains /\ OldUnique /\ Moved
      /\ i \in 0 .. old_capacity - 1 /\ old_capacity > 0 /\ old \in Entry
      /\ i' = i + 1 /\ old_capacity' = old_capacity /\ old_entries' = old_entries
      /\ table_put_inner(old.key, old.element)
  BY RehashFree DEF CInv, TInv, rehash_step, TableTypeOK
<1> HIDE DEF old
<1>3. Chains'
  <2>1. CASE old.key = NULL
    <3>1. old = EmptyEntry
      BY <1>2, <2>1, ConstantsAssumption DEF Entry, EmptyEntry
    <3>2. entries' = entries
      BY <1>1, <1>2, <3>1 DEF TableTypeOK
    <3> QED
      BY <1>1, <1>2, <3>2 DEF Chains, Used
  <2>2. CASE old.key # NULL
    <3>1. old.key \in Keys /\ old.element \in Elements
      BY <1>2, <2>2 DEF Entry, EmptyEntry
    <3> QED
      BY <1>2, <3>1, InnerChains
  <2> QED
    BY <2>1, <2>2
<1>4. OldUnique'
  BY <1>2 DEF OldUnique
<1>5. Moved'
  <2> SUFFICES ASSUME NEW t \in Used'
               PROVE  \E j \in 0 .. i : old_entries[j].key = entries'[t].key
    BY <1>2 DEF Moved
  <2>1. CASE t = s
    BY <1>1, <1>2, <2>1 DEF TableTypeOK, old
  <2>2. CASE t # s
    <3>1. t \in Used /\ entries'[t] = entries[t]
      BY <1>1, <1>2, <2>2 DEF TableTypeOK, Used
    <3>2. PICK j \in 0 .. i - 1 : old_entries[j].key = entries[t].key
      BY <1>2, <3>1 DEF Moved
    <3> QED
      BY <1>2, <3>1, <3>2
  <2> QED
    BY <2>1, <2>2
<1> QED
  BY <1>3, <1>4, <1>5

(* The old entries of a table that grows are those it had. *)
LEMMA GrowKeeps ==
  ASSUME CInv, NEW k \in Keys, NEW e \in Elements, table_put_grow(k, e)
  PROVE  Chains' /\ OldUnique' /\ Moved'
<1>1. /\ capacity' = NewCapacity /\ entries' = Empty(NewCapacity)
      /\ old_capacity' = capacity /\ old_entries' = entries
  BY DEF table_put_grow
<1>2. Used' = {}
  BY <1>1 DEF Used, Slots, Empty, EmptyEntry
<1>3. Unique
  BY ChainsUnique DEF CInv, TInv
<1> QED
  BY <1>1, <1>2, <1>3 DEF Chains, Moved, OldUnique, Unique, Used, Slots

(* The last line of table_put puts the key where it will be looked for. *)
LEMMA InsertKeeps == ASSUME CInv, insert PROVE Chains' /\ OldUnique' /\ Moved'
<1>1. put.key \in Keys /\ put.element \in Elements
  BY DEF insert, CInv, TInv, TableTypeOK
<1>2. Chains'
  BY <1>1, InnerChains DEF CInv, TInv, insert
<1> QED
  BY <1>2 DEF insert, OldUnique, Moved

(* What leaves table and rehash alone leaves the chains. *)
LEMMA OthersKeep ==
  ASSUME CInv, UNCHANGED <<table, rehash>>
  PROVE  Chains' /\ OldUnique' /\ Moved'
BY DEF CInv, Chains, OldUnique, Moved, table, rehash, Used, Slots

(* The strengthening holds of an empty table. *)
LEMMA CInit == table_init => CInv
<1>1. table_init => TInv
  BY InitTInv
<1>2. table_init => Chains /\ OldUnique /\ Moved
  BY DEF table_init, Chains, OldUnique, Moved, Used, Slots
<1> QED
  BY <1>1, <1>2 DEF CInv

(* Every step keeps the strengthening. *)
LEMMA CStep == CInv /\ [TableNext]_table_vars => CInv'
<1> SUFFICES ASSUME CInv, [TableNext]_table_vars PROVE CInv'
  OBVIOUS
<1>1. TInv'
  BY NextTInv DEF CInv
<1>2. ASSUME NEW k \in Keys, NEW e \in Elements, table_put_grow(k, e) PROVE CInv'
  BY <1>1, <1>2, GrowKeeps DEF CInv
<1>3. CASE rehash_step
  BY <1>1, <1>3, RehashKeeps DEF CInv
<1>4. CASE insert
  BY <1>1, <1>4, InsertKeeps DEF CInv
<1>5. CASE UNCHANGED <<table, rehash>>
  BY <1>1, <1>5, OthersKeep DEF CInv
<1>6. \/ \E k \in Keys, e \in Elements : table_put_grow(k, e)
      \/ rehash_step \/ insert \/ UNCHANGED <<table, rehash>>
  BY DEF TableNext, table_put, table_put_exit, table_get, table_get_all, table_vars
<1> QED
  BY <1>2, <1>3, <1>4, <1>5, <1>6
-----------------------------------------------------------------------------
Here(k) == {s \in Slots : entries[s].key = k}
There(k) == {s \in i .. old_capacity - 1 : old_entries[s].key = k}

(* What Bindings is when no key is in two slots. *)
Says ==
  /\ Bindings \in [Keys -> Elements \cup {NULL}]
  /\ \A s \in Used : Bindings[entries[s].key] = entries[s].element
  /\ \A s \in i .. old_capacity - 1 :
       old_entries[s].key # NULL /\ Here(old_entries[s].key) = {} =>
         Bindings[old_entries[s].key] = old_entries[s].element
  /\ \A k \in Keys : Here(k) = {} /\ There(k) = {} => Bindings[k] = NULL

(* The bindings of a table are those of its slots. *)
LEMMA BindingsSay == CInv => Says
<1> SUFFICES ASSUME CInv PROVE Says
  OBVIOUS
<1>1. /\ entries \in [Slots -> Entry] /\ old_entries \in [0 .. old_capacity - 1 -> Entry]
      /\ i \in 0 .. old_capacity /\ Unique /\ OldUnique
  BY ChainsUnique DEF CInv, TInv, TableTypeOK
<1>2. \A k \in Keys : Bindings[k] =
        IF Here(k) # {} THEN entries[CHOOSE s \in Here(k) : TRUE].element
        ELSE IF There(k) # {} THEN old_entries[CHOOSE s \in There(k) : TRUE].element
        ELSE NULL
  BY DEF Bindings, Here, There
<1>3. ASSUME NEW k \in Keys, NEW s \in Here(k)
      PROVE  Bindings[k] = entries[s].element /\ entries[s].element \in Elements
  <2>1. (CHOOSE t \in Here(k) : TRUE) \in Here(k)
    BY <1>3
  <2>2. \A t \in Here(k) : t = s
    BY <1>1, <1>3, ConstantsAssumption DEF Here, Unique, Used
  <2>3. entries[s] \in Entry /\ entries[s].key = k /\ k # NULL
    BY <1>1, <1>3, ConstantsAssumption DEF Here
  <2> QED
    BY <1>2, <1>3, <2>1, <2>2, <2>3 DEF Entry, EmptyEntry
<1>4. ASSUME NEW k \in Keys, NEW s \in There(k), Here(k) = {}
      PROVE  Bindings[k] = old_entries[s].element /\ old_entries[s].element \in Elements
  <2>1. (CHOOSE t \in There(k) : TRUE) \in There(k)
    BY <1>4
  <2>2. \A t \in There(k) : t = s
    BY <1>1, <1>4, ConstantsAssumption DEF There, OldUnique
  <2>3. old_entries[s] \in Entry /\ old_entries[s].key = k /\ k # NULL
    BY <1>1, <1>4, ConstantsAssumption DEF There
  <2> QED
    BY <1>2, <1>4, <2>1, <2>2, <2>3 DEF Entry, EmptyEntry
<1>5. \A k \in Keys : Here(k) = {} /\ There(k) = {} => Bindings[k] = NULL
  BY <1>2
<1>6. \A k \in Keys : Bindings[k] \in Elements \cup {NULL}
  BY <1>3, <1>4, <1>5
<1>7. Bindings \in [Keys -> Elements \cup {NULL}]
  BY <1>6 DEF Bindings
<1>8. ASSUME NEW s \in Used PROVE Bindings[entries[s].key] = entries[s].element
  <2>1. entries[s].key \in Keys /\ s \in Here(entries[s].key)
    BY <1>1 DEF Used, Here, Entry, EmptyEntry
  <2> QED
    BY <1>3, <2>1
<1>9. ASSUME NEW s \in i .. old_capacity - 1,
             old_entries[s].key # NULL, Here(old_entries[s].key) = {}
      PROVE  Bindings[old_entries[s].key] = old_entries[s].element
  <2>1. old_entries[s].key \in Keys /\ s \in There(old_entries[s].key)
    BY <1>1, <1>9 DEF There, Entry, EmptyEntry
  <2> QED
    BY <1>4, <1>9, <2>1
<1> QED
  BY <1>5, <1>7, <1>8, <1>9 DEF Says

(* The same of the next state. *)
LEMMA BindingsSayNext == CInv' => Says'
BY BindingsSay, PTL
-----------------------------------------------------------------------------
Kept == Bindings' = Bindings

(* A table that does not change has the same bindings. *)
LEMMA SameBindings == UNCHANGED <<table, rehash>> => Kept
BY DEF Kept, Bindings, table, rehash, Slots

(* Functions of one domain and the same values are equal. *)
LEMMA FunctionsEqual ==
  ASSUME NEW S, NEW T, NEW f \in [S -> T], NEW g \in [S -> T], \A x \in S : f[x] = g[x]
  PROVE  f = g
OBVIOUS

(* The old array binds what the array bound before. *)
LEMMA GrowSameBindings ==
  ASSUME CInv, CInv', NEW k \in Keys, NEW e \in Elements, table_put_grow(k, e)
  PROVE  Kept
<1>1. Says /\ Says'
  BY BindingsSay, BindingsSayNext
<1>2. /\ old_capacity = 0 /\ i = 0 /\ capacity \in Nat
      /\ capacity' = NewCapacity /\ entries' = Empty(NewCapacity)
      /\ old_capacity' = capacity /\ old_entries' = entries /\ i' = 0
  BY DEF table_put_grow, Idle, CInv, TInv, Settled, TableTypeOK
<1>3. ASSUME NEW n \in Keys PROVE Bindings'[n] = Bindings[n]
  <2>1. There(n) = {} /\ Here(n)' = {} /\ There(n)' = Here(n)
    BY <1>2, ConstantsAssumption DEF Here, There, Slots, Empty, EmptyEntry
  <2>2. CASE Here(n) = {}
    BY <1>1, <2>1, <2>2 DEF Says
  <2>3. CASE Here(n) # {}
    <3>1. PICK s \in Here(n) : TRUE
      BY <2>3
    <3>2. s \in Used /\ entries[s].key = n /\ s \in 0 .. capacity - 1
      BY <3>1, ConstantsAssumption DEF Here, Used, Slots
    <3>3. Bindings[n] = entries[s].element
      BY <1>1, <3>2 DEF Says
    <3>4. s \in i' .. old_capacity' - 1 /\ old_entries'[s].key # NULL
            /\ Here(old_entries[s].key)' = {}
      BY <1>2, <2>1, <3>2, ConstantsAssumption DEF Here
    <3>5. Bindings'[old_entries'[s].key] = old_entries'[s].element
      BY <1>1, <3>4 DEF Says
    <3> QED
      BY <1>2, <3>2, <3>3, <3>5
  <2> QED
    BY <2>2, <2>3
<1> QED
  BY <1>1, <1>3, FunctionsEqual DEF Says, Kept

(* An entry that moves takes its binding along. *)
LEMMA RehashSameBindings ==
  ASSUME CInv, CInv', rehash_step
  PROVE  Kept
<1> DEFINE old == old_entries[i]
<1>1. Says /\ Says'
  BY BindingsSay, BindingsSayNext
<1>2. PICK s \in Slots :
        /\ entries[s].key = NULL /\ entries' = [entries EXCEPT ![s] = old]
        /\ capacity' = capacity /\ Slots' = Slots
  BY RehashFree
<1>3. /\ entries \in [Slots -> Entry] /\ i \in 0 .. old_capacity - 1 /\ i' = i + 1
      /\ old_capacity' = old_capacity /\ old_entries' = old_entries /\ old_capacity \in Nat
  BY RehashFree DEF CInv, TInv, TableTypeOK, rehash_step
<1>4. entries'[s] = old /\ \A t \in Slots \ {s} : entries'[t] = entries[t]
  BY <1>2, <1>3
<1>5. ASSUME NEW n \in Keys PROVE Bindings'[n] = Bindings[n]
  <2>0. n # NULL
    BY ConstantsAssumption
  <2>1. CASE \E t \in Slots : entries[t].key = n
    <3>1. PICK t \in Slots : entries[t].key = n
      BY <2>1
    <3>2. t \in Used /\ t \in Used' /\ entries'[t] = entries[t]
      BY <1>2, <1>4, <2>0, <3>1 DEF Used
    <3>3. Bindings[entries[t].key] = entries[t].element
      BY <1>1, <3>2 DEF Says
    <3>4. Bindings'[entries'[t].key] = entries'[t].element
      BY <1>1, <3>2 DEF Says
    <3> QED
      BY <3>1, <3>2, <3>3, <3>4
  <2>2. CASE Here(n) = {} /\ old.key = n
    <3>1. i \in i .. old_capacity - 1 /\ s \in Used'
      BY <1>2, <1>3, <1>4, <2>0, <2>2 DEF Used
    <3>2. Bindings[old.key] = old.element
      BY <1>1, <2>0, <2>2, <3>1 DEF Says
    <3>3. Bindings'[entries'[s].key] = entries'[s].element
      BY <1>1, <3>1 DEF Says
    <3> QED
      BY <1>4, <2>2, <3>2, <3>3
  <2>3. CASE Here(n) = {} /\ old.key # n
    <3>1. Here(n)' = {}
      BY <1>2, <1>4, <2>3 DEF Here
    <3>2. There(n)' = There(n)
      BY <1>3, <2>3 DEF There
    <3>3. CASE There(n) = {}
      BY <1>1, <2>3, <3>1, <3>2, <3>3 DEF Says
    <3>4. CASE There(n) # {}
      <4>1. PICK t \in There(n) : TRUE
        BY <3>4
      <4>2. /\ t \in i .. old_capacity - 1 /\ t \in i' .. old_capacity' - 1
            /\ old_entries[t].key = n /\ old_entries'[t] = old_entries[t]
        BY <1>3, <3>2, <4>1 DEF There
      <4>3. Bindings[old_entries[t].key] = old_entries[t].element
        BY <1>1, <2>0, <2>3, <4>2 DEF Says
      <4>4. Here(old_entries[t].key)' = {}
        BY <3>1, <4>2 DEF Here
      <4>5. Bindings'[old_entries'[t].key] = old_entries'[t].element
        BY <1>1, <2>0, <4>2, <4>4 DEF Says
      <4> QED
        BY <4>2, <4>3, <4>5
    <3> QED
      BY <3>3, <3>4
  <2> QED
    BY <2>1, <2>2, <2>3 DEF Here
<1> QED
  BY <1>1, <1>5, FunctionsEqual DEF Says, Kept

(* What table_put is for. *)
LEMMA InsertPuts ==
  ASSUME CInv, CInv', insert
  PROVE  Bindings' = [Bindings EXCEPT ![put.key] = put.element]
<1>1. Says /\ Says'
  BY BindingsSay, BindingsSayNext
<1>2. /\ entries \in [Slots -> Entry] /\ put.key \in Keys /\ put.element \in Elements
      /\ i = old_capacity /\ old_capacity \in Nat /\ old_capacity' = 0 /\ i' = 0
  BY DEF insert, CInv, TInv, TableTypeOK
<1>3. PICK s \in Slots :
        /\ Stops(put.key, s)
        /\ entries' = [entries EXCEPT ![s] = [key |-> put.key, element |-> put.element]]
        /\ capacity' = capacity /\ Slots' = Slots
  <2>1. [key |-> put.key, element |-> put.element] \in Entry
    BY <1>2 DEF Entry
  <2> QED
    BY <2>1, InnerSlot DEF insert, CInv, TInv
<1>4. /\ entries'[s].key = put.key /\ entries'[s].element = put.element
      /\ \A t \in Slots \ {s} : entries'[t] = entries[t]
  BY <1>2, <1>3
<1>5. Bindings'[put.key] = put.element
  <2>1. s \in Used'
    BY <1>2, <1>3, <1>4, ConstantsAssumption DEF Used
  <2>2. Bindings'[entries'[s].key] = entries'[s].element
    BY <1>1, <2>1 DEF Says
  <2> QED
    BY <1>4, <2>2
<1>6. ASSUME NEW n \in Keys \ {put.key} PROVE Bindings'[n] = Bindings[n]
  <2>0. n # NULL /\ There(n) = {} /\ There(n)' = {}
    BY <1>2, ConstantsAssumption DEF There
  <2>1. CASE \E t \in Slots : entries[t].key = n
    <3>1. PICK t \in Slots : entries[t].key = n
      BY <2>1
    <3>2. t \in Used /\ t \in Used' /\ entries'[t] = entries[t]
      BY <1>3, <1>4, <2>0, <3>1 DEF Used, Stops
    <3>3. Bindings[entries[t].key] = entries[t].element
      BY <1>1, <3>2 DEF Says
    <3>4. Bindings'[entries'[t].key] = entries'[t].element
      BY <1>1, <3>2 DEF Says
    <3> QED
      BY <3>1, <3>2, <3>3, <3>4
  <2>2. CASE Here(n) = {}
    <3>1. Here(n)' = {}
      BY <1>3, <1>4, <2>2 DEF Here
    <3> QED
      BY <1>1, <2>0, <2>2, <3>1 DEF Says
  <2> QED
    BY <2>1, <2>2 DEF Here
<1>7. [Bindings EXCEPT ![put.key] = put.element] \in [Keys -> Elements \cup {NULL}]
  BY <1>1, <1>2 DEF Says
<1>8. Bindings' \in [Keys -> Elements \cup {NULL}]
  BY <1>1 DEF Says
<1>9. \A n \in Keys : Bindings'[n] = [Bindings EXCEPT ![put.key] = put.element][n]
  BY <1>1, <1>2, <1>5, <1>6 DEF Says
<1> QED
  BY <1>7, <1>8, <1>9, FunctionsEqual

(* A look-up answers what the map does. *)
LEMMA GetAnswers ==
  ASSUME CInv, NEW k \in Keys, table_get(k)
  PROVE  answer' = Bindings[k]
<1>1. Says
  BY BindingsSay
<1>2. /\ capacity \in Nat /\ old_capacity = 0 /\ i = 0 /\ k # NULL
  BY ConstantsAssumption DEF table_get, Idle, CInv, TInv, Settled, TableTypeOK
<1>3. CASE /\ \A d \in Slots : ~Found(k, d)
           /\ answer' = NULL
  <2>1. Here(k) = {}
    <3> SUFFICES ASSUME NEW s \in Slots, entries[s].key = k PROVE FALSE
      BY DEF Here
    <3>1. PICK d \in Slots : Probe(k, d) = s
      BY <1>2, ProbeCovers
    <3> QED
      BY <1>3, <3>1 DEF Found
  <2>2. There(k) = {}
    BY <1>2 DEF There
  <2> QED
    BY <1>1, <1>3, <2>1, <2>2 DEF Says
<1>4. ASSUME NEW d \in Slots, Found(k, d), answer' = entries[Probe(k, d)].element
      PROVE  answer' = Bindings[k]
  <2>1. Probe(k, d) \in Used
    BY <1>2, <1>4, ProbeInRange DEF Found, Used
  <2>2. Bindings[entries[Probe(k, d)].key] = entries[Probe(k, d)].element
    BY <1>1, <2>1 DEF Says
  <2> QED
    BY <1>4, <2>2 DEF Found
<1> QED
  BY <1>3, <1>4 DEF table_get

(* The enumeration lists what the map holds. *)
LEMMA GetAllLists ==
  ASSUME CInv, table_get_all
  PROVE  {listing'.elements[s] : s \in DOMAIN listing'.elements}
           = {Bindings[k] : k \in Keys} \ {NULL}
<1>1. Says /\ TableTypeOK /\ old_capacity = 0 /\ i = 0
  BY BindingsSay DEF table_get_all, Idle, CInv, TInv, Settled, TableTypeOK
<1>2. /\ DOMAIN listing'.elements = Used
      /\ \A s \in Used : listing'.elements[s] = entries[s].element
  BY DEF table_get_all
<1>3. ASSUME NEW s \in Used
      PROVE  \E k \in Keys : entries[s].element = Bindings[k] /\ Bindings[k] # NULL
  <2>1. entries[s].key \in Keys /\ entries[s].element \in Elements
    BY <1>1 DEF TableTypeOK, Used, Entry, EmptyEntry
  <2>2. Bindings[entries[s].key] = entries[s].element
    BY <1>1 DEF Says
  <2> QED
    BY <2>1, <2>2, ConstantsAssumption
<1>4. ASSUME NEW k \in Keys, Bindings[k] # NULL
      PROVE  \E s \in Used : Bindings[k] = entries[s].element
  <2>1. There(k) = {}
    BY <1>1 DEF There
  <2>2. PICK s \in Slots : entries[s].key = k
    BY <1>1, <1>4, <2>1 DEF Says, Here
  <2>3. s \in Used
    BY <2>2, ConstantsAssumption DEF Used
  <2> QED
    BY <1>1, <2>2, <2>3 DEF Says
<1> QED
  BY <1>2, <1>3, <1>4

(* An empty table is an empty map. *)
LEMMA InitMaps == ASSUME table_init PROVE M!Init
<1>1. CInv
  BY CInit
<1>2. Says
  BY <1>1, BindingsSay
<1>3. Slots = {} /\ i .. old_capacity - 1 = {} /\ listing.elements = [s \in {} |-> NULL]
  BY DEF table_init, Slots
<1>4. \A k \in Keys : Bindings[k] = NULL
  BY <1>2, <1>3 DEF Says, Here, There
<1>5. Bindings = [k \in Keys |-> NULL]
  BY <1>2, <1>4 DEF Says
<1>6. {listing.elements[s] : s \in DOMAIN listing.elements} = {}
  BY <1>3
<1> QED
  BY <1>5, <1>6 DEF table_init, M!Init

(* Every step of the table is one of the map, or none. *)
LEMMA StepMaps == ASSUME CInv, CInv', [TableNext]_table_vars PROVE [M!Next]_(M!vars)
<1>1. CASE Kept /\ UNCHANGED results
  BY <1>1 DEF Kept, results, M!vars
<1>2. ASSUME NEW k \in Keys, NEW e \in Elements, table_put_grow(k, e)
      PROVE  [M!Next]_(M!vars)
  BY <1>1, <1>2, GrowSameBindings DEF table_put_grow
<1>3. CASE rehash_step
  BY <1>1, <1>3, RehashSameBindings DEF rehash_step
<1>4. CASE insert
  <2>1. put.key \in Keys /\ put.element \in Elements
    BY <1>4 DEF insert, CInv, TInv, TableTypeOK
  <2>2. M!Put(put.key, put.element)
    BY <1>4, InsertPuts DEF M!Put, insert, results
  <2> QED
    BY <2>1, <2>2 DEF M!Next
<1>5. ASSUME NEW k \in Keys, table_get(k) PROVE [M!Next]_(M!vars)
  <2>1. Kept
    BY <1>5, SameBindings DEF table_get
  <2>2. M!Get(k)
    BY <1>5, <2>1, GetAnswers DEF M!Get, Kept, table_get
  <2> QED
    BY <2>2 DEF M!Next
<1>6. CASE table_get_all
  <2>1. Kept
    BY <1>6, SameBindings DEF table_get_all
  <2>2. M!GetAll
    BY <1>6, <2>1, GetAllLists DEF M!GetAll, Kept, table_get_all
  <2> QED
    BY <2>2 DEF M!Next
<1>7. CASE UNCHANGED <<table, rehash, results>>
  BY <1>1, <1>7, SameBindings
<1>8. \/ \E k \in Keys, e \in Elements : table_put_grow(k, e)
      \/ rehash_step \/ insert \/ (\E k \in Keys : table_get(k)) \/ table_get_all
      \/ UNCHANGED <<table, rehash, results>>
  BY DEF TableNext, table_put, table_put_exit, table_vars
<1> QED
  BY <1>2, <1>3, <1>4, <1>5, <1>6, <1>7, <1>8

(* The table implements the map: through collisions, wrap-around and any   *)
(* number of growths, a look-up answers with the last element put under    *)
(* the name, and the enumeration yields every element and nothing else.    *)
THEOREM TableIsMap == TableSpec => MapSpec
<1>1. table_init => CInv
  BY CInit
<1>2. CInv /\ [TableNext]_table_vars => CInv'
  BY CStep
<1>3. table_init => M!Init
  BY InitMaps
<1>4. CInv /\ CInv' /\ [TableNext]_table_vars => [M!Next]_(M!vars)
  BY StepMaps
<1> QED
  BY <1>1, <1>2, <1>3, <1>4, PTL DEF TableSpec, MapSpec, M!Spec
-----------------------------------------------------------------------------
(* Until the first growth length is the number of names, and every cell of *)
(* the last enumeration was written.                                       *)
Exact ==
  /\ capacity = 0 \/ capacity >= InitialCapacity
  /\ capacity <= InitialCapacity => old_capacity = 0 /\ length = Cardinality(Used)
  /\ ListingFilled

LEMMA ExactInit == table_init => Exact
<1> SUFFICES ASSUME table_init PROVE Exact
  OBVIOUS
<1>1. /\ capacity = 0 /\ old_capacity = 0 /\ length = 0 /\ Slots = {}
      /\ DOMAIN listing.elements = {} /\ listing.allocated = 0
  BY DEF table_init, Slots
<1>2. Used = {} /\ Cardinality({}) = 0
  BY <1>1, FS_EmptySet DEF Used
<1> QED
  BY <1>1, <1>2 DEF Exact, ListingFilled

(* The first array replaces no other; every later one has the table grown. *)
LEMMA GrowCounts ==
  ASSUME CInv, Exact, NEW k \in Keys, NEW e \in Elements, table_put_grow(k, e)
  PROVE  Exact'
<1>1. /\ capacity \in Nat /\ length \in Nat /\ listing' = listing
      /\ capacity' = NewCapacity /\ entries' = Empty(NewCapacity)
      /\ old_capacity' = capacity /\ length' = length
  BY DEF table_put_grow, results, CInv, TInv, TableTypeOK
<1>2. InitialCapacity \in Nat /\ InitialCapacity > 0
  BY ConstantsAssumption
<1>3. CASE capacity = 0
  <2>1. Used = {} /\ Used' = {} /\ Cardinality({}) = 0
    BY <1>1, <1>3, FS_EmptySet DEF Used, Slots, Empty, EmptyEntry
  <2>2. capacity' = InitialCapacity /\ capacity <= InitialCapacity
    BY <1>1, <1>2, <1>3 DEF NewCapacity
  <2> QED
    BY <1>1, <1>2, <1>3, <2>1, <2>2 DEF Exact, ListingFilled
<1>4. CASE capacity # 0
  <2>1. capacity' >= InitialCapacity /\ ~(capacity' <= InitialCapacity)
    BY <1>1, <1>2, <1>4 DEF Exact, NewCapacity
  <2> QED
    BY <2>1 DEF Exact, ListingFilled
<1> QED
  BY <1>3, <1>4

(* Only a grown table is rehashed. *)
LEMMA RehashCounts == ASSUME CInv, Exact, rehash_step PROVE Exact'
<1>1. i \in Nat /\ old_capacity \in Nat /\ i < old_capacity /\ listing' = listing
  BY DEF rehash_step, results, CInv, TInv, TableTypeOK
<1>2. capacity' = capacity
  BY RehashFree
<1>3. ~(capacity <= InitialCapacity)
  BY <1>1 DEF Exact
<1> QED
  BY <1>1, <1>2, <1>3 DEF Exact, ListingFilled

(* table_put_inner counts a name exactly when it takes a free slot. *)
LEMMA InsertCounts == ASSUME CInv, Exact, insert PROVE Exact'
<1>1. /\ capacity \in Nat /\ length \in Nat /\ old_capacity' = 0 /\ listing' = listing
      /\ TableTypeOK /\ table_put_inner(put.key, put.element)
      /\ put.key \in Keys /\ put.element \in Elements /\ entries \in [Slots -> Entry]
  BY DEF insert, results, CInv, TInv, TableTypeOK
<1>2. [key |-> put.key, element |-> put.element] \in Entry
  BY <1>1 DEF Entry
<1>3. PICK s \in Slots :
        /\ length' = IF entries[s].key = NULL THEN length + 1 ELSE length
        /\ entries' = [entries EXCEPT ![s] = [key |-> put.key, element |-> put.element]]
        /\ capacity' = capacity /\ Slots' = Slots
  BY <1>1, <1>2, InnerSlot
<1>4. Used' = Used \cup {s}
  BY <1>1, <1>3, ConstantsAssumption DEF Used
<1>5. s \in Used <=> entries[s].key # NULL
  BY DEF Used
<1>6. IsFiniteSet(Used)
  BY <1>1, UsedFinite
<1>7. Cardinality(Used') = IF s \in Used THEN Cardinality(Used) ELSE Cardinality(Used) + 1
  BY <1>4, <1>6, FS_AddElement
<1>8. length = Cardinality(Used) => length' = Cardinality(Used')
  BY <1>3, <1>5, <1>7
<1> QED
  BY <1>1, <1>3, <1>8 DEF Exact, ListingFilled

(* One cell is written for every used slot. *)
LEMMA GetAllCounts == ASSUME Exact, table_get_all PROVE Exact'
<1>1. /\ DOMAIN listing'.elements = Used /\ listing'.allocated = length
      /\ UNCHANGED <<capacity, length, entries, old_capacity>>
  BY DEF table_get_all, table, rehash
<1>2. Used' = Used
  BY <1>1 DEF Used, Slots
<1> QED
  BY <1>1, <1>2 DEF Exact, ListingFilled

(* main runs over length cells of the array table_get_all returns: in a    *)
(* table that has not grown all of them were written, whatever names were  *)
(* put under it and however often (table.c:27-29, main.c:89-90).           *)
THEOREM EveryCellWritten == TableSpec => []ListingFilled
<1>1. CInv /\ Exact /\ [TableNext]_table_vars => Exact'
  <2> SUFFICES ASSUME CInv, Exact, [TableNext]_table_vars PROVE Exact'
    OBVIOUS
  <2>1. ASSUME NEW k \in Keys, NEW e \in Elements, table_put_grow(k, e) PROVE Exact'
    BY <2>1, GrowCounts
  <2>2. CASE rehash_step
    BY <2>2, RehashCounts
  <2>3. CASE insert
    BY <2>3, InsertCounts
  <2>4. CASE table_get_all
    BY <2>4, GetAllCounts
  <2>5. CASE UNCHANGED <<table, rehash, listing>>
    BY <2>5 DEF Exact, ListingFilled, table, rehash, Used, Slots
  <2>6. \/ \E k \in Keys, e \in Elements : table_put_grow(k, e)
        \/ rehash_step \/ insert \/ table_get_all \/ UNCHANGED <<table, rehash, listing>>
    BY DEF TableNext, table_put, table_put_exit, table_get, table_vars, results
  <2> QED
    BY <2>1, <2>2, <2>3, <2>4, <2>5, <2>6
<1>2. Exact => ListingFilled
  BY DEF Exact
<1> QED
  BY <1>1, <1>2, CInit, CStep, ExactInit, PTL DEF TableSpec
=============================================================================
