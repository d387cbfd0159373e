------------------------- MODULE ControlFlowProofs -------------------------
(***************************************************************************)
(* The proofs about ControlFlow, for files of every length and depth: its  *)
(* type, that finished functions are left alone, that the blocks of a      *)
(* regular source are well-formed, and that names reach their uses.  The   *)
(* induction keeps count of the blocks that are not closed: the one the    *)
(* builder is at, and those that an activation holds to go on in when its  *)
(* arm, body or branch has ended.  A second part adds what the blocks see. *)
(***************************************************************************)
EXTENDS ControlFlow, SequenceTheorems, FiniteSetTheorems,
        WellFoundedInduction, TLAPS

(* The instructions and activations that name only the first n blocks. *)
Instructions(n) ==
  [op : Terminators \cup {"do"}, id : Statement \cup {Begin, End},
   to : SUBSET (1 .. n), sees : SUBSET (1 .. n)]
Functions(n) == [kind : {"function"}, typed : BOOLEAN,
                 last : {"none", "return", "other"}, names : SUBSET (1 .. n)]
Nests(n) == [kind : {"block"}, names : SUBSET (1 .. n)]
Whiles(n) == [kind : {"while"}, start : 1 .. n, end : 1 .. n, condition : Statement]
Thens(n) == [kind : {"then"}, else_ : (1 .. n) \cup {0}, end : 1 .. n,
             condition : Statement]
Elses(n) == [kind : {"else"}, end : 1 .. n,
             exits : SUBSET (Statement \cup {Begin})]
Branchings(n) == [kind : {"match"}, start : 1 .. n, end : 1 .. n, next : 1 .. n,
                  option : (1 .. n) \cup {0}, left : Nat, matcher : Statement,
                  exits : SUBSET Statement]
Matches(n) == {f \in Branchings(n) : f.option # 0 => f.left # 0}
Activations(n) == Functions(n) \cup Nests(n) \cup Whiles(n) \cup Thens(n)
                  \cup Elses(n) \cup Matches(n)

(* TypeOK, of sequences, in two parts. *)
Sorts ==
  /\ blocks \in Seq(Seq(Instructions(Len(blocks))))
  /\ stack \in Seq(Activations(Len(blocks)))
  /\ entries \subseteq Block \X BOOLEAN
  /\ at \in Block \cup {0}
Marks ==
  /\ value \in {"null", "pending", "garbage", "instruction", "constant",
                "terminator"}
  /\ count \in 0 .. MaxItems /\ declared \in 0 .. MaxDeclarations
  /\ status \in {"running", "crashed", "done"}
  /\ follow \subseteq (Statement \cup {Begin}) \X (Statement \cup {End})
  /\ pending \subseteq Statement \cup {Begin}

(* The blocks an activation holds to go on in, and those it may branch to. *)
Held(f) == IF f.kind = "then" THEN {f.else_, f.end} \ {0}
           ELSE IF f.kind \in {"else", "while"} THEN {f.end}
           ELSE IF f.kind = "match" THEN {f.start, f.end} ELSE {}
Known(f) == Held(f) \cup
            (IF f.kind = "while" THEN {f.start} ELSE {}) \cup
            (IF f.kind = "match" THEN {f.next, f.option} \ {0} ELSE {})
InUse(b) == \E d \in 1 .. Len(stack) : b \in Known(stack[d])
IsHeld(b) == \E d \in 1 .. Len(stack) : b \in Held(stack[d])

(* Between two branches of a match the builder has no block to go on in. *)
Between == top.kind = "match" /\ top.option = 0

(* A function is at the bottom of the stack, and only matches on a match.  *)
Nesting ==
  /\ stack # <<>> => stack[1].kind = "function" /\ at # 0
  /\ \A d \in 2 .. Len(stack) : stack[d].kind # "function"
  /\ \A d \in 1 .. Len(stack) - 1 : stack[d].kind = "match" =>
       stack[d + 1].kind = "match" /\ stack[d].option # 0

(* No two activations hold the same block, nor does one hold the builder's *)
(* but for a match that has not come to its first branch.                  *)
Apart ==
  /\ \A d, e \in 1 .. Len(stack) : d # e => Held(stack[d]) \cap Held(stack[e]) = {}
  /\ \A d \in 1 .. Len(stack) : at \in Held(stack[d]) =>
       d = Len(stack) /\ Between /\ at = top.start
  /\ \A d \in 1 .. Len(stack) :
       /\ stack[d].kind = "match" => stack[d].start # stack[d].end
       /\ stack[d].kind = "then" => stack[d].else_ # stack[d].end

(* What the last parse_node gave back, after which activation. *)
Values ==
  /\ value = "pending" =>
       stack # <<>> /\ top.kind \in {"else", "match"} /\ ~Between
  /\ stack # <<>> /\ top.kind = "match" =>
       value \notin {"terminator", "garbage"} /\ pending \subseteq Statement

(* The function at hand is the last of entries. *)
Last(e) == e \in entries /\ \A f \in entries : f[1] <= e[1]
Current ==
  /\ \A e, f \in entries : e[1] = f[1] => e = f
  /\ stack # <<>> => \E e \in entries :
       /\ Last(e) /\ e[2] = stack[1].typed /\ e[1] <= at
       /\ \A d \in 1 .. Len(stack) : \A b \in Known(stack[d]) : e[1] < b
  /\ \A b \in Block : \A k \in 1 .. Len(blocks[b]) :
       \A e \in entries : e[1] \notin blocks[b][k].to
Mine(b) == b = at \/ InUse(b) \/ b > Len(blocks)

IsOpen(c) == \A k \in 1 .. Len(c) : c[k].op \notin Terminators
IsClosed(c) ==
  /\ c # <<>>
  /\ \A k \in 1 .. Len(c) : c[k].op \in Terminators <=> k = Len(c)
Open(b) == IsOpen(blocks[b])
Closed(b) == IsClosed(blocks[b])

(* Of a regular source: only the blocks held, and the builder's as long as *)
(* no return ended it, are open.                                           *)
Shape ==
  /\ \A b \in Block : b # at /\ ~IsHeld(b) => Closed(b)
  /\ \A b \in Block : IsHeld(b) => Open(b)
  /\ stack = <<>> /\ at # 0 => Closed(at)
  /\ stack # <<>> =>
       IF value = "terminator" THEN Closed(at) /\ pending = {} /\ stack[1].typed
       ELSE IF Between THEN at # top.start => Closed(at)
       ELSE Open(at)
  /\ stack # <<>> => (stack[1].last = "return" => stack[1].typed)
Returns ==
  \A b \in Block : \A k \in 1 .. Len(blocks[b]) :
    /\ blocks[b][k].op = "ret" => Typed(b)
    /\ blocks[b][k].op = "retvoid" => ~Typed(b)
Regular == Unanswered = {}

Inv == /\ Sorts /\ Marks /\ Nesting /\ Apart /\ Values /\ Current
       /\ Regular => Shape /\ Returns
-----------------------------------------------------------------------------
(* What names only n blocks names only m, when m is not less. *)
LEMMA Wider ==
  ASSUME NEW n \in Nat, NEW m \in Nat, n <= m
  PROVE  /\ Instructions(n) \subseteq Instructions(m)
         /\ Activations(n) \subseteq Activations(m)
         /\ Seq(Instructions(n)) \subseteq Seq(Instructions(m))
         /\ Seq(Activations(n)) \subseteq Seq(Activations(m))
         /\ Seq(Seq(Instructions(n))) \subseteq Seq(Seq(Instructions(m)))
<1>1. 1 .. n \subseteq 1 .. m
  OBVIOUS
<1>2. Instructions(n) \subseteq Instructions(m)
  BY <1>1 DEF Instructions
<1>3. Activations(n) \subseteq Activations(m)
  <2>1. Functions(n) \subseteq Functions(m) /\ Nests(n) \subseteq Nests(m)
    BY <1>1 DEF Functions, Nests
  <2>2. Whiles(n) \subseteq Whiles(m)
    BY <1>1 DEF Whiles
  <2>3. Thens(n) \subseteq Thens(m)
    BY <1>1 DEF Thens
  <2>4. Elses(n) \subseteq Elses(m)
    BY <1>1 DEF Elses
  <2>5. Matches(n) \subseteq Matches(m)
    <3>1. Branchings(n) \subseteq Branchings(m)
      BY <1>1 DEF Branchings
    <3> QED
      BY <3>1 DEF Matches
  <2> QED
    BY <2>1, <2>2, <2>3, <2>4, <2>5 DEF Activations
<1>4. Seq(Instructions(n)) \subseteq Seq(Instructions(m))
  BY <1>2
<1>5. Seq(Activations(n)) \subseteq Seq(Activations(m))
  BY <1>3
<1>6. Seq(Seq(Instructions(n))) \subseteq Seq(Seq(Instructions(m)))
  BY <1>4
<1> QED
  BY <1>2, <1>3, <1>4, <1>5, <1>6

(* The blocks that are appended are empty and follow the others. *)
LEMMA AppendedIs ==
  ASSUME Sorts, NEW n \in Nat
  PROVE  /\ Appended(n) \in Seq(Seq(Instructions(Len(blocks) + n)))
         /\ Len(Appended(n)) = Len(blocks) + n
         /\ \A b \in 1 .. Len(blocks) : Appended(n)[b] = blocks[b]
         /\ \A b \in Len(blocks) + 1 .. Len(blocks) + n : Appended(n)[b] = <<>>
<1> DEFINE S == Seq(Instructions(Len(blocks) + n))
           new == [k \in 1 .. n |-> <<>>]
<1>1. Len(blocks) \in Nat /\ blocks \in Seq(Seq(Instructions(Len(blocks))))
  BY DEF Sorts
<1>2. blocks \in Seq(S)
  BY <1>1, Wider
<1>3. <<>> \in S
  OBVIOUS
<1> HIDE DEF S
<1>4. new \in Seq(S) /\ Len(new) = n /\ \A k \in 1 .. n : new[k] = <<>>
  BY <1>3
<1> HIDE DEF new
<1>5. Appended(n) = blocks \o new
  BY DEF Appended, new
<1>6. /\ blocks \o new \in Seq(S) /\ Len(blocks \o new) = Len(blocks) + n
      /\ \A b \in 1 .. Len(blocks) : (blocks \o new)[b] = blocks[b]
      /\ \A b \in Len(blocks) + 1 .. Len(blocks) + n :
           (blocks \o new)[b] = new[b - Len(blocks)]
  BY <1>1, <1>2, <1>4
<1>7. \A b \in Len(blocks) + 1 .. Len(blocks) + n : b - Len(blocks) \in 1 .. n
  BY <1>1
<1> QED
  BY <1>4, <1>5, <1>6, <1>7 DEF S

(* Building appends one instruction to one block. *)
LEMMA BuiltIs ==
  ASSUME NEW S, NEW bs \in Seq(Seq(S)), NEW b \in 1 .. Len(bs), NEW i \in S
  PROVE  /\ Built(bs, b, i) \in Seq(Seq(S))
         /\ Len(Built(bs, b, i)) = Len(bs)
         /\ Built(bs, b, i)[b] = Append(bs[b], i)
         /\ \A c \in 1 .. Len(bs) : c # b => Built(bs, b, i)[c] = bs[c]
<1>1. bs[b] \in Seq(S)
  BY ElementOfSeq
<1>2. Append(bs[b], i) \in Seq(S)
  BY <1>1
<1> QED
  BY <1>2 DEF Built

(* An instruction is built in a block there is. *)
LEMMA BuiltIn ==
  ASSUME Sorts, NEW b \in Block, NEW i \in Instructions(Len(blocks))
  PROVE  /\ Built(blocks, b, i) \in Seq(Seq(Instructions(Len(blocks))))
         /\ Len(Built(blocks, b, i)) = Len(blocks)
         /\ Built(blocks, b, i)[b] = Append(blocks[b], i)
         /\ \A c \in Block : c # b => Built(blocks, b, i)[c] = blocks[c]
<1> DEFINE I == Instructions(Len(blocks))
<1>1. blocks \in Seq(Seq(I)) /\ b \in 1 .. Len(blocks) /\ i \in I
  BY DEF Sorts, Block
<1> HIDE DEF I
<1>2. Built(blocks, b, i) \in Seq(Seq(I)) /\ Len(Built(blocks, b, i)) = Len(blocks)
  BY <1>1, BuiltIs
<1>3. Built(blocks, b, i)[b] = Append(blocks[b], i)
  BY <1>1, BuiltIs
<1>4. \A c \in 1 .. Len(blocks) : c # b => Built(blocks, b, i)[c] = blocks[c]
  BY <1>1, BuiltIs
<1> QED
  BY <1>2, <1>3, <1>4 DEF I, Block

(* New blocks are appended and one instruction is built in one block. *)
LEMMA OneBuilt ==
  ASSUME Sorts, NEW k \in Nat, NEW b \in 1 .. Len(blocks) + k,
         NEW i \in Instructions(Len(blocks) + k)
  PROVE  /\ Built(Appended(k), b, i) \in Seq(Seq(Instructions(Len(blocks) + k)))
         /\ Len(Built(Appended(k), b, i)) = Len(blocks) + k
         /\ Built(Appended(k), b, i)[b] = Append(Appended(k)[b], i)
         /\ \A c \in 1 .. Len(blocks) + k :
              c # b => Built(Appended(k), b, i)[c] = Appended(k)[c]
<1> DEFINE I == Instructions(Len(blocks) + k)
           bs == Appended(k)
<1>1. bs \in Seq(Seq(I)) /\ Len(bs) = Len(blocks) + k
  BY AppendedIs
<1> HIDE DEF I, bs
<1>2. b \in 1 .. Len(bs) /\ i \in I
  BY <1>1 DEF I
<1>3. Built(bs, b, i) \in Seq(Seq(I))
  BY <1>1, <1>2, BuiltIs
<1>4. Len(Built(bs, b, i)) = Len(bs)
  BY <1>1, <1>2, BuiltIs
<1>5. Built(bs, b, i)[b] = Append(bs[b], i)
  BY <1>1, <1>2, BuiltIs
<1>6. \A c \in 1 .. Len(bs) : c # b => Built(bs, b, i)[c] = bs[c]
  BY <1>1, <1>2, BuiltIs
<1> QED
  BY <1>1, <1>3, <1>4, <1>5, <1>6 DEF I, bs

(* A conditional, loop or match begins where the builder is ... *)
LEMMA BuiltAndAppended ==
  ASSUME Sorts, at # 0, NEW k \in Nat, NEW i \in Instructions(Len(blocks) + k)
  PROVE  /\ Built(Appended(k), at, i) \in Seq(Seq(Instructions(Len(blocks) + k)))
         /\ Len(Built(Appended(k), at, i)) = Len(blocks) + k
         /\ Built(Appended(k), at, i)[at] = Append(blocks[at], i)
         /\ \A b \in Block : b # at => Built(Appended(k), at, i)[b] = blocks[b]
         /\ \A b \in Len(blocks) + 1 .. Len(blocks) + k :
              Built(Appended(k), at, i)[b] = <<>>
<1> DEFINE n == Len(blocks)
           bs == Built(Appended(k), at, i)
<1>1. n \in Nat /\ at \in 1 .. n /\ at \in 1 .. n + k /\ Block = 1 .. n
  BY DEF Sorts, Block
<1>2. bs \in Seq(Seq(Instructions(n + k))) /\ Len(bs) = n + k
  BY <1>1, OneBuilt
<1>3. bs[at] = Append(Appended(k)[at], i)
  BY <1>1, OneBuilt, Zenon
<1>4. \A c \in 1 .. n + k : c # at => bs[c] = Appended(k)[c]
  BY <1>1, OneBuilt
<1>5. \A b \in 1 .. n : Appended(k)[b] = blocks[b]
  BY AppendedIs
<1>6. \A b \in n + 1 .. n + k : Appended(k)[b] = <<>>
  BY AppendedIs
<1>7. /\ \A b \in 1 .. n : b \in 1 .. n + k
      /\ \A b \in n + 1 .. n + k : b \in 1 .. n + k /\ b # at
  BY <1>1
<1> HIDE DEF bs, n
<1>8. /\ bs[at] = Append(blocks[at], i)
      /\ \A b \in Block : b # at => bs[b] = blocks[b]
      /\ \A b \in n + 1 .. n + k : bs[b] = <<>>
  BY <1>1, <1>3, <1>4, <1>5, <1>6, <1>7
<1> QED
  BY <1>2, <1>8, Zenon DEF bs, n

(* ... and often goes on in the first of its new blocks. *)
LEMMA BuiltTwice ==
  ASSUME Sorts, at # 0, NEW k \in Nat, k # 0,
         NEW i \in Instructions(Len(blocks) + k),
         NEW j \in Instructions(Len(blocks) + k),
         blocks' = Built(Built(Appended(k), at, i), Len(blocks) + 1, j)
  PROVE  /\ blocks' \in Seq(Seq(Instructions(Len(blocks) + k)))
         /\ Len(blocks') = Len(blocks) + k /\ blocks'[at] = Append(blocks[at], i)
         /\ blocks'[Len(blocks) + 1] = Append(<<>>, j)
         /\ \A b \in Block : b # at => blocks'[b] = blocks[b]
         /\ \A b \in Len(blocks) + 2 .. Len(blocks) + k : blocks'[b] = <<>>
<1> DEFINE n == Len(blocks)
           I == Instructions(n + k)
           one == Built(Appended(k), at, i)
           m == n + 1
           bs == Built(one, m, j)
<1>1. n \in Nat /\ at \in 1 .. n /\ m \in 1 .. n + k /\ Block = 1 .. n
  BY DEF Sorts, Block
<1>2. /\ one \in Seq(Seq(I))
      /\ Len(one) = n + k /\ one[at] = Append(blocks[at], i)
      /\ \A b \in Block : b # at => one[b] = blocks[b]
      /\ \A b \in n + 1 .. n + k : one[b] = <<>>
  BY BuiltAndAppended
<1>3. blocks' = bs
  OBVIOUS
<1> HIDE DEF one, I
<1>4. one \in Seq(Seq(I)) /\ m \in 1 .. Len(one) /\ j \in I
  BY <1>1, <1>2 DEF I
<1> HIDE DEF m
<1>5. bs \in Seq(Seq(I))
  BY <1>4, BuiltIs
<1>6. Len(bs) = Len(one)
  BY <1>4, BuiltIs
<1>7. bs[m] = Append(one[m], j)
  BY <1>4, BuiltIs
<1>8. \A c \in 1 .. Len(one) : c # m => bs[c] = one[c]
  BY <1>4, BuiltIs
<1> HIDE DEF bs, n
<1>9. /\ m \in n + 1 .. n + k /\ at \in 1 .. Len(one) /\ at # m
      /\ \A b \in 1 .. n : b \in 1 .. Len(one) /\ b # m
      /\ \A b \in n + 2 .. n + k : b \in 1 .. Len(one) /\ b # m /\ b \in n + 1 .. n + k
  <2>1. n \in Nat /\ at \in 1 .. n /\ Len(one) = n + k /\ m = n + 1 /\ k >= 1
    BY <1>1, <1>2 DEF m
  <2> QED
    BY <2>1
<1>10. bs[at] = Append(blocks[at], i) /\ bs[m] = Append(<<>>, j)
  BY <1>2, <1>7, <1>8, <1>9
<1>11. /\ \A b \in Block : b # at => bs[b] = blocks[b]
       /\ \A b \in n + 2 .. n + k : bs[b] = <<>>
  BY <1>1, <1>2, <1>8, <1>9
<1> QED
  BY <1>2, <1>3, <1>5, <1>6, <1>10, <1>11 DEF n, m, I

(* The variables in scope have their allocas in blocks that exist. *)
LEMMA VisibleExist == ASSUME Sorts PROVE Visible \subseteq 1 .. Len(blocks)
<1>1. ASSUME NEW d \in Scoped PROVE stack[d].names \subseteq 1 .. Len(blocks)
  <2>1. d \in DOMAIN stack /\ stack[d].kind \in {"function", "block"}
    BY DEF Scoped
  <2>2. stack[d] \in Activations(Len(blocks))
    BY <2>1 DEF Sorts
  <2>3. stack[d] \in Functions(Len(blocks)) \cup Nests(Len(blocks))
    BY <2>1, <2>2
       DEF Activations, Functions, Nests, Whiles, Thens, Elses, Matches,
           Branchings
  <2> QED
    BY <2>3 DEF Functions, Nests
<1> QED
  BY <1>1 DEF Visible

(* The instructions that a statement leaves behind. *)
LEMMA DoIs ==
  ASSUME Sorts, NEW n \in Nat, Len(blocks) <= n, count + 1 \in Statement
  PROVE  /\ Do(name) \in Instructions(n) /\ Do(name).to = {} /\ Do(name).op = "do"
         /\ Ret(name) \in Instructions(n) /\ Ret(name).to = {} /\ Ret(name).op = "ret"
<1>1. Visible \subseteq 1 .. n
  <2>1. Len(blocks) \in Nat
    BY DEF Sorts
  <2> QED
    BY <2>1, VisibleExist
<1>2. name \in Statement
  BY DEF name
<1>3. Do(name) \in Instructions(n)
  BY <1>1, <1>2 DEF Do, Instruction, Instructions, Terminators
<1>4. Ret(name) \in Instructions(n)
  BY <1>1, <1>2 DEF Ret, Instruction, Instructions, Terminators
<1>5. /\ Do(name).to = {} /\ Do(name).op = "do"
      /\ Ret(name).to = {} /\ Ret(name).op = "ret"
  BY DEF Do, Ret, Instruction
<1> QED
  BY <1>3, <1>4, <1>5

(* The return at the end of a function without a type. *)
LEMMA RetVoidIs ==
  ASSUME Sorts
  PROVE  /\ RetVoid(End) \in Instructions(Len(blocks)) /\ RetVoid(End).to = {}
         /\ RetVoid(End).op = "retvoid"
<1>1. RetVoid(End) \in Instructions(Len(blocks))
  BY VisibleExist DEF RetVoid, Instruction, Instructions, Terminators
<1>2. RetVoid(End).to = {} /\ RetVoid(End).op = "retvoid"
  BY DEF RetVoid, Instruction
<1> QED
  BY <1>1, <1>2

(* The branches that end a block. *)
LEMMA BranchIs ==
  ASSUME Sorts, NEW n \in Nat, Len(blocks) <= n, NEW id \in Statement \cup {Begin},
         NEW b \in 1 .. n, NEW c \in 1 .. n
  PROVE  /\ Br(b) \in Instructions(n) /\ Br(b).to = {b} /\ Br(b).op = "br"
         /\ CondBr(id, b, c) \in Instructions(n) /\ CondBr(id, b, c).to = {b, c}
         /\ CondBr(id, b, c).op = "condbr"
<1>1. Visible \subseteq 1 .. n
  <2>1. Len(blocks) \in Nat
    BY DEF Sorts
  <2> QED
    BY <2>1, VisibleExist
<1>2. Br(b) \in Instructions(n)
  BY <1>1 DEF Br, Instruction, Instructions, Terminators
<1>3. CondBr(id, b, c) \in Instructions(n)
  BY <1>1 DEF CondBr, Instruction, Instructions, Terminators
<1>4. /\ Br(b).to = {b} /\ Br(b).op = "br"
      /\ CondBr(id, b, c).to = {b, c} /\ CondBr(id, b, c).op = "condbr"
  BY DEF Br, CondBr, Instruction
<1> QED
  BY <1>2, <1>3, <1>4

(* An activation is of one of six kinds, and knows only blocks that exist. *)
LEMMA ActivationIs ==
  ASSUME NEW n \in Nat, NEW f \in Activations(n)
  PROVE  /\ f.kind \in {"function", "block", "while", "then", "else", "match"}
         /\ f.kind = "function" => f \in Functions(n)
         /\ f.kind = "block" => f \in Nests(n)
         /\ f.kind = "while" => f \in Whiles(n)
         /\ f.kind = "then" => f \in Thens(n)
         /\ f.kind = "else" => f \in Elses(n)
         /\ f.kind = "match" => f \in Matches(n)
         /\ Held(f) \subseteq Known(f) /\ Known(f) \subseteq 1 .. n
<1>1. CASE f \in Functions(n)
  <2>1. f.kind = "function"
    BY <1>1 DEF Functions
  <2> QED
    BY <1>1, <2>1 DEF Held, Known
<1>2. CASE f \in Nests(n)
  <2>1. f.kind = "block"
    BY <1>2 DEF Nests
  <2> QED
    BY <1>2, <2>1 DEF Held, Known
<1>3. CASE f \in Whiles(n)
  <2>1. f.kind = "while" /\ f.start \in 1 .. n /\ f.end \in 1 .. n
    BY <1>3 DEF Whiles
  <2> QED
    BY <1>3, <2>1 DEF Held, Known
<1>4. CASE f \in Thens(n)
  <2>1. f.kind = "then" /\ f.else_ \in (1 .. n) \cup {0} /\ f.end \in 1 .. n
    BY <1>4 DEF Thens
  <2> QED
    BY <1>4, <2>1 DEF Held, Known
<1>5. CASE f \in Elses(n)
  <2>1. f.kind = "else" /\ f.end \in 1 .. n
    BY <1>5 DEF Elses
  <2> QED
    BY <1>5, <2>1 DEF Held, Known
<1>6. CASE f \in Matches(n)
  <2>1. /\ f.kind = "match" /\ f.start \in 1 .. n /\ f.end \in 1 .. n
        /\ f.next \in 1 .. n /\ f.option \in (1 .. n) \cup {0}
    BY <1>6 DEF Matches, Branchings
  <2> QED
    BY <1>6, <2>1 DEF Held, Known
<1> QED
  BY <1>1, <1>2, <1>3, <1>4, <1>5, <1>6 DEF Activations

(* g is what a statement or a name noted in it makes of the activation f.  *)
Alike(f, g, last) ==
  /\ g.kind = f.kind
  /\ f.kind \notin {"function", "block"} => g = f
  /\ f.kind = "function" => g.typed = f.typed /\ g.last \in {f.last, last}
Follows(s, t, n, last) ==
  /\ t \in Seq(Activations(n)) /\ Len(t) = Len(s)
  /\ \A d \in 1 .. Len(s) : Alike(s[d], t[d], last)

(* A statement is noted in the function it is directly in. *)
LEMMA NotedIs ==
  ASSUME Sorts, stack # <<>>, NEW kind \in {"return", "other"}
  PROVE  Follows(stack, Noted(kind), Len(blocks), kind)
<1> DEFINE n == Len(blocks)
           A == Activations(n)
<1>1. n \in Nat /\ stack \in Seq(A) /\ Len(stack) \in Nat /\ Len(stack) # 0
  BY DEF Sorts
<1>2. Len(stack) \in 1 .. Len(stack) /\ top \in A
  <2> HIDE DEF A
  <2> QED
    BY <1>1 DEF top
<1>3. CASE top.kind # "function"
  BY <1>1, <1>3 DEF Noted, Follows, Alike
<1>4. CASE top.kind = "function"
  <2> DEFINE g == [top EXCEPT !.last = kind]
  <2>1. top \in Functions(n)
    BY <1>1, <1>2, <1>4, ActivationIs
  <2>2. g \in Functions(n) /\ g.kind = "function" /\ g.typed = top.typed /\ g.last = kind
    BY <2>1 DEF Functions
  <2>3. g \in A
    <3>1. Functions(n) \subseteq A
      BY DEF Activations
    <3> HIDE DEF g, n
    <3> QED
      BY <2>2, <3>1
  <2>4. Noted(kind) = [stack EXCEPT ![Len(stack)] = g]
    BY <1>4 DEF Noted, top
  <2>5. Alike(top, g, kind)
    BY <1>4, <2>2 DEF Alike
  <2>6. \A d \in 1 .. Len(stack) : Alike(stack[d], stack[d], kind)
    BY DEF Alike
  <2> HIDE DEF g, A
  <2>7. /\ Noted(kind) \in Seq(A) /\ Len(Noted(kind)) = Len(stack)
        /\ \A d \in 1 .. Len(stack) :
             Noted(kind)[d] = IF d = Len(stack) THEN g ELSE stack[d]
    BY <1>1, <2>3, <2>4
  <2> QED
    BY <2>5, <2>6, <2>7 DEF Follows, A, top
<1> QED
  BY <1>3, <1>4

(* A name is declared in a function or block. *)
LEMMA DeclareIs ==
  ASSUME Sorts, NEW n \in Nat, NEW s \in Seq(Activations(n)), NEW b \in 1 .. n,
         Len(s) = Len(stack),
         \A d \in 1 .. Len(s) : s[d].kind = stack[d].kind, NEW last
  PROVE  Follows(s, Declare(s, b), n, last)
<1> DEFINE A == Activations(n)
           g(d) == [s[d] EXCEPT !.names = @ \cup {b}]
<1>1. Len(s) \in Nat /\ DOMAIN s = 1 .. Len(s)
  OBVIOUS
<1>2. ASSUME NEW d \in 1 .. Len(s), InnerScope(d)
      PROVE  g(d) \in A /\ Alike(s[d], g(d), last)
  <2>1. s[d].kind \in {"function", "block"}
    BY <1>2 DEF InnerScope, Scoped
  <2>2. s[d] \in A
    BY ElementOfSeq
  <2>3. CASE s[d].kind = "function"
    <3>1. s[d] \in Functions(n)
      BY <2>2, <2>3, ActivationIs
    <3>2. /\ g(d) \in Functions(n) /\ g(d).kind = "function"
          /\ g(d).typed = s[d].typed /\ g(d).last = s[d].last
      BY <3>1 DEF Functions
    <3> QED
      BY <2>3, <3>2 DEF Activations, Alike
  <2>4. CASE s[d].kind = "block"
    <3>1. s[d] \in Nests(n)
      BY <2>2, <2>4, ActivationIs
    <3>2. g(d) \in Nests(n) /\ g(d).kind = "block"
      BY <3>1 DEF Nests
    <3> QED
      BY <2>4, <3>2 DEF Activations, Alike
  <2> QED
    BY <2>1, <2>3, <2>4
<1>3. ASSUME NEW d \in 1 .. Len(s) PROVE s[d] \in A /\ Alike(s[d], s[d], last)
  BY ElementOfSeq DEF Alike
<1>4. Declare(s, b) = [d \in 1 .. Len(s) |-> IF InnerScope(d) THEN g(d) ELSE s[d]]
  BY <1>1 DEF Declare
<1> HIDE DEF A, g
<1>5. Declare(s, b) \in [1 .. Len(s) -> A]
  BY <1>2, <1>3, <1>4
<1>6. Declare(s, b) \in Seq(A) /\ Len(Declare(s, b)) = Len(s)
  BY <1>1, <1>5
<1>7. \A d \in 1 .. Len(s) : Alike(s[d], Declare(s, b)[d], last)
  BY <1>2, <1>3, <1>4
<1> QED
  BY <1>6, <1>7 DEF Follows, A
-----------------------------------------------------------------------------
(* What a step inside a function does to the blocks: it appends at most    *)
(* one instruction to each, to none that is not the function's, and what   *)
(* branches there are go to blocks of the function other than its first.   *)
Was(b) == IF b \in Block THEN blocks[b] ELSE <<>>
Target(b) == InUse(b) \/ b > Len(blocks)
Inside ==
  /\ stack # <<>> /\ entries' = entries /\ Len(blocks) <= Len(blocks')
  /\ odd \subseteq odd'
  /\ stack' # <<>> => stack'[1].typed = stack[1].typed
  /\ Mine(at')
  /\ \A d \in 1 .. Len(stack') : \A b \in Known(stack'[d]) : Target(b)
  /\ \A b \in Block' : \/ blocks'[b] = Was(b)
                       \/ /\ Mine(b)
                          /\ \E i \in Instructions(Len(blocks')) :
                               /\ blocks'[b] = Append(Was(b), i)
                               /\ \A c \in i.to : Target(c)
                               /\ i.op = "ret" /\ Regular' => stack[1].typed
                               /\ i.op = "retvoid" => ~stack[1].typed

(* The function at hand is found by its blocks. *)
LEMMA CurrentIs ==
  ASSUME Inv, stack # <<>>
  PROVE  \E e \in entries :
           /\ Last(e) /\ e[2] = stack[1].typed /\ e[1] \in Block
           /\ \A b : Mine(b) /\ b \in Nat => e[1] <= b /\ (Typed(b) <=> stack[1].typed)
           /\ \A b : Target(b) /\ b \in Nat => e[1] < b
<1>1. PICK e \in entries :
        /\ Last(e) /\ e[2] = stack[1].typed /\ e[1] <= at
        /\ \A d \in 1 .. Len(stack) : \A b \in Known(stack[d]) : e[1] < b
  BY DEF Inv, Current
<1>2. e[1] \in Block /\ Len(blocks) \in Nat /\ at \in Nat
  BY <1>1 DEF Inv, Sorts, Block
<1>3. ASSUME NEW b \in Nat, Target(b) PROVE e[1] < b
  <2>1. CASE InUse(b)
    BY <1>1, <2>1 DEF InUse
  <2>2. CASE b > Len(blocks)
    <3>1. e[1] \in 1 .. Len(blocks)
      BY <1>2 DEF Block
    <3> QED
      BY <1>2, <2>2, <3>1
  <2> QED
    BY <1>3, <2>1, <2>2 DEF Target
<1>4. ASSUME NEW b \in Nat, Mine(b) PROVE e[1] <= b
  <2>1. e[1] \in Nat
    BY <1>2 DEF Block
  <2>2. CASE b = at
    BY <1>1, <2>2
  <2>3. CASE Target(b)
    BY <1>3, <2>1, <2>3
  <2> QED
    BY <1>4, <2>2, <2>3 DEF Mine, Target
<1>5. ASSUME NEW b \in Nat, Mine(b) PROVE Typed(b) <=> stack[1].typed
  <2>1. e[1] <= b
    BY <1>4, <1>5
  <2>2. \A f \in entries : f[1] <= e[1] /\ f[1] \in Nat
    BY <1>1 DEF Last, Inv, Sorts, Block
  <2>3. ASSUME NEW f \in entries, e[1] <= f[1] PROVE f = e
    <3>1. f[1] = e[1]
      BY <1>2, <2>2, <2>3 DEF Block
    <3> QED
      BY <1>1, <3>1 DEF Inv, Current
  <2>4. ASSUME Typed(b) PROVE e[2]
    <3>1. PICK f \in entries : f[2] /\ \A g \in entries : g[1] <= b => g[1] <= f[1]
      BY <2>4 DEF Typed
    <3>2. e[1] <= f[1]
      BY <1>1, <2>1, <3>1
    <3> QED
      BY <3>1, <3>2, <2>3
  <2>5. ASSUME e[2] PROVE Typed(b)
    BY <1>1, <2>1, <2>2, <2>5 DEF Typed
  <2>6. e[2] \in BOOLEAN
    BY <1>1 DEF Inv, Sorts
  <2> QED
    BY <1>1, <2>4, <2>5, <2>6
<1> QED
  BY <1>1, <1>2, <1>3, <1>4, <1>5

(* An instruction more, or none. *)
LEMMA AppendIs ==
  ASSUME NEW S, NEW c \in Seq(S), NEW i \in S
  PROVE  /\ Len(Append(c, i)) = Len(c) + 1 /\ Append(c, i) # <<>>
         /\ \A k \in 1 .. Len(c) : Append(c, i)[k] = c[k]
         /\ Append(c, i)[Len(c) + 1] = i
         /\ \A k \in 1 .. Len(Append(c, i)) :
              \/ k \in 1 .. Len(c) /\ Append(c, i)[k] = c[k]
              \/ k = Len(c) + 1 /\ Append(c, i)[k] = i
OBVIOUS

(* An instruction that is there after a step inside a function was there   *)
(* before, or is the one that the step appended.                           *)
LEMMA InsideAppends ==
  ASSUME Inv, Sorts', Inside, NEW b \in Block', NEW k \in 1 .. Len(blocks'[b])
  PROVE  \/ b \in Block /\ k \in 1 .. Len(blocks[b]) /\ blocks'[b][k] = blocks[b][k]
         \/ /\ Mine(b)
            /\ \A c \in blocks'[b][k].to : Target(c)
            /\ blocks'[b][k].op = "ret" /\ Regular' => stack[1].typed
            /\ blocks'[b][k].op = "retvoid" => ~stack[1].typed
<1> DEFINE I == Instructions(Len(blocks'))
<1>1. Was(b) \in Seq(I) /\ (b \notin Block => Was(b) = <<>>)
  <2>1. CASE b \in Block
    <3>1. blocks[b] \in Seq(Instructions(Len(blocks)))
      BY <2>1, ElementOfSeq DEF Inv, Sorts, Block
    <3>2. Len(blocks) \in Nat /\ Len(blocks') \in Nat /\ Len(blocks) <= Len(blocks')
      BY DEF Inv, Sorts, Inside
    <3> QED
      BY <2>1, <3>1, <3>2, Wider DEF Was
  <2>2. CASE b \notin Block
    BY <2>2 DEF Was
  <2> QED
    BY <2>1, <2>2
<1>2. CASE blocks'[b] = Was(b)
  BY <1>1, <1>2 DEF Was
<1>3. ASSUME Mine(b), NEW i \in I, blocks'[b] = Append(Was(b), i),
             \A c \in i.to : Target(c),
             i.op = "ret" /\ Regular' => stack[1].typed,
             i.op = "retvoid" => ~stack[1].typed
      PROVE  \/ b \in Block /\ k \in 1 .. Len(blocks[b]) /\ blocks'[b][k] = blocks[b][k]
             \/ Mine(b) /\ blocks'[b][k] = i
  <2> HIDE DEF I
  <2>1. \/ k \in 1 .. Len(Was(b)) /\ Append(Was(b), i)[k] = Was(b)[k]
        \/ Append(Was(b), i)[k] = i
    BY <1>1, <1>3, AppendIs
  <2>2. CASE k \in 1 .. Len(Was(b)) /\ Append(Was(b), i)[k] = Was(b)[k]
    <3>1. b \in Block
      BY <1>1, <2>2
    <3> QED
      BY <1>3, <2>2, <3>1 DEF Was
  <2> QED
    BY <1>3, <2>1, <2>2
<1> QED
  BY <1>2, <1>3 DEF Inside

(* A step inside a function leaves the others alone. *)
LEMMA InsideKeeps ==
  ASSUME Inv, Sorts', Inside
  PROVE  /\ Current' /\ (Regular' => Returns')
         /\ \A b \in Block : Finished(b) => blocks'[b] = blocks[b]
<1>1. /\ stack # <<>> /\ entries' = entries /\ Len(blocks) <= Len(blocks')
      /\ Len(blocks) \in Nat /\ Len(blocks') \in Nat /\ odd \subseteq odd'
      /\ Mine(at') /\ at' \in Nat
      /\ entries \subseteq Block \X BOOLEAN
  BY DEF Inv, Sorts, Inside, Block
<1>2. PICK e \in entries :
        /\ Last(e) /\ e[2] = stack[1].typed /\ e[1] \in Block
        /\ \A b : Mine(b) /\ b \in Nat => e[1] <= b /\ (Typed(b) <=> stack[1].typed)
        /\ \A b : Target(b) /\ b \in Nat => e[1] < b
  BY <1>1, CurrentIs
<1>3. \A f \in entries : f[1] <= e[1] /\ f[1] \in Nat /\ e[1] \in Nat
  BY <1>1, <1>2 DEF Last, Block
<1>4. \A b \in Nat : Typed(b)' <=> Typed(b)
  BY <1>1 DEF Typed
<1>5. Current'
  <2>1. stack' # <<>> => \E f \in entries' :
          /\ Last(f)' /\ f[2] = stack'[1].typed /\ f[1] <= at'
          /\ \A d \in 1 .. Len(stack') : \A b \in Known(stack'[d]) : f[1] < b
    <3>1. ASSUME stack' # <<>>, NEW d \in 1 .. Len(stack'), NEW b \in Known(stack'[d])
          PROVE  e[1] < b
      <4>1. stack'[d] \in Activations(Len(blocks'))
        BY ElementOfSeq DEF Sorts
      <4>2. b \in Nat
        BY <1>1, <4>1, ActivationIs
      <4>3. Target(b)
        BY DEF Inside
      <4> QED
        BY <1>2, <4>2, <4>3
    <3>2. e[1] <= at' /\ Last(e)'
      BY <1>1, <1>2 DEF Last
    <3>3. stack' # <<>> => e[2] = stack'[1].typed
      BY <1>2 DEF Inside
    <3> QED
      BY <1>1, <3>1, <3>2, <3>3
  <2>2. ASSUME NEW b \in Block', NEW k \in 1 .. Len(blocks'[b]), NEW f \in entries
        PROVE  f[1] \notin blocks'[b][k].to
    <3>1. CASE b \in Block /\ k \in 1 .. Len(blocks[b]) /\ blocks'[b][k] = blocks[b][k]
      BY <3>1 DEF Inv, Current
    <3>2. CASE \A c \in blocks'[b][k].to : Target(c)
      <4>1. Target(f[1]) => e[1] < f[1]
        BY <1>2, <1>3
      <4>2. ~(e[1] < f[1])
        BY <1>3
      <4> QED
        BY <3>2, <4>1, <4>2
    <3> QED
      BY <3>1, <3>2, InsideAppends
  <2>3. \A f, g \in entries' : f[1] = g[1] => f = g
    BY <1>1 DEF Inv, Current
  <2> QED
    BY <1>1, <2>1, <2>2, <2>3 DEF Current
<1>6. ASSUME Regular' PROVE Returns'
  <2>1. Returns
    <3>1. Unanswered \subseteq Unanswered'
      BY <1>1 DEF Unanswered
    <3> QED
      BY <1>6, <3>1 DEF Regular, Inv
  <2>2. ASSUME NEW b \in Block', NEW k \in 1 .. Len(blocks'[b])
        PROVE  /\ blocks'[b][k].op = "ret" => Typed(b)
               /\ blocks'[b][k].op = "retvoid" => ~Typed(b)
    <3>1. CASE b \in Block /\ k \in 1 .. Len(blocks[b]) /\ blocks'[b][k] = blocks[b][k]
      BY <2>1, <3>1 DEF Returns
    <3>2. CASE /\ Mine(b)
               /\ blocks'[b][k].op = "ret" /\ Regular' => stack[1].typed
               /\ blocks'[b][k].op = "retvoid" => ~stack[1].typed
      <4>1. b \in Nat
        BY <1>1 DEF Block
      <4> QED
        BY <1>2, <1>6, <3>2, <4>1
    <3> QED
      BY <3>1, <3>2, InsideAppends
  <2>3. \A b \in Block' : b \in Nat
    BY <1>1 DEF Block
  <2> QED
    BY <1>4, <2>2, <2>3 DEF Returns
<1>7. ASSUME NEW b \in Block, Finished(b) PROVE blocks'[b] = blocks[b]
  <2>1. b \in Nat /\ b \in Block' /\ Was(b) = blocks[b]
    BY <1>1 DEF Block, Was
  <2>2. PICK f \in entries : f[1] > b
    BY <1>1, <1>7 DEF Finished
  <2>3. ~Mine(b)
    BY <1>2, <1>3, <2>1, <2>2
  <2> QED
    BY <2>1, <2>3 DEF Inside
<1> QED
  BY <1>5, <1>6, <1>7
-----------------------------------------------------------------------------
(* Activations that are alike know and hold the same blocks. *)
LEMMA AlikeKnow ==
  ASSUME NEW f, NEW g, NEW last, Alike(f, g, last)
  PROVE  Known(g) = Known(f) /\ Held(g) = Held(f) /\ g.kind = f.kind
<1>1. CASE f.kind \in {"function", "block"}
  BY <1>1 DEF Alike, Known, Held
<1>2. CASE f.kind \notin {"function", "block"}
  BY <1>2 DEF Alike
<1> QED
  BY <1>1, <1>2

(* The length of the stack, and what is at its ends. *)
LEMMA StackIs ==
  ASSUME Inv, stack # <<>>
  PROVE  /\ Len(stack) \in Nat /\ Len(stack) \in 1 .. Len(stack)
         /\ 1 \in 1 .. Len(stack) /\ Len(blocks) \in Nat
         /\ top = stack[Len(stack)] /\ top \in Activations(Len(blocks))
         /\ \A d \in 1 .. Len(stack) : stack[d] \in Activations(Len(blocks))
         /\ stack[1].kind = "function" /\ at \in Block
         /\ top.kind = "function" <=> Len(stack) = 1
<1> DEFINE A == Activations(Len(blocks))
<1>1. stack \in Seq(A) /\ Len(blocks) \in Nat
  BY DEF Inv, Sorts
<1> HIDE DEF A
<1>2. Len(stack) \in Nat /\ Len(stack) \in 1 .. Len(stack) /\ 1 \in 1 .. Len(stack)
  BY <1>1
<1>3. \A d \in 1 .. Len(stack) : stack[d] \in A
  BY <1>1, ElementOfSeq
<1>4. stack[1].kind = "function" /\ at \in Block
  BY DEF Inv, Nesting, Sorts
<1>5. top.kind = "function" <=> Len(stack) = 1
  <2>1. Len(stack) # 1 => Len(stack) \in 2 .. Len(stack)
    <3> DEFINE n == Len(stack)
    <3>1. n \in Nat /\ n >= 1
      BY <1>2
    <3> HIDE DEF n
    <3>2. n # 1 => n \in 2 .. n
      BY <3>1
    <3> QED
      BY <3>2 DEF n
  <2> QED
    BY <1>4, <2>1 DEF Inv, Nesting, top
<1> QED
  BY <1>1, <1>2, <1>3, <1>4, <1>5 DEF A, top

(* A step leaves the activations and the builder as they are. *)
LEMMA Stays ==
  ASSUME Inv, stack # <<>>, NEW n, NEW last, Follows(stack, stack', n, last),
         at' = at
  PROVE  /\ Nesting' /\ Apart' /\ (Between' <=> Between) /\ stack' # <<>>
         /\ top'.kind = top.kind /\ (top.kind = "match" => top' = top)
         /\ \A b : (IsHeld(b)' <=> IsHeld(b)) /\ (InUse(b)' <=> InUse(b))
         /\ \A d \in 1 .. Len(stack') : Known(stack'[d]) = Known(stack[d])
         /\ stack'[1].typed = stack[1].typed
         /\ stack'[1].last \in {stack[1].last, last}
<1>1. /\ Len(stack) \in Nat /\ Len(stack) \in 1 .. Len(stack) /\ 1 \in 1 .. Len(stack)
      /\ stack[1].kind = "function"
  BY StackIs
<1>2. /\ Len(stack') = Len(stack)
      /\ \A d \in 1 .. Len(stack) : Alike(stack[d], stack'[d], last)
  BY DEF Follows
<1>3. \A d \in 1 .. Len(stack) : /\ Known(stack'[d]) = Known(stack[d])
                                 /\ Held(stack'[d]) = Held(stack[d])
                                 /\ stack'[d].kind = stack[d].kind
  BY <1>2, AlikeKnow
<1>4. \A d \in 1 .. Len(stack) :
        stack[d].kind \in {"match", "then"} => stack'[d] = stack[d]
  BY <1>2 DEF Alike
<1>5. /\ stack'[1].typed = stack[1].typed
      /\ stack'[1].last \in {stack[1].last, last}
  BY <1>1, <1>2 DEF Alike
<1>6. stack' # <<>>
  BY <1>1, <1>2
<1>7. top'.kind = top.kind /\ (top.kind = "match" => top' = top)
  BY <1>1, <1>2, <1>3, <1>4 DEF top
<1>8. Between' <=> Between
  BY <1>7 DEF Between
<1>9. \A b : (IsHeld(b)' <=> IsHeld(b)) /\ (InUse(b)' <=> InUse(b))
  BY <1>2, <1>3 DEF IsHeld, InUse
<1>10. Nesting'
  <2>1. stack'[1].kind = "function" /\ at' # 0
    BY <1>1, <1>3 DEF Inv, Nesting
  <2>2. ASSUME NEW d \in 2 .. Len(stack) PROVE stack'[d].kind # "function"
    <3>1. d \in 1 .. Len(stack)
      OBVIOUS
    <3> QED
      BY <1>3, <3>1 DEF Inv, Nesting
  <2>3. ASSUME NEW d \in 1 .. Len(stack) - 1, stack'[d].kind = "match"
        PROVE  stack'[d + 1].kind = "match" /\ stack'[d].option # 0
    <3>1. d \in 1 .. Len(stack) /\ d + 1 \in 1 .. Len(stack)
      BY <1>1
    <3>2. stack[d].kind = "match"
      BY <1>3, <2>3, <3>1
    <3>3. stack[d + 1].kind = "match" /\ stack[d].option # 0
      BY <3>2 DEF Inv, Nesting
    <3> QED
      BY <1>3, <1>4, <3>1, <3>2, <3>3
  <2> QED
    BY <1>2, <2>1, <2>2, <2>3 DEF Nesting
<1>11. Apart'
  <2>1. \A d, e \in 1 .. Len(stack) :
          d # e => Held(stack'[d]) \cap Held(stack'[e]) = {}
    BY <1>3 DEF Inv, Apart
  <2>2. ASSUME NEW d \in 1 .. Len(stack), at' \in Held(stack'[d])
        PROVE  d = Len(stack) /\ Between' /\ at' = top'.start
    <3>1. d = Len(stack) /\ Between /\ at = top.start
      BY <1>3, <2>2 DEF Inv, Apart
    <3> QED
      BY <1>7, <1>8, <3>1 DEF Between
  <2>3. ASSUME NEW d \in 1 .. Len(stack)
        PROVE  /\ stack'[d].kind = "match" => stack'[d].start # stack'[d].end
               /\ stack'[d].kind = "then" => stack'[d].else_ # stack'[d].end
    BY <1>3, <1>4 DEF Inv, Apart
  <2> QED
    BY <1>2, <2>1, <2>2, <2>3 DEF Apart
<1> QED
  BY <1>2, <1>3, <1>5, <1>6, <1>7, <1>8, <1>9, <1>10, <1>11

(* An activation f that knows new blocks only is pushed, and sometimes the *)
(* activation of a block on top of it.                                     *)
LEMMA Pushes ==
  ASSUME Inv, stack # <<>>, ~Between, NEW last, NEW f, NEW m \in {1, 2},
         Len(stack') = Len(stack) + m,
         \A d \in 1 .. Len(stack) : Alike(stack[d], stack'[d], last),
         stack'[Len(stack) + 1] = f, f.kind # "function",
         m = 2 => stack'[Len(stack) + 2].kind = "block" /\ f.kind # "match",
         top.kind = "match" => f.kind = "match" /\ top.option # 0,
         \A b \in Known(f) : b > Len(blocks), Held(f) \subseteq Known(f),
         f.kind = "match" => f.option = 0 /\ f.start # f.end /\ at' = f.start,
         f.kind = "then" => f.else_ # f.end,
         f.kind # "match" => at' \notin Held(f),
         at' = at \/ at' > Len(blocks), at' # 0
  PROVE  /\ Nesting' /\ Apart' /\ stack' # <<>>
         /\ \A b : IsHeld(b)' <=> IsHeld(b) \/ b \in Held(f)
         /\ \A d \in 1 .. Len(stack') : \A b \in Known(stack'[d]) : Target(b)
         /\ stack'[1].typed = stack[1].typed
         /\ stack'[1].last \in {stack[1].last, last}
<1> DEFINE n == Len(stack)
           g == stack'[n + 2]
<1>1. /\ n \in Nat /\ n >= 1 /\ Len(blocks) \in Nat /\ 1 \in 1 .. n
      /\ top = stack[n] /\ stack[1].kind = "function" /\ at \in Block
  <2>1. n \in Nat /\ n \in 1 .. n
    BY StackIs
  <2> QED
    BY <2>1, StackIs
<1>2. Len(stack') = n + m /\ stack'[n + 1] = f
  OBVIOUS
<1> HIDE DEF n
<1>3. \A d \in 1 .. n : /\ Known(stack'[d]) = Known(stack[d])
                        /\ Held(stack'[d]) = Held(stack[d])
                        /\ stack'[d].kind = stack[d].kind
  BY AlikeKnow DEF n
<1>4. \A d \in 1 .. n : stack[d].kind \in {"match", "then"} => stack'[d] = stack[d]
  BY DEF Alike, n
<1>5. \A d \in 1 .. n : /\ Held(stack[d]) \subseteq Known(stack[d])
                        /\ \A b \in Known(stack[d]) : b \in 1 .. Len(blocks)
  BY <1>1, StackIs, ActivationIs DEF n
<1>6. /\ stack'[1].typed = stack[1].typed
      /\ stack'[1].last \in {stack[1].last, last}
  BY <1>1 DEF Alike, n
<1>7. stack' # <<>>
  BY <1>1, <1>2
<1>8. m = 2 => Known(g) = {} /\ Held(g) = {} /\ g.kind = "block"
  BY DEF Known, Held, n
<1>9. \A d \in 1 .. Len(stack') : d \in 1 .. n \/ d = n + 1 \/ (m = 2 /\ d = n + 2)
  BY <1>1, <1>2
<1>10. /\ \A d \in 1 .. n : d \in 1 .. Len(stack')
       /\ n + 1 \in 1 .. Len(stack')
  BY <1>1, <1>2
<1>11. \A b : IsHeld(b)' <=> IsHeld(b) \/ b \in Held(f)
  <2>1. ASSUME NEW b, NEW d \in 1 .. Len(stack'), b \in Held(stack'[d])
        PROVE  IsHeld(b) \/ b \in Held(f)
    BY <1>2, <1>3, <1>8, <1>9, <2>1 DEF IsHeld, n
  <2>2. ASSUME NEW b, IsHeld(b) PROVE IsHeld(b)'
    BY <1>3, <1>10, <2>2 DEF IsHeld, n
  <2>3. ASSUME NEW b, b \in Held(f) PROVE IsHeld(b)'
    BY <1>2, <1>10, <2>3 DEF IsHeld
  <2> QED
    BY <2>1, <2>2, <2>3 DEF IsHeld
<1>12. ASSUME NEW d \in 1 .. Len(stack'), NEW b \in Known(stack'[d]) PROVE Target(b)
  <2>1. CASE d \in 1 .. n
    BY <1>3, <2>1 DEF Target, InUse, n
  <2>2. CASE d = n + 1
    BY <1>2, <2>2 DEF Target
  <2> QED
    BY <1>8, <1>9, <2>1, <2>2
<1>13. Nesting'
  <2>1. stack'[1].kind = "function" /\ at' # 0
    BY <1>1, <1>3
  <2>2. ASSUME NEW d \in 2 .. Len(stack') PROVE stack'[d].kind # "function"
    <3>1. CASE d \in 1 .. n
      <4>1. d \in 2 .. Len(stack)
        BY <1>1, <3>1 DEF n
      <4> QED
        BY <1>3, <3>1, <4>1 DEF Inv, Nesting
    <3>2. d \in 1 .. Len(stack')
      BY <1>1, <1>2
    <3> QED
      BY <1>2, <1>8, <1>9, <3>1, <3>2
  <2>3. ASSUME NEW d \in 1 .. Len(stack') - 1, stack'[d].kind = "match"
        PROVE  stack'[d + 1].kind = "match" /\ stack'[d].option # 0
    <3>1. CASE d \in 1 .. n /\ d # n
      <4>1. d \in 1 .. n - 1 /\ d + 1 \in 1 .. n
        BY <1>1, <3>1
      <4>2. stack[d + 1].kind = "match" /\ stack[d].option # 0
        BY <1>3, <2>3, <3>1, <4>1 DEF Inv, Nesting, n
      <4> QED
        BY <1>3, <1>4, <2>3, <3>1, <4>1, <4>2
    <3>2. CASE d = n
      <4>1. top.kind = "match" /\ stack'[n] = top
        BY <1>1, <1>3, <1>4, <2>3, <3>2
      <4> QED
        BY <1>2, <3>2, <4>1
    <3>3. CASE d = n + 1
      <4>1. m = 2
        BY <1>1, <1>2, <3>3
      <4> QED
        BY <1>2, <2>3, <3>3, <4>1
    <3>4. d \in 1 .. n \/ d = n + 1
      BY <1>1, <1>2
    <3> QED
      BY <3>1, <3>2, <3>3, <3>4
  <2> QED
    BY <2>1, <2>2, <2>3 DEF Nesting
<1>14. Apart'
  <2>1. ASSUME NEW d \in 1 .. Len(stack'), NEW e \in 1 .. Len(stack'), d # e,
               NEW b \in Held(stack'[d]), b \in Held(stack'[e])
        PROVE  FALSE
    <3>1. CASE d \in 1 .. n /\ e \in 1 .. n
      <4>1. b \in Held(stack[d]) /\ b \in Held(stack[e])
        BY <1>3, <2>1, <3>1
      <4> QED
        BY <2>1, <3>1, <4>1 DEF Inv, Apart, n
    <3>2. ~(b \in 1 .. Len(blocks) /\ b > Len(blocks))
      BY <1>1
    <3>3. \A c \in 1 .. n : b \in Held(stack'[c]) => b \in 1 .. Len(blocks)
      BY <1>3, <1>5
    <3>4. b \in Held(f) => b > Len(blocks)
      OBVIOUS
    <3> QED
      BY <1>2, <1>8, <1>9, <2>1, <3>1, <3>2, <3>3, <3>4
  <2>2. ASSUME NEW d \in 1 .. Len(stack'), at' \in Held(stack'[d])
        PROVE  d = Len(stack') /\ Between' /\ at' = top'.start
    <3>1. CASE d \in 1 .. n
      <4>1. at' \in Held(stack[d]) /\ at' \in 1 .. Len(blocks)
        BY <1>3, <1>5, <2>2, <3>1
      <4>2. at \in Held(stack[d])
        BY <1>1, <4>1
      <4> QED
        BY <3>1, <4>2 DEF Inv, Apart, n
    <3>2. CASE d = n + 1
      <4>1. f.kind = "match" /\ m = 1
        BY <1>2, <2>2, <3>2
      <4>2. Len(stack') = n + 1 /\ top' = f
        BY <1>2, <4>1 DEF top
      <4> QED
        BY <3>2, <4>1, <4>2 DEF Between
    <3> QED
      BY <1>8, <1>9, <2>2, <3>1, <3>2
  <2>3. ASSUME NEW d \in 1 .. Len(stack')
        PROVE  /\ stack'[d].kind = "match" => stack'[d].start # stack'[d].end
               /\ stack'[d].kind = "then" => stack'[d].else_ # stack'[d].end
    <3>1. CASE d \in 1 .. n
      BY <1>3, <1>4, <3>1 DEF Inv, Apart, n
    <3> QED
      BY <1>2, <1>8, <1>9, <3>1
  <2> QED
    BY <2>1, <2>2, <2>3 DEF Apart
<1> QED
  BY <1>6, <1>7, <1>11, <1>12, <1>13, <1>14

(* The activation on top is popped, and the builder goes on where it is or *)
(* in a block that activation held.                                        *)
LEMMA Pops ==
  ASSUME Inv, stack # <<>>, top.kind # "function", stack' = Pop,
         at' \in Held(top) \/ (at' = at /\ ~Between), at' # 0
  PROVE  /\ stack' \in Seq(Activations(Len(blocks))) /\ stack' # <<>>
         /\ Nesting' /\ Apart'
         /\ \A b : IsHeld(b)' <=> IsHeld(b) /\ b \notin Held(top)
         /\ \A d \in 1 .. Len(stack') : \A b \in Known(stack'[d]) : Target(b)
         /\ stack'[1] = stack[1]
         /\ top'.kind = "match" => top.kind = "match" /\ ~Between'
<1> DEFINE n == Len(stack)
           A == Activations(Len(blocks))
<1>1. /\ n \in Nat /\ n >= 2 /\ Len(blocks) \in Nat
      /\ top = stack[n] /\ stack[1].kind = "function" /\ at \in Block
  <2>1. n \in Nat /\ n \in 1 .. n /\ n # 1
    BY StackIs
  <2> QED
    BY <2>1, StackIs
<1>2. stack \in Seq(A)
  BY DEF Inv, Sorts
<1> HIDE DEF A, n
<1>3. /\ stack' \in Seq(A) /\ Len(stack') = n - 1
      /\ \A d \in 1 .. n - 1 : stack'[d] = stack[d]
  BY <1>1, <1>2 DEF Pop, n
<1>4. /\ 1 \in 1 .. n - 1 /\ n - 1 \in 1 .. n - 1 /\ Len(stack') # 0
      /\ \A d \in 1 .. n : d \in 1 .. n - 1 \/ d = n
      /\ \A d \in 1 .. n - 1 : d \in 1 .. n /\ d # n
      /\ n \in 1 .. n
  BY <1>1, <1>3
<1>5. stack' # <<>> /\ stack'[1] = stack[1]
  BY <1>3, <1>4
<1>6. \A b : IsHeld(b)' <=> IsHeld(b) /\ b \notin Held(top)
  <2>1. ASSUME NEW b, NEW d \in 1 .. n - 1, b \in Held(stack'[d])
        PROVE  IsHeld(b) /\ b \notin Held(top)
    <3>1. b \in Held(stack[d]) /\ d \in 1 .. n /\ d # n
      BY <1>3, <1>4, <2>1
    <3>2. Held(stack[d]) \cap Held(stack[n]) = {}
      BY <1>4, <3>1 DEF Inv, Apart, n
    <3> QED
      BY <1>1, <3>1, <3>2 DEF IsHeld, n
  <2>2. ASSUME NEW b, IsHeld(b), b \notin Held(top) PROVE IsHeld(b)'
    BY <1>1, <1>3, <1>4, <2>2 DEF IsHeld, n
  <2> QED
    BY <1>3, <2>1, <2>2 DEF IsHeld
<1>7. ASSUME NEW d \in 1 .. Len(stack'), NEW b \in Known(stack'[d]) PROVE Target(b)
  BY <1>3, <1>4 DEF Target, InUse, n
<1>8. Nesting'
  <2>1. stack'[1].kind = "function"
    BY <1>1, <1>5
  <2>2. ASSUME NEW d \in 2 .. n - 1 PROVE stack'[d].kind # "function"
    <3>1. d \in 2 .. n /\ d \in 1 .. n - 1
      BY <1>1
    <3> QED
      BY <1>3, <3>1 DEF Inv, Nesting, n
  <2>3. ASSUME NEW d \in 1 .. n - 1 - 1, stack'[d].kind = "match"
        PROVE  stack'[d + 1].kind = "match" /\ stack'[d].option # 0
    <3>1. d \in 1 .. n - 1 /\ d + 1 \in 1 .. n - 1
      BY <1>1
    <3> QED
      BY <1>3, <2>3, <3>1 DEF Inv, Nesting, n
  <2> QED
    BY <1>3, <2>1, <2>2, <2>3 DEF Nesting
<1>9. Apart'
  <2>1. ASSUME NEW d \in 1 .. n - 1, NEW e \in 1 .. n - 1, d # e
        PROVE  Held(stack'[d]) \cap Held(stack'[e]) = {}
    <3>1. stack'[d] = stack[d] /\ stack'[e] = stack[e] /\ d \in 1 .. n /\ e \in 1 .. n
      BY <1>3, <1>4
    <3> QED
      BY <2>1, <3>1 DEF Inv, Apart, n
  <2>2. ASSUME NEW d \in 1 .. n - 1, at' \in Held(stack'[d]) PROVE FALSE
    <3>1. d \in 1 .. n /\ d # n /\ at' \in Held(stack[d])
      BY <1>3, <1>4, <2>2
    <3>2. CASE at' \in Held(top)
      <4>1. Held(stack[d]) \cap Held(stack[n]) = {}
        BY <1>4, <3>1 DEF Inv, Apart, n
      <4> QED
        BY <1>1, <3>1, <3>2, <4>1
    <3>3. CASE at' = at
      BY <3>1, <3>3 DEF Inv, Apart, n
    <3> QED
      BY <3>2, <3>3
  <2>3. ASSUME NEW d \in 1 .. n - 1
        PROVE  /\ stack'[d].kind = "match" => stack'[d].start # stack'[d].end
               /\ stack'[d].kind = "then" => stack'[d].else_ # stack'[d].end
    BY <1>3, <1>4 DEF Inv, Apart, n
  <2> QED
    BY <1>3, <2>1, <2>2, <2>3 DEF Apart
<1>10. ASSUME top'.kind = "match" PROVE top.kind = "match" /\ ~Between'
  <2>1. top' = stack[n - 1]
    BY <1>3, <1>4 DEF top
  <2>2. n - 1 \in 1 .. Len(stack) - 1 /\ n - 1 + 1 = n
    BY <1>1 DEF n
  <2>3. stack[n].kind = "match" /\ stack[n - 1].option # 0
    BY <1>10, <2>1, <2>2 DEF Inv, Nesting
  <2> QED
    BY <1>1, <2>1, <2>3 DEF Between
<1> QED
  BY <1>3, <1>5, <1>6, <1>7, <1>8, <1>9, <1>10 DEF A

(* The activation on top becomes another, t, that holds no more than it,   *)
(* and the builder goes on in a block that none holds.                     *)
LEMMA Turns ==
  ASSUME Inv, stack # <<>>, top.kind # "function", ~Between \/ at' > Len(blocks),
         NEW last, NEW t, Len(stack') = Len(stack), stack'[Len(stack)] = t,
         \A d \in 1 .. Len(stack) - 1 : Alike(stack[d], stack'[d], last),
         t.kind # "function", t.kind = "match" <=> top.kind = "match",
         Held(t) \subseteq Held(top), at' \notin Held(t), at' # 0,
         at' = at \/ at' \in Held(top) \/ at' > Len(blocks),
         t.kind = "match" => t.start # t.end, t.kind # "then",
         \A b \in Known(t) : Target(b)
  PROVE  /\ Nesting' /\ Apart' /\ stack' # <<>> /\ top' = t
         /\ \A b : IsHeld(b)' =>
              IsHeld(b) /\ (b \in Held(top) => b \in Held(t))
         /\ \A b : IsHeld(b) => IsHeld(b)' \/ b \in Held(top) \ Held(t)
         /\ \A d \in 1 .. Len(stack') : \A b \in Known(stack'[d]) : Target(b)
         /\ stack'[1].typed = stack[1].typed
         /\ stack'[1].last \in {stack[1].last, last}
<1> DEFINE n == Len(stack)
<1>1. /\ n \in Nat /\ n >= 2 /\ Len(blocks) \in Nat
      /\ top = stack[n] /\ stack[1].kind = "function" /\ at \in Block
  <2>1. n \in Nat /\ n \in 1 .. n /\ n # 1
    BY StackIs
  <2> QED
    BY <2>1, StackIs
<1>2. Len(stack') = n /\ stack'[n] = t
  OBVIOUS
<1> HIDE DEF n
<1>3. \A d \in 1 .. n - 1 : /\ Known(stack'[d]) = Known(stack[d])
                            /\ Held(stack'[d]) = Held(stack[d])
                            /\ stack'[d].kind = stack[d].kind
  BY AlikeKnow DEF n
<1>4. \A d \in 1 .. n - 1 : stack[d].kind \in {"match", "then"} => stack'[d] = stack[d]
  BY DEF Alike, n
<1>5. \A d \in 1 .. n : /\ Held(stack[d]) \subseteq Known(stack[d])
                        /\ \A b \in Known(stack[d]) : b \in 1 .. Len(blocks)
  BY <1>1, StackIs, ActivationIs DEF n
<1>6. /\ 1 \in 1 .. n - 1 /\ n \in 1 .. n
      /\ \A d \in 1 .. n : d \in 1 .. n - 1 \/ d = n
      /\ \A d \in 1 .. n - 1 : d \in 1 .. n /\ d # n
  BY <1>1
<1>7. /\ stack'[1].typed = stack[1].typed
      /\ stack'[1].last \in {stack[1].last, last}
  BY <1>1, <1>6 DEF Alike, n
<1>8. stack' # <<>> /\ top' = t
  BY <1>1, <1>2 DEF top
<1>9. ASSUME NEW d \in 1 .. n - 1, NEW b \in Held(stack'[d])
      PROVE  IsHeld(b) /\ b \notin Held(top)
  <2>1. b \in Held(stack[d]) /\ d \in 1 .. n /\ d # n
    BY <1>3, <1>6
  <2>2. Held(stack[d]) \cap Held(stack[n]) = {}
    BY <1>6, <2>1 DEF Inv, Apart, n
  <2> QED
    BY <1>1, <2>1, <2>2 DEF IsHeld, n
<1>10. \A b : IsHeld(b)' => IsHeld(b) /\ (b \in Held(top) => b \in Held(t))
  <2>1. \A b \in Held(t) : IsHeld(b)
    BY <1>1, <1>6 DEF IsHeld, n
  <2> QED
    BY <1>2, <1>6, <1>9, <2>1 DEF IsHeld
<1>11. \A b : IsHeld(b) => IsHeld(b)' \/ b \in Held(top) \ Held(t)
  <2>1. \A b \in Held(t) : IsHeld(b)'
    BY <1>2, <1>6 DEF IsHeld
  <2>2. \A d \in 1 .. n - 1 : \A b \in Held(stack[d]) : IsHeld(b)'
    BY <1>2, <1>3, <1>6 DEF IsHeld
  <2> QED
    BY <1>1, <1>6, <2>1, <2>2 DEF IsHeld, n
<1>12. ASSUME NEW d \in 1 .. Len(stack'), NEW b \in Known(stack'[d]) PROVE Target(b)
  BY <1>2, <1>3, <1>6 DEF Target, InUse, n
<1>13. Nesting'
  <2>1. stack'[1].kind = "function"
    BY <1>1, <1>3, <1>6
  <2>2. ASSUME NEW d \in 2 .. n PROVE stack'[d].kind # "function"
    <3>1. d \in 1 .. n
      BY <1>1
    <3> QED
      BY <1>2, <1>3, <1>6, <3>1 DEF Inv, Nesting, n
  <2>3. ASSUME NEW d \in 1 .. n - 1, stack'[d].kind = "match"
        PROVE  stack'[d + 1].kind = "match" /\ stack'[d].option # 0
    <3>1. stack[d + 1].kind = "match" /\ stack[d].option # 0
      BY <1>3, <2>3 DEF Inv, Nesting, n
    <3>2. d + 1 \in 1 .. n
      BY <1>1
    <3>3. stack'[d + 1].kind = "match"
      <4>1. CASE d + 1 \in 1 .. n - 1
        BY <1>3, <3>1, <4>1
      <4>2. CASE d + 1 = n
        BY <1>1, <1>2, <3>1, <4>2
      <4> QED
        BY <1>6, <3>2, <4>1, <4>2
    <3> QED
      BY <1>3, <1>4, <2>3, <3>1, <3>3
  <2> QED
    BY <1>2, <2>1, <2>2, <2>3 DEF Nesting
<1>14. Apart'
  <2>1. ASSUME NEW d \in 1 .. n, NEW e \in 1 .. n, d # e
        PROVE  Held(stack'[d]) \cap Held(stack'[e]) = {}
    <3>1. \A c \in 1 .. n : Held(stack'[c]) \subseteq Held(stack[c])
      BY <1>1, <1>2, <1>3, <1>6
    <3> QED
      BY <2>1, <3>1 DEF Inv, Apart, n
  <2>2. ASSUME NEW d \in 1 .. n - 1, at' \in Held(stack'[d]) PROVE FALSE
    <3>1. d \in 1 .. n /\ d # n /\ at' \in Held(stack[d]) /\ at' \in 1 .. Len(blocks)
      BY <1>3, <1>5, <1>6, <2>2
    <3>2. at' \notin Held(top)
      BY <1>9, <2>2
    <3>3. at' = at /\ ~Between
      BY <1>1, <3>1, <3>2
    <3> QED
      BY <3>1, <3>3 DEF Inv, Apart, n
  <2>3. ASSUME NEW d \in 1 .. n
        PROVE  /\ stack'[d].kind = "match" => stack'[d].start # stack'[d].end
               /\ stack'[d].kind = "then" => stack'[d].else_ # stack'[d].end
    BY <1>2, <1>3, <1>4, <1>6 DEF Inv, Apart, n
  <2> QED
    BY <1>2, <1>6, <2>1, <2>2, <2>3 DEF Apart
<1> QED
  BY <1>7, <1>8, <1>10, <1>11, <1>12, <1>13, <1>14
-----------------------------------------------------------------------------
(* Where an expression is next, the builder has a block to go on in. *)
LEMMA AtWork ==
  ASSUME Inv, InExpression
  PROVE  /\ Running /\ stack # <<>> /\ ~Between /\ count + 1 \in Statement
         /\ top.kind \in {"function", "block", "else", "match"}
         /\ top.kind = "match" => top.option # 0 /\ ~InStatement
<1>1. /\ Running /\ stack # <<>> /\ count + declared < MaxItems
      /\ \/ top.kind \in {"function", "block"}
         \/ top.kind \in {"else", "match"} /\ value = "pending"
  BY DEF InExpression, InStatement
<1>2. ~Between
  BY <1>1 DEF Inv, Values, Between
<1>3. count + 1 \in Statement
  BY <1>1, BoundsAssumption DEF Inv, Marks, Statement
<1>4. top.kind = "match" => top.option # 0 /\ ~InStatement
  BY <1>2 DEF Between, InStatement
<1> QED
  BY <1>1, <1>2, <1>3, <1>4

(* What a source is regular for at a step it was regular for before. *)
LEMMA RegularBefore == ASSUME odd \subseteq odd', Regular' PROVE Regular
BY DEF Regular, Unanswered

(* An instruction behind open code leaves it open, or closes it. *)
LEMMA Closing ==
  ASSUME NEW S, NEW c \in Seq(S), IsOpen(c), NEW i \in S
  PROVE  /\ i.op \in Terminators => IsClosed(Append(c, i))
         /\ i.op = "do" => IsOpen(Append(c, i))
<1> DEFINE a == Append(c, i)
<1>1. /\ Len(a) = Len(c) + 1 /\ a # <<>> /\ Len(c) \in Nat
      /\ \A k \in 1 .. Len(a) : \/ k \in 1 .. Len(c) /\ a[k] = c[k]
                                \/ k = Len(c) + 1 /\ a[k] = i
  BY AppendIs
<1> HIDE DEF a
<1>2. \A k \in 1 .. Len(a) : k \in 1 .. Len(c) <=> k # Len(a)
  BY <1>1
<1>3. ASSUME i.op \in Terminators PROVE IsClosed(a)
  <2>1. ASSUME NEW k \in 1 .. Len(a) PROVE a[k].op \in Terminators <=> k = Len(a)
    BY <1>1, <1>2, <1>3 DEF IsOpen
  <2> QED
    BY <1>1, <2>1 DEF IsClosed
<1>4. ASSUME i.op = "do" PROVE IsOpen(a)
  <2>1. i.op \notin Terminators
    BY <1>4 DEF Terminators
  <2> QED
    BY <1>1, <2>1 DEF IsOpen
<1> QED
  BY <1>3, <1>4 DEF a

(* A statement or an expression without blocks of its own. *)
LEMMA Straight ==
  ASSUME Inv, InExpression, NEW last,
         Follows(stack, stack', Len(blocks), last),
         at' = at, entries' = entries, odd \subseteq odd',
         \/ blocks' = blocks /\ value' # "terminator"
         \/ \E i \in Instructions(Len(blocks)) :
              /\ blocks' = Built(blocks, at, i) /\ i.to = {}
              /\ \/ i.op = "do" /\ value' # "terminator"
                 \/ /\ i.op = "ret" /\ value' = "terminator" /\ pending' = {}
                    /\ Regular' => stack[1].typed,
         Regular' => pending # {},
         Regular' => (last = "return" => stack[1].typed)
  PROVE  Sorts' /\ Nesting' /\ Apart' /\ Inside /\ (Regular' => Shape')
<1> DEFINE n == Len(blocks)
           I == Instructions(n)
<1>1. stack # <<>> /\ ~Between
  BY AtWork
<1>2. n \in Nat /\ at \in 1 .. n /\ Block = 1 .. n
  BY <1>1, StackIs DEF Block
<1>3. /\ Nesting' /\ Apart' /\ (Between' <=> Between) /\ stack' # <<>>
      /\ top'.kind = top.kind /\ (top.kind = "match" => top' = top)
      /\ \A b : (IsHeld(b)' <=> IsHeld(b)) /\ (InUse(b)' <=> InUse(b))
      /\ \A d \in 1 .. Len(stack') : Known(stack'[d]) = Known(stack[d])
      /\ stack'[1].typed = stack[1].typed
      /\ stack'[1].last \in {stack[1].last, last}
  BY <1>1, Stays
<1>4. blocks \in Seq(Seq(I)) /\ blocks[at] \in Seq(I)
  <2>1. blocks \in Seq(Seq(I))
    BY DEF Inv, Sorts
  <2> HIDE DEF I
  <2> QED
    BY <1>2, <2>1, ElementOfSeq
<1>5. /\ blocks' \in Seq(Seq(I)) /\ Len(blocks') = n
      /\ \A b \in 1 .. n : b # at => blocks'[b] = blocks[b]
      /\ \/ blocks'[at] = blocks[at] /\ value' # "terminator"
         \/ \E i \in I :
              /\ blocks'[at] = Append(blocks[at], i) /\ i.to = {}
              /\ \/ i.op = "do" /\ value' # "terminator"
                 \/ /\ i.op = "ret" /\ value' = "terminator" /\ pending' = {}
                    /\ Regular' => stack[1].typed
  <2> HIDE DEF I
  <2>1. CASE blocks' = blocks /\ value' # "terminator"
    BY <1>4, <2>1
  <2>2. CASE ~(blocks' = blocks /\ value' # "terminator")
    <3>1. PICK i \in I :
            /\ blocks' = Built(blocks, at, i) /\ i.to = {}
            /\ \/ i.op = "do" /\ value' # "terminator"
               \/ /\ i.op = "ret" /\ value' = "terminator" /\ pending' = {}
                  /\ Regular' => stack[1].typed
      BY <2>2 DEF I
    <3>2. /\ Built(blocks, at, i) \in Seq(Seq(I)) /\ Len(Built(blocks, at, i)) = n
          /\ Built(blocks, at, i)[at] = Append(blocks[at], i)
          /\ \A b \in 1 .. n : b # at => Built(blocks, at, i)[b] = blocks[b]
      BY <1>2, <3>1, BuiltIn DEF Inv, I
    <3> QED
      BY <3>1, <3>2
  <2> QED
    BY <2>1, <2>2
<1>6. Sorts'
  BY <1>2, <1>5 DEF Sorts, Follows, Inv, Block
<1>7. Inside
  <2>1. \A d \in 1 .. Len(stack') : \A b \in Known(stack'[d]) : Target(b)
    BY <1>3 DEF Target, InUse, Follows
  <2>2. ASSUME NEW b \in Block'
        PROVE  \/ blocks'[b] = Was(b)
               \/ /\ Mine(b)
                  /\ \E i \in Instructions(Len(blocks')) :
                       /\ blocks'[b] = Append(Was(b), i)
                       /\ \A c \in i.to : Target(c)
                       /\ i.op = "ret" /\ Regular' => stack[1].typed
                       /\ i.op = "retvoid" => ~stack[1].typed
    <3>1. b \in 1 .. n /\ Was(b) = blocks[b]
      BY <1>2, <1>5 DEF Block, Was
    <3> QED
      BY <1>5, <3>1 DEF Mine
  <2>3. Mine(at') /\ Len(blocks) <= Len(blocks')
    BY <1>2, <1>5 DEF Mine
  <2> QED
    BY <1>1, <1>3, <2>1, <2>2, <2>3 DEF Inside
<1>8. ASSUME Regular' PROVE Shape'
  <2>1. Shape /\ value # "terminator" /\ Open(at)
    BY <1>1, <1>8, RegularBefore DEF Inv, Shape
  <2>2. \/ value' = "terminator" /\ Closed(at)' /\ pending' = {} /\ stack[1].typed
        \/ value' # "terminator" /\ Open(at)'
    <3>1. CASE blocks'[at] = blocks[at] /\ value' # "terminator"
      BY <2>1, <3>1 DEF Open
    <3>2. ASSUME NEW i \in I, blocks'[at] = Append(blocks[at], i),
                 \/ i.op = "do" /\ value' # "terminator"
                 \/ /\ i.op = "ret" /\ value' = "terminator" /\ pending' = {}
                    /\ Regular' => stack[1].typed
          PROVE  \/ /\ value' = "terminator" /\ IsClosed(blocks'[at]) /\ pending' = {}
                    /\ stack[1].typed
                 \/ value' # "terminator" /\ IsOpen(blocks'[at])
      <4> HIDE DEF I
      <4> QED
        BY <1>4, <1>8, <2>1, <3>2, Closing DEF Open, Terminators
    <3> QED
      BY <1>5, <3>1, <3>2 DEF Open, Closed
  <2>3. ASSUME NEW b \in Block', b # at', ~IsHeld(b)' PROVE Closed(b)'
    BY <1>2, <1>3, <1>5, <2>1, <2>3 DEF Shape, Block, Closed
  <2>4. ASSUME NEW b \in Block', IsHeld(b)' PROVE Open(b)'
    <3>1. b # at
      BY <1>1, <1>3, <2>4 DEF IsHeld, Inv, Apart
    <3> QED
      BY <1>2, <1>3, <1>5, <2>1, <2>4, <3>1 DEF Shape, Block, Open
  <2>5. stack'[1].last = "return" => stack'[1].typed
    BY <1>1, <1>3, <1>8, <2>1 DEF Shape
  <2> QED
    BY <1>1, <1>3, <2>2, <2>3, <2>4, <2>5 DEF Shape
<1> QED
  BY <1>3, <1>6, <1>7, <1>8

(* A statement is noted and then the name it declares. *)
LEMMA NotedAndDeclared ==
  ASSUME Sorts, stack # <<>>, at # 0
  PROVE  Follows(stack, Declare(Noted("other"), at), Len(blocks), "other")
<1> DEFINE s == Noted("other")
           t == Declare(s, at)
<1>1. Follows(stack, s, Len(blocks), "other")
  BY NotedIs
<1>2. s \in Seq(Activations(Len(blocks))) /\ Len(s) = Len(stack)
  BY <1>1 DEF Follows
<1>3. \A d \in 1 .. Len(s) : s[d].kind = stack[d].kind
  BY <1>1 DEF Follows, Alike
<1>4. Len(blocks) \in Nat /\ at \in 1 .. Len(blocks)
  BY DEF Sorts, Block
<1> HIDE DEF s
<1>5. Follows(s, t, Len(blocks), "other")
  BY <1>2, <1>3, <1>4, DeclareIs
<1> HIDE DEF t
<1>6. ASSUME NEW d \in 1 .. Len(stack) PROVE Alike(stack[d], t[d], "other")
  <2>1. Alike(stack[d], s[d], "other") /\ Alike(s[d], t[d], "other")
    BY <1>1, <1>2, <1>5 DEF Follows
  <2> QED
    BY <2>1 DEF Alike
<1>7. Follows(stack, t, Len(blocks), "other")
  BY <1>2, <1>5, <1>6 DEF Follows
<1> QED
  BY <1>7 DEF s, t

(* What a step inside a function keeps. *)
Kept == /\ Sorts' /\ Nesting' /\ Apart' /\ Values' /\ Inside
        /\ Regular' => Shape'

(* The value a straight piece of code leaves behind it. *)
LEMMA StraightValues ==
  ASSUME Inv, stack # <<>>, NEW n, NEW last, Follows(stack, stack', n, last),
         at' = at, value' # "pending",
         top.kind = "match" => value' \notin {"terminator", "garbage"} /\ pending' \subseteq Statement
  PROVE  Values'
BY Stays DEF Values

(* A source is not regular where the generator has no answer to it. *)
LEMMA Irregular ==
  ASSUME NEW o, o \in odd', o # "match name", o # "bare declaration"
  PROVE  ~Regular'
BY DEF Regular, Unanswered

(* What comes before a statement is alive in a regular source. *)
LEMMA NotDead ==
  ASSUME Dead \subseteq odd', Regular' PROVE pending # {}
<1> SUFFICES ASSUME pending = {} PROVE FALSE
  OBVIOUS
<1>1. "dead code" \in odd'
  BY DEF Dead
<1>2. "dead code" # "match name" /\ "dead code" # "bare declaration"
  OBVIOUS
<1> QED
  BY <1>1, <1>2, Irregular

(* Assignments and declarations keep the shape. *)
LEMMA AssignmentKeeps ==
  ASSUME Inv, NEW first, NEW assigns, parse_assignment(first, assigns)
  PROVE  Kept
<1>1. InExpression /\ InStatement
  BY DEF parse_assignment, InExpression
<1>2. /\ stack # <<>> /\ count + 1 \in Statement /\ at \in Block
      /\ top.kind # "match" /\ Len(blocks) \in Nat /\ Sorts /\ at # 0
  BY <1>1, AtWork, StackIs DEF Inv, Nesting
<1>3. Follows(stack, stack', Len(blocks), "other")
  <2>1. stack' = Declare(Noted("other"), at) \/ stack' = Noted("other")
    BY DEF parse_assignment
  <2> QED
    BY <1>2, <2>1, NotedIs, NotedAndDeclared
<1>4. Do(name) \in Instructions(Len(blocks)) /\ Do(name).to = {} /\ Do(name).op = "do"
  BY <1>2, DoIs
<1>5. at' = at /\ entries' = entries /\ blocks' = Built(blocks, at, Do(name))
  BY DEF parse_assignment
<1>6. odd \subseteq odd' /\ Dead \subseteq odd' /\ value' \in {"null", "instruction"}
  BY DEF parse_assignment
<1>7. Sorts' /\ Nesting' /\ Apart' /\ Inside /\ (Regular' => Shape')
  BY <1>1, <1>3, <1>4, <1>5, <1>6, NotDead, Straight
<1>8. Values'
  BY <1>2, <1>3, <1>5, <1>6, StraightValues
<1> QED
  BY <1>7, <1>8 DEF Kept

(* Calls keep the shape. *)
LEMMA CallKeeps == ASSUME Inv, parse_function_call PROVE Kept
<1>1. InExpression
  BY DEF parse_function_call
<1>2. /\ stack # <<>> /\ count + 1 \in Statement /\ Len(blocks) \in Nat /\ Sorts
  BY <1>1, AtWork, StackIs DEF Inv
<1>3. Follows(stack, stack', Len(blocks), "other")
  BY <1>2, NotedIs DEF parse_function_call
<1>4. Do(name) \in Instructions(Len(blocks)) /\ Do(name).to = {} /\ Do(name).op = "do"
  BY <1>2, DoIs
<1>5. at' = at /\ entries' = entries /\ blocks' = Built(blocks, at, Do(name))
  BY DEF parse_function_call
<1>6. /\ odd \subseteq odd' /\ Dead \subseteq odd' /\ value' = "instruction"
      /\ pending' \subseteq Statement
  BY <1>2 DEF parse_function_call, name
<1>7. Sorts' /\ Nesting' /\ Apart' /\ Inside /\ (Regular' => Shape')
  BY <1>1, <1>3, <1>4, <1>5, <1>6, NotDead, Straight
<1>8. Values'
  BY <1>2, <1>3, <1>5, <1>6, StraightValues
<1> QED
  BY <1>7, <1>8 DEF Kept

(* Constants keep the shape. *)
LEMMA ConstantKeeps == ASSUME Inv, parse_constant PROVE Kept
<1>1. InExpression
  BY DEF parse_constant
<1>2. stack # <<>> /\ Sorts
  BY <1>1, AtWork DEF Inv
<1>3. Follows(stack, stack', Len(blocks), "other")
  BY <1>2, NotedIs DEF parse_constant
<1>4. at' = at /\ entries' = entries /\ blocks' = blocks
  BY DEF parse_constant, code
<1>5. /\ odd \subseteq odd' /\ Dead \subseteq odd' /\ value' = "constant"
      /\ top.kind = "match" => pending' \subseteq Statement
  BY <1>2 DEF parse_constant, Inv, Values
<1>6. Sorts' /\ Nesting' /\ Apart' /\ Inside /\ (Regular' => Shape')
  BY <1>1, <1>3, <1>4, <1>5, NotDead, Straight
<1>7. Values'
  BY <1>2, <1>3, <1>4, <1>5, StraightValues
<1> QED
  BY <1>6, <1>7 DEF Kept

(* A return keeps the shape: nothing may come behind it. *)
LEMMA ReturnKeeps == ASSUME Inv, parse_return PROVE Kept
<1>1. InExpression /\ InStatement
  BY DEF parse_return, InExpression
<1>2. /\ stack # <<>> /\ count + 1 \in Statement /\ Len(blocks) \in Nat /\ Sorts
      /\ top.kind # "match"
  BY <1>1, AtWork, StackIs DEF Inv
<1>3. Follows(stack, stack', Len(blocks), "return")
  BY <1>2, NotedIs DEF parse_return
<1>4. Ret(name) \in Instructions(Len(blocks)) /\ Ret(name).to = {} /\ Ret(name).op = "ret"
  BY <1>2, DoIs
<1>5. at' = at /\ entries' = entries /\ blocks' = Built(blocks, at, Ret(name))
  BY DEF parse_return
<1>6. /\ odd \subseteq odd' /\ Dead \subseteq odd' /\ value' = "terminator" /\ pending' = {}
      /\ ~stack[1].typed => "value without a type" \in odd'
  BY DEF parse_return
<1>7. Regular' => stack[1].typed
  <2>1. /\ "value without a type" # "match name"
        /\ "value without a type" # "bare declaration"
    OBVIOUS
  <2> QED
    BY <1>6, <2>1, Irregular
<1>8. Sorts' /\ Nesting' /\ Apart' /\ Inside /\ (Regular' => Shape')
  BY <1>1, <1>3, <1>4, <1>5, <1>6, <1>7, NotDead, Straight
<1>9. Values'
  BY <1>2, <1>3, <1>5, <1>6, StraightValues
<1> QED
  BY <1>8, <1>9 DEF Kept
-----------------------------------------------------------------------------
(* The block the builder is at ends in a branch to new blocks, and the new *)
(* blocks that are open are those that the activation f holds and the one  *)
(* the builder goes on in.                                                 *)
LEMMA Opens ==
  ASSUME Inv, stack # <<>>, ~Between, Sorts', Nesting', NEW k \in Nat, NEW f,
         \A b : IsHeld(b)' <=> IsHeld(b) \/ b \in Held(f),
         \A b \in Held(f) : b > Len(blocks),
         \A d \in 1 .. Len(stack') : \A b \in Known(stack'[d]) : Target(b),
         stack' # <<>>, stack'[1].typed = stack[1].typed,
         stack'[1].last \in {stack[1].last, "other"},
         entries' = entries, odd \subseteq odd', Regular' => pending # {},
         Len(blocks') = Len(blocks) + k,
         NEW i \in Instructions(Len(blocks')), i.op \in {"br", "condbr"},
         \A c \in i.to : c > Len(blocks), blocks'[at] = Append(blocks[at], i),
         \A b \in Block : b # at => blocks'[b] = blocks[b],
         \A b \in Block' : b > Len(blocks) =>
           \/ blocks'[b] = <<>> /\ (b = at' \/ b \in Held(f))
           \/ \E j \in Instructions(Len(blocks')) :
                /\ blocks'[b] = Append(<<>>, j) /\ \A c \in j.to : c > Len(blocks)
                /\ \/ j.op = "do" /\ (b = at' \/ b \in Held(f))
                   \/ j.op \in {"br", "condbr"} /\ b # at' /\ b \notin Held(f),
         at' > Len(blocks), value' # "terminator", Between' => at' = top'.start
  PROVE  Inside /\ (Regular' => Shape')
<1> DEFINE n == Len(blocks)
<1>1. n \in Nat /\ at \in 1 .. n /\ Block = 1 .. n /\ Block' = 1 .. n + k
  BY StackIs DEF Block
<1>2. /\ \A b \in 1 .. n : b \in Block' /\ ~(b > n)
      /\ \A b \in Block' : b \in 1 .. n \/ b > n
  BY <1>1
<1>3. Inside
  <2>1. ASSUME NEW b \in Block'
        PROVE  \/ blocks'[b] = Was(b)
               \/ /\ Mine(b)
                  /\ \E j \in Instructions(Len(blocks')) :
                       /\ blocks'[b] = Append(Was(b), j)
                       /\ \A c \in j.to : Target(c)
                       /\ j.op = "ret" /\ Regular' => stack[1].typed
                       /\ j.op = "retvoid" => ~stack[1].typed
    <3>1. CASE b \in 1 .. n /\ b # at
      BY <1>1, <3>1 DEF Was
    <3>2. CASE b = at
      BY <1>1, <3>2 DEF Was, Mine, Target
    <3>3. CASE b > n
      <4>1. Was(b) = <<>> /\ Mine(b)
        BY <1>1, <1>2, <3>3 DEF Was, Mine
      <4>2. CASE blocks'[b] = <<>>
        BY <4>1, <4>2
      <4>3. CASE blocks'[b] # <<>>
        <5>1. PICK j \in Instructions(Len(blocks')) :
                /\ blocks'[b] = Append(<<>>, j) /\ \A c \in j.to : c > Len(blocks)
                /\ j.op \in {"do", "br", "condbr"}
          BY <3>3, <4>3
        <5> QED
          BY <4>1, <5>1 DEF Target
      <4> QED
        BY <4>2, <4>3
    <3> QED
      BY <1>2, <3>1, <3>2, <3>3
  <2>2. Mine(at') /\ Len(blocks) <= Len(blocks')
    BY <1>1 DEF Mine
  <2> QED
    BY <2>1, <2>2 DEF Inside
<1>4. ASSUME Regular' PROVE Shape'
  <2>1. Shape /\ value # "terminator" /\ Open(at)
    BY <1>4, RegularBefore DEF Inv, Shape
  <2>2. IsClosed(blocks'[at])
    <3>1. blocks[at] \in Seq(Instructions(n))
      BY <1>1, ElementOfSeq DEF Inv, Sorts
    <3>2. blocks[at] \in Seq(Instructions(Len(blocks')))
      BY <1>1, <3>1, Wider
    <3>3. i.op \in Terminators
      BY DEF Terminators
    <3> QED
      BY <2>1, <3>2, <3>3, Closing DEF Open
  <2>3. \A b \in Block' : b > n =>
          IF b = at' \/ b \in Held(f) THEN IsOpen(blocks'[b]) ELSE IsClosed(blocks'[b])
    <3>1. IsOpen(<<>>)
      BY DEF IsOpen
    <3>2. ASSUME NEW b \in Block', b > n, NEW j \in Instructions(Len(blocks')),
                 blocks'[b] = Append(<<>>, j)
          PROVE  /\ j.op \in Terminators => IsClosed(blocks'[b])
                 /\ j.op = "do" => IsOpen(blocks'[b])
      <4>1. <<>> \in Seq(Instructions(Len(blocks')))
        OBVIOUS
      <4>2. j.op \in Terminators => IsClosed(Append(<<>>, j))
        BY <3>1, <4>1, Closing
      <4>3. j.op = "do" => IsOpen(Append(<<>>, j))
        BY <3>1, <4>1, Closing
      <4> QED
        BY <3>2, <4>2, <4>3
    <3>3. {"br", "condbr"} \subseteq Terminators
      BY DEF Terminators
    <3> QED
      BY <3>1, <3>2, <3>3
  <2>4. ASSUME NEW b \in Block' PROVE /\ b # at' /\ ~IsHeld(b)' => IsClosed(blocks'[b])
                                      /\ IsHeld(b)' => IsOpen(blocks'[b])
    <3>1. CASE b > n
      <4>1. ~IsHeld(b)
        <5>1. ASSUME NEW d \in 1 .. Len(stack), b \in Held(stack[d]) PROVE FALSE
          <6>1. b \in 1 .. n
            BY <5>1, StackIs, ActivationIs
          <6> QED
            BY <1>2, <3>1, <6>1
        <5> QED
          BY <5>1 DEF IsHeld
      <4>2. ASSUME IsHeld(b)' PROVE b \in Held(f)
        BY <4>1, <4>2
      <4>3. ASSUME b # at', ~IsHeld(b)' PROVE b \notin Held(f)
        BY <4>3
      <4> QED
        BY <2>3, <3>1, <4>2, <4>3
    <3>2. CASE b \in 1 .. n /\ b # at
      <4>1. b \notin Held(f) /\ blocks'[b] = blocks[b]
        BY <1>1, <1>2, <3>2
      <4>2. IsHeld(b)' <=> IsHeld(b)
        BY <4>1
      <4> QED
        BY <1>1, <2>1, <3>2, <4>1, <4>2 DEF Shape, Open, Closed
    <3>3. CASE b = at
      <4>1. ~IsHeld(at)
        BY DEF Inv, Apart, IsHeld
      <4>2. at \notin Held(f)
        BY <1>1, <1>2
      <4> QED
        BY <2>2, <3>3, <4>1, <4>2
    <3> QED
      BY <1>2, <3>1, <3>2, <3>3
  <2>5. at' \in Block' /\ IsOpen(blocks'[at'])
    <3>1. at' \in Block'
      BY DEF Sorts, Nesting
    <3> QED
      BY <2>3, <3>1
  <2>6. stack'[1].last = "return" => stack'[1].typed
    BY <2>1 DEF Shape
  <2> QED
    BY <2>4, <2>5, <2>6 DEF Shape, Open, Closed
<1> QED
  BY <1>3, <1>4

(* An activation on top of the others. *)
LEMMA PushedOne ==
  ASSUME Sorts, NEW last, NEW s, Follows(stack, s, Len(blocks), last),
         NEW m \in Nat, Len(blocks) <= m, NEW f \in Activations(m),
         stack' = s \o <<f>> \/ stack' = Append(s, f)
  PROVE  /\ stack' \in Seq(Activations(m)) /\ Len(stack') = Len(stack) + 1
         /\ stack'[Len(stack) + 1] = f
         /\ \A d \in 1 .. Len(stack) : Alike(stack[d], stack'[d], last)
<1> DEFINE A == Activations(m)
           n == Len(stack)
<1>1. Len(blocks) \in Nat /\ s \in Seq(Activations(Len(blocks))) /\ Len(s) = n
  BY DEF Sorts, Follows
<1>2. s \in Seq(A) /\ f \in A
  BY <1>1, Wider
<1>3. \A d \in 1 .. n : Alike(stack[d], s[d], last)
  BY DEF Follows
<1> HIDE DEF A, n
<1>4. /\ Append(s, f) \in Seq(A) /\ s \o <<f>> = Append(s, f)
      /\ Len(Append(s, f)) = n + 1 /\ Append(s, f)[n + 1] = f
      /\ \A d \in 1 .. n : Append(s, f)[d] = s[d]
  BY <1>1, <1>2
<1> QED
  BY <1>3, <1>4 DEF A, n

(* An activation on top of the others, and another on top of it. *)
LEMMA PushedTwo ==
  ASSUME Sorts, NEW last, NEW s, Follows(stack, s, Len(blocks), last),
         NEW m \in Nat, Len(blocks) <= m, NEW f \in Activations(m), NEW g \in Activations(m),
         stack' = s \o <<f, g>>
  PROVE  /\ stack' \in Seq(Activations(m)) /\ Len(stack') = Len(stack) + 2
         /\ stack'[Len(stack) + 1] = f /\ stack'[Len(stack) + 2] = g
         /\ \A d \in 1 .. Len(stack) : Alike(stack[d], stack'[d], last)
<1> DEFINE A == Activations(m)
           n == Len(stack)
<1>1. Len(blocks) \in Nat /\ s \in Seq(Activations(Len(blocks))) /\ Len(s) = n
  BY DEF Sorts, Follows
<1>2. s \in Seq(A) /\ f \in A /\ g \in A
  BY <1>1, Wider
<1>3. \A d \in 1 .. n : Alike(stack[d], s[d], last)
  BY DEF Follows
<1> HIDE DEF A, n
<1>4. /\ s \o <<f, g>> \in Seq(A) /\ Len(s \o <<f, g>>) = n + 2
      /\ \A d \in 1 .. n : (s \o <<f, g>>)[d] = s[d]
  BY <1>1, <1>2
<1>5. (s \o <<f, g>>)[n + 1] = f /\ (s \o <<f, g>>)[n + 2] = g
  BY <1>1, <1>2
<1> QED
  BY <1>3, <1>4, <1>5 DEF A, n

(* A block is an activation that holds and knows nothing. *)
LEMMA FrameIs ==
  ASSUME NEW n \in Nat
  PROVE  /\ Frame("block") \in Activations(n) /\ Frame("block").kind = "block"
         /\ Held(Frame("block")) = {} /\ Known(Frame("block")) = {}
<1>1. Frame("block") \in Nests(n) /\ Frame("block").kind = "block"
  BY DEF Frame, Nests
<1> HIDE DEF Frame
<1> QED
  BY <1>1 DEF Activations, Held, Known

(* Entering a block keeps the shape. *)
LEMMA BlockKeeps == ASSUME Inv, parse_block PROVE Kept
<1> DEFINE n == Len(blocks)
           f == Frame("block")
<1>1. InExpression /\ InStatement
  BY DEF parse_block, InExpression
<1>2. /\ stack # <<>> /\ ~Between /\ top.kind # "match" /\ n \in Nat /\ Sorts
      /\ at \in Block /\ at # 0 /\ Len(stack) \in Nat
  BY <1>1, AtWork, StackIs DEF Inv, Nesting
<1>3. Follows(stack, Noted("other"), n, "other")
  BY <1>2, NotedIs
<1>4. f \in Activations(n) /\ f.kind = "block" /\ Held(f) = {} /\ Known(f) = {}
  BY <1>2, FrameIs
<1>5. /\ at' = at /\ entries' = entries /\ blocks' = blocks /\ value' = "garbage"
      /\ odd \subseteq odd' /\ Dead \subseteq odd' /\ stack' = Noted("other") \o <<f>>
  BY DEF parse_block, code
<1> HIDE DEF f
<1>6. /\ stack' \in Seq(Activations(n)) /\ Len(stack') = Len(stack) + 1
      /\ stack'[Len(stack) + 1] = f
      /\ \A d \in 1 .. Len(stack) : Alike(stack[d], stack'[d], "other")
  <2> DEFINE s == Noted("other")
  <2>1. Follows(stack, s, n, "other") /\ stack' = s \o <<f>> /\ n <= n
    BY <1>2, <1>3, <1>5
  <2> HIDE DEF s
  <2> QED
    BY <1>2, <1>4, <2>1, PushedOne
<1>7. Sorts'
  BY <1>5, <1>6 DEF Inv, Sorts, Block
<1>8. /\ Nesting' /\ Apart' /\ stack' # <<>>
      /\ \A b : IsHeld(b)' <=> IsHeld(b) \/ b \in Held(f)
      /\ \A d \in 1 .. Len(stack') : \A b \in Known(stack'[d]) : Target(b)
      /\ stack'[1].typed = stack[1].typed
      /\ stack'[1].last \in {stack[1].last, "other"}
  <2> DEFINE one == 1
  <2>1. one \in {1, 2} /\ Len(stack') = Len(stack) + one /\ one # 2
    BY <1>6
  <2> HIDE DEF one
  <2> QED
    BY <1>2, <1>4, <1>5, <1>6, <2>1, Pushes
<1>9. top' = f
  BY <1>2, <1>6 DEF top
<1>10. Values'
  BY <1>4, <1>5, <1>9 DEF Values
<1>11. Inside
  BY <1>2, <1>5, <1>8 DEF Inside, Mine, Was, Block
<1>12. ASSUME Regular' PROVE Shape'
  <2>1. Shape /\ value # "terminator" /\ Open(at)
    BY <1>2, <1>5, <1>12, RegularBefore, NotDead DEF Inv, Shape
  <2>2. \A b : IsHeld(b)' <=> IsHeld(b)
    BY <1>4, <1>8
  <2>3. ~Between'
    BY <1>4, <1>9 DEF Between
  <2> QED
    BY <1>2, <1>5, <1>8, <2>1, <2>2, <2>3 DEF Shape, Open, Closed, Block
<1> QED
  BY <1>7, <1>8, <1>10, <1>11, <1>12 DEF Kept

(* Entering a loop keeps the shape. *)
LEMMA WhileKeeps == ASSUME Inv, parse_while PROVE Kept
<1> DEFINE n == Len(blocks)
           m == n + 3
           f == [kind |-> "while", start |-> n + 1, end |-> n + 3, condition |-> name]
           g == Frame("block")
           i == Br(n + 1)
           j == CondBr(name, n + 2, n + 3)
<1>1. InExpression /\ InStatement
  BY DEF parse_while, InExpression
<1>2. /\ stack # <<>> /\ ~Between /\ top.kind # "match" /\ n \in Nat /\ Sorts
      /\ at \in Block /\ at # 0 /\ Len(stack) \in Nat /\ name \in Statement
  BY <1>1, AtWork, StackIs DEF Inv, Nesting, name
<1>3. Follows(stack, Noted("other"), n, "other")
  BY <1>2, NotedIs
<1>4. /\ m \in Nat /\ n <= m /\ n + 1 \in 1 .. m /\ n + 2 \in 1 .. m /\ n + 3 \in 1 .. m
  BY <1>2
<1>5. g \in Activations(m) /\ g.kind = "block"
  BY <1>4, FrameIs
<1>6. /\ f \in Activations(m) /\ f.kind = "while"
      /\ Held(f) = {n + 3} /\ Known(f) = {n + 1, n + 3}
  <2>1. f \in Whiles(m)
    BY <1>2, <1>4 DEF Whiles
  <2>2. f.kind = "while" /\ f.start = n + 1 /\ f.end = n + 3
    OBVIOUS
  <2> HIDE DEF f
  <2> QED
    BY <2>1, <2>2 DEF Activations, Held, Known
<1>7. i \in Instructions(m) /\ i.op = "br" /\ i.to = {n + 1}
  BY <1>2, <1>4, BranchIs
<1>8. j \in Instructions(m) /\ j.op = "condbr" /\ j.to = {n + 2, n + 3}
  BY <1>2, <1>4, BranchIs
<1>9. /\ at' = n + 2 /\ entries' = entries /\ value' = "garbage"
      /\ odd \subseteq odd' /\ Dead \subseteq odd'
      /\ stack' = Noted("other") \o <<f, g>>
      /\ blocks' = Built(Built(Appended(3), at, i), n + 1, j)
  BY DEF parse_while
<1> HIDE DEF f, g, i, j
<1>10. /\ blocks' \in Seq(Seq(Instructions(m)))
       /\ Len(blocks') = m /\ blocks'[at] = Append(blocks[at], i)
       /\ blocks'[n + 1] = Append(<<>>, j)
       /\ \A b \in Block : b # at => blocks'[b] = blocks[b]
       /\ \A b \in n + 2 .. m : blocks'[b] = <<>>
  <2> DEFINE k == 3
  <2>1. k \in Nat /\ k # 0 /\ m = n + k
    OBVIOUS
  <2>2. blocks' = Built(Built(Appended(k), at, i), n + 1, j)
    BY <1>9
  <2> HIDE DEF k, m
  <2>3. i \in Instructions(n + k) /\ j \in Instructions(n + k)
    BY <1>7, <1>8, <2>1
  <2> QED
    BY <1>2, <2>1, <2>2, <2>3, BuiltTwice
<1>11. /\ stack' \in Seq(Activations(m)) /\ Len(stack') = Len(stack) + 2
       /\ stack'[Len(stack) + 1] = f /\ stack'[Len(stack) + 2] = g
       /\ \A d \in 1 .. Len(stack) : Alike(stack[d], stack'[d], "other")
  <2> DEFINE s == Noted("other")
  <2>1. Follows(stack, s, n, "other") /\ stack' = s \o <<f, g>>
    BY <1>3, <1>9
  <2> HIDE DEF s, m
  <2> QED
    BY <1>2, <1>4, <1>5, <1>6, <2>1, PushedTwo
<1>12. Block' = 1 .. m /\ Block = 1 .. n
  BY <1>10 DEF Block
<1>13. Sorts'
  <2>1. at' \in Block' /\ Block \subseteq Block'
    BY <1>2, <1>9, <1>12
  <2>2. entries' \subseteq Block' \X BOOLEAN
    BY <1>2, <1>9, <2>1 DEF Sorts
  <2> QED
    BY <1>10, <1>11, <2>1, <2>2 DEF Sorts
<1>14. /\ Nesting' /\ Apart' /\ stack' # <<>>
       /\ \A b : IsHeld(b)' <=> IsHeld(b) \/ b \in Held(f)
       /\ \A d \in 1 .. Len(stack') : \A b \in Known(stack'[d]) : Target(b)
       /\ stack'[1].typed = stack[1].typed
       /\ stack'[1].last \in {stack[1].last, "other"}
  <2> DEFINE two == 2
  <2>1. two \in {1, 2} /\ Len(stack') = Len(stack) + two
    BY <1>11
  <2>2. /\ at' \notin Held(f) /\ at' > Len(blocks) /\ at' # 0
        /\ \A b \in Known(f) : b > Len(blocks)
        /\ Held(f) \subseteq Known(f)
    BY <1>2, <1>6, <1>9
  <2> HIDE DEF two
  <2> QED
    BY <1>2, <1>5, <1>6, <1>11, <2>1, <2>2, Pushes
<1>15. top'.kind = "block"
  BY <1>2, <1>5, <1>11 DEF top
<1>16. Values'
  BY <1>9, <1>15 DEF Values
<1>17. Inside /\ (Regular' => Shape')
  <2>1. \A b \in Held(f) : b > Len(blocks)
    BY <1>2, <1>6
  <2>2. \A b \in Block' : b > Len(blocks) => b = n + 1 \/ b \in n + 2 .. m
    BY <1>2, <1>12
  <2>3. \A b \in n + 2 .. m : b = at' \/ b \in Held(f)
    BY <1>2, <1>6, <1>9
  <2>4. n + 1 # at' /\ n + 1 \notin Held(f)
    BY <1>2, <1>6, <1>9
  <2>5. \A c \in j.to : c > Len(blocks)
    BY <1>2, <1>8
  <2>6. \A c \in i.to : c > Len(blocks)
    BY <1>2, <1>7
  <2>7. \A b \in Block' : b > Len(blocks) =>
           \/ blocks'[b] = <<>> /\ (b = at' \/ b \in Held(f))
           \/ \E x \in Instructions(Len(blocks')) :
                /\ blocks'[b] = Append(<<>>, x) /\ \A c \in x.to : c > Len(blocks)
                /\ \/ x.op = "do" /\ (b = at' \/ b \in Held(f))
                   \/ x.op \in {"br", "condbr"} /\ b # at' /\ b \notin Held(f)
    BY <1>8, <1>10, <2>2, <2>3, <2>4, <2>5
  <2>8. Regular' => pending # {}
    BY <1>9, NotDead
  <2>9. ~Between' /\ at' > Len(blocks) /\ value' # "terminator"
    BY <1>2, <1>9, <1>15 DEF Between
  <2> DEFINE k == 3
  <2>10. k \in Nat /\ Len(blocks') = Len(blocks) + k
    BY <1>10
  <2>11. i \in Instructions(Len(blocks')) /\ i.op \in {"br", "condbr"}
    BY <1>7, <1>10
  <2> HIDE DEF k
  <2> QED
    BY <1>2, <1>9, <1>10, <1>13, <1>14, <2>1, <2>6, <2>7, <2>8, <2>9, <2>10, <2>11, Opens
<1> QED
  BY <1>13, <1>14, <1>16, <1>17 DEF Kept

(* Entering a conditional keeps the shape, with an else or without. *)
LEMMA IfKeeps == ASSUME Inv, NEW with_else \in BOOLEAN, parse_if(with_else) PROVE Kept
<1> DEFINE n == Len(blocks)
           k == IF with_else THEN 3 ELSE 2
           m == n + k
           else_ == IF with_else THEN n + 2 ELSE 0
           f == [kind |-> "then", else_ |-> else_, end |-> m, condition |-> name]
           g == Frame("block")
           i == CondBr(name, n + 1, n + 2)
<1>1. InExpression /\ InStatement
  BY DEF parse_if, InExpression
<1>2. /\ stack # <<>> /\ ~Between /\ top.kind # "match" /\ n \in Nat /\ Sorts
      /\ at \in Block /\ at # 0 /\ Len(stack) \in Nat /\ name \in Statement
  BY <1>1, AtWork, StackIs DEF Inv, Nesting, name
<1>3. Follows(stack, Noted("other"), n, "other")
  BY <1>2, NotedIs
<1>4. /\ m \in Nat /\ n <= m /\ n + 1 \in 1 .. m /\ n + 2 \in 1 .. m /\ k \in Nat
      /\ m > n + 1 /\ else_ \in (1 .. m) \cup {0} /\ else_ # m
      /\ \A b \in n + 1 .. m : b = n + 1 \/ b = m \/ (b = else_ /\ b # 0)
      /\ else_ # 0 => else_ > n + 1
  BY <1>2
<1>5. g \in Activations(m) /\ g.kind = "block"
  BY <1>4, FrameIs
<1>6. /\ at' = n + 1 /\ entries' = entries /\ value' = "garbage"
      /\ odd \subseteq odd' /\ Dead \subseteq odd'
  BY DEF parse_if
<1>7. stack' = Noted("other") \o <<f, g>> /\ blocks' = Built(Appended(k), at, i)
  <2>1. CASE with_else
    <3>1. blocks' = Built(Appended(n + 3 - n), at, CondBr(name, n + 1, n + 2))
      BY <2>1 DEF parse_if
    <3>2. n + 3 - n = k
      BY <1>2, <2>1
    <3>3. stack' = Noted("other") \o <<f, g>>
      BY <2>1 DEF parse_if
    <3> QED
      BY <3>1, <3>2, <3>3
  <2>2. CASE ~with_else
    <3>1. blocks' = Built(Appended(n + 2 - n), at, CondBr(name, n + 1, n + 2))
      BY <2>2 DEF parse_if
    <3>2. n + 2 - n = k
      BY <1>2, <2>2
    <3>3. stack' = Noted("other") \o <<f, g>>
      BY <2>2 DEF parse_if
    <3> QED
      BY <3>1, <3>2, <3>3
  <2> QED
    BY <2>1, <2>2
<1> HIDE DEF else_
<1>8. /\ f \in Activations(m) /\ f.kind = "then" /\ f.else_ # f.end
      /\ Held(f) = {else_, m} \ {0} /\ Known(f) = {else_, m} \ {0}
  <2>1. f \in Thens(m)
    <3>1. m \in 1 .. m
      BY <1>4
    <3> HIDE DEF m
    <3> QED
      BY <1>2, <1>4, <3>1 DEF Thens
  <2>2. f.kind = "then" /\ f.else_ = else_ /\ f.end = m
    OBVIOUS
  <2> HIDE DEF f, m
  <2> QED
    BY <1>4, <2>1, <2>2 DEF Activations, Held, Known
<1>9. i \in Instructions(m) /\ i.op = "condbr" /\ i.to = {n + 1, n + 2}
  BY <1>2, <1>4, BranchIs
<1> HIDE DEF f, g, i, k
<1>10. /\ blocks' \in Seq(Seq(Instructions(m)))
       /\ Len(blocks') = m /\ blocks'[at] = Append(blocks[at], i)
       /\ \A b \in Block : b # at => blocks'[b] = blocks[b]
       /\ \A b \in n + 1 .. m : blocks'[b] = <<>>
  <2>1. blocks' \in Seq(Seq(Instructions(m)))
    BY <1>2, <1>4, <1>7, <1>9, BuiltAndAppended
  <2>2. Len(blocks') = m
    BY <1>2, <1>4, <1>7, <1>9, BuiltAndAppended
  <2>3. blocks'[at] = Append(blocks[at], i)
    BY <1>2, <1>4, <1>7, <1>9, BuiltAndAppended
  <2>4. ASSUME NEW b \in Block, b # at PROVE blocks'[b] = blocks[b]
    <3>1. Built(Appended(k), at, i)[b] = blocks[b]
      BY <1>2, <1>4, <1>9, <2>4, BuiltAndAppended
    <3> QED
      BY <1>7, <3>1
  <2>5. \A b \in n + 1 .. m : blocks'[b] = <<>>
    BY <1>2, <1>4, <1>7, <1>9, BuiltAndAppended
  <2> QED
    BY <2>1, <2>2, <2>3, <2>4, <2>5
<1>11. /\ stack' \in Seq(Activations(m)) /\ Len(stack') = Len(stack) + 2
       /\ stack'[Len(stack) + 1] = f /\ stack'[Len(stack) + 2] = g
       /\ \A d \in 1 .. Len(stack) : Alike(stack[d], stack'[d], "other")
  <2> DEFINE s == Noted("other")
  <2>1. Follows(stack, s, n, "other") /\ stack' = s \o <<f, g>>
    BY <1>3, <1>7
  <2> HIDE DEF s, m
  <2> QED
    BY <1>2, <1>4, <1>5, <1>8, <2>1, PushedTwo
<1>12. Block' = 1 .. m /\ Block = 1 .. n
  BY <1>10 DEF Block
<1>13. Sorts'
  <2>1. at' \in Block' /\ Block \subseteq Block'
    BY <1>2, <1>4, <1>6, <1>12
  <2>2. entries' \subseteq Block' \X BOOLEAN
    BY <1>2, <1>6, <2>1 DEF Sorts
  <2> QED
    BY <1>10, <1>11, <2>1, <2>2 DEF Sorts
<1>14. /\ Nesting' /\ Apart' /\ stack' # <<>>
       /\ \A b : IsHeld(b)' <=> IsHeld(b) \/ b \in Held(f)
       /\ \A d \in 1 .. Len(stack') : \A b \in Known(stack'[d]) : Target(b)
       /\ stack'[1].typed = stack[1].typed
       /\ stack'[1].last \in {stack[1].last, "other"}
  <2> DEFINE two == 2
  <2>1. two \in {1, 2} /\ Len(stack') = Len(stack) + two
    BY <1>11
  <2>2. /\ at' \notin Held(f) /\ at' > Len(blocks) /\ at' # 0
        /\ \A b \in Known(f) : b > Len(blocks)
        /\ Held(f) \subseteq Known(f)
    BY <1>2, <1>4, <1>6, <1>8
  <2> HIDE DEF two
  <2> QED
    BY <1>2, <1>5, <1>8, <1>11, <2>1, <2>2, Pushes
<1>15. top'.kind = "block"
  BY <1>2, <1>5, <1>11 DEF top
<1>16. Values'
  BY <1>6, <1>15 DEF Values
<1>17. Inside /\ (Regular' => Shape')
  <2>1. \A b \in Held(f) : b > Len(blocks)
    BY <1>2, <1>4, <1>8
  <2>2. \A b \in Block' : b > Len(blocks) => b \in n + 1 .. m
    BY <1>2, <1>12
  <2>3. \A b \in n + 1 .. m : b = at' \/ b \in Held(f)
    BY <1>4, <1>6, <1>8
  <2>4. \A c \in i.to : c > Len(blocks)
    BY <1>2, <1>9
  <2>5. \A b \in Block' : b > Len(blocks) =>
          blocks'[b] = <<>> /\ (b = at' \/ b \in Held(f))
    BY <1>10, <2>2, <2>3
  <2>6. Regular' => pending # {}
    BY <1>6, NotDead
  <2>7. ~Between' /\ at' > Len(blocks) /\ value' # "terminator"
    BY <1>2, <1>6, <1>15 DEF Between
  <2>8. k \in Nat /\ Len(blocks') = Len(blocks) + k
    BY <1>4, <1>10
  <2>9. i \in Instructions(Len(blocks')) /\ i.op \in {"br", "condbr"}
    BY <1>9, <1>10
  <2> QED
    BY <1>2, <1>6, <1>10, <1>13, <1>14, <2>1, <2>4, <2>5, <2>6, <2>7, <2>8, <2>9, Opens
<1> QED
  BY <1>13, <1>14, <1>16, <1>17 DEF Kept

(* Entering a match keeps the shape: its first block is left open. *)
LEMMA MatchKeeps == ASSUME Inv, NEW branches \in Nat, parse_match(branches) PROVE Kept
<1> DEFINE n == Len(blocks)
           m == n + 2
           f == [kind |-> "match", start |-> n + 1, end |-> n + 2, next |-> n + 2,
                 option |-> 0, left |-> branches, matcher |-> name, exits |-> {name}]
           i == Br(n + 1)
           j == Do(name)
<1>1. InExpression
  BY DEF parse_match
<1>2. /\ stack # <<>> /\ ~Between /\ n \in Nat /\ Sorts
      /\ at \in Block /\ at # 0 /\ Len(stack) \in Nat /\ name \in Statement
      /\ top.kind = "match" => top.option # 0
  BY <1>1, AtWork, StackIs DEF Inv, Nesting, name
<1>3. Follows(stack, Noted("other"), n, "other")
  BY <1>2, NotedIs
<1>4. /\ m \in Nat /\ n <= m /\ n + 1 \in 1 .. m /\ n + 2 \in 1 .. m
  BY <1>2
<1>5. /\ f \in Activations(m) /\ f.kind = "match"
      /\ Held(f) = {n + 1, n + 2} /\ Known(f) = {n + 1, n + 2}
      /\ f.option = 0 /\ f.start = n + 1 /\ f.end = n + 2
  <2>1. f \in Matches(m)
    BY <1>2, <1>4 DEF Matches, Branchings
  <2>2. /\ f.kind = "match" /\ f.start = n + 1 /\ f.end = n + 2 /\ f.next = n + 2
        /\ f.option = 0
    OBVIOUS
  <2> HIDE DEF f
  <2> QED
    BY <1>2, <2>1, <2>2 DEF Activations, Held, Known
<1>6. i \in Instructions(m) /\ i.op = "br" /\ i.to = {n + 1}
  BY <1>2, <1>4, BranchIs
<1>7. j \in Instructions(m) /\ j.op = "do" /\ j.to = {}
  BY <1>1, <1>2, <1>4, AtWork, DoIs
<1>8. /\ at' = n + 1 /\ entries' = entries /\ value' = "null"
      /\ odd \subseteq odd' /\ Dead \subseteq odd' /\ pending' = {name}
      /\ stack' = Append(Noted("other"), f)
      /\ blocks' = Built(Built(Appended(2), at, i), n + 1, j)
  BY DEF parse_match
<1> HIDE DEF f, i, j
<1>9. /\ blocks' \in Seq(Seq(Instructions(m)))
      /\ Len(blocks') = m /\ blocks'[at] = Append(blocks[at], i)
      /\ blocks'[n + 1] = Append(<<>>, j)
      /\ \A b \in Block : b # at => blocks'[b] = blocks[b]
      /\ \A b \in n + 2 .. m : blocks'[b] = <<>>
  <2> DEFINE k == 2
  <2>1. k \in Nat /\ k # 0 /\ m = n + k
    OBVIOUS
  <2>2. blocks' = Built(Built(Appended(k), at, i), n + 1, j)
    BY <1>8
  <2> HIDE DEF k, m
  <2>3. i \in Instructions(n + k) /\ j \in Instructions(n + k)
    BY <1>6, <1>7, <2>1
  <2> QED
    BY <1>2, <2>1, <2>2, <2>3, BuiltTwice
<1>10. /\ stack' \in Seq(Activations(m)) /\ Len(stack') = Len(stack) + 1
       /\ stack'[Len(stack) + 1] = f
       /\ \A d \in 1 .. Len(stack) : Alike(stack[d], stack'[d], "other")
  <2> DEFINE s == Noted("other")
  <2>1. Follows(stack, s, n, "other") /\ stack' = Append(s, f)
    BY <1>3, <1>8
  <2> HIDE DEF s, m
  <2> QED
    BY <1>2, <1>4, <1>5, <2>1, PushedOne
<1>11. Block' = 1 .. m /\ Block = 1 .. n
  BY <1>9 DEF Block
<1>12. Sorts'
  <2>1. at' \in Block' /\ Block \subseteq Block'
    BY <1>2, <1>8, <1>11
  <2>2. entries' \subseteq Block' \X BOOLEAN
    BY <1>2, <1>8, <2>1 DEF Sorts
  <2> QED
    BY <1>9, <1>10, <2>1, <2>2 DEF Sorts
<1>13. /\ Nesting' /\ Apart' /\ stack' # <<>>
       /\ \A b : IsHeld(b)' <=> IsHeld(b) \/ b \in Held(f)
       /\ \A d \in 1 .. Len(stack') : \A b \in Known(stack'[d]) : Target(b)
       /\ stack'[1].typed = stack[1].typed
       /\ stack'[1].last \in {stack[1].last, "other"}
  <2> DEFINE one == 1
  <2>1. one \in {1, 2} /\ Len(stack') = Len(stack) + one /\ one # 2
    BY <1>10
  <2>2. /\ at' > Len(blocks) /\ at' # 0 /\ at' = f.start /\ f.start # f.end
        /\ \A b \in Known(f) : b > Len(blocks)
        /\ Held(f) \subseteq Known(f)
    BY <1>2, <1>5, <1>8
  <2> HIDE DEF one
  <2> QED
    BY <1>2, <1>5, <1>10, <2>1, <2>2, Pushes
<1>14. top' = f
  BY <1>2, <1>10 DEF top
<1>15. Values'
  BY <1>2, <1>5, <1>8, <1>14 DEF Values
<1>16. Inside /\ (Regular' => Shape')
  <2>1. \A b \in Held(f) : b > Len(blocks)
    BY <1>2, <1>5
  <2>2. \A b \in Block' : b > Len(blocks) => b = n + 1 \/ b \in n + 2 .. m
    BY <1>2, <1>11
  <2>3. \A b \in n + 2 .. m : b \in Held(f)
    BY <1>2, <1>5
  <2>4. \A c \in i.to : c > Len(blocks)
    BY <1>2, <1>6
  <2>5. \A b \in Block' : b > Len(blocks) =>
           \/ blocks'[b] = <<>> /\ (b = at' \/ b \in Held(f))
           \/ \E x \in Instructions(Len(blocks')) :
                /\ blocks'[b] = Append(<<>>, x) /\ \A c \in x.to : c > Len(blocks)
                /\ \/ x.op = "do" /\ (b = at' \/ b \in Held(f))
                   \/ x.op \in {"br", "condbr"} /\ b # at' /\ b \notin Held(f)
    BY <1>7, <1>8, <1>9, <2>2, <2>3
  <2>6. Regular' => pending # {}
    BY <1>8, NotDead
  <2>7. (Between' => at' = top'.start) /\ at' > Len(blocks) /\ value' # "terminator"
    BY <1>2, <1>5, <1>8, <1>14
  <2> DEFINE k == 2
  <2>8. k \in Nat /\ Len(blocks') = Len(blocks) + k
    BY <1>9
  <2>9. i \in Instructions(Len(blocks')) /\ i.op \in {"br", "condbr"}
    BY <1>6, <1>9
  <2> HIDE DEF k
  <2> QED
    BY <1>2, <1>8, <1>9, <1>12, <1>13, <2>1, <2>4, <2>5, <2>6, <2>7, <2>8, <2>9, Opens
<1> QED
  BY <1>12, <1>13, <1>15, <1>16 DEF Kept
-----------------------------------------------------------------------------
(* The builder goes on in a block that the activation on top has held. The *)
(* blocks in gone are held no more, w is the one that was built in.        *)
LEMMA Ends ==
  ASSUME Inv, stack # <<>>, Sorts', stack' # <<>>,
         NEW gone, \A b : IsHeld(b)' <=> IsHeld(b) /\ b \notin gone,
         \A b \in gone : IsHeld(b),
         \A d \in 1 .. Len(stack') : \A b \in Known(stack'[d]) : Target(b),
         stack'[1].typed = stack[1].typed, stack'[1].last = stack[1].last,
         entries' = entries, odd \subseteq odd', Len(blocks') = Len(blocks),
         NEW w \in Block, w = at \/ w \in gone, w # at', ~IsHeld(w)',
         \A b \in Block : b # w => blocks'[b] = blocks[b],
         \/ blocks'[w] = blocks[w]
         \/ \E i \in Instructions(Len(blocks)) :
              /\ blocks'[w] = Append(blocks[w], i)
              /\ i.op = "br" /\ \A c \in i.to : Target(c),
         at' \in gone, value' # "terminator", ~Between',
         Regular' => \A b \in gone \cup {at} : b = at' \/ IsClosed(blocks'[b])
  PROVE  Inside /\ (Regular' => Shape')
<1>1. Block' = Block /\ Len(blocks) \in Nat
  BY DEF Block, Inv, Sorts
<1>2. \A b : IsHeld(b) => InUse(b) /\ b \in Block
  <2>1. ASSUME NEW d \in 1 .. Len(stack), NEW b \in Held(stack[d])
        PROVE  b \in Known(stack[d]) /\ b \in Block
    BY StackIs, ActivationIs DEF Block
  <2> QED
    BY <2>1 DEF IsHeld, InUse
<1>3. Inside
  <2>1. ASSUME NEW b \in Block'
        PROVE  \/ blocks'[b] = Was(b)
               \/ /\ Mine(b)
                  /\ \E i \in Instructions(Len(blocks')) :
                       /\ blocks'[b] = Append(Was(b), i)
                       /\ \A c \in i.to : Target(c)
                       /\ i.op = "ret" /\ Regular' => stack[1].typed
                       /\ i.op = "retvoid" => ~stack[1].typed
    <3>1. CASE b # w
      BY <1>1, <3>1 DEF Was
    <3>2. CASE b = w
      <4>1. Was(b) = blocks[w] /\ Mine(b)
        BY <1>2, <3>2 DEF Was, Mine
      <4> QED
        BY <3>2, <4>1
    <3> QED
      BY <3>1, <3>2
  <2>2. Mine(at') /\ Len(blocks) <= Len(blocks')
    BY <1>1, <1>2 DEF Mine
  <2> QED
    BY <2>1, <2>2 DEF Inside
<1>4. ASSUME Regular' PROVE Shape'
  <2>1. Shape
    BY <1>4, RegularBefore DEF Inv
  <2>2. ASSUME NEW b \in Block, b # at', ~IsHeld(b)' PROVE IsClosed(blocks'[b])
    <3>1. CASE b \in gone \cup {at}
      BY <1>4, <2>2, <3>1
    <3>2. CASE b \notin gone \cup {at}
      <4>1. ~IsHeld(b) /\ blocks'[b] = blocks[b]
        BY <2>2, <3>2
      <4> QED
        BY <2>1, <3>2, <4>1 DEF Shape, Closed
    <3> QED
      BY <3>1, <3>2
  <2>3. ASSUME NEW b \in Block, IsHeld(b)' PROVE IsOpen(blocks'[b])
    <3>1. IsHeld(b) /\ blocks'[b] = blocks[b]
      BY <2>3
    <3> QED
      BY <2>1, <3>1 DEF Shape, Open
  <2>4. IsOpen(blocks'[at'])
    <3>1. IsHeld(at') /\ at' \in Block /\ blocks'[at'] = blocks[at']
      BY <1>2
    <3> QED
      BY <2>1, <3>1 DEF Shape, Open
  <2>5. stack'[1].last = "return" => stack'[1].typed
    BY <2>1 DEF Shape
  <2> QED
    BY <1>1, <2>2, <2>3, <2>4, <2>5 DEF Shape, Open, Closed
<1> QED
  BY <1>3, <1>4

(* Where an activation other than a match ends. *)
LEMMA AtEnd ==
  ASSUME Inv, stack # <<>>, top.kind # "match"
  PROVE  /\ Sorts /\ at \in Block /\ at # 0 /\ Len(blocks) \in Nat /\ ~Between
         /\ ~IsHeld(at) /\ top \in Activations(Len(blocks))
         /\ \A b \in Known(top) : Target(b) /\ b \in Block
         /\ \A b \in Held(top) : IsHeld(b) /\ b \in Block /\ b # at
<1>1. Sorts /\ at \in Block /\ at # 0 /\ Len(blocks) \in Nat
  BY StackIs DEF Inv, Nesting
<1>2. ~Between
  BY DEF Between
<1>3. ~IsHeld(at)
  BY <1>2 DEF Inv, Apart, IsHeld
<1>4. /\ top \in Activations(Len(blocks)) /\ top = stack[Len(stack)]
      /\ Len(stack) \in 1 .. Len(stack)
  BY StackIs
<1>5. Held(top) \subseteq Known(top) /\ Known(top) \subseteq Block
  BY <1>1, <1>4, ActivationIs DEF Block
<1>6. \A b \in Known(top) : Target(b)
  BY <1>4 DEF Target, InUse
<1>7. \A b \in Held(top) : IsHeld(b)
  BY <1>4 DEF IsHeld
<1> QED
  BY <1>1, <1>2, <1>3, <1>4, <1>5, <1>6, <1>7

(* Leaving a block keeps the shape. *)
LEMMA BlockEndKeeps == ASSUME Inv, block_ends PROVE Kept
<1>1. stack # <<>> /\ top.kind = "block" /\ stack' = Pop /\ at' = at
      /\ entries' = entries /\ blocks' = blocks /\ value' = value /\ odd' = odd
      /\ pending' = pending
  BY DEF block_ends, code, source
<1>2. Sorts /\ at \in Block /\ at # 0 /\ ~Between
  BY <1>1, AtEnd
<1>3. Held(top) = {}
  BY <1>1 DEF Held
<1>4. /\ stack' \in Seq(Activations(Len(blocks))) /\ stack' # <<>>
      /\ Nesting' /\ Apart'
      /\ \A b : IsHeld(b)' <=> IsHeld(b) /\ b \notin Held(top)
      /\ \A d \in 1 .. Len(stack') : \A b \in Known(stack'[d]) : Target(b)
      /\ stack'[1] = stack[1]
      /\ top'.kind = "match" => top.kind = "match" /\ ~Between'
  BY <1>1, <1>2, Pops
<1>5. top'.kind # "match" /\ ~Between'
  BY <1>1, <1>4 DEF Between
<1>6. Sorts'
  BY <1>1, <1>2, <1>4 DEF Sorts, Block
<1>7. Values'
  BY <1>1, <1>5 DEF Values, Inv
<1>8. Inside
  BY <1>1, <1>2, <1>4 DEF Inside, Mine, Was, Block, Inv, Sorts
<1>9. Regular' => Shape'
  BY <1>1, <1>2, <1>3, <1>4, <1>5 DEF Shape, Inv, Open, Closed, Block, Regular, Unanswered
<1> QED
  BY <1>4, <1>6, <1>7, <1>8, <1>9 DEF Kept

(* A branch to a block e is appended to the block w. *)
LEMMA BranchBuilt ==
  ASSUME Inv, NEW w \in Block, NEW e \in Block, blocks' = Built(blocks, w, Br(e))
  PROVE  /\ blocks' \in Seq(Seq(Instructions(Len(blocks)))) /\ Len(blocks') = Len(blocks)
         /\ \A b \in Block : b # w => blocks'[b] = blocks[b]
         /\ \E i \in Instructions(Len(blocks)) :
              blocks'[w] = Append(blocks[w], i) /\ i.op = "br" /\ i.to = {e}
         /\ Open(w) => IsClosed(blocks'[w])
<1> DEFINE n == Len(blocks)
           I == Instructions(n)
           i == Br(e)
<1>1. Sorts /\ n \in Nat /\ n <= n /\ e \in 1 .. n
  BY DEF Inv, Sorts, Block
<1>2. i \in I /\ i.op = "br" /\ i.to = {e}
  BY <1>1, BranchIs
<1> HIDE DEF i
<1>3. blocks' = Built(blocks, w, i)
  BY DEF i
<1>4. /\ blocks' \in Seq(Seq(I)) /\ Len(blocks') = n
      /\ blocks'[w] = Append(blocks[w], i)
      /\ \A b \in Block : b # w => blocks'[b] = blocks[b]
  <2>1. /\ Built(blocks, w, i) \in Seq(Seq(I)) /\ Len(Built(blocks, w, i)) = n
        /\ Built(blocks, w, i)[w] = Append(blocks[w], i)
        /\ \A b \in Block : b # w => Built(blocks, w, i)[b] = blocks[b]
    BY <1>1, <1>2, BuiltIn
  <2> QED
    BY <1>3, <2>1
<1>5. ASSUME Open(w) PROVE IsClosed(blocks'[w])
  <2>1. blocks[w] \in Seq(I)
    BY <1>1, ElementOfSeq DEF Sorts, Block
  <2>2. i.op \in Terminators
    BY <1>2 DEF Terminators
  <2> HIDE DEF I
  <2>3. IsClosed(Append(blocks[w], i))
    BY <1>2, <1>5, <2>1, <2>2, Closing DEF Open
  <2> QED
    BY <1>4, <2>3
<1> QED
  BY <1>2, <1>4, <1>5

(* An activation that holds only the block e ends, and the builder goes on *)
(* in e behind the block it was at.                                        *)
LEMMA Leaves ==
  ASSUME Inv, stack # <<>>, top.kind \notin {"function", "match"}, stack' = Pop,
         Held(top) = {at'}, entries' = entries, odd \subseteq odd', value' = "null",
         blocks' \in Seq(Seq(Instructions(Len(blocks)))), Len(blocks') = Len(blocks),
         \A b \in Block : b # at => blocks'[b] = blocks[b],
         \/ blocks'[at] = blocks[at]
         \/ \E i \in Instructions(Len(blocks)) :
              /\ blocks'[at] = Append(blocks[at], i)
              /\ i.op = "br" /\ \A c \in i.to : Target(c),
         Regular' => IsClosed(blocks'[at])
  PROVE  Kept
<1>1. /\ Sorts /\ at # 0 /\ ~Between /\ ~IsHeld(at)
      /\ \A b \in Held(top) : IsHeld(b) /\ b \in Block /\ b # at
  BY AtEnd
<1>2. PICK w \in Block : w = at
  BY AtEnd
<1>3. at' \in Block /\ at' # 0 /\ at' # at /\ IsHeld(at')
  BY <1>1 DEF Block
<1>4. /\ stack' \in Seq(Activations(Len(blocks))) /\ stack' # <<>>
      /\ Nesting' /\ Apart'
      /\ \A b : IsHeld(b)' <=> IsHeld(b) /\ b \notin Held(top)
      /\ \A d \in 1 .. Len(stack') : \A b \in Known(stack'[d]) : Target(b)
      /\ stack'[1] = stack[1]
      /\ top'.kind = "match" => top.kind = "match" /\ ~Between'
  BY <1>3, Pops
<1>5. top'.kind # "match" /\ ~Between'
  BY <1>4 DEF Between
<1>6. Sorts'
  BY <1>1, <1>3, <1>4 DEF Sorts, Block
<1>7. Values'
  BY <1>5 DEF Values
<1>8. Inside /\ (Regular' => Shape')
  <2> DEFINE gone == Held(top)
  <2>1. /\ \A b : IsHeld(b)' <=> IsHeld(b) /\ b \notin gone
        /\ \A b \in gone : IsHeld(b)
    BY <1>1, <1>4
  <2>2. at' \in gone /\ w # at' /\ ~IsHeld(w)'
    BY <1>1, <1>2, <1>3, <1>4
  <2>3. Regular' => \A b \in gone \cup {at} : b = at' \/ IsClosed(blocks'[b])
    OBVIOUS
  <2>4. stack'[1].typed = stack[1].typed /\ stack'[1].last = stack[1].last
    BY <1>4
  <2>5. value' # "terminator"
    OBVIOUS
  <2> HIDE DEF gone
  <2> QED
    BY <1>2, <1>4, <1>5, <1>6, <2>1, <2>2, <2>3, <2>4, <2>5, Ends
<1> QED
  BY <1>4, <1>6, <1>7, <1>8 DEF Kept

(* The end of a loop keeps the shape: its body did not return. *)
LEMMA WhileEndKeeps == ASSUME Inv, while_ends PROVE Kept
<1> DEFINE e == top.end
           s == top.start
<1>1. /\ stack # <<>> /\ top.kind = "while" /\ stack' = Pop /\ at' = e
      /\ entries' = entries /\ blocks' = Built(blocks, at, Br(s)) /\ value' = "null"
      /\ odd \subseteq odd'
      /\ value = "terminator" => "loop body returns" \in odd'
  BY DEF while_ends
<1>2. /\ at \in Block /\ ~Between
      /\ \A b \in Known(top) : Target(b) /\ b \in Block
  BY <1>1, AtEnd
<1>3. Held(top) = {e} /\ s \in Known(top)
  BY <1>1 DEF Held, Known
<1>4. s \in Block /\ Target(s)
  BY <1>2, <1>3
<1> HIDE DEF e, s
<1>5. /\ blocks' \in Seq(Seq(Instructions(Len(blocks)))) /\ Len(blocks') = Len(blocks)
      /\ \A b \in Block : b # at => blocks'[b] = blocks[b]
      /\ \E i \in Instructions(Len(blocks)) :
           blocks'[at] = Append(blocks[at], i) /\ i.op = "br" /\ i.to = {s}
      /\ Open(at) => IsClosed(blocks'[at])
  BY <1>1, <1>2, <1>4, BranchBuilt
<1>6. Regular' => IsClosed(blocks'[at])
  <2>1. /\ "loop body returns" # "match name"
        /\ "loop body returns" # "bare declaration"
    OBVIOUS
  <2>2. Regular' => value # "terminator" /\ Shape
    BY <1>1, <2>1, Irregular, RegularBefore DEF Inv
  <2> QED
    BY <1>1, <1>2, <1>5, <2>2 DEF Shape
<1>7. \E i \in Instructions(Len(blocks)) :
        /\ blocks'[at] = Append(blocks[at], i)
        /\ i.op = "br" /\ \A c \in i.to : Target(c)
  BY <1>4, <1>5
<1> QED
  BY <1>1, <1>3, <1>5, <1>6, <1>7, Leaves

(* An arm of a conditional closes the block it ends in, or is irregular. *)
LEMMA ArmEnds ==
  ASSUME Inv, stack # <<>>, top.kind \in {"then", "else"}, value # "pending",
         \E closes \in Closes :
           blocks' = IF closes THEN Built(blocks, at, Br(top.end)) ELSE blocks,
         odd' = odd \cup OddArm
  PROVE  /\ blocks' \in Seq(Seq(Instructions(Len(blocks)))) /\ Len(blocks') = Len(blocks)
         /\ \A b \in Block : b # at => blocks'[b] = blocks[b]
         /\ \/ blocks'[at] = blocks[at]
            \/ \E i \in Instructions(Len(blocks)) :
                 /\ blocks'[at] = Append(blocks[at], i)
                 /\ i.op = "br" /\ \A c \in i.to : Target(c)
         /\ Regular' => IsClosed(blocks'[at])
<1> DEFINE e == top.end
           B == Built(blocks, at, Br(e))
<1>1. /\ Sorts /\ at \in Block /\ ~Between
      /\ \A b \in Known(top) : Target(b) /\ b \in Block
  BY AtEnd
<1>2. e \in Known(top)
  <2>1. top \in Activations(Len(blocks)) /\ Len(blocks) \in Nat
    BY StackIs
  <2>2. top.kind = "then" => e # 0
    BY <2>1, ActivationIs DEF Thens
  <2> QED
    BY <2>2 DEF Known, Held
<1>3. e \in Block /\ Target(e)
  BY <1>1, <1>2
<1>4. PICK closes \in Closes : blocks' = IF closes THEN B ELSE blocks
  OBVIOUS
<1> HIDE DEF e
<1>5. ASSUME blocks' = B
      PROVE  /\ blocks' \in Seq(Seq(Instructions(Len(blocks)))) /\ Len(blocks') = Len(blocks)
             /\ \A b \in Block : b # at => blocks'[b] = blocks[b]
             /\ \E i \in Instructions(Len(blocks)) :
                  blocks'[at] = Append(blocks[at], i) /\ i.op = "br" /\ i.to = {e}
             /\ Open(at) => IsClosed(blocks'[at])
  BY <1>1, <1>3, <1>5, BranchBuilt
<1> HIDE DEF B
<1>6. blocks' = B \/ blocks' = blocks
  BY <1>4
<1>7. blocks \in Seq(Seq(Instructions(Len(blocks))))
  BY <1>1 DEF Sorts
<1>8. ASSUME Regular' PROVE IsClosed(blocks'[at])
  <2>1. Shape
    BY <1>8, RegularBefore DEF Inv
  <2>2. value \notin {"garbage", "constant"}
    <3>1. /\ "empty arm" # "match name" /\ "empty arm" # "bare declaration"
          /\ "valueless arm" # "match name" /\ "valueless arm" # "bare declaration"
      OBVIOUS
    <3>2. value = "garbage" => "empty arm" \in odd'
      BY DEF OddArm
    <3>3. value = "constant" => "valueless arm" \in odd'
      BY DEF OddArm
    <3> QED
      BY <1>8, <3>1, <3>2, <3>3, Irregular
  <2>3. CASE value \in {"null", "instruction"}
    <3>1. Closes = {TRUE}
      BY <2>3 DEF Closes
    <3>2. blocks' = B
      BY <1>4, <3>1
    <3>3. Open(at)
      BY <1>1, <2>1, <2>3 DEF Shape
    <3> QED
      BY <1>5, <3>2, <3>3
  <2>4. CASE value = "terminator"
    <3>1. Closes = {FALSE}
      BY <2>4 DEF Closes
    <3>2. blocks' = blocks
      BY <1>4, <3>1
    <3> QED
      BY <2>1, <2>4, <3>2 DEF Shape, Closed
  <2> QED
    BY <2>2, <2>3, <2>4 DEF Inv, Marks
<1> QED
  BY <1>3, <1>5, <1>6, <1>7, <1>8

(* The end of the else of a conditional keeps the shape. *)
LEMMA ElseEndKeeps == ASSUME Inv, else_ends PROVE Kept
<1>1. /\ stack # <<>> /\ top.kind = "else" /\ value # "pending" /\ stack' = Pop
      /\ at' = top.end /\ entries' = entries /\ value' = "null" /\ odd' = odd \cup OddArm
      /\ \E closes \in Closes :
           blocks' = IF closes THEN Built(blocks, at, Br(top.end)) ELSE blocks
  BY DEF else_ends
<1>2. Held(top) = {at'}
  BY <1>1 DEF Held
<1>3. /\ blocks' \in Seq(Seq(Instructions(Len(blocks)))) /\ Len(blocks') = Len(blocks)
      /\ \A b \in Block : b # at => blocks'[b] = blocks[b]
      /\ \/ blocks'[at] = blocks[at]
         \/ \E i \in Instructions(Len(blocks)) :
              /\ blocks'[at] = Append(blocks[at], i)
              /\ i.op = "br" /\ \A c \in i.to : Target(c)
      /\ Regular' => IsClosed(blocks'[at])
  BY <1>1, ArmEnds
<1> QED
  BY <1>1, <1>2, <1>3, Leaves

(* The end of the first arm of a conditional keeps the shape. *)
LEMMA ThenEndKeeps == ASSUME Inv, then_ends PROVE Kept
<1>1. /\ stack # <<>> /\ top.kind = "then" /\ entries' = entries
      /\ odd' = odd \cup OddArm
      /\ \E closes \in Closes :
           blocks' = IF closes THEN Built(blocks, at, Br(top.end)) ELSE blocks
  BY DEF then_ends
<1>2. value # "pending"
  BY <1>1 DEF Inv, Values
<1>3. /\ blocks' \in Seq(Seq(Instructions(Len(blocks)))) /\ Len(blocks') = Len(blocks)
      /\ \A b \in Block : b # at => blocks'[b] = blocks[b]
      /\ \/ blocks'[at] = blocks[at]
         \/ \E i \in Instructions(Len(blocks)) :
              /\ blocks'[at] = Append(blocks[at], i)
              /\ i.op = "br" /\ \A c \in i.to : Target(c)
      /\ Regular' => IsClosed(blocks'[at])
  BY <1>1, <1>2, ArmEnds
<1>4. /\ Sorts /\ at # 0 /\ ~Between /\ ~IsHeld(at)
      /\ top \in Activations(Len(blocks)) /\ Len(blocks) \in Nat
      /\ \A b \in Known(top) : Target(b) /\ b \in Block
      /\ \A b \in Held(top) : IsHeld(b) /\ b \in Block /\ b # at
  BY <1>1, AtEnd
<1>5. Held(top) = {top.else_, top.end} \ {0} /\ top.end \in 1 .. Len(blocks)
  BY <1>1, <1>4, ActivationIs DEF Held, Thens
<1>6. CASE top.else_ = 0
  <2>1. stack' = Pop /\ at' = top.end /\ value' = "null"
    BY <1>6 DEF then_ends
  <2>2. Held(top) = {at'}
    BY <1>4, <1>5, <1>6, <2>1
  <2> QED
    BY <1>1, <1>3, <2>1, <2>2, Leaves
<1>7. CASE top.else_ # 0
  <2> DEFINE n == Len(stack)
             t == [kind |-> "else", end |-> top.end, exits |-> pending]
  <2>1. /\ at' = top.else_ /\ stack' = Append(Pop, t) /\ value' = "pending"
    BY <1>7 DEF then_ends
  <2>2. /\ top.else_ # top.end /\ n \in Nat /\ n >= 1 /\ top = stack[n]
        /\ stack \in Seq(Activations(Len(blocks)))
    <3>1. n \in Nat /\ n \in 1 .. n /\ top = stack[n]
      BY <1>1, StackIs
    <3>2. top.else_ # top.end
      BY <1>1, <3>1 DEF Inv, Apart
    <3> QED
      BY <1>4, <3>1, <3>2 DEF Sorts
  <2>3. /\ t \in Activations(Len(blocks)) /\ t.kind = "else"
        /\ Held(t) = {top.end} /\ Known(t) = {top.end}
    <3>1. t \in Elses(Len(blocks))
      BY <1>5 DEF Elses, Inv, Marks
    <3>2. t.kind = "else" /\ t.end = top.end
      OBVIOUS
    <3> HIDE DEF t
    <3> QED
      BY <3>1, <3>2 DEF Activations, Held, Known
  <2> HIDE DEF t, n
  <2>4. /\ stack' \in Seq(Activations(Len(blocks))) /\ Len(stack') = n
        /\ stack'[n] = t /\ \A d \in 1 .. n - 1 : stack'[d] = stack[d]
    <3> DEFINE A == Activations(Len(blocks))
    <3>1. stack \in Seq(A) /\ t \in A /\ Pop = SubSeq(stack, 1, n - 1) /\ n = Len(stack)
      BY <2>2, <2>3 DEF Pop, n
    <3> HIDE DEF A
    <3>2. /\ Pop \in Seq(A) /\ Len(Pop) = n - 1
          /\ \A d \in 1 .. n - 1 : Pop[d] = stack[d]
      BY <2>2, <3>1
    <3>3. /\ Append(Pop, t) \in Seq(A) /\ Len(Append(Pop, t)) = n
          /\ Append(Pop, t)[n] = t /\ \A d \in 1 .. n - 1 : Append(Pop, t)[d] = Pop[d]
      BY <2>2, <3>1, <3>2
    <3> QED
      BY <2>1, <3>2, <3>3 DEF A
  <2>5. /\ Nesting' /\ Apart' /\ stack' # <<>> /\ top' = t
        /\ \A b : IsHeld(b)' =>
             IsHeld(b) /\ (b \in Held(top) => b \in Held(t))
        /\ \A b : IsHeld(b) => IsHeld(b)' \/ b \in Held(top) \ Held(t)
        /\ \A d \in 1 .. Len(stack') : \A b \in Known(stack'[d]) : Target(b)
        /\ stack'[1].typed = stack[1].typed
        /\ stack'[1].last = stack[1].last
    <3>1. Len(stack') = Len(stack) /\ stack'[Len(stack)] = t
      BY <2>4 DEF n
    <3> DEFINE last == stack[1].last
    <3>2. \A d \in 1 .. Len(stack) - 1 : Alike(stack[d], stack'[d], last)
      BY <2>4 DEF n, Alike
    <3>3. /\ Held(t) \subseteq Held(top) /\ at' \notin Held(t) /\ at' # 0
          /\ at' \in Held(top) /\ \A b \in Known(t) : Target(b)
          /\ t.kind # "function" /\ t.kind # "match" /\ t.kind # "then"
          /\ top.kind # "function" /\ top.kind # "match"
      <4>1. top.end # 0
        BY <1>5
      <4>2. top.end \in Known(top)
        BY <1>5, <4>1 DEF Known
      <4> QED
        BY <1>1, <1>4, <1>5, <1>7, <2>1, <2>2, <2>3, <4>1, <4>2
    <3> HIDE DEF last
    <3>4. /\ Nesting' /\ Apart' /\ stack' # <<>> /\ top' = t
          /\ \A b : IsHeld(b)' =>
               IsHeld(b) /\ (b \in Held(top) => b \in Held(t))
          /\ \A b : IsHeld(b) => IsHeld(b)' \/ b \in Held(top) \ Held(t)
          /\ \A d \in 1 .. Len(stack') : \A b \in Known(stack'[d]) : Target(b)
          /\ stack'[1].typed = stack[1].typed
          /\ stack'[1].last \in {stack[1].last, last}
      BY <1>1, <1>4, <3>1, <3>2, <3>3, Turns
    <3>5. stack'[1].last = stack[1].last
      BY <3>4 DEF last
    <3> QED
      BY <3>4, <3>5
  <2>6. Sorts'
    <3>1. at' \in Block
      BY <1>4, <1>5, <1>7, <2>1
    <3> QED
      BY <1>1, <1>3, <1>4, <2>4, <3>1 DEF Sorts, Block
  <2>7. ~Between' /\ Values'
    BY <2>1, <2>3, <2>5 DEF Between, Values
  <2>8. PICK w \in Block : w = at
    BY <1>1, AtEnd
  <2>9. Inside /\ (Regular' => Shape')
    <3> DEFINE gone == {top.else_}
    <3>1. /\ \A b : IsHeld(b)' <=> IsHeld(b) /\ b \notin gone
          /\ \A b \in gone : IsHeld(b)
      BY <1>4, <1>5, <1>7, <2>2, <2>3, <2>5
    <3>2. at' \in gone /\ w # at' /\ ~IsHeld(w)'
      BY <1>4, <1>5, <1>7, <2>1, <2>5, <2>8
    <3>3. Regular' => \A b \in gone \cup {at} : b = at' \/ IsClosed(blocks'[b])
      BY <1>3, <2>1
    <3>4. /\ stack'[1].typed = stack[1].typed /\ stack'[1].last = stack[1].last
          /\ value' # "terminator" /\ odd \subseteq odd'
      BY <1>1, <2>1, <2>5
    <3> HIDE DEF gone
    <3> QED
      BY <1>1, <1>3, <2>5, <2>6, <2>7, <2>8, <3>1, <3>2, <3>3, <3>4, Ends
  <2> QED
    BY <2>5, <2>6, <2>7, <2>9 DEF Kept
<1> QED
  BY <1>6, <1>7

(* Where the activation on top is that of a match. *)
LEMMA AtMatch ==
  ASSUME Inv, stack # <<>>, top.kind = "match"
  PROVE  /\ Sorts /\ at \in Block /\ at # 0 /\ Len(blocks) \in Nat
         /\ Len(stack) \in Nat /\ Len(stack) >= 1 /\ top = stack[Len(stack)]
         /\ top \in Matches(Len(blocks)) /\ top.kind # "function"
         /\ Held(top) = {top.start, top.end}
         /\ Known(top) = {top.start, top.end} \cup ({top.next, top.option} \ {0})
         /\ top.start # top.end
         /\ {top.start, top.end, top.next} \subseteq Block /\ top.exits \subseteq Statement
         /\ \A b \in Known(top) : Target(b)
         /\ \A b \in Held(top) : IsHeld(b)
         /\ ~Between => at \notin Held(top) /\ ~IsHeld(at)
         /\ IsHeld(at) => at = top.start
         /\ value # "terminator" /\ pending \subseteq Statement
<1>1. /\ Len(stack) \in Nat /\ Len(stack) \in 1 .. Len(stack) /\ Len(blocks) \in Nat
      /\ top = stack[Len(stack)] /\ top \in Activations(Len(blocks)) /\ at \in Block
  BY StackIs
<1>2. Sorts /\ at # 0 /\ value # "terminator" /\ pending \subseteq Statement
  BY DEF Inv, Nesting, Values
<1>3. top \in Matches(Len(blocks))
  BY <1>1, ActivationIs
<1>4. {top.start, top.end, top.next} \subseteq Block /\ top.exits \subseteq Statement
  BY <1>3 DEF Matches, Branchings, Block
<1>5. /\ Held(top) = {top.start, top.end}
      /\ Known(top) = {top.start, top.end} \cup ({top.next, top.option} \ {0})
  BY DEF Held, Known
<1>6. top.start # top.end
  BY <1>1 DEF Inv, Apart
<1>7. \A b \in Known(top) : Target(b)
  BY <1>1 DEF Target, InUse
<1>8. \A b \in Held(top) : IsHeld(b)
  BY <1>1 DEF IsHeld
<1>9. IsHeld(at) => Between /\ at = top.start
  BY DEF IsHeld, Inv, Apart
<1>10. Len(stack) >= 1 /\ top.kind # "function"
  BY <1>1
<1> QED
  BY <1>1, <1>2, <1>3, <1>4, <1>5, <1>6, <1>7, <1>8, <1>9, <1>10

(* The end of a match keeps the shape: its first block is closed at last. *)
LEMMA MatchEndKeeps == ASSUME Inv, match_ends PROVE Kept
<1>1. /\ stack # <<>> /\ top.kind = "match" /\ top.option = 0 /\ stack' = Pop
      /\ at' = top.end /\ entries' = entries /\ value' = "null" /\ odd' = odd
      /\ blocks' = Built(blocks, top.start, Br(top.next)) /\ pending' = top.exits
  BY DEF match_ends
<1>2. /\ Sorts /\ at \in Block /\ Len(blocks) \in Nat /\ top.kind # "function"
      /\ Held(top) = {top.start, top.end} /\ top.start # top.end
      /\ {top.start, top.end, top.next} \subseteq Block /\ top.exits \subseteq Statement
      /\ \A b \in Held(top) : IsHeld(b)
      /\ value # "terminator"
  BY <1>1, AtMatch
<1>3. Target(top.next)
  <2>1. top.next \in Known(top)
    <3>1. top.next # 0
      BY <1>2 DEF Block
    <3> QED
      BY <1>1, <3>1, AtMatch
  <2> QED
    BY <1>1, <2>1, AtMatch
<1>4. at' \in Held(top) /\ at' # 0 /\ at' \in Block
  BY <1>1, <1>2 DEF Block
<1>5. /\ stack' \in Seq(Activations(Len(blocks))) /\ stack' # <<>>
      /\ Nesting' /\ Apart'
      /\ \A b : IsHeld(b)' <=> IsHeld(b) /\ b \notin Held(top)
      /\ \A d \in 1 .. Len(stack') : \A b \in Known(stack'[d]) : Target(b)
      /\ stack'[1] = stack[1]
      /\ top'.kind = "match" => top.kind = "match" /\ ~Between'
  BY <1>1, <1>2, <1>4, Pops
<1>6. PICK w \in Block : w = top.start
  BY <1>2
<1>7. blocks' = Built(blocks, w, Br(top.next)) /\ top.next \in Block
  BY <1>1, <1>2, <1>6
<1>8. /\ blocks' \in Seq(Seq(Instructions(Len(blocks)))) /\ Len(blocks') = Len(blocks)
      /\ \A b \in Block : b # w => blocks'[b] = blocks[b]
      /\ \E i \in Instructions(Len(blocks)) :
           blocks'[w] = Append(blocks[w], i) /\ i.op = "br" /\ i.to = {top.next}
      /\ Open(w) => IsClosed(blocks'[w])
  <2> DEFINE e == top.next
  <2>1. blocks' = Built(blocks, w, Br(e)) /\ e \in Block
    BY <1>7
  <2> HIDE DEF e
  <2>2. /\ blocks' \in Seq(Seq(Instructions(Len(blocks)))) /\ Len(blocks') = Len(blocks)
        /\ \A b \in Block : b # w => blocks'[b] = blocks[b]
        /\ \E i \in Instructions(Len(blocks)) :
             blocks'[w] = Append(blocks[w], i) /\ i.op = "br" /\ i.to = {e}
        /\ Open(w) => IsClosed(blocks'[w])
    BY <2>1, BranchBuilt
  <2> QED
    BY <2>2 DEF e
<1>9. ~Between'
  BY <1>5 DEF Between
<1>10. Sorts'
  BY <1>1, <1>2, <1>4, <1>5, <1>8 DEF Sorts, Block
<1>11. Values'
  BY <1>1, <1>2 DEF Values
<1>12. ASSUME Regular' PROVE IsClosed(blocks'[w]) /\ (at = w \/ IsClosed(blocks'[at]))
  <2>1. Shape
    BY <1>1, <1>12, RegularBefore DEF Inv
  <2>2. Open(w)
    BY <1>2, <1>6, <2>1 DEF Shape
  <2>3. Between
    BY <1>1 DEF Between
  <2>4. at # w => Closed(at)
    BY <1>1, <1>2, <1>6, <2>1, <2>3 DEF Shape
  <2> QED
    BY <1>2, <1>8, <2>2, <2>4 DEF Closed
<1>13. Inside /\ (Regular' => Shape')
  <2> DEFINE gone == Held(top)
  <2>1. /\ \A b : IsHeld(b)' <=> IsHeld(b) /\ b \notin gone
        /\ \A b \in gone : IsHeld(b)
    BY <1>2, <1>5
  <2>2. at' \in gone /\ w \in gone /\ w # at' /\ ~IsHeld(w)'
    BY <1>1, <1>2, <1>5, <1>6
  <2>3. Regular' => \A b \in gone \cup {at} : b = at' \/ IsClosed(blocks'[b])
    BY <1>1, <1>2, <1>6, <1>12
  <2>4. /\ stack'[1].typed = stack[1].typed /\ stack'[1].last = stack[1].last
        /\ value' # "terminator" /\ odd \subseteq odd'
    BY <1>1, <1>5
  <2>5. \E i \in Instructions(Len(blocks)) :
          /\ blocks'[w] = Append(blocks[w], i)
          /\ i.op = "br" /\ \A c \in i.to : Target(c)
    BY <1>3, <1>8
  <2> HIDE DEF gone
  <2> QED
    BY <1>1, <1>5, <1>8, <1>9, <1>10, <2>1, <2>2, <2>3, <2>4, <2>5, Ends
<1> QED
  BY <1>5, <1>10, <1>11, <1>13 DEF Kept

(* What the end of a branch does to the match: its test is where the       *)
(* branch generated next goes on to.                                       *)
Settled == [top EXCEPT !.next = top.option, !.option = 0, !.left = @ - 1,
                       !.exits = @ \cup pending]
LEMMA ResultDoes ==
  ASSUME Inv, match_result
  PROVE  LET n == Len(blocks)
             t == Settled
         IN /\ t \in Matches(n) /\ t.kind = "match" /\ t.start = top.start
            /\ t.end = top.end /\ t.next = top.option /\ t.option = 0
            /\ t.matcher = top.matcher /\ t.exits = top.exits \cup pending
            /\ stack' \in Seq(Activations(n)) /\ Len(stack') = Len(stack)
            /\ stack'[Len(stack)] = t
            /\ \A d \in 1 .. Len(stack) - 1 : stack'[d] = stack[d]
<1> DEFINE n == Len(blocks)
           h == Len(stack)
           t == Settled
<1>1. /\ stack # <<>> /\ top.kind = "match" /\ top.option # 0
      /\ stack' = [stack EXCEPT ![h] = t]
  BY DEF match_result, Settled
<1>2. /\ Sorts /\ n \in Nat /\ h \in Nat /\ h >= 1 /\ top \in Matches(n)
      /\ pending \subseteq Statement
  BY <1>1, AtMatch
<1>6. /\ t \in Matches(n) /\ t.kind = "match" /\ t.start = top.start /\ t.end = top.end
      /\ t.next = top.option /\ t.option = 0
      /\ t.matcher = top.matcher /\ t.exits = top.exits \cup pending
  <2> DEFINE f == top
             l == f.left - 1
             x == f.exits \cup pending
  <2>1. f \in Branchings(n) /\ l \in Nat /\ f.option \in 1 .. n
    BY <1>1, <1>2 DEF Matches, Branchings
  <2>2. x \in SUBSET Statement
    BY <1>2, <2>1 DEF Branchings
  <2>3. t = [f EXCEPT !.next = f.option, !.option = 0, !.left = l, !.exits = x]
    BY DEF Settled
  <2> HIDE DEF f, l, x, t
  <2>4. /\ t \in Branchings(n) /\ t.kind = "match" /\ t.start = f.start /\ t.end = f.end
        /\ t.next = f.option /\ t.option = 0
        /\ t.matcher = f.matcher /\ t.exits = x
    BY <2>1, <2>2, <2>3 DEF Branchings
  <2> QED
    BY <2>4 DEF f, x, Matches
<1> HIDE DEF t
<1>8. t \in Activations(n)
  BY <1>6 DEF Activations
<1>9. /\ stack' \in Seq(Activations(n)) /\ Len(stack') = h /\ stack'[h] = t
      /\ \A d \in 1 .. h - 1 : stack'[d] = stack[d]
  <2> DEFINE A == Activations(n)
  <2>1. stack \in Seq(A) /\ t \in A /\ h \in 1 .. h
    BY <1>2, <1>8 DEF Sorts
  <2> HIDE DEF A, h
  <2>2. stack' \in Seq(A) /\ Len(stack') = h
    BY <1>1, <2>1 DEF h
  <2>3. stack'[h] = t /\ \A d \in 1 .. h - 1 : stack'[d] = stack[d]
    BY <1>1, <1>2, <2>1 DEF h
  <2> QED
    BY <2>2, <2>3 DEF A
<1> QED
  BY <1>6, <1>9 DEF t

(* The end of a branch keeps the shape: it goes on behind the match. *)
LEMMA MatchResultKeeps == ASSUME Inv, match_result PROVE Kept
<1> DEFINE n == Len(blocks)
           h == Len(stack)
           t == Settled
<1>1. /\ stack # <<>> /\ top.kind = "match" /\ top.option # 0 /\ value # "pending"
      /\ at' = at /\ entries' = entries /\ value' = value /\ odd' = odd
      /\ pending' = pending /\ blocks' = Built(blocks, at, Br(top.end))
      /\ stack' = [stack EXCEPT ![h] = t]
  BY DEF match_result, source, Settled
<1>2. /\ Sorts /\ at \in Block /\ at # 0 /\ n \in Nat /\ top.kind # "function"
      /\ h \in Nat /\ h >= 1 /\ top = stack[h] /\ top \in Matches(n)
      /\ top.start # top.end /\ {top.start, top.end, top.next} \subseteq Block
  BY <1>1, AtMatch
<1>3. ~Between
  BY <1>1 DEF Between
<1>4. /\ at \notin Held(top) /\ ~IsHeld(at) /\ value # "terminator"
      /\ pending \subseteq Statement /\ Held(top) = {top.start, top.end}
  BY <1>1, <1>3, AtMatch
<1>5. Target(top.option) /\ Target(top.end) /\ Target(top.start)
  <2>1. {top.option, top.end, top.start} \subseteq Known(top)
    BY <1>1, AtMatch
  <2> QED
    BY <1>1, <2>1, AtMatch
<1>6. /\ t \in Matches(n) /\ t.kind = "match" /\ t.start = top.start /\ t.end = top.end
      /\ t.next = top.option /\ t.option = 0
  BY ResultDoes
<1> HIDE DEF t
<1>8. /\ Held(t) = Held(top) /\ \A b \in Known(t) : Target(b)
      /\ t \in Activations(n)
  BY <1>4, <1>5, <1>6 DEF Held, Known, Activations
<1>9. /\ stack' \in Seq(Activations(n)) /\ Len(stack') = h /\ stack'[h] = t
      /\ \A d \in 1 .. h - 1 : stack'[d] = stack[d]
  BY ResultDoes DEF t
<1>10. /\ Nesting' /\ Apart' /\ stack' # <<>> /\ top' = t
       /\ \A b : IsHeld(b)' =>
            IsHeld(b) /\ (b \in Held(top) => b \in Held(t))
       /\ \A b : IsHeld(b) => IsHeld(b)' \/ b \in Held(top) \ Held(t)
       /\ \A d \in 1 .. Len(stack') : \A b \in Known(stack'[d]) : Target(b)
       /\ stack'[1].typed = stack[1].typed
       /\ stack'[1].last = stack[1].last
  <2> DEFINE last == stack[1].last
  <2>1. \A d \in 1 .. Len(stack) - 1 : Alike(stack[d], stack'[d], last)
    BY <1>9 DEF Alike
  <2>2. /\ Held(t) \subseteq Held(top) /\ at' \notin Held(t) /\ at' # 0 /\ at' = at
        /\ t.kind # "function" /\ t.kind = "match" /\ t.kind # "then"
        /\ t.start # t.end
    BY <1>1, <1>2, <1>4, <1>6, <1>8
  <2> HIDE DEF last
  <2>3. /\ Nesting' /\ Apart' /\ stack' # <<>> /\ top' = t
        /\ \A b : IsHeld(b)' =>
             IsHeld(b) /\ (b \in Held(top) => b \in Held(t))
        /\ \A b : IsHeld(b) => IsHeld(b)' \/ b \in Held(top) \ Held(t)
        /\ \A d \in 1 .. Len(stack') : \A b \in Known(stack'[d]) : Target(b)
        /\ stack'[1].typed = stack[1].typed
        /\ stack'[1].last \in {stack[1].last, last}
    BY <1>1, <1>2, <1>3, <1>8, <1>9, <2>1, <2>2, Turns
  <2>4. stack'[1].last = stack[1].last
    BY <2>3, Zenon DEF last
  <2> QED
    BY <2>3, <2>4
<1>11. \A b : IsHeld(b)' <=> IsHeld(b)
  BY <1>8, <1>10
<1>12. PICK w \in Block : w = at
  BY <1>2
<1>13. /\ blocks' \in Seq(Seq(Instructions(n))) /\ Len(blocks') = n
       /\ \A b \in Block : b # w => blocks'[b] = blocks[b]
       /\ \E i \in Instructions(n) :
            blocks'[w] = Append(blocks[w], i) /\ i.op = "br" /\ i.to = {top.end}
       /\ Open(w) => IsClosed(blocks'[w])
  <2> DEFINE e == top.end
  <2>1. blocks' = Built(blocks, w, Br(e)) /\ e \in Block
    BY <1>1, <1>2, <1>12
  <2> HIDE DEF e
  <2>2. /\ blocks' \in Seq(Seq(Instructions(n))) /\ Len(blocks') = n
        /\ \A b \in Block : b # w => blocks'[b] = blocks[b]
        /\ \E i \in Instructions(n) :
             blocks'[w] = Append(blocks[w], i) /\ i.op = "br" /\ i.to = {e}
        /\ Open(w) => IsClosed(blocks'[w])
    BY <2>1, BranchBuilt
  <2> QED
    BY <2>2 DEF e
<1>14. Sorts'
  BY <1>1, <1>2, <1>9, <1>13, Zenon DEF Sorts, Block
<1>15. Values' /\ Between'
  BY <1>1, <1>6, <1>10 DEF Values, Between, Inv
<1>16. Inside
  <2>1. ASSUME NEW b \in Block'
        PROVE  \/ blocks'[b] = Was(b)
               \/ /\ Mine(b)
                  /\ \E i \in Instructions(Len(blocks')) :
                       /\ blocks'[b] = Append(Was(b), i)
                       /\ \A c \in i.to : Target(c)
                       /\ i.op = "ret" /\ Regular' => stack[1].typed
                       /\ i.op = "retvoid" => ~stack[1].typed
    <3>1. b \in Block /\ Was(b) = blocks[b]
      BY <1>13 DEF Was, Block
    <3> QED
      BY <1>5, <1>12, <1>13, <3>1 DEF Mine
  <2>2. Mine(at') /\ Len(blocks) <= Len(blocks')
    BY <1>1, <1>2, <1>13 DEF Mine
  <2> QED
    BY <1>1, <1>10, <2>1, <2>2 DEF Inside
<1>17. ASSUME Regular' PROVE Shape'
  <2>1. Shape /\ Open(w)
    BY <1>1, <1>3, <1>4, <1>12, <1>17, RegularBefore DEF Inv, Shape
  <2>2. ASSUME NEW b \in Block PROVE /\ ~IsHeld(b) => IsClosed(blocks'[b])
                                     /\ IsHeld(b) => IsOpen(blocks'[b])
    <3>1. CASE b = w
      BY <1>4, <1>12, <1>13, <2>1, <3>1
    <3>2. CASE b # w
      BY <1>12, <1>13, <2>1, <3>2 DEF Shape, Open, Closed
    <3> QED
      BY <3>1, <3>2
  <2>3. Block' = Block
    BY <1>13 DEF Block
  <2>4. stack'[1].last = "return" => stack'[1].typed
    BY <1>1, <1>10, <2>1 DEF Shape
  <2>5. Closed(at)'
    BY <1>1, <1>4, <1>12, <2>2 DEF Closed
  <2> QED
    BY <1>1, <1>4, <1>10, <1>11, <1>15, <2>2, <2>3, <2>4, <2>5 DEF Shape, Open, Closed
<1> QED
  BY <1>10, <1>14, <1>15, <1>16, <1>17 DEF Kept

(* What the next branch of a match does to the match and the blocks. *)
Opting(n) == [top EXCEPT !.option = n + 1]
Testing(n) == CondBr(Begin, n + 2, top.next)
Tested(bt, n) ==
  /\ bt \in Seq(Seq(Instructions(n + 2))) /\ Len(bt) = n + 2
  /\ bt[n + 1] = Append(<<>>, Testing(n)) /\ bt[n + 2] = <<>>
  /\ \A b \in Block : bt[b] = blocks[b]
LEMMA OptionDoes ==
  ASSUME Inv, match_option
  PROVE  /\ Tested(blocks', Len(blocks))
         /\ LET n == Len(blocks)
                u == Opting(n)
                i == Testing(n)
            IN
             /\ n + 2 \in Nat /\ n <= n + 2 /\ top.next \in 1 .. n + 2 /\ top.matcher \in Statement
             /\ u \in Activations(n + 2) /\ u.kind = "match" /\ u.start = top.start
             /\ u.end = top.end /\ u.next = top.next /\ u.option = n + 1
             /\ u.matcher = top.matcher /\ u.exits = top.exits
             /\ i \in Instructions(n + 2) /\ i.op = "condbr" /\ i.to = {n + 2, top.next}
             /\ stack' \in Seq(Activations(n + 2)) /\ Len(stack') = Len(stack)
             /\ stack'[Len(stack)] = u
             /\ \A d \in 1 .. Len(stack) - 1 : Alike(stack[d], stack'[d], stack[1].last)
<1> DEFINE n == Len(blocks)
           u == Opting(n)
           i == Testing(n)
           m == n + 2
           h == Len(stack)
           s == [stack EXCEPT ![h] = u]
           last == stack[1].last
<1>1. /\ stack # <<>> /\ top.kind = "match" /\ top.option = 0 /\ top.left > 0
      /\ blocks' = Built(Appended(2), n + 1, i) /\ stack' = Declare(s, n + 2)
  BY DEF match_option, top, Opting, Testing
<1>2. /\ Sorts /\ at \in Block /\ at # 0 /\ n \in Nat /\ top.kind # "function"
      /\ h \in Nat /\ h >= 1 /\ top = stack[h] /\ top \in Matches(n)
      /\ top.start # top.end /\ {top.start, top.end, top.next} \subseteq Block
      /\ Held(top) = {top.start, top.end}
  BY <1>1, AtMatch
<1>5. /\ m \in Nat /\ n <= m /\ n + 1 \in 1 .. m /\ n + 2 \in 1 .. m /\ top.next \in 1 .. m
      /\ top \in Matches(m) /\ top.matcher \in Statement
  <2>1. top.next \in 1 .. n /\ top.matcher \in Statement
    BY <1>2 DEF Matches, Branchings
  <2>2. top \in Branchings(m)
    BY <1>2 DEF Matches, Branchings
  <2> QED
    BY <1>2, <2>1, <2>2 DEF Matches
<1>6. /\ u \in Activations(m) /\ u.kind = "match" /\ u.start = top.start /\ u.end = top.end
      /\ u.next = top.next /\ u.option = n + 1
      /\ u.matcher = top.matcher /\ u.exits = top.exits
  <2> DEFINE f == top
             b == n + 1
  <2>1. f \in Branchings(m) /\ b \in 1 .. m /\ f.left # 0 /\ u = [f EXCEPT !.option = b]
    BY <1>1, <1>2, <1>5 DEF Matches, Branchings, Opting
  <2> HIDE DEF f, b, m
  <2>2. /\ u \in Branchings(m) /\ u.kind = f.kind /\ u.start = f.start /\ u.end = f.end
        /\ u.next = f.next /\ u.option = b /\ u.left # 0
        /\ u.matcher = f.matcher /\ u.exits = f.exits
    BY <2>1 DEF Branchings
  <2>3. u \in Activations(m)
    BY <2>2 DEF Matches, Activations
  <2> QED
    BY <1>1, <2>2, <2>3 DEF f, b
<1>7. i \in Instructions(m) /\ i.op = "condbr" /\ i.to = {n + 2, top.next}
  <2> DEFINE c == top.next
             b == n + 2
             id == Begin
  <2>1. c \in 1 .. m /\ b \in 1 .. m /\ id \in Statement \cup {Begin} /\ i = CondBr(id, b, c)
    BY <1>5 DEF Testing
  <2>2. Sorts /\ m \in Nat /\ Len(blocks) <= m
    BY <1>2, <1>5
  <2> HIDE DEF c, b, id, i, u, s, n, m, h, last
  <2>3. /\ CondBr(id, b, c) \in Instructions(m) /\ CondBr(id, b, c).op = "condbr"
        /\ CondBr(id, b, c).to = {b, c}
    BY <2>1, <2>2, BranchIs
  <2> QED
    BY <2>1, <2>3 DEF c, b
<1> HIDE DEF u, i
<1>9. /\ s \in Seq(Activations(m)) /\ Len(s) = h /\ s[h] = u
      /\ \A d \in 1 .. h : d # h => s[d] = stack[d]
  <2> DEFINE A == Activations(m)
  <2>0. u \in A /\ h \in 1 .. h
    BY <1>2, <1>6
  <2>1. stack \in Seq(A)
    BY <1>2, <1>5, Wider DEF Sorts
  <2> HIDE DEF A, h
  <2>2. s \in Seq(A) /\ Len(s) = h
    BY <2>0, <2>1 DEF h
  <2>3. DOMAIN stack = 1 .. h
    BY <2>1 DEF h
  <2>4. s[h] = u /\ \A d \in 1 .. h : d # h => s[d] = stack[d]
    BY <2>0, <2>3
  <2> QED
    BY <2>2, <2>4 DEF A
<1>10. \A d \in 1 .. h : s[d].kind = stack[d].kind
  BY <1>1, <1>2, <1>6, <1>9
<1> HIDE DEF s, last
<1>11. Follows(s, stack', m, last)
  <2> DEFINE b == n + 2
  <2>1. b \in 1 .. m /\ stack' = Declare(s, b)
    BY <1>1, <1>5
  <2> HIDE DEF b, m, h
  <2>2. Follows(s, Declare(s, b), m, last)
    BY <1>2, <1>5, <1>9, <1>10, <2>1, DeclareIs DEF h
  <2> QED
    BY <2>1, <2>2
<1>12. /\ stack' \in Seq(Activations(m)) /\ Len(stack') = h /\ stack'[h] = u
       /\ \A d \in 1 .. h - 1 : Alike(stack[d], stack'[d], last)
  <2>1. /\ stack' \in Seq(Activations(m)) /\ Len(stack') = h
        /\ \A d \in 1 .. h : Alike(s[d], stack'[d], last)
    BY <1>9, <1>11 DEF Follows
  <2>2. h \in 1 .. h /\ \A d \in 1 .. h - 1 : d \in 1 .. h /\ d # h
    BY <1>2
  <2>3. stack'[h] = u
    BY <1>6, <1>9, <2>1, <2>2 DEF Alike
  <2> QED
    BY <1>9, <2>1, <2>2, <2>3
<1>15. /\ blocks' \in Seq(Seq(Instructions(m))) /\ Len(blocks') = m
       /\ blocks'[n + 1] = Append(<<>>, i) /\ blocks'[n + 2] = <<>>
       /\ \A b \in Block : blocks'[b] = blocks[b]
  <2> DEFINE k == 2
             b == n + 1
             bs == Built(Appended(k), b, i)
  <2>1. /\ k \in Nat /\ m = n + k /\ b \in 1 .. n + k
        /\ b = n + 1 /\ n + 2 \in n + 1 .. n + k /\ n + 2 # b /\ b \in n + 1 .. n + k
        /\ n + 2 \in 1 .. n + k /\ blocks' = bs
        /\ \A c \in Block : c \in 1 .. n /\ c \in 1 .. n + k /\ c # b
    BY <1>1, <1>2 DEF Block
  <2> HIDE DEF k, m, b
  <2>2. i \in Instructions(n + k)
    BY <1>7, <2>1
  <2>3. bs \in Seq(Seq(Instructions(n + k)))
    BY <1>2, <2>1, <2>2, OneBuilt
  <2>4. Len(bs) = n + k
    BY <1>2, <2>1, <2>2, OneBuilt
  <2>5. bs[b] = Append(Appended(k)[b], i)
    BY <1>2, <2>1, <2>2, OneBuilt
  <2>6. \A c \in 1 .. n + k : c # b => bs[c] = Appended(k)[c]
    BY <1>2, <2>1, <2>2, OneBuilt
  <2>7. \A c \in 1 .. n : Appended(k)[c] = blocks[c]
    BY <1>2, <2>1, AppendedIs, Zenon
  <2>8. \A c \in n + 1 .. n + k : Appended(k)[c] = <<>>
    BY <1>2, <2>1, AppendedIs, Zenon
  <2> HIDE DEF bs
  <2>9. /\ bs[b] = Append(<<>>, i) /\ bs[n + 2] = <<>>
        /\ \A c \in Block : bs[c] = blocks[c]
    BY <2>1, <2>5, <2>6, <2>7, <2>8
  <2> QED
    BY <2>1, <2>3, <2>4, <2>9
<1>16. /\ u \in Activations(n + 2) /\ u.kind = "match" /\ u.start = top.start
       /\ u.end = top.end /\ u.next = top.next /\ u.option = n + 1
       /\ u.matcher = top.matcher /\ u.exits = top.exits
  BY <1>6
<1>17. i \in Instructions(n + 2) /\ i.op = "condbr" /\ i.to = {n + 2, top.next}
  BY <1>7
<1>18. n + 2 \in Nat /\ n <= n + 2 /\ top.next \in 1 .. n + 2 /\ top.matcher \in Statement
  BY <1>5
<1>19. /\ stack' \in Seq(Activations(n + 2)) /\ Len(stack') = Len(stack)
       /\ stack'[Len(stack)] = u
       /\ \A d \in 1 .. Len(stack) - 1 : Alike(stack[d], stack'[d], stack[1].last)
  BY <1>12 DEF last
<1>20. Tested(blocks', n)
  BY <1>15 DEF Tested, i
<1> HIDE DEF n, m
<1> QED
  BY <1>16, <1>17, <1>18, <1>19, <1>20 DEF n, u, i

LEMMA OptionBuilds == ASSUME Inv, match_option PROVE Tested(blocks', Len(blocks))
BY OptionDoes

(* The next branch keeps the shape: its test goes on to the one before. *)
LEMMA MatchOptionKeeps == ASSUME Inv, match_option PROVE Kept
<1> DEFINE n == Len(blocks)
           m == n + 2
           h == Len(stack)
           u == Opting(n)
           i == Testing(n)
           last == stack[1].last
<1>1. /\ stack # <<>> /\ top.kind = "match" /\ top.option = 0 /\ top.left > 0
      /\ at' = n + 2 /\ entries' = entries /\ value' = "pending"
      /\ pending' = {top.matcher} /\ odd \subseteq odd'
  BY DEF match_option, top
<1>2. /\ Sorts /\ at \in Block /\ at # 0 /\ n \in Nat /\ top.kind # "function"
      /\ h \in Nat /\ h >= 1 /\ top = stack[h] /\ top \in Matches(n)
      /\ top.start # top.end /\ {top.start, top.end, top.next} \subseteq Block
      /\ Held(top) = {top.start, top.end} /\ value # "terminator"
      /\ IsHeld(at) => at = top.start
      /\ \A b \in Held(top) : IsHeld(b)
  BY <1>1, AtMatch
<1>3. Between
  BY <1>1 DEF Between
<1>4. Target(top.next) /\ Target(top.end) /\ Target(top.start)
  <2>1. {top.next, top.end, top.start} \subseteq Known(top)
    <3>1. top.next # 0
      BY <1>2 DEF Block
    <3> QED
      BY <1>1, <3>1, AtMatch
  <2> QED
    BY <1>1, <2>1, AtMatch
<1>5. /\ m \in Nat /\ n <= m /\ top.next \in 1 .. m /\ top.matcher \in Statement
  BY OptionDoes
<1>6. /\ u \in Activations(m) /\ u.kind = "match" /\ u.start = top.start /\ u.end = top.end
      /\ u.next = top.next /\ u.option = n + 1
  BY OptionDoes
<1>7. i \in Instructions(m) /\ i.op = "condbr" /\ i.to = {n + 2, top.next}
  BY OptionDoes
<1> HIDE DEF u, i
<1>8. /\ Held(u) = Held(top) /\ \A b \in Known(u) : Target(b)
  <2>1. Target(n + 1)
    BY <1>2 DEF Target
  <2> QED
    BY <1>2, <1>4, <1>6, <2>1 DEF Held, Known
<1> HIDE DEF last
<1>12. /\ stack' \in Seq(Activations(m)) /\ Len(stack') = h /\ stack'[h] = u
       /\ \A d \in 1 .. h - 1 : Alike(stack[d], stack'[d], last)
  BY OptionDoes DEF last, u, i
<1>13. /\ Nesting' /\ Apart' /\ stack' # <<>> /\ top' = u
       /\ \A b : IsHeld(b)' =>
            IsHeld(b) /\ (b \in Held(top) => b \in Held(u))
       /\ \A b : IsHeld(b) => IsHeld(b)' \/ b \in Held(top) \ Held(u)
       /\ \A d \in 1 .. Len(stack') : \A b \in Known(stack'[d]) : Target(b)
       /\ stack'[1].typed = stack[1].typed
       /\ stack'[1].last = stack[1].last
  <2>1. /\ Held(u) \subseteq Held(top) /\ at' \notin Held(u) /\ at' # 0
        /\ at' > Len(blocks) /\ u.start # u.end
        /\ u.kind # "function" /\ u.kind = "match" /\ u.kind # "then"
    BY <1>1, <1>2, <1>6, <1>8 DEF Block
  <2>2. /\ Nesting' /\ Apart' /\ stack' # <<>> /\ top' = u
        /\ \A b : IsHeld(b)' =>
             IsHeld(b) /\ (b \in Held(top) => b \in Held(u))
        /\ \A b : IsHeld(b) => IsHeld(b)' \/ b \in Held(top) \ Held(u)
        /\ \A d \in 1 .. Len(stack') : \A b \in Known(stack'[d]) : Target(b)
        /\ stack'[1].typed = stack[1].typed
        /\ stack'[1].last \in {stack[1].last, last}
    BY <1>1, <1>2, <1>8, <1>12, <2>1, Turns
  <2>3. stack'[1].last = stack[1].last
    BY <2>2 DEF last
  <2> QED
    BY <2>2, <2>3
<1>14. \A b : IsHeld(b)' <=> IsHeld(b)
  BY <1>8, <1>13
<1>15. /\ blocks' \in Seq(Seq(Instructions(m))) /\ Len(blocks') = m
       /\ blocks'[n + 1] = Append(<<>>, i) /\ blocks'[n + 2] = <<>>
       /\ \A b \in Block : blocks'[b] = blocks[b]
  <2>1. Tested(blocks', n)
    BY OptionBuilds
  <2> QED
    BY <2>1 DEF Tested, i
<1>16. Block' = 1 .. m /\ Block = 1 .. n
  BY <1>15 DEF Block
<1>17. Sorts'
  <2>1. at' \in Block' /\ Block \subseteq Block'
    BY <1>1, <1>2, <1>5, <1>16
  <2>2. entries' \subseteq Block' \X BOOLEAN
    BY <1>1, <1>2, <2>1 DEF Sorts
  <2> QED
    BY <1>12, <1>15, <2>1, <2>2 DEF Sorts
<1>18. ~Between' /\ Values'
  <2>1. ~Between'
    BY <1>2, <1>6, <1>13 DEF Between
  <2> QED
    BY <1>1, <1>5, <1>6, <1>13, <2>1 DEF Values
<1>19. \A b \in Block' : b \in Block \/ b = n + 1 \/ b = n + 2
  BY <1>2, <1>16
<1>20. Inside
  <2>1. ASSUME NEW b \in Block'
        PROVE  \/ blocks'[b] = Was(b)
               \/ /\ Mine(b)
                  /\ \E x \in Instructions(Len(blocks')) :
                       /\ blocks'[b] = Append(Was(b), x)
                       /\ \A c \in x.to : Target(c)
                       /\ x.op = "ret" /\ Regular' => stack[1].typed
                       /\ x.op = "retvoid" => ~stack[1].typed
    <3>1. CASE b \in Block
      BY <1>15, <3>1 DEF Was
    <3>2. CASE b = n + 1
      <4>1. Was(b) = <<>> /\ Mine(b)
        BY <1>2, <1>16, <3>2 DEF Was, Mine
      <4>2. \A c \in i.to : Target(c)
        BY <1>2, <1>4, <1>7 DEF Target
      <4> QED
        BY <1>7, <1>15, <3>2, <4>1, <4>2
    <3>3. CASE b = n + 2
      <4>1. Was(b) = <<>>
        BY <1>2, <1>16, <3>3 DEF Was
      <4> QED
        BY <1>15, <3>3, <4>1
    <3> QED
      BY <1>19, <3>1, <3>2, <3>3
  <2>2. Mine(at') /\ Len(blocks) <= Len(blocks')
    BY <1>1, <1>2, <1>5, <1>15 DEF Mine
  <2> QED
    BY <1>1, <1>13, <2>1, <2>2 DEF Inside
<1>21. ASSUME Regular' PROVE Shape'
  <2>1. Shape
    BY <1>1, <1>21, RegularBefore DEF Inv
  <2>2. at # top.start => Closed(at)
    BY <1>1, <1>2, <1>3, <2>1 DEF Shape
  <2>3. IsClosed(blocks'[n + 1]) /\ IsOpen(blocks'[n + 2])
    <3>1. IsOpen(<<>>) /\ <<>> \in Seq(Instructions(m)) /\ i.op \in Terminators
      BY <1>7 DEF IsOpen, Terminators
    <3>2. i.op \in Terminators => IsClosed(Append(<<>>, i))
      BY <1>7, <3>1, Closing
    <3> QED
      BY <1>15, <3>1, <3>2
  <2>4. \A b \in Block : ~IsHeld(b) => IsClosed(blocks'[b])
    <3>1. ~IsHeld(at) => at # top.start
      BY <1>2
    <3> QED
      BY <1>15, <2>1, <2>2, <3>1 DEF Shape, Closed
  <2>5. \A b \in Block : IsHeld(b) => IsOpen(blocks'[b])
    BY <1>15, <2>1 DEF Shape, Open
  <2>6. ASSUME NEW b \in Block', IsHeld(b)' PROVE IsOpen(blocks'[b])
    <3>1. b \in Block
      <4>1. PICK d \in 1 .. Len(stack) : b \in Held(stack[d])
        BY <1>14, <2>6 DEF IsHeld
      <4> QED
        BY <1>1, <1>2, <4>1, StackIs, ActivationIs DEF Block
    <3> QED
      BY <1>14, <2>5, <2>6, <3>1
  <2>7. stack'[1].last = "return" => stack'[1].typed
    BY <1>1, <1>13, <2>1 DEF Shape
  <2>8. ASSUME NEW b \in Block', b # at', ~IsHeld(b)' PROVE IsClosed(blocks'[b])
    BY <1>1, <1>14, <1>19, <2>3, <2>4, <2>8
  <2> QED
    BY <1>1, <1>13, <1>18, <2>3, <2>6, <2>7, <2>8 DEF Shape, Open, Closed
<1> QED
  BY <1>13, <1>17, <1>18, <1>20, <1>21 DEF Kept
-----------------------------------------------------------------------------
(* The end of a function keeps the shape: its last block is closed. *)
LEMMA FunctionEndKeeps == ASSUME Inv, function_ends PROVE Kept
<1> DEFINE n == Len(blocks)
           i == RetVoid(End)
<1>1. /\ stack # <<>> /\ top.kind = "function" /\ stack' = <<>> /\ at' = at
      /\ entries' = entries /\ value' = "null" /\ odd \subseteq odd'
      /\ \/ ~top.typed /\ blocks' = Built(blocks, at, i)
         \/ (top.typed \/ top.last \in {"none", "return"}) /\ blocks' = blocks
      /\ ~top.typed /\ top.last = "none" => "empty function" \in odd'
      /\ top.typed /\ value # "terminator" => "no return" \in odd'
  BY DEF function_ends
<1>2. Sorts /\ at \in Block /\ at # 0 /\ n \in Nat /\ ~Between /\ ~IsHeld(at)
  BY <1>1, AtEnd
<1>3. Len(stack) = 1 /\ top = stack[1]
  BY <1>1, StackIs
<1>4. \A b : ~IsHeld(b)
  <2>1. \A d \in 1 .. Len(stack) : stack[d] = top
    BY <1>3
  <2>2. Held(top) = {}
    BY <1>1 DEF Held
  <2> QED
    BY <2>1, <2>2 DEF IsHeld
<1>5. i \in Instructions(n) /\ i.to = {} /\ i.op = "retvoid"
  BY <1>2, RetVoidIs
<1> HIDE DEF i
<1>6. /\ blocks' \in Seq(Seq(Instructions(n))) /\ Len(blocks') = n
      /\ \A b \in Block : b # at => blocks'[b] = blocks[b]
      /\ \/ ~top.typed /\ blocks'[at] = Append(blocks[at], i)
         \/ (top.typed \/ top.last \in {"none", "return"}) /\ blocks' = blocks
  <2>1. CASE blocks' = blocks /\ (top.typed \/ top.last \in {"none", "return"})
    BY <1>2, <2>1 DEF Sorts
  <2>2. CASE ~top.typed /\ blocks' = Built(blocks, at, i)
    <3>1. /\ Built(blocks, at, i) \in Seq(Seq(Instructions(n)))
          /\ Len(Built(blocks, at, i)) = n
          /\ Built(blocks, at, i)[at] = Append(blocks[at], i)
          /\ \A b \in Block : b # at => Built(blocks, at, i)[b] = blocks[b]
      BY <1>2, <1>5, BuiltIn
    <3> QED
      BY <2>2, <3>1
  <2> QED
    BY <1>1, <2>1, <2>2
<1>7. Block' = Block
  BY <1>6 DEF Block
<1>8. Sorts' /\ Nesting' /\ Apart' /\ Values'
  <2> DEFINE A == Activations(n)
  <2> HIDE DEF A
  <2>1. Len(stack') = 0 /\ stack' \in Seq(A)
    <3>1. stack' = <<>>
      BY <1>1
    <3> QED
      BY <3>1
  <2>2. Sorts'
    BY <1>1, <1>2, <1>6, <1>7, <2>1 DEF Sorts, A
  <2>3. /\ \A d \in 1 .. Len(stack') : FALSE
        /\ \A d \in 2 .. Len(stack') : FALSE
        /\ \A d \in 1 .. Len(stack') - 1 : FALSE
    BY <2>1
  <2>4. Nesting' /\ Apart'
    BY <1>1, <2>3 DEF Nesting, Apart
  <2>5. Values'
    BY <1>1 DEF Values
  <2> QED
    BY <2>2, <2>4, <2>5
<1>9. Inside
  <2>1. ASSUME NEW b \in Block'
        PROVE  \/ blocks'[b] = Was(b)
               \/ /\ Mine(b)
                  /\ \E x \in Instructions(Len(blocks')) :
                       /\ blocks'[b] = Append(Was(b), x)
                       /\ \A c \in x.to : Target(c)
                       /\ x.op = "ret" /\ Regular' => stack[1].typed
                       /\ x.op = "retvoid" => ~stack[1].typed
    <3>1. Was(b) = blocks[b] /\ b \in Block
      BY <1>7 DEF Was
    <3>2. CASE blocks'[b] # Was(b)
      <4>1. b = at /\ ~top.typed /\ blocks'[at] = Append(blocks[at], i)
        BY <1>6, <3>1, <3>2
      <4> QED
        BY <1>3, <1>5, <1>6, <3>1, <4>1 DEF Mine
    <3> QED
      BY <3>2
  <2>2. Mine(at') /\ Len(blocks) <= Len(blocks')
    <3>1. Len(blocks) <= n
      BY <1>2
    <3> HIDE DEF n
    <3> QED
      BY <1>1, <1>6, <3>1 DEF Mine
  <2>3. \A d \in 1 .. Len(stack') : \A b \in Known(stack'[d]) : Target(b)
    <3>1. Len(stack') = 0
      BY <1>1
    <3> QED
      BY <3>1
  <2> QED
    BY <1>1, <2>1, <2>2, <2>3 DEF Inside
<1>10. ASSUME Regular' PROVE Shape'
  <2>1. Shape
    BY <1>1, <1>10, RegularBefore DEF Inv
  <2>2. IsClosed(blocks'[at])
    <3>1. /\ "empty function" # "match name" /\ "empty function" # "bare declaration"
          /\ "no return" # "match name" /\ "no return" # "bare declaration"
      OBVIOUS
    <3>2. CASE top.typed
      <4>1. value = "terminator"
        BY <1>1, <1>10, <3>1, <3>2, Irregular
      <4>2. blocks' = blocks
        BY <1>6, <3>2
      <4> QED
        BY <1>1, <2>1, <4>1, <4>2 DEF Shape, Closed
    <3>3. CASE ~top.typed
      <4>1. top.last \notin {"none", "return"}
        BY <1>1, <1>3, <1>10, <2>1, <3>1, <3>3, Irregular DEF Shape
      <4>2. Open(at)
        BY <1>1, <1>2, <1>3, <2>1, <3>3 DEF Shape
      <4>3. blocks[at] \in Seq(Instructions(n)) /\ i.op \in Terminators
        BY <1>2, <1>5, ElementOfSeq DEF Sorts, Block, Terminators
      <4>4. IsClosed(Append(blocks[at], i))
        BY <1>5, <4>2, <4>3, Closing DEF Open
      <4> QED
        BY <1>6, <3>3, <4>1, <4>4
    <3> QED
      BY <3>2, <3>3
  <2>3. \A b : ~IsHeld(b)'
    <3>1. Len(stack') = 0
      BY <1>1
    <3> QED
      BY <3>1 DEF IsHeld
  <2>4. \A b \in Block : b # at => IsClosed(blocks'[b])
    BY <1>4, <1>6, <2>1 DEF Shape, Closed
  <2> QED
    BY <1>1, <1>7, <2>2, <2>3, <2>4 DEF Shape, Closed
<1> QED
  BY <1>8, <1>9, <1>10 DEF Kept

(* A new function begins in a block of its own, behind those of the others. *)
LEMMA FunctionKeeps ==
  ASSUME Inv, NEW typed \in BOOLEAN, parse_function(typed)
  PROVE  /\ Sorts' /\ Nesting' /\ Apart' /\ Values' /\ Current'
         /\ Regular' => Shape' /\ Returns'
         /\ \A b \in Block : blocks'[b] = blocks[b]
<1> DEFINE n == Len(blocks)
           m == n + 1
           f == [kind |-> "function", typed |-> typed, last |-> "none", names |-> {}]
<1>1. /\ stack = <<>> /\ blocks' = Appended(1) /\ at' = m
      /\ entries' = entries \cup {<<m, typed>>}
      /\ stack' = <<f>> /\ value' = "garbage" /\ odd' = odd
  BY DEF parse_function, InFile
<1>2. Sorts /\ n \in Nat /\ Block = 1 .. n /\ entries \subseteq Block \X BOOLEAN
  BY DEF Inv, Sorts, Block
<1>3. /\ blocks' \in Seq(Seq(Instructions(m))) /\ Len(blocks') = m /\ blocks'[m] = <<>>
      /\ \A b \in Block : blocks'[b] = blocks[b]
  <2> DEFINE k == 1
  <2>1. k \in Nat /\ m = n + k /\ m \in n + 1 .. m
    BY <1>2
  <2> HIDE DEF k, m
  <2>2. /\ Appended(k) \in Seq(Seq(Instructions(n + k))) /\ Len(Appended(k)) = n + k
        /\ \A b \in 1 .. n : Appended(k)[b] = blocks[b]
        /\ \A b \in n + 1 .. n + k : Appended(k)[b] = <<>>
    BY <1>2, <2>1, AppendedIs
  <2>3. blocks' = Appended(k)
    BY <1>1 DEF k
  <2> QED
    BY <1>2, <2>1, <2>2, <2>3
<1>4. /\ Block' = 1 .. m /\ m \in 1 .. m /\ m # 0
      /\ \A b \in Block : b \in 1 .. m /\ b # m /\ b <= m /\ b \in Nat
      /\ \A b \in 1 .. m : b \in Block \/ b = m
  BY <1>2, <1>3 DEF Block
<1>5. /\ f \in Activations(m) /\ f.kind = "function" /\ f.last = "none" /\ f.typed = typed
      /\ Held(f) = {} /\ Known(f) = {}
  <2>1. f \in Functions(m) /\ f.kind = "function" /\ f.last = "none" /\ f.typed = typed
    BY DEF Functions
  <2> HIDE DEF f
  <2> QED
    BY <2>1 DEF Activations, Held, Known
<1> HIDE DEF f, m
<1>6. PICK new \in (1 .. m) \X BOOLEAN :
        new[1] = m /\ new[2] = typed /\ entries' = entries \cup {new}
  BY <1>1, <1>4
<1>7. /\ stack' \in Seq(Activations(m)) /\ Len(stack') = 1 /\ stack'[1] = f /\ top' = f
      /\ stack' # <<>>
  BY <1>1, <1>5 DEF top
<1>8. Sorts'
  BY <1>1, <1>2, <1>3, <1>4, <1>6, <1>7 DEF Sorts
<1>9. Nesting' /\ Apart' /\ Values'
  BY <1>1, <1>4, <1>5, <1>7 DEF Nesting, Apart, Values
<1>10. \A e \in entries : e[1] \in Block /\ e[1] # m /\ e[1] <= m /\ e[1] \in Nat
  BY <1>2, <1>4
<1>11. ASSUME NEW b \in Block, NEW k \in 1 .. Len(blocks[b])
       PROVE  blocks[b][k].to \subseteq Block
  <2> DEFINE I == Instructions(n)
  <2>1. blocks \in Seq(Seq(I)) /\ b \in 1 .. n
    BY <1>2 DEF Sorts
  <2> HIDE DEF I
  <2>2. blocks[b] \in Seq(I)
    BY <2>1, ElementOfSeq
  <2>3. blocks[b][k] \in I
    BY <2>2, ElementOfSeq
  <2> QED
    BY <1>2, <2>3 DEF I, Instructions
<1>12. Current'
  <2>1. \A e, g \in entries' : e[1] = g[1] => e = g
    BY <1>1, <1>6, <1>10 DEF Inv, Current
  <2>2. \E e \in entries' :
          /\ Last(e)' /\ e[2] = stack'[1].typed /\ e[1] <= at'
          /\ \A d \in 1 .. Len(stack') : \A b \in Known(stack'[d]) : e[1] < b
    <3>1. Last(new)'
      <4>1. m <= m
        BY <1>2 DEF m
      <4>2. entries' = entries \cup {new}
        BY <1>6
      <4>3. \A e \in entries' : e[1] <= new[1]
        BY <1>6, <1>10, <4>1, <4>2
      <4> QED
        BY <4>2, <4>3 DEF Last
    <3>2. new[1] <= at'
      BY <1>1, <1>2, <1>6 DEF m
    <3>3. \A d \in 1 .. Len(stack') : Known(stack'[d]) = {}
      BY <1>5, <1>7
    <3>4. new \in entries' /\ new[2] = stack'[1].typed
      BY <1>1, <1>5, <1>6, <1>7
    <3> QED
      BY <3>1, <3>2, <3>3, <3>4
  <2>3. ASSUME NEW b \in Block', NEW k \in 1 .. Len(blocks'[b]), NEW e \in entries'
        PROVE  e[1] \notin blocks'[b][k].to
    <3>1. b \in Block /\ blocks'[b] = blocks[b]
      <4>1. Len(blocks'[m]) = 0
        BY <1>3
      <4> QED
        BY <1>3, <1>4, <2>3, <4>1
    <3>2. CASE e \in entries
      BY <3>1, <3>2 DEF Inv, Current
    <3>3. CASE e = new
      BY <1>4, <1>6, <1>11, <3>1, <3>3
    <3> QED
      BY <1>6, <3>2, <3>3
  <2> QED
    BY <1>7, <2>1, <2>2, <2>3 DEF Current
<1>13. ASSUME Regular' PROVE Shape' /\ Returns'
  <2>1. Shape /\ Returns
    BY <1>1, <1>13, RegularBefore DEF Inv
  <2>2. \A b \in Block : Closed(b)
    <3>1. Len(stack) = 0
      BY <1>1
    <3>2. \A b : ~IsHeld(b)
      BY <3>1 DEF IsHeld
    <3>3. \A b \in Block : b # 0
      BY <1>2
    <3> QED
      BY <1>1, <2>1, <3>2, <3>3 DEF Shape
  <2>3. \A b : ~IsHeld(b)'
    BY <1>5, <1>7 DEF IsHeld
  <2>4. IsOpen(blocks'[m])
    BY <1>3 DEF IsOpen
  <2>5. Shape'
    <3>1. ~Between'
      BY <1>5, <1>7 DEF Between
    <3> QED
      BY <1>1, <1>3, <1>4, <1>5, <1>7, <2>2, <2>3, <2>4, <3>1 DEF Shape, Open, Closed
  <2>6. ASSUME NEW b \in Block PROVE Typed(b)' <=> Typed(b)
    <3>1. ~(m <= b)
      BY <1>2 DEF m
    <3> QED
      BY <1>1, <1>6, <3>1 DEF Typed
  <2>7. Returns'
    <3>1. ASSUME NEW b \in Block', NEW k \in 1 .. Len(blocks'[b])
          PROVE  b \in Block /\ blocks'[b] = blocks[b]
      <4>1. Len(blocks'[m]) = 0
        BY <1>3
      <4> QED
        BY <1>3, <1>4, <3>1, <4>1
    <3> QED
      BY <2>1, <2>6, <3>1 DEF Returns
  <2> QED
    BY <2>5, <2>7
<1> QED
  BY <1>3, <1>8, <1>9, <1>12, <1>13

(* An extern adds no block: at most a return where the builder has stayed, *)
(* in a source that is then not regular.                                   *)
LEMMA ExternalKeeps ==
  ASSUME Inv, NEW typed \in BOOLEAN, parse_function_external(typed)
  PROVE  /\ Sorts' /\ Nesting' /\ Apart' /\ Values' /\ Current'
         /\ Regular' => Shape' /\ Returns'
         /\ \A b \in Block :
              \/ blocks'[b] = blocks[b]
              \/ b = at /\ blocks'[b] = Append(blocks[b], RetVoid(End))
<1> DEFINE i == RetVoid(End)
<1>1. /\ stack = <<>> /\ stack' = stack /\ at' = at /\ entries' = entries /\ value' = value
      /\ pending' = pending
      /\ \/ blocks' = blocks /\ odd' = odd
         \/ at # 0 /\ blocks' = Built(blocks, at, i) /\ "late extern" \in odd'
  BY DEF parse_function_external, InFile
<1>2. Sorts /\ i \in Instructions(Len(blocks)) /\ i.to = {}
  BY RetVoidIs DEF Inv
<1>3. /\ Nesting' /\ Apart' /\ Values'
  BY <1>1 DEF Inv, Nesting, Apart, Values, Between, top
<1>4. CASE blocks' = blocks /\ odd' = odd
  <2>1. Sorts' /\ Current'
    BY <1>1, <1>4 DEF Inv, Sorts, Current, Block, Last
  <2>2. ASSUME Regular' PROVE Shape' /\ Returns'
    <3>1. Shape /\ Returns
      BY <1>4, <2>2 DEF Inv, Regular, Unanswered
    <3>2. Shape'
      BY <1>1, <1>4, <3>1 DEF Shape, Open, Closed, IsHeld, Block
    <3>3. Returns'
      BY <1>1, <1>4, <3>1 DEF Returns, Typed, Block
    <3> QED
      BY <3>2, <3>3
  <2>3. \A b \in Block : blocks'[b] = blocks[b]
    BY <1>4
  <2> QED
    BY <1>3, <2>1, <2>2, <2>3
<1>5. CASE at # 0 /\ blocks' = Built(blocks, at, i) /\ "late extern" \in odd'
  <2>1. at \in Block
    BY <1>2, <1>5 DEF Sorts
  <2> HIDE DEF i
  <2>2. /\ blocks' \in Seq(Seq(Instructions(Len(blocks)))) /\ Len(blocks') = Len(blocks)
        /\ blocks'[at] = Append(blocks[at], i)
        /\ \A b \in Block : b # at => blocks'[b] = blocks[b]
    <3>1. /\ Built(blocks, at, i) \in Seq(Seq(Instructions(Len(blocks))))
          /\ Len(Built(blocks, at, i)) = Len(blocks)
          /\ Built(blocks, at, i)[at] = Append(blocks[at], i)
          /\ \A b \in Block : b # at => Built(blocks, at, i)[b] = blocks[b]
      BY <1>2, <2>1, BuiltIn
    <3> QED
      BY <1>5, <3>1
  <2>3. Block' = Block
    BY <2>2 DEF Block
  <2>4. Sorts'
    BY <1>1, <1>2, <2>2, <2>3 DEF Sorts
  <2>5. ASSUME NEW b \in Block, NEW k \in 1 .. Len(blocks'[b]), NEW e \in entries
        PROVE  e[1] \notin blocks'[b][k].to
    <3>1. CASE b # at
      BY <2>2, <2>5, <3>1 DEF Inv, Current
    <3>2. CASE b = at
      <4> DEFINE I == Instructions(Len(blocks))
      <4>1. blocks[at] \in Seq(I) /\ i \in I
        BY <1>2, <2>1, ElementOfSeq DEF Sorts, Block
      <4> HIDE DEF I
      <4>2. \/ k \in 1 .. Len(blocks[at]) /\ blocks'[at][k] = blocks[at][k]
            \/ blocks'[at][k] = i
        BY <2>2, <2>5, <3>2, <4>1, AppendIs
      <4> QED
        BY <1>2, <2>1, <3>2, <4>2 DEF Inv, Current
    <3> QED
      BY <3>1, <3>2
  <2>6. Current'
    BY <1>1, <2>3, <2>5 DEF Inv, Current, Last
  <2>7. ~Regular'
    <3>1. "late extern" # "match name" /\ "late extern" # "bare declaration"
      OBVIOUS
    <3> QED
      BY <1>5, <3>1, Irregular
  <2>8. \A b \in Block :
          \/ blocks'[b] = blocks[b]
          \/ b = at /\ blocks'[b] = Append(blocks[b], RetVoid(End))
    BY <2>2 DEF i
  <2> QED
    BY <1>3, <2>4, <2>6, <2>7, <2>8
<1> QED
  BY <1>1, <1>4, <1>5

(* A crash and the end of the file change nothing but the status. *)
LEMMA StatusKeeps ==
  ASSUME Inv, UNCHANGED <<code, stack, value, source>>
  PROVE  /\ Sorts' /\ Nesting' /\ Apart' /\ Values' /\ Current'
         /\ Regular' => Shape' /\ Returns'
         /\ \A b \in Block : blocks'[b] = blocks[b]
<1>1. /\ blocks' = blocks /\ entries' = entries /\ at' = at /\ stack' = stack
      /\ value' = value /\ pending' = pending /\ odd' = odd
  BY DEF code, source
<1>2. Sorts' /\ Nesting' /\ Apart' /\ Values' /\ Current'
  BY <1>1 DEF Inv, Sorts, Nesting, Apart, Values, Current, Block, Last, Between, top
<1>3. ASSUME Regular' PROVE Shape' /\ Returns'
  <2>1. Shape /\ Returns
    BY <1>1, <1>3 DEF Inv, Regular, Unanswered
  <2>2. Shape'
    BY <1>1, <2>1 DEF Shape, Open, Closed, IsHeld, Block, Between, top
  <2>3. Returns'
    BY <1>1, <2>1 DEF Returns, Typed, Block
  <2> QED
    BY <2>2, <2>3
<1> QED
  BY <1>1, <1>2, <1>3

(* Every step is one inside a function, or one between two declarations,   *)
(* or changes nothing but the status.                                      *)
LEMMA Steps ==
  ASSUME Inv, Next
  PROVE  \/ Kept
         \/ \E typed \in BOOLEAN : parse_function(typed) \/ parse_function_external(typed)
         \/ UNCHANGED <<code, stack, value, source>>
<1>1. ASSUME NEW typed \in BOOLEAN, parse_function(typed) \/ parse_function_external(typed)
      PROVE  \E t \in BOOLEAN : parse_function(t) \/ parse_function_external(t)
  BY <1>1
<1>2. ASSUME NEW first \in BOOLEAN, NEW assigns \in BOOLEAN, parse_assignment(first, assigns)
      PROVE  Kept
  BY <1>2, AssignmentKeeps
<1>3. CASE parse_function_call
  BY <1>3, CallKeeps
<1>4. CASE parse_constant
  BY <1>4, ConstantKeeps
<1>5. CASE match_as_value \/ arm_crashes \/ function_crashes \/ file_ends
  BY <1>5 DEF match_as_value, arm_crashes, function_crashes, file_ends
<1>6. CASE parse_return
  BY <1>6, ReturnKeeps
<1>7. CASE parse_block
  BY <1>7, BlockKeeps
<1>8. CASE block_ends
  BY <1>8, BlockEndKeeps
<1>9. CASE parse_while
  BY <1>9, WhileKeeps
<1>10. CASE while_ends
  BY <1>10, WhileEndKeeps
<1>11. ASSUME NEW with_else \in BOOLEAN, parse_if(with_else) PROVE Kept
  BY <1>11, IfKeeps
<1>12. CASE then_ends
  BY <1>12, ThenEndKeeps
<1>13. CASE else_ends
  BY <1>13, ElseEndKeeps
<1>14. ASSUME NEW n \in 0 .. MaxBranches, parse_match(n) PROVE Kept
  <2>1. n \in Nat
    BY BoundsAssumption
  <2> QED
    BY <1>14, <2>1, MatchKeeps
<1>15. CASE match_option
  BY <1>15, MatchOptionKeeps
<1>16. CASE match_result
  BY <1>16, MatchResultKeeps
<1>17. CASE match_ends
  BY <1>17, MatchEndKeeps
<1>18. CASE function_ends
  BY <1>18, FunctionEndKeeps
<1> QED
  BY <1>1, <1>2, <1>3, <1>4, <1>5, <1>6, <1>7, <1>8, <1>9, <1>10, <1>11, <1>12,
     <1>13, <1>14, <1>15, <1>16, <1>17, <1>18 DEF Next

(* What the activation on top remembers of the source. *)
LEMMA Remembered ==
  ASSUME Inv, stack # <<>>
  PROVE  /\ top.kind \in {"while", "then"} => top.condition \in Statement
         /\ top.kind = "else" => top.exits \subseteq Statement \cup {Begin}
         /\ top.kind = "match" => top.matcher \in Statement /\ top.exits \subseteq Statement
<1>1. top \in Activations(Len(blocks)) /\ Len(blocks) \in Nat
  BY StackIs
<1>2. /\ top.kind = "while" => top \in Whiles(Len(blocks))
      /\ top.kind = "then" => top \in Thens(Len(blocks))
      /\ top.kind = "else" => top \in Elses(Len(blocks))
      /\ top.kind = "match" => top \in Matches(Len(blocks))
  BY <1>1, ActivationIs
<1> QED
  BY <1>2 DEF Whiles, Thens, Elses, Matches, Branchings

(* The counters and what is known of the source stay within their types. *)
LEMMA MarksKept == ASSUME Inv, Next PROVE Marks'
<1>1. Marks
  BY DEF Inv
<1>2. {MaxItems, MaxDeclarations} \subseteq Nat
  BY BoundsAssumption
<1>3. ASSUME NEW typed \in BOOLEAN, parse_function(typed) PROVE Marks'
  <2>1. /\ declared' = declared + 1 /\ declared < MaxDeclarations
        /\ count' = count /\ status' = status /\ value' = "garbage"
        /\ follow' = follow /\ pending' = {Begin}
    BY <1>3 DEF parse_function, InFile
  <2> QED
    BY <1>1, <1>2, <2>1 DEF Marks
<1>4. ASSUME NEW typed \in BOOLEAN, parse_function_external(typed) PROVE Marks'
  <2>1. /\ declared' = declared + 1 /\ declared < MaxDeclarations
        /\ count' = count /\ status' = status /\ value' = value
        /\ follow' = follow /\ pending' = pending
    BY <1>4 DEF parse_function_external, InFile
  <2> QED
    BY <1>1, <1>2, <2>1 DEF Marks
<1>5. ASSUME InExpression, count' = name, declared' = declared, status' = status,
             value' \in {"null", "garbage", "instruction", "constant", "terminator"},
             \/ follow' = follow /\ pending' = pending
             \/ Runs(name) /\ pending' \subseteq {name}
      PROVE  Marks'
  <2>1. count + 1 \in Statement
    BY <1>5, AtWork
  <2>2. name \in Statement /\ name \in 0 .. MaxItems
    BY <1>2, <2>1 DEF name, Statement
  <2> QED
    BY <1>1, <1>5, <2>2 DEF Marks, Runs
<1>6. InStatement => InExpression
  BY DEF InExpression
<1>7. ASSUME NEW first \in BOOLEAN, NEW assigns \in BOOLEAN, parse_assignment(first, assigns)
      PROVE  Marks'
  BY <1>5, <1>6, <1>7 DEF parse_assignment
<1>8. CASE parse_function_call
  BY <1>5, <1>8 DEF parse_function_call
<1>9. CASE parse_constant
  BY <1>5, <1>9 DEF parse_constant
<1>10. CASE match_as_value \/ arm_crashes \/ function_crashes \/ file_ends
  BY <1>1, <1>10
     DEF match_as_value, arm_crashes, function_crashes, file_ends, Marks, source
<1>11. CASE parse_return
  BY <1>5, <1>6, <1>11 DEF parse_return
<1>12. CASE parse_block
  BY <1>5, <1>6, <1>12 DEF parse_block
<1>13. CASE block_ends
  BY <1>1, <1>13 DEF block_ends, Marks, source
<1>14. CASE parse_while
  BY <1>5, <1>6, <1>14 DEF parse_while
<1>15. CASE while_ends
  <2>1. top.condition \in Statement
    BY <1>15, Remembered DEF while_ends
  <2> QED
    BY <1>1, <1>15, <2>1 DEF while_ends, Marks, Runs
<1>16. ASSUME NEW with_else \in BOOLEAN, parse_if(with_else) PROVE Marks'
  BY <1>5, <1>6, <1>16 DEF parse_if
<1>17. CASE then_ends
  <2>1. top.condition \in Statement
    BY <1>17, Remembered DEF then_ends
  <2> QED
    BY <1>1, <1>17, <2>1 DEF then_ends, Marks
<1>18. CASE else_ends
  <2>1. top.exits \subseteq Statement \cup {Begin}
    BY <1>18, Remembered DEF else_ends
  <2> QED
    BY <1>1, <1>18, <2>1 DEF else_ends, Marks
<1>19. ASSUME NEW n \in 0 .. MaxBranches, parse_match(n) PROVE Marks'
  BY <1>5, <1>19 DEF parse_match
<1>20. CASE match_option
  <2>1. top.matcher \in Statement
    BY <1>20, Remembered DEF match_option
  <2> QED
    BY <1>1, <1>20, <2>1 DEF match_option, Marks
<1>21. CASE match_result
  BY <1>1, <1>21 DEF match_result, Marks, source
<1>22. CASE match_ends
  <2>1. top.exits \subseteq Statement
    BY <1>22, Remembered DEF match_ends
  <2> QED
    BY <1>1, <1>22, <2>1 DEF match_ends, Marks
<1>23. CASE function_ends
  BY <1>1, <1>23 DEF function_ends, Marks, Runs
<1> QED
  BY <1>3, <1>4, <1>7, <1>8, <1>9, <1>10, <1>11, <1>12, <1>13, <1>14, <1>15, <1>16,
     <1>17, <1>18, <1>19, <1>20, <1>21, <1>22, <1>23 DEF Next
-----------------------------------------------------------------------------
(* No function has been generated yet. *)
LEMMA Starts == Init => Inv
<1> SUFFICES ASSUME Init PROVE Inv
  OBVIOUS
<1>1. /\ blocks = <<>> /\ entries = {} /\ at = 0 /\ stack = <<>> /\ value = "null"
      /\ count = 0 /\ declared = 0 /\ status = "running" /\ follow = {} /\ pending = {}
  BY DEF Init
<1>2. Len(blocks) = 0 /\ Len(stack) = 0 /\ Block = {}
  BY <1>1 DEF Block
<1>3. Sorts
  <2> DEFINE A == Activations(0)
             I == Seq(Instructions(0))
  <2> HIDE DEF A, I
  <2>1. blocks \in Seq(I) /\ stack \in Seq(A)
    BY <1>1
  <2> QED
    BY <1>1, <1>2, <2>1 DEF Sorts, A, I
<1>4. Marks
  BY <1>1, BoundsAssumption DEF Marks
<1>5. /\ \A d \in 1 .. Len(stack) : FALSE
      /\ \A d \in 2 .. Len(stack) : FALSE
      /\ \A d \in 1 .. Len(stack) - 1 : FALSE
  BY <1>2
<1>6. Nesting /\ Apart /\ Values /\ Current
  BY <1>1, <1>2, <1>5 DEF Nesting, Apart, Values, Current
<1>7. Shape /\ Returns
  BY <1>1, <1>2 DEF Shape, Returns
<1> QED
  BY <1>3, <1>4, <1>6, <1>7 DEF Inv

(* Every step keeps the invariant and leaves finished functions alone. *)
LEMMA Keeps ==
  ASSUME Inv, [Next]_vars
  PROVE  /\ Inv'
         /\ \A b \in Block : Finished(b) =>
              \/ blocks'[b] = blocks[b]
              \/ /\ stack = <<>> /\ stack' = <<>> /\ b = at
                 /\ blocks'[b] = Append(blocks[b], RetVoid(End))
<1>1. CASE UNCHANGED vars
  <2>1. UNCHANGED <<code, stack, value, source>>
    BY <1>1 DEF vars, walk
  <2>2. Marks'
    BY <1>1 DEF vars, walk, source, Inv, Marks
  <2> QED
    BY <2>1, <2>2, StatusKeeps DEF Inv
<1>2. CASE Next
  <2>1. Marks'
    BY <1>2, MarksKept
  <2>2. CASE Kept
    BY <2>1, <2>2, InsideKeeps DEF Kept, Inv
  <2>3. ASSUME NEW typed \in BOOLEAN, parse_function(typed)
        PROVE  /\ Inv' /\ \A b \in Block : blocks'[b] = blocks[b]
    BY <2>1, <2>3, FunctionKeeps DEF Inv
  <2>4. ASSUME NEW typed \in BOOLEAN, parse_function_external(typed)
        PROVE  /\ Inv' /\ stack = <<>> /\ stack' = <<>>
               /\ \A b \in Block :
                    \/ blocks'[b] = blocks[b]
                    \/ b = at /\ blocks'[b] = Append(blocks[b], RetVoid(End))
    BY <2>1, <2>4, ExternalKeeps DEF Inv, parse_function_external, InFile
  <2>5. CASE UNCHANGED <<code, stack, value, source>>
    BY <2>1, <2>5, StatusKeeps DEF Inv
  <2> QED
    BY <1>2, <2>2, <2>3, <2>4, <2>5, Steps
<1> QED
  BY <1>1, <1>2

LEMMA Invariant == Spec => []Inv
BY Starts, Keeps, PTL DEF Spec

(* What the two parts of the invariant say of types is TypeOK. *)
LEMMA WellTyped == Inv => TypeOK
<1> SUFFICES ASSUME Inv PROVE TypeOK
  OBVIOUS
<1>1. Sorts /\ Marks /\ Len(blocks) \in Nat /\ Block = 1 .. Len(blocks)
  BY DEF Inv, Sorts, Block
<1>2. ASSUME NEW b \in Block, NEW k \in DOMAIN blocks[b]
      PROVE  /\ blocks[b][k].op \in Terminators \cup {"do"}
             /\ blocks[b][k].id \in Statement \cup {Begin, End}
             /\ blocks[b][k].to \subseteq Block
             /\ blocks[b][k].sees \subseteq Block
  <2> DEFINE I == Instructions(Len(blocks))
  <2>1. blocks \in Seq(Seq(I)) /\ b \in 1 .. Len(blocks)
    BY <1>1 DEF Sorts
  <2> HIDE DEF I
  <2>2. blocks[b] \in Seq(I)
    BY <2>1, ElementOfSeq
  <2>3. blocks[b][k] \in I
    BY <2>2
  <2> QED
    BY <1>1, <2>3 DEF I, Instructions
<1>3. ASSUME NEW d \in DOMAIN stack PROVE stack[d] \in Frames
  <2> DEFINE A == Activations(Len(blocks))
  <2>1. stack \in Seq(A)
    BY <1>1 DEF Sorts
  <2> HIDE DEF A
  <2>2. stack[d] \in A
    BY <2>1
  <2>3. Matches(Len(blocks)) \subseteq Branchings(Len(blocks))
    BY DEF Matches
  <2>4. A \subseteq Frames
    BY <1>1, <2>3
       DEF A, Activations, Frames, Functions, Nests, Whiles, Thens, Elses, Branchings
  <2> QED
    BY <2>2, <2>4
<1> QED
  BY <1>1, <1>2, <1>3 DEF TypeOK, Sorts, Marks

(* Between two declarations nothing of a regular source is left open. *)
LEMMA WellMade == Inv => RegularIsWellFormed
<1> SUFFICES ASSUME Inv, stack = <<>>, Regular PROVE WellFormed
  BY DEF RegularIsWellFormed, BetweenDeclarations, Regular
<1>1. Shape /\ Returns
  BY DEF Inv
<1>2. \A b : ~IsHeld(b)
  <2>1. Len(stack) = 0
    OBVIOUS
  <2> QED
    BY <2>1 DEF IsHeld
<1>3. \A b \in Block : Closed(b)
  <2>1. \A b \in Block : b # 0
    BY DEF Inv, Sorts, Block
  <2> QED
    BY <1>1, <1>2, <2>1 DEF Shape
<1>4. ASSUME NEW b \in Block PROVE DOMAIN blocks[b] = 1 .. Len(blocks[b])
  <2> DEFINE I == Instructions(Len(blocks))
  <2>1. blocks \in Seq(Seq(I)) /\ b \in 1 .. Len(blocks)
    BY DEF Inv, Sorts, Block
  <2> HIDE DEF I
  <2>2. blocks[b] \in Seq(I)
    BY <2>1, ElementOfSeq
  <2> QED
    BY <2>2
<1> QED
  BY <1>1, <1>3, <1>4 DEF WellFormed, Closed, IsClosed, Returns, Inv, Current

(* The builder, the activations and the instructions name only blocks that *)
(* exist, for files of every length and nesting.                           *)
THEOREM TypeCorrect == Spec => []TypeOK
BY Invariant, WellTyped, PTL

(* Nested in whatever way, the conditionals, loops and matches of a        *)
(* regular source are turned into blocks that LLVM accepts: each ends in   *)
(* its only terminator, and none branches to the first of a function.      *)
THEOREM RegularSourcesVerify == Spec => []RegularIsWellFormed
BY Invariant, WellMade, PTL

(* What is generated for a function is not touched once it is finished,    *)
(* but for the ret void of a later extern without a type.                  *)
THEOREM FinishedStay == Spec => FinishedUntouched
BY Invariant, Keeps, PTL DEF Spec, FinishedUntouched
-----------------------------------------------------------------------------
(* What keeps the uses of names behind their declarations.  Code is built  *)
(* where the builder is, or where an activation goes on later; so what a   *)
(* block sees was seen by every branch to it, and what an activation holds *)
(* is empty, and reached only from where the names below it are visible.   *)
(* A loop goes back to where no more was seen than that, and a function    *)
(* starts with nothing in sight.  The branches of a match, which bind      *)
(* names, and declarations that are an else branch are the exceptions      *)
(* VisibleDominates makes.                                                 *)
Tame == odd \cap {"match name", "bare declaration"} = {}
Names(f) == IF f.kind \in {"function", "block"} THEN f.names ELSE {}
Below(s, d) == UNION {Names(s[e]) : e \in {x \in 1 .. Len(s) : x < d}}
Holds(s, b) == \E d \in 1 .. Len(s) : b \in Held(s[d])

(* What the code in block b sees; and that every branch to b sees S. *)
Saw(bs, b) == UNION {bs[b][k].sees : k \in 1 .. Len(bs[b])}
From(bs, b, S) == \A c \in 1 .. Len(bs) : \A k \in 1 .. Len(bs[c]) :
                    b \in bs[c][k].to => S \subseteq bs[c][k].sees

(* What is seen in a block was seen by every branch to it. *)
Passed == \A b \in Block : From(blocks, b, Saw(blocks, b) \ {b})
Here == From(blocks, at, Visible \ {at})
Ahead == \A d \in 1 .. Len(stack) : \A b \in Held(stack[d]) :
           /\ From(blocks, b, Below(stack, d))
           /\ b # at => blocks[b] = <<>>
Back == \A d \in 1 .. Len(stack) : stack[d].kind = "while" =>
          /\ Saw(blocks, stack[d].start) \subseteq Below(stack, d)
          /\ stack[d].start # at /\ ~Holds(stack, stack[d].start)
Branchless == \A d \in 1 .. Len(stack) : stack[d].kind = "match" =>
                /\ d = Len(stack) /\ stack[d].option = 0
                /\ at = stack[d].start /\ stack[d].next = stack[d].end
Entered == \A e \in entries : /\ Saw(blocks, e[1]) \subseteq {e[1]}
                              /\ at = e[1] => Visible \subseteq {at}
Sight == Passed /\ Here /\ Ahead /\ Back /\ Branchless /\ Entered

(* The names below the first activations, and those of all of them. *)
LEMMA BelowNext ==
  ASSUME NEW A, NEW s \in Seq(A), NEW m \in 1 .. Len(s)
  PROVE  Below(s, m + 1) = Below(s, m) \cup Names(s[m])
<1>1. {x \in 1 .. Len(s) : x < m + 1} = {x \in 1 .. Len(s) : x < m} \cup {m}
  OBVIOUS
<1> QED
  BY <1>1 DEF Below

LEMMA BelowAll ==
  ASSUME NEW A, NEW s \in Seq(A)
  PROVE  UNION {s[d].names : d \in {d \in DOMAIN s : s[d].kind \in {"function", "block"}}}
           = Below(s, Len(s) + 1)
<1>1. Len(s) \in Nat /\ DOMAIN s = 1 .. Len(s)
  OBVIOUS
<1>2. {x \in 1 .. Len(s) : x < Len(s) + 1} = DOMAIN s
  BY <1>1
<1>3. Below(s, Len(s) + 1) = UNION {Names(s[e]) : e \in DOMAIN s}
  BY <1>2 DEF Below
<1> DEFINE D == {d \in DOMAIN s : s[d].kind \in {"function", "block"}}
<1>4. \A e \in DOMAIN s : e \in D \/ Names(s[e]) = {}
  BY DEF Names
<1>5. \A e \in D : e \in DOMAIN s /\ Names(s[e]) = s[e].names
  BY DEF Names
<1> HIDE DEF D
<1>6. UNION {s[d].names : d \in D} = UNION {Names(s[e]) : e \in DOMAIN s}
  BY <1>4, <1>5
<1> QED
  BY <1>3, <1>6 DEF D

(* What is visible is all the names there are on the stack, ... *)
LEMMA VisibleIs ==
  ASSUME Sorts
  PROVE  Visible = Below(stack, Len(stack) + 1) /\ (stack = <<>> => Visible = {})
<1> DEFINE A == Activations(Len(blocks))
<1>1. stack \in Seq(A)
  BY DEF Sorts
<1> HIDE DEF A
<1>2. Visible = Below(stack, Len(stack) + 1)
  BY <1>1, BelowAll DEF Visible, Scoped
<1>3. stack = <<>> => Visible = {}
  BY DEF Visible, Scoped
<1> QED
  BY <1>2, <1>3

(* ... also after a step, ... *)
LEMMA VisibleNext ==
  ASSUME Sorts'
  PROVE  Visible' = Below(stack', Len(stack') + 1)
<1> DEFINE A == Activations(Len(blocks'))
<1>1. stack' \in Seq(A)
  BY DEF Sorts
<1> HIDE DEF A
<1>2. Visible' = Below(stack', Len(stack') + 1)
  BY <1>1, BelowAll DEF Visible, Scoped
<1> QED
  BY <1>2

(* ... and the names below an activation are part of it. *)
LEMMA BelowIs ==
  ASSUME Sorts, NEW m \in 1 .. Len(stack)
  PROVE  /\ Below(stack, m + 1) = Below(stack, m) \cup Names(stack[m])
         /\ Below(stack, m) \subseteq Visible
<1> DEFINE A == Activations(Len(blocks))
<1>1. stack \in Seq(A) /\ Len(stack) \in Nat
  BY DEF Sorts
<1> HIDE DEF A
<1>2. Below(stack, m + 1) = Below(stack, m) \cup Names(stack[m])
  BY <1>1, BelowNext
<1>3. \A e \in 1 .. Len(stack) : e < m => e < Len(stack) + 1
  BY <1>1
<1>4. Below(stack, m) \subseteq Below(stack, Len(stack) + 1)
  BY <1>3 DEF Below
<1> QED
  BY <1>2, <1>4, VisibleIs

(* Activations that stay keep the names below them. *)
LEMMA BelowSame ==
  ASSUME Sorts, Sorts', NEW m \in Nat, m <= Len(stack), m <= Len(stack'),
         \A d \in 1 .. m : Names(stack'[d]) = Names(stack[d]), NEW d \in 1 .. m + 1
  PROVE  Below(stack', d) = Below(stack, d)
<1>1. Len(stack) \in Nat /\ Len(stack') \in Nat
  BY DEF Sorts
<1>2. /\ {x \in 1 .. Len(stack) : x < d} = {x \in 1 .. m : x < d}
      /\ {x \in 1 .. Len(stack') : x < d} = {x \in 1 .. m : x < d}
  BY <1>1
<1>3. Below(stack, d) = UNION {Names(stack[e]) : e \in {x \in 1 .. m : x < d}}
  BY <1>2 DEF Below
<1>4. Below(stack', d) = UNION {Names(stack'[e]) : e \in {x \in 1 .. m : x < d}}
  <2>1. Below(stack', d) = UNION {Names(stack'[e]) : e \in {x \in 1 .. Len(stack') : x < d}}
    BY DEF Below
  <2> QED
    BY <1>2, <2>1
<1> QED
  BY <1>3, <1>4
-----------------------------------------------------------------------------
(* A step builds at most one instruction where the builder is, with        *)
(* branches to T and to new blocks, and at most one in each new block.     *)
Builds(T) ==
  /\ Len(blocks) <= Len(blocks')
  /\ \A b \in Block : b # at => blocks'[b] = blocks[b]
  /\ at \in Block =>
       \/ blocks'[at] = blocks[at]
       \/ \E i \in Instructions(Len(blocks')) :
            /\ blocks'[at] = Append(blocks[at], i)
            /\ i.sees = Visible /\ i.to \cap Block \subseteq T
  /\ \A b \in Block' \ Block :
       \/ blocks'[b] = <<>>
       \/ \E i \in Instructions(Len(blocks')) :
            /\ blocks'[b] = Append(<<>>, i)
            /\ i.sees = Visible /\ i.to \cap Block = {}

(* A block is what it was, or one instruction longer, ... *)
LEMMA GrownIs ==
  ASSUME Sorts, Sorts', NEW T, Builds(T), NEW c \in Block',
         NEW k \in 1 .. Len(blocks'[c])
  PROVE  \/ c \in Block /\ k \in 1 .. Len(blocks[c]) /\ blocks'[c][k] = blocks[c][k]
         \/ /\ c = at \/ c \notin Block
            /\ blocks'[c][k].sees = Visible
            /\ blocks'[c][k].to \cap Block \subseteq T
<1> DEFINE I == Instructions(Len(blocks'))
<1>1. /\ Len(blocks) \in Nat /\ Len(blocks') \in Nat /\ Len(blocks) <= Len(blocks')
      /\ blocks \in Seq(Seq(Instructions(Len(blocks))))
  BY DEF Sorts, Builds
<1>2. blocks \in Seq(Seq(I))
  BY <1>1, Wider
<1>3. CASE c \in Block
  <2>1. blocks[c] \in Seq(I)
    <3> HIDE DEF I
    <3> QED
      BY <1>2, <1>3, ElementOfSeq DEF Block
  <2>2. CASE blocks'[c] = blocks[c]
    BY <1>3, <2>2
  <2>3. CASE blocks'[c] # blocks[c]
    <3>1. c = at
      BY <1>3, <2>3 DEF Builds
    <3>2. PICK i \in I : /\ blocks'[c] = Append(blocks[c], i)
                         /\ i.sees = Visible /\ i.to \cap Block \subseteq T
      BY <1>3, <2>3, <3>1 DEF Builds
    <3> HIDE DEF I
    <3>3. \/ k \in 1 .. Len(blocks[c]) /\ blocks'[c][k] = blocks[c][k]
          \/ blocks'[c][k] = i
      BY <2>1, <3>2, AppendIs
    <3> QED
      BY <1>3, <3>1, <3>2, <3>3
  <2> QED
    BY <2>2, <2>3
<1>4. CASE c \notin Block
  <2>1. blocks'[c] # <<>>
    OBVIOUS
  <2>2. PICK i \in I : /\ blocks'[c] = Append(<<>>, i)
                       /\ i.sees = Visible /\ i.to \cap Block = {}
    BY <1>4, <2>1 DEF Builds
  <2> HIDE DEF I
  <2>3. blocks'[c][k] = i
    BY <2>2
  <2> QED
    BY <1>4, <2>2, <2>3
<1> QED
  BY <1>3, <1>4

(* ... and sees what it saw, or what is visible now. *)
LEMMA SawGrows ==
  ASSUME Sorts, Sorts', NEW T, Builds(T), NEW b \in Block'
  PROVE  /\ b \in Block /\ b # at => Saw(blocks', b) = Saw(blocks, b)
         /\ b \in Block => Saw(blocks', b) \subseteq Saw(blocks, b) \cup Visible
         /\ b \notin Block => Saw(blocks', b) \subseteq Visible
<1>1. b \in Block /\ b # at => Saw(blocks', b) = Saw(blocks, b)
  BY DEF Builds, Saw
<1>2. ASSUME NEW k \in 1 .. Len(blocks'[b])
      PROVE  /\ b \in Block => blocks'[b][k].sees \subseteq Saw(blocks, b) \cup Visible
             /\ b \notin Block => blocks'[b][k].sees \subseteq Visible
  <2>1. \/ b \in Block /\ k \in 1 .. Len(blocks[b]) /\ blocks'[b][k] = blocks[b][k]
        \/ blocks'[b][k].sees = Visible
    BY GrownIs
  <2> QED
    BY <2>1 DEF Saw
<1>3. /\ b \in Block => Saw(blocks', b) \subseteq Saw(blocks, b) \cup Visible
      /\ b \notin Block => Saw(blocks', b) \subseteq Visible
  BY <1>2 DEF Saw
<1> QED
  BY <1>1, <1>3

(* A branch to a block that there was is an old one or is to one of T.     *)
LEMMA FromGrows ==
  ASSUME Sorts, Sorts', NEW T, Builds(T), NEW b, NEW S,
         From(blocks, b, S) \/ b \notin Block,
         b \in T \/ b \notin Block => S \subseteq Visible
  PROVE  From(blocks', b, S)
<1> SUFFICES ASSUME NEW c \in Block', NEW k \in 1 .. Len(blocks'[c]),
                    b \in blocks'[c][k].to
             PROVE  S \subseteq blocks'[c][k].sees
  BY DEF From, Block
<1>1. CASE c \in Block /\ k \in 1 .. Len(blocks[c]) /\ blocks'[c][k] = blocks[c][k]
  <2>1. blocks[c][k].to \subseteq Block
    <3> DEFINE I == Instructions(Len(blocks))
    <3>1. blocks \in Seq(Seq(I)) /\ c \in 1 .. Len(blocks)
      BY <1>1 DEF Sorts, Block
    <3>2. blocks[c][k] \in I
      <4> HIDE DEF I
      <4> QED
        BY <1>1, <3>1, ElementOfSeq
    <3> QED
      BY <3>2 DEF Instructions, Block
  <2>2. b \in Block
    BY <1>1, <2>1
  <2> QED
    BY <1>1, <2>2 DEF From, Block
<1>2. CASE /\ blocks'[c][k].sees = Visible
           /\ blocks'[c][k].to \cap Block \subseteq T
  BY <1>2
<1> QED
  BY <1>1, <1>2, GrownIs
-----------------------------------------------------------------------------
(* What is built adds to what a block sees only what is visible, and that  *)
(* was seen on every branch to where the builder is.                       *)
LEMMA PassedKept ==
  ASSUME Inv, Inv', Sight, NEW T, Builds(T),
         \A b \in T \cap Block : b # at /\ Saw(blocks, b) \subseteq Visible
  PROVE  Passed'
<1> SUFFICES ASSUME NEW b \in Block' PROVE From(blocks', b, Saw(blocks', b) \ {b})
  BY DEF Passed
<1> DEFINE S == Saw(blocks', b) \ {b}
<1>1. Sorts /\ Sorts'
  BY DEF Inv
<1>2. CASE b \in Block /\ b # at
  <2>1. Saw(blocks', b) = Saw(blocks, b)
    BY <1>1, <1>2, SawGrows
  <2>2. From(blocks, b, S)
    BY <1>2, <2>1 DEF Sight, Passed
  <2>3. b \in T => S \subseteq Visible
    BY <1>2, <2>1
  <2> HIDE DEF S
  <2>4. From(blocks', b, S)
    BY <1>1, <1>2, <2>2, <2>3, FromGrows
  <2> QED
    BY <2>4 DEF S
<1>3. CASE b \in Block /\ b = at
  <2>1. Saw(blocks', b) \subseteq Saw(blocks, b) \cup Visible
    BY <1>1, <1>3, SawGrows
  <2>2. From(blocks, b, Saw(blocks, b) \ {b}) /\ From(blocks, b, Visible \ {b})
    BY <1>3 DEF Sight, Passed, Here
  <2>3. From(blocks, b, S)
    BY <2>1, <2>2 DEF From
  <2>4. b \notin T
    BY <1>3
  <2> HIDE DEF S
  <2>5. From(blocks', b, S)
    BY <1>1, <1>3, <2>3, <2>4, FromGrows
  <2> QED
    BY <2>5 DEF S
<1>4. CASE b \notin Block
  <2>1. S \subseteq Visible
    BY <1>1, <1>4, SawGrows
  <2> HIDE DEF S
  <2>2. From(blocks', b, S)
    BY <1>1, <1>4, <2>1, FromGrows
  <2> QED
    BY <2>2 DEF S
<1> QED
  BY <1>2, <1>3, <1>4

(* The blocks that an activation knows are none that functions start with. *)
LEMMA EntriesAreBefore ==
  ASSUME Inv, stack # <<>>, NEW e \in entries, NEW d \in 1 .. Len(stack),
         NEW b \in Known(stack[d])
  PROVE  e[1] # b
<1>1. PICK l \in entries : Last(l) /\ \A x \in 1 .. Len(stack) : \A y \in Known(stack[x]) : l[1] < y
  BY DEF Inv, Current
<1>2. e[1] <= l[1] /\ l[1] < b
  BY <1>1 DEF Last
<1>3. e[1] \in Nat /\ l[1] \in Nat
  <2>1. \A x \in entries : x[1] \in 1 .. Len(blocks)
    BY DEF Inv, Sorts, Block
  <2> QED
    BY <1>1, <2>1
<1> QED
  BY <1>2, <1>3

(* What a step inside a function has to be like for it to keep Sight: the  *)
(* first m activations stay, and those above hold new blocks or what the   *)
(* top held, the builder goes on where it is, in a new block, or in one    *)
(* that the top held, and the names below an activation do not change.     *)
Stay(m) == \A d \in 1 .. m :
  /\ Held(stack'[d]) = Held(stack[d]) /\ at \notin Held(stack[d])
  /\ stack'[d].kind = "while" => stack[d].kind = "while" /\ stack'[d] = stack[d]
Depths == \A d \in 1 .. Len(stack') :
  /\ d <= Len(stack) => Below(stack', d) = Below(stack, d)
  /\ d > Len(stack) => Below(stack', d) = Visible
Pushed(m) == \A d \in m + 1 .. Len(stack') :
  /\ \A b \in Held(stack'[d]) :
       /\ b \notin Block \/ (d = Len(stack) /\ b \in Held(top) /\ b # at)
       /\ b # at' => blocks'[b] = <<>>
  /\ stack'[d].kind = "while" =>
       /\ d > Len(stack) /\ stack'[d].start \in Block' \ Block
       /\ stack'[d].start # at' /\ ~Holds(stack', stack'[d].start)
Moves ==
  /\ Visible' \subseteq Visible \cup {at}
  /\ \/ at' = at
     \/ at' \notin Block
     \/ at' \in Held(top) /\ Visible' \subseteq Below(stack, Len(stack))
  /\ at' # at => Visible' \subseteq Visible
  /\ \A b \in Block : Holds(stack', b) => Holds(stack, b)

(* Such a step keeps Sight. *)
LEMMA SightStep ==
  ASSUME Inv, Inv', Sight, stack # <<>>, NEW T, Builds(T),
         \A b \in T \cap Block : b # at /\ Saw(blocks, b) \subseteq Visible,
         entries' = entries, Branchless', NEW m \in 0 .. Len(stack),
         m <= Len(stack'), Stay(m), Depths, Pushed(m), Moves
  PROVE  Sight'
<1>1. /\ Sorts /\ Sorts' /\ Len(stack) \in Nat /\ Len(stack') \in Nat
      /\ Len(blocks) \in Nat /\ at \in Block /\ Len(stack) >= 1 /\ top = stack[Len(stack)]
  BY StackIs DEF Inv, Sorts
<1>2. Passed'
  BY PassedKept
<1>3. Here'
  <2> DEFINE S == Visible' \ {at'}
  <2>1. From(blocks, at', S) \/ at' \notin Block
    <3>1. CASE at' = at
      <4>1. S \subseteq Visible \ {at}
        BY <3>1 DEF Moves
      <4> QED
        BY <3>1, <4>1 DEF Sight, Here, From
    <3>2. CASE at' \in Held(top) /\ Visible' \subseteq Below(stack, Len(stack))
      <4>1. From(blocks, at', Below(stack, Len(stack)))
        BY <1>1, <3>2 DEF Sight, Ahead
      <4> QED
        BY <3>2, <4>1 DEF From
    <3> QED
      BY <3>1, <3>2 DEF Moves
  <2>2. S \subseteq Visible
    BY DEF Moves
  <2> HIDE DEF S
  <2>3. From(blocks', at', S)
    BY <1>1, <2>1, <2>2, FromGrows
  <2> QED
    BY <2>3 DEF S, Here
<1>4. Ahead'
  <2> SUFFICES ASSUME NEW d \in 1 .. Len(stack'), NEW b \in Held(stack'[d])
               PROVE  From(blocks', b, Below(stack', d)) /\ (b # at' => blocks'[b] = <<>>)
    BY DEF Ahead
  <2> DEFINE S == Below(stack', d)
  <2>1. S \subseteq Visible
    <3>1. d <= Len(stack) => Below(stack, d) \subseteq Visible
      BY <1>1, BelowIs
    <3> QED
      BY <1>1, <3>1 DEF Depths
  <2>2. CASE d \in 1 .. m
    <3>1. /\ d \in 1 .. Len(stack) /\ b \in Held(stack[d]) /\ b # at /\ S = Below(stack, d)
      BY <1>1, <2>2 DEF Stay, Depths
    <3>2. From(blocks, b, S) /\ blocks[b] = <<>>
      BY <3>1 DEF Sight, Ahead
    <3>3. b \in Block
      <4>1. Held(stack[d]) \subseteq Known(stack[d]) /\ Known(stack[d]) \subseteq 1 .. Len(blocks)
        BY <1>1, <3>1, StackIs, ActivationIs
      <4> QED
        BY <3>1, <4>1 DEF Block
    <3>4. blocks'[b] = <<>>
      BY <3>1, <3>2, <3>3 DEF Builds
    <3> HIDE DEF S
    <3>5. From(blocks', b, S)
      BY <1>1, <2>1, <3>2, FromGrows
    <3> QED
      BY <3>4, <3>5 DEF S
  <2>3. CASE d \notin 1 .. m
    <3>1. d \in m + 1 .. Len(stack')
      BY <1>1, <2>3
    <3>2. b \notin Block \/ (d = Len(stack) /\ b \in Held(top))
      BY <3>1 DEF Pushed
    <3>3. b # at' => blocks'[b] = <<>>
      BY <3>1 DEF Pushed
    <3>4. From(blocks, b, S) \/ b \notin Block
      <4>1. d = Len(stack) => S = Below(stack, d)
        BY <1>1 DEF Depths
      <4> QED
        BY <1>1, <3>2, <4>1 DEF Sight, Ahead
    <3> HIDE DEF S
    <3>5. From(blocks', b, S)
      BY <1>1, <2>1, <3>4, FromGrows
    <3> QED
      BY <3>3, <3>5 DEF S
  <2> QED
    BY <2>2, <2>3
<1>5. Back'
  <2> SUFFICES ASSUME NEW d \in 1 .. Len(stack'), stack'[d].kind = "while"
               PROVE  /\ Saw(blocks', stack'[d].start) \subseteq Below(stack', d)
                      /\ stack'[d].start # at' /\ ~Holds(stack', stack'[d].start)
    BY DEF Back
  <2> DEFINE b == stack'[d].start
  <2>1. CASE d \in 1 .. m
    <3>1. d \in 1 .. Len(stack) /\ stack[d].kind = "while" /\ stack'[d] = stack[d]
      BY <1>1, <2>1 DEF Stay
    <3>2. Saw(blocks, b) \subseteq Below(stack, d) /\ b # at /\ ~Holds(stack, b)
      BY <3>1 DEF Sight, Back
    <3>3. b \in Known(stack[d]) /\ b \in Block
      <4>1. b \in Known(stack[d])
        BY <3>1 DEF Known
      <4>2. Known(stack[d]) \subseteq 1 .. Len(blocks)
        BY <1>1, <3>1, StackIs, ActivationIs
      <4> QED
        BY <4>1, <4>2 DEF Block
    <3> HIDE DEF b
    <3>4. Saw(blocks', b) = Saw(blocks, b)
      <4>1. b \in Block'
        BY <1>1, <3>3 DEF Builds, Block
      <4> QED
        BY <1>1, <3>2, <3>3, <4>1, SawGrows
    <3>5. b # at'
      <4>1. at' \in Held(top) => Holds(stack, at')
        BY <1>1 DEF Holds
      <4> QED
        BY <3>2, <3>3, <4>1 DEF Moves
    <3>6. ~Holds(stack', b)
      BY <3>2, <3>3 DEF Moves
    <3>7. Below(stack', d) = Below(stack, d)
      BY <1>1, <3>1 DEF Depths
    <3> QED
      BY <3>2, <3>4, <3>5, <3>6, <3>7 DEF b
  <2>2. CASE d \notin 1 .. m
    <3>1. d \in m + 1 .. Len(stack')
      BY <1>1, <2>2
    <3>2. d > Len(stack) /\ b \in Block' \ Block /\ b # at' /\ ~Holds(stack', b)
      BY <3>1 DEF Pushed
    <3> HIDE DEF b
    <3>3. Saw(blocks', b) \subseteq Visible /\ Below(stack', d) = Visible
      BY <1>1, <3>2, SawGrows DEF Depths
    <3> QED
      BY <3>2, <3>3 DEF b
  <2> QED
    BY <2>1, <2>2
<1>6. Entered'
  <2> SUFFICES ASSUME NEW e \in entries
               PROVE  /\ Saw(blocks', e[1]) \subseteq {e[1]}
                      /\ at' = e[1] => Visible' \subseteq {at'}
    BY DEF Entered
  <2>1. e[1] \in Block /\ e[1] \in Block'
    BY <1>1 DEF Sorts, Builds, Block
  <2>2. Saw(blocks, e[1]) \subseteq {e[1]} /\ (at = e[1] => Visible \subseteq {at})
    BY DEF Sight, Entered
  <2>3. Saw(blocks', e[1]) \subseteq {e[1]}
    <3>1. e[1] # at => Saw(blocks', e[1]) = Saw(blocks, e[1])
      BY <1>1, <2>1, SawGrows
    <3>2. Saw(blocks', e[1]) \subseteq Saw(blocks, e[1]) \cup Visible
      BY <1>1, <2>1, SawGrows
    <3> QED
      BY <2>2, <3>1, <3>2
  <2>4. at' \in Held(top) => e[1] # at'
    <3> SUFFICES ASSUME at' \in Held(top) PROVE e[1] # at'
      OBVIOUS
    <3>1. at' \in Known(stack[Len(stack)])
      BY <1>1 DEF Known
    <3> QED
      BY <1>1, <3>1, EntriesAreBefore
  <2>5. at' = e[1] => at' = at
    BY <2>1, <2>4 DEF Moves
  <2> QED
    BY <2>2, <2>3, <2>5 DEF Moves
<1> QED
  BY <1>2, <1>3, <1>4, <1>5, <1>6 DEF Sight
-----------------------------------------------------------------------------
(* What names there are when the activations above the m-th have none. *)
LEMMA NamesBelow ==
  ASSUME Sorts, Sorts', NEW m \in Nat, m <= Len(stack), m <= Len(stack'),
         \A d \in 1 .. m : Names(stack'[d]) = Names(stack[d]),
         \A d \in m + 1 .. Len(stack') : Names(stack'[d]) = {}
  PROVE  /\ \A d \in 1 .. m + 1 : Below(stack', d) = Below(stack, d)
         /\ \A d \in m + 1 .. Len(stack') + 1 : Below(stack', d) = Below(stack, m + 1)
         /\ Visible' = Below(stack, m + 1)
<1>1. Len(stack) \in Nat /\ Len(stack') \in Nat
  BY DEF Sorts
<1>2. \A d \in 1 .. m + 1 : Below(stack', d) = Below(stack, d)
  BY BelowSame
<1>3. ASSUME NEW d \in m + 1 .. Len(stack') + 1
      PROVE  Below(stack', d) = Below(stack, m + 1)
  <2>1. Below(stack', m + 1) = Below(stack, m + 1)
    BY <1>1, <1>2
  <2>2. \A e \in 1 .. Len(stack') : (e < m + 1 => e < d) /\ (e < m + 1 \/ Names(stack'[e]) = {})
    <3>1. \A e \in 1 .. Len(stack') : e < m + 1 => e < d
      BY <1>1
    <3>2. \A e \in 1 .. Len(stack') : e < m + 1 \/ e \in m + 1 .. Len(stack')
      BY <1>1
    <3> QED
      BY <3>1, <3>2
  <2>3. Below(stack', d) = Below(stack', m + 1)
    BY <2>2 DEF Below
  <2> QED
    BY <2>1, <2>3
<1>4. Visible' = Below(stack', Len(stack') + 1)
  BY VisibleNext
<1>5. Len(stack') + 1 \in m + 1 .. Len(stack') + 1
  BY <1>1
<1> QED
  BY <1>2, <1>3, <1>4, <1>5

(* Activations are pushed on the stack, ... *)
LEMMA PushedBelow ==
  ASSUME Sorts, Sorts', Len(stack) <= Len(stack'),
         \A d \in 1 .. Len(stack) : Names(stack'[d]) = Names(stack[d]),
         \A d \in Len(stack) + 1 .. Len(stack') : Names(stack'[d]) = {}
  PROVE  Depths /\ Visible' = Visible
<1> DEFINE m == Len(stack)
<1>1. m \in Nat /\ m <= Len(stack) /\ Len(stack') \in Nat /\ m = Len(stack)
  BY DEF Sorts
<1> HIDE DEF m
<1>2. /\ \A d \in 1 .. m + 1 : Below(stack', d) = Below(stack, d)
      /\ \A d \in m + 1 .. Len(stack') + 1 : Below(stack', d) = Below(stack, m + 1)
      /\ Visible' = Below(stack, m + 1)
  BY <1>1, NamesBelow
<1>3. Visible = Below(stack, m + 1)
  BY <1>1, VisibleIs
<1>4. Depths
  BY <1>1, <1>2, <1>3 DEF Depths
<1> QED
  BY <1>2, <1>3, <1>4

(* ... or the top of the stack is popped or replaced. *)
LEMMA PoppedBelow ==
  ASSUME Sorts, Sorts', stack # <<>>, Len(stack') \in {Len(stack) - 1, Len(stack)},
         \A d \in 1 .. Len(stack) - 1 : Names(stack'[d]) = Names(stack[d]),
         \A d \in 1 .. Len(stack') : d = Len(stack) => Names(stack'[d]) = {}
  PROVE  Depths /\ Visible' = Below(stack, Len(stack)) /\ Visible' \subseteq Visible
<1> DEFINE m == Len(stack) - 1
<1>0. Len(stack) \in Nat \ {0} /\ Len(stack') \in Nat
  BY DEF Sorts
<1>1. /\ m \in Nat /\ m <= Len(stack) /\ Len(stack') \in Nat /\ m + 1 = Len(stack)
      /\ m <= Len(stack') /\ Len(stack') <= m + 1 /\ Len(stack) \in 1 .. Len(stack)
      /\ \A d \in m + 1 .. Len(stack') : d \in 1 .. Len(stack') /\ d = Len(stack)
      /\ Len(stack) \in Nat
  BY <1>0
<1>2. \A d \in m + 1 .. Len(stack') : Names(stack'[d]) = {}
  BY <1>1
<1> HIDE DEF m
<1>3. /\ \A d \in 1 .. m + 1 : Below(stack', d) = Below(stack, d)
      /\ Visible' = Below(stack, m + 1)
  <2>1. \A d \in 1 .. m : Names(stack'[d]) = Names(stack[d])
    BY <1>1
  <2> QED
    BY <1>1, <1>2, <2>1, NamesBelow
<1>4. Below(stack, Len(stack)) \subseteq Visible
  BY <1>1, BelowIs
<1>5. Depths
  BY <1>1, <1>3 DEF Depths
<1> QED
  BY <1>1, <1>3, <1>4, <1>5

(* A statement leaves the names as they are but for those S, on top. *)
LEMMA TopBelow ==
  ASSUME Sorts, Sorts', stack # <<>>, Len(stack') = Len(stack), NEW S,
         \A d \in 1 .. Len(stack) - 1 : Names(stack'[d]) = Names(stack[d]),
         Names(stack'[Len(stack)]) \subseteq Names(stack[Len(stack)]) \cup S
  PROVE  Depths /\ Visible' \subseteq Visible \cup S
<1> DEFINE m == Len(stack) - 1
           n == Len(stack)
<1>1. m \in Nat /\ n \in Nat /\ m + 1 = n /\ n \in 1 .. n /\ m <= n /\ Len(stack') = n
  BY DEF Sorts
<1>2. \A d \in 1 .. n : Below(stack', d) = Below(stack, d)
  <2> HIDE DEF m, n
  <2>1. m <= Len(stack) /\ m <= Len(stack')
    BY <1>1 DEF n
  <2>2. \A d \in 1 .. m : Names(stack'[d]) = Names(stack[d])
    BY DEF m
  <2> QED
    BY <1>1, <2>1, <2>2, BelowSame
<1>3. Depths
  BY <1>1, <1>2 DEF Depths
<1>4. Visible = Below(stack, n) \cup Names(stack[n])
  BY <1>1, BelowIs, VisibleIs
<1>5. Visible' = Below(stack', n) \cup Names(stack'[n])
  <2> DEFINE A == Activations(Len(blocks'))
  <2>1. Visible' = Below(stack', Len(stack') + 1)
    BY VisibleNext
  <2>2. stack' \in Seq(A) /\ n \in 1 .. Len(stack')
    BY <1>1 DEF Sorts
  <2> HIDE DEF A, n
  <2>3. Below(stack', n + 1) = Below(stack', n) \cup Names(stack'[n])
    BY <2>2, BelowNext
  <2> QED
    BY <1>1, <2>1, <2>3
<1>6. Below(stack', n) = Below(stack, n)
  BY <1>1, <1>2
<1> HIDE DEF n
<1>7. Names(stack'[n]) \subseteq Names(stack[n]) \cup S
  BY DEF n
<1> QED
  BY <1>3, <1>4, <1>5, <1>6, <1>7
-----------------------------------------------------------------------------
(* At most one instruction is built, where the builder is. *)
LEMMA OneBuilds ==
  ASSUME Sorts, at \in Block, NEW T,
         \/ blocks' = blocks
         \/ \E i \in Instructions(Len(blocks)) :
              /\ blocks' = Built(blocks, at, i)
              /\ i.sees = Visible /\ i.to \cap Block \subseteq T
  PROVE  Builds(T)
<1>1. Len(blocks) \in Nat /\ Block = 1 .. Len(blocks)
  BY DEF Sorts, Block
<1>2. CASE blocks' = blocks
  BY <1>1, <1>2 DEF Builds, Block
<1>3. CASE blocks' # blocks
  <2>1. PICK i \in Instructions(Len(blocks)) :
          /\ blocks' = Built(blocks, at, i)
          /\ i.sees = Visible /\ i.to \cap Block \subseteq T
    BY <1>3
  <2>2. /\ Len(blocks') = Len(blocks) /\ blocks'[at] = Append(blocks[at], i)
        /\ \A b \in Block : b # at => blocks'[b] = blocks[b]
    <3>1. /\ Len(Built(blocks, at, i)) = Len(blocks)
          /\ Built(blocks, at, i)[at] = Append(blocks[at], i)
          /\ \A b \in Block : b # at => Built(blocks, at, i)[b] = blocks[b]
      BY BuiltIn
    <3> QED
      BY <2>1, <3>1
  <2>3. i \in Instructions(Len(blocks')) /\ Block' = Block /\ Len(blocks) <= Len(blocks')
    BY <1>1, <2>2 DEF Block
  <2> QED
    BY <2>1, <2>2, <2>3 DEF Builds
<1> QED
  BY <1>2, <1>3

(* Where no branch of a match is open, no match is. *)
LEMMA NoMatch ==
  ASSUME Inv, Sight, stack # <<>>, top.kind # "match", NEW d \in 1 .. Len(stack)
  PROVE  stack[d].kind # "match"
BY StackIs DEF Sight, Branchless

(* What a statement without blocks of its own leaves behind. *)
LEMMA SightStraight ==
  ASSUME Inv, Inv', Sight, InExpression, top.kind # "match", NEW last,
         Follows(stack, stack', Len(blocks), last),
         at' = at, entries' = entries,
         \/ blocks' = blocks
         \/ \E i \in Instructions(Len(blocks)) :
              blocks' = Built(blocks, at, i) /\ i.to = {} /\ i.sees = Visible,
         \A d \in 1 .. Len(stack) - 1 : Names(stack'[d]) = Names(stack[d]),
         Names(stack'[Len(stack)]) \subseteq Names(stack[Len(stack)]) \cup {at}
  PROVE  Sight'
<1> DEFINE n == Len(stack)
           T == {}
           new == {at}
<1>1. /\ stack # <<>> /\ Sorts /\ Sorts' /\ at \in Block /\ ~IsHeld(at) /\ n \in Nat
  BY AtWork, AtEnd, StackIs DEF Inv
<1>2. /\ Len(stack') = n
      /\ \A d \in 1 .. n : Alike(stack[d], stack'[d], last)
  BY DEF Follows
<1>3. \A d \in 1 .. n : /\ Held(stack'[d]) = Held(stack[d]) /\ stack'[d].kind = stack[d].kind
                        /\ stack'[d].kind = "while" => stack'[d] = stack[d]
  <2> SUFFICES ASSUME NEW d \in 1 .. n
               PROVE  /\ Held(stack'[d]) = Held(stack[d]) /\ stack'[d].kind = stack[d].kind
                      /\ stack'[d].kind = "while" => stack'[d] = stack[d]
    OBVIOUS
  <2>1. Alike(stack[d], stack'[d], last)
    BY <1>2
  <2>2. Held(stack'[d]) = Held(stack[d]) /\ stack'[d].kind = stack[d].kind
    BY <2>1, AlikeKnow
  <2> QED
    BY <2>1, <2>2 DEF Alike
<1>4. Builds(T)
  BY <1>1, OneBuilds
<1>5. Depths /\ Visible' \subseteq Visible \cup new
  <2>1. Names(stack'[Len(stack)]) \subseteq Names(stack[Len(stack)]) \cup new
    OBVIOUS
  <2> HIDE DEF new
  <2> QED
    BY <1>1, <1>2, <2>1, TopBelow
<1>6. Stay(n)
  BY <1>1, <1>3 DEF Stay, IsHeld
<1>7. Pushed(n)
  BY <1>1, <1>2 DEF Pushed
<1>8. Moves
  BY <1>1, <1>2, <1>3, <1>5 DEF Moves, Holds
<1>9. Branchless'
  <2>1. \A d \in 1 .. n : stack[d].kind # "match"
    BY <1>1, NoMatch
  <2> QED
    BY <1>2, <1>3, <2>1 DEF Branchless
<1> HIDE DEF T
<1>10. \A b \in T \cap Block : b # at /\ Saw(blocks, b) \subseteq Visible
  BY DEF T
<1> QED
  BY <1>1, <1>2, <1>4, <1>5, <1>6, <1>7, <1>8, <1>9, <1>10, SightStep
-----------------------------------------------------------------------------
(* To note a statement changes no name. *)
LEMMA NotedNames ==
  ASSUME Sorts, stack # <<>>, NEW kind \in {"return", "other"}, NEW d \in 1 .. Len(stack)
  PROVE  Names(Noted(kind)[d]) = Names(stack[d])
<1> DEFINE n == Len(blocks)
           A == Activations(n)
<1>1. n \in Nat /\ stack \in Seq(A) /\ Len(stack) \in Nat /\ Len(stack) # 0
  BY DEF Sorts
<1>2. Len(stack) \in 1 .. Len(stack) /\ top \in A /\ top = stack[Len(stack)]
  <2> HIDE DEF A
  <2> QED
    BY <1>1 DEF top
<1>3. CASE top.kind # "function"
  BY <1>3 DEF Noted
<1>4. CASE top.kind = "function"
  <2> DEFINE g == [top EXCEPT !.last = kind]
  <2>1. top \in Functions(n)
    BY <1>1, <1>2, <1>4, ActivationIs
  <2>2. g.kind = "function" /\ g.names = top.names
    BY <2>1 DEF Functions
  <2>3. Noted(kind) = [stack EXCEPT ![Len(stack)] = g]
    BY <1>4 DEF Noted, top
  <2>4. Names(g) = Names(top)
    <3> HIDE DEF g
    <3> QED
      BY <1>4, <2>2 DEF Names
  <2> HIDE DEF g, A
  <2>5. Noted(kind)[d] = IF d = Len(stack) THEN g ELSE stack[d]
    BY <1>1, <2>3
  <2> QED
    BY <1>2, <2>4, <2>5
<1> QED
  BY <1>3, <1>4

(* Directly in a function or block, a name is declared on top. *)
LEMMA DeclaredNames ==
  ASSUME Sorts, stack # <<>>, top.kind \in {"function", "block"},
         NEW n \in Nat, NEW s \in Seq(Activations(n)), Len(s) = Len(stack),
         \A d \in 1 .. Len(s) : s[d].kind = stack[d].kind, NEW b, NEW d \in 1 .. Len(stack)
  PROVE  /\ d # Len(stack) => Names(Declare(s, b)[d]) = Names(s[d])
         /\ Names(Declare(s, b)[d]) \subseteq Names(s[d]) \cup {b}
<1> DEFINE A == Activations(n)
           g == [s[d] EXCEPT !.names = @ \cup {b}]
<1>1. /\ Len(stack) \in Nat /\ DOMAIN s = 1 .. Len(stack) /\ DOMAIN stack = 1 .. Len(stack)
      /\ Len(stack) \in 1 .. Len(stack) /\ top = stack[Len(stack)]
  BY DEF Sorts, top
<1>2. Len(stack) \in Scoped
  BY <1>1 DEF Scoped
<1>3. d # Len(stack) => ~InnerScope(d)
  <2>1. InnerScope(d) => Len(stack) <= d
    BY <1>2 DEF InnerScope
  <2>2. Len(stack) <= d => d = Len(stack)
    <3> DEFINE m == Len(stack)
    <3>1. m \in Nat /\ d \in 1 .. m
      BY <1>1
    <3> HIDE DEF m
    <3>2. m <= d => d = m
      BY <3>1
    <3> QED
      BY <3>2 DEF m
  <2> QED
    BY <2>1, <2>2
<1>4. Declare(s, b)[d] = IF InnerScope(d) THEN g ELSE s[d]
  BY <1>1 DEF Declare
<1>5. ASSUME InnerScope(d) PROVE Names(g) \subseteq Names(s[d]) \cup {b}
  <2>1. s[d].kind \in {"function", "block"}
    BY <1>1, <1>5 DEF InnerScope, Scoped
  <2>2. s[d] \in A
    BY <1>1, ElementOfSeq
  <2>3. s[d] \in Functions(n) \/ s[d] \in Nests(n)
    BY <2>1, <2>2, ActivationIs
  <2>4. g.kind = s[d].kind /\ g.names = s[d].names \cup {b}
    BY <2>3 DEF Functions, Nests
  <2> HIDE DEF g
  <2> QED
    BY <2>1, <2>4 DEF Names
<1> HIDE DEF g
<1> QED
  BY <1>3, <1>4, <1>5
-----------------------------------------------------------------------------
(* What every instruction sees, and where a statement may be. *)
LEMMA AllSee ==
  /\ \A id : Do(id).sees = Visible /\ Do(id).to = {}
             /\ Ret(id).sees = Visible /\ Ret(id).to = {}
             /\ RetVoid(id).sees = Visible /\ RetVoid(id).to = {}
  /\ \A b : Br(b).sees = Visible
  /\ \A id, b, c : CondBr(id, b, c).sees = Visible
BY DEF Do, Ret, RetVoid, Br, CondBr, Instruction

LEMMA NotInMatch ==
  ASSUME Inv, Sight, InExpression
  PROVE  top.kind # "match"
<1>1. stack # <<>> /\ (top.kind = "match" => top.option # 0)
  BY AtWork
<1>2. Len(stack) \in 1 .. Len(stack) /\ top = stack[Len(stack)]
  BY <1>1, StackIs
<1> QED
  BY <1>1, <1>2 DEF Sight, Branchless

(* A statement that is noted, and leaves at most one instruction. *)
LEMMA SightNoted ==
  ASSUME Inv, Inv', Sight, InExpression, NEW kind \in {"return", "other"},
         stack' = Noted(kind), at' = at, entries' = entries,
         \/ blocks' = blocks
         \/ \E i \in Instructions(Len(blocks)) :
              blocks' = Built(blocks, at, i) /\ i.to = {} /\ i.sees = Visible
  PROVE  Sight'
<1>1. stack # <<>> /\ Sorts /\ Len(stack) \in Nat /\ Len(stack) \in 1 .. Len(stack)
  BY AtWork, StackIs DEF Inv
<1>2. \A d \in 1 .. Len(stack) : Names(stack'[d]) = Names(stack[d])
  BY <1>1, NotedNames
<1>3. Follows(stack, stack', Len(blocks), kind)
  BY <1>1, NotedIs
<1>4. /\ \A d \in 1 .. Len(stack) - 1 : Names(stack'[d]) = Names(stack[d])
      /\ Names(stack'[Len(stack)]) \subseteq Names(stack[Len(stack)]) \cup {at}
  BY <1>1, <1>2
<1> QED
  BY <1>3, <1>4, NotInMatch, SightStraight

(* Calls, constants and returns are such statements. *)
LEMMA SightCall == ASSUME Inv, Inv', Sight, parse_function_call PROVE Sight'
<1>1. InExpression
  BY DEF parse_function_call
<1>2. Len(blocks) \in Nat /\ Sorts /\ count + 1 \in Statement
  BY <1>1, AtWork, StackIs DEF Inv
<1>3. Do(name) \in Instructions(Len(blocks))
  BY <1>2, DoIs
<1>4. /\ stack' = Noted("other") /\ at' = at /\ entries' = entries
      /\ blocks' = Built(blocks, at, Do(name))
  BY DEF parse_function_call
<1> QED
  BY <1>1, <1>3, <1>4, AllSee, SightNoted

LEMMA SightConstant == ASSUME Inv, Inv', Sight, parse_constant PROVE Sight'
<1>1. InExpression
  BY DEF parse_constant
<1>2. stack' = Noted("other") /\ at' = at /\ entries' = entries /\ blocks' = blocks
  BY DEF parse_constant, code
<1> QED
  BY <1>1, <1>2, SightNoted

LEMMA SightReturn == ASSUME Inv, Inv', Sight, parse_return PROVE Sight'
<1>1. InExpression
  BY DEF parse_return, InExpression
<1>2. Len(blocks) \in Nat /\ Sorts /\ count + 1 \in Statement
  BY <1>1, AtWork, StackIs DEF Inv
<1>3. Ret(name) \in Instructions(Len(blocks))
  BY <1>2, DoIs
<1>4. /\ stack' = Noted("return") /\ at' = at /\ entries' = entries
      /\ blocks' = Built(blocks, at, Ret(name))
  BY DEF parse_return
<1> QED
  BY <1>1, <1>3, <1>4, AllSee, SightNoted

(* A name is declared in the function or block on top of the stack. *)
LEMMA SightAssignment ==
  ASSUME Inv, Inv', Sight, Tame', NEW first, NEW assigns, parse_assignment(first, assigns)
  PROVE  Sight'
<1>1. InExpression /\ InStatement
  BY DEF parse_assignment, InExpression
<1>2. /\ Len(blocks) \in Nat /\ Sorts /\ count + 1 \in Statement /\ stack # <<>> /\ at # 0
      /\ Len(stack) \in Nat /\ Len(stack) \in 1 .. Len(stack)
  BY <1>1, AtWork, StackIs DEF Inv, Nesting
<1>3. Do(name) \in Instructions(Len(blocks))
  BY <1>2, DoIs
<1>4. /\ at' = at /\ entries' = entries /\ blocks' = Built(blocks, at, Do(name))
      /\ stack' = IF first THEN Declare(Noted("other"), at) ELSE Noted("other")
      /\ first /\ top.kind = "else" => "bare declaration" \in odd'
  BY DEF parse_assignment
<1>5. CASE ~first
  BY <1>1, <1>3, <1>4, <1>5, AllSee, SightNoted
<1>6. CASE first
  <2> DEFINE s == Noted("other")
             n == Len(blocks)
  <2>1. top.kind \in {"function", "block"}
    BY <1>1, <1>4, <1>6 DEF Tame, InStatement
  <2>2. Follows(stack, s, n, "other") /\ Follows(stack, stack', n, "other")
    BY <1>2, <1>4, <1>6, NotedIs, NotedAndDeclared
  <2>3. \A d \in 1 .. Len(stack) : Names(s[d]) = Names(stack[d])
    BY <1>2, NotedNames
  <2>4. s \in Seq(Activations(n)) /\ Len(s) = Len(stack)
    BY <2>2 DEF Follows
  <2>5. \A d \in 1 .. Len(s) : s[d].kind = stack[d].kind
    BY <2>2, <2>4 DEF Follows, Alike
  <2> HIDE DEF s, n
  <2>6. stack' = Declare(s, at) /\ n \in Nat
    BY <1>2, <1>4, <1>6 DEF s, n
  <2>7. ASSUME NEW d \in 1 .. Len(stack)
        PROVE  /\ d # Len(stack) => Names(stack'[d]) = Names(stack[d])
               /\ Names(stack'[d]) \subseteq Names(stack[d]) \cup {at}
    <3>1. /\ d # Len(stack) => Names(Declare(s, at)[d]) = Names(s[d])
          /\ Names(Declare(s, at)[d]) \subseteq Names(s[d]) \cup {at}
      BY <1>2, <2>1, <2>4, <2>5, <2>6, DeclaredNames
    <3> QED
      BY <2>3, <2>6, <3>1
  <2>8. /\ \A d \in 1 .. Len(stack) - 1 : d \in 1 .. Len(stack) /\ d # Len(stack)
    BY <1>2
  <2>9. /\ \A d \in 1 .. Len(stack) - 1 : Names(stack'[d]) = Names(stack[d])
        /\ Names(stack'[Len(stack)]) \subseteq Names(stack[Len(stack)]) \cup {at}
    BY <1>2, <2>7, <2>8
  <2>10. \E i \in Instructions(Len(blocks)) :
           blocks' = Built(blocks, at, i) /\ i.to = {} /\ i.sees = Visible
    BY <1>3, <1>4, AllSee
  <2>11. Follows(stack, stack', Len(blocks), "other")
    BY <2>2 DEF n
  <2> QED
    BY <1>1, <1>4, <2>9, <2>10, <2>11, NotInMatch, SightStraight
<1> QED
  BY <1>5, <1>6
-----------------------------------------------------------------------------
(* New blocks are appended, to which alone there are new branches. *)
LEMMA NewBuilds ==
  ASSUME Sorts, at \in Block, Len(blocks) <= Len(blocks'),
         NEW i \in Instructions(Len(blocks')), i.sees = Visible,
         \A c \in i.to : c > Len(blocks), blocks'[at] = Append(blocks[at], i),
         \A b \in Block : b # at => blocks'[b] = blocks[b],
         \A b \in Block' \ Block :
           \/ blocks'[b] = <<>>
           \/ \E j \in Instructions(Len(blocks')) :
                /\ blocks'[b] = Append(<<>>, j) /\ j.sees = Visible
                /\ \A c \in j.to : c > Len(blocks),
         NEW T
  PROVE  Builds(T)
<1>1. \A b \in Block : ~(b > Len(blocks))
  BY DEF Sorts, Block
<1>2. i.to \cap Block = {}
  BY <1>1
<1>3. \A b \in Block' \ Block :
       \/ blocks'[b] = <<>>
       \/ \E j \in Instructions(Len(blocks')) :
            /\ blocks'[b] = Append(<<>>, j)
            /\ j.sees = Visible /\ j.to \cap Block = {}
  BY <1>1
<1> QED
  BY <1>2, <1>3 DEF Builds

(* Activations are pushed that hold new blocks, and the builder stays or   *)
(* goes on in a new block.                                                 *)
LEMMA SightOpens ==
  ASSUME Inv, Inv', Sight, stack # <<>>, top.kind # "match", NEW last,
         Len(stack) <= Len(stack'),
         \A d \in 1 .. Len(stack) : /\ Alike(stack[d], stack'[d], last)
                                    /\ Names(stack'[d]) = Names(stack[d]),
         \A d \in Len(stack) + 1 .. Len(stack') :
            /\ Names(stack'[d]) = {}
            /\ \A b \in Held(stack'[d]) : b \notin Block /\ (b # at' => blocks'[b] = <<>>)
            /\ stack'[d].kind = "while" =>
                 /\ stack'[d].start \in Block' \ Block
                 /\ stack'[d].start # at' /\ ~Holds(stack', stack'[d].start)
            /\ stack'[d].kind = "match" =>
                 /\ d = Len(stack') /\ stack'[d].option = 0
                 /\ at' = stack'[d].start /\ stack'[d].next = stack'[d].end,
         Builds({}), entries' = entries, at' = at \/ at' \notin Block
  PROVE  Sight'
<1> DEFINE n == Len(stack)
           T == {}
<1>1. /\ Sorts /\ Sorts' /\ at \in Block /\ ~IsHeld(at) /\ n \in Nat /\ Len(stack') \in Nat
  BY AtEnd, StackIs DEF Inv, Sorts
<1>2. \A d \in 1 .. Len(stack') : d \in 1 .. n \/ d \in n + 1 .. Len(stack')
  BY <1>1
<1>3. \A d \in 1 .. n : /\ Held(stack'[d]) = Held(stack[d]) /\ stack'[d].kind = stack[d].kind
                        /\ stack'[d].kind = "while" => stack'[d] = stack[d]
  <2> SUFFICES ASSUME NEW d \in 1 .. n
               PROVE  /\ Held(stack'[d]) = Held(stack[d]) /\ stack'[d].kind = stack[d].kind
                      /\ stack'[d].kind = "while" => stack'[d] = stack[d]
    OBVIOUS
  <2>1. Alike(stack[d], stack'[d], last)
    OBVIOUS
  <2>2. Held(stack'[d]) = Held(stack[d]) /\ stack'[d].kind = stack[d].kind
    BY <2>1, AlikeKnow
  <2> QED
    BY <2>1, <2>2 DEF Alike
<1>4. Depths /\ Visible' = Visible
  BY <1>1, PushedBelow
<1>5. Stay(n)
  BY <1>1, <1>3 DEF Stay, IsHeld
<1>6. Pushed(n)
  BY <1>1 DEF Pushed
<1>7. Moves
  <2>1. \A b \in Block : Holds(stack', b) => Holds(stack, b)
    BY <1>2, <1>3 DEF Holds
  <2> QED
    BY <1>4, <2>1 DEF Moves
<1>8. Branchless'
  <2>1. \A d \in 1 .. n : stack[d].kind # "match"
    BY <1>1, NoMatch
  <2> QED
    BY <1>2, <1>3, <2>1 DEF Branchless
<1> HIDE DEF T
<1>9. \A b \in T \cap Block : b # at /\ Saw(blocks, b) \subseteq Visible
  BY DEF T
<1>10. Builds(T) /\ n \in 0 .. Len(stack) /\ n <= Len(stack')
  BY <1>1 DEF T
<1> HIDE DEF n
<1> QED
  BY <1>4, <1>5, <1>6, <1>7, <1>8, <1>9, <1>10, SightStep

(* The names after activations were pushed behind a noted statement. *)
LEMMA PushedNames ==
  ASSUME Sorts, stack # <<>>, NEW s, stack' = Noted("other") \o s, NEW A, s \in Seq(A),
         NEW d \in 1 .. Len(stack)
  PROVE  Names(stack'[d]) = Names(stack[d])
<1> DEFINE t == Noted("other")
           B == Activations(Len(blocks))
<1>1. Follows(stack, t, Len(blocks), "other")
  BY NotedIs
<1>2. t \in Seq(B) /\ Len(t) = Len(stack)
  BY <1>1 DEF Follows
<1>3. Names(t[d]) = Names(stack[d])
  BY NotedNames
<1> HIDE DEF t, B
<1>4. stack' = t \o s
  BY DEF t
<1>5. stack'[d] = t[d]
  BY <1>2, <1>4
<1> QED
  BY <1>3, <1>5
-----------------------------------------------------------------------------
(* The activation of a loop, of a conditional and of a match. *)
Loop(n) == [kind |-> "while", start |-> n + 1, end |-> n + 3, condition |-> name]

(* What entering a loop does. *)
LEMMA WhileDoes ==
  ASSUME Inv, parse_while
  PROVE  /\ stack # <<>> /\ ~Between /\ top.kind # "match" /\ Len(blocks) \in Nat /\ Sorts
         /\ at \in Block /\ at # 0 /\ Len(stack) \in Nat /\ name \in Statement
         /\ at' = Len(blocks) + 2 /\ entries' = entries
         /\ stack' \in Seq(Activations(Len(blocks) + 3))
         /\ Len(stack') = Len(stack) + 2
         /\ stack'[Len(stack) + 1] = Loop(Len(blocks))
         /\ stack'[Len(stack) + 2] = Frame("block")
         /\ \A d \in 1 .. Len(stack) : Alike(stack[d], stack'[d], "other")
         /\ \A d \in 1 .. Len(stack) : Names(stack'[d]) = Names(stack[d])
         /\ Loop(Len(blocks)).kind = "while" /\ Loop(Len(blocks)).start = Len(blocks) + 1
         /\ Held(Loop(Len(blocks))) = {Len(blocks) + 3}
         /\ Known(Loop(Len(blocks))) = {Len(blocks) + 1, Len(blocks) + 3}
         /\ Br(Len(blocks) + 1) \in Instructions(Len(blocks) + 3)
         /\ CondBr(name, Len(blocks) + 2, Len(blocks) + 3) \in Instructions(Len(blocks) + 3)
         /\ blocks' \in Seq(Seq(Instructions(Len(blocks) + 3)))
         /\ Len(blocks') = Len(blocks) + 3
         /\ blocks'[at] = Append(blocks[at], Br(Len(blocks) + 1))
         /\ blocks'[Len(blocks) + 1] =
              Append(<<>>, CondBr(name, Len(blocks) + 2, Len(blocks) + 3))
         /\ \A b \in Block : b # at => blocks'[b] = blocks[b]
         /\ \A b \in Len(blocks) + 2 .. Len(blocks) + 3 : blocks'[b] = <<>>
<1> DEFINE n == Len(blocks)
           m == n + 3
           f == Loop(n)
           g == Frame("block")
           i == Br(n + 1)
           j == CondBr(name, n + 2, n + 3)
<1>1. InExpression /\ InStatement
  BY DEF parse_while, InExpression
<1>2. /\ stack # <<>> /\ ~Between /\ top.kind # "match" /\ n \in Nat /\ Sorts
      /\ at \in Block /\ at # 0 /\ Len(stack) \in Nat /\ name \in Statement
  BY <1>1, AtWork, StackIs DEF Inv, Nesting, name
<1>3. Follows(stack, Noted("other"), n, "other")
  BY <1>2, NotedIs
<1>4. /\ m \in Nat /\ n <= m /\ n + 1 \in 1 .. m /\ n + 2 \in 1 .. m /\ n + 3 \in 1 .. m
  BY <1>2
<1>5. g \in Activations(m) /\ g.kind = "block"
  BY <1>4, FrameIs
<1>6. /\ f \in Activations(m) /\ f.kind = "while" /\ f.start = n + 1
      /\ Held(f) = {n + 3} /\ Known(f) = {n + 1, n + 3}
  <2>1. f \in Whiles(m)
    BY <1>2, <1>4 DEF Whiles, Loop
  <2>2. f.kind = "while" /\ f.start = n + 1 /\ f.end = n + 3
    BY DEF Loop
  <2> HIDE DEF f
  <2> QED
    BY <2>1, <2>2 DEF Activations, Held, Known
<1>7. i \in Instructions(m)
  BY <1>2, <1>4, BranchIs
<1>8. j \in Instructions(m)
  BY <1>2, <1>4, BranchIs
<1>9. /\ at' = n + 2 /\ entries' = entries
      /\ stack' = Noted("other") \o <<f, g>>
      /\ blocks' = Built(Built(Appended(3), at, i), n + 1, j)
  BY DEF parse_while, Loop
<1> HIDE DEF f, g, i, j
<1>10. /\ blocks' \in Seq(Seq(Instructions(m)))
       /\ Len(blocks') = m /\ blocks'[at] = Append(blocks[at], i)
       /\ blocks'[n + 1] = Append(<<>>, j)
       /\ \A b \in Block : b # at => blocks'[b] = blocks[b]
       /\ \A b \in n + 2 .. m : blocks'[b] = <<>>
  <2> DEFINE k == 3
  <2>1. k \in Nat /\ k # 0 /\ m = n + k
    OBVIOUS
  <2>2. blocks' = Built(Built(Appended(k), at, i), n + 1, j)
    BY <1>9
  <2> HIDE DEF k, m
  <2>3. i \in Instructions(n + k) /\ j \in Instructions(n + k)
    BY <1>7, <1>8, <2>1
  <2> QED
    BY <1>2, <2>1, <2>2, <2>3, BuiltTwice
<1>11. /\ stack' \in Seq(Activations(m)) /\ Len(stack') = Len(stack) + 2
       /\ stack'[Len(stack) + 1] = f /\ stack'[Len(stack) + 2] = g
       /\ \A d \in 1 .. Len(stack) : Alike(stack[d], stack'[d], "other")
  <2> DEFINE s == Noted("other")
  <2>1. Follows(stack, s, n, "other") /\ stack' = s \o <<f, g>>
    BY <1>3, <1>9
  <2> HIDE DEF s, m
  <2> QED
    BY <1>2, <1>4, <1>5, <1>6, <2>1, PushedTwo
<1>12. \A d \in 1 .. Len(stack) : Names(stack'[d]) = Names(stack[d])
  <2> DEFINE A == Activations(m)
             s == <<f, g>>
  <2>1. s \in Seq(A)
    <3> HIDE DEF A, m
    <3> QED
      BY <1>5, <1>6 DEF A
  <2>2. stack' = Noted("other") \o s
    BY <1>9
  <2> HIDE DEF A, s
  <2> QED
    BY <1>2, <2>1, <2>2, PushedNames
<1> QED
  BY <1>2, <1>6, <1>7, <1>8, <1>9, <1>10, <1>11, <1>12 DEF f, g, i, j

(* A loop holds its end; its start saw what is visible where it begins. *)
LEMMA SightWhile == ASSUME Inv, Inv', Sight, parse_while PROVE Sight'
<1> DEFINE n == Len(blocks)
           l == Len(stack)
           f == Loop(n)
           g == Frame("block")
<1>1. /\ stack # <<>> /\ top.kind # "match" /\ n \in Nat /\ Sorts /\ at \in Block
      /\ l \in Nat /\ at' = n + 2 /\ entries' = entries
      /\ Len(stack') = l + 2 /\ stack'[l + 1] = f /\ stack'[l + 2] = g
      /\ \A d \in 1 .. l : Alike(stack[d], stack'[d], "other")
      /\ \A d \in 1 .. l : Names(stack'[d]) = Names(stack[d])
      /\ f.kind = "while" /\ f.start = n + 1 /\ Held(f) = {n + 3}
  BY WhileDoes
<1>2. /\ Len(blocks') = n + 3
      /\ Br(n + 1) \in Instructions(n + 3)
      /\ CondBr(name, n + 2, n + 3) \in Instructions(n + 3)
      /\ blocks'[at] = Append(blocks[at], Br(n + 1))
      /\ blocks'[n + 1] = Append(<<>>, CondBr(name, n + 2, n + 3))
      /\ \A b \in Block : b # at => blocks'[b] = blocks[b]
      /\ \A b \in n + 2 .. n + 3 : blocks'[b] = <<>>
  BY WhileDoes
<1> HIDE DEF f
<1>3. g.kind = "block" /\ Held(g) = {} /\ Names(g) = {}
  BY DEF Frame, Held, Names
<1> HIDE DEF g
<1>4. Names(f) = {}
  BY <1>1 DEF Names
<1>5. Block = 1 .. n /\ Block' = 1 .. n + 3
  BY <1>2 DEF Block
<1>6. \A b \in Block' \ Block : b = n + 1 \/ b \in n + 2 .. n + 3
  BY <1>1, <1>5
<1>7. Builds({})
  <2> DEFINE i == Br(n + 1)
             j == CondBr(name, n + 2, n + 3)
             T == {}
  <2>1. i.sees = Visible /\ \A c \in i.to : c > n
    BY <1>1 DEF Br, Instruction
  <2>2. j.sees = Visible /\ \A c \in j.to : c > n
    BY <1>1 DEF CondBr, Instruction
  <2>3. i \in Instructions(Len(blocks')) /\ j \in Instructions(Len(blocks'))
    BY <1>2
  <2>4. Len(blocks) <= Len(blocks')
    BY <1>1, <1>2
  <2>5. blocks'[at] = Append(blocks[at], i) /\ blocks'[n + 1] = Append(<<>>, j)
    BY <1>2
  <2> HIDE DEF i, j, T
  <2>6. \A b \in Block' \ Block :
           \/ blocks'[b] = <<>>
           \/ \E x \in Instructions(Len(blocks')) :
                /\ blocks'[b] = Append(<<>>, x) /\ x.sees = Visible
                /\ \A c \in x.to : c > n
    BY <1>2, <1>6, <2>2, <2>3, <2>5
  <2>7. Builds(T)
    BY <1>1, <1>2, <2>1, <2>3, <2>4, <2>5, <2>6, NewBuilds
  <2> QED
    BY <2>7 DEF T
<1>8. ASSUME NEW d \in 1 .. Len(stack') PROVE n + 1 \notin Held(stack'[d])
  <2>1. CASE d \in 1 .. l
    <3>1. Held(stack'[d]) = Held(stack[d])
      BY <1>1, <2>1, AlikeKnow
    <3>2. Held(stack[d]) \subseteq 1 .. n
      BY <1>1, <2>1, StackIs, ActivationIs
    <3> QED
      BY <1>1, <3>1, <3>2
  <2>2. CASE d \notin 1 .. l
    <3>1. d = l + 1 \/ d = l + 2
      BY <1>1, <2>2
    <3> QED
      BY <1>1, <1>3, <3>1
  <2> QED
    BY <2>1, <2>2
<1>9. ~Holds(stack', n + 1)
  BY <1>8 DEF Holds
<1>10. \A d \in l + 1 .. Len(stack') :
            /\ Names(stack'[d]) = {}
            /\ \A b \in Held(stack'[d]) : b \notin Block /\ (b # at' => blocks'[b] = <<>>)
            /\ stack'[d].kind = "while" =>
                 /\ stack'[d].start \in Block' \ Block
                 /\ stack'[d].start # at' /\ ~Holds(stack', stack'[d].start)
            /\ stack'[d].kind = "match" =>
                 /\ d = Len(stack') /\ stack'[d].option = 0
                 /\ at' = stack'[d].start /\ stack'[d].next = stack'[d].end
  <2> SUFFICES ASSUME NEW d \in l + 1 .. Len(stack')
               PROVE  /\ Names(stack'[d]) = {}
                      /\ \A b \in Held(stack'[d]) : b \notin Block /\ (b # at' => blocks'[b] = <<>>)
                      /\ stack'[d].kind = "while" =>
                           /\ stack'[d].start \in Block' \ Block
                           /\ stack'[d].start # at' /\ ~Holds(stack', stack'[d].start)
                      /\ stack'[d].kind # "match"
    OBVIOUS
  <2>1. CASE d = l + 1
    <3>1. n + 3 \notin Block /\ blocks'[n + 3] = <<>> /\ n + 1 \in Block' \ Block /\ n + 1 # at'
      BY <1>1, <1>2, <1>5
    <3> QED
      BY <1>1, <1>4, <1>9, <2>1, <3>1
  <2>2. CASE d = l + 2
    BY <1>1, <1>3, <2>2
  <2> QED
    BY <1>1, <2>1, <2>2
<1>11. at' \notin Block /\ Len(stack) <= Len(stack')
  BY <1>1, <1>5
<1> QED
  BY <1>1, <1>7, <1>10, <1>11, SightOpens
-----------------------------------------------------------------------------
(* A nested block has names of its own, and no blocks. *)
LEMMA SightBlock == ASSUME Inv, Inv', Sight, parse_block PROVE Sight'
<1> DEFINE n == Len(blocks)
           l == Len(stack)
           g == Frame("block")
<1>1. InExpression /\ InStatement
  BY DEF parse_block, InExpression
<1>2. /\ stack # <<>> /\ top.kind # "match" /\ n \in Nat /\ Sorts /\ at \in Block /\ l \in Nat
  BY <1>1, AtWork, StackIs DEF Inv
<1>3. /\ at' = at /\ entries' = entries /\ blocks' = blocks /\ stack' = Noted("other") \o <<g>>
  BY DEF parse_block, code
<1>4. g \in Activations(n) /\ g.kind = "block" /\ Held(g) = {}
  BY <1>2, FrameIs
<1>5. Names(g) = {}
  BY DEF Names, Frame
<1> HIDE DEF g
<1>6. /\ Len(stack') = l + 1 /\ stack'[l + 1] = g
      /\ \A d \in 1 .. l : Alike(stack[d], stack'[d], "other")
  <2> DEFINE s == Noted("other")
  <2>1. Follows(stack, s, n, "other") /\ stack' = s \o <<g>> /\ n <= n
    BY <1>2, <1>3, NotedIs
  <2> HIDE DEF s
  <2> QED
    BY <1>2, <1>4, <2>1, PushedOne
<1>7. \A d \in 1 .. l : Names(stack'[d]) = Names(stack[d])
  <2> DEFINE A == Activations(n)
             s == <<g>>
  <2>1. s \in Seq(A)
    <3> HIDE DEF A
    <3> QED
      BY <1>4 DEF A
  <2>2. stack' = Noted("other") \o s
    BY <1>3
  <2> HIDE DEF A, s
  <2> QED
    BY <1>2, <2>1, <2>2, PushedNames
<1>8. Builds({})
  <2> DEFINE T == {}
  <2> HIDE DEF T
  <2>1. Builds(T)
    BY <1>2, <1>3, OneBuilds
  <2> QED
    BY <2>1 DEF T
<1>9. \A d \in l + 1 .. Len(stack') : stack'[d] = g
  BY <1>2, <1>6
<1>10. Len(stack) <= Len(stack')
  BY <1>2, <1>6
<1> QED
  BY <1>2, <1>3, <1>4, <1>5, <1>6, <1>7, <1>8, <1>9, <1>10, SightOpens

(* The activation of a conditional. *)
Conditional(n, with_else) ==
  [kind |-> "then", else_ |-> IF with_else THEN n + 2 ELSE 0,
   end |-> IF with_else THEN n + 3 ELSE n + 2, condition |-> name]
New(with_else) == IF with_else THEN 3 ELSE 2

(* What entering a conditional does. *)
LEMMA IfDoes ==
  ASSUME Inv, NEW with_else \in BOOLEAN, parse_if(with_else),
         NEW n, n = Len(blocks), NEW k, k = New(with_else), NEW f, f = Conditional(n, with_else)
  PROVE  /\ stack # <<>> /\ ~Between /\ top.kind # "match" /\ n \in Nat /\ Sorts
         /\ at \in Block /\ at # 0 /\ Len(stack) \in Nat /\ name \in Statement
         /\ at' = n + 1 /\ entries' = entries /\ k \in Nat /\ k >= 2
         /\ stack' \in Seq(Activations(n + k))
         /\ Len(stack') = Len(stack) + 2
         /\ stack'[Len(stack) + 1] = f /\ stack'[Len(stack) + 2] = Frame("block")
         /\ \A d \in 1 .. Len(stack) : Alike(stack[d], stack'[d], "other")
         /\ \A d \in 1 .. Len(stack) : Names(stack'[d]) = Names(stack[d])
         /\ f.kind = "then" /\ f.else_ # f.end /\ f.end = n + k /\ f.else_ \in {0, n + 2}
         /\ f.else_ # 0 <=> k = 3
         /\ Held(f) = {f.else_, f.end} \ {0} /\ Known(f) = {f.else_, f.end} \ {0}
         /\ CondBr(name, n + 1, n + 2) \in Instructions(n + k)
         /\ blocks' \in Seq(Seq(Instructions(n + k)))
         /\ Len(blocks') = n + k
         /\ blocks'[at] = Append(blocks[at], CondBr(name, n + 1, n + 2))
         /\ \A b \in Block : b # at => blocks'[b] = blocks[b]
         /\ \A b \in n + 1 .. n + k : blocks'[b] = <<>>
<1> DEFINE m == n + k
           else_ == IF with_else THEN n + 2 ELSE 0
           g == Frame("block")
           i == CondBr(name, n + 1, n + 2)
<1>1. InExpression /\ InStatement
  BY DEF parse_if, InExpression
<1>2. /\ stack # <<>> /\ ~Between /\ top.kind # "match" /\ n \in Nat /\ Sorts
      /\ at \in Block /\ at # 0 /\ Len(stack) \in Nat /\ name \in Statement
  BY <1>1, AtWork, StackIs DEF Inv, Nesting, name
<1>3. Follows(stack, Noted("other"), n, "other")
  BY <1>2, NotedIs
<1>4. /\ m \in Nat /\ n <= m /\ n + 1 \in 1 .. m /\ n + 2 \in 1 .. m /\ k \in Nat /\ k >= 2
      /\ else_ \in (1 .. m) \cup {0} /\ else_ # m /\ else_ \in {0, n + 2}
      /\ else_ # 0 <=> k = 3
  BY <1>2 DEF New
<1>5. g \in Activations(m) /\ g.kind = "block"
  BY <1>4, FrameIs
<1>6. at' = n + 1 /\ entries' = entries
  BY DEF parse_if
<1>7. stack' = Noted("other") \o <<f, g>> /\ blocks' = Built(Appended(k), at, i)
  <2>1. CASE with_else
    <3>1. blocks' = Built(Appended(n + 3 - n), at, CondBr(name, n + 1, n + 2))
      BY <2>1 DEF parse_if
    <3>2. n + 3 - n = k
      BY <1>2, <2>1 DEF New
    <3>3. stack' = Noted("other") \o <<f, g>>
      BY <2>1 DEF parse_if, Conditional
    <3> QED
      BY <3>1, <3>2, <3>3
  <2>2. CASE ~with_else
    <3>1. blocks' = Built(Appended(n + 2 - n), at, CondBr(name, n + 1, n + 2))
      BY <2>2 DEF parse_if
    <3>2. n + 2 - n = k
      BY <1>2, <2>2 DEF New
    <3>3. stack' = Noted("other") \o <<f, g>>
      BY <2>2 DEF parse_if, Conditional
    <3> QED
      BY <3>1, <3>2, <3>3
  <2> QED
    BY <2>1, <2>2
<1>8. f = [kind |-> "then", else_ |-> else_, end |-> m, condition |-> name]
  BY DEF Conditional, New
<1> HIDE DEF else_
<1>9. /\ f \in Activations(m) /\ f.kind = "then" /\ f.else_ # f.end
      /\ f.end = m /\ f.else_ = else_
      /\ Held(f) = {f.else_, f.end} \ {0} /\ Known(f) = {f.else_, f.end} \ {0}
  <2>1. f \in Thens(m)
    <3>1. m \in 1 .. m
      BY <1>4
    <3> HIDE DEF m
    <3> QED
      BY <1>2, <1>4, <1>8, <3>1 DEF Thens
  <2>2. f.kind = "then" /\ f.else_ = else_ /\ f.end = m
    BY <1>8
  <2> HIDE DEF m
  <2> QED
    BY <1>4, <2>1, <2>2 DEF Activations, Held, Known
<1>10. i \in Instructions(m)
  BY <1>2, <1>4, BranchIs
<1> HIDE DEF i
<1>11. /\ blocks' \in Seq(Seq(Instructions(m)))
       /\ Len(blocks') = m /\ blocks'[at] = Append(blocks[at], i)
       /\ \A b \in Block : b # at => blocks'[b] = blocks[b]
       /\ \A b \in n + 1 .. m : blocks'[b] = <<>>
  <2>1. blocks' \in Seq(Seq(Instructions(m)))
    BY <1>2, <1>4, <1>7, <1>10, BuiltAndAppended
  <2>2. Len(blocks') = m
    BY <1>2, <1>4, <1>7, <1>10, BuiltAndAppended
  <2>3. blocks'[at] = Append(blocks[at], i)
    BY <1>2, <1>4, <1>7, <1>10, BuiltAndAppended
  <2>4. ASSUME NEW b \in Block, b # at PROVE blocks'[b] = blocks[b]
    <3>1. Built(Appended(k), at, i)[b] = blocks[b]
      BY <1>2, <1>4, <1>10, <2>4, BuiltAndAppended
    <3> QED
      BY <1>7, <3>1
  <2>5. \A b \in n + 1 .. m : blocks'[b] = <<>>
    BY <1>2, <1>4, <1>7, <1>10, BuiltAndAppended
  <2> QED
    BY <2>1, <2>2, <2>3, <2>4, <2>5
<1> HIDE DEF g
<1>12. /\ stack' \in Seq(Activations(m)) /\ Len(stack') = Len(stack) + 2
       /\ stack'[Len(stack) + 1] = f /\ stack'[Len(stack) + 2] = g
       /\ \A d \in 1 .. Len(stack) : Alike(stack[d], stack'[d], "other")
  <2> DEFINE s == Noted("other")
  <2>1. /\ Follows(stack, s, Len(blocks), "other") /\ stack' = s \o <<f, g>>
        /\ Len(blocks) <= m
    BY <1>3, <1>4, <1>7
  <2>2. m \in Nat /\ f \in Activations(m) /\ g \in Activations(m) /\ Sorts
    BY <1>2, <1>4, <1>5, <1>9
  <2> HIDE DEF s, m
  <2>3. stack' \in Seq(Activations(m)) /\ Len(stack') = Len(stack) + 2
    BY <2>1, <2>2, PushedTwo
  <2>4. stack'[Len(stack) + 1] = f /\ stack'[Len(stack) + 2] = g
    BY <2>1, <2>2, PushedTwo
  <2>5. \A d \in 1 .. Len(stack) : Alike(stack[d], stack'[d], "other")
    BY <2>1, <2>2, PushedTwo
  <2> QED
    BY <2>3, <2>4, <2>5
<1>13. \A d \in 1 .. Len(stack) : Names(stack'[d]) = Names(stack[d])
  <2> DEFINE A == Activations(m)
             s == <<f, g>>
  <2>1. s \in Seq(A)
    <3> HIDE DEF A, m
    <3> QED
      BY <1>5, <1>9 DEF A
  <2>2. stack' = Noted("other") \o s
    BY <1>7
  <2> HIDE DEF A, s
  <2> QED
    BY <1>2, <2>1, <2>2, PushedNames
<1> QED
  BY <1>2, <1>4, <1>6, <1>9, <1>10, <1>11, <1>12, <1>13 DEF i, g

(* A conditional holds its branch for else, if any, and its end. *)
LEMMA SightIf ==
  ASSUME Inv, Inv', Sight, NEW with_else \in BOOLEAN, parse_if(with_else) PROVE Sight'
<1>1. PICK n : n = Len(blocks)
  OBVIOUS
<1>2. PICK k : k = New(with_else)
  OBVIOUS
<1>3. PICK f : f = Conditional(n, with_else)
  OBVIOUS
<1> DEFINE l == Len(stack)
           g == Frame("block")
           i == CondBr(name, n + 1, n + 2)
<1>4. /\ stack # <<>> /\ top.kind # "match" /\ n \in Nat /\ Sorts /\ at \in Block
      /\ l \in Nat /\ at' = n + 1 /\ entries' = entries /\ k \in Nat /\ k >= 2
      /\ Len(stack') = l + 2 /\ stack'[l + 1] = f /\ stack'[l + 2] = g
      /\ \A d \in 1 .. l : Alike(stack[d], stack'[d], "other")
      /\ \A d \in 1 .. l : Names(stack'[d]) = Names(stack[d])
      /\ f.kind = "then" /\ f.end = n + k /\ f.else_ \in {0, n + 2}
      /\ Held(f) = {f.else_, f.end} \ {0}
  BY <1>1, <1>2, <1>3, IfDoes
<1>5. /\ i \in Instructions(n + k) /\ Len(blocks') = n + k
      /\ blocks'[at] = Append(blocks[at], i)
      /\ \A b \in Block : b # at => blocks'[b] = blocks[b]
      /\ \A b \in n + 1 .. n + k : blocks'[b] = <<>>
  <2>1. i \in Instructions(n + k) /\ Len(blocks') = n + k
    BY <1>1, <1>2, <1>3, IfDoes
  <2>2. blocks'[at] = Append(blocks[at], i)
    BY <1>1, <1>2, <1>3, IfDoes
  <2>3. \A b \in Block : b # at => blocks'[b] = blocks[b]
    BY <1>1, <1>2, <1>3, IfDoes
  <2>4. \A b \in n + 1 .. n + k : blocks'[b] = <<>>
    BY <1>1, <1>2, <1>3, IfDoes
  <2> QED
    BY <2>1, <2>2, <2>3, <2>4
<1>6. g.kind = "block" /\ Held(g) = {} /\ Names(g) = {}
  BY DEF Frame, Held, Names
<1>7. i.sees = Visible /\ \A c \in i.to : c > n
  BY <1>4 DEF CondBr, Instruction
<1> HIDE DEF g, i
<1>8. Names(f) = {}
  BY <1>4 DEF Names
<1>9. Block = 1 .. n /\ Block' = 1 .. n + k
  BY <1>1, <1>5 DEF Block
<1>10. Builds({})
  <2> DEFINE T == {}
  <2>1. i \in Instructions(Len(blocks')) /\ Len(blocks) <= Len(blocks')
    BY <1>1, <1>4, <1>5
  <2>2. \A b \in Block' \ Block : blocks'[b] = <<>>
    BY <1>4, <1>5, <1>9
  <2>3. \A c \in i.to : c > Len(blocks)
    BY <1>1, <1>7
  <2> HIDE DEF T
  <2>4. Builds(T)
    BY <1>4, <1>5, <1>7, <2>1, <2>2, <2>3, NewBuilds
  <2> QED
    BY <2>4 DEF T
<1>11. \A b \in Held(f) : b \notin Block /\ blocks'[b] = <<>>
  BY <1>4, <1>5, <1>9
<1>12. \A d \in l + 1 .. Len(stack') : stack'[d] = f \/ stack'[d] = g
  <2>1. \A d \in l + 1 .. Len(stack') : d = l + 1 \/ d = l + 2
    BY <1>4
  <2> QED
    BY <1>4, <2>1
<1>13. at' \notin Block /\ Len(stack) <= Len(stack')
  BY <1>4, <1>9
<1> QED
  BY <1>4, <1>6, <1>8, <1>10, <1>11, <1>12, <1>13, SightOpens
-----------------------------------------------------------------------------
(* An activation ends, or is replaced by one that holds less. *)
LEMMA SightCloses ==
  ASSUME Inv, Inv', Sight, stack # <<>>, NEW T, Builds(T),
         \A b \in T \cap Block : b # at /\ Saw(blocks, b) \subseteq Visible,
         entries' = entries, at' = at \/ at' \in Held(top),
         Len(stack') \in {Len(stack) - 1, Len(stack)},
         \A d \in 1 .. Len(stack) - 1 : stack'[d] = stack[d],
         \A d \in 1 .. Len(stack') : d = Len(stack) =>
           /\ Names(stack'[d]) = {}
           /\ Held(stack'[d]) \subseteq Held(top) \ {at}
           /\ stack'[d].kind \notin {"while", "match"}
  PROVE  Sight'
<1> DEFINE n == Len(stack)
           m == n - 1
<1>1. /\ Sorts /\ Sorts' /\ at \in Block /\ n \in Nat /\ Len(stack') \in Nat /\ n >= 1
      /\ top = stack[n] /\ n \in 1 .. n
  BY StackIs DEF Inv, Sorts
<1>2. /\ m \in 0 .. n /\ m <= Len(stack') /\ m + 1 = n
      /\ \A d \in 1 .. m : d \in 1 .. n /\ d # n /\ stack'[d] = stack[d]
      /\ \A d \in m + 1 .. Len(stack') : d = n /\ d \in 1 .. Len(stack')
      /\ \A d \in 1 .. Len(stack') : d \in 1 .. m \/ d = n
  BY <1>1
<1>3. Depths /\ Visible' = Below(stack, Len(stack)) /\ Visible' \subseteq Visible
  <2>1. \A d \in 1 .. Len(stack) - 1 : Names(stack'[d]) = Names(stack[d])
    OBVIOUS
  <2> QED
    BY <1>1, <2>1, PoppedBelow
<1>4. \A d \in 1 .. n : d # n => at \notin Held(stack[d])
  BY Zenon DEF Inv, Apart
<1>5. Stay(m)
  BY <1>2, <1>4 DEF Stay
<1>6. \A b \in Held(top) : b # at => b \in Block /\ blocks'[b] = <<>>
  <2>1. \A b \in Held(top) : b \in Block
    BY <1>1, StackIs, ActivationIs DEF Block
  <2>2. \A b \in Held(top) : b # at => blocks[b] = <<>>
    BY <1>1, Zenon DEF Sight, Ahead
  <2> QED
    BY <2>1, <2>2 DEF Builds
<1>7. Pushed(m)
  BY <1>2, <1>6 DEF Pushed
<1>8. Moves
  <2>1. \A b \in Block : Holds(stack', b) => Holds(stack, b)
    <3> SUFFICES ASSUME NEW b, Holds(stack', b) PROVE Holds(stack, b)
      OBVIOUS
    <3>1. PICK d \in 1 .. Len(stack') : b \in Held(stack'[d])
      BY Zenon DEF Holds
    <3>2. CASE d \in 1 .. m
      BY <1>2, <3>1, <3>2 DEF Holds
    <3>3. CASE d = n
      <4>1. b \in Held(stack[n])
        BY <1>1, <3>1, <3>3
      <4> QED
        BY <1>1, <4>1 DEF Holds
    <3> QED
      BY <1>2, <3>2, <3>3
  <2>2. at' = at \/ (at' \in Held(top) /\ Visible' \subseteq Below(stack, Len(stack)))
    BY <1>3
  <2> QED
    BY <1>3, <2>1, <2>2, Zenon DEF Moves
<1>9. Branchless'
  <2>1. \A d \in 1 .. n : d # n => stack[d].kind # "match"
    BY Zenon DEF Sight, Branchless
  <2>2. \A d \in 1 .. Len(stack') : stack'[d].kind # "match"
    BY <1>2, <2>1, Zenon
  <2> QED
    BY <2>2 DEF Branchless
<1>10. m \in 0 .. Len(stack)
  BY <1>2
<1> HIDE DEF m
<1> QED
  BY <1>2, <1>3, <1>5, <1>7, <1>8, <1>9, <1>10, SightStep

(* What is left when the top is popped. *)
LEMMA PopIs ==
  ASSUME Inv, stack # <<>>
  PROVE  Len(Pop) = Len(stack) - 1 /\ \A d \in 1 .. Len(stack) - 1 : Pop[d] = stack[d]
<1> DEFINE A == Activations(Len(blocks))
           n == Len(stack)
<1>1. /\ stack \in Seq(A) /\ n \in Nat /\ n >= 1 /\ n = Len(stack)
      /\ Pop = SubSeq(stack, 1, n - 1)
  BY StackIs DEF Inv, Sorts, Pop
<1> HIDE DEF A, n
<1>2. Len(Pop) = n - 1 /\ \A d \in 1 .. n - 1 : Pop[d] = stack[d]
  BY <1>1
<1> QED
  BY <1>2 DEF n

(* The top is popped, and the builder goes on where it is or in what it    *)
(* held.                                                                   *)
LEMMA SightPops ==
  ASSUME Inv, Inv', Sight, stack # <<>>, NEW T, Builds(T),
         \A b \in T \cap Block : b # at /\ Saw(blocks, b) \subseteq Visible,
         entries' = entries, at' = at \/ at' \in Held(top), stack' = Pop
  PROVE  Sight'
<1>1. /\ Len(stack') = Len(stack) - 1
      /\ \A d \in 1 .. Len(stack) - 1 : stack'[d] = stack[d]
  BY PopIs
<1>2. \A d \in 1 .. Len(stack') : d # Len(stack)
  <2>1. Len(stack) \in Nat
    BY StackIs
  <2> QED
    BY <1>1, <2>1
<1> QED
  BY <1>1, <1>2, SightCloses

(* The names of a nested block end with it. *)
LEMMA SightBlockEnd == ASSUME Inv, Inv', Sight, block_ends PROVE Sight'
<1> DEFINE T == {}
<1>1. stack # <<>> /\ stack' = Pop /\ at' = at /\ entries' = entries /\ blocks' = blocks
  BY DEF block_ends, code
<1>2. \A b \in T \cap Block : b # at /\ Saw(blocks, b) \subseteq Visible
  OBVIOUS
<1> HIDE DEF T
<1>3. Builds(T)
  <2>1. Sorts /\ at \in Block
    BY <1>1, StackIs DEF Inv
  <2> QED
    BY <1>1, <2>1, OneBuilds
<1> QED
  BY <1>1, <1>2, <1>3, SightPops

(* A branch is built to e, which has seen no more than is visible. *)
LEMMA BranchBuilds ==
  ASSUME Inv, stack # <<>>, NEW e \in Block,
         blocks' = blocks \/ blocks' = Built(blocks, at, Br(e))
  PROVE  Builds({e})
<1> DEFINE n == Len(blocks)
           i == Br(e)
           T == {e}
<1>1. Sorts /\ at \in Block /\ n \in Nat /\ n <= n /\ e \in 1 .. n
  BY StackIs DEF Inv, Block
<1>2. i \in Instructions(n) /\ i.to = {e}
  <2>1. Statement \cup {Begin} # {}
    OBVIOUS
  <2> QED
    BY <1>1, <2>1, BranchIs
<1>3. i.sees = Visible
  BY AllSee
<1>4. i.to \cap Block \subseteq T
  BY <1>2
<1> HIDE DEF i, T
<1>5. blocks' = blocks \/ blocks' = Built(blocks, at, i)
  BY DEF i
<1>6. Builds(T)
  BY <1>1, <1>2, <1>3, <1>4, <1>5, OneBuilds
<1> QED
  BY <1>6 DEF T

(* A body ends with a branch back to the start, which saw only what is     *)
(* below.                                                                  *)
LEMMA SightWhileEnd == ASSUME Inv, Inv', Sight, while_ends PROVE Sight'
<1> DEFINE s == top.start
           T == {s}
<1>1. /\ stack # <<>> /\ top.kind = "while" /\ stack' = Pop /\ at' = top.end
      /\ entries' = entries /\ blocks' = Built(blocks, at, Br(s))
  BY DEF while_ends
<1>2. /\ top = stack[Len(stack)] /\ Len(stack) \in 1 .. Len(stack) /\ Sorts
      /\ s \in Block
  <2>1. s \in Known(top)
    BY <1>1 DEF Known
  <2> QED
    BY <1>1, <2>1, StackIs, AtEnd
<1>3. s # at /\ Saw(blocks, s) \subseteq Visible
  <2>1. s # at /\ Saw(blocks, s) \subseteq Below(stack, Len(stack))
    BY <1>1, <1>2 DEF Sight, Back
  <2>2. Below(stack, Len(stack)) \subseteq Visible
    BY <1>2, BelowIs
  <2> QED
    BY <2>1, <2>2
<1>4. at' \in Held(top)
  BY <1>1 DEF Held
<1> HIDE DEF s
<1>5. Builds(T)
  BY <1>1, <1>2, BranchBuilds
<1>6. \A b \in T \cap Block : b # at /\ Saw(blocks, b) \subseteq Visible
  BY <1>3
<1> HIDE DEF T
<1> QED
  BY <1>1, <1>4, <1>5, <1>6, SightPops

(* A held block has seen nothing yet. *)
LEMMA HeldSawNone ==
  ASSUME Inv, Sight, stack # <<>>, NEW b \in Held(top), b # at
  PROVE  b \in Block /\ Saw(blocks, b) = {}
<1>1. top = stack[Len(stack)] /\ Len(stack) \in 1 .. Len(stack) /\ b \in Block
  BY StackIs, ActivationIs DEF Block
<1>2. blocks[b] = <<>>
  BY <1>1 DEF Sight, Ahead
<1>3. Len(blocks[b]) = 0
  BY <1>2
<1> QED
  BY <1>1, <1>3 DEF Saw

(* The branch for else ends with a branch to the end. *)
LEMMA SightElseEnd == ASSUME Inv, Inv', Sight, else_ends PROVE Sight'
<1> DEFINE e == top.end
           T == {e}
<1>1. /\ stack # <<>> /\ top.kind = "else" /\ stack' = Pop
      /\ at' = e /\ entries' = entries
      /\ blocks' = blocks \/ blocks' = Built(blocks, at, Br(e))
  BY DEF else_ends
<1>2. e \in Held(top) /\ e # at
  <2>1. e \in Held(top)
    BY <1>1 DEF Held
  <2> QED
    BY <1>1, <2>1, AtEnd
<1> HIDE DEF e
<1>3. e \in Block /\ Saw(blocks, e) = {}
  BY <1>1, <1>2, HeldSawNone
<1>4. Builds(T)
  BY <1>1, <1>3, BranchBuilds
<1>5. \A b \in T \cap Block : b # at /\ Saw(blocks, b) \subseteq Visible
  BY <1>2, <1>3
<1> HIDE DEF T
<1> QED
  BY <1>1, <1>2, <1>4, <1>5, SightPops
-----------------------------------------------------------------------------
(* A branch ends with a branch to the end; the one for else follows, if    *)
(* any.                                                                    *)
LEMMA SightThenEnd == ASSUME Inv, Inv', Sight, then_ends PROVE Sight'
<1> DEFINE e == top.end
           T == {e}
           n == Len(stack)
           t == [kind |-> "else", end |-> top.end, exits |-> pending]
<1>1. /\ stack # <<>> /\ top.kind = "then" /\ entries' = entries
      /\ blocks' = blocks \/ blocks' = Built(blocks, at, Br(e))
  BY DEF then_ends
<1>2. \/ at' = e /\ stack' = Pop
      \/ top.else_ # 0 /\ at' = top.else_ /\ stack' = Append(Pop, t)
  BY DEF then_ends
<1>3. /\ top \in Thens(Len(blocks)) /\ n \in Nat /\ n >= 1 /\ n \in 1 .. n
      /\ top.else_ # top.end
  <2>1. top \in Activations(Len(blocks)) /\ Len(blocks) \in Nat
    BY <1>1, AtEnd
  <2>2. top \in Thens(Len(blocks))
    BY <1>1, <2>1, ActivationIs
  <2>3. n \in Nat /\ n \in 1 .. n /\ top = stack[n]
    BY <1>1, StackIs
  <2> QED
    BY <1>1, <2>2, <2>3 DEF Inv, Apart
<1>4. e \in Held(top) /\ e # at /\ (top.else_ # 0 => top.else_ \in Held(top))
  <2>1. Held(top) = {top.else_, top.end} \ {0} /\ top.end # 0
    BY <1>1, <1>3 DEF Held, Thens
  <2>2. e \in Held(top) /\ (top.else_ # 0 => top.else_ \in Held(top))
    BY <2>1
  <2> QED
    BY <1>1, <2>2, AtEnd
<1>5. /\ Names(t) = {} /\ Held(t) = {e} /\ t.kind = "else"
  BY DEF Names, Held
<1> HIDE DEF t, e
<1>6. e \in Block /\ Saw(blocks, e) = {}
  BY <1>1, <1>4, HeldSawNone
<1>7. Builds(T)
  BY <1>1, <1>6, BranchBuilds
<1>8. \A b \in T \cap Block : b # at /\ Saw(blocks, b) \subseteq Visible
  BY <1>4, <1>6
<1> HIDE DEF T
<1>9. CASE at' = e /\ stack' = Pop
  BY <1>1, <1>4, <1>7, <1>8, <1>9, SightPops
<1>10. CASE top.else_ # 0 /\ at' = top.else_ /\ stack' = Append(Pop, t)
  <2>1. Len(Pop) = n - 1 /\ \A d \in 1 .. n - 1 : Pop[d] = stack[d]
    BY <1>1, PopIs
  <2>2. Pop \in Seq(Activations(Len(blocks)))
    <3> DEFINE A == Activations(Len(blocks))
    <3>1. stack \in Seq(A) /\ Pop = SubSeq(stack, 1, n - 1) /\ n = Len(stack)
      BY DEF Inv, Sorts, Pop
    <3> HIDE DEF A, n
    <3>2. Pop \in Seq(A)
      BY <1>3, <3>1
    <3> QED
      BY <3>2 DEF A
  <2>3. Len(stack') = n /\ stack'[n] = t /\ \A d \in 1 .. n - 1 : stack'[d] = stack[d]
    <3> DEFINE A == Activations(Len(blocks))
    <3>1. Pop \in Seq(A)
      BY <2>2
    <3> HIDE DEF A, n
    <3>2. /\ Len(Append(Pop, t)) = n /\ Append(Pop, t)[n] = t
          /\ \A d \in 1 .. n - 1 : Append(Pop, t)[d] = Pop[d]
      BY <1>3, <2>1, <3>1
    <3> QED
      BY <1>10, <2>1, <3>2
  <2>4. at' \in Held(top)
    BY <1>4, <1>10
  <2>5. Held(t) \subseteq Held(top) \ {at} /\ t.kind \notin {"while", "match"}
    BY <1>4, <1>5
  <2> QED
    BY <1>1, <1>5, <1>7, <1>8, <2>3, <2>4, <2>5, SightCloses
<1> QED
  BY <1>2, <1>9, <1>10

(* A match is entered and left without a branch. *)
LEMMA SightMatchEnd == ASSUME Inv, Inv', Sight, match_ends PROVE Sight'
<1> DEFINE e == top.end
           T == {e}
<1>1. /\ stack # <<>> /\ top.kind = "match" /\ stack' = Pop /\ at' = e
      /\ entries' = entries /\ blocks' = Built(blocks, top.start, Br(top.next))
  BY DEF match_ends
<1>2. at = top.start /\ top.next = e
  <2>1. top = stack[Len(stack)] /\ Len(stack) \in 1 .. Len(stack)
    BY <1>1, StackIs
  <2> QED
    BY <1>1, <2>1 DEF Sight, Branchless
<1>3. blocks' = Built(blocks, at, Br(e))
  BY <1>1, <1>2
<1>4. e \in Held(top) /\ e # at
  BY <1>1, <1>2, AtMatch
<1> HIDE DEF e
<1>5. e \in Block /\ Saw(blocks, e) = {}
  BY <1>1, <1>4, HeldSawNone
<1>6. Builds(T)
  BY <1>1, <1>3, <1>5, BranchBuilds
<1>7. \A b \in T \cap Block : b # at /\ Saw(blocks, b) \subseteq Visible
  BY <1>4, <1>5
<1> HIDE DEF T
<1> QED
  BY <1>1, <1>4, <1>6, <1>7, SightPops

(* The names a match binds are left out. *)
LEMMA SightMatchResult == ASSUME Inv, Sight, match_result PROVE FALSE
<1>1. stack # <<>> /\ top.kind = "match" /\ top.option # 0
  BY DEF match_result
<1>2. top = stack[Len(stack)] /\ Len(stack) \in 1 .. Len(stack)
  BY <1>1, StackIs
<1> QED
  BY <1>1, <1>2 DEF Sight, Branchless

(* The names of a function end with it. *)
LEMMA SightFunctionEnd == ASSUME Inv, Inv', Sight, function_ends PROVE Sight'
<1> DEFINE T == {}
<1>1. /\ stack # <<>> /\ top.kind = "function" /\ stack' = <<>> /\ at' = at
      /\ entries' = entries
      /\ blocks' = blocks \/ blocks' = Built(blocks, at, RetVoid(End))
  BY DEF function_ends
<1>2. Len(stack) = 1 /\ Sorts /\ at \in Block
  BY <1>1, StackIs DEF Inv
<1>3. Len(stack') = 0
  BY <1>1
<1>4. /\ Len(stack') \in {Len(stack) - 1, Len(stack)}
      /\ \A d \in 1 .. Len(stack) - 1 : stack'[d] = stack[d]
      /\ \A d \in 1 .. Len(stack') : d # Len(stack)
  BY <1>2, <1>3
<1>5. \A b \in T \cap Block : b # at /\ Saw(blocks, b) \subseteq Visible
  OBVIOUS
<1>6. Builds(T)
  <2>1. RetVoid(End) \in Instructions(Len(blocks))
    BY <1>2, RetVoidIs
  <2>2. RetVoid(End).sees = Visible /\ RetVoid(End).to = {}
    BY AllSee
  <2>3. RetVoid(End).to \cap Block \subseteq T
    BY <2>2
  <2> HIDE DEF T
  <2> QED
    BY <1>1, <1>2, <2>1, <2>2, <2>3, OneBuilds
<1> HIDE DEF T
<1> QED
  BY <1>1, <1>4, <1>5, <1>6, SightCloses
-----------------------------------------------------------------------------
(* Between two functions no name is in scope. *)
LEMMA SightBetween ==
  ASSUME Inv, Inv', Sight, NEW T, T = {}, Builds(T), Visible = {}, Visible' = {},
         \A d \in 1 .. Len(stack') : Held(stack'[d]) = {} /\ stack'[d].kind = "function",
         \A e \in entries' : e \in entries \/ e[1] \in Block' \ Block
  PROVE  Sight'
<1>1. Sorts /\ Sorts'
  BY DEF Inv
<1>2. Passed'
  <2>1. \A b \in T \cap Block : b # at /\ Saw(blocks, b) \subseteq Visible
    OBVIOUS
  <2> QED
    BY <2>1, PassedKept
<1>3. Here'
  BY DEF Here, From
<1>4. Ahead' /\ Back' /\ Branchless'
  BY DEF Ahead, Back, Branchless
<1>5. Entered'
  <2> SUFFICES ASSUME NEW e \in entries'
               PROVE  Saw(blocks', e[1]) \subseteq {e[1]}
    BY DEF Entered
  <2>1. e[1] \in Block'
    BY <1>1 DEF Sorts
  <2>2. CASE e \in entries
    <3>1. e[1] \in Block /\ Saw(blocks, e[1]) \subseteq {e[1]}
      BY <1>1, <2>2 DEF Sorts, Sight, Entered
    <3>2. Saw(blocks', e[1]) \subseteq Saw(blocks, e[1]) \cup Visible
      BY <1>1, <2>1, <3>1, SawGrows
    <3> QED
      BY <3>1, <3>2
  <2>3. CASE e[1] \notin Block
    <3>1. Saw(blocks', e[1]) \subseteq Visible
      BY <1>1, <2>1, <2>3, SawGrows
    <3> QED
      BY <3>1
  <2> QED
    BY <2>2, <2>3
<1> QED
  BY <1>2, <1>3, <1>4, <1>5 DEF Sight

(* A function begins in a block that nothing branches to. *)
LEMMA SightFunction ==
  ASSUME Inv, Inv', Sight, NEW typed \in BOOLEAN, parse_function(typed) PROVE Sight'
<1> DEFINE n == Len(blocks)
           f == [kind |-> "function", typed |-> typed, last |-> "none", names |-> {}]
<1>1. /\ stack = <<>> /\ blocks' = Appended(1) /\ at' = n + 1
      /\ entries' = entries \cup {<<n + 1, typed>>} /\ stack' = <<f>>
  BY DEF parse_function, InFile
<1>2. Sorts /\ Sorts' /\ n \in Nat /\ Block = 1 .. n
  BY DEF Inv, Sorts, Block
<1>3. Visible = {} /\ Visible' = {}
  BY <1>1 DEF Visible, Scoped
<1>4. /\ Len(blocks') = n + 1 /\ \A b \in Block : blocks'[b] = blocks[b]
      /\ \A b \in n + 1 .. n + 1 : blocks'[b] = <<>>
  <2> DEFINE k == 1
  <2>1. k \in Nat
    OBVIOUS
  <2> HIDE DEF k
  <2>2. /\ Len(Appended(k)) = n + k
        /\ \A b \in 1 .. n : Appended(k)[b] = blocks[b]
        /\ \A b \in n + 1 .. n + k : Appended(k)[b] = <<>>
    BY <1>2, <2>1, AppendedIs
  <2> QED
    BY <1>1, <1>2, <2>2 DEF k
<1>5. Block' = 1 .. n + 1
  BY <1>4 DEF Block
<1>6. PICK T : T = {}
  OBVIOUS
<1>7. Builds(T)
  <2>1. \A b \in Block' \ Block : b \in n + 1 .. n + 1
    BY <1>2, <1>5
  <2> QED
    BY <1>2, <1>4, <2>1 DEF Builds
<1>8. f.kind = "function" /\ Held(f) = {}
  BY DEF Held
<1> HIDE DEF f
<1>9. \A d \in 1 .. Len(stack') : stack'[d] = f
  BY <1>1
<1>10. \A e \in entries' : e \in entries \/ e[1] \in Block' \ Block
  BY <1>1, <1>2, <1>5
<1> QED
  BY <1>3, <1>6, <1>7, <1>8, <1>9, <1>10, SightBetween

(* An extern has no blocks, but may build a ret void in the last block. *)
LEMMA SightExternal ==
  ASSUME Inv, Inv', Sight, NEW typed \in BOOLEAN, parse_function_external(typed) PROVE Sight'
<1>1. /\ stack = <<>> /\ stack' = stack /\ at' = at /\ entries' = entries
      /\ \/ blocks' = blocks
         \/ at # 0 /\ blocks' = Built(blocks, at, RetVoid(End))
  BY DEF parse_function_external, InFile
<1>2. Sorts /\ Sorts' /\ Len(blocks) \in Nat
  BY DEF Inv, Sorts
<1>3. Visible = {} /\ Visible' = {}
  BY <1>1 DEF Visible, Scoped
<1>4. PICK T : T = {}
  OBVIOUS
<1>5. Builds(T)
  <2>1. CASE blocks' = blocks
    BY <1>2, <2>1 DEF Builds, Block
  <2>2. CASE at # 0 /\ blocks' = Built(blocks, at, RetVoid(End))
    <3>1. at \in Block
      BY <1>2, <2>2 DEF Sorts
    <3>2. RetVoid(End) \in Instructions(Len(blocks))
      BY <1>2, RetVoidIs
    <3>3. RetVoid(End).sees = Visible /\ RetVoid(End).to \cap Block \subseteq T
      BY AllSee
    <3> QED
      BY <1>2, <2>2, <3>1, <3>2, <3>3, OneBuilds
  <2> QED
    BY <1>1, <2>1, <2>2
<1>6. Len(stack') = 0
  BY <1>1
<1>7. \A d \in 1 .. Len(stack') : FALSE
  BY <1>6
<1> QED
  BY <1>1, <1>3, <1>4, <1>5, <1>7, SightBetween
-----------------------------------------------------------------------------
(* The activation of a match before its first branch. *)
Matching(n, branches) ==
  [kind |-> "match", start |-> n + 1, end |-> n + 2, next |-> n + 2,
   option |-> 0, left |-> branches, matcher |-> name, exits |-> {name}]

(* What entering a match does. *)
LEMMA MatchDoes ==
  ASSUME Inv, NEW branches \in Nat, parse_match(branches),
         NEW n, n = Len(blocks), NEW f, f = Matching(n, branches)
  PROVE  /\ stack # <<>> /\ ~Between /\ n \in Nat /\ Sorts
         /\ at \in Block /\ at # 0 /\ Len(stack) \in Nat /\ name \in Statement
         /\ top.kind = "match" => top.option # 0
         /\ at' = n + 1 /\ entries' = entries
         /\ stack' \in Seq(Activations(n + 2))
         /\ Len(stack') = Len(stack) + 1 /\ stack'[Len(stack) + 1] = f
         /\ \A d \in 1 .. Len(stack) : Alike(stack[d], stack'[d], "other")
         /\ \A d \in 1 .. Len(stack) : Names(stack'[d]) = Names(stack[d])
         /\ f.kind = "match" /\ f.option = 0 /\ f.start = n + 1
         /\ f.end = n + 2 /\ f.next = n + 2
         /\ Held(f) = {n + 1, n + 2} /\ Known(f) = {n + 1, n + 2}
         /\ Br(n + 1) \in Instructions(n + 2) /\ Do(name) \in Instructions(n + 2)
         /\ blocks' \in Seq(Seq(Instructions(n + 2)))
         /\ Len(blocks') = n + 2
         /\ blocks'[at] = Append(blocks[at], Br(n + 1))
         /\ blocks'[n + 1] = Append(<<>>, Do(name))
         /\ \A b \in Block : b # at => blocks'[b] = blocks[b]
         /\ \A b \in n + 2 .. n + 2 : blocks'[b] = <<>>
<1> DEFINE m == n + 2
           i == Br(n + 1)
           j == Do(name)
<1>1. InExpression
  BY DEF parse_match
<1>2. /\ stack # <<>> /\ ~Between /\ n \in Nat /\ Sorts
      /\ at \in Block /\ at # 0 /\ Len(stack) \in Nat /\ name \in Statement
      /\ top.kind = "match" => top.option # 0
  BY <1>1, AtWork, StackIs DEF Inv, Nesting, name
<1>3. Follows(stack, Noted("other"), n, "other")
  BY <1>2, NotedIs
<1>4. /\ m \in Nat /\ n <= m /\ n + 1 \in 1 .. m /\ n + 2 \in 1 .. m
  BY <1>2
<1>5. /\ f \in Activations(m) /\ f.kind = "match"
      /\ Held(f) = {n + 1, n + 2} /\ Known(f) = {n + 1, n + 2}
      /\ f.option = 0 /\ f.start = n + 1 /\ f.end = n + 2 /\ f.next = n + 2
  <2>1. f \in Matches(m)
    BY <1>2, <1>4 DEF Matches, Branchings, Matching
  <2>2. /\ f.kind = "match" /\ f.start = n + 1 /\ f.end = n + 2 /\ f.next = n + 2
        /\ f.option = 0
    BY DEF Matching
  <2> QED
    BY <1>2, <2>1, <2>2 DEF Activations, Held, Known
<1>6. i \in Instructions(m)
  BY <1>2, <1>4, BranchIs
<1>7. j \in Instructions(m)
  BY <1>1, <1>2, <1>4, AtWork, DoIs
<1>8. /\ at' = n + 1 /\ entries' = entries
      /\ stack' = Append(Noted("other"), f)
      /\ blocks' = Built(Built(Appended(2), at, i), n + 1, j)
  BY DEF parse_match, Matching
<1> HIDE DEF i, j
<1>9. /\ blocks' \in Seq(Seq(Instructions(m)))
      /\ Len(blocks') = m /\ blocks'[at] = Append(blocks[at], i)
      /\ blocks'[n + 1] = Append(<<>>, j)
      /\ \A b \in Block : b # at => blocks'[b] = blocks[b]
      /\ \A b \in n + 2 .. m : blocks'[b] = <<>>
  <2> DEFINE k == 2
  <2>1. k \in Nat /\ k # 0 /\ m = Len(blocks) + k
    OBVIOUS
  <2>2. blocks' = Built(Built(Appended(k), at, i), Len(blocks) + 1, j)
    BY <1>8
  <2> HIDE DEF k, m
  <2>3. i \in Instructions(Len(blocks) + k) /\ j \in Instructions(Len(blocks) + k)
    BY <1>6, <1>7, <2>1
  <2>4. /\ blocks' \in Seq(Seq(Instructions(Len(blocks) + k)))
        /\ Len(blocks') = Len(blocks) + k /\ blocks'[at] = Append(blocks[at], i)
        /\ blocks'[Len(blocks) + 1] = Append(<<>>, j)
        /\ \A b \in Block : b # at => blocks'[b] = blocks[b]
        /\ \A b \in Len(blocks) + 2 .. Len(blocks) + k : blocks'[b] = <<>>
    BY <1>2, <2>1, <2>2, <2>3, BuiltTwice
  <2> QED
    BY <2>1, <2>4
<1>10. /\ stack' \in Seq(Activations(m)) /\ Len(stack') = Len(stack) + 1
       /\ stack'[Len(stack) + 1] = f
       /\ \A d \in 1 .. Len(stack) : Alike(stack[d], stack'[d], "other")
  <2> DEFINE s == Noted("other")
  <2>1. /\ Follows(stack, s, Len(blocks), "other") /\ stack' = Append(s, f)
        /\ Len(blocks) <= m /\ m \in Nat /\ f \in Activations(m)
    BY <1>3, <1>4, <1>5, <1>8
  <2> HIDE DEF s, m
  <2> QED
    BY <1>2, <2>1, PushedOne
<1>11. \A d \in 1 .. Len(stack) : Names(stack'[d]) = Names(stack[d])
  <2> DEFINE A == Activations(m)
             s == <<f>>
             t == Noted("other")
  <2>1. s \in Seq(A) /\ f \in A
    <3> HIDE DEF A, m
    <3> QED
      BY <1>5 DEF A
  <2>2. t \in Seq(A)
    <3>1. t \in Seq(Activations(n))
      BY <1>3 DEF Follows
    <3> HIDE DEF t, m
    <3> QED
      BY <1>2, <1>4, <3>1, Wider
  <2> HIDE DEF A, t
  <2>3. stack' = t \o s
    BY <1>8, <2>1, <2>2 DEF t
  <2> HIDE DEF s
  <2>4. stack' = Noted("other") \o s
    BY <2>3 DEF t
  <2> QED
    BY <1>2, <2>1, <2>4, PushedNames
<1> QED
  BY <1>2, <1>5, <1>6, <1>7, <1>8, <1>9, <1>10, <1>11 DEF i, j

LEMMA SightMatch ==
  ASSUME Inv, Inv', Sight, NEW branches \in Nat, parse_match(branches) PROVE Sight'
<1>1. PICK n : n = Len(blocks)
  OBVIOUS
<1>2. PICK f : f = Matching(n, branches)
  OBVIOUS
<1> DEFINE l == Len(stack)
           i == Br(n + 1)
           j == Do(name)
<1>3. /\ stack # <<>> /\ n \in Nat /\ Sorts /\ at \in Block
      /\ l \in Nat /\ at' = n + 1 /\ entries' = entries
      /\ Len(stack') = l + 1 /\ stack'[l + 1] = f
      /\ \A d \in 1 .. l : Alike(stack[d], stack'[d], "other")
      /\ \A d \in 1 .. l : Names(stack'[d]) = Names(stack[d])
      /\ f.kind = "match" /\ f.option = 0 /\ f.start = n + 1
      /\ f.end = n + 2 /\ f.next = n + 2 /\ Held(f) = {n + 1, n + 2}
  BY <1>1, <1>2, MatchDoes
<1>4. /\ i \in Instructions(n + 2) /\ j \in Instructions(n + 2) /\ Len(blocks') = n + 2
      /\ blocks'[at] = Append(blocks[at], i) /\ blocks'[n + 1] = Append(<<>>, j)
      /\ \A b \in Block : b # at => blocks'[b] = blocks[b]
      /\ \A b \in n + 2 .. n + 2 : blocks'[b] = <<>>
  BY <1>1, <1>2, MatchDoes
<1>5. top.kind # "match"
  <2>1. InExpression
    BY DEF parse_match
  <2> QED
    BY <2>1, NotInMatch
<1>6. Names(f) = {}
  BY <1>3 DEF Names
<1>7. Block = 1 .. n /\ Block' = 1 .. n + 2
  BY <1>1, <1>4 DEF Block
<1>8. Builds({})
  <2> DEFINE T == {}
  <2>1. i.sees = Visible /\ \A c \in i.to : c > Len(blocks)
    BY <1>1, <1>3 DEF Br, Instruction
  <2>2. j.sees = Visible /\ \A c \in j.to : c > Len(blocks)
    BY AllSee
  <2>3. /\ i \in Instructions(Len(blocks')) /\ j \in Instructions(Len(blocks'))
        /\ Len(blocks) <= Len(blocks')
    BY <1>1, <1>3, <1>4
  <2>4. \A b \in Block' \ Block : b = n + 1 \/ b \in n + 2 .. n + 2
    BY <1>3, <1>7
  <2> HIDE DEF i, j, T
  <2>5. \A b \in Block' \ Block :
           \/ blocks'[b] = <<>>
           \/ \E x \in Instructions(Len(blocks')) :
                /\ blocks'[b] = Append(<<>>, x) /\ x.sees = Visible
                /\ \A c \in x.to : c > Len(blocks)
    BY <1>4, <2>2, <2>3, <2>4
  <2>6. Builds(T)
    BY <1>3, <1>4, <2>1, <2>3, <2>5, NewBuilds
  <2> QED
    BY <2>6 DEF T
<1>9. \A b \in Held(f) : b \notin Block /\ (b # at' => blocks'[b] = <<>>)
  BY <1>3, <1>4, <1>7
<1>10. \A d \in l + 1 .. Len(stack') : stack'[d] = f /\ d = Len(stack')
  BY <1>3
<1>11. at' \notin Block /\ Len(stack) <= Len(stack')
  BY <1>3, <1>7
<1> QED
  BY <1>3, <1>5, <1>6, <1>8, <1>9, <1>10, <1>11, SightOpens
-----------------------------------------------------------------------------
(* A crash and the end of the file change nothing that is seen. *)
LEMMA SightStatus ==
  ASSUME Sight, UNCHANGED <<code, stack, value, source>> PROVE Sight'
<1>1. blocks' = blocks /\ entries' = entries /\ at' = at /\ stack' = stack
  BY DEF code
<1>2. Visible' = Visible
  BY <1>1 DEF Visible, Scoped
<1>3. Passed' /\ Here' /\ Entered'
  BY <1>1, <1>2 DEF Sight, Passed, Here, Entered, Block
<1>4. Ahead' /\ Back' /\ Branchless'
  BY <1>1 DEF Sight, Ahead, Back, Branchless
<1> QED
  BY <1>3, <1>4 DEF Sight

(* What is odd of a source stays so. *)
LEMMA TameBefore == ASSUME Inv, Next, Tame' PROVE Tame
<1>1. odd \subseteq odd'
  <2>1. CASE Kept
    BY <2>1 DEF Kept, Inside
  <2>2. ASSUME NEW typed \in BOOLEAN, parse_function(typed) \/ parse_function_external(typed)
        PROVE  odd \subseteq odd'
    BY <2>2 DEF parse_function, parse_function_external
  <2>3. CASE UNCHANGED <<code, stack, value, source>>
    BY <2>3 DEF source
  <2> QED
    BY <2>1, <2>2, <2>3, Steps
<1> QED
  BY <1>1 DEF Tame

(* Every step keeps Sight, in a source that stays tame. *)
LEMMA SightKeeps == ASSUME Inv, Inv', Sight, Next, Tame' PROVE Sight'
<1>1. ASSUME NEW typed \in BOOLEAN, parse_function(typed) \/ parse_function_external(typed)
      PROVE  Sight'
  BY <1>1, SightFunction, SightExternal
<1>2. ASSUME NEW first \in BOOLEAN, NEW assigns \in BOOLEAN, parse_assignment(first, assigns)
      PROVE  Sight'
  BY <1>2, SightAssignment
<1>3. CASE parse_function_call
  BY <1>3, SightCall
<1>4. CASE parse_constant
  BY <1>4, SightConstant
<1>5. CASE match_as_value \/ arm_crashes \/ function_crashes \/ file_ends
  BY <1>5, SightStatus DEF match_as_value, arm_crashes, function_crashes, file_ends
<1>6. CASE parse_return
  BY <1>6, SightReturn
<1>7. CASE parse_block
  BY <1>7, SightBlock
<1>8. CASE block_ends
  BY <1>8, SightBlockEnd
<1>9. CASE parse_while
  BY <1>9, SightWhile
<1>10. CASE while_ends
  BY <1>10, SightWhileEnd
<1>11. ASSUME NEW with_else \in BOOLEAN, parse_if(with_else) PROVE Sight'
  BY <1>11, SightIf
<1>12. CASE then_ends
  BY <1>12, SightThenEnd
<1>13. CASE else_ends
  BY <1>13, SightElseEnd
<1>14. ASSUME NEW n \in 0 .. MaxBranches, parse_match(n) PROVE Sight'
  <2>1. n \in Nat
    BY BoundsAssumption
  <2> QED
    BY <1>14, <2>1, SightMatch
<1>15. ~match_option
  <2>1. match_option => "match name" \in odd'
    BY DEF match_option
  <2> QED
    BY <2>1 DEF Tame
<1>16. ~match_result
  BY SightMatchResult
<1>17. CASE match_ends
  BY <1>17, SightMatchEnd
<1>18. CASE function_ends
  BY <1>18, SightFunctionEnd
<1> QED
  BY <1>1, <1>2, <1>3, <1>4, <1>5, <1>6, <1>7, <1>8, <1>9, <1>10, <1>11, <1>12,
     <1>13, <1>14, <1>15, <1>16, <1>17, <1>18 DEF Next

(* At first there are no blocks. *)
LEMMA SightStarts == Init => Sight
<1> SUFFICES ASSUME Init PROVE Sight
  OBVIOUS
<1>1. blocks = <<>> /\ entries = {} /\ stack = <<>>
  BY DEF Init
<1>2. /\ \A d \in 1 .. Len(stack) : FALSE
      /\ \A b \in 1 .. Len(blocks) : FALSE
  <2>1. Len(stack) = 0 /\ Len(blocks) = 0
    BY <1>1
  <2> QED
    BY <2>1
<1>3. Passed /\ Here /\ Entered
  BY <1>1, <1>2 DEF Passed, Here, Entered, From, Block
<1>4. Ahead /\ Back /\ Branchless
  BY <1>2 DEF Ahead, Back, Branchless
<1> QED
  BY <1>3, <1>4 DEF Sight

(* The inductive invariant: every source that is tame has Sight. *)
LEMMA InSight == Spec => [](Inv /\ (Tame => Sight))
<1>1. Init => Inv /\ (Tame => Sight)
  BY Starts, SightStarts
<1>2. ASSUME Inv /\ (Tame => Sight), [Next]_vars PROVE (Inv /\ (Tame => Sight))'
  <2>1. Inv'
    BY <1>2, Keeps
  <2>2. ASSUME Tame' PROVE Sight'
    <3>1. CASE UNCHANGED vars
      <4>1. UNCHANGED <<code, stack, value, source>>
        BY <3>1 DEF vars, walk
      <4>2. Tame
        BY <2>2, <4>1 DEF Tame, source
      <4> QED
        BY <1>2, <4>1, <4>2, SightStatus
    <3>2. CASE Next
      BY <1>2, <2>1, <2>2, <3>2, TameBefore, SightKeeps
    <3> QED
      BY <1>2, <3>1, <3>2
  <2> QED
    BY <2>1, <2>2
<1> QED
  BY <1>1, <1>2, PTL DEF Spec
-----------------------------------------------------------------------------
(* A set of numbers that is not empty has a least element. *)
LEMMA Least == ASSUME NEW T \in SUBSET Nat, T # {}
               PROVE \E x \in T : \A y \in T : x <= y
<1> DEFINE R == OpToRel(<, Nat)
<1>1. IsWellFoundedOn(R, Nat)
  BY NatLessThanWellFounded
<1>2. PICK x \in T : \A y \in T : ~(<<y, x>> \in R)
  <2> HIDE DEF R
  <2> QED
    BY <1>1, WFMin
<1>3. \A y \in T : ~(y < x)
  BY <1>2 DEF OpToRel
<1> QED
  BY <1>3

(* What holds of 0 and is passed on to the next number holds of all. *)
LEMMA Induction ==
  ASSUME NEW T \in SUBSET Nat, 0 \in T, \A n \in T : n + 1 \in T
  PROVE T = Nat
<1> SUFFICES ASSUME Nat \ T # {} PROVE FALSE
  OBVIOUS
<1>1. PICK x \in Nat \ T : \A y \in Nat \ T : x <= y
  <2> DEFINE U == Nat \ T
  <2>1. U \in SUBSET Nat /\ U # {}
    OBVIOUS
  <2> HIDE DEF U
  <2>2. \E x \in U : \A y \in U : x <= y
    BY <2>1, Least
  <2> QED
    BY <2>2 DEF U
<1>2. x # 0 /\ x - 1 \in Nat /\ x - 1 \in T
  BY <1>1
<1> QED
  BY <1>1, <1>2

(* The blocks found from those in S on after one step, two steps, ... *)
Unfolds(w, S, to) ==
  /\ w[0] = S /\ Reach(S, to) = w[Len(blocks)]
  /\ \A i \in 1 .. Len(blocks) : w[i] = Onward(w[i - 1], to)

(* The recursion that follows the branches exists, and ends. *)
LEMMA ReachUnfolds ==
  ASSUME Len(blocks) \in Nat, NEW S, NEW to
  PROVE  \E w : Unfolds(w, S, to)
<1> DEFINE N == Len(blocks)
           W(R) == Onward(R, to)
           Turn(g, i) == IF i = 0 THEN S ELSE W(g[i - 1])
           Upto(m) == \E g : g = [i \in 0 .. m |-> Turn(g, i)]
           T == {m \in Nat : Upto(m)}
<1>1. N \in Nat
  OBVIOUS
<1> HIDE DEF N, W
<1>2. Upto(0)
  <2> DEFINE g == [i \in 0 .. 0 |-> S]
  <2>1. g = [i \in 0 .. 0 |-> Turn(g, i)]
    OBVIOUS
  <2> QED
    BY <2>1
<1>3. ASSUME NEW m \in Nat, Upto(m) PROVE Upto(m + 1)
  <2>1. PICK g : g = [i \in 0 .. m |-> Turn(g, i)]
    BY <1>3
  <2> DEFINE h == [i \in 0 .. m + 1 |-> IF i = m + 1 THEN W(g[m]) ELSE g[i]]
  <2>2. ASSUME NEW i \in 0 .. m + 1 PROVE h[i] = Turn(h, i)
    <3>1. CASE i = m + 1
      <4>1. h[i] = W(g[m]) /\ i # 0 /\ i - 1 = m /\ h[m] = g[m]
        BY <3>1
      <4> QED
        BY <4>1
    <3>2. CASE i # m + 1
      <4>1. i \in 0 .. m /\ h[i] = g[i]
        BY <3>2
      <4>2. g[i] = Turn(g, i)
        <5> HIDE DEF Turn
        <5> QED
          BY <2>1, <4>1
      <4>3. i # 0 => h[i - 1] = g[i - 1]
        BY <4>1
      <4> QED
        BY <4>1, <4>2, <4>3
    <3> QED
      BY <3>1, <3>2
  <2>3. h = [i \in 0 .. m + 1 |-> Turn(h, i)]
    <3> DEFINE k == [i \in 0 .. m + 1 |-> Turn(h, i)]
    <3>1. \A i \in 0 .. m + 1 : h[i] = k[i]
      <4> HIDE DEF h, Turn
      <4> QED
        BY <2>2
    <3>2. h = [i \in 0 .. m + 1 |-> h[i]] /\ k = [i \in 0 .. m + 1 |-> k[i]]
      OBVIOUS
    <3> HIDE DEF h, k
    <3>3. h = k
      BY <3>1, <3>2
    <3> QED
      BY <3>3 DEF k
  <2> HIDE DEF h, Turn
  <2> QED
    BY <2>3
<1>4. T = Nat
  <2> HIDE DEF Upto
  <2>1. T \in SUBSET Nat /\ 0 \in T /\ \A m \in T : m + 1 \in T
    BY <1>2, <1>3
  <2> HIDE DEF T
  <2> QED
    BY <2>1, Induction
<1>5. PICK g : g = [i \in 0 .. N |-> Turn(g, i)]
  <2>1. N \in T
    <3> HIDE DEF T
    <3> QED
      BY <1>1, <1>4
  <2> QED
    BY <2>1
<1> DEFINE w == CHOOSE v : v = [i \in 0 .. N |-> Turn(v, i)]
<1>6. Reach(S, to) = w[N]
  BY DEF Reach, N, W
<1>7. w = [i \in 0 .. N |-> Turn(w, i)]
  <2> HIDE DEF Turn
  <2> QED
    BY <1>5
<1> HIDE DEF w
<1>8. w[0] = S /\ \A i \in 1 .. N : w[i] = W(w[i - 1])
  <2>1. \A i \in 0 .. N : w[i] = Turn(w, i)
    <3> HIDE DEF Turn
    <3> QED
      BY <1>7
  <2>2. 0 \in 0 .. N /\ \A i \in 1 .. N : i \in 0 .. N /\ i # 0
    BY <1>1
  <2> QED
    BY <2>1, <2>2
<1> QED
  BY <1>6, <1>8 DEF N, W, Unfolds

(* What holds of where control starts, and is kept by every branch, holds  *)
(* of all that is reached.                                                 *)
LEMMA ReachIsLeast ==
  ASSUME Len(blocks) \in Nat, NEW S, NEW to, NEW X, S \subseteq X,
         \A b \in X : to[b] \subseteq X
  PROVE  Reach(S, to) \subseteq X
<1>w. PICK w : Unfolds(w, S, to)
  BY ReachUnfolds
<1> DEFINE N == Len(blocks)
<1>1. /\ w[0] = S /\ Reach(S, to) = w[N]
      /\ \A i \in 1 .. N : w[i] = Onward(w[i - 1], to)
  BY <1>w DEF Unfolds
<1> DEFINE T == {m \in Nat : m <= N => w[m] \subseteq X}
<1>2. N \in Nat /\ N <= N
  OBVIOUS
<1> HIDE DEF N
<1>3. ASSUME NEW m \in T PROVE m + 1 \in T
  <2>1. m \in Nat /\ m + 1 \in Nat
    BY <1>3
  <2>2. ASSUME m + 1 <= N PROVE w[m + 1] \subseteq X
    <3>1. m <= N /\ m + 1 \in 1 .. N /\ (m + 1) - 1 = m
      BY <1>2, <2>1, <2>2
    <3>2. w[m] \subseteq X /\ w[m + 1] = Onward(w[m], to)
      BY <1>1, <1>3, <3>1
    <3> QED
      BY <3>2 DEF Onward
  <2> QED
    BY <2>1, <2>2
<1>4. T \in SUBSET Nat /\ 0 \in T
  BY <1>1
<1>5. N \in T
  <2> HIDE DEF T
  <2> QED
    BY <1>2, <1>3, <1>4, Induction
<1> QED
  BY <1>1, <1>2, <1>5

(* Nothing is reached from there that is not: as long as it grows, what is *)
(* reached has a block more after every branch, and there are only so many.*)
LEMMA ReachIsClosed ==
  ASSUME Len(blocks) \in Nat, NEW S \in SUBSET Block, NEW to,
         \A b \in Block : to[b] \subseteq Block
  PROVE  /\ S \subseteq Reach(S, to) /\ Reach(S, to) \subseteq Block
         /\ \A b \in Reach(S, to) : to[b] \subseteq Reach(S, to)
<1>w. PICK w : Unfolds(w, S, to)
  BY ReachUnfolds
<1> DEFINE N == Len(blocks)
<1>1. /\ w[0] = S /\ Reach(S, to) = w[N]
      /\ \A i \in 1 .. N : w[i] = Onward(w[i - 1], to)
  BY <1>w DEF Unfolds
<1> DEFINE Still(R) == \A b \in R : to[b] \subseteq R
<1> DEFINE Far(m) == /\ S \subseteq w[m] /\ w[m] \subseteq Block
                     /\ Still(w[m]) \/ Cardinality(w[m]) >= m
           T == {m \in Nat : m <= N => Far(m)}
<1>2. N \in Nat /\ N <= N
  OBVIOUS
<1>3. IsFiniteSet(Block) /\ Cardinality(Block) = N
  <2>1. 1 \in Int /\ N \in Int
    OBVIOUS
  <2> HIDE DEF N
  <2>2. IsFiniteSet(1 .. N) /\ Cardinality(1 .. N) = IF 1 > N THEN 0 ELSE N - 1 + 1
    BY <2>1, FS_Interval
  <2>3. Cardinality(1 .. N) = N
    BY <1>2, <2>2
  <2> QED
    BY <2>2, <2>3 DEF Block, N
<1> HIDE DEF N, Still
<1>4. ASSUME NEW m \in Nat, m + 1 <= N, Far(m) PROVE Far(m + 1)
  <2>1. m <= N /\ m + 1 \in 1 .. N /\ (m + 1) - 1 = m
    BY <1>2, <1>4
  <2>2. w[m + 1] = Onward(w[m], to) /\ w[m] \subseteq w[m + 1]
    BY <1>1, <2>1 DEF Onward
  <2>3. S \subseteq w[m + 1] /\ w[m + 1] \subseteq Block
    BY <1>4, <2>2 DEF Onward
  <2>4. CASE Still(w[m])
    <3>1. w[m + 1] = w[m]
      BY <2>2, <2>4 DEF Onward, Still
    <3> QED
      BY <2>3, <2>4, <3>1
  <2>5. CASE ~Still(w[m])
    <3>1. w[m + 1] # w[m]
      BY <2>2, <2>5 DEF Onward, Still
    <3>2. IsFiniteSet(w[m + 1])
      BY <1>3, <2>3, FS_Subset
    <3>3. /\ IsFiniteSet(w[m]) /\ Cardinality(w[m]) <= Cardinality(w[m + 1])
          /\ Cardinality(w[m]) # Cardinality(w[m + 1])
      BY <2>2, <3>1, <3>2, FS_Subset
    <3>4. Cardinality(w[m]) \in Nat /\ Cardinality(w[m + 1]) \in Nat
      BY <3>2, <3>3, FS_CardinalityType
    <3>5. Cardinality(w[m + 1]) >= m + 1
      <4>1. Cardinality(w[m]) >= m
        BY <1>4, <2>5
      <4> QED
        BY <3>3, <3>4, <4>1
    <3> QED
      BY <2>3, <3>5
  <2> QED
    BY <2>4, <2>5
<1>5. Far(0)
  <2>1. IsFiniteSet(S)
    BY <1>3, FS_Subset
  <2>2. Cardinality(S) >= 0
    BY <2>1, FS_CardinalityType
  <2> QED
    BY <1>1, <2>2
<1> HIDE DEF Far
<1>6. T \in SUBSET Nat /\ 0 \in T
  BY <1>5
<1>7. ASSUME NEW m \in T PROVE m + 1 \in T
  <2>1. m \in Nat /\ m + 1 \in Nat /\ (m + 1 <= N => m <= N)
    BY <1>2, <1>7
  <2> QED
    BY <1>4, <1>7, <2>1
<1>8. N \in T
  <2> HIDE DEF T
  <2> QED
    BY <1>2, <1>6, <1>7, Induction
<1>9. Far(N)
  BY <1>2, <1>8
<1>10. Still(w[N])
  <2>1. CASE Cardinality(w[N]) >= N
    <3>1. /\ IsFiniteSet(w[N]) /\ Cardinality(w[N]) <= Cardinality(Block)
          /\ Cardinality(Block) = Cardinality(w[N]) => Block = w[N]
      BY <1>3, <1>9, FS_Subset DEF Far
    <3>2. Cardinality(w[N]) \in Nat
      BY <3>1, FS_CardinalityType
    <3>3. w[N] = Block
      BY <1>2, <1>3, <2>1, <3>1, <3>2
    <3> QED
      BY <3>3 DEF Still
  <2> QED
    BY <1>9, <2>1 DEF Far
<1> QED
  BY <1>1, <1>9, <1>10 DEF Far, Still

(* What is reached without a does not see a. *)
LEMMA SeenOnEveryWay ==
  ASSUME Inv, Sight, NEW a, NEW b \in Avoiding(a)
  PROVE  b \in Block /\ a \notin Saw(blocks, b)
<1> DEFINE X == {c \in Block : c # a /\ a \notin Saw(blocks, c)}
           to == [c \in Block |-> Targets(c) \ {a}]
           S == {e[1] : e \in entries} \ {a}
<1>1. Len(blocks) \in Nat /\ Sorts /\ Block = 1 .. Len(blocks)
  BY DEF Inv, Sorts, Block
<1>2. S \subseteq X
  BY <1>1 DEF Sorts, Sight, Entered
<1>3. ASSUME NEW c \in X, NEW d \in Targets(c), d # a PROVE d \in X
  <2>1. c \in Block /\ a \notin Saw(blocks, c)
    BY <1>3
  <2> DEFINE l == Len(blocks[c])
             I == Instructions(Len(blocks))
  <2>2. blocks[c] \in Seq(I)
    <3>1. blocks \in Seq(Seq(I)) /\ c \in 1 .. Len(blocks)
      BY <1>1, <2>1 DEF Sorts, Block
    <3> HIDE DEF I
    <3> QED
      BY <3>1, ElementOfSeq
  <2>3. blocks[c] # <<>> /\ d \in blocks[c][l].to
    BY <1>3 DEF Targets
  <2>4. l \in 1 .. l /\ blocks[c][l] \in I
    <3> HIDE DEF I
    <3>1. l \in Nat /\ l # 0
      BY <2>2, <2>3
    <3>2. l \in 1 .. l
      BY <3>1
    <3> QED
      BY <2>2, <3>2, ElementOfSeq
  <2>5. d \in Block
    BY <2>3, <2>4 DEF Instructions, Block
  <2>6. blocks[c][l].sees \subseteq Saw(blocks, c)
    BY <2>4 DEF Saw
  <2>7. Saw(blocks, d) \ {d} \subseteq blocks[c][l].sees
    <3>1. From(blocks, d, Saw(blocks, d) \ {d})
      BY <2>5 DEF Sight, Passed
    <3>2. c \in 1 .. Len(blocks)
      BY <2>1 DEF Block
    <3> QED
      BY <2>3, <2>4, <3>1, <3>2 DEF From
  <2> QED
    BY <1>3, <2>1, <2>5, <2>6, <2>7
<1>4. \A c \in X : to[c] \subseteq X
  BY <1>3
<1>5. Reach(S, to) \subseteq X
  <2> HIDE DEF S, to, X
  <2> QED
    BY <1>1, <1>2, <1>4, ReachIsLeast
<1> QED
  BY <1>5 DEF Avoiding

(* Where all that is seen was seen on the way, every name is reached. *)
LEMMA SightDominates == Inv /\ (Tame => Sight) => VisibleDominates
<1> SUFFICES ASSUME Inv, Sight, NEW a, NEW b \in Avoiding(a), a \in Seen(b)
             PROVE  FALSE
  BY DEF VisibleDominates, Tame
<1>1. b \in Block /\ a \notin Saw(blocks, b)
  BY SeenOnEveryWay
<1>2. DOMAIN blocks[b] = 1 .. Len(blocks[b])
  <2> DEFINE I == Instructions(Len(blocks))
  <2>1. blocks \in Seq(Seq(I)) /\ b \in 1 .. Len(blocks)
    BY <1>1 DEF Inv, Sorts, Block
  <2> HIDE DEF I
  <2>2. blocks[b] \in Seq(I)
    BY <2>1, ElementOfSeq
  <2> QED
    BY <2>2
<1> QED
  BY <1>1, <1>2 DEF Seen, Saw

(* A variable that is in scope where the generator builds an instruction   *)
(* has its alloca on every way that control takes to there: in every tame  *)
(* source, of any length and depth, no use of a name comes before it.      *)
THEOREM NamesReachTheirUses == Spec => []VisibleDominates
BY InSight, SightDominates, PTL
=============================================================================
