----------------------------- MODULE FlowProofs -----------------------------
(***************************************************************************)
(* The proof that the blocks of ControlFlow run the statements in the      *)
(* orders of the source, for files of every length and depth.  To what     *)
(* ControlFlowProofs says of the blocks that are not closed, it adds what  *)
(* may have run last where each of them begins.                            *)
(***************************************************************************)
EXTENDS ControlFlowProofs

(* What is kept of the flow of control while the blocks are built.  What   *)
(* may have run last is carried along the branches: X[b] is what may have  *)
(* run last where block b begins.                                          *)

(* The instructions that stand for statements; what may have run last      *)
(* after k of them, and at the end; where the end leads.                   *)
Stops(c) == IF c # <<>> /\ c[Len(c)].id = Begin THEN Len(c) - 1 ELSE Len(c)
Ran(c, I, k) == IF k = 0 THEN I ELSE {c[k].id}
Out(c, I) == Ran(c, I, Stops(c))
Exits(c) == IF c = <<>> THEN {} ELSE c[Len(c)].to
Ended(c) == c # <<>> /\ c[Len(c)].op \in Terminators

(* What an activation still owes: a match goes on from its start to the    *)
(* option at hand; blocks held for later are empty, and are to be reached  *)
(* from certain statements only; a loop goes back to its condition.        *)
Own(f) ==
  IF f.kind = "match"
  THEN {<<f.start, IF f.option = 0 THEN f.next ELSE f.option, f.matcher>>} ELSE {}
Later(f) == IF f.kind = "match" THEN {f.end} ELSE Held(f)
Meant(f, b) ==
  IF f.kind = "then" THEN IF b = f.end /\ f.else_ # 0 THEN {} ELSE {f.condition}
  ELSE IF f.kind = "while" THEN {f.condition} ELSE f.exits
Awaited(f) == {<<b, Meant(f, b)>> : b \in Later(f)}
Heading(f) == IF f.kind = "while" THEN {<<f.start, f.condition>>} ELSE {}

(* The same of the first m activations, and of all. *)
OwesTo(s, m) == UNION {Own(s[d]) : d \in 1 .. m}
WaitsTo(s, m) == UNION {Awaited(s[d]) : d \in 1 .. m}
LoopsTo(s, m) == UNION {Heading(s[d]) : d \in 1 .. m}

(* X is closed under the branches, and under those that are owed. *)
Shut(bs, o, en, X) ==
  /\ \A e \in en : Begin \in X[e[1]]
  /\ \A b \in 1 .. Len(bs) : \A c \in Exits(bs[b]) : Out(bs[b], X[b]) \subseteq X[c]
  /\ \A e \in o : Out(bs[e[1]], X[e[1]]) \subseteq X[e[2]]

(* What is met is in fl; and what is in fl is met. *)
Met(bs, fl, X) ==
  \A b \in 1 .. Len(bs) : \A k \in 1 .. Stops(bs[b]) :
    \A p \in Ran(bs[b], X[b], k - 1) : <<p, bs[b][k].id>> \in fl
Meets(bs, fl, X) ==
  \A e \in fl : \E b \in 1 .. Len(bs) : \E k \in 1 .. Stops(bs[b]) :
    e[1] \in Ran(bs[b], X[b], k - 1) /\ e[2] = bs[b][k].id

(* In the blocks of q, pd may have run last. *)
Brings(bs, q, pd, X) == \A b \in q : ~Ended(bs[b]) => Out(bs[b], X[b]) \subseteq pd
Brought(bs, q, pd, X) ==
  \A b \in q : pd \subseteq (IF Ended(bs[b]) THEN {} ELSE Out(bs[b], X[b]))

(* X is a way to carry along what may have run last, that stays within fl, *)
(* within what the waiting blocks wait for, and within pd at q.            *)
Carries(bs, o, w, en, fl, q, pd, X) ==
  /\ Shut(bs, o, en, X) /\ Met(bs, fl, X)
  /\ \A x \in w : X[x[1]] \subseteq x[2]
  /\ Brings(bs, q, pd, X)
Sound(bs, o, w, en, fl, q, pd) == \E X : Carries(bs, o, w, en, fl, q, pd, X)
Complete(bs, o, w, en, fl, q, pd) ==
  \A X : Shut(bs, o, en, X) =>
    /\ Meets(bs, fl, X)
    /\ \A x \in w : x[2] \subseteq X[x[1]]
    /\ Brought(bs, q, pd, X)

(* Only what ends a block branches or has no name. *)
Named(bs) == \A b \in 1 .. Len(bs) : \A k \in 1 .. Len(bs[b]) :
               bs[b][k].op \notin Terminators => bs[b][k].id # Begin /\ bs[b][k].to = {}
Bones(bs, l, o, w, h) ==
  /\ Named(bs)
  /\ \A e \in o : /\ e[1] \in 1 .. Len(bs) /\ e[2] \in 1 .. Len(bs)
                  /\ Len(bs[e[1]]) = 1 /\ bs[e[1]][1].op \notin Terminators
                  /\ bs[e[1]][1].id = e[3]
  /\ \A x \in w : x[1] \in 1 .. Len(bs) /\ bs[x[1]] = <<>>
  /\ \A x \in h : /\ x[1] \in 1 .. Len(bs) /\ x[1] # l /\ Len(bs[x[1]]) = 1
                  /\ bs[x[1]][1].op \in Terminators
                  /\ bs[x[1]][1].id = x[2] /\ x[2] # Begin

(* Nothing is behind a terminator, and only the block at l, and those that *)
(* wait or owe a branch, are without one.                                  *)
Loose(b, l, o, w) == b = l \/ (\E x \in w : x[1] = b) \/ (\E e \in o : e[1] = b)
Tidy(bs, l, o, w) ==
  /\ \A b \in 1 .. Len(bs) : \A k \in 1 .. Len(bs[b]) - 1 : bs[b][k].op \notin Terminators
  /\ \A b \in 1 .. Len(bs) : Loose(b, l, o, w) \/ Ended(bs[b])
Flows(bs, l, o, w, en, fl, q, pd) ==
  Tidy(bs, l, o, w) => Sound(bs, o, w, en, fl, q, pd) /\ Complete(bs, o, w, en, fl, q, pd)
Fits(bs, l, o, w, h, en, fl, q, pd) ==
  Bones(bs, l, o, w, h) /\ Flows(bs, l, o, w, en, fl, q, pd)
-----------------------------------------------------------------------------
(* What an instruction appended to code that has not ended adds to it. *)
Added(c, t, i, J) ==
  /\ Stops(c) = Len(c) /\ Exits(c) = {} /\ Len(c) \in Nat
  /\ Stops(t) = IF i.id = Begin THEN Len(c) ELSE Len(c) + 1
  /\ Exits(t) = i.to /\ (Ended(t) <=> i.op \in Terminators)
  /\ \A k \in 0 .. Len(c) : Ran(t, J, k) = Ran(c, J, k)
  /\ Out(t, J) = IF i.id = Begin THEN Out(c, J) ELSE {i.id}
  /\ \A k \in 1 .. Len(c) : t[k] = c[k]
  /\ t[Len(c) + 1] = i /\ Len(t) = Len(c) + 1

(* Appended to a block that has not ended, an instruction with a name runs *)
(* behind what is there, one without a name does not count.                *)
LEMMA AppendRuns ==
  ASSUME NEW A, NEW c \in Seq(A), ~Ended(c), NEW i \in A, NEW J,
         \A k \in 1 .. Len(c) : c[k].op \notin Terminators => c[k].id # Begin /\ c[k].to = {},
         NEW t, t = Append(c, i)
  PROVE  Added(c, t, i, J)
<1> DEFINE l == Len(c)
           a == Append(c, i)
<1>1. /\ l \in Nat /\ Len(a) = l + 1 /\ a # <<>> /\ a[l + 1] = i
      /\ \A k \in 1 .. l : a[k] = c[k]
  BY AppendIs
<1>2. c # <<>> => l \in 1 .. l
  OBVIOUS
<1> HIDE DEF a, l
<1>3. c # <<>> => c[l].id # Begin /\ c[l].to = {}
  BY <1>2 DEF Ended, l
<1>4. Stops(c) = l /\ Exits(c) = {}
  BY <1>3 DEF Stops, Exits, l
<1>5. Stops(a) = IF i.id = Begin THEN l ELSE l + 1
  BY <1>1 DEF Stops
<1>6. Exits(a) = i.to /\ (Ended(a) <=> i.op \in Terminators)
  BY <1>1 DEF Exits, Ended
<1>7. ASSUME NEW k \in 0 .. l PROVE Ran(a, J, k) = Ran(c, J, k)
  <2>1. k # 0 => a[k] = c[k]
    BY <1>1, <1>7
  <2> QED
    BY <2>1 DEF Ran
<1>8. Out(a, J) = IF i.id = Begin THEN Out(c, J) ELSE {i.id}
  <2>1. CASE i.id = Begin
    BY <1>1, <1>4, <1>5, <1>7, <2>1 DEF Out
  <2>2. CASE i.id # Begin
    BY <1>1, <1>5, <2>2 DEF Out, Ran
  <2> QED
    BY <2>1, <2>2
<1> QED
  BY <1>1, <1>4, <1>5, <1>6, <1>7, <1>8 DEF a, l, Added

(* A block of one statement does not pass on what ran before it. *)
LEMMA OneRuns ==
  ASSUME NEW c, Len(c) = 1, c[1].id # Begin, NEW J
  PROVE  Stops(c) = 1 /\ Out(c, J) = {c[1].id}
BY DEF Stops, Out, Ran

(* An empty block runs nothing and leads nowhere. *)
LEMMA NoneRuns ==
  ASSUME NEW J
  PROVE  Stops(<<>>) = 0 /\ Out(<<>>, J) = J /\ Exits(<<>>) = {} /\ ~Ended(<<>>)
BY DEF Stops, Out, Ran, Exits, Ended
-----------------------------------------------------------------------------
(* The code at a goes on with i, which is no more than that and what new   *)
(* blocks there are.                                                       *)
Grows(A, bs, bt, a, i) ==
  /\ Len(bs) \in Nat /\ Len(bt) \in Nat /\ Len(bs) <= Len(bt)
  /\ \A b \in 1 .. Len(bs) : bs[b] \in Seq(A) /\ Exits(bs[b]) \subseteq 1 .. Len(bs)
  /\ a \in 1 .. Len(bs) /\ i \in A /\ bt[a] = Append(bs[a], i)
  /\ \A b \in 1 .. Len(bs) : b # a => bt[b] = bs[b]

(* The branches that are owed leave blocks that have one statement. *)
Tests(bs, o) ==
  \A e \in o : /\ e[1] \in 1 .. Len(bs) /\ e[2] \in 1 .. Len(bs)
               /\ Len(bs[e[1]]) = 1 /\ bs[e[1]][1].id # Begin

(* A new block is empty or has one statement, and leads to new blocks. *)
Opened(bs, bt, b, fm, N) ==
  \/ bt[b] = <<>>
  \/ /\ Len(bt[b]) = 1 /\ bt[b][1].id # Begin
     /\ \A x \in N[b] : <<x, bt[b][1].id>> \in fm
     /\ \A c \in Exits(bt[b]) : c \in Len(bs) + 1 .. Len(bt) /\ bt[b][1].id \in N[c]

(* Where i leads: R is what may have run last there, O before.             *)
Paths(bs, bt, a, i, O, R, fm, N) ==
  /\ R = IF i.id = Begin THEN O ELSE {i.id}
  /\ i.id # Begin => \A x \in O : <<x, i.id>> \in fm
  /\ \A b \in i.to : b \in 1 .. Len(bs) =>
       /\ b # a
       /\ \/ bs[b] = <<>>
          \/ /\ Len(bs[b]) = 1 /\ bs[b][1].id # Begin
             /\ \A x \in R : <<x, bs[b][1].id>> \in fm
  /\ \A b \in i.to : b \in 1 .. Len(bt) /\ (b \notin 1 .. Len(bs) => R \subseteq N[b])
  /\ \A b \in Len(bs) + 1 .. Len(bt) : Opened(bs, bt, b, fm, N)

(* What is owed is what was, and from new blocks to new ones. *)
Owing(bs, bt, o, p, N) ==
  \A e \in p : \/ e \in o
              \/ /\ e[1] \in Len(bs) + 1 .. Len(bt) /\ e[2] \in Len(bs) + 1 .. Len(bt)
                 /\ Out(bt[e[1]], N[e[1]]) \subseteq N[e[2]]

(* Y is X where there were blocks before and N in the new ones. *)
Grown(bs, bt, T, R, X, N, Y) ==
  /\ \A b \in 1 .. Len(bs) : Y[b] = IF b \in T THEN X[b] \cup R ELSE X[b]
  /\ \A b \in Len(bs) + 1 .. Len(bt) : Y[b] = N[b]

(* Where the code goes on with a branch to blocks that are new, empty or a *)
(* condition, what may have run last is carried there.                     *)
LEMMA CarriedOn ==
  ASSUME NEW A, NEW bs, NEW bt, NEW a, NEW i, Grows(A, bs, bt, a, i), Named(bs),
         ~Ended(bs[a]),
         NEW o, NEW p, NEW en, NEW fl, NEW fm, fl \subseteq fm, NEW X, NEW N,
         Shut(bs, o, en, X), Met(bs, fl, X),
         \A e \in en : e[1] \in 1 .. Len(bs), Tests(bs, o), \A e \in o : e[1] # a,
         NEW O, O = Out(bs[a], X[a]), NEW R,
         Paths(bs, bt, a, i, O, R, fm, N), Owing(bs, bt, o, p, N)
  PROVE  \E Y : Shut(bt, p, en, Y) /\ Met(bt, fm, Y) /\ Grown(bs, bt, i.to, R, X, N, Y)
<1>p. /\ R = IF i.id = Begin THEN O ELSE {i.id}
      /\ i.id # Begin => \A x \in O : <<x, i.id>> \in fm
      /\ \A b \in i.to : b \in 1 .. Len(bs) =>
           /\ b # a
           /\ \/ bs[b] = <<>>
              \/ /\ Len(bs[b]) = 1 /\ bs[b][1].id # Begin
                 /\ \A x \in R : <<x, bs[b][1].id>> \in fm
      /\ \A b \in i.to : b \in 1 .. Len(bt) /\ (b \notin 1 .. Len(bs) => R \subseteq N[b])
      /\ \A b \in Len(bs) + 1 .. Len(bt) : Opened(bs, bt, b, fm, N)
  BY DEF Paths
<1>o. \A e \in p : \/ e \in o
                  \/ /\ e[1] \in Len(bs) + 1 .. Len(bt) /\ e[2] \in Len(bs) + 1 .. Len(bt)
                     /\ Out(bt[e[1]], N[e[1]]) \subseteq N[e[2]]
  BY DEF Owing
<1> DEFINE n == Len(bs)
           m == Len(bt)
           Was_ == 1 .. n
           Is == 1 .. m
           Fresh == n + 1 .. m
           Y == [b \in Is |-> IF b \in Was_ THEN IF b \in i.to THEN X[b] \cup R ELSE X[b]
                              ELSE N[b]]
<1>1. /\ n \in Nat /\ m \in Nat /\ n <= m /\ a \in Was_ /\ i \in A /\ ~Ended(bs[a])
      /\ bt[a] = Append(bs[a], i) /\ \A b \in Was_ : b # a => bt[b] = bs[b]
      /\ \A b \in Was_ : bs[b] \in Seq(A) /\ Exits(bs[b]) \subseteq Was_
  BY DEF Grows
<1>2. /\ \A b \in Is : b \in Was_ \/ b \in Fresh
      /\ \A b \in Was_ : b \in Is /\ b \notin Fresh
      /\ \A b \in Fresh : b \in Is /\ b \notin Was_
  BY <1>1
<1>3. /\ Stops(bs[a]) = Len(bs[a]) /\ Exits(bs[a]) = {} /\ Len(bs[a]) \in Nat
      /\ Stops(bt[a]) = IF i.id = Begin THEN Len(bs[a]) ELSE Len(bs[a]) + 1
      /\ Exits(bt[a]) = i.to
      /\ \A J : \A k \in 0 .. Len(bs[a]) : Ran(bt[a], J, k) = Ran(bs[a], J, k)
      /\ \A J : Out(bt[a], J) = IF i.id = Begin THEN Out(bs[a], J) ELSE {i.id}
      /\ \A k \in 1 .. Len(bs[a]) : bt[a][k] = bs[a][k]
      /\ bt[a][Len(bs[a]) + 1] = i
  <2> DEFINE c == bs[a]
  <2>1. c \in Seq(A) /\ ~Ended(c) /\ i \in A /\ bt[a] = Append(c, i)
    BY <1>1
  <2>2. \A k \in 1 .. Len(c) : c[k].op \notin Terminators => c[k].id # Begin /\ c[k].to = {}
    BY <1>1 DEF Named
  <2> HIDE DEF c
  <2>3. SUFFICES ASSUME NEW J
        PROVE /\ Stops(c) = Len(c) /\ Exits(c) = {} /\ Len(c) \in Nat
              /\ Stops(bt[a]) = IF i.id = Begin THEN Len(c) ELSE Len(c) + 1
              /\ Exits(bt[a]) = i.to
              /\ \A k \in 0 .. Len(c) : Ran(bt[a], J, k) = Ran(c, J, k)
              /\ Out(bt[a], J) = IF i.id = Begin THEN Out(c, J) ELSE {i.id}
              /\ \A k \in 1 .. Len(c) : bt[a][k] = c[k]
              /\ bt[a][Len(c) + 1] = i
    BY DEF c
  <2>4. Added(c, bt[a], i, J)
    BY <2>1, <2>2, AppendRuns
  <2> QED
    BY <2>4 DEF Added
<1>4. /\ \A b \in Was_ : Y[b] = IF b \in i.to THEN X[b] \cup R ELSE X[b]
      /\ \A b \in Fresh : Y[b] = N[b]
  BY <1>2
<1> HIDE DEF n, m, Was_, Is, Fresh, Y
<1>5. /\ \A b \in Was_ : X[b] \subseteq Y[b]
      /\ a \notin i.to /\ Y[a] = X[a] /\ Out(bt[a], Y[a]) = R
  <2>1. a \notin i.to
    BY <1>1, <1>p DEF Was_, n
  <2>2. Y[a] = X[a]
    BY <1>1, <1>4, <2>1
  <2>3. Out(bt[a], X[a]) = R
    BY <1>3, <1>p
  <2> QED
    BY <1>4, <2>1, <2>2, <2>3
<1>6. ASSUME NEW b \in Was_, b # a, bs[b] # <<>>
      PROVE  Out(bt[b], Y[b]) = Out(bs[b], X[b])
  <2>1. CASE b \in i.to
    <3>1. Len(bs[b]) = 1 /\ bs[b][1].id # Begin
      BY <1>6, <1>p, <2>1 DEF Was_, n
    <3>2. Out(bs[b], Y[b]) = {bs[b][1].id} /\ Out(bs[b], X[b]) = {bs[b][1].id}
      BY <3>1, OneRuns
    <3> QED
      BY <1>1, <1>6, <3>2
  <2>2. CASE b \notin i.to
    BY <1>1, <1>4, <1>6, <2>2
  <2> QED
    BY <2>1, <2>2
<1>7. \A e \in en : Begin \in Y[e[1]]
  BY <1>5 DEF Shut, Was_, n
<1>8. ASSUME NEW b \in Is, NEW c \in Exits(bt[b]) PROVE Out(bt[b], Y[b]) \subseteq Y[c]
  <2>1. CASE b = a
    <3>1. c \in i.to /\ c \in Is
      BY <1>3, <1>8, <1>p, <2>1 DEF Is, m
    <3>2. R \subseteq Y[c]
      BY <1>2, <1>4, <1>p, <3>1 DEF Was_, n
    <3> QED
      BY <1>5, <2>1, <3>2
  <2>2. CASE b \in Was_ /\ b # a
    <3>1. bt[b] = bs[b] /\ bs[b] # <<>> /\ c \in Was_
      BY <1>1, <1>8, <2>2 DEF Exits
    <3>2. Out(bs[b], X[b]) \subseteq X[c]
      BY <1>8, <2>2, <3>1 DEF Shut, Was_, n
    <3> QED
      BY <1>5, <1>6, <2>2, <3>1, <3>2
  <2>3. CASE b \in Fresh
    <3>1. Len(bt[b]) = 1 /\ bt[b][1].id # Begin /\ c \in Fresh /\ bt[b][1].id \in N[c]
      <4>1. bt[b] # <<>>
        BY <1>8 DEF Exits
      <4>2. Opened(bs, bt, b, fm, N)
        BY <1>p, <2>3 DEF Fresh, n, m
      <4> QED
        BY <1>8, <4>1, <4>2 DEF Opened, Fresh, n, m
    <3>2. Out(bt[b], Y[b]) = {bt[b][1].id}
      BY <3>1, OneRuns
    <3> QED
      BY <1>4, <3>1, <3>2
  <2> QED
    BY <1>2, <2>1, <2>2, <2>3
<1>9. ASSUME NEW e \in p PROVE Out(bt[e[1]], Y[e[1]]) \subseteq Y[e[2]]
  <2>1. CASE e \in o
    <3>1. /\ e[1] \in Was_ /\ e[2] \in Was_ /\ e[1] # a /\ bs[e[1]] # <<>>
          /\ Out(bs[e[1]], X[e[1]]) \subseteq X[e[2]]
      <4>1. Len(<<>>) # 1
        OBVIOUS
      <4> QED
        BY <2>1, <4>1 DEF Tests, Shut, Was_, n
    <3> QED
      BY <1>5, <1>6, <3>1
  <2>2. CASE e \notin o
    <3>1. e[1] \in Fresh /\ e[2] \in Fresh /\ Out(bt[e[1]], N[e[1]]) \subseteq N[e[2]]
      BY <1>o, <2>2 DEF Fresh, n, m
    <3> QED
      BY <1>4, <3>1
  <2> QED
    BY <2>1, <2>2
<1>10. ASSUME NEW b \in Is, NEW k \in 1 .. Stops(bt[b]), NEW x \in Ran(bt[b], Y[b], k - 1)
       PROVE  <<x, bt[b][k].id>> \in fm
  <2>1. CASE b = a
    <3>1. CASE k = Len(bs[a]) + 1
      <4>1. i.id # Begin /\ k - 1 = Len(bs[a]) /\ bt[b][k] = i
        BY <1>3, <1>10, <2>1, <3>1
      <4>2. x \in O
        <5>1. x \in Ran(bt[a], X[a], Len(bs[a]))
          BY <1>5, <1>10, <2>1, <4>1
        <5>2. Len(bs[a]) \in 0 .. Len(bs[a])
          BY <1>3
        <5>3. x \in Ran(bs[a], X[a], Len(bs[a]))
          BY <1>3, <5>1, <5>2
        <5> QED
          BY <1>3, <5>3 DEF Out
      <4> QED
        BY <1>p, <4>1, <4>2
    <3>2. CASE k # Len(bs[a]) + 1
      <4>1. k \in 1 .. Len(bs[a]) /\ k - 1 \in 0 .. Len(bs[a])
        BY <1>3, <1>10, <2>1, <3>2
      <4>2. x \in Ran(bs[a], X[a], k - 1) /\ bt[b][k] = bs[a][k]
        BY <1>3, <1>5, <1>10, <2>1, <4>1
      <4>3. k \in 1 .. Stops(bs[a]) /\ a \in 1 .. Len(bs)
        BY <1>1, <1>3, <4>1 DEF Was_, n
      <4> QED
        BY <4>2, <4>3 DEF Met
    <3> QED
      BY <3>1, <3>2
  <2>2. CASE b \in Was_ /\ b # a
    <3>1. bt[b] = bs[b] /\ k \in 1 .. Stops(bs[b]) /\ b \in 1 .. Len(bs)
      BY <1>1, <1>10, <2>2 DEF Was_, n
    <3>2. CASE x \in Ran(bs[b], X[b], k - 1)
      BY <3>1, <3>2 DEF Met
    <3>3. CASE x \notin Ran(bs[b], X[b], k - 1)
      <4>1. k = 1 /\ x \in Y[b] /\ x \notin X[b]
        BY <1>10, <3>1, <3>3 DEF Ran
      <4>2. b \in i.to /\ x \in R
        BY <1>4, <2>2, <4>1
      <4>3. bs[b] # <<>>
        <5>1. Stops(<<>>) = 0
          BY NoneRuns
        <5> QED
          BY <3>1, <5>1
      <4> QED
        BY <1>p, <2>2, <3>1, <4>1, <4>2, <4>3
    <3> QED
      BY <3>2, <3>3
  <2>3. CASE b \in Fresh
    <3>1. bt[b] # <<>>
      BY <1>10, NoneRuns
    <3>2. Opened(bs, bt, b, fm, N)
      BY <1>p, <2>3 DEF Fresh, n, m
    <3>3. Len(bt[b]) = 1 /\ bt[b][1].id # Begin /\ \A y \in N[b] : <<y, bt[b][1].id>> \in fm
      BY <3>1, <3>2 DEF Opened
    <3>4. Stops(bt[b]) = 1
      BY <3>3, OneRuns
    <3>5. k = 1 /\ k - 1 = 0
      BY <1>10, <3>4
    <3>6. x \in N[b]
      BY <1>4, <1>10, <2>3, <3>5 DEF Ran
    <3> QED
      BY <3>3, <3>5, <3>6
  <2> QED
    BY <1>2, <2>1, <2>2, <2>3
<1>11. Shut(bt, p, en, Y) /\ Met(bt, fm, Y)
  BY <1>7, <1>8, <1>9, <1>10 DEF Shut, Met, Is, m
<1> QED
  BY <1>4, <1>11 DEF Was_, Fresh, n, m, Grown
-----------------------------------------------------------------------------
(* What AppendRuns says of a block, of the block that grew. *)
LEMMA AddedThere ==
  ASSUME NEW A, NEW bs, NEW bt, NEW a, NEW i, Grows(A, bs, bt, a, i), Named(bs),
         ~Ended(bs[a]), NEW J
  PROVE  Added(bs[a], bt[a], i, J)
<1> DEFINE c == bs[a]
<1>1. c \in Seq(A) /\ ~Ended(c) /\ i \in A /\ bt[a] = Append(c, i)
  BY DEF Grows
<1>2. \A k \in 1 .. Len(c) : c[k].op \notin Terminators => c[k].id # Begin /\ c[k].to = {}
  BY DEF Named, Grows
<1> HIDE DEF c
<1>3. Added(c, bt[a], i, J)
  BY <1>1, <1>2, AppendRuns
<1> QED
  BY <1>3 DEF c

(* What is closed under the branches was so before there were more.        *)
LEMMA CarriedBack ==
  ASSUME NEW A, NEW bs, NEW bt, NEW a, NEW i, Grows(A, bs, bt, a, i), Named(bs),
         ~Ended(bs[a]), NEW o, NEW p, o \subseteq p, NEW en, NEW X,
         Shut(bt, p, en, X), \A e \in o : e[1] \in 1 .. Len(bs) /\ e[1] # a
  PROVE  Shut(bs, o, en, X)
<1>1. Exits(bs[a]) = {}
  BY AddedThere DEF Added
<1>2. \A b \in 1 .. Len(bs) : b # a => bt[b] = bs[b] /\ b \in 1 .. Len(bt)
  BY DEF Grows
<1>3. ASSUME NEW b \in 1 .. Len(bs), NEW c \in Exits(bs[b])
      PROVE  Out(bs[b], X[b]) \subseteq X[c]
  BY <1>1, <1>2, <1>3 DEF Shut
<1>4. ASSUME NEW e \in o PROVE Out(bs[e[1]], X[e[1]]) \subseteq X[e[2]]
  BY <1>2, <1>4 DEF Shut
<1> QED
  BY <1>3, <1>4 DEF Shut

(* What is met is met when there is more. *)
LEMMA MeetsMore ==
  ASSUME NEW A, NEW bs, NEW bt, NEW a, NEW i, Grows(A, bs, bt, a, i), Named(bs),
         ~Ended(bs[a]), NEW fl, NEW X, Meets(bs, fl, X)
  PROVE  Meets(bt, fl, X)
<1> SUFFICES ASSUME NEW e \in fl
             PROVE  \E b \in 1 .. Len(bt) : \E k \in 1 .. Stops(bt[b]) :
                      e[1] \in Ran(bt[b], X[b], k - 1) /\ e[2] = bt[b][k].id
  BY DEF Meets
<1>1. PICK b \in 1 .. Len(bs) : \E k \in 1 .. Stops(bs[b]) :
        e[1] \in Ran(bs[b], X[b], k - 1) /\ e[2] = bs[b][k].id
  BY DEF Meets
<1>2. PICK k \in 1 .. Stops(bs[b]) : e[1] \in Ran(bs[b], X[b], k - 1) /\ e[2] = bs[b][k].id
  BY <1>1
<1>3. b \in 1 .. Len(bt)
  BY DEF Grows
<1>4. CASE b # a
  BY <1>2, <1>3, <1>4 DEF Grows
<1>5. CASE b = a
  <2>1. Added(bs[a], bt[a], i, X[a])
    BY AddedThere
  <2>2. k \in 1 .. Len(bs[a]) /\ k - 1 \in 0 .. Len(bs[a]) /\ k \in 1 .. Stops(bt[a])
    BY <1>5, <2>1 DEF Added
  <2>3. Ran(bt[a], X[a], k - 1) = Ran(bs[a], X[a], k - 1) /\ bt[a][k] = bs[a][k]
    BY <2>1, <2>2 DEF Added
  <2> QED
    BY <1>2, <1>3, <1>5, <2>2, <2>3
<1> QED
  BY <1>4, <1>5

(* And what may have run last at a meets what is added there. *)
LEMMA MeetsNext ==
  ASSUME NEW A, NEW bs, NEW bt, NEW a, NEW i, Grows(A, bs, bt, a, i), Named(bs),
         ~Ended(bs[a]), NEW fl, NEW X, Meets(bs, fl, X), i.id # Begin,
         NEW pd, pd \subseteq Out(bs[a], X[a])
  PROVE  Meets(bt, fl \cup (pd \X {i.id}), X)
<1>1. Meets(bt, fl, X)
  BY MeetsMore
<1>2. Added(bs[a], bt[a], i, X[a])
  BY AddedThere
<1> DEFINE k == Len(bs[a]) + 1
<1>3. k \in 1 .. Stops(bt[a]) /\ k - 1 = Len(bs[a]) /\ bt[a][k] = i /\ a \in 1 .. Len(bt)
  BY <1>2 DEF Added, Grows
<1>4. pd \subseteq Ran(bt[a], X[a], k - 1)
  <2>1. Len(bs[a]) \in 0 .. Len(bs[a]) /\ Out(bs[a], X[a]) = Ran(bs[a], X[a], Len(bs[a]))
    BY <1>2 DEF Added, Out
  <2>2. Ran(bt[a], X[a], Len(bs[a])) = Ran(bs[a], X[a], Len(bs[a]))
    BY <1>2, <2>1 DEF Added
  <2> QED
    BY <1>3, <2>1, <2>2
<1> HIDE DEF k
<1>5. ASSUME NEW e \in pd \X {i.id}
      PROVE  e[1] \in Ran(bt[a], X[a], k - 1) /\ e[2] = bt[a][k].id
  BY <1>3, <1>4
<1> QED
  BY <1>1, <1>3, <1>5 DEF Meets

(* What may have run last before a block of one statement meets that. *)
LEMMA MeetsOne ==
  ASSUME NEW bt, NEW fl, NEW X, Meets(bt, fl, X), NEW b \in 1 .. Len(bt),
         Len(bt[b]) = 1, bt[b][1].id # Begin, NEW pd, pd \subseteq X[b]
  PROVE  Meets(bt, fl \cup (pd \X {bt[b][1].id}), X)
<1>1. Stops(bt[b]) = 1
  BY OneRuns
<1>2. 1 \in 1 .. Stops(bt[b]) /\ Ran(bt[b], X[b], 1 - 1) = X[b]
  BY <1>1 DEF Ran
<1>3. ASSUME NEW e \in pd \X {bt[b][1].id}
      PROVE  e[1] \in Ran(bt[b], X[b], 1 - 1) /\ e[2] = bt[b][1].id
  BY <1>2
<1> QED
  BY <1>2, <1>3 DEF Meets

(* Code with something behind it did not end. *)
LEMMA TidyOpen ==
  ASSUME NEW A, NEW bs, NEW bt, NEW a, NEW i, Grows(A, bs, bt, a, i),
         NEW l, NEW o, NEW w, Tidy(bt, l, o, w)
  PROVE  ~Ended(bs[a])
<1> SUFFICES ASSUME bs[a] # <<>> PROVE bs[a][Len(bs[a])].op \notin Terminators
  BY DEF Ended
<1> DEFINE c == bs[a]
<1>1. c \in Seq(A) /\ c # <<>> /\ i \in A /\ bt[a] = Append(c, i) /\ a \in 1 .. Len(bt)
  BY DEF Grows
<1> HIDE DEF c
<1>2. Len(c) \in 1 .. Len(bt[a]) - 1 /\ bt[a][Len(c)] = c[Len(c)]
  BY <1>1
<1> QED
  BY <1>1, <1>2 DEF Tidy, c

(* The blocks are tidy if they will be. *)
LEMMA TidyBefore ==
  ASSUME NEW A, NEW bs, NEW bt, NEW a, NEW i, Grows(A, bs, bt, a, i),
         NEW l, NEW o, NEW w, NEW m, NEW p, NEW v, Tidy(bt, m, p, v), Loose(a, l, o, w),
         \A b \in 1 .. Len(bs) : Loose(b, m, p, v) => Loose(b, l, o, w)
  PROVE  Tidy(bs, l, o, w)
<1>1. /\ \A b \in 1 .. Len(bs) : b # a => bt[b] = bs[b]
      /\ \A b \in 1 .. Len(bs) : b \in 1 .. Len(bt)
  BY DEF Grows
<1>2. ASSUME NEW b \in 1 .. Len(bs) PROVE Loose(b, l, o, w) \/ Ended(bs[b])
  BY <1>1 DEF Tidy
<1>3. ASSUME NEW b \in 1 .. Len(bs), NEW k \in 1 .. Len(bs[b]) - 1
      PROVE  bs[b][k].op \notin Terminators
  <2>1. CASE b # a
    BY <1>1, <1>3, <2>1 DEF Tidy
  <2>2. CASE b = a
    <3> DEFINE c == bs[a]
    <3>1. c \in Seq(A) /\ i \in A /\ bt[a] = Append(c, i) /\ a \in 1 .. Len(bt)
          /\ k \in 1 .. Len(c) - 1
      BY <1>3, <2>2 DEF Grows
    <3> HIDE DEF c
    <3>2. k \in 1 .. Len(bt[a]) - 1 /\ bt[a][k] = c[k]
      BY <3>1
    <3> QED
      BY <2>2, <3>1, <3>2 DEF Tidy, c
  <2> QED
    BY <2>1, <2>2
<1> QED
  BY <1>2, <1>3 DEF Tidy
-----------------------------------------------------------------------------
(* What is owed, awaited and looped to stays what it is when code goes on. *)
LEMMA BonesGrow ==
  ASSUME NEW A, NEW bs, NEW bt, NEW a, NEW i, Grows(A, bs, bt, a, i),
         NEW l, NEW o, NEW w, NEW h, Bones(bs, l, o, w, h),
         \A e \in o : e[1] # a, \A x \in w : x[1] # a, \A x \in h : x[1] # a,
         i.op \notin Terminators => i.id # Begin /\ i.to = {},
         \A b \in Len(bs) + 1 .. Len(bt) : \A k \in 1 .. Len(bt[b]) :
           bt[b][k].op \notin Terminators => bt[b][k].id # Begin /\ bt[b][k].to = {},
         NEW m, NEW p, NEW v, NEW g,
         \A e \in p : \/ e \in o
                      \/ /\ e[1] \in 1 .. Len(bt) /\ e[2] \in 1 .. Len(bt)
                         /\ Len(bt[e[1]]) = 1 /\ bt[e[1]][1].op \notin Terminators
                         /\ bt[e[1]][1].id = e[3],
         \A x \in v : \/ \E y \in w : x[1] = y[1]
                      \/ x[1] \in Len(bs) + 1 .. Len(bt) /\ bt[x[1]] = <<>>,
         \A x \in g : \/ x \in h /\ x[1] # m
                      \/ /\ x[1] \in 1 .. Len(bt) /\ x[1] # m /\ Len(bt[x[1]]) = 1
                         /\ bt[x[1]][1].op \in Terminators
                         /\ bt[x[1]][1].id = x[2] /\ x[2] # Begin
  PROVE  Bones(bt, m, p, v, g)
<1>1. /\ \A b \in 1 .. Len(bs) : b # a => bt[b] = bs[b]
      /\ \A b \in 1 .. Len(bs) : b \in 1 .. Len(bt)
      /\ \A b \in 1 .. Len(bt) : b \in 1 .. Len(bs) \/ b \in Len(bs) + 1 .. Len(bt)
      /\ \A b \in Len(bs) + 1 .. Len(bt) : b \in 1 .. Len(bt)
  BY DEF Grows
<1>2. ASSUME NEW k \in 1 .. Len(bt[a]), bt[a][k].op \notin Terminators
      PROVE  bt[a][k].id # Begin /\ bt[a][k].to = {}
  <2> DEFINE c == bs[a]
  <2>1. c \in Seq(A) /\ i \in A /\ bt[a] = Append(c, i) /\ a \in 1 .. Len(bs)
    BY DEF Grows
  <2> HIDE DEF c
  <2>2. \/ k \in 1 .. Len(c) /\ bt[a][k] = c[k]
        \/ bt[a][k] = i
    BY <2>1, <1>2, AppendIs
  <2> QED
    BY <1>2, <2>1, <2>2 DEF Bones, Named, c
<1>3. Named(bt)
  <2> SUFFICES ASSUME NEW b \in 1 .. Len(bt), NEW k \in 1 .. Len(bt[b]),
                      bt[b][k].op \notin Terminators
               PROVE  bt[b][k].id # Begin /\ bt[b][k].to = {}
    BY DEF Named
  <2>1. CASE b = a
    BY <1>2, <2>1
  <2>2. CASE b \in 1 .. Len(bs) /\ b # a
    BY <1>1, <2>2 DEF Bones, Named
  <2>3. CASE b \in Len(bs) + 1 .. Len(bt)
    BY <2>3
  <2> QED
    BY <1>1, <2>1, <2>2, <2>3
<1>4. \A e \in p : /\ e[1] \in 1 .. Len(bt) /\ e[2] \in 1 .. Len(bt)
                   /\ Len(bt[e[1]]) = 1 /\ bt[e[1]][1].op \notin Terminators
                   /\ bt[e[1]][1].id = e[3]
  BY <1>1 DEF Bones
<1>5. \A x \in v : x[1] \in 1 .. Len(bt) /\ bt[x[1]] = <<>>
  BY <1>1 DEF Bones
<1>6. \A x \in g : /\ x[1] \in 1 .. Len(bt) /\ x[1] # m /\ Len(bt[x[1]]) = 1
                   /\ bt[x[1]][1].op \in Terminators
                   /\ bt[x[1]][1].id = x[2] /\ x[2] # Begin
  BY <1>1 DEF Bones
<1> QED
  BY <1>3, <1>4, <1>5, <1>6 DEF Bones

(* The condition of a loop is the only statement of its start. *)
LEMMA TestsAre ==
  ASSUME NEW bs, NEW l, NEW o, NEW w, NEW h, Bones(bs, l, o, w, h)
  PROVE  Tests(bs, o)
<1> SUFFICES ASSUME NEW e \in o PROVE bs[e[1]][1].id # Begin
  BY DEF Tests, Bones
<1>1. e[1] \in 1 .. Len(bs) /\ Len(bs[e[1]]) = 1 /\ bs[e[1]][1].op \notin Terminators
  BY DEF Bones
<1>2. 1 \in 1 .. Len(bs[e[1]])
  BY <1>1
<1> QED
  BY <1>1, <1>2 DEF Bones, Named

(* The places of the code that nothing else is said about. *)
Free(l, o, w) == (\A e \in o : e[1] # l) /\ (\A x \in w : x[1] # l)

(* The same when there are no new blocks. *)
Joined(bs, T, R, X, Y) ==
  \A b \in 1 .. Len(bs) : Y[b] = IF b \in T THEN X[b] \cup R ELSE X[b]

(* What may have run last is the same in two assignments but in O, to      *)
(* which a branch leads, where it grows by what the branch carries.        *)
Near(bs, a, i, O, R, fm) ==
  /\ R = IF i.id = Begin THEN O ELSE {i.id}
  /\ i.id # Begin => \A x \in O : <<x, i.id>> \in fm
  /\ \A b \in i.to :
       /\ b \in 1 .. Len(bs) /\ b # a
       /\ \/ bs[b] = <<>>
          \/ /\ Len(bs[b]) = 1 /\ bs[b][1].id # Begin
             /\ \A x \in R : <<x, bs[b][1].id>> \in fm

(* A way to carry along the branches of the blocks is one of the blocks    *)
(* with a branch added, when the branch's target had it already.           *)
LEMMA CarriedThere ==
  ASSUME NEW A, NEW bs, NEW bt, NEW a, NEW i, Grows(A, bs, bt, a, i), Named(bs),
         ~Ended(bs[a]), Len(bt) = Len(bs),
         NEW o, NEW en, NEW fl, NEW fm, fl \subseteq fm, NEW X,
         Shut(bs, o, en, X), Met(bs, fl, X),
         \A e \in en : e[1] \in 1 .. Len(bs), Tests(bs, o), \A e \in o : e[1] # a,
         NEW O, O = Out(bs[a], X[a]), NEW R, Near(bs, a, i, O, R, fm)
  PROVE  \E Y : Shut(bt, o, en, Y) /\ Met(bt, fm, Y) /\ Joined(bs, i.to, R, X, Y)
<1>1. PICK N : N = [b \in {} |-> {}]
  OBVIOUS
<1>2. Len(bs) + 1 .. Len(bt) = {}
  BY DEF Grows
<1>3. /\ \A b \in Len(bs) + 1 .. Len(bt) : Opened(bs, bt, b, fm, N)
      /\ \A b \in i.to : b \in 1 .. Len(bt) /\ (b \notin 1 .. Len(bs) => R \subseteq N[b])
  BY <1>2 DEF Near
<1>4. Paths(bs, bt, a, i, O, R, fm, N) /\ Owing(bs, bt, o, o, N)
  BY <1>3 DEF Paths, Owing, Near
<1>5. \E Y : Shut(bt, o, en, Y) /\ Met(bt, fm, Y) /\ Grown(bs, bt, i.to, R, X, N, Y)
  BY <1>4, CarriedOn
<1> QED
  BY <1>5 DEF Grown, Joined

(* A statement that is no branch is met by all that may have run last.     *)
LEMMA FlowStraight ==
  ASSUME NEW A, NEW bs, NEW bt, NEW l, NEW i, Grows(A, bs, bt, l, i), Len(bt) = Len(bs),
         NEW o, NEW w, NEW h, Free(l, o, w),
         NEW en, \A e \in en : e[1] \in 1 .. Len(bs),
         i.id # Begin, i.to = {},
         NEW fl, NEW pd, Fits(bs, l, o, w, h, en, fl, {l}, pd),
         NEW qd, qd = IF i.op \in Terminators THEN {} ELSE {i.id}
  PROVE  Fits(bt, l, o, w, h, en, fl \cup (pd \X {i.id}), {l}, qd)
<1>0. Bones(bs, l, o, w, h) /\ Flows(bs, l, o, w, en, fl, {l}, pd)
  BY DEF Fits
<1> USE <1>0
<1> DEFINE fm == fl \cup (pd \X {i.id})
<1>1. Len(bs) \in Nat /\ Len(bs) + 1 .. Len(bt) = {} /\ l \in 1 .. Len(bs)
  BY DEF Grows
<1>2. \A x \in h : x[1] # l
  BY DEF Bones
<1>3. Bones(bt, l, o, w, h)
  BY <1>1, <1>2, BonesGrow DEF Free
<1>4. ASSUME Tidy(bt, l, o, w)
      PROVE  Sound(bt, o, w, en, fm, {l}, qd) /\ Complete(bt, o, w, en, fm, {l}, qd)
  <2>1. ~Ended(bs[l]) /\ Named(bs) /\ Tests(bs, o)
    BY <1>4, TidyOpen, TestsAre DEF Bones
  <2>2. Tidy(bs, l, o, w)
    BY <1>4, TidyBefore DEF Loose
  <2>3. Sound(bs, o, w, en, fl, {l}, pd) /\ Complete(bs, o, w, en, fl, {l}, pd)
    BY <2>2 DEF Flows
  <2>4. \A J : Added(bs[l], bt[l], i, J)
    BY <2>1, AddedThere
  <2>5. Sound(bt, o, w, en, fm, {l}, qd)
    <3>1. PICK X : Carries(bs, o, w, en, fl, {l}, pd, X)
      BY <2>3 DEF Sound
    <3>2. \A x \in Out(bs[l], X[l]) : <<x, i.id>> \in fm
      BY <2>1, <3>1 DEF Carries, Brings
    <3>3. fl \subseteq fm
      OBVIOUS
    <3> HIDE DEF fm
    <3>4. PICK Y : /\ Shut(bt, o, en, Y) /\ Met(bt, fm, Y)
                   /\ \A b \in 1 .. Len(bs) : Y[b] = X[b]
      <4>1. Shut(bs, o, en, X) /\ Met(bs, fl, X) /\ \A e \in o : e[1] # l
        BY <3>1 DEF Carries, Free
      <4>2. Near(bs, l, i, Out(bs[l], X[l]), {i.id}, fm)
        BY <3>2 DEF Near
      <4>3. \E Y : Shut(bt, o, en, Y) /\ Met(bt, fm, Y) /\ Joined(bs, i.to, {i.id}, X, Y)
        BY <2>1, <3>3, <4>1, <4>2, CarriedThere
      <4> QED
        BY <4>3 DEF Joined
    <3>6. \A x \in w : Y[x[1]] \subseteq x[2]
      BY <3>1, <3>4 DEF Carries, Bones
    <3>7. Brings(bt, {l}, qd, Y)
      BY <2>4 DEF Brings, Added
    <3>8. Carries(bt, o, w, en, fm, {l}, qd, Y)
      BY <3>4, <3>6, <3>7 DEF Carries
    <3> QED
      BY <3>8 DEF Sound
  <2>6. Complete(bt, o, w, en, fm, {l}, qd)
    <3> SUFFICES ASSUME NEW X, Shut(bt, o, en, X)
                 PROVE  /\ Meets(bt, fm, X)
                        /\ \A x \in w : x[2] \subseteq X[x[1]]
                        /\ Brought(bt, {l}, qd, X)
      BY DEF Complete
    <3>1. Shut(bs, o, en, X)
      BY <2>1, CarriedBack DEF Free, Tests
    <3>2. /\ Meets(bs, fl, X) /\ Brought(bs, {l}, pd, X)
          /\ \A x \in w : x[2] \subseteq X[x[1]]
      BY <2>3, <3>1 DEF Complete
    <3>3. pd \subseteq Out(bs[l], X[l])
      BY <2>1, <3>2 DEF Brought
    <3>4. Meets(bt, fm, X)
      BY <2>1, <3>2, <3>3, MeetsNext
    <3>5. Brought(bt, {l}, qd, X)
      BY <2>4 DEF Brought, Added
    <3> QED
      BY <3>2, <3>4, <3>5
  <2> QED
    BY <2>5, <2>6
<1> QED
  BY <1>3, <1>4 DEF Flows, Fits
-----------------------------------------------------------------------------
(* What waits at e, and where code goes on next, after pd ran to e too.    *)
Handed(w, v, e, M, pd) == \A x \in v : (x \in w /\ x[1] # e) \/ x = <<e, M \cup pd>>
NextAt(w, e, M, pd, q, m, qd) ==
  \/ q = {}
  \/ q = {m} /\ m = e /\ qd = M \cup pd
  \/ q = {m} /\ m # e /\ <<m, qd>> \in w

(* An arm, or a branch of a match, goes on to the block that waits for its *)
(* end: what may have run last in it is added to what may have already.    *)
LEMMA FlowCloses ==
  ASSUME NEW A, NEW bs, NEW bt, NEW l, NEW i, Grows(A, bs, bt, l, i), Len(bt) = Len(bs),
         NEW o, NEW w, NEW h, Free(l, o, w),
         NEW en, \A x \in en : x[1] \in 1 .. Len(bs),
         NEW e, NEW M, <<e, M>> \in w, i.id = Begin, i.to = {e}, i.op \in Terminators,
         NEW fl, NEW pd, Fits(bs, l, o, w, h, en, fl, {l}, pd),
         NEW v, NEW g, g \subseteq h, NEW m, m = l \/ \E x \in w : x[1] = m,
         NEW q, NEW qd, Handed(w, v, e, M, pd), NextAt(w, e, M, pd, q, m, qd)
  PROVE  Fits(bt, m, o, v, g, en, fl, q, qd)
<1>0. Bones(bs, l, o, w, h) /\ Flows(bs, l, o, w, en, fl, {l}, pd)
  BY DEF Fits
<1> USE <1>0
<1>1. Len(bs) \in Nat /\ Len(bs) + 1 .. Len(bt) = {} /\ l \in 1 .. Len(bs)
  BY DEF Grows
<1>2. \A x \in h : x[1] # l /\ x[1] # m
  <2>1. Len(<<>>) # 1
    OBVIOUS
  <2> QED
    BY <2>1 DEF Bones
<1>3. \A x \in v : \E y \in w : x[1] = y[1]
  BY DEF Handed
<1>4. Bones(bt, m, o, v, g)
  BY <1>1, <1>2, <1>3, BonesGrow DEF Free
<1>e. e \in 1 .. Len(bs) /\ bs[e] = <<>> /\ e # l /\ bt[e] = <<>>
  BY DEF Bones, Free, Grows
<1>m. q # {} => m \in 1 .. Len(bs) /\ bs[m] = <<>> /\ m # l /\ bt[m] = <<>>
  <2>1. ASSUME <<m, qd>> \in w PROVE m \in 1 .. Len(bs) /\ bs[m] = <<>> /\ m # l
    <3>1. <<m, qd>>[1] = m
      OBVIOUS
    <3> QED
      BY <2>1, <3>1 DEF Bones, Free
  <2> QED
    BY <1>e, <2>1 DEF NextAt, Grows
<1>n. \A J : Out(<<>>, J) = J
  BY NoneRuns
<1>5. ASSUME Tidy(bt, m, o, v)
      PROVE  Sound(bt, o, v, en, fl, q, qd) /\ Complete(bt, o, v, en, fl, q, qd)
  <2>1. ~Ended(bs[l]) /\ Named(bs) /\ Tests(bs, o)
    BY <1>5, TidyOpen, TestsAre DEF Bones
  <2>2. Tidy(bs, l, o, w)
    <3>1. \A b \in 1 .. Len(bs) : Loose(b, m, o, v) => Loose(b, l, o, w)
      BY <1>3, Zenon DEF Loose
    <3>2. Loose(l, l, o, w)
      BY DEF Loose
    <3> QED
      BY <1>5, <3>1, <3>2, TidyBefore
  <2>3. Sound(bs, o, w, en, fl, {l}, pd) /\ Complete(bs, o, w, en, fl, {l}, pd)
    BY <2>2 DEF Flows
  <2>4. ASSUME NEW J PROVE Out(bt[l], J) = Out(bs[l], J) /\ Exits(bt[l]) = {e}
    <3>1. Added(bs[l], bt[l], i, J)
      BY <2>1, AddedThere
    <3> QED
      BY <3>1 DEF Added
  <2>5. Sound(bt, o, v, en, fl, q, qd)
    <3>1. PICK X : Carries(bs, o, w, en, fl, {l}, pd, X)
      BY <2>3 DEF Sound
    <3> DEFINE O == Out(bs[l], X[l])
    <3>2. O \subseteq pd /\ X[e] \subseteq M
      <4>1. <<e, M>>[1] = e /\ <<e, M>>[2] = M
        OBVIOUS
      <4> QED
        BY <2>1, <3>1, <4>1 DEF Carries, Brings
    <3>3. Near(bs, l, i, O, O, fl)
      BY <1>e DEF Near
    <3>4. Shut(bs, o, en, X) /\ Met(bs, fl, X) /\ (\A x \in o : x[1] # l) /\ fl \subseteq fl
      BY <3>1 DEF Carries, Free
    <3>5. \E Y : Shut(bt, o, en, Y) /\ Met(bt, fl, Y) /\ Joined(bs, i.to, O, X, Y)
      BY <2>1, <3>3, <3>4, CarriedThere
    <3>6. PICK Y : Shut(bt, o, en, Y) /\ Met(bt, fl, Y) /\ Joined(bs, i.to, O, X, Y)
      BY <3>5
    <3>7. Y[e] \subseteq M \cup pd /\ \A b \in 1 .. Len(bs) : b # e => Y[b] = X[b]
      BY <1>e, <3>2, <3>6 DEF Joined
    <3>8. \A x \in w : x[1] \in 1 .. Len(bs) /\ X[x[1]] \subseteq x[2]
      BY <3>1 DEF Carries, Bones
    <3> HIDE DEF O
    <3>9. \A x \in v : Y[x[1]] \subseteq x[2]
      <4>1. <<e, M \cup pd>>[1] = e /\ <<e, M \cup pd>>[2] = M \cup pd
        OBVIOUS
      <4> QED
        BY <3>7, <3>8, <4>1 DEF Handed
    <3>10. Brings(bt, q, qd, Y)
      <4>1. <<m, qd>>[1] = m /\ <<m, qd>>[2] = qd
        OBVIOUS
      <4>2. ASSUME q # {} PROVE Y[m] \subseteq qd
        BY <3>7, <3>8, <4>1, <4>2 DEF NextAt
      <4>3. ASSUME q # {} PROVE Out(bt[m], Y[m]) \subseteq qd
        BY <1>m, <1>n, <4>2, <4>3
      <4> QED
        BY <4>3 DEF Brings, NextAt
    <3>11. Carries(bt, o, v, en, fl, q, qd, Y)
      BY <3>6, <3>9, <3>10 DEF Carries
    <3> QED
      BY <3>11 DEF Sound
  <2>6. Complete(bt, o, v, en, fl, q, qd)
    <3> SUFFICES ASSUME NEW X, Shut(bt, o, en, X)
                 PROVE  /\ Meets(bt, fl, X)
                        /\ \A x \in v : x[2] \subseteq X[x[1]]
                        /\ Brought(bt, q, qd, X)
      BY DEF Complete
    <3>1. Shut(bs, o, en, X)
      BY <2>1, CarriedBack DEF Free, Tests
    <3>2. /\ Meets(bs, fl, X) /\ Brought(bs, {l}, pd, X)
          /\ \A x \in w : x[2] \subseteq X[x[1]]
      BY <2>3, <3>1 DEF Complete
    <3>3. pd \subseteq Out(bs[l], X[l])
      BY <2>1, <3>2 DEF Brought
    <3>4. M \cup pd \subseteq X[e]
      <4>1. <<e, M>>[1] = e /\ <<e, M>>[2] = M
        OBVIOUS
      <4>2. Out(bt[l], X[l]) \subseteq X[e]
        BY <1>1, <2>4 DEF Shut, Grows
      <4> QED
        BY <2>4, <3>2, <3>3, <4>1, <4>2
    <3>5. Meets(bt, fl, X)
      BY <2>1, <3>2, MeetsMore
    <3>6. \A x \in v : x[2] \subseteq X[x[1]]
      <4>1. <<e, M \cup pd>>[1] = e /\ <<e, M \cup pd>>[2] = M \cup pd
        OBVIOUS
      <4> QED
        BY <3>2, <3>4, <4>1 DEF Handed
    <3>7. Brought(bt, q, qd, X)
      <4>1. <<m, qd>>[1] = m /\ <<m, qd>>[2] = qd
        OBVIOUS
      <4>2. ASSUME q # {} PROVE qd \subseteq X[m]
        BY <3>2, <3>4, <4>1, <4>2 DEF NextAt
      <4>3. ASSUME q # {} PROVE qd \subseteq Out(bt[m], X[m]) /\ ~Ended(bt[m])
        BY <1>m, <1>n, <4>2, <4>3, NoneRuns
      <4> QED
        BY <4>3 DEF Brought, NextAt
    <3> QED
      BY <3>5, <3>6, <3>7
  <2> QED
    BY <2>5, <2>6
<1> QED
  BY <1>4, <1>5 DEF Flows, Fits

(* An arm that ended in a return does not. *)
LEMMA FlowStops ==
  ASSUME NEW bs, NEW l, l \in 1 .. Len(bs),
         NEW o, NEW w, NEW h, Free(l, o, w),
         NEW en, NEW e, NEW M, <<e, M>> \in w,
         NEW fl, NEW pd, Fits(bs, l, o, w, h, en, fl, {l}, pd),
         NEW v, NEW g, g \subseteq h, NEW m, \E x \in w : x[1] = m,
         NEW q, NEW qd, Handed(w, v, e, M, pd), NextAt(w, e, M, pd, q, m, qd)
  PROVE  Fits(bs, m, o, v, g, en, fl, q, qd)
<1>0. Bones(bs, l, o, w, h) /\ Flows(bs, l, o, w, en, fl, {l}, pd)
  BY DEF Fits
<1> USE <1>0
<1>1. m # l /\ m \in 1 .. Len(bs) /\ bs[m] = <<>>
  BY DEF Free, Bones
<1>2. \A x \in h : x[1] # m
  <2>1. Len(<<>>) # 1
    OBVIOUS
  <2> QED
    BY <1>1, <2>1 DEF Bones
<1>3. \A x \in v : \E y \in w : x[1] = y[1]
  BY DEF Handed
<1>4. Bones(bs, m, o, v, g)
  BY <1>2, <1>3 DEF Bones
<1>n. ~Ended(<<>>) /\ \A J : Out(<<>>, J) = J
  BY NoneRuns
<1>p. /\ <<e, M>>[1] = e /\ <<e, M>>[2] = M
      /\ <<e, M \cup pd>>[1] = e /\ <<e, M \cup pd>>[2] = M \cup pd
      /\ <<m, qd>>[1] = m /\ <<m, qd>>[2] = qd
  OBVIOUS
<1>5. ASSUME Tidy(bs, m, o, v)
      PROVE  Sound(bs, o, v, en, fl, q, qd) /\ Complete(bs, o, v, en, fl, q, qd)
  <2>1. Ended(bs[l])
    <3>1. ~Loose(l, m, o, v)
      BY <1>1, <1>3 DEF Loose, Free
    <3> QED
      BY <1>5, <3>1 DEF Tidy
  <2>2. Tidy(bs, l, o, w)
    <3>1. \A b \in 1 .. Len(bs) : Loose(b, m, o, v) => Loose(b, l, o, w)
      BY <1>3 DEF Loose
    <3> QED
      BY <1>5, <3>1 DEF Tidy
  <2>3. Sound(bs, o, w, en, fl, {l}, pd) /\ Complete(bs, o, w, en, fl, {l}, pd)
    BY <2>2 DEF Flows
  <2>5. Sound(bs, o, v, en, fl, q, qd)
    <3>1. PICK X : Carries(bs, o, w, en, fl, {l}, pd, X)
      BY <2>3 DEF Sound
    <3>2. X[e] \subseteq M \cup pd /\ \A x \in w : X[x[1]] \subseteq x[2]
      BY <1>p, <3>1 DEF Carries
    <3>3. \A x \in v : X[x[1]] \subseteq x[2]
      BY <1>p, <3>2 DEF Handed
    <3>4. q # {} => X[m] \subseteq qd
      BY <1>p, <3>2 DEF NextAt
    <3>5. Brings(bs, q, qd, X)
      BY <1>1, <1>n, <3>4 DEF Brings, NextAt
    <3>6. Carries(bs, o, v, en, fl, q, qd, X)
      BY <3>1, <3>3, <3>5 DEF Carries
    <3> QED
      BY <3>6 DEF Sound
  <2>6. Complete(bs, o, v, en, fl, q, qd)
    <3> SUFFICES ASSUME NEW X, Shut(bs, o, en, X)
                 PROVE  /\ Meets(bs, fl, X)
                        /\ \A x \in v : x[2] \subseteq X[x[1]]
                        /\ Brought(bs, q, qd, X)
      BY DEF Complete
    <3>1. /\ Meets(bs, fl, X) /\ Brought(bs, {l}, pd, X)
          /\ \A x \in w : x[2] \subseteq X[x[1]]
      BY <2>3 DEF Complete
    <3>2. pd = {}
      BY <2>1, <3>1 DEF Brought
    <3>3. M \cup pd \subseteq X[e]
      BY <1>p, <3>1, <3>2
    <3>4. \A x \in v : x[2] \subseteq X[x[1]]
      BY <1>p, <3>1, <3>3 DEF Handed
    <3>5. q # {} => qd \subseteq X[m]
      BY <1>p, <3>1, <3>3 DEF NextAt
    <3>6. Brought(bs, q, qd, X)
      BY <1>1, <1>n, <3>5 DEF Brought, NextAt
    <3> QED
      BY <3>1, <3>4, <3>6
  <2> QED
    BY <2>5, <2>6
<1> QED
  BY <1>4, <1>5 DEF Flows, Fits
-----------------------------------------------------------------------------
(* The loop of e and c is left, to go on at m. *)
Turned(w, v, h, g, e, c, m, qd) ==
  <<e, c>> \in h /\ v \subseteq w /\ g \subseteq h /\ <<m, qd>> \in w

(* The end of a loop's body goes back to the condition, and the code goes  *)
(* on in a block that waits.                                               *)
LEMMA FlowLoops ==
  ASSUME NEW A, NEW bs, NEW bt, NEW l, NEW i, Grows(A, bs, bt, l, i), Len(bt) = Len(bs),
         NEW o, NEW w, NEW h, Free(l, o, w),
         NEW en, \A x \in en : x[1] \in 1 .. Len(bs),
         NEW e, NEW c, i.id = Begin, i.to = {e}, i.op \in Terminators,
         NEW fl, NEW pd, Fits(bs, l, o, w, h, en, fl, {l}, pd),
         NEW v, NEW g, NEW m, NEW qd, Turned(w, v, h, g, e, c, m, qd)
  PROVE  Fits(bt, m, o, v, g, en, fl \cup (pd \X {c}), {m}, qd)
<1>0. Bones(bs, l, o, w, h) /\ Flows(bs, l, o, w, en, fl, {l}, pd)
  BY DEF Fits
<1>t. <<e, c>> \in h /\ v \subseteq w /\ g \subseteq h /\ <<m, qd>> \in w
  BY DEF Turned
<1> USE <1>0, <1>t
<1> DEFINE fm == fl \cup (pd \X {c})
<1>1. Len(bs) \in Nat /\ Len(bs) + 1 .. Len(bt) = {} /\ l \in 1 .. Len(bs)
  BY DEF Grows
<1>p. /\ <<e, c>>[1] = e /\ <<e, c>>[2] = c /\ <<m, qd>>[1] = m /\ <<m, qd>>[2] = qd
      /\ Len(<<>>) # 1
  OBVIOUS
<1>e. /\ e \in 1 .. Len(bs) /\ e # l /\ Len(bs[e]) = 1 /\ bs[e][1].id = c /\ c # Begin
      /\ bt[e] = bs[e] /\ e \in 1 .. Len(bt)
  BY <1>p DEF Bones, Grows
<1>m. m \in 1 .. Len(bs) /\ bs[m] = <<>> /\ m # l /\ bt[m] = <<>> /\ m # e
  <2>1. m \in 1 .. Len(bs) /\ bs[m] = <<>> /\ m # l
    BY <1>p DEF Bones, Free
  <2> QED
    BY <1>p, <1>e, <2>1 DEF Grows
<1>2. \A x \in h : x[1] # l /\ x[1] # m
  BY <1>m, <1>p DEF Bones
<1>4. Bones(bt, m, o, v, g)
  BY <1>1, <1>2, BonesGrow DEF Free
<1>n. ~Ended(<<>>) /\ \A J : Out(<<>>, J) = J
  BY NoneRuns
<1>5. ASSUME Tidy(bt, m, o, v)
      PROVE  Sound(bt, o, v, en, fm, {m}, qd) /\ Complete(bt, o, v, en, fm, {m}, qd)
  <2>1. ~Ended(bs[l]) /\ Named(bs) /\ Tests(bs, o)
    BY <1>5, TidyOpen, TestsAre DEF Bones
  <2>2. Tidy(bs, l, o, w)
    <3>1. \A b \in 1 .. Len(bs) : Loose(b, m, o, v) => Loose(b, l, o, w)
      BY <1>p, Zenon DEF Loose
    <3>2. Loose(l, l, o, w)
      BY DEF Loose
    <3> QED
      BY <1>5, <3>1, <3>2, TidyBefore
  <2>3. Sound(bs, o, w, en, fl, {l}, pd) /\ Complete(bs, o, w, en, fl, {l}, pd)
    BY <2>2 DEF Flows
  <2>4. ASSUME NEW J PROVE Out(bt[l], J) = Out(bs[l], J) /\ Exits(bt[l]) = {e}
    <3>1. Added(bs[l], bt[l], i, J)
      BY <2>1, AddedThere
    <3> QED
      BY <3>1 DEF Added
  <2>5. Sound(bt, o, v, en, fm, {m}, qd)
    <3>1. PICK X : Carries(bs, o, w, en, fl, {l}, pd, X)
      BY <2>3 DEF Sound
    <3> DEFINE O == Out(bs[l], X[l])
    <3>2. O \subseteq pd
      BY <2>1, <3>1 DEF Carries, Brings
    <3>3. Near(bs, l, i, O, O, fm)
      BY <1>e, <3>2 DEF Near
    <3>4. Shut(bs, o, en, X) /\ Met(bs, fl, X) /\ (\A x \in o : x[1] # l) /\ fl \subseteq fm
      BY <3>1 DEF Carries, Free
    <3> HIDE DEF fm
    <3>5. \E Y : Shut(bt, o, en, Y) /\ Met(bt, fm, Y) /\ Joined(bs, i.to, O, X, Y)
      BY <2>1, <3>3, <3>4, CarriedThere
    <3>6. PICK Y : Shut(bt, o, en, Y) /\ Met(bt, fm, Y) /\ Joined(bs, i.to, O, X, Y)
      BY <3>5
    <3>7. \A b \in 1 .. Len(bs) : b # e => Y[b] = X[b]
      BY <1>e, <3>6 DEF Joined
    <3>8. \A x \in w : x[1] \in 1 .. Len(bs) /\ x[1] # e /\ X[x[1]] \subseteq x[2]
      <4>1. \A x \in w : x[1] \in 1 .. Len(bs) /\ X[x[1]] \subseteq x[2]
        BY <3>1 DEF Carries, Bones
      <4>2. \A x \in w : x[1] # e
        BY <1>e, <1>p DEF Bones
      <4> QED
        BY <4>1, <4>2
    <3>9. \A x \in v : Y[x[1]] \subseteq x[2]
      BY <3>7, <3>8
    <3>10. Brings(bt, {m}, qd, Y)
      <4>1. Y[m] \subseteq qd
        BY <1>m, <1>p, <3>7, <3>8
      <4> QED
        BY <1>m, <1>n, <4>1 DEF Brings
    <3>11. Carries(bt, o, v, en, fm, {m}, qd, Y)
      BY <3>6, <3>9, <3>10 DEF Carries
    <3> QED
      BY <3>11 DEF Sound
  <2>6. Complete(bt, o, v, en, fm, {m}, qd)
    <3> SUFFICES ASSUME NEW X, Shut(bt, o, en, X)
                 PROVE  /\ Meets(bt, fm, X)
                        /\ \A x \in v : x[2] \subseteq X[x[1]]
                        /\ Brought(bt, {m}, qd, X)
      BY DEF Complete
    <3>1. Shut(bs, o, en, X)
      BY <2>1, CarriedBack DEF Free, Tests
    <3>2. /\ Meets(bs, fl, X) /\ Brought(bs, {l}, pd, X)
          /\ \A x \in w : x[2] \subseteq X[x[1]]
      BY <2>3, <3>1 DEF Complete
    <3>3. pd \subseteq Out(bs[l], X[l])
      BY <2>1, <3>2 DEF Brought
    <3>4. pd \subseteq X[e]
      <4>2. Out(bt[l], X[l]) \subseteq X[e]
        BY <1>1, <2>4 DEF Shut, Grows
      <4> QED
        BY <2>4, <3>3, <4>2
    <3>5. Meets(bt, fl, X)
      BY <2>1, <3>2, MeetsMore
    <3>6. Meets(bt, fm, X)
      <4>1. Meets(bt, fl \cup (pd \X {bt[e][1].id}), X)
        BY <1>e, <3>4, <3>5, MeetsOne
      <4> QED
        BY <1>e, <4>1
    <3>7. Brought(bt, {m}, qd, X)
      <4>1. qd \subseteq X[m]
        BY <1>p, <3>2
      <4> QED
        BY <1>m, <1>n, <4>1 DEF Brought
    <3> QED
      BY <3>2, <3>6, <3>7
  <2> QED
    BY <2>5, <2>6
<1> QED
  BY <1>4, <1>5 DEF Flows, Fits
-----------------------------------------------------------------------------
(* The new blocks of a conditional, a loop or a match, the condition of    *)
(* which is c: N[b] is what may have run last where the new block b begins.*)
Fresh(bs, bt) == Len(bs) + 1 .. Len(bt)

(* The new blocks of a loop, of a conditional or of a match: what is in    *)
(* them, where they lead, and what they owe.                               *)
Opening(bs, bt, o, p, i, c, pd, N) ==
  /\ c # Begin /\ i.op \in Terminators /\ i.id \in {Begin, c}
  /\ \A b \in i.to : b \in Fresh(bs, bt) /\ N[b] = IF i.id = Begin THEN pd ELSE {c}
  /\ i.id = Begin => \E b \in i.to : bt[b] # <<>>
  /\ \A b \in Fresh(bs, bt) :
       \/ bt[b] = <<>>
       \/ /\ Len(bt[b]) = 1 /\ bt[b][1].id = c /\ N[b] = pd
          /\ bt[b][1].op \notin Terminators => bt[b][1].to = {}
          /\ \A d \in Exits(bt[b]) : d \in Fresh(bs, bt) /\ N[d] = {c}
  /\ o \subseteq p
  /\ \A e \in p : \/ e \in o
                  \/ /\ e[1] \in Fresh(bs, bt) /\ e[2] \in Fresh(bs, bt)
                     /\ bt[e[1]] # <<>> /\ bt[e[1]][1].op \notin Terminators
                     /\ e[3] = c /\ N[e[2]] = {c}
  /\ \A b \in Fresh(bs, bt) :
       \/ N[b] = {} \/ b \in i.to
       \/ /\ N[b] = {c}
          /\ \E d \in Fresh(bs, bt) : /\ bt[d] # <<>>
                                      /\ b \in Exits(bt[d]) \/ \E e \in p : e[1] = d /\ e[2] = b

(* What a new activation awaits and loops to is added to that of the       *)
(* others.                                                                 *)
Widens(bs, bt, w, v, h, g, c, N) ==
  /\ \A x \in v : x \in w \/ (x[1] \in Fresh(bs, bt) /\ bt[x[1]] = <<>> /\ x[2] = N[x[1]])
  /\ \A x \in g : x \in h \/ (/\ x[1] \in Fresh(bs, bt) /\ bt[x[1]] # <<>>
                              /\ bt[x[1]][1].op \in Terminators /\ x[2] = c)

(* A conditional, a loop or a match begins: all that may have run last     *)
(* meets the condition, and that may have run last in what comes next.     *)
LEMMA FlowOpens ==
  ASSUME NEW A, NEW bs, NEW bt, NEW l, NEW i, Grows(A, bs, bt, l, i),
         NEW o, NEW w, NEW h, Free(l, o, w),
         NEW en, \A x \in en : x[1] \in 1 .. Len(bs),
         NEW fl, NEW pd, Fits(bs, l, o, w, h, en, fl, {l}, pd),
         NEW p, NEW c, NEW N, Opening(bs, bt, o, p, i, c, pd, N),
         NEW v, NEW g, Widens(bs, bt, w, v, h, g, c, N),
         NEW m, m \in Fresh(bs, bt), bt[m] = <<>> \/ \A x \in g : x[1] # m,
         NEW q, NEW qd, q = {} \/ (q = {m} /\ bt[m] = <<>> /\ qd = N[m])
  PROVE  Fits(bt, m, p, v, g, en, fl \cup (pd \X {c}), q, qd)
<1>0. Bones(bs, l, o, w, h) /\ Flows(bs, l, o, w, en, fl, {l}, pd)
  BY DEF Fits
<1> USE <1>0
<1> DEFINE fm == fl \cup (pd \X {c})
           F == Fresh(bs, bt)
<1>1. /\ Len(bs) \in Nat /\ l \in 1 .. Len(bs)
      /\ \A b \in F : b \in 1 .. Len(bt) /\ b \notin 1 .. Len(bs)
      /\ \A b \in 1 .. Len(bs) : b \in 1 .. Len(bt)
  BY DEF Grows, Fresh
<1>f. F = Len(bs) + 1 .. Len(bt)
  BY DEF Fresh
<1>a. /\ c # Begin /\ i.op \in Terminators /\ i.id \in {Begin, c} /\ o \subseteq p
      /\ \A b \in i.to : b \in F /\ N[b] = IF i.id = Begin THEN pd ELSE {c}
      /\ i.id = Begin => \E b \in i.to : bt[b] # <<>>
  BY DEF Opening
<1>b. \A b \in F :
       \/ bt[b] = <<>>
       \/ /\ Len(bt[b]) = 1 /\ bt[b][1].id = c /\ N[b] = pd
          /\ bt[b][1].op \notin Terminators => bt[b][1].to = {}
          /\ \A d \in Exits(bt[b]) : d \in F /\ N[d] = {c}
  BY DEF Opening
<1>c. \A e \in p : \/ e \in o
                   \/ /\ e[1] \in F /\ e[2] \in F
                      /\ bt[e[1]] # <<>> /\ bt[e[1]][1].op \notin Terminators
                      /\ e[3] = c /\ N[e[2]] = {c}
  BY DEF Opening
<1>d. \A b \in F :
       \/ N[b] = {} \/ b \in i.to
       \/ /\ N[b] = {c}
          /\ \E d \in F : /\ bt[d] # <<>>
                          /\ b \in Exits(bt[d]) \/ \E e \in p : e[1] = d /\ e[2] = b
  BY DEF Opening
<1>v. /\ \A x \in v : x \in w \/ (x[1] \in F /\ bt[x[1]] = <<>> /\ x[2] = N[x[1]])
      /\ \A x \in g : x \in h \/ (/\ x[1] \in F /\ bt[x[1]] # <<>>
                                  /\ bt[x[1]][1].op \in Terminators /\ x[2] = c)
  BY DEF Widens
<1>m. m \in F
  OBVIOUS
<1> HIDE DEF F
<1>2. \A x \in h : x[1] # l /\ x[1] \in 1 .. Len(bs)
  BY DEF Bones
<1>3. Bones(bt, m, p, v, g)
  <2>1. ASSUME NEW b \in F, NEW k \in 1 .. Len(bt[b]), bt[b][k].op \notin Terminators
        PROVE  bt[b][k].id # Begin /\ bt[b][k].to = {}
    <3>1. Len(<<>>) = 0
      OBVIOUS
    <3>2. Len(bt[b]) = 1 /\ bt[b][1].id = c /\ (bt[b][1].op \notin Terminators => bt[b][1].to = {})
      BY <1>b, <2>1, <3>1
    <3> QED
      BY <1>a, <2>1, <3>2
  <2>2. \A e \in p : \/ e \in o
                     \/ /\ e[1] \in 1 .. Len(bt) /\ e[2] \in 1 .. Len(bt)
                        /\ Len(bt[e[1]]) = 1 /\ bt[e[1]][1].op \notin Terminators
                        /\ bt[e[1]][1].id = e[3]
    BY <1>1, <1>b, <1>c
  <2>3. \A x \in v : \/ \E y \in w : x[1] = y[1]
                     \/ x[1] \in F /\ bt[x[1]] = <<>>
    BY <1>v
  <2>4. \A x \in g : \/ x \in h /\ x[1] # m
                     \/ /\ x[1] \in 1 .. Len(bt) /\ x[1] # m /\ Len(bt[x[1]]) = 1
                        /\ bt[x[1]][1].op \in Terminators
                        /\ bt[x[1]][1].id = x[2] /\ x[2] # Begin
    BY <1>1, <1>2, <1>a, <1>b, <1>v, <1>m
  <2>5. (\A e \in o : e[1] # l) /\ (\A x \in w : x[1] # l)
    BY DEF Free
  <2> QED
    BY <1>2, <1>a, <1>f, <2>1, <2>2, <2>3, <2>4, <2>5, BonesGrow
<1>n. ~Ended(<<>>) /\ \A J : Out(<<>>, J) = J
  BY NoneRuns
<1>r. ASSUME NEW b \in F, bt[b] # <<>>, NEW J PROVE Out(bt[b], J) = {c}
  <2>1. Len(bt[b]) = 1 /\ bt[b][1].id = c
    BY <1>b, <1>r
  <2> QED
    BY <1>a, <2>1, OneRuns
<1>5. ASSUME Tidy(bt, m, p, v)
      PROVE  Sound(bt, p, v, en, fm, q, qd) /\ Complete(bt, p, v, en, fm, q, qd)
  <2>1. ~Ended(bs[l]) /\ Named(bs) /\ Tests(bs, o)
    BY <1>5, TidyOpen, TestsAre DEF Bones
  <2>2. Tidy(bs, l, o, w)
    <3>1. \A b \in 1 .. Len(bs) : Loose(b, m, p, v) => Loose(b, l, o, w)
      BY <1>1, <1>c, <1>v, <1>m DEF Loose
    <3>2. Loose(l, l, o, w)
      BY DEF Loose
    <3> QED
      BY <1>5, <3>1, <3>2, TidyBefore
  <2>3. Sound(bs, o, w, en, fl, {l}, pd) /\ Complete(bs, o, w, en, fl, {l}, pd)
    BY <2>2 DEF Flows
  <2>4. ASSUME NEW J
        PROVE  Out(bt[l], J) = (IF i.id = Begin THEN Out(bs[l], J) ELSE {c}) /\ Exits(bt[l]) = i.to
    <3>1. Added(bs[l], bt[l], i, J)
      BY <2>1, AddedThere
    <3> QED
      BY <1>a, <3>1 DEF Added
  <2>5. Sound(bt, p, v, en, fm, q, qd)
    <3>1. PICK X : Carries(bs, o, w, en, fl, {l}, pd, X)
      BY <2>3 DEF Sound
    <3> DEFINE O == Out(bs[l], X[l])
               R == IF i.id = Begin THEN O ELSE {i.id}
    <3>2. O \subseteq pd
      BY <2>1, <3>1 DEF Carries, Brings
    <3>3. Paths(bs, bt, l, i, O, R, fm, N)
      <4>1. i.id # Begin => \A x \in O : <<x, i.id>> \in fm
        BY <1>a, <3>2
      <4>2. \A b \in i.to : b \notin 1 .. Len(bs) /\ b \in 1 .. Len(bt) /\ R \subseteq N[b]
        BY <1>1, <1>a, <3>2
      <4>3. ASSUME NEW b \in F PROVE Opened(bs, bt, b, fm, N)
        BY <1>a, <1>b, <1>f DEF Opened
      <4> QED
        BY <1>f, <4>1, <4>2, <4>3 DEF Paths
    <3>4. Owing(bs, bt, o, p, N)
      BY <1>c, <1>f, <1>r DEF Owing
    <3>5. Shut(bs, o, en, X) /\ Met(bs, fl, X) /\ (\A x \in o : x[1] # l) /\ fl \subseteq fm
      BY <3>1 DEF Carries, Free
    <3> HIDE DEF fm, R
    <3>6. PICK Y : Shut(bt, p, en, Y) /\ Met(bt, fm, Y) /\ Grown(bs, bt, i.to, R, X, N, Y)
      BY <2>1, <3>3, <3>4, <3>5, CarriedOn
    <3>7. /\ \A b \in 1 .. Len(bs) : Y[b] = X[b]
          /\ \A b \in F : Y[b] = N[b]
      BY <1>1, <1>a, <1>f, <3>6 DEF Grown
    <3>8. \A x \in w : x[1] \in 1 .. Len(bs) /\ X[x[1]] \subseteq x[2]
      BY <3>1 DEF Carries, Bones
    <3>9. \A x \in v : Y[x[1]] \subseteq x[2]
      BY <1>v, <3>7, <3>8
    <3>10. Brings(bt, q, qd, Y)
      BY <1>m, <1>n, <3>7 DEF Brings
    <3>11. Carries(bt, p, v, en, fm, q, qd, Y)
      BY <3>6, <3>9, <3>10 DEF Carries
    <3> QED
      BY <3>11 DEF Sound
  <2>6. Complete(bt, p, v, en, fm, q, qd)
    <3> SUFFICES ASSUME NEW X, Shut(bt, p, en, X)
                 PROVE  /\ Meets(bt, fm, X)
                        /\ \A x \in v : x[2] \subseteq X[x[1]]
                        /\ Brought(bt, q, qd, X)
      BY DEF Complete
    <3>1. Shut(bs, o, en, X)
      BY <1>a, <2>1, CarriedBack DEF Free, Tests
    <3>2. /\ Meets(bs, fl, X) /\ Brought(bs, {l}, pd, X)
          /\ \A x \in w : x[2] \subseteq X[x[1]]
      BY <2>3, <3>1 DEF Complete
    <3>3. pd \subseteq Out(bs[l], X[l])
      BY <2>1, <3>2 DEF Brought
    <3>4. \A b \in i.to : N[b] \subseteq X[b]
      <4>1. \A b \in i.to : Out(bt[l], X[l]) \subseteq X[b]
        BY <1>1, <2>4 DEF Shut
      <4> QED
        BY <1>a, <2>4, <3>3, <4>1
    <3>5. ASSUME NEW b \in F PROVE N[b] \subseteq X[b]
      <4>1. CASE N[b] = {} \/ b \in i.to
        BY <3>4, <4>1
      <4>2. CASE ~(N[b] = {} \/ b \in i.to)
        <5>1. PICK d \in F : /\ bt[d] # <<>>
                             /\ b \in Exits(bt[d]) \/ \E e \in p : e[1] = d /\ e[2] = b
          BY <1>d, <4>2
        <5>2. Out(bt[d], X[d]) = {c} /\ N[b] = {c} /\ d \in 1 .. Len(bt)
          BY <1>1, <1>d, <1>r, <4>2, <5>1
        <5>3. Out(bt[d], X[d]) \subseteq X[b]
          BY <5>1, <5>2 DEF Shut
        <5> QED
          BY <5>2, <5>3
      <4> QED
        BY <4>1, <4>2
    <3>6. Meets(bt, fm, X)
      <4>1. CASE i.id = Begin
        <5>1. Meets(bt, fl, X)
          BY <2>1, <3>2, MeetsMore
        <5>2. PICK b \in i.to : bt[b] # <<>>
          BY <1>a, <4>1
        <5>3. Len(bt[b]) = 1 /\ bt[b][1].id = c /\ b \in 1 .. Len(bt) /\ N[b] = pd
          BY <1>1, <1>a, <1>b, <5>2
        <5>4. pd \subseteq X[b]
          BY <3>4, <5>3
        <5>5. Meets(bt, fl \cup (pd \X {bt[b][1].id}), X)
          BY <1>a, <5>1, <5>3, <5>4, MeetsOne
        <5> QED
          BY <5>3, <5>5
      <4>2. CASE i.id # Begin
        <5>1. Meets(bt, fl \cup (pd \X {i.id}), X)
          BY <2>1, <3>2, <3>3, <4>2, MeetsNext
        <5> QED
          BY <1>a, <4>2, <5>1
      <4> QED
        BY <4>1, <4>2
    <3>7. \A x \in v : x[2] \subseteq X[x[1]]
      BY <1>v, <3>2, <3>5
    <3>8. Brought(bt, q, qd, X)
      BY <1>m, <1>n, <3>5 DEF Brought
    <3> QED
      BY <3>6, <3>7, <3>8
  <2> QED
    BY <2>5, <2>6
<1> QED
  BY <1>3, <1>5 DEF Flows, Fits
-----------------------------------------------------------------------------
(* o is p and x. *)
Also(o, p, x) == o = p \cup {x}

(* The next branch of a match is tested before the ones there are: control *)
(* comes to it from the start of the match, and goes on to them.           *)
LEMMA FlowOption ==
  ASSUME NEW bs, NEW bt, Len(bs) \in Nat, Len(bt) = Len(bs) + 2,
         \A b \in 1 .. Len(bs) : bt[b] = bs[b] /\ Exits(bs[b]) \subseteq 1 .. Len(bs),
         NEW l, NEW o, NEW w, NEW h,
         NEW R, NEW s, NEW t, NEW c, Also(o, R, <<s, t, c>>),
         NEW p, Also(p, R, <<s, Len(bs) + 1, c>>),
         Len(bt[Len(bs) + 1]) = 1, bt[Len(bs) + 1][1].op \in Terminators,
         bt[Len(bs) + 1][1].id = Begin, bt[Len(bs) + 1][1].to = {Len(bs) + 2, t},
         bt[Len(bs) + 2] = <<>>,
         NEW en, \A x \in en : x[1] \in 1 .. Len(bs),
         NEW fl, NEW pd, Fits(bs, l, o, w, h, en, fl, {}, pd)
  PROVE  Fits(bt, Len(bs) + 2, p, w, h, en, fl, {Len(bs) + 2}, {c})
<1>0. Bones(bs, l, o, w, h) /\ Flows(bs, l, o, w, en, fl, {}, pd)
  BY DEF Fits
<1>a. o = R \cup {<<s, t, c>>} /\ p = R \cup {<<s, Len(bs) + 1, c>>}
  BY DEF Also
<1> USE <1>0, <1>a
<1> DEFINE n == Len(bs)
           f == n + 1
           g == n + 2
           Old == 1 .. n
           All == 1 .. Len(bt)
<1>1. /\ n \in Nat /\ f \in All /\ g \in All /\ f \notin Old /\ g \notin Old /\ f # g
      /\ \A b \in Old : b \in All /\ b # f /\ b # g
      /\ \A b \in All : b \in Old \/ b = f \/ b = g
  OBVIOUS
<1>2. /\ \A b \in Old : bt[b] = bs[b] /\ Exits(bs[b]) \subseteq Old
      /\ Len(bt[f]) = 1 /\ bt[f][1].op \in Terminators
      /\ bt[f][1].id = Begin /\ bt[f][1].to = {g, t} /\ bt[g] = <<>>
      /\ p = R \cup {<<s, f, c>>}
  OBVIOUS
<1>3. /\ \A e \in o : /\ e[1] \in Old /\ e[2] \in Old
                      /\ Len(bs[e[1]]) = 1 /\ bs[e[1]][1].op \notin Terminators
                      /\ bs[e[1]][1].id = e[3]
      /\ \A x \in w : x[1] \in Old /\ bs[x[1]] = <<>>
      /\ \A x \in h : /\ x[1] \in Old /\ Len(bs[x[1]]) = 1
                      /\ bs[x[1]][1].op \in Terminators
                      /\ bs[x[1]][1].id = x[2] /\ x[2] # Begin
  BY DEF Bones
<1>p. /\ <<s, t, c>>[1] = s /\ <<s, t, c>>[2] = t /\ <<s, t, c>>[3] = c
      /\ <<s, f, c>>[1] = s /\ <<s, f, c>>[2] = f /\ <<s, f, c>>[3] = c
  OBVIOUS
<1>s. /\ s \in Old /\ t \in Old /\ Len(bs[s]) = 1 /\ bs[s][1].id = c /\ c # Begin
      /\ bs[s][1].op \notin Terminators
  <2>1. /\ s \in Old /\ t \in Old /\ Len(bs[s]) = 1 /\ bs[s][1].id = c
        /\ bs[s][1].op \notin Terminators
    BY <1>3, <1>p
  <2> QED
    BY <2>1 DEF Bones, Named
<1>e. \A x \in en : x[1] \in Old
  OBVIOUS
<1> DEFINE Exit(b) == Exits(bt[b])
<1>x. /\ Stops(bt[f]) = 0 /\ Exits(bt[f]) = {g, t} /\ Stops(bt[g]) = 0 /\ Exits(bt[g]) = {}
      /\ ~Ended(bt[g])
      /\ \A J : Out(bt[f], J) = J
      /\ \A J : Out(bt[g], J) = J
  <2>1. Stops(bt[f]) = 0
    BY <1>2 DEF Stops
  <2>2. bt[f] # <<>>
    BY <1>2
  <2>3. \A J : Out(bt[f], J) = J
    BY <2>1 DEF Out, Ran
  <2>4. Exits(bt[f]) = {g, t}
    BY <1>2, <2>2 DEF Exits
  <2> QED
    BY <1>2, <2>1, <2>3, <2>4, NoneRuns
<1>o. ASSUME NEW J PROVE Out(bs[s], J) = {c}
  BY <1>s, OneRuns
<1> HIDE DEF n, f, g, Old, All, Exit
<1>4. Bones(bt, g, p, w, h)
  <2>1. Named(bt)
    <3> SUFFICES ASSUME NEW b \in All, NEW k \in 1 .. Len(bt[b]), bt[b][k].op \notin Terminators
                 PROVE  bt[b][k].id # Begin /\ bt[b][k].to = {}
      BY DEF Named, All
    <3>1. CASE b \in Old
      BY <1>2, <3>1 DEF Bones, Named, Old, n
    <3>2. CASE b = f
      BY <1>2, <3>2
    <3>3. CASE b = g
      BY <1>2, <3>3
    <3> QED
      BY <1>1, <3>1, <3>2, <3>3
  <2>2. \A e \in p : /\ e[1] \in All /\ e[2] \in All
                     /\ Len(bt[e[1]]) = 1 /\ bt[e[1]][1].op \notin Terminators
                     /\ bt[e[1]][1].id = e[3]
    <3> SUFFICES ASSUME NEW e \in p
                 PROVE  /\ e[1] \in All /\ e[2] \in All
                        /\ Len(bt[e[1]]) = 1 /\ bt[e[1]][1].op \notin Terminators
                        /\ bt[e[1]][1].id = e[3]
      OBVIOUS
    <3>1. CASE e \in R
      <4>1. e \in o
        BY <3>1
      <4>2. /\ e[1] \in Old /\ e[2] \in Old
            /\ Len(bs[e[1]]) = 1 /\ bs[e[1]][1].op \notin Terminators
            /\ bs[e[1]][1].id = e[3]
        BY <1>3, <4>1
      <4> QED
        BY <1>1, <1>2, <4>2
    <3>2. CASE e = <<s, f, c>>
      BY <1>1, <1>2, <1>p, <1>s, <3>2
    <3> QED
      BY <1>2, <3>1, <3>2
  <2>3. \A x \in w : x[1] \in All /\ bt[x[1]] = <<>>
    BY <1>1, <1>2, <1>3
  <2>4. \A x \in h : /\ x[1] \in All /\ x[1] # g /\ Len(bt[x[1]]) = 1
                     /\ bt[x[1]][1].op \in Terminators
                     /\ bt[x[1]][1].id = x[2] /\ x[2] # Begin
    BY <1>1, <1>2, <1>3
  <2> QED
    BY <2>1, <2>2, <2>3, <2>4 DEF Bones, All
<1>5. ASSUME Tidy(bt, g, p, w)
      PROVE  Sound(bt, p, w, en, fl, {g}, {c}) /\ Complete(bt, p, w, en, fl, {g}, {c})
  <2>1. Tidy(bs, l, o, w)
    <3>1. \A b \in Old : Loose(b, g, p, w) => Loose(b, l, o, w)
      BY <1>1, <1>2, <1>p DEF Loose
    <3>2. ASSUME NEW b \in Old PROVE Loose(b, l, o, w) \/ Ended(bs[b])
      BY <1>1, <1>2, <1>5, <3>1, <3>2 DEF Tidy, All
    <3>3. ASSUME NEW b \in Old, NEW k \in 1 .. Len(bs[b]) - 1 PROVE bs[b][k].op \notin Terminators
      BY <1>1, <1>2, <1>5, <3>3 DEF Tidy, All
    <3> QED
      BY <3>2, <3>3 DEF Tidy, Old, n
  <2>2. Sound(bs, o, w, en, fl, {}, pd) /\ Complete(bs, o, w, en, fl, {}, pd)
    BY <2>1 DEF Flows
  <2>3. Sound(bt, p, w, en, fl, {g}, {c})
    <3>1. PICK X : Carries(bs, o, w, en, fl, {}, pd, X)
      BY <2>2 DEF Sound
    <3>2. Shut(bs, o, en, X) /\ Met(bs, fl, X) /\ \A x \in w : X[x[1]] \subseteq x[2]
      BY <3>1 DEF Carries
    <3> DEFINE Y == [b \in All |-> IF b \in Old THEN X[b] ELSE {c}]
    <3>3. (\A b \in Old : Y[b] = X[b]) /\ Y[f] = {c} /\ Y[g] = {c}
      BY <1>1
    <3> HIDE DEF Y
    <3>4. c \in X[t]
      BY <1>o, <1>p, <3>2 DEF Shut
    <3>5. ASSUME NEW b \in All, NEW d \in Exits(bt[b]) PROVE Out(bt[b], Y[b]) \subseteq Y[d]
      <4>1. CASE b \in Old
        <5>1. d \in Old /\ Out(bs[b], X[b]) \subseteq X[d]
          BY <1>2, <3>2, <3>5, <4>1 DEF Shut, Old, n
        <5> QED
          BY <1>2, <3>3, <4>1, <5>1
      <4>2. CASE b = f
        BY <1>s, <1>x, <3>3, <3>4, <3>5, <4>2
      <4>3. CASE b = g
        BY <1>x, <3>5, <4>3
      <4> QED
        BY <1>1, <4>1, <4>2, <4>3
    <3>6. ASSUME NEW e \in p PROVE Out(bt[e[1]], Y[e[1]]) \subseteq Y[e[2]]
      <4>1. CASE e \in R
        BY <1>2, <1>3, <3>2, <3>3, <4>1 DEF Shut
      <4>2. CASE e = <<s, f, c>>
        BY <1>2, <1>o, <1>p, <1>s, <3>3, <4>2
      <4> QED
        BY <1>2, <4>1, <4>2
    <3>7. Shut(bt, p, en, Y)
      BY <1>e, <3>2, <3>3, <3>5, <3>6, Zenon DEF Shut, All
    <3>8. Met(bt, fl, Y)
      <4> SUFFICES ASSUME NEW b \in All, NEW k \in 1 .. Stops(bt[b]), NEW x \in Ran(bt[b], Y[b], k - 1)
                   PROVE  <<x, bt[b][k].id>> \in fl
        BY DEF Met, All
      <4>1. b \in Old
        BY <1>1, <1>x
      <4> QED
        BY <1>2, <3>2, <3>3, <4>1 DEF Met, Old, n
    <3>9. Brings(bt, {g}, {c}, Y)
      BY <1>x, <3>3 DEF Brings
    <3>10. \A x \in w : Y[x[1]] \subseteq x[2]
      BY <1>3, <3>2, <3>3
    <3>11. Carries(bt, p, w, en, fl, {g}, {c}, Y)
      BY <3>7, <3>8, <3>9, <3>10 DEF Carries
    <3> QED
      BY <3>11 DEF Sound
  <2>4. Complete(bt, p, w, en, fl, {g}, {c})
    <3> SUFFICES ASSUME NEW X, Shut(bt, p, en, X)
                 PROVE  /\ Meets(bt, fl, X)
                        /\ \A x \in w : x[2] \subseteq X[x[1]]
                        /\ Brought(bt, {g}, {c}, X)
      BY DEF Complete
    <3>1. {c} \subseteq X[f]
      <4>1. <<s, f, c>> \in p
        BY <1>2
      <4>2. Out(bt[s], X[s]) \subseteq X[f]
        BY <1>p, <4>1 DEF Shut
      <4> QED
        BY <1>2, <1>o, <1>s, <4>2
    <3>2. {c} \subseteq X[g] /\ {c} \subseteq X[t]
      <4>1. \A d \in Exits(bt[f]) : Out(bt[f], X[f]) \subseteq X[d]
        BY <1>1 DEF Shut, All
      <4> QED
        BY <1>x, <3>1, <4>1
    <3>3. Shut(bs, o, en, X)
      <4>1. ASSUME NEW b \in Old, NEW d \in Exits(bs[b]) PROVE Out(bs[b], X[b]) \subseteq X[d]
        BY <1>1, <1>2, <4>1 DEF Shut, All
      <4>2. ASSUME NEW e \in o PROVE Out(bs[e[1]], X[e[1]]) \subseteq X[e[2]]
        <5>1. CASE e \in R
          BY <1>2, <1>3, <5>1 DEF Shut
        <5>2. CASE e = <<s, t, c>>
          BY <1>o, <1>p, <3>2, <5>2
        <5> QED
          BY <5>1, <5>2
      <4> QED
        BY <4>1, <4>2 DEF Shut, Old, n
    <3>4. Meets(bs, fl, X) /\ \A x \in w : x[2] \subseteq X[x[1]]
      BY <2>2, <3>3 DEF Complete
    <3>5. Meets(bt, fl, X)
      <4> SUFFICES ASSUME NEW e \in fl
                   PROVE  \E b \in All : \E k \in 1 .. Stops(bt[b]) :
                            e[1] \in Ran(bt[b], X[b], k - 1) /\ e[2] = bt[b][k].id
        BY DEF Meets, All
      <4>1. PICK b \in Old : \E k \in 1 .. Stops(bs[b]) :
              e[1] \in Ran(bs[b], X[b], k - 1) /\ e[2] = bs[b][k].id
        BY <3>4 DEF Meets, Old, n
      <4> QED
        BY <1>1, <1>2, <4>1
    <3>6. Brought(bt, {g}, {c}, X)
      BY <1>x, <3>2 DEF Brought
    <3> QED
      BY <3>4, <3>5, <3>6
  <2> QED
    BY <2>3, <2>4
<1> QED
  BY <1>4, <1>5 DEF Flows, Fits, g, n


(* A match ends: the start of it gets the branch it owed, and the code     *)
(* goes on where the branches of the match end.                            *)
LEMMA FlowMatched ==
  ASSUME NEW A, NEW bs, NEW bt, NEW s, NEW i, Grows(A, bs, bt, s, i), Len(bt) = Len(bs),
         NEW l, NEW o, NEW w, NEW h,
         NEW p, NEW t, NEW c, Also(o, p, <<s, t, c>>), \A e \in p : e[1] # s,
         i.id = Begin, i.to = {t}, i.op \in Terminators,
         NEW en, NEW fl, NEW pd, Fits(bs, l, o, w, h, en, fl, {}, pd),
         NEW v, v \subseteq w, NEW g, g \subseteq h, NEW m, NEW qd, <<m, qd>> \in w
  PROVE  Fits(bt, m, p, v, g, en, fl, {m}, qd)
<1>0. Bones(bs, l, o, w, h) /\ Flows(bs, l, o, w, en, fl, {}, pd)
  BY DEF Fits
<1> USE <1>0
<1>1. /\ Len(bs) \in Nat /\ Len(bs) + 1 .. Len(bt) = {} /\ s \in 1 .. Len(bs)
      /\ \A b \in 1 .. Len(bs) : b # s => bt[b] = bs[b]
  BY DEF Grows
<1>p. /\ <<s, t, c>>[1] = s /\ <<s, t, c>>[2] = t /\ <<s, t, c>>[3] = c
      /\ <<m, qd>>[1] = m /\ <<m, qd>>[2] = qd /\ Len(<<>>) # 1 /\ p \subseteq o
      /\ <<s, t, c>> \in o /\ \A e \in o : e \in p \/ e = <<s, t, c>>
  BY DEF Also
<1>s. /\ Len(bs[s]) = 1 /\ bs[s][1].id = c /\ bs[s][1].op \notin Terminators
      /\ ~Ended(bs[s]) /\ Named(bs)
  <2>1. Len(bs[s]) = 1 /\ bs[s][1].id = c /\ bs[s][1].op \notin Terminators
    BY <1>p DEF Bones
  <2> QED
    BY <2>1 DEF Ended, Bones
<1>m. m \in 1 .. Len(bs) /\ bs[m] = <<>> /\ m # s /\ bt[m] = <<>>
  <2>1. m \in 1 .. Len(bs) /\ bs[m] = <<>>
    BY <1>p DEF Bones
  <2> QED
    BY <1>1, <1>p, <1>s, <2>1
<1>2. (\A x \in h : x[1] # s /\ x[1] # m) /\ \A x \in w : x[1] # s
  BY <1>m, <1>p, <1>s DEF Bones
<1>4. Bones(bt, m, p, v, g)
  <2> DEFINE none == [e \in {} |-> {}]
  <2>1. Bones(bs, l, p, w, h)
    BY <1>p DEF Bones
  <2> QED
    BY <1>1, <1>2, <2>1, BonesGrow
<1>n. ~Ended(<<>>) /\ \A J : Out(<<>>, J) = J
  BY NoneRuns
<1>a. ASSUME NEW J PROVE Added(bs[s], bt[s], i, J)
  BY <1>s, AddedThere
<1>b. ASSUME NEW J PROVE Out(bt[s], J) = Out(bs[s], J) /\ Exits(bt[s]) = {t} /\ Exits(bs[s]) = {}
  BY <1>a DEF Added
<1>5. ASSUME Tidy(bt, m, p, v)
      PROVE  Sound(bt, p, v, en, fl, {m}, qd) /\ Complete(bt, p, v, en, fl, {m}, qd)
  <2>2. Tidy(bs, l, o, w)
    <3>1. \A b \in 1 .. Len(bs) : Loose(b, m, p, v) => Loose(b, l, o, w)
      BY <1>p DEF Loose
    <3>2. Loose(s, l, o, w)
      BY <1>p DEF Loose
    <3> QED
      BY <1>5, <3>1, <3>2, TidyBefore
  <2>3. Sound(bs, o, w, en, fl, {}, pd) /\ Complete(bs, o, w, en, fl, {}, pd)
    BY <2>2 DEF Flows
  <2>5. Sound(bt, p, v, en, fl, {m}, qd)
    <3>1. PICK X : Carries(bs, o, w, en, fl, {}, pd, X)
      BY <2>3 DEF Sound
    <3>2. Shut(bs, o, en, X) /\ Met(bs, fl, X) /\ \A x \in w : X[x[1]] \subseteq x[2]
      BY <3>1 DEF Carries
    <3>3. ASSUME NEW b \in 1 .. Len(bt), NEW d \in Exits(bt[b])
          PROVE  Out(bt[b], X[b]) \subseteq X[d]
      <4>1. CASE b = s
        <5>1. Out(bs[s], X[s]) \subseteq X[t]
          BY <1>p, <3>2 DEF Shut
        <5> QED
          BY <1>b, <3>3, <4>1, <5>1
      <4>2. CASE b # s
        BY <1>1, <3>2, <3>3, <4>2 DEF Shut
      <4> QED
        BY <4>1, <4>2
    <3>4. ASSUME NEW e \in p PROVE Out(bt[e[1]], X[e[1]]) \subseteq X[e[2]]
      <4>1. e[1] \in 1 .. Len(bs) /\ e[1] # s
        BY <1>p, <3>4 DEF Bones
      <4> QED
        BY <1>1, <1>p, <3>2, <4>1 DEF Shut
    <3>5. Shut(bt, p, en, X)
      BY <3>2, <3>3, <3>4 DEF Shut
    <3>6. Met(bt, fl, X)
      <4> SUFFICES ASSUME NEW b \in 1 .. Len(bt), NEW k \in 1 .. Stops(bt[b]),
                          NEW x \in Ran(bt[b], X[b], k - 1)
                   PROVE  <<x, bt[b][k].id>> \in fl
        BY DEF Met
      <4>1. CASE b = s
        <5>1. Added(bs[s], bt[s], i, X[s])
          BY <1>a
        <5>2. /\ k \in 1 .. Stops(bs[s]) /\ k \in 1 .. Len(bs[s]) /\ k - 1 \in 0 .. Len(bs[s])
          BY <4>1, <5>1 DEF Added
        <5>3. bt[s][k] = bs[s][k] /\ Ran(bt[s], X[s], k - 1) = Ran(bs[s], X[s], k - 1)
          BY <5>1, <5>2 DEF Added
        <5> QED
          BY <1>1, <3>2, <4>1, <5>2, <5>3 DEF Met
      <4>2. CASE b # s
        BY <1>1, <3>2, <4>2 DEF Met
      <4> QED
        BY <4>1, <4>2
    <3>7. Brings(bt, {m}, qd, X)
      BY <1>m, <1>n, <1>p, <3>2 DEF Brings
    <3>8. Carries(bt, p, v, en, fl, {m}, qd, X)
      BY <3>2, <3>5, <3>6, <3>7 DEF Carries
    <3> QED
      BY <3>8 DEF Sound
  <2>6. Complete(bt, p, v, en, fl, {m}, qd)
    <3> SUFFICES ASSUME NEW X, Shut(bt, p, en, X)
                 PROVE  /\ Meets(bt, fl, X)
                        /\ \A x \in v : x[2] \subseteq X[x[1]]
                        /\ Brought(bt, {m}, qd, X)
      BY DEF Complete
    <3>1. Shut(bs, o, en, X)
      <4>1. ASSUME NEW b \in 1 .. Len(bs), NEW d \in Exits(bs[b]) PROVE Out(bs[b], X[b]) \subseteq X[d]
        BY <1>1, <1>b, <4>1 DEF Shut
      <4>2. ASSUME NEW e \in o PROVE Out(bs[e[1]], X[e[1]]) \subseteq X[e[2]]
        <5>1. CASE e \in p
          <6>1. e[1] \in 1 .. Len(bs) /\ e[1] # s
            BY <1>p, <5>1 DEF Bones
          <6> QED
            BY <1>1, <5>1, <6>1 DEF Shut
        <5>2. CASE e = <<s, t, c>>
          <6>1. Out(bt[s], X[s]) \subseteq X[t]
            BY <1>1, <1>b DEF Shut
          <6> QED
            BY <1>b, <1>p, <5>2, <6>1
        <5> QED
          BY <1>p, <5>1, <5>2
      <4> QED
        BY <4>1, <4>2 DEF Shut
    <3>2. Meets(bs, fl, X) /\ \A x \in w : x[2] \subseteq X[x[1]]
      BY <2>3, <3>1 DEF Complete
    <3>3. Meets(bt, fl, X)
      BY <1>s, <3>2, MeetsMore
    <3>4. Brought(bt, {m}, qd, X)
      BY <1>m, <1>n, <1>p, <3>2 DEF Brought
    <3> QED
      BY <3>2, <3>3, <3>4
  <2> QED
    BY <2>5, <2>6
<1> QED
  BY <1>4, <1>5 DEF Flows, Fits
-----------------------------------------------------------------------------
(* Finished blocks: each has some code, and no statement without a name.   *)
Whole == /\ Len(blocks) \in Nat
         /\ \A b \in Block : /\ DOMAIN blocks[b] = 1 .. Len(blocks[b])
                             /\ Len(blocks[b]) \in Nat \ {0} /\ Targets(b) \subseteq Block
                             /\ \A k \in 1 .. Len(blocks[b]) - 1 : blocks[b][k].id # Begin

(* The statements of a block are the first of its instructions. *)
LEMMA IdsAre ==
  ASSUME Whole, NEW b \in Block
  PROVE  /\ Ids(b) = 1 .. Stops(blocks[b]) /\ Stops(blocks[b]) \in Nat
         /\ Targets(b) = Exits(blocks[b])
<1> DEFINE c == blocks[b]
           l == Len(c)
<1>1. /\ DOMAIN c = 1 .. l /\ l \in Nat /\ l # 0 /\ c # <<>>
      /\ \A k \in 1 .. l - 1 : c[k].id # Begin
  BY DEF Whole
<1>2. Ids(b) = {k \in DOMAIN c : c[k].id # Begin} /\ Targets(b) = Exits(c)
  BY DEF Ids, Targets, Exits
<1>3. Stops(c) = IF c[l].id = Begin THEN l - 1 ELSE l
  BY <1>1 DEF Stops
<1> HIDE DEF c, l
<1>4. \A k \in 1 .. l : k \in 1 .. l - 1 \/ k = l
  BY <1>1
<1>5. {k \in 1 .. l : c[k].id # Begin} = 1 .. Stops(c)
  <2>1. CASE c[l].id = Begin
    BY <1>1, <1>3, <1>4, <2>1
  <2>2. CASE c[l].id # Begin
    BY <1>1, <1>3, <1>4, <2>2
  <2> QED
    BY <2>1, <2>2
<1> QED
  BY <1>1, <1>2, <1>3, <1>5 DEF c

(* The first statement of the block, and the one behind the k-th.          *)
LEMMA FirstOfIs ==
  ASSUME Whole, NEW b \in Block, NEW k \in 0 .. Stops(blocks[b]),
         NEW K, K = {j \in Ids(b) : j > k}
  PROVE  /\ K = {} <=> k = Stops(blocks[b])
         /\ k # Stops(blocks[b]) => FirstOf(b, K) = {blocks[b][k + 1].id}
<1> DEFINE n == Stops(blocks[b])
<1>1. n \in Nat /\ K = k + 1 .. n /\ k \in 0 .. n
  BY IdsAre
<1> HIDE DEF n
<1>2. K = {} <=> k = n
  BY <1>1
<1>3. ASSUME k # n PROVE FirstOf(b, K) = {blocks[b][k + 1].id}
  <2>1. k + 1 \in K /\ \A j \in K : k + 1 <= j
    BY <1>1, <1>3
  <2>2. {j \in K : \A x \in K : j <= x} = {k + 1}
    BY <1>1, <2>1
  <2>3. FirstOf(b, K) = {blocks[b][j].id : j \in {j \in K : \A x \in K : j <= x}}
    BY DEF FirstOf
  <2> QED
    BY <2>2, <2>3
<1> QED
  BY <1>2, <1>3 DEF n

(* A block without a statement of its own is passed through. *)
LEMMA ThroughIs ==
  ASSUME Whole, NEW b \in Block
  PROVE  /\ Through[b] = IF Stops(blocks[b]) = 0 THEN Exits(blocks[b]) ELSE {}
         /\ Through[b] \subseteq Block
<1>1. /\ Ids(b) = 1 .. Stops(blocks[b]) /\ Stops(blocks[b]) \in Nat
      /\ Targets(b) = Exits(blocks[b]) /\ Targets(b) \subseteq Block
  BY IdsAre DEF Whole
<1>2. Ids(b) = {} <=> Stops(blocks[b]) = 0
  BY <1>1
<1>3. Through[b] = IF Ids(b) = {} THEN Targets(b) ELSE {}
  BY DEF Through
<1> QED
  BY <1>1, <1>2, <1>3

(* What control meets first from S on. *)
Heads(S) == {blocks[b][1].id : b \in {b \in Reach(S, Through) : Stops(blocks[b]) # 0}}

(* The statements met first are those the blocks reached begin with. *)
LEMMA FirstInIs ==
  ASSUME Whole, NEW S \in SUBSET Block
  PROVE  /\ FirstIn(S) = Heads(S)
         /\ S \subseteq Reach(S, Through) /\ Reach(S, Through) \subseteq Block
         /\ \A b \in Reach(S, Through) :
              Stops(blocks[b]) = 0 => Exits(blocks[b]) \subseteq Reach(S, Through)
<1> DEFINE R == Reach(S, Through)
           to == Through
<1>1. \A b \in Block : to[b] \subseteq Block
  BY ThroughIs
<1>2. S \subseteq R /\ R \subseteq Block /\ \A b \in R : to[b] \subseteq R
  <2>1. Len(blocks) \in Nat
    BY DEF Whole
  <2> HIDE DEF to
  <2>2. /\ S \subseteq Reach(S, to) /\ Reach(S, to) \subseteq Block
        /\ \A b \in Reach(S, to) : to[b] \subseteq Reach(S, to)
    BY <1>1, <2>1, ReachIsClosed
  <2> QED
    BY <2>2 DEF to
<1> HIDE DEF R
<1>3. \A b \in R : Stops(blocks[b]) = 0 => Exits(blocks[b]) \subseteq R
  BY <1>2, ThroughIs
<1>4. ASSUME NEW b \in Block
      PROVE  FirstOf(b, Ids(b)) = IF Stops(blocks[b]) = 0 THEN {} ELSE {blocks[b][1].id}
  <2> DEFINE K == {j \in Ids(b) : j > 0}
  <2>1. Stops(blocks[b]) \in Nat /\ Ids(b) = K
    BY IdsAre
  <2> HIDE DEF K
  <2>2. 0 \in 0 .. Stops(blocks[b])
    BY <2>1
  <2>3. K = {} <=> 0 = Stops(blocks[b])
    BY <2>2, FirstOfIs DEF K
  <2>4. 0 # Stops(blocks[b]) => FirstOf(b, K) = {blocks[b][0 + 1].id}
    BY <2>2, FirstOfIs DEF K
  <2>5. K = {} => FirstOf(b, K) = {}
    BY DEF FirstOf
  <2> QED
    BY <2>1, <2>3, <2>4, <2>5
<1>5. FirstIn(S) = UNION {FirstOf(b, Ids(b)) : b \in R}
  BY DEF FirstIn, R
<1>6. FirstIn(S) = Heads(S)
  <2>1. Heads(S) = {blocks[b][1].id : b \in {b \in R : Stops(blocks[b]) # 0}}
    BY DEF Heads, R
  <2>2. ASSUME NEW y \in FirstIn(S) PROVE y \in Heads(S)
    <3>1. PICK b \in R : y \in FirstOf(b, Ids(b))
      BY <1>5, <2>2
    <3>2. b \in Block
      BY <1>2
    <3>3. Stops(blocks[b]) # 0 /\ y = blocks[b][1].id
      BY <1>4, <3>1, <3>2
    <3> QED
      BY <2>1, <3>3
  <2>3. ASSUME NEW y \in Heads(S) PROVE y \in FirstIn(S)
    <3>1. PICK b \in R : Stops(blocks[b]) # 0 /\ y = blocks[b][1].id
      BY <2>1, <2>3
    <3>2. y \in FirstOf(b, Ids(b))
      BY <1>2, <1>4, <3>1
    <3> QED
      BY <1>5, <3>2
  <2> QED
    BY <2>2, <2>3
<1> QED
  BY <1>2, <1>3, <1>6 DEF R

(* What the blocks do, statement by statement. *)
LEMMA BlockFlowIs ==
  ASSUME Whole, \A e \in entries : e[1] \in Block, NEW x, NEW y
  PROVE  <<x, y>> \in BlockFlow <=>
           \/ x = Begin /\ y \in Heads({e[1] : e \in entries})
           \/ \E b \in Block : \E k \in 1 .. Stops(blocks[b]) :
                /\ x = blocks[b][k].id
                /\ IF k = Stops(blocks[b]) THEN y \in Heads(Exits(blocks[b]))
                   ELSE y = blocks[b][k + 1].id
<1> DEFINE E == {e[1] : e \in entries}
           later(b, k) == {j \in Ids(b) : j > k}
           next(b, k) == IF later(b, k) = {} THEN FirstIn(Targets(b)) ELSE FirstOf(b, later(b, k))
           inner == UNION {UNION {{blocks[b][k].id} \X next(b, k) : k \in Ids(b)} : b \in Block}
<1>1. BlockFlow = ({Begin} \X FirstIn(E)) \cup inner
  BY DEF BlockFlow
<1>2. FirstIn(E) = Heads(E)
  BY FirstInIs
<1>3. ASSUME NEW b \in Block
      PROVE  Ids(b) = 1 .. Stops(blocks[b]) /\ Stops(blocks[b]) \in Nat
  BY IdsAre
<1>4. ASSUME NEW b \in Block, NEW k \in 1 .. Stops(blocks[b])
      PROVE  next(b, k) = IF k = Stops(blocks[b]) THEN Heads(Exits(blocks[b]))
                          ELSE {blocks[b][k + 1].id}
  <2> DEFINE K == later(b, k)
  <2>1. K = {j \in Ids(b) : j > k} /\ k \in 0 .. Stops(blocks[b])
    BY <1>3, <1>4
  <2>2. next(b, k) = IF K = {} THEN FirstIn(Targets(b)) ELSE FirstOf(b, K)
    OBVIOUS
  <2> HIDE DEF K, next
  <2>3. K = {} <=> k = Stops(blocks[b])
    BY <2>1, FirstOfIs
  <2>4. k # Stops(blocks[b]) => FirstOf(b, K) = {blocks[b][k + 1].id}
    BY <2>1, FirstOfIs
  <2>5. FirstIn(Targets(b)) = Heads(Exits(blocks[b]))
    <3>1. Targets(b) \in SUBSET Block /\ Targets(b) = Exits(blocks[b])
      BY IdsAre DEF Whole
    <3>2. FirstIn(Targets(b)) = Heads(Targets(b))
      BY <3>1, FirstInIs
    <3> QED
      BY <3>1, <3>2
  <2> QED
    BY <2>2, <2>3, <2>4, <2>5
<1> HIDE DEF next, E
<1>5. <<x, y>> \in inner <=>
        \E b \in Block : \E k \in 1 .. Stops(blocks[b]) : x = blocks[b][k].id /\ y \in next(b, k)
  <2>1. <<x, y>> \in inner <=>
          \E b \in Block : \E k \in Ids(b) : x = blocks[b][k].id /\ y \in next(b, k)
    OBVIOUS
  <2> QED
    BY <1>3, <2>1
<1> HIDE DEF inner
<1>6. <<x, y>> \in BlockFlow <=> (x = Begin /\ y \in Heads(E)) \/ <<x, y>> \in inner
  BY <1>1, <1>2
<1>7. (\E b \in Block : \E k \in 1 .. Stops(blocks[b]) : x = blocks[b][k].id /\ y \in next(b, k))
        <=> \E b \in Block : \E k \in 1 .. Stops(blocks[b]) :
                /\ x = blocks[b][k].id
                /\ IF k = Stops(blocks[b]) THEN y \in Heads(Exits(blocks[b]))
                   ELSE y = blocks[b][k + 1].id
  BY <1>4
<1> QED
  BY <1>5, <1>6, <1>7 DEF E
-----------------------------------------------------------------------------
(* p is carried from S to whatever is met first there. *)
LEMMA HeadsMeet ==
  ASSUME Whole, NEW fl, NEW X, Met(blocks, fl, X), NEW S \in SUBSET Block, NEW p,
         \A b \in Block : \A c \in Exits(blocks[b]) : Out(blocks[b], X[b]) \subseteq X[c],
         \A b \in S : p \in X[b], NEW y \in Heads(S)
  PROVE  <<p, y>> \in fl
<1> DEFINE G == {b \in Block : p \in X[b]}
           to == Through
<1>1. \A b \in Block : to[b] \subseteq Block
  BY ThroughIs
<1>2. ASSUME NEW b \in G PROVE to[b] \subseteq G
  <2>1. b \in Block /\ p \in X[b]
    OBVIOUS
  <2>2. CASE Stops(blocks[b]) = 0
    <3>1. to[b] = Exits(blocks[b]) /\ to[b] \subseteq Block
      BY <2>1, <2>2, ThroughIs
    <3>2. Out(blocks[b], X[b]) = X[b]
      BY <2>2 DEF Out, Ran
    <3> QED
      BY <2>1, <3>1, <3>2
  <2>3. CASE Stops(blocks[b]) # 0
    BY <2>1, <2>3, ThroughIs
  <2> QED
    BY <2>2, <2>3
<1>3. Len(blocks) \in Nat
  BY DEF Whole
<1>4. S \subseteq G /\ G \subseteq Block
  OBVIOUS
<1> HIDE DEF to, G
<1>5. Reach(S, to) \subseteq G
  BY <1>1, <1>2, <1>3, <1>4, ReachIsLeast
<1>6. PICK b \in Reach(S, Through) : Stops(blocks[b]) # 0 /\ y = blocks[b][1].id
  BY DEF Heads
<1>7. b \in Block /\ p \in X[b]
  BY <1>5, <1>6 DEF G, to
<1>8. 1 \in 1 .. Stops(blocks[b])
  BY <1>6, <1>7, IdsAre
<1>9. p \in Ran(blocks[b], X[b], 1 - 1)
  BY <1>7 DEF Ran
<1>10. b \in 1 .. Len(blocks)
  BY <1>7 DEF Block
<1> QED
  BY <1>6, <1>8, <1>9, <1>10 DEF Met

(* When nothing is owed and nothing waits, what is kept is what the blocks *)
(* do.                                                                     *)
LEMMA FlowSound ==
  ASSUME Whole, NEW X, NEW en, NEW fl, en = entries, \A e \in entries : e[1] \in Block,
         Shut(blocks, {}, en, X), Met(blocks, fl, X),
         NEW x, NEW y, <<x, y>> \in BlockFlow
  PROVE  <<x, y>> \in fl
<1>1. /\ \A b \in Block : \A c \in Exits(blocks[b]) : Out(blocks[b], X[b]) \subseteq X[c]
      /\ \A e \in entries : Begin \in X[e[1]]
  BY DEF Shut, Block
<1>2. CASE x = Begin /\ y \in Heads({e[1] : e \in entries})
  <2> DEFINE E == {e[1] : e \in entries}
  <2>1. E \in SUBSET Block /\ \A b \in E : Begin \in X[b]
    BY <1>1
  <2>2. y \in Heads(E) /\ x = Begin
    BY <1>2
  <2> HIDE DEF E
  <2> QED
    BY <1>1, <2>1, <2>2, HeadsMeet
<1>3. ASSUME NEW b \in Block, NEW k \in 1 .. Stops(blocks[b]), x = blocks[b][k].id,
             k = Stops(blocks[b]), y \in Heads(Exits(blocks[b]))
      PROVE  <<x, y>> \in fl
  <2>1. Exits(blocks[b]) \in SUBSET Block
    BY IdsAre DEF Whole
  <2>2. x \in Out(blocks[b], X[b])
    BY <1>3, IdsAre DEF Out, Ran
  <2>3. \A c \in Exits(blocks[b]) : x \in X[c]
    BY <1>1, <2>2
  <2> QED
    BY <1>1, <1>3, <2>1, <2>3, HeadsMeet
<1>4. ASSUME NEW b \in Block, NEW k \in 1 .. Stops(blocks[b]), x = blocks[b][k].id,
             k # Stops(blocks[b]), y = blocks[b][k + 1].id
      PROVE  <<x, y>> \in fl
  <2>1. Stops(blocks[b]) \in Nat
    BY IdsAre
  <2>2. k + 1 \in 1 .. Stops(blocks[b]) /\ (k + 1) - 1 = k /\ k # 0
    BY <1>4, <2>1
  <2>3. x \in Ran(blocks[b], X[b], (k + 1) - 1)
    BY <1>4, <2>2 DEF Ran
  <2> QED
    BY <1>4, <2>2, <2>3 DEF Met, Block
<1>5. CASE \E b \in Block : \E k \in 1 .. Stops(blocks[b]) :
                /\ x = blocks[b][k].id
                /\ IF k = Stops(blocks[b]) THEN y \in Heads(Exits(blocks[b]))
                   ELSE y = blocks[b][k + 1].id
  <2>1. PICK b \in Block : \E k \in 1 .. Stops(blocks[b]) :
                /\ x = blocks[b][k].id
                /\ IF k = Stops(blocks[b]) THEN y \in Heads(Exits(blocks[b]))
                   ELSE y = blocks[b][k + 1].id
    BY <1>5
  <2>2. PICK k \in 1 .. Stops(blocks[b]) :
                /\ x = blocks[b][k].id
                /\ IF k = Stops(blocks[b]) THEN y \in Heads(Exits(blocks[b]))
                   ELSE y = blocks[b][k + 1].id
    BY <2>1
  <2>3. CASE k = Stops(blocks[b])
    BY <1>3, <2>2, <2>3
  <2>4. CASE k # Stops(blocks[b])
    BY <1>4, <2>2, <2>4
  <2> QED
    BY <2>3, <2>4
<1> QED
  BY <1>2, <1>5, BlockFlowIs

(* What the blocks carry to b. *)
Carried(b) ==
  {p \in {Begin} : b \in Reach({e[1] : e \in entries}, Through)} \cup
  {blocks[d][Stops(blocks[d])].id :
     d \in {d \in Block : Stops(blocks[d]) # 0 /\ b \in Reach(Exits(blocks[d]), Through)}}

(* The statements that lead to a block along the branches are carried      *)
(* along them: the least way to carry what may have run last.              *)
LEMMA CarriedIsShut ==
  ASSUME Whole, \A e \in entries : e[1] \in Block,
         NEW X, \A b \in Block : X[b] = Carried(b)
  PROVE  Shut(blocks, {}, entries, X)
<1> DEFINE E == {e[1] : e \in entries}
           R(S) == Reach(S, Through)
<1>1. E \in SUBSET Block
  OBVIOUS
<1>2. ASSUME NEW S \in SUBSET Block
      PROVE  /\ S \subseteq R(S)
             /\ \A b \in R(S) : Stops(blocks[b]) = 0 => Exits(blocks[b]) \subseteq R(S)
  BY FirstInIs
<1>3. ASSUME NEW b \in Block
      PROVE  X[b] = {p \in {Begin} : b \in R(E)} \cup
               {blocks[d][Stops(blocks[d])].id :
                  d \in {d \in Block : Stops(blocks[d]) # 0 /\ b \in R(Exits(blocks[d]))}}
  BY DEF Carried
<1>4. ASSUME NEW b \in Block PROVE Exits(blocks[b]) \in SUBSET Block
  BY IdsAre DEF Whole
<1> HIDE DEF E, R
<1>5. ASSUME NEW e \in entries PROVE Begin \in X[e[1]]
  <2>1. e[1] \in E /\ e[1] \in Block
    BY DEF E
  <2>2. e[1] \in R(E)
    BY <1>1, <1>2, <2>1
  <2> QED
    BY <1>3, <2>1, <2>2
<1>6. ASSUME NEW b \in Block, NEW c \in Exits(blocks[b])
      PROVE  Out(blocks[b], X[b]) \subseteq X[c]
  <2>1. c \in Block
    BY <1>4
  <2>2. CASE Stops(blocks[b]) = 0
    <3>1. Out(blocks[b], X[b]) = X[b]
      BY <2>2 DEF Out, Ran
    <3>2. b \in R(E) => c \in R(E)
      BY <1>1, <1>2, <2>2
    <3>3. \A d \in Block : b \in R(Exits(blocks[d])) => c \in R(Exits(blocks[d]))
      BY <1>2, <1>4, <2>2
    <3>4. ASSUME NEW p \in X[b] PROVE p \in X[c]
      <4>1. CASE p = Begin /\ b \in R(E)
        BY <1>3, <2>1, <3>2, <4>1
      <4>2. CASE \E d \in Block : /\ Stops(blocks[d]) # 0 /\ b \in R(Exits(blocks[d]))
                                  /\ p = blocks[d][Stops(blocks[d])].id
        <5>1. PICK d \in Block : /\ Stops(blocks[d]) # 0 /\ b \in R(Exits(blocks[d]))
                                 /\ p = blocks[d][Stops(blocks[d])].id
          BY <4>2
        <5>2. c \in R(Exits(blocks[d]))
          BY <3>3, <5>1
        <5> QED
          BY <1>3, <2>1, <5>1, <5>2
      <4> QED
        BY <1>3, <3>4, <4>1, <4>2
    <3> QED
      BY <3>1, <3>4
  <2>3. CASE Stops(blocks[b]) # 0
    <3>1. Out(blocks[b], X[b]) = {blocks[b][Stops(blocks[b])].id}
      BY <2>3 DEF Out, Ran
    <3>2. c \in R(Exits(blocks[b]))
      BY <1>2, <1>4
    <3> QED
      BY <1>3, <2>1, <2>3, <3>1, <3>2
  <2> QED
    BY <2>2, <2>3
<1> QED
  BY <1>5, <1>6 DEF Shut, Block

(* What is in fl is met when the blocks are run: it is met however what    *)
(* may have run last is carried, and so with the least way to.             *)
LEMMA FlowComplete ==
  ASSUME Whole, \A e \in entries : e[1] \in Block, NEW fl, NEW q, NEW pd,
         Complete(blocks, {}, {}, entries, fl, q, pd), NEW x, NEW y, <<x, y>> \in fl
  PROVE  <<x, y>> \in BlockFlow
<1> DEFINE X == [b \in Block |-> Carried(b)]
           E == {e[1] : e \in entries}
<1>1. \A b \in Block : X[b] = Carried(b)
  OBVIOUS
<1> HIDE DEF X, E
<1>2. Shut(blocks, {}, entries, X)
  BY <1>1, CarriedIsShut
<1>3. Meets(blocks, fl, X)
  BY <1>2 DEF Complete
<1>4. <<x, y>>[1] = x /\ <<x, y>>[2] = y
  OBVIOUS
<1>p. PICK b \in Block : \E k \in 1 .. Stops(blocks[b]) :
         x \in Ran(blocks[b], X[b], k - 1) /\ y = blocks[b][k].id
  BY <1>3, <1>4 DEF Meets, Block
<1>5. PICK k \in 1 .. Stops(blocks[b]) :
         x \in Ran(blocks[b], X[b], k - 1) /\ y = blocks[b][k].id
  BY <1>p
<1>6. Stops(blocks[b]) \in Nat
  BY IdsAre
<1>7. CASE k = 1
  <2>1. x \in Carried(b)
    BY <1>1, <1>5, <1>7 DEF Ran
  <2>2. Stops(blocks[b]) # 0 /\ y = blocks[b][1].id
    BY <1>5, <1>6, <1>7
  <2>3. \A S : b \in Reach(S, Through) => y \in Heads(S)
    BY <2>2 DEF Heads
  <2>4. CASE x = Begin /\ b \in Reach(E, Through)
    <3>1. y \in Heads(E)
      BY <2>3, <2>4
    <3> QED
      BY <2>4, <3>1, BlockFlowIs DEF E
  <2>5. CASE \E d \in Block : /\ Stops(blocks[d]) # 0 /\ b \in Reach(Exits(blocks[d]), Through)
                              /\ x = blocks[d][Stops(blocks[d])].id
    <3>1. PICK d \in Block : /\ Stops(blocks[d]) # 0 /\ b \in Reach(Exits(blocks[d]), Through)
                             /\ x = blocks[d][Stops(blocks[d])].id
      BY <2>5
    <3>2. y \in Heads(Exits(blocks[d]))
      BY <2>3, <3>1
    <3>3. Stops(blocks[d]) \in 1 .. Stops(blocks[d])
      BY <3>1, IdsAre
    <3> QED
      BY <3>1, <3>2, <3>3, BlockFlowIs
  <2> QED
    BY <2>1, <2>4, <2>5 DEF Carried, E
<1>8. CASE k # 1
  <2>1. /\ k - 1 \in 1 .. Stops(blocks[b]) /\ k - 1 # Stops(blocks[b]) /\ (k - 1) + 1 = k
        /\ k - 1 # 0
    BY <1>5, <1>6, <1>8
  <2>2. x = blocks[b][k - 1].id
    BY <1>5, <2>1 DEF Ran
  <2>3. y = blocks[b][(k - 1) + 1].id
    BY <1>5, <2>1
  <2> QED
    BY <2>1, <2>2, <2>3, BlockFlowIs
<1> QED
  BY <1>7, <1>8

(* The two halves: finished blocks run in the orders that were noted. *)
LEMMA FlowFound ==
  ASSUME Whole, \A e \in entries : e[1] \in Block, NEW q, NEW pd,
         \A e \in follow : e = <<e[1], e[2]>>,
         Sound(blocks, {}, {}, entries, follow, q, pd),
         Complete(blocks, {}, {}, entries, follow, q, pd)
  PROVE  BlockFlow = follow
<1>1. ASSUME NEW e \in BlockFlow PROVE e \in follow
  <2> DEFINE S == FirstIn({d[1] : d \in entries})
             T(b, k) == LET later == {j \in Ids(b) : j > k}
                        IN  IF later = {} THEN FirstIn(Targets(b)) ELSE FirstOf(b, later)
  <2>a. BlockFlow = ({Begin} \X S) \cup
          UNION {UNION {{blocks[b][k].id} \X T(b, k) : k \in Ids(b)} : b \in Block}
    BY DEF BlockFlow
  <2> HIDE DEF S, T
  <2>1. \E x, y : e = <<x, y>>
    <3>1. CASE e \in {Begin} \X S
      BY <3>1
    <3>2. CASE \E b \in Block : \E k \in Ids(b) : e \in {blocks[b][k].id} \X T(b, k)
      BY <3>2
    <3> QED
      BY <1>1, <2>a, <3>1, <3>2
  <2>2. PICK x, y : e = <<x, y>>
    BY <2>1
  <2>3. PICK X : Carries(blocks, {}, {}, entries, follow, q, pd, X)
    BY DEF Sound
  <2>4. Shut(blocks, {}, entries, X) /\ Met(blocks, follow, X)
    BY <2>3 DEF Carries
  <2> QED
    BY <1>1, <2>2, <2>4, FlowSound
<1>2. ASSUME NEW e \in follow PROVE e \in BlockFlow
  BY <1>2, FlowComplete
<1> QED
  BY <1>1, <1>2
-----------------------------------------------------------------------------
(* What is kept of the blocks, for the activations s and the builder at a. *)
Idle(s) == s = <<>> \/ (s[Len(s)].kind = "match" /\ s[Len(s)].option = 0)
Spot(s, a) == IF Idle(s) THEN {} ELSE {a}

(* The blocks fit what the activations owe, await and loop to. *)
FitsOf(bs, s, a, en, fl, pd) ==
  Fits(bs, a, OwesTo(s, Len(s)), WaitsTo(s, Len(s)), LoopsTo(s, Len(s)), en, fl,
       Spot(s, a), pd)

(* No extern put a ret void behind a function. *)
Told == "late extern" \notin odd

(* The inductive invariant of the flow of control. *)
FlowInv == Told => FitsOf(blocks, stack, at, entries, follow, pending)

(* Two stacks that owe, await and loop to the same. *)
Equal(s, m, t, n) ==
  /\ OwesTo(t, n) = OwesTo(s, m) /\ WaitsTo(t, n) = WaitsTo(s, m)
  /\ LoopsTo(t, n) = LoopsTo(s, m)
(* t owes, awaits and loops to what s does and what f adds. *)
Plus(s, m, f, t, n) ==
  /\ OwesTo(t, n) = OwesTo(s, m) \cup Own(f) /\ WaitsTo(t, n) = WaitsTo(s, m) \cup Awaited(f)
  /\ LoopsTo(t, n) = LoopsTo(s, m) \cup Heading(f)

(* To note a statement or to declare a name changes nothing of that. *)
LEMMA AlikeOwe ==
  ASSUME NEW f, NEW g, NEW last, Alike(f, g, last)
  PROVE  Own(g) = Own(f) /\ Awaited(g) = Awaited(f) /\ Heading(g) = Heading(f)
<1>1. CASE f.kind \notin {"function", "block"}
  BY <1>1 DEF Alike
<1>2. CASE f.kind \in {"function", "block"}
  <2>1. g.kind = f.kind /\ f.kind \notin {"match", "while", "then", "else"}
    BY <1>2 DEF Alike
  <2>2. Own(g) = {} /\ Own(f) = {} /\ Heading(g) = {} /\ Heading(f) = {}
    BY <2>1 DEF Own, Heading
  <2>3. Later(g) = {} /\ Later(f) = {}
    BY <2>1 DEF Later, Held
  <2> QED
    BY <2>2, <2>3 DEF Awaited
<1> QED
  BY <1>1, <1>2

(* What the first m + 1 activations owe is what the first m do and what    *)
(* the last of them does.                                                  *)
LEMMA OweNext ==
  ASSUME NEW s, NEW m \in Nat
  PROVE  Plus(s, m, s[m + 1], s, m + 1)
<1>1. 1 .. m + 1 = (1 .. m) \cup {m + 1}
  OBVIOUS
<1>2. \A x : x \in OwesTo(s, m + 1) <=> x \in OwesTo(s, m) \/ x \in Own(s[m + 1])
  BY <1>1 DEF OwesTo
<1>3. \A x : x \in WaitsTo(s, m + 1) <=> x \in WaitsTo(s, m) \/ x \in Awaited(s[m + 1])
  BY <1>1 DEF WaitsTo
<1>4. \A x : x \in LoopsTo(s, m + 1) <=> x \in LoopsTo(s, m) \/ x \in Heading(s[m + 1])
  BY <1>1 DEF LoopsTo
<1> QED
  BY <1>2, <1>3, <1>4 DEF Plus

(* Activations that are alike owe the same. *)
LEMMA OweSame ==
  ASSUME NEW s, NEW t, NEW m \in Nat, NEW last, \A d \in 1 .. m : Alike(s[d], t[d], last)
  PROVE  Equal(s, m, t, m)
<1>1. \A d \in 1 .. m : /\ Own(t[d]) = Own(s[d]) /\ Awaited(t[d]) = Awaited(s[d])
                        /\ Heading(t[d]) = Heading(s[d])
  BY AlikeOwe
<1>2. \A x : x \in OwesTo(t, m) <=> x \in OwesTo(s, m)
  BY <1>1 DEF OwesTo
<1>3. \A x : x \in WaitsTo(t, m) <=> x \in WaitsTo(s, m)
  BY <1>1 DEF WaitsTo
<1>4. \A x : x \in LoopsTo(t, m) <=> x \in LoopsTo(s, m)
  BY <1>1 DEF LoopsTo
<1> QED
  BY <1>2, <1>3, <1>4 DEF Equal

(* No activations owe nothing. *)
LEMMA OweNothing ==
  ASSUME NEW s, NEW m \in Int, m <= 0
  PROVE  OwesTo(s, m) = {} /\ WaitsTo(s, m) = {} /\ LoopsTo(s, m) = {}
<1>1. 1 .. m = {}
  OBVIOUS
<1> QED
  BY <1>1 DEF OwesTo, WaitsTo, LoopsTo

(* A stack of a function or blocks only owes nothing. *)
LEMMA PlainOwe ==
  ASSUME NEW f, f.kind \in {"function", "block"}
  PROVE  Own(f) = {} /\ Awaited(f) = {} /\ Heading(f) = {}
BY DEF Own, Awaited, Heading, Later, Held

(* An activation that is pushed adds what it owes, ... *)
LEMMA OwePushed ==
  ASSUME NEW s, NEW t, NEW m \in Nat, NEW last, \A d \in 1 .. m : Alike(s[d], t[d], last),
         NEW f, t[m + 1] = f
  PROVE  Plus(s, m, f, t, m + 1)
<1>1. Equal(s, m, t, m)
  BY OweSame
<1>2. Plus(t, m, t[m + 1], t, m + 1)
  BY OweNext
<1> QED
  BY <1>1, <1>2 DEF Plus, Equal

(* ... and so does one that is pushed below a block. *)
LEMMA OwePushedBlock ==
  ASSUME NEW s, NEW t, NEW m \in Nat, NEW last, \A d \in 1 .. m : Alike(s[d], t[d], last),
         NEW f, t[m + 1] = f, t[m + 2].kind = "block"
  PROVE  Plus(s, m, f, t, m + 2)
<1>1. Plus(s, m, f, t, m + 1)
  BY OwePushed
<1>2. Plus(t, m + 1, t[(m + 1) + 1], t, (m + 1) + 1)
  BY OweNext
<1>3. (m + 1) + 1 = m + 2
  OBVIOUS
<1>4. Plus(t, m + 1, t[m + 2], t, m + 2)
  BY <1>2, <1>3
<1>5. Own(t[m + 2]) = {} /\ Awaited(t[m + 2]) = {} /\ Heading(t[m + 2]) = {}
  BY PlainOwe
<1> QED
  BY <1>1, <1>4, <1>5 DEF Plus

(* The blocks that wait are held, and each by one activation. *)
LEMMA LaterHeld ==
  ASSUME NEW f
  PROVE  /\ Later(f) \subseteq Held(f)
         /\ \A x \in Awaited(f) : x[1] \in Held(f) /\ x = <<x[1], Meant(f, x[1])>>
         /\ \A e \in Own(f) : e[1] \in Held(f) /\ f.kind = "match" /\ e[1] = f.start
<1>1. Later(f) \subseteq Held(f)
  BY DEF Later, Held
<1>2. ASSUME NEW x \in Awaited(f) PROVE x[1] \in Held(f) /\ x = <<x[1], Meant(f, x[1])>>
  <2>1. PICK b \in Later(f) : x = <<b, Meant(f, b)>>
    BY <1>2 DEF Awaited
  <2>2. x[1] = b
    BY <2>1
  <2> QED
    BY <1>1, <2>1, <2>2
<1>3. ASSUME NEW e \in Own(f) PROVE e[1] \in Held(f) /\ f.kind = "match" /\ e[1] = f.start
  <2>1. f.kind = "match"
    BY <1>3 DEF Own
  <2>2. e = <<f.start, IF f.option = 0 THEN f.next ELSE f.option, f.matcher>>
    BY <1>3, <2>1 DEF Own
  <2>3. e[1] = f.start
    BY <2>2
  <2> QED
    BY <2>1, <2>3 DEF Held
<1> QED
  BY <1>1, <1>2, <1>3

(* A block waits for one activation only, and code is never built in one   *)
(* that waits.                                                             *)
LEMMA WaitsOnce ==
  ASSUME Inv
  PROVE  /\ \A x, y \in WaitsTo(stack, Len(stack)) : x[1] = y[1] => x = y
         /\ stack # <<>> /\ ~Between =>
              Free(at, OwesTo(stack, Len(stack)), WaitsTo(stack, Len(stack)))
<1>1. ASSUME NEW x \in WaitsTo(stack, Len(stack)), NEW y \in WaitsTo(stack, Len(stack)),
             x[1] = y[1]
      PROVE  x = y
  <2>1. PICK d \in 1 .. Len(stack) : x \in Awaited(stack[d])
    BY DEF WaitsTo
  <2>2. PICK e \in 1 .. Len(stack) : y \in Awaited(stack[e])
    BY DEF WaitsTo
  <2>3. /\ x[1] \in Held(stack[d]) /\ x = <<x[1], Meant(stack[d], x[1])>>
        /\ y[1] \in Held(stack[e]) /\ y = <<y[1], Meant(stack[e], y[1])>>
    BY <2>1, <2>2, LaterHeld
  <2>4. d = e
    BY <1>1, <2>3 DEF Inv, Apart
  <2> QED
    BY <1>1, <2>3, <2>4
<1>2. ASSUME stack # <<>>, ~Between
      PROVE  Free(at, OwesTo(stack, Len(stack)), WaitsTo(stack, Len(stack)))
  <2>1. \A d \in 1 .. Len(stack) : at \notin Held(stack[d])
    BY <1>2 DEF Inv, Apart
  <2>2. ASSUME NEW x \in WaitsTo(stack, Len(stack)) PROVE x[1] # at
    <3>1. PICK d \in 1 .. Len(stack) : x \in Awaited(stack[d])
      BY DEF WaitsTo
    <3> QED
      BY <2>1, <3>1, LaterHeld
  <2>3. ASSUME NEW x \in OwesTo(stack, Len(stack)) PROVE x[1] # at
    <3>1. PICK d \in 1 .. Len(stack) : x \in Own(stack[d])
      BY DEF OwesTo
    <3> QED
      BY <2>1, <3>1, LaterHeld
  <2> QED
    BY <2>2, <2>3 DEF Free
<1> QED
  BY <1>1, <1>2
-----------------------------------------------------------------------------
(* The blocks grow where an instruction is appended. *)
LEMMA GrowsIs ==
  ASSUME Sorts, NEW bt, NEW n \in Nat, Len(bt) = n, Len(blocks) <= n, NEW a \in Block,
         NEW i \in Instructions(n), bt[a] = Append(blocks[a], i),
         \A b \in Block : b # a => bt[b] = blocks[b]
  PROVE  Grows(Instructions(n), blocks, bt, a, i)
<1>1. Len(blocks) \in Nat
  BY DEF Sorts
<1>2. ASSUME NEW b \in 1 .. Len(blocks)
      PROVE  blocks[b] \in Seq(Instructions(n)) /\ Exits(blocks[b]) \subseteq 1 .. Len(blocks)
  <2>1. blocks[b] \in Seq(Instructions(Len(blocks)))
    BY DEF Sorts
  <2>2. blocks[b] \in Seq(Instructions(n))
    BY <1>1, <2>1, Wider
  <2>3. blocks[b] # <<>> => blocks[b][Len(blocks[b])] \in Instructions(Len(blocks))
    BY <2>1
  <2>4. \A j \in Instructions(Len(blocks)) : j.to \subseteq 1 .. Len(blocks)
    BY DEF Instructions
  <2> QED
    BY <2>2, <2>3, <2>4 DEF Exits
<1> QED
  BY <1>1, <1>2 DEF Grows, Block

(* A block leads to blocks that exist, ... *)
LEMMA ExitsExist ==
  ASSUME Sorts
  PROVE  \A b \in 1 .. Len(blocks) : Exits(blocks[b]) \subseteq 1 .. Len(blocks)
<1> SUFFICES ASSUME NEW b \in 1 .. Len(blocks)
             PROVE  Exits(blocks[b]) \subseteq 1 .. Len(blocks)
  OBVIOUS
<1>1. blocks[b] \in Seq(Instructions(Len(blocks)))
  BY DEF Sorts
<1>2. blocks[b] # <<>> => blocks[b][Len(blocks[b])] \in Instructions(Len(blocks))
  BY <1>1
<1>3. \A j \in Instructions(Len(blocks)) : j.to \subseteq 1 .. Len(blocks)
  BY DEF Instructions
<1> QED
  BY <1>2, <1>3 DEF Exits

(* ... and so does an entry. *)
LEMMA EntriesExist == ASSUME Sorts PROVE \A e \in entries : e[1] \in 1 .. Len(blocks)
BY DEF Sorts, Block

(* Code is built unless a match is between two branches. *)
LEMMA IdleIs ==
  ASSUME stack # <<>>
  PROVE  Idle(stack) <=> Between
BY DEF Idle, Between, top

(* An activation goes on in a block it is at, and only declares or notes. *)
LEMMA IdleAlike ==
  ASSUME Inv, stack # <<>>, NEW n, NEW last, Follows(stack, stack', n, last)
  PROVE  /\ Equal(stack, Len(stack), stack', Len(stack')) /\ (Idle(stack') <=> Idle(stack))
         /\ stack' # <<>>
<1>1. Len(stack) \in Nat /\ Len(stack) \in 1 .. Len(stack) /\ Len(stack') = Len(stack)
  BY StackIs DEF Follows
<1>2. \A d \in 1 .. Len(stack) : Alike(stack[d], stack'[d], last)
  BY DEF Follows
<1>3. Equal(stack, Len(stack), stack', Len(stack))
  BY <1>1, <1>2, OweSame
<1>4. stack' # <<>>
  BY <1>1
<1>5. Alike(stack[Len(stack)], stack'[Len(stack')], last)
  BY <1>1, <1>2
<1> DEFINE f == stack[Len(stack)]
           g == stack'[Len(stack')]
<1>6. Idle(stack) <=> f.kind = "match" /\ f.option = 0
  BY DEF Idle
<1>7. Idle(stack') <=> g.kind = "match" /\ g.option = 0
  BY <1>4 DEF Idle
<1> HIDE DEF f, g
<1>8. Alike(f, g, last)
  BY <1>5 DEF f, g
<1>9. (g.kind = "match" /\ g.option = 0) <=> (f.kind = "match" /\ f.option = 0)
  BY <1>8 DEF Alike
<1> QED
  BY <1>1, <1>3, <1>4, <1>6, <1>7, <1>9

(* FlowInv holds next if the blocks fit whenever no extern was late. *)
LEMMA Tell ==
  ASSUME Told' => FitsOf(blocks', stack', at', entries', follow', pending')
  PROVE  FlowInv'
BY DEF FlowInv, FitsOf, Spot, Idle, Told

(* Nothing is generated. *)
LEMMA FlowUnmoved ==
  ASSUME FlowInv, Equal(stack, Len(stack), stack', Len(stack')), Idle(stack') <=> Idle(stack),
         UNCHANGED <<blocks, at, entries, follow, pending>>, odd \subseteq odd'
  PROVE  FlowInv'
<1>1. Told' => Told
  BY DEF Told
<1>2. Told => FitsOf(blocks', stack', at', entries', follow', pending')
  BY DEF FlowInv, FitsOf, Equal, Spot
<1> QED
  BY <1>1, <1>2, Tell

(* A statement is appended where the builder is. *)
LEMMA FlowGoesOn ==
  ASSUME Inv, FlowInv, stack # <<>>, ~Between,
         Equal(stack, Len(stack), stack', Len(stack')), ~Idle(stack'),
         UNCHANGED <<at, entries>>,
         NEW i \in Instructions(Len(blocks)), i.id # Begin, i.to = {},
         blocks' = Built(blocks, at, i),
         follow' = follow \cup (pending \X {i.id}),
         pending' = IF i.op \in Terminators THEN {} ELSE {i.id}, odd \subseteq odd'
  PROVE  FlowInv'
<1> DEFINE o == OwesTo(stack, Len(stack))
           w == WaitsTo(stack, Len(stack))
           h == LoopsTo(stack, Len(stack))
           n == Len(blocks)
           qd == IF i.op \in Terminators THEN {} ELSE {i.id}
<1>1. Sorts /\ at \in Block /\ n \in Nat
  BY StackIs DEF Inv
<1>2. /\ Len(blocks') = n /\ blocks'[at] = Append(blocks[at], i)
      /\ \A b \in Block : b # at => blocks'[b] = blocks[b]
  BY <1>1, BuiltIn
<1>3. Grows(Instructions(n), blocks, blocks', at, i)
  BY <1>1, <1>2, GrowsIs
<1>4. \A e \in entries : e[1] \in 1 .. Len(blocks)
  BY <1>1, EntriesExist
<1>5. Free(at, o, w)
  BY WaitsOnce
<1>6. Spot(stack, at) = {at} /\ Spot(stack', at') = {at}
  BY IdleIs DEF Spot
<1>7. Told => Fits(blocks, at, o, w, h, entries, follow, {at}, pending)
  BY <1>6 DEF FlowInv, FitsOf
<1>8. FitsOf(blocks', stack', at', entries', follow', pending') <=>
        Fits(blocks', at, o, w, h, entries, follow \cup (pending \X {i.id}), {at}, qd)
  BY <1>6 DEF FitsOf, Equal
<1>9. Told' => Told
  BY DEF Told
<1>10. Len(blocks') = Len(blocks) /\ qd = IF i.op \in Terminators THEN {} ELSE {i.id}
  BY <1>2
<1> HIDE DEF o, w, h, n, qd
<1>11. ASSUME Told
       PROVE  Fits(blocks', at, o, w, h, entries, follow \cup (pending \X {i.id}), {at}, qd)
  BY <1>3, <1>4, <1>5, <1>7, <1>10, <1>11, FlowStraight
<1> QED
  BY <1>8, <1>9, <1>11, Tell

(* An assignment, a call and a return are appended; a constant is not. *)
LEMMA FlowAssignment ==
  ASSUME Inv, FlowInv, NEW first, NEW assigns, parse_assignment(first, assigns)
  PROVE  FlowInv'
<1>1. InExpression /\ InStatement
  BY DEF parse_assignment, InExpression
<1>2. /\ stack # <<>> /\ count + 1 \in Statement /\ ~Between
      /\ Len(blocks) \in Nat /\ Sorts /\ at # 0
  BY <1>1, AtWork, StackIs DEF Inv, Nesting
<1>3. Follows(stack, stack', Len(blocks), "other")
  <2>1. stack' = Declare(Noted("other"), at) \/ stack' = Noted("other")
    BY DEF parse_assignment
  <2> QED
    BY <1>2, <2>1, NotedIs, NotedAndDeclared
<1>3a. Do(name).id = name
  BY DEF Do, Instruction
<1>4. /\ Do(name) \in Instructions(Len(blocks)) /\ Do(name).to = {} /\ Do(name).op = "do"
      /\ Do(name).id = name
  BY <1>2, <1>3a, DoIs
<1>5. name # Begin /\ Do(name).op \notin Terminators
  BY <1>2, <1>4 DEF name, Statement, Begin, Terminators
<1>6. /\ UNCHANGED <<at, entries>> /\ blocks' = Built(blocks, at, Do(name))
      /\ follow' = follow \cup (pending \X {name}) /\ pending' = {name} /\ odd \subseteq odd'
  BY DEF parse_assignment, Runs
<1>7. Equal(stack, Len(stack), stack', Len(stack')) /\ ~Idle(stack')
  BY <1>2, <1>3, IdleAlike, IdleIs
<1> QED
  BY <1>2, <1>4, <1>5, <1>6, <1>7, FlowGoesOn

LEMMA FlowCall == ASSUME Inv, FlowInv, parse_function_call PROVE FlowInv'
<1>1. InExpression
  BY DEF parse_function_call
<1>2. stack # <<>> /\ count + 1 \in Statement /\ ~Between /\ Len(blocks) \in Nat /\ Sorts
  BY <1>1, AtWork, StackIs DEF Inv
<1>3. Follows(stack, stack', Len(blocks), "other")
  BY <1>2, NotedIs DEF parse_function_call
<1>3a. Do(name).id = name
  BY DEF Do, Instruction
<1>4. /\ Do(name) \in Instructions(Len(blocks)) /\ Do(name).to = {} /\ Do(name).op = "do"
      /\ Do(name).id = name
  BY <1>2, <1>3a, DoIs
<1>5. name # Begin /\ Do(name).op \notin Terminators
  BY <1>2, <1>4 DEF name, Statement, Begin, Terminators
<1>6. /\ UNCHANGED <<at, entries>> /\ blocks' = Built(blocks, at, Do(name))
      /\ follow' = follow \cup (pending \X {name}) /\ pending' = {name} /\ odd \subseteq odd'
  BY DEF parse_function_call, Runs
<1>7. Equal(stack, Len(stack), stack', Len(stack')) /\ ~Idle(stack')
  BY <1>2, <1>3, IdleAlike, IdleIs
<1> QED
  BY <1>2, <1>4, <1>5, <1>6, <1>7, FlowGoesOn

LEMMA FlowConstant == ASSUME Inv, FlowInv, parse_constant PROVE FlowInv'
<1>1. stack # <<>> /\ Sorts
  BY AtWork DEF parse_constant, Inv
<1>2. Follows(stack, stack', Len(blocks), "other")
  BY <1>1, NotedIs DEF parse_constant
<1>3. Equal(stack, Len(stack), stack', Len(stack')) /\ (Idle(stack') <=> Idle(stack))
  BY <1>1, <1>2, IdleAlike
<1> QED
  BY <1>3, FlowUnmoved DEF parse_constant, code

LEMMA FlowReturn == ASSUME Inv, FlowInv, parse_return PROVE FlowInv'
<1>1. InExpression
  BY DEF parse_return, InExpression
<1>2. stack # <<>> /\ count + 1 \in Statement /\ ~Between /\ Len(blocks) \in Nat /\ Sorts
  BY <1>1, AtWork, StackIs DEF Inv
<1>3. Follows(stack, stack', Len(blocks), "return")
  BY <1>2, NotedIs DEF parse_return
<1>3a. Ret(name).id = name
  BY DEF Ret, Instruction
<1>4. /\ Ret(name) \in Instructions(Len(blocks)) /\ Ret(name).to = {} /\ Ret(name).op = "ret"
      /\ Ret(name).id = name
  BY <1>2, <1>3a, DoIs
<1>5. name # Begin /\ Ret(name).op \in Terminators
  BY <1>2, <1>4 DEF name, Statement, Begin, Terminators
<1>6. /\ UNCHANGED <<at, entries>> /\ blocks' = Built(blocks, at, Ret(name))
      /\ follow' = follow \cup (pending \X {name}) /\ pending' = {} /\ odd \subseteq odd'
  BY DEF parse_return, Runs
<1>7. Equal(stack, Len(stack), stack', Len(stack')) /\ ~Idle(stack')
  BY <1>2, <1>3, IdleAlike, IdleIs
<1> QED
  BY <1>2, <1>4, <1>5, <1>6, <1>7, FlowGoesOn

(* A block begins and ends without leaving a trace in the flow. *)
LEMMA FlowBlock == ASSUME Inv, FlowInv, parse_block PROVE FlowInv'
<1>1. stack # <<>> /\ ~Between /\ Sorts /\ Len(stack) \in Nat
  BY AtWork, StackIs DEF parse_block, InExpression, Inv
<1>2. Follows(stack, Noted("other"), Len(blocks), "other") /\ Frame("block") \in Activations(Len(blocks))
  BY <1>1, NotedIs, FrameIs DEF Sorts
<1>3. stack' = Noted("other") \o <<Frame("block")>> /\ Len(blocks) \in Nat
  BY <1>1 DEF parse_block, Sorts
<1>4. /\ Len(stack') = Len(stack) + 1 /\ stack'[Len(stack) + 1] = Frame("block")
      /\ \A d \in 1 .. Len(stack) : Alike(stack[d], stack'[d], "other")
  BY <1>1, <1>2, <1>3, PushedOne
<1>5. Plus(stack, Len(stack), Frame("block"), stack', Len(stack) + 1)
  BY <1>1, <1>4, OwePushed
<1>6. Frame("block").kind = "block"
  BY DEF Frame
<1>6a. Own(Frame("block")) = {} /\ Awaited(Frame("block")) = {} /\ Heading(Frame("block")) = {}
  BY <1>6, PlainOwe
<1>6b. Equal(stack, Len(stack), stack', Len(stack) + 1)
  BY <1>5, <1>6a DEF Equal, Plus
<1>7. Equal(stack, Len(stack), stack', Len(stack'))
  BY <1>4, <1>6b
<1>8. stack' # <<>>
  BY <1>1, <1>4
<1>9. ~Idle(stack') /\ ~Idle(stack)
  BY <1>1, <1>4, <1>6, <1>8, IdleIs DEF Idle
<1> QED
  BY <1>7, <1>9, FlowUnmoved DEF parse_block, code

LEMMA FlowBlockEnd == ASSUME Inv, FlowInv, block_ends PROVE FlowInv'
<1>1. stack # <<>> /\ top.kind = "block" /\ stack' = Pop
  BY DEF block_ends
<1>2. /\ Len(stack) \in Nat /\ Len(stack) # 1 /\ Len(stack) # 0 /\ top = stack[Len(stack)]
  BY <1>1, StackIs
<1>3. Len(stack') = Len(stack) - 1 /\ \A d \in 1 .. Len(stack) - 1 : stack'[d] = stack[d]
  BY <1>1, PopIs
<1> DEFINE m == Len(stack) - 1
<1>4. m \in Nat /\ m + 1 = Len(stack) /\ m # 0
  BY <1>2
<1>5. Plus(stack, m, stack[m + 1], stack, m + 1)
  BY <1>4, OweNext
<1>6. \A d \in 1 .. m : Alike(stack[d], stack'[d], "other")
  BY <1>3 DEF Alike
<1>7. Equal(stack, m, stack', m)
  BY <1>4, <1>6, OweSame
<1>7a. Own(stack[m + 1]) = {} /\ Awaited(stack[m + 1]) = {} /\ Heading(stack[m + 1]) = {}
  BY <1>1, <1>2, <1>4, PlainOwe
<1>7b. Equal(stack, m + 1, stack', m)
  BY <1>5, <1>7, <1>7a DEF Equal, Plus
<1>8. Equal(stack, Len(stack), stack', Len(stack'))
  BY <1>3, <1>4, <1>7b
<1>9. ~Idle(stack)
  BY <1>1, IdleIs DEF Between
<1>10. ~Idle(stack')
  <2>1. m \in 1 .. Len(stack) - 1 /\ stack' # <<>> /\ Len(stack') = m
    BY <1>3, <1>4
  <2>2. stack'[m] = stack[m]
    BY <1>3, <2>1
  <2>3. ~(stack[m].kind = "match" /\ stack[m].option = 0)
    BY <2>1, <1>1, <1>2, <1>4 DEF Inv, Nesting
  <2> QED
    BY <2>1, <2>2, <2>3 DEF Idle
<1> QED
  BY <1>8, <1>9, <1>10, FlowUnmoved DEF block_ends, code, source
-----------------------------------------------------------------------------
(* A block of one instruction leads where that does. *)
LEMMA OneIs ==
  ASSUME NEW j
  PROVE  /\ Len(Append(<<>>, j)) = 1 /\ Append(<<>>, j)[1] = j /\ Append(<<>>, j) # <<>>
         /\ Exits(Append(<<>>, j)) = j.to
<1>1. Len(Append(<<>>, j)) = 1 /\ Append(<<>>, j)[1] = j
  OBVIOUS
<1>2. Append(<<>>, j) # <<>>
  BY <1>1
<1> QED
  BY <1>1, <1>2 DEF Exits

(* Branches have no name; the condition of a loop or a conditional does. *)
LEMMA BrIs ==
  ASSUME NEW b
  PROVE  Br(b).id = Begin /\ Br(b).op = "br" /\ Br(b).op \in Terminators /\ Br(b).to = {b}
BY DEF Br, Instruction, Terminators

LEMMA CondBrIs ==
  ASSUME NEW id, NEW b, NEW c
  PROVE  /\ CondBr(id, b, c).id = id /\ CondBr(id, b, c).op = "condbr"
         /\ CondBr(id, b, c).op \in Terminators /\ CondBr(id, b, c).to = {b, c}
BY DEF CondBr, Instruction, Terminators

(* What a conditional, a loop and a match owe, await and loop to. *)
LEMMA OwnOf ==
  ASSUME NEW f
  PROVE  /\ f.kind \in {"while", "then", "else"} => Own(f) = {}
         /\ f.kind \in {"then", "else", "match"} => Heading(f) = {}
         /\ f.kind = "while" => /\ Awaited(f) = {<<f.end, {f.condition}>>}
                                /\ Heading(f) = {<<f.start, f.condition>>}
         /\ f.kind = "else" => Awaited(f) = {<<f.end, f.exits>>}
         /\ f.kind = "match" => /\ Awaited(f) = {<<f.end, f.exits>>}
                                /\ f.option = 0 => Own(f) = {<<f.start, f.next, f.matcher>>}
                                /\ f.option # 0 => Own(f) = {<<f.start, f.option, f.matcher>>}
         /\ f.kind = "then" /\ f.else_ = 0 /\ f.end # 0 => Awaited(f) = {<<f.end, {f.condition}>>}
         /\ f.kind = "then" /\ f.else_ # 0 /\ f.end \notin {0, f.else_} =>
              Awaited(f) = {<<f.else_, {f.condition}>>, <<f.end, {}>>}
<1>1. f.kind \in {"while", "then", "else"} => Own(f) = {}
  BY DEF Own
<1>2. f.kind \in {"then", "else", "match"} => Heading(f) = {}
  BY DEF Heading
<1>3. f.kind = "while" => Later(f) = {f.end} /\ Meant(f, f.end) = {f.condition}
  BY DEF Later, Held, Meant
<1>4. f.kind = "else" => Later(f) = {f.end} /\ Meant(f, f.end) = f.exits
  BY DEF Later, Held, Meant
<1>5. f.kind = "match" => Later(f) = {f.end} /\ Meant(f, f.end) = f.exits
  BY DEF Later, Meant
<1>6. f.kind = "while" => Heading(f) = {<<f.start, f.condition>>}
  BY DEF Heading
<1>7. f.kind = "match" => /\ f.option = 0 => Own(f) = {<<f.start, f.next, f.matcher>>}
                          /\ f.option # 0 => Own(f) = {<<f.start, f.option, f.matcher>>}
  BY DEF Own
<1>8. f.kind = "then" /\ f.else_ = 0 /\ f.end # 0 =>
        Later(f) = {f.end} /\ Meant(f, f.end) = {f.condition}
  BY DEF Later, Held, Meant
<1>9. f.kind = "then" /\ f.else_ # 0 /\ f.end \notin {0, f.else_} =>
        /\ Later(f) = {f.else_, f.end}
        /\ Meant(f, f.else_) = {f.condition} /\ Meant(f, f.end) = {}
  BY DEF Later, Held, Meant
<1>10. \A a : Later(f) = {a} => Awaited(f) = {<<a, Meant(f, a)>>}
  BY DEF Awaited
<1>11. \A a, b : Later(f) = {a, b} => Awaited(f) = {<<a, Meant(f, a)>>, <<b, Meant(f, b)>>}
  BY DEF Awaited
<1>12. f.kind = "while" => Awaited(f) = {<<f.end, {f.condition}>>}
  BY <1>3, <1>10
<1>13. f.kind \in {"else", "match"} => Awaited(f) = {<<f.end, f.exits>>}
  BY <1>4, <1>5, <1>10
<1>14. f.kind = "then" /\ f.else_ = 0 /\ f.end # 0 => Awaited(f) = {<<f.end, {f.condition}>>}
  BY <1>8, <1>10
<1>15. f.kind = "then" /\ f.else_ # 0 /\ f.end \notin {0, f.else_} =>
         Awaited(f) = {<<f.else_, {f.condition}>>, <<f.end, {}>>}
  BY <1>9, <1>11
<1> QED
  BY <1>1, <1>2, <1>6, <1>7, <1>12, <1>13, <1>14, <1>15

(* A conditional, a loop or a match that begins. *)
Begun(f, i, N) ==
  LET o == OwesTo(stack, Len(stack))
      w == WaitsTo(stack, Len(stack))
      h == LoopsTo(stack, Len(stack))
  IN  /\ Opening(blocks, blocks', o, o \cup Own(f), i, name, pending, N)
      /\ Widens(blocks, blocks', w, w \cup Awaited(f), h, h \cup Heading(f), name, N)
      /\ at' \in Fresh(blocks, blocks')
      /\ blocks'[at'] = <<>> \/ \A x \in h \cup Heading(f) : x[1] # at'

(* Beginning a loop, a conditional or a match keeps the invariant when its *)
(* blocks begin as they should.                                            *)
LEMMA FlowOpened ==
  ASSUME Inv, FlowInv, stack # <<>>, ~Between, entries' = entries, odd \subseteq odd',
         follow' = follow \cup (pending \X {name}),
         NEW A, NEW i, Grows(A, blocks, blocks', at, i),
         NEW f, Plus(stack, Len(stack), f, stack', Len(stack')),
         NEW N, Begun(f, i, N),
         \/ Idle(stack')
         \/ ~Idle(stack') /\ blocks'[at'] = <<>> /\ pending' = N[at']
  PROVE  FlowInv'
<1> DEFINE o == OwesTo(stack, Len(stack))
           w == WaitsTo(stack, Len(stack))
           h == LoopsTo(stack, Len(stack))
           p == o \cup Own(f)
           v == w \cup Awaited(f)
           g == h \cup Heading(f)
           m == at'
           q == Spot(stack', at')
           qd == pending'
<1>1. /\ OwesTo(stack', Len(stack')) = p /\ WaitsTo(stack', Len(stack')) = v
      /\ LoopsTo(stack', Len(stack')) = g
  BY DEF Plus
<1>2. Spot(stack, at) = {at}
  BY IdleIs DEF Spot
<1>3. \A e \in entries : e[1] \in 1 .. Len(blocks)
  BY EntriesExist DEF Inv
<1>4. Free(at, o, w)
  BY WaitsOnce
<1>5. Opening(blocks, blocks', o, p, i, name, pending, N) /\ Widens(blocks, blocks', w, v, h, g, name, N)
  BY DEF Begun
<1>6. m \in Fresh(blocks, blocks') /\ (blocks'[m] = <<>> \/ \A x \in g : x[1] # m)
  BY DEF Begun
<1>7. q = {} \/ (q = {m} /\ blocks'[m] = <<>> /\ qd = N[m])
  BY DEF Spot
<1>8. Told => Fits(blocks, at, o, w, h, entries, follow, {at}, pending)
  BY <1>2 DEF FlowInv, FitsOf
<1>9. FitsOf(blocks', stack', at', entries', follow', pending') <=>
        Fits(blocks', m, p, v, g, entries, follow \cup (pending \X {name}), q, qd)
  BY <1>1 DEF FitsOf
<1>10. Told' => Told
  BY DEF Told
<1> HIDE DEF o, w, h, p, v, g, m, q, qd
<1>11. ASSUME Told
       PROVE  Fits(blocks', m, p, v, g, entries, follow \cup (pending \X {name}), q, qd)
  BY <1>3, <1>4, <1>5, <1>6, <1>7, <1>8, <1>11, FlowOpens
<1> QED
  BY <1>9, <1>10, <1>11, Tell

(* The body of a loop begins where its condition ran last. *)
LEMMA FlowWhile == ASSUME Inv, FlowInv, parse_while PROVE FlowInv'
<1> DEFINE n == Len(blocks)
           f == Loop(n)
           N == [b \in n + 1 .. n + 3 |-> IF b = n + 1 THEN pending ELSE {name}]
           i == Br(n + 1)
           j == CondBr(name, n + 2, n + 3)
<1>1. /\ stack # <<>> /\ ~Between /\ n \in Nat /\ Sorts /\ at \in Block /\ Len(stack) \in Nat
      /\ name \in Statement /\ at' = n + 2 /\ entries' = entries
      /\ Len(stack') = Len(stack) + 2
      /\ stack'[Len(stack) + 1] = f /\ stack'[Len(stack) + 2] = Frame("block")
      /\ \A d \in 1 .. Len(stack) : Alike(stack[d], stack'[d], "other")
  BY WhileDoes
<1>2. /\ i \in Instructions(n + 3) /\ Len(blocks') = n + 3
      /\ blocks'[at] = Append(blocks[at], i) /\ blocks'[n + 1] = Append(<<>>, j)
      /\ \A b \in Block : b # at => blocks'[b] = blocks[b]
      /\ \A b \in n + 2 .. n + 3 : blocks'[b] = <<>>
  BY WhileDoes
<1>3. /\ follow' = follow \cup (pending \X {name}) /\ pending' = {name} /\ odd \subseteq odd'
  BY DEF parse_while, Runs
<1>4. f.kind = "while" /\ f.start = n + 1 /\ f.end = n + 3 /\ f.condition = name
  BY DEF Loop
<1>5. /\ i.id = Begin /\ i.op \in Terminators /\ i.to = {n + 1}
      /\ j.id = name /\ j.op \in Terminators /\ j.to = {n + 2, n + 3}
  BY BrIs, CondBrIs
<1>6. Frame("block").kind = "block" /\ name # Begin
  BY <1>1 DEF Frame, Statement, Begin
<1>7. N[n + 1] = pending /\ N[n + 2] = {name} /\ N[n + 3] = {name}
  BY <1>1
<1> HIDE DEF f, i, j, N
<1>8. Plus(stack, Len(stack), f, stack', Len(stack'))
  BY <1>1, <1>6, OwePushedBlock
<1>9. Own(f) = {} /\ Awaited(f) = {<<n + 3, {name}>>} /\ Heading(f) = {<<n + 1, name>>}
  BY <1>4, OwnOf
<1>10. ~Idle(stack')
  <2>1. stack' # <<>> /\ stack'[Len(stack')].kind = "block"
    BY <1>1, <1>6
  <2> QED
    BY <2>1 DEF Idle
<1>11. Grows(Instructions(n + 3), blocks, blocks', at, i)
  <2>1. n + 3 \in Nat /\ Len(blocks) <= n + 3
    BY <1>1
  <2> QED
    BY <1>1, <1>2, <2>1, GrowsIs
<1>12. /\ Len(blocks'[n + 1]) = 1 /\ blocks'[n + 1][1] = j /\ blocks'[n + 1] # <<>>
       /\ Exits(blocks'[n + 1]) = {n + 2, n + 3}
  BY <1>2, <1>5, OneIs
<1>13. Fresh(blocks, blocks') = {n + 1, n + 2, n + 3}
  BY <1>1, <1>2 DEF Fresh
<1>14. blocks'[n + 2] = <<>> /\ blocks'[n + 3] = <<>>
  BY <1>1, <1>2
<1>15. \A o : Opening(blocks, blocks', o, o \cup Own(f), i, name, pending, N)
  BY <1>5, <1>6, <1>7, <1>9, <1>12, <1>13, <1>14 DEF Opening
<1>16. \A w, h : Widens(blocks, blocks', w, w \cup Awaited(f), h, h \cup Heading(f), name, N)
  <2>1. <<n + 3, {name}>>[1] = n + 3 /\ <<n + 3, {name}>>[2] = {name}
        /\ <<n + 1, name>>[1] = n + 1 /\ <<n + 1, name>>[2] = name
    OBVIOUS
  <2> QED
    BY <1>5, <1>7, <1>9, <1>12, <1>13, <1>14, <2>1 DEF Widens
<1>17. Begun(f, i, N)
  BY <1>1, <1>13, <1>14, <1>15, <1>16 DEF Begun
<1> QED
  BY <1>1, <1>3, <1>7, <1>8, <1>10, <1>11, <1>14, <1>17, FlowOpened

(* So do both arms of a conditional; its end waits for them. *)
LEMMA FlowIf ==
  ASSUME Inv, FlowInv, NEW with_else \in BOOLEAN, parse_if(with_else)
  PROVE  FlowInv'
<1>n. PICK n : n = Len(blocks)
  OBVIOUS
<1>k. PICK k : k = New(with_else)
  OBVIOUS
<1>f. PICK f : f = Conditional(n, with_else)
  OBVIOUS
<1> DEFINE N == [b \in n + 1 .. n + 3 |-> IF b = n + 3 THEN {} ELSE {name}]
           i == CondBr(name, n + 1, n + 2)
<1>1. /\ stack # <<>> /\ ~Between /\ n \in Nat /\ Sorts /\ at \in Block /\ Len(stack) \in Nat
      /\ name \in Statement /\ at' = n + 1 /\ entries' = entries /\ k \in Nat /\ k >= 2
      /\ Len(stack') = Len(stack) + 2
      /\ stack'[Len(stack) + 1] = f /\ stack'[Len(stack) + 2] = Frame("block")
      /\ \A d \in 1 .. Len(stack) : Alike(stack[d], stack'[d], "other")
  <2>1. /\ stack # <<>> /\ ~Between /\ n \in Nat /\ Sorts /\ at \in Block /\ Len(stack) \in Nat
        /\ name \in Statement /\ at' = n + 1 /\ entries' = entries /\ k \in Nat /\ k >= 2
    BY <1>n, <1>k, <1>f, IfDoes
  <2>2. Len(stack') = Len(stack) + 2
    BY <1>n, <1>k, <1>f, IfDoes
  <2>3. stack'[Len(stack) + 1] = f
    BY <1>n, <1>k, <1>f, IfDoes
  <2>4. stack'[Len(stack) + 2] = Frame("block")
    BY <1>n, <1>k, <1>f, IfDoes
  <2>5. \A d \in 1 .. Len(stack) : Alike(stack[d], stack'[d], "other")
    BY <1>n, <1>k, <1>f, IfDoes, Zenon
  <2> QED
    BY <2>1, <2>2, <2>3, <2>4, <2>5
<1>2. /\ i \in Instructions(n + k) /\ Len(blocks') = n + k
      /\ blocks'[at] = Append(blocks[at], i)
      /\ \A b \in Block : b # at => blocks'[b] = blocks[b]
      /\ \A b \in n + 1 .. n + k : blocks'[b] = <<>>
  <2>1. i \in Instructions(n + k) /\ Len(blocks') = n + k
    BY <1>n, <1>k, <1>f, IfDoes
  <2>2. blocks'[at] = Append(blocks[at], i)
    BY <1>n, <1>k, <1>f, IfDoes
  <2>3. \A b \in Block : b # at => blocks'[b] = blocks[b]
    BY <1>n, <1>k, <1>f, IfDoes
  <2>4. \A b \in n + 1 .. n + k : blocks'[b] = <<>>
    BY <1>n, <1>k, <1>f, IfDoes
  <2> QED
    BY <2>1, <2>2, <2>3, <2>4
<1>3. /\ follow' = follow \cup (pending \X {name}) /\ pending' = {name} /\ odd \subseteq odd'
  BY DEF parse_if, Runs
<1>4. /\ f.kind = "then" /\ f.end = n + k /\ f.condition = name
      /\ f.else_ = IF with_else THEN n + 2 ELSE 0
      /\ k = IF with_else THEN 3 ELSE 2
  BY <1>k, <1>f DEF Conditional, New
<1>5. i.id = name /\ i.op \in Terminators /\ i.to = {n + 1, n + 2}
  BY CondBrIs
<1>6. Frame("block").kind = "block" /\ name # Begin
  BY <1>1 DEF Frame, Statement, Begin
<1>7. N[n + 1] = {name} /\ N[n + 2] = {name} /\ N[n + 3] = {}
  BY <1>1
<1> HIDE DEF i, N
<1>8. Plus(stack, Len(stack), f, stack', Len(stack'))
  BY <1>1, <1>6, OwePushedBlock
<1>9. /\ Own(f) = {} /\ Heading(f) = {}
      /\ ~with_else => Awaited(f) = {<<n + 2, {name}>>}
      /\ with_else => Awaited(f) = {<<n + 2, {name}>>, <<n + 3, {}>>}
  <2>1. Own(f) = {} /\ Heading(f) = {}
    BY <1>4, OwnOf
  <2>2. ~with_else => f.else_ = 0 /\ f.end = n + 2 /\ f.end # 0
    BY <1>1, <1>4
  <2>3. with_else => f.else_ = n + 2 /\ f.else_ # 0 /\ f.end = n + 3 /\ f.end \notin {0, f.else_}
    BY <1>1, <1>4
  <2>4. ~with_else => Awaited(f) = {<<n + 2, {name}>>}
    BY <1>4, <2>2, OwnOf
  <2>5. with_else => Awaited(f) = {<<n + 2, {name}>>, <<n + 3, {}>>}
    BY <1>4, <2>3, OwnOf
  <2> QED
    BY <2>1, <2>4, <2>5
<1>10. ~Idle(stack')
  <2>1. stack' # <<>> /\ stack'[Len(stack')].kind = "block"
    BY <1>1, <1>6
  <2> QED
    BY <2>1 DEF Idle
<1>11. Grows(Instructions(n + k), blocks, blocks', at, i)
  <2>1. n + k \in Nat /\ Len(blocks) <= n + k
    BY <1>1, <1>n
  <2> QED
    BY <1>1, <1>2, <2>1, GrowsIs
<1>12. Fresh(blocks, blocks') = IF with_else THEN {n + 1, n + 2, n + 3} ELSE {n + 1, n + 2}
  <2>1. Fresh(blocks, blocks') = n + 1 .. n + k
    BY <1>1, <1>2, <1>n DEF Fresh
  <2>2. n \in Nat /\ (with_else => k = 3) /\ (~with_else => k = 2)
    BY <1>1, <1>4
  <2>3. n + 1 .. n + 3 = {n + 1, n + 2, n + 3} /\ n + 1 .. n + 2 = {n + 1, n + 2}
    BY <2>2
  <2> QED
    BY <2>1, <2>2, <2>3
<1>13. \A b \in Fresh(blocks, blocks') : blocks'[b] = <<>>
  BY <1>1, <1>2, <1>n DEF Fresh
<1>14. \A o : Opening(blocks, blocks', o, o \cup Own(f), i, name, pending, N)
  BY <1>5, <1>6, <1>7, <1>9, <1>12, <1>13 DEF Opening
<1>15. \A w, h : Widens(blocks, blocks', w, w \cup Awaited(f), h, h \cup Heading(f), name, N)
  <2>1. <<n + 2, {name}>>[1] = n + 2 /\ <<n + 2, {name}>>[2] = {name}
        /\ <<n + 3, {}>>[1] = n + 3 /\ <<n + 3, {}>>[2] = {}
    OBVIOUS
  <2> QED
    BY <1>7, <1>9, <1>12, <1>13, <2>1 DEF Widens
<1>16. at' \in Fresh(blocks, blocks') /\ blocks'[at'] = <<>>
  BY <1>1, <1>12, <1>13
<1>17. Begun(f, i, N)
  BY <1>14, <1>15, <1>16 DEF Begun
<1> QED
  BY <1>1, <1>3, <1>7, <1>8, <1>10, <1>11, <1>16, <1>17, FlowOpened

(* A match owes a branch from its start, to its end as long as there are   *)
(* no options.                                                             *)
LEMMA FlowMatch ==
  ASSUME Inv, FlowInv, NEW branches \in Nat, parse_match(branches)
  PROVE  FlowInv'
<1>n. PICK n : n = Len(blocks)
  OBVIOUS
<1>f. PICK f : f = Matching(n, branches)
  OBVIOUS
<1> DEFINE N == [b \in n + 1 .. n + 2 |-> IF b = n + 1 THEN pending ELSE {name}]
           i == Br(n + 1)
           j == Do(name)
<1>1. /\ stack # <<>> /\ ~Between /\ n \in Nat /\ Sorts /\ at \in Block /\ Len(stack) \in Nat
      /\ name \in Statement /\ at' = n + 1 /\ entries' = entries
      /\ Len(stack') = Len(stack) + 1 /\ stack'[Len(stack) + 1] = f
      /\ \A d \in 1 .. Len(stack) : Alike(stack[d], stack'[d], "other")
  BY <1>n, <1>f, MatchDoes
<1>2. /\ i \in Instructions(n + 2) /\ Len(blocks') = n + 2
      /\ blocks'[at] = Append(blocks[at], i) /\ blocks'[n + 1] = Append(<<>>, j)
      /\ \A b \in Block : b # at => blocks'[b] = blocks[b]
      /\ \A b \in n + 2 .. n + 2 : blocks'[b] = <<>>
  BY <1>n, <1>f, MatchDoes
<1>3. /\ follow' = follow \cup (pending \X {name}) /\ pending' = {name} /\ odd \subseteq odd'
  BY DEF parse_match, Runs
<1>4. /\ f.kind = "match" /\ f.start = n + 1 /\ f.end = n + 2 /\ f.next = n + 2 /\ f.option = 0
      /\ f.matcher = name /\ f.exits = {name}
  BY <1>f DEF Matching
<1>5. /\ i.id = Begin /\ i.op \in Terminators /\ i.to = {n + 1}
      /\ j.id = name /\ j.op \notin Terminators /\ j.to = {}
  BY BrIs DEF Do, Instruction, Terminators
<1>6. name # Begin
  BY <1>1 DEF Statement, Begin
<1>7. N[n + 1] = pending /\ N[n + 2] = {name}
  BY <1>1
<1> HIDE DEF i, j, N
<1>8. Plus(stack, Len(stack), f, stack', Len(stack'))
  BY <1>1, OwePushed
<1>9. Own(f) = {<<n + 1, n + 2, name>>} /\ Awaited(f) = {<<n + 2, {name}>>} /\ Heading(f) = {}
  BY <1>4, OwnOf
<1>10. Idle(stack')
  BY <1>1, <1>4 DEF Idle
<1>11. Grows(Instructions(n + 2), blocks, blocks', at, i)
  <2>1. n + 2 \in Nat /\ Len(blocks) <= n + 2
    BY <1>1, <1>n
  <2> QED
    BY <1>1, <1>2, <2>1, GrowsIs
<1>12. /\ Len(blocks'[n + 1]) = 1 /\ blocks'[n + 1][1] = j /\ blocks'[n + 1] # <<>>
       /\ Exits(blocks'[n + 1]) = {}
  BY <1>2, <1>5, OneIs
<1>13. Fresh(blocks, blocks') = {n + 1, n + 2}
  BY <1>1, <1>2, <1>n DEF Fresh
<1>14. blocks'[n + 2] = <<>>
  BY <1>1, <1>2
<1> DEFINE x == <<n + 1, n + 2, name>>
<1>15. x[1] = n + 1 /\ x[2] = n + 2 /\ x[3] = name
  OBVIOUS
<1> HIDE DEF x
<1>16. \A o : Opening(blocks, blocks', o, o \cup Own(f), i, name, pending, N)
  <2>1. Own(f) = {x}
    BY <1>9 DEF x
  <2> QED
    BY <1>5, <1>6, <1>7, <1>12, <1>13, <1>14, <1>15, <2>1 DEF Opening
<1>17. \A w, h : Widens(blocks, blocks', w, w \cup Awaited(f), h, h \cup Heading(f), name, N)
  <2>1. <<n + 2, {name}>>[1] = n + 2 /\ <<n + 2, {name}>>[2] = {name}
    OBVIOUS
  <2> QED
    BY <1>5, <1>7, <1>9, <1>13, <1>14, <2>1 DEF Widens
<1>18. Told => \A y \in LoopsTo(stack, Len(stack)) : y[1] \in 1 .. n
  BY <1>n DEF FlowInv, FitsOf, Fits, Bones
<1>19. CASE Told
  <2>1. \A y \in LoopsTo(stack, Len(stack)) \cup Heading(f) : y[1] # at'
    BY <1>1, <1>9, <1>18, <1>19
  <2>2. Begun(f, i, N)
    BY <1>1, <1>13, <1>16, <1>17, <2>1 DEF Begun
  <2> QED
    BY <1>1, <1>3, <1>8, <1>10, <1>11, <2>2, FlowOpened
<1>20. CASE ~Told
  BY <1>3, <1>20, Tell DEF Told
<1> QED
  BY <1>19, <1>20
-----------------------------------------------------------------------------
(* A branch is appended to a block. *)
LEMMA Branched ==
  ASSUME Inv, NEW s \in Block, NEW e \in Block, blocks' = Built(blocks, s, Br(e))
  PROVE  /\ Grows(Instructions(Len(blocks)), blocks, blocks', s, Br(e))
         /\ Len(blocks') = Len(blocks)
<1>1. Sorts /\ Len(blocks) \in Nat
  BY DEF Inv, Sorts
<1>2. Br(e) \in Instructions(Len(blocks))
  <2>1. Len(blocks) <= Len(blocks) /\ e \in 1 .. Len(blocks) /\ Begin \in Statement \cup {Begin}
    BY <1>1 DEF Block
  <2> QED
    BY <1>1, <2>1, BranchIs
<1>3. /\ Len(blocks') = Len(blocks) /\ blocks'[s] = Append(blocks[s], Br(e))
      /\ \A b \in Block : b # s => blocks'[b] = blocks[b]
  BY <1>1, <1>2, BuiltIn
<1> QED
  BY <1>1, <1>2, <1>3, GrowsIs

(* An activation that is popped takes with it what it owed. *)
LEMMA OwePopped ==
  ASSUME Inv, stack # <<>>, NEW m, m = Len(stack) - 1, NEW t,
         \A d \in 1 .. m : t[d] = stack[d]
  PROVE  Plus(t, m, top, stack, Len(stack))
<1>1. Len(stack) \in Nat /\ Len(stack) # 0 /\ top = stack[Len(stack)]
  BY StackIs
<1>2. m \in Nat /\ m + 1 = Len(stack)
  BY <1>1
<1>3. Plus(stack, m, stack[m + 1], stack, m + 1)
  BY <1>2, OweNext
<1>4. \A d \in 1 .. m : Alike(stack[d], t[d], "other")
  BY DEF Alike
<1>5. Equal(stack, m, t, m)
  BY <1>2, <1>4, OweSame
<1>6. Plus(stack, m, top, stack, Len(stack))
  BY <1>1, <1>2, <1>3
<1> HIDE <1>2, <1>1
<1> QED
  BY <1>5, <1>6 DEF Plus, Equal

(* Below an arm, a loop or a block there is code being built. *)
LEMMA PoppedIs ==
  ASSUME Inv, stack # <<>>, stack' = Pop
  PROVE  /\ Plus(stack', Len(stack'), top, stack, Len(stack))
         /\ top.kind \notin {"function", "match"} => ~Idle(stack')
<1>m. PICK m : m = Len(stack) - 1
  OBVIOUS
<1>1. /\ Len(stack) \in Nat /\ Len(stack) # 0 /\ top = stack[Len(stack)]
      /\ top.kind # "function" => Len(stack) # 1
  BY StackIs
<1>2. Len(stack') = m /\ \A d \in 1 .. m : stack'[d] = stack[d]
  BY <1>m, PopIs
<1>3. Plus(stack', m, top, stack, Len(stack))
  BY <1>m, <1>2, OwePopped
<1>4. ASSUME top.kind \notin {"function", "match"} PROVE ~Idle(stack')
  <2>1. m \in 1 .. Len(stack) - 1 /\ m + 1 = Len(stack) /\ m # 0 /\ m \in 1 .. m
    BY <1>m, <1>1, <1>4
  <2>2. ~(stack[m].kind = "match" /\ stack[m].option = 0)
    BY <2>1, <1>1, <1>4 DEF Inv, Nesting
  <2>3. stack'[Len(stack')] = stack[m] /\ stack' # <<>>
    BY <1>2, <2>1
  <2> QED
    BY <2>2, <2>3 DEF Idle
<1> QED
  BY <1>2, <1>3, <1>4

(* The blocks that wait below are others than those of the activation. *)
LEMMA WaitsBelow ==
  ASSUME Inv, stack # <<>>, NEW m, m = Len(stack) - 1, NEW t,
         \A d \in 1 .. m : t[d] = stack[d], NEW x \in WaitsTo(t, m)
  PROVE  x[1] \notin Held(top) /\ x \in WaitsTo(stack, Len(stack))
<1>1. Len(stack) \in Nat /\ Len(stack) # 0 /\ top = stack[Len(stack)]
  BY StackIs
<1>2. PICK d \in 1 .. m : x \in Awaited(t[d])
  BY DEF WaitsTo
<1>3. d \in 1 .. Len(stack) /\ d # Len(stack) /\ Len(stack) \in 1 .. Len(stack)
  BY <1>1
<1>4. x \in Awaited(stack[d])
  BY <1>2
<1>5. x[1] \in Held(stack[d])
  BY <1>4, LaterHeld
<1>6. Held(stack[d]) \cap Held(stack[Len(stack)]) = {}
  BY <1>3 DEF Inv, Apart
<1> QED
  BY <1>1, <1>3, <1>4, <1>5, <1>6 DEF WaitsTo

(* The body of a loop goes back to its condition. *)
LEMMA FlowWhileEnd == ASSUME Inv, FlowInv, while_ends PROVE FlowInv'
<1> DEFINE o == OwesTo(stack, Len(stack))
           w == WaitsTo(stack, Len(stack))
           h == LoopsTo(stack, Len(stack))
           v == WaitsTo(stack', Len(stack'))
           g == LoopsTo(stack', Len(stack'))
           s == top.start
           m == top.end
           c == top.condition
           i == Br(s)
           qd == {c}
<1>1. /\ stack # <<>> /\ top.kind = "while" /\ stack' = Pop /\ at' = m
      /\ entries' = entries /\ blocks' = Built(blocks, at, i)
      /\ follow' = follow \cup (pending \X {c}) /\ pending' = {c} /\ odd \subseteq odd'
  BY DEF while_ends, Runs
<1>2. at \in Block /\ ~Between /\ Sorts /\ \A b \in Known(top) : b \in Block
  BY <1>1, AtEnd
<1>3. s \in Block
  BY <1>1, <1>2 DEF Known
<1>4. i.id = Begin /\ i.op \in Terminators /\ i.to = {s}
  BY BrIs
<1> HIDE DEF i
<1>5. Grows(Instructions(Len(blocks)), blocks, blocks', at, i) /\ Len(blocks') = Len(blocks)
  BY <1>1, <1>2, <1>3, Branched DEF i
<1>6. Plus(stack', Len(stack'), top, stack, Len(stack)) /\ ~Idle(stack')
  BY <1>1, PoppedIs
<1>7. Own(top) = {} /\ Awaited(top) = {<<m, {c}>>} /\ Heading(top) = {<<s, c>>}
  BY <1>1, OwnOf
<1>8. /\ OwesTo(stack', Len(stack')) = o /\ w = v \cup {<<m, {c}>>} /\ h = g \cup {<<s, c>>}
  BY <1>6, <1>7 DEF Plus
<1>9. Spot(stack, at) = {at} /\ Spot(stack', at') = {m}
  BY <1>1, <1>2, <1>6, IdleIs DEF Spot
<1>10. \A e \in entries : e[1] \in 1 .. Len(blocks)
  BY <1>2, EntriesExist
<1>11. Free(at, o, w)
  BY <1>1, <1>2, WaitsOnce
<1>12. Told => Fits(blocks, at, o, w, h, entries, follow, {at}, pending)
  BY <1>9 DEF FlowInv, FitsOf
<1>13. FitsOf(blocks', stack', at', entries', follow', pending') <=>
        Fits(blocks', m, o, v, g, entries, follow \cup (pending \X {c}), {m}, qd)
  BY <1>1, <1>8, <1>9 DEF FitsOf
<1>14. Told' => Told
  BY <1>1 DEF Told
<1>15. <<s, c>> \in h /\ v \subseteq w /\ g \subseteq h /\ <<m, qd>> \in w
  BY <1>8
<1> HIDE DEF o, w, h, v, g, s, m, c, qd
<1>16. ASSUME Told
       PROVE  Fits(blocks', m, o, v, g, entries, follow \cup (pending \X {c}), {m}, qd)
  <2>1. Fits(blocks, at, o, w, h, entries, follow, {at}, pending)
    BY <1>12, <1>16
  <2>2. Turned(w, v, h, g, s, c, m, qd)
    BY <1>15 DEF Turned
  <2>3. i.to = {s} /\ i.id = Begin /\ i.op \in Terminators
    BY <1>4
  <2> QED
    BY <1>5, <1>10, <1>11, <2>1, <2>2, <2>3, FlowLoops
<1> QED
  BY <1>13, <1>14, <1>16, Tell

(* An arm, or a branch, ends where M may have run last in its end e. *)
LEMMA FlowArm ==
  ASSUME Inv, FlowInv, stack # <<>>, ~Between, entries' = entries, follow' = follow,
         odd \subseteq odd', NEW e \in Block,
         blocks' = blocks \/ blocks' = Built(blocks, at, Br(e)),
         NEW M, <<e, M>> \in WaitsTo(stack, Len(stack)),
         Handed(WaitsTo(stack, Len(stack)), WaitsTo(stack', Len(stack')), e, M, pending),
         OwesTo(stack', Len(stack')) = OwesTo(stack, Len(stack)),
         LoopsTo(stack', Len(stack')) \subseteq LoopsTo(stack, Len(stack)),
         \/ \E x \in WaitsTo(stack, Len(stack)) : x[1] = at'
         \/ at' = at /\ blocks' # blocks,
         NextAt(WaitsTo(stack, Len(stack)), e, M, pending, Spot(stack', at'), at', pending')
  PROVE  FlowInv'
<1> DEFINE o == OwesTo(stack, Len(stack))
           w == WaitsTo(stack, Len(stack))
           h == LoopsTo(stack, Len(stack))
           v == WaitsTo(stack', Len(stack'))
           g == LoopsTo(stack', Len(stack'))
           i == Br(e)
           m == at'
           q == Spot(stack', at')
           qd == pending'
<1>1. at \in Block /\ at \in 1 .. Len(blocks) /\ Sorts
  BY StackIs DEF Inv, Block
<1>2. i.id = Begin /\ i.op \in Terminators /\ i.to = {e}
  BY BrIs
<1>3. Spot(stack, at) = {at}
  BY IdleIs DEF Spot
<1>4. \A x \in entries : x[1] \in 1 .. Len(blocks)
  BY <1>1, EntriesExist
<1>5. Free(at, o, w)
  BY WaitsOnce
<1>6. Told => Fits(blocks, at, o, w, h, entries, follow, {at}, pending)
  BY <1>3 DEF FlowInv, FitsOf
<1>7. FitsOf(blocks', stack', at', entries', follow', pending') <=>
        Fits(blocks', m, o, v, g, entries, follow, q, qd)
  BY DEF FitsOf
<1>8. Told' => Told
  BY DEF Told
<1>9. <<e, M>> \in w /\ Handed(w, v, e, M, pending) /\ g \subseteq h
      /\ NextAt(w, e, M, pending, q, m, qd)
  OBVIOUS
<1>10. (\E x \in w : x[1] = m) \/ (m = at /\ blocks' # blocks)
  OBVIOUS
<1> HIDE DEF o, w, h, v, g, m, q, qd, i
<1>11. ASSUME Told PROVE Fits(blocks', m, o, v, g, entries, follow, q, qd)
  <2>1. CASE blocks' = blocks
    <3>1. \E x \in w : x[1] = m
      BY <1>10, <2>1
    <3>2. Fits(blocks, m, o, v, g, entries, follow, q, qd)
      BY <1>1, <1>4, <1>5, <1>6, <1>9, <1>11, <3>1, FlowStops
    <3> QED
      BY <2>1, <3>2
  <2>2. CASE blocks' = Built(blocks, at, i)
    <3>1. Grows(Instructions(Len(blocks)), blocks, blocks', at, i) /\ Len(blocks') = Len(blocks)
      BY <1>1, <2>2, Branched DEF i
    <3> QED
      BY <1>2, <1>4, <1>5, <1>6, <1>9, <1>10, <1>11, <3>1, FlowCloses
  <2> QED
    BY <2>1, <2>2 DEF i
<1> QED
  BY <1>7, <1>8, <1>11, Tell
-----------------------------------------------------------------------------
(* The arm for else ends where the arm before it does. *)
LEMMA FlowElseEnd == ASSUME Inv, FlowInv, else_ends PROVE FlowInv'
<1> DEFINE w == WaitsTo(stack, Len(stack))
           v == WaitsTo(stack', Len(stack'))
           e == top.end
           M == top.exits
           x == <<e, M>>
<1>1. /\ stack # <<>> /\ top.kind = "else" /\ stack' = Pop /\ at' = e
      /\ entries' = entries /\ follow' = follow /\ odd \subseteq odd'
      /\ blocks' = blocks \/ blocks' = Built(blocks, at, Br(e))
      /\ pending' = pending \cup M
  BY DEF else_ends
<1>2. ~Between /\ e \in Held(top) /\ e \in Block
  BY <1>1, AtEnd DEF Held
<1>3. Plus(stack', Len(stack'), top, stack, Len(stack)) /\ ~Idle(stack')
  BY <1>1, PoppedIs
<1>4. Own(top) = {} /\ Awaited(top) = {x} /\ Heading(top) = {}
  BY <1>1, OwnOf
<1>5. x[1] = e
  OBVIOUS
<1> HIDE DEF x
<1>6. /\ OwesTo(stack', Len(stack')) = OwesTo(stack, Len(stack)) /\ w = v \cup {x}
      /\ LoopsTo(stack', Len(stack')) \subseteq LoopsTo(stack, Len(stack))
  BY <1>3, <1>4 DEF Plus
<1>m. PICK m : m = Len(stack) - 1
  OBVIOUS
<1>7. Len(stack') = m /\ \A d \in 1 .. m : stack'[d] = stack[d]
  BY <1>1, <1>m, PopIs
<1>8. \A y \in v : y[1] # e /\ y \in w
  <2> SUFFICES ASSUME NEW y \in v PROVE y[1] # e /\ y \in w
    OBVIOUS
  <2>1. y \in WaitsTo(stack', m)
    BY <1>7
  <2> QED
    BY <1>1, <1>2, <1>m, <1>7, <2>1, WaitsBelow
<1>9. Handed(w, v, e, M, pending)
  BY <1>8 DEF Handed
<1>10. Spot(stack', at') = {e}
  BY <1>1, <1>3 DEF Spot
<1>11. NextAt(w, e, M, pending, Spot(stack', at'), at', pending')
  BY <1>1, <1>10 DEF NextAt
<1>12. <<e, M>> \in w /\ \E y \in w : y[1] = at'
  BY <1>1, <1>5, <1>6 DEF x
<1> HIDE DEF w, v, e, M
<1> QED
  BY <1>1, <1>2, <1>6, <1>9, <1>11, <1>12, FlowArm DEF w, v

(* The first arm goes on to the end, and the one for else, if any, begins  *)
(* where the condition ran last.                                           *)
LEMMA FlowThenEnd == ASSUME Inv, FlowInv, then_ends PROVE FlowInv'
<1> DEFINE w == WaitsTo(stack, Len(stack))
           v == WaitsTo(stack', Len(stack'))
           e == top.end
           c == {top.condition}
           t == [kind |-> "else", end |-> top.end, exits |-> pending]
<1>1. /\ stack # <<>> /\ top.kind = "then"
      /\ entries' = entries /\ follow' = follow /\ odd \subseteq odd'
      /\ blocks' = blocks \/ blocks' = Built(blocks, at, Br(e))
  BY DEF then_ends
<1>2. /\ top.else_ = 0 => at' = e /\ stack' = Pop /\ pending' = pending \cup c
      /\ top.else_ # 0 => at' = top.else_ /\ stack' = Append(Pop, t) /\ pending' = c
  BY DEF then_ends
<1>3. /\ top \in Thens(Len(blocks)) /\ Len(blocks) \in Nat /\ top.else_ # top.end
      /\ Len(stack) \in Nat /\ Len(stack) # 0
  <2>1. top \in Activations(Len(blocks)) /\ Len(blocks) \in Nat
    BY <1>1, AtEnd
  <2>2. top \in Thens(Len(blocks))
    BY <1>1, <2>1, ActivationIs
  <2>3. Len(stack) \in 1 .. Len(stack) /\ top = stack[Len(stack)] /\ Len(stack) \in Nat
    BY <1>1, StackIs
  <2>4. top.else_ # top.end
    BY <1>1, <2>3 DEF Inv, Apart
  <2> QED
    BY <2>1, <2>2, <2>3, <2>4
<1>4. e # 0 /\ e \in Held(top) /\ e \in Block /\ ~Between
  <2>1. e # 0
    BY <1>3 DEF Thens
  <2>2. e \in Held(top)
    BY <1>1, <2>1 DEF Held
  <2> QED
    BY <1>1, <2>1, <2>2, AtEnd
<1>m. PICK m : m = Len(stack) - 1
  OBVIOUS
<1>5. m \in Nat /\ m + 1 = Len(stack)
  BY <1>m, <1>3
<1>6. Own(top) = {} /\ Heading(top) = {}
  BY <1>1, OwnOf
<1>7. CASE top.else_ = 0
  <2> DEFINE x == <<e, c>>
  <2>1. Plus(stack', Len(stack'), top, stack, Len(stack)) /\ ~Idle(stack')
    BY <1>1, <1>2, <1>7, PoppedIs
  <2>2. Awaited(top) = {x}
    BY <1>1, <1>4, <1>7, OwnOf
  <2>3. x[1] = e
    OBVIOUS
  <2> HIDE DEF x
  <2>4. /\ OwesTo(stack', Len(stack')) = OwesTo(stack, Len(stack)) /\ w = v \cup {x}
        /\ LoopsTo(stack', Len(stack')) \subseteq LoopsTo(stack, Len(stack))
    BY <1>6, <2>1, <2>2 DEF Plus
  <2>5. Len(stack') = m /\ \A d \in 1 .. m : stack'[d] = stack[d]
    BY <1>1, <1>2, <1>7, <1>m, PopIs
  <2>6. \A y \in v : y[1] # e /\ y \in w
    <3> SUFFICES ASSUME NEW y \in v PROVE y[1] # e /\ y \in w
      OBVIOUS
    <3>1. y \in WaitsTo(stack', m)
      BY <2>5
    <3> QED
      BY <1>1, <1>4, <1>m, <2>5, <3>1, WaitsBelow
  <2>7. Handed(w, v, e, c, pending)
    BY <2>6 DEF Handed
  <2>8. Spot(stack', at') = {e}
    BY <1>2, <1>7, <2>1 DEF Spot
  <2>9. NextAt(w, e, c, pending, Spot(stack', at'), at', pending')
    BY <1>2, <1>7, <2>8 DEF NextAt
  <2>10. <<e, c>> \in w /\ \E y \in w : y[1] = at'
    BY <1>2, <1>7, <2>3, <2>4 DEF x
  <2> HIDE DEF w, v, e, c
  <2> QED
    BY <1>1, <1>4, <2>4, <2>7, <2>9, <2>10, FlowArm DEF w, v
<1>8. CASE top.else_ # 0
  <2> DEFINE a == top.else_
             M == {}
             x == <<a, c>>
             y == <<e, M>>
             z == <<e, pending>>
  <2>1. Awaited(top) = {x, y}
    BY <1>1, <1>3, <1>4, <1>8, OwnOf
  <2>2. x[1] = a /\ y[1] = e /\ z[1] = e /\ a # e
    BY <1>3
  <2>3. t.kind = "else" /\ t.end = e /\ t.exits = pending
    OBVIOUS
  <2> HIDE DEF t, x, y, z
  <2>4. Len(Pop) = m /\ \A d \in 1 .. m : Pop[d] = stack[d]
    BY <1>1, <1>m, PopIs
  <2>5. Pop \in Seq(Activations(Len(blocks)))
    <3> DEFINE A == Activations(Len(blocks))
               n == Len(stack)
    <3>1. stack \in Seq(A) /\ Pop = SubSeq(stack, 1, n - 1) /\ n = Len(stack)
      BY DEF Inv, Sorts, Pop
    <3>2. n \in Nat /\ n # 0
      BY <1>3
    <3> HIDE DEF A, n
    <3>3. Pop \in Seq(A)
      BY <3>1, <3>2
    <3> QED
      BY <3>3 DEF A
  <2>6. Len(stack') = m + 1 /\ stack'[m + 1] = t /\ \A d \in 1 .. m : stack'[d] = stack[d]
    <3> DEFINE A == Activations(Len(blocks))
    <3>1. Pop \in Seq(A)
      BY <2>5
    <3> HIDE DEF A
    <3>2. /\ Len(Append(Pop, t)) = m + 1 /\ Append(Pop, t)[m + 1] = t
          /\ \A d \in 1 .. m : Append(Pop, t)[d] = Pop[d]
      BY <1>5, <2>4, <3>1
    <3> QED
      BY <1>2, <1>8, <2>4, <3>2 DEF t
  <2>7. Plus(stack', m, top, stack, Len(stack))
    BY <1>1, <1>m, <2>6, OwePopped
  <2>8. Plus(stack', m, t, stack', m + 1)
    <3>1. Plus(stack', m, stack'[m + 1], stack', m + 1)
      BY <1>5, OweNext
    <3> QED
      BY <2>6, <3>1
  <2>9. Own(t) = {} /\ Awaited(t) = {z} /\ Heading(t) = {}
    BY <2>3, OwnOf DEF z
  <2> DEFINE u == WaitsTo(stack', m)
  <2>10. /\ OwesTo(stack', Len(stack')) = OwesTo(stack, Len(stack)) /\ w = u \cup {x, y}
         /\ v = u \cup {z}
         /\ LoopsTo(stack', Len(stack')) \subseteq LoopsTo(stack, Len(stack))
    BY <1>6, <2>1, <2>6, <2>7, <2>8, <2>9 DEF Plus
  <2>11. \A r \in u : r[1] # e /\ r \in w
    <3> SUFFICES ASSUME NEW r \in u PROVE r[1] # e /\ r \in w
      OBVIOUS
    <3> QED
      BY <1>1, <1>4, <1>m, <2>6, WaitsBelow
  <2>12. Handed(w, v, e, M, pending)
    <3>1. M \cup pending = pending
      OBVIOUS
    <3> HIDE DEF M, u, w, v
    <3> QED
      BY <2>10, <2>11, <3>1 DEF Handed, z
  <2>13. ~Idle(stack')
    <3>1. stack' # <<>>
      BY <1>5, <2>6
    <3> QED
      BY <2>3, <2>6, <3>1 DEF Idle
  <2>14. Spot(stack', at') = {a}
    BY <1>2, <1>8, <2>13 DEF Spot
  <2>15. NextAt(w, e, M, pending, Spot(stack', at'), at', pending')
    BY <1>2, <1>8, <2>2, <2>10, <2>14 DEF NextAt, x
  <2>16. <<e, M>> \in w /\ \E r \in w : r[1] = at'
    BY <1>2, <1>8, <2>2, <2>10 DEF y
  <2> HIDE DEF w, v, e, M, u, a, c
  <2> QED
    BY <1>1, <1>4, <2>10, <2>12, <2>15, <2>16, FlowArm DEF w, v
<1> QED
  BY <1>7, <1>8
-----------------------------------------------------------------------------
(* The top activation f is replaced by g. *)
LEMMA OweTurned ==
  ASSUME Inv, stack # <<>>, NEW m, m = Len(stack) - 1, NEW t, NEW last,
         \A d \in 1 .. m : Alike(stack[d], t[d], last)
  PROVE  Plus(stack, m, top, stack, Len(stack)) /\ Plus(stack, m, t[Len(stack)], t, Len(stack))
<1>1. Len(stack) \in Nat /\ Len(stack) # 0 /\ top = stack[Len(stack)]
  BY StackIs
<1>2. m \in Nat /\ m + 1 = Len(stack)
  BY <1>1
<1>3. Plus(stack, m, stack[m + 1], stack, m + 1)
  BY <1>2, OweNext
<1>4. Plus(stack, m, t[m + 1], t, m + 1)
  BY <1>2, OwePushed
<1> QED
  BY <1>1, <1>2, <1>3, <1>4

(* A branch of a match begins where what is matched on ran last. *)
LEMMA FlowOptioned == ASSUME Inv, FlowInv, match_option PROVE FlowInv'
<1>n. PICK n : n = Len(blocks)
  OBVIOUS
<1>m. PICK m : m = Len(stack) - 1
  OBVIOUS
<1>u. PICK u : u = Opting(n)
  OBVIOUS
<1>i. PICK i : i = Testing(n)
  OBVIOUS
<1> DEFINE s == top.start
           t == top.next
           c == top.matcher
           w == WaitsTo(stack, Len(stack))
           h == LoopsTo(stack, Len(stack))
           o == OwesTo(stack, Len(stack))
           p == OwesTo(stack', Len(stack'))
           R == OwesTo(stack, m)
           x == <<s, t, c>>
           y == <<s, n + 1, c>>
<1>1. /\ stack # <<>> /\ top.kind = "match" /\ top.option = 0
      /\ at' = n + 2 /\ entries' = entries /\ follow' = follow
      /\ pending' = {c} /\ odd \subseteq odd'
  BY <1>n DEF match_option
<1>2. Sorts /\ Len(blocks) \in Nat /\ Between /\ Len(stack) \in Nat
  BY <1>1, AtMatch DEF Between
<1>3. /\ u.kind = "match" /\ u.start = s /\ u.end = top.end
      /\ u.option = n + 1 /\ u.matcher = c /\ u.exits = top.exits
  BY <1>n, <1>u, OptionDoes
<1>4. i.op = "condbr" /\ i.to = {n + 2, t}
  BY <1>n, <1>i, OptionDoes
<1>5. /\ Len(stack') = Len(stack) /\ stack'[Len(stack)] = u
      /\ \A d \in 1 .. Len(stack) - 1 : Alike(stack[d], stack'[d], stack[1].last)
  BY <1>n, <1>u, OptionDoes
<1>6. Tested(blocks', n)
  BY <1>n, OptionDoes
<1>7. i.id = Begin
  BY <1>i DEF Testing, CondBr, Instruction
<1>8. /\ Len(blocks') = n + 2 /\ blocks'[n + 1] = Append(<<>>, i) /\ blocks'[n + 2] = <<>>
      /\ \A b \in Block : blocks'[b] = blocks[b]
  BY <1>i, <1>6 DEF Tested
<1>9. Len(blocks'[n + 1]) = 1 /\ blocks'[n + 1][1] = i
  BY <1>8, OneIs
<1>10. \A b \in 1 .. Len(blocks) : blocks'[b] = blocks[b] /\ Exits(blocks[b]) \subseteq 1 .. Len(blocks)
  BY <1>2, <1>8, ExitsExist DEF Block
<1>11. Own(top) = {x} /\ Awaited(top) = {<<top.end, top.exits>>} /\ Heading(top) = {}
  BY <1>1, OwnOf
<1>12. n + 1 # 0
  BY <1>2, <1>n
<1>13. Own(u) = {y} /\ Awaited(u) = {<<top.end, top.exits>>} /\ Heading(u) = {}
  <2>1. u.option # 0
    BY <1>3, <1>12
  <2> QED
    BY <1>3, <2>1, OwnOf
<1> HIDE DEF x, y
<1>14. Plus(stack, m, top, stack, Len(stack))
  BY <1>1, <1>m, <1>5, OweTurned
<1>15. Plus(stack, m, u, stack', Len(stack'))
  <2>1. Plus(stack, m, stack'[Len(stack)], stack', Len(stack))
    BY <1>1, <1>m, <1>5, OweTurned
  <2> QED
    BY <1>5, <2>1
<1>16. /\ o = R \cup {x} /\ p = R \cup {y} /\ WaitsTo(stack', Len(stack')) = w
       /\ LoopsTo(stack', Len(stack')) = h
  BY <1>11, <1>13, <1>14, <1>15 DEF Plus
<1>17. Also(o, R, <<s, t, c>>) /\ Also(p, R, <<s, n + 1, c>>)
  BY <1>16 DEF Also, x, y
<1>18. Spot(stack, at) = {}
  BY <1>1, <1>2, IdleIs DEF Spot
<1>19. Spot(stack', at') = {n + 2}
  <2>1. stack' # <<>>
    <3>1. Len(stack) # 0
      BY <1>1, StackIs
    <3> QED
      BY <1>2, <1>5, <3>1
  <2>2. ~Idle(stack')
    BY <1>3, <1>5, <1>12, <2>1 DEF Idle
  <2> QED
    BY <1>1, <2>2 DEF Spot
<1>20. Told => Fits(blocks, at, o, w, h, entries, follow, {}, pending)
  BY <1>18 DEF FlowInv, FitsOf
<1>21. FitsOf(blocks', stack', at', entries', follow', pending') <=>
         Fits(blocks', n + 2, p, w, h, entries, follow, {n + 2}, {c})
  BY <1>1, <1>16, <1>19 DEF FitsOf
<1>22. Told' => Told
  BY <1>1 DEF Told
<1>23. \A e \in entries : e[1] \in 1 .. Len(blocks)
  BY <1>2, EntriesExist
<1>24. i.op \in Terminators
  BY <1>4 DEF Terminators
<1> HIDE DEF o, p, w, h, R, s, t, c
<1>25. ASSUME Told PROVE Fits(blocks', n + 2, p, w, h, entries, follow, {n + 2}, {c})
  <2>1. Fits(blocks, at, o, w, h, entries, follow, {}, pending)
    BY <1>20, <1>25
  <2>2. /\ Also(o, R, <<s, t, c>>) /\ Also(p, R, <<s, Len(blocks) + 1, c>>)
        /\ Len(blocks') = Len(blocks) + 2
        /\ Len(blocks'[Len(blocks) + 1]) = 1
        /\ blocks'[Len(blocks) + 1][1].op \in Terminators
        /\ blocks'[Len(blocks) + 1][1].id = Begin
        /\ blocks'[Len(blocks) + 1][1].to = {Len(blocks) + 2, t}
        /\ blocks'[Len(blocks) + 2] = <<>>
    BY <1>n, <1>4, <1>7, <1>8, <1>9, <1>17, <1>24
  <2>3. Fits(blocks', Len(blocks) + 2, p, w, h, entries, follow, {Len(blocks) + 2}, {c})
    BY <1>2, <1>10, <1>23, <2>1, <2>2, FlowOption
  <2> QED
    BY <1>n, <2>3
<1> QED
  BY <1>21, <1>22, <1>25, Tell
-----------------------------------------------------------------------------
(* It goes on to the end of the match. *)
LEMMA FlowResult == ASSUME Inv, FlowInv, match_result PROVE FlowInv'
<1>m. PICK m : m = Len(stack) - 1
  OBVIOUS
<1>t. PICK t : t = Settled
  OBVIOUS
<1> DEFINE w == WaitsTo(stack, Len(stack))
           v == WaitsTo(stack', Len(stack'))
           e == top.end
           M == top.exits
           N == M \cup pending
           W == WaitsTo(stack, m)
           x == <<e, M>>
           y == <<e, N>>
           z == <<top.start, top.option, top.matcher>>
<1>1. /\ stack # <<>> /\ top.kind = "match" /\ top.option # 0
      /\ at' = at /\ entries' = entries /\ follow' = follow /\ odd' = odd
      /\ pending' = pending /\ blocks' = Built(blocks, at, Br(e))
  BY DEF match_result, source
<1>2. /\ at \in Block /\ e \in Block /\ Len(blocks) \in Nat /\ Sorts /\ ~Between
      /\ Held(top) = {top.start, e} /\ Len(stack) \in Nat
  BY <1>1, AtMatch DEF Between
<1>3. /\ t.kind = "match" /\ t.start = top.start /\ t.end = e
      /\ t.next = top.option /\ t.option = 0 /\ t.matcher = top.matcher /\ t.exits = N
  BY <1>t, ResultDoes
<1>4. /\ Len(stack') = Len(stack) /\ stack'[Len(stack)] = t
      /\ \A d \in 1 .. Len(stack) - 1 : stack'[d] = stack[d]
  BY <1>t, ResultDoes
<1>5. Own(top) = {z} /\ Awaited(top) = {x} /\ Heading(top) = {}
  BY <1>1, OwnOf
<1>6. Own(t) = {z} /\ Awaited(t) = {y} /\ Heading(t) = {}
  BY <1>3, OwnOf
<1>7. x[1] = e
  OBVIOUS
<1> HIDE DEF z, x
<1>8. \A d \in 1 .. m : Alike(stack[d], stack'[d], "other")
  BY <1>m, <1>4 DEF Alike
<1>9. Plus(stack, m, top, stack, Len(stack))
  BY <1>1, <1>m, <1>8, OweTurned
<1>10. Plus(stack, m, t, stack', Len(stack'))
  <2>1. Plus(stack, m, stack'[Len(stack)], stack', Len(stack))
    BY <1>1, <1>m, <1>8, OweTurned
  <2> QED
    BY <1>4, <2>1
<1>11. /\ OwesTo(stack', Len(stack')) = OwesTo(stack, Len(stack))
       /\ LoopsTo(stack', Len(stack')) \subseteq LoopsTo(stack, Len(stack))
       /\ w = W \cup {x} /\ v = W \cup {y}
  BY <1>5, <1>6, <1>9, <1>10 DEF Plus
<1>12. \A r \in W : r[1] # e /\ r \in w
  <2> SUFFICES ASSUME NEW r \in W PROVE r[1] # e /\ r \in w
    OBVIOUS
  <2>1. \A d \in 1 .. m : stack[d] = stack[d]
    OBVIOUS
  <2>2. r[1] \notin Held(top) /\ r \in w
    BY <1>1, <1>m, <2>1, WaitsBelow
  <2> QED
    BY <1>2, <2>2
<1>13. Handed(w, v, e, M, pending)
  BY <1>11, <1>12 DEF Handed
<1>14. Idle(stack')
  BY <1>3, <1>4 DEF Idle
<1>15. NextAt(w, e, M, pending, Spot(stack', at'), at', pending')
  BY <1>14 DEF NextAt, Spot
<1>16. blocks' # blocks
  <2>1. Br(e) \in Instructions(Len(blocks))
    <3>1. Len(blocks) <= Len(blocks) /\ e \in 1 .. Len(blocks) /\ Begin \in Statement \cup {Begin}
      BY <1>2 DEF Block
    <3> QED
      BY <1>2, <3>1, BranchIs
  <2>2. blocks'[at] = Append(blocks[at], Br(e))
    BY <1>1, <1>2, <2>1, BuiltIn
  <2>3. blocks[at] \in Seq(Instructions(Len(blocks)))
    BY <1>2 DEF Sorts, Block
  <2> DEFINE c == blocks[at]
             A == Instructions(Len(blocks))
             i == Br(e)
  <2>4. c \in Seq(A) /\ i \in A
    BY <2>1, <2>3
  <2> HIDE DEF c, A, i
  <2>5. Len(Append(c, i)) # Len(c)
    BY <2>4
  <2> QED
    BY <2>2, <2>5 DEF c, i
<1>17. <<e, M>> \in w
  BY <1>11 DEF x
<1> HIDE DEF w, v, e, M, N, W
<1> QED
  BY <1>1, <1>2, <1>11, <1>13, <1>15, <1>16, <1>17, FlowArm DEF w, v

(* The start of a match gets the branch it owes. *)
LEMMA FlowMatchEnd == ASSUME Inv, FlowInv, match_ends PROVE FlowInv'
<1>m. PICK m : m = Len(stack) - 1
  OBVIOUS
<1> DEFINE s == top.start
           t == top.next
           c == top.matcher
           e == top.end
           qd == top.exits
           i == Br(t)
           o == OwesTo(stack, Len(stack))
           w == WaitsTo(stack, Len(stack))
           h == LoopsTo(stack, Len(stack))
           p == OwesTo(stack', Len(stack'))
           v == WaitsTo(stack', Len(stack'))
           g == LoopsTo(stack', Len(stack'))
           x == <<s, t, c>>
           y == <<e, qd>>
<1>1. /\ stack # <<>> /\ top.kind = "match" /\ top.option = 0
      /\ at' = e /\ entries' = entries /\ follow' = follow /\ odd' = odd /\ stack' = Pop
      /\ pending' = qd /\ blocks' = Built(blocks, s, i)
  BY DEF match_ends
<1>2. /\ Len(blocks) \in Nat /\ Sorts /\ Between /\ Len(stack) \in Nat /\ Len(stack) >= 1
      /\ Held(top) = {s, e} /\ s \in Block /\ t \in Block /\ top = stack[Len(stack)]
  BY <1>1, AtMatch DEF Between
<1>3. Grows(Instructions(Len(blocks)), blocks, blocks', s, i) /\ Len(blocks') = Len(blocks)
  BY <1>1, <1>2, Branched
<1>4. i.id = Begin /\ i.op \in Terminators /\ i.to = {t}
  BY BrIs
<1>5. Plus(stack', Len(stack'), top, stack, Len(stack))
  BY <1>1, PoppedIs
<1>6. Own(top) = {x} /\ Awaited(top) = {y} /\ Heading(top) = {}
  BY <1>1, OwnOf
<1> HIDE DEF x, y
<1>7. o = p \cup {x} /\ w = v \cup {y} /\ h = g
  BY <1>5, <1>6 DEF Plus
<1>8. Len(stack') = m /\ \A d \in 1 .. m : stack'[d] = stack[d]
  BY <1>1, <1>m, PopIs
<1>9. \A r \in p : r[1] # s
  <2> SUFFICES ASSUME NEW r \in p PROVE r[1] # s
    OBVIOUS
  <2>1. PICK d \in 1 .. m : r \in Own(stack'[d])
    BY <1>8 DEF OwesTo
  <2>2. d \in 1 .. Len(stack) /\ d # Len(stack) /\ Len(stack) \in 1 .. Len(stack)
    BY <1>2, <1>m
  <2>3. r[1] \in Held(stack[d])
    BY <1>8, <2>1, LaterHeld
  <2>4. Held(stack[d]) \cap Held(stack[Len(stack)]) = {}
    BY <2>2 DEF Inv, Apart
  <2> QED
    BY <1>2, <2>3, <2>4
<1>10. ~Idle(stack')
  <2>1. m \in 1 .. Len(stack) - 1 /\ m + 1 = Len(stack) /\ m # 0 /\ m \in 1 .. m
    <3>1. Len(stack) # 1
      BY <1>1, StackIs
    <3> QED
      BY <1>m, <1>2, <3>1
  <2>2. ~(stack[m].kind = "match" /\ stack[m].option = 0)
    BY <2>1, <1>1, <1>2 DEF Inv, Nesting
  <2>3. stack'[Len(stack')] = stack[m] /\ stack' # <<>>
    BY <1>8, <2>1
  <2> QED
    BY <2>2, <2>3 DEF Idle
<1>11. Spot(stack, at) = {} /\ Spot(stack', at') = {e}
  BY <1>1, <1>2, <1>10, IdleIs DEF Spot
<1>12. Told => Fits(blocks, at, o, w, h, entries, follow, {}, pending)
  BY <1>11 DEF FlowInv, FitsOf
<1>13. FitsOf(blocks', stack', at', entries', follow', pending') <=>
         Fits(blocks', e, p, v, g, entries, follow, {e}, qd)
  BY <1>1, <1>11 DEF FitsOf
<1>14. Told' => Told
  BY <1>1 DEF Told
<1>15. Also(o, p, <<s, t, c>>) /\ v \subseteq w /\ g \subseteq h /\ <<e, qd>> \in w
  BY <1>7 DEF Also, x, y
<1> HIDE DEF o, w, h, p, v, g, s, t, c, e, qd, i
<1>16. ASSUME Told PROVE Fits(blocks', e, p, v, g, entries, follow, {e}, qd)
  <2>1. Fits(blocks, at, o, w, h, entries, follow, {}, pending)
    BY <1>12, <1>16
  <2> QED
    BY <1>3, <1>4, <1>9, <1>15, <2>1, FlowMatched
<1> QED
  BY <1>13, <1>14, <1>16, Tell
-----------------------------------------------------------------------------
(* What may have run last where the builder is may be forgotten. *)
LEMMA FlowLeft ==
  ASSUME NEW bs, NEW l, NEW o, NEW w, NEW h, NEW en, NEW fl, NEW q, NEW pd, NEW qd,
         Fits(bs, l, o, w, h, en, fl, q, pd)
  PROVE  Fits(bs, l, o, w, h, en, fl, {}, qd)
<1>1. Bones(bs, l, o, w, h)
  BY DEF Fits
<1>2. ASSUME Tidy(bs, l, o, w)
      PROVE  Sound(bs, o, w, en, fl, {}, qd) /\ Complete(bs, o, w, en, fl, {}, qd)
  <2>1. Sound(bs, o, w, en, fl, q, pd) /\ Complete(bs, o, w, en, fl, q, pd)
    BY <1>2 DEF Fits, Flows
  <2>2. PICK X : Carries(bs, o, w, en, fl, q, pd, X)
    BY <2>1 DEF Sound
  <2>3. Carries(bs, o, w, en, fl, {}, qd, X)
    BY <2>2 DEF Carries, Brings
  <2>4. Complete(bs, o, w, en, fl, {}, qd)
    BY <2>1 DEF Complete, Brought
  <2> QED
    BY <2>3, <2>4 DEF Sound
<1> QED
  BY <1>1, <1>2 DEF Fits, Flows

(* A function begins in a block of its own. *)
LEMMA FlowEnters ==
  ASSUME NEW bs, NEW bt, Len(bs) \in Nat, Len(bt) = Len(bs) + 1,
         \A b \in 1 .. Len(bs) : bt[b] = bs[b] /\ Exits(bs[b]) \subseteq 1 .. Len(bs),
         bt[Len(bs) + 1] = <<>>,
         NEW l, NEW en, NEW x, x[1] = Len(bs) + 1, \A e \in en : e[1] \in 1 .. Len(bs),
         NEW fl, NEW pd, Fits(bs, l, {}, {}, {}, en, fl, {}, pd)
  PROVE  Fits(bt, Len(bs) + 1, {}, {}, {}, en \cup {x}, fl, {Len(bs) + 1}, {Begin})
<1> DEFINE n == Len(bs)
           f == n + 1
           Old == 1 .. n
           All == 1 .. Len(bt)
           E == en \cup {x}
<1>1. /\ f \in All /\ f \notin Old /\ n \in Nat
      /\ \A b \in Old : b \in All /\ b # f
      /\ \A b \in All : b \in Old \/ b = f
  OBVIOUS
<1>2. /\ \A b \in Old : bt[b] = bs[b] /\ Exits(bs[b]) \subseteq Old
      /\ bt[f] = <<>> /\ x[1] = f /\ \A e \in en : e[1] \in Old
  OBVIOUS
<1>3. Named(bs) /\ Flows(bs, l, {}, {}, en, fl, {}, pd)
  BY DEF Fits, Bones
<1>4. /\ Stops(bt[f]) = 0 /\ Exits(bt[f]) = {} /\ ~Ended(bt[f]) /\ Len(bt[f]) = 0
      /\ \A J : Out(bt[f], J) = J
  BY <1>2, NoneRuns
<1> HIDE DEF n, f
<1>5. Named(bt)
  <2> SUFFICES ASSUME NEW b \in All, NEW k \in 1 .. Len(bt[b]), bt[b][k].op \notin Terminators
               PROVE  bt[b][k].id # Begin /\ bt[b][k].to = {}
    BY DEF Named
  <2>1. CASE b \in Old
    BY <1>2, <1>3, <2>1 DEF Named, n
  <2>2. CASE b = f
    BY <1>4, <2>2
  <2> QED
    BY <1>1, <2>1, <2>2
<1>6. Bones(bt, f, {}, {}, {})
  BY <1>5 DEF Bones
<1>7. ASSUME Tidy(bt, f, {}, {}) PROVE Tidy(bs, l, {}, {})
  <2>1. \A b \in Old : \A k \in 1 .. Len(bs[b]) - 1 : bs[b][k].op \notin Terminators
    BY <1>1, <1>2, <1>7 DEF Tidy
  <2>2. \A b \in Old : Ended(bs[b])
    <3> SUFFICES ASSUME NEW b \in Old PROVE Ended(bs[b])
      OBVIOUS
    <3>1. Loose(b, f, {}, {}) \/ Ended(bt[b])
      BY <1>1, <1>7 DEF Tidy
    <3> QED
      BY <1>1, <1>2, <3>1 DEF Loose
  <2> QED
    BY <2>1, <2>2 DEF Tidy, n
<1>8. ASSUME Tidy(bt, f, {}, {})
      PROVE  Sound(bt, {}, {}, E, fl, {f}, {Begin})
  <2>1. Sound(bs, {}, {}, en, fl, {}, pd)
    BY <1>3, <1>7, <1>8 DEF Flows
  <2>2. PICK X : Carries(bs, {}, {}, en, fl, {}, pd, X)
    BY <2>1 DEF Sound
  <2>3. /\ \A e \in en : Begin \in X[e[1]]
        /\ \A b \in Old : \A c \in Exits(bs[b]) : Out(bs[b], X[b]) \subseteq X[c]
    BY <2>2 DEF Carries, Shut, n
  <2>4. \A b \in Old : \A k \in 1 .. Stops(bs[b]) :
          \A p \in Ran(bs[b], X[b], k - 1) : <<p, bs[b][k].id>> \in fl
    BY <2>2 DEF Carries, Met, n
  <2> DEFINE Y == [b \in All |-> IF b = f THEN {Begin} ELSE X[b]]
  <2>5. Y[f] = {Begin} /\ \A b \in Old : Y[b] = X[b]
    BY <1>1
  <2> HIDE DEF Y
  <2>6. \A e \in E : Begin \in Y[e[1]]
    BY <1>2, <2>3, <2>5
  <2>7. \A b \in All : \A c \in Exits(bt[b]) : Out(bt[b], Y[b]) \subseteq Y[c]
    <3> SUFFICES ASSUME NEW b \in All, NEW c \in Exits(bt[b])
                 PROVE  Out(bt[b], Y[b]) \subseteq Y[c]
      OBVIOUS
    <3>1. b \in Old
      BY <1>1, <1>4
    <3>2. c \in Old /\ bt[b] = bs[b]
      BY <1>2, <3>1
    <3> QED
      BY <2>3, <2>5, <3>1, <3>2
  <2>8. Met(bt, fl, Y)
    <3> SUFFICES ASSUME NEW b \in All, NEW k \in 1 .. Stops(bt[b]),
                        NEW p \in Ran(bt[b], Y[b], k - 1)
                 PROVE  <<p, bt[b][k].id>> \in fl
      BY DEF Met
    <3>1. CASE b = f
      BY <1>4, <3>1
    <3>2. CASE b \in Old
      BY <1>2, <2>4, <2>5, <3>2
    <3> QED
      BY <1>1, <3>1, <3>2
  <2>9. Brings(bt, {f}, {Begin}, Y)
    BY <1>4, <2>5 DEF Brings
  <2>10. Shut(bt, {}, E, Y)
    BY <2>6, <2>7 DEF Shut
  <2> QED
    BY <2>8, <2>9, <2>10 DEF Carries, Sound
<1>9. ASSUME Tidy(bt, f, {}, {})
      PROVE  Complete(bt, {}, {}, E, fl, {f}, {Begin})
  <2>1. Complete(bs, {}, {}, en, fl, {}, pd)
    BY <1>3, <1>7, <1>9 DEF Flows
  <2> SUFFICES ASSUME NEW X, Shut(bt, {}, E, X)
               PROVE  Meets(bt, fl, X) /\ Brought(bt, {f}, {Begin}, X)
    BY DEF Complete
  <2>2. /\ \A e \in E : Begin \in X[e[1]]
        /\ \A b \in All : \A c \in Exits(bt[b]) : Out(bt[b], X[b]) \subseteq X[c]
    BY DEF Shut
  <2>3. \A e \in en : Begin \in X[e[1]]
    BY <2>2
  <2>4. \A b \in Old : \A c \in Exits(bs[b]) : Out(bs[b], X[b]) \subseteq X[c]
    BY <1>1, <1>2, <2>2
  <2>5. Shut(bs, {}, en, X)
    BY <2>3, <2>4 DEF Shut, n
  <2>6. Meets(bs, fl, X)
    BY <2>1, <2>5 DEF Complete
  <2>7. Meets(bt, fl, X)
    <3> SUFFICES ASSUME NEW e \in fl
                 PROVE  \E b \in All : \E k \in 1 .. Stops(bt[b]) :
                          e[1] \in Ran(bt[b], X[b], k - 1) /\ e[2] = bt[b][k].id
      BY DEF Meets
    <3>1. PICK b \in Old : \E k \in 1 .. Stops(bs[b]) :
            e[1] \in Ran(bs[b], X[b], k - 1) /\ e[2] = bs[b][k].id
      BY <2>6 DEF Meets, n
    <3> QED
      BY <1>1, <1>2, <3>1
  <2>8. Begin \in X[f]
    BY <1>2, <2>2
  <2>9. Brought(bt, {f}, {Begin}, X)
    BY <1>4, <2>8 DEF Brought
  <2> QED
    BY <2>7, <2>9
<1> HIDE DEF E
<1>10. Fits(bt, f, {}, {}, {}, E, fl, {f}, {Begin})
  BY <1>6, <1>8, <1>9 DEF Fits, Flows
<1> QED
  BY <1>10 DEF f, n, E
-----------------------------------------------------------------------------
(* Between functions nothing is owed, and nothing at the outset of one. *)
LEMMA OwesNone ==
  ASSUME NEW s, s = <<>>, NEW a
  PROVE  /\ OwesTo(s, Len(s)) = {} /\ WaitsTo(s, Len(s)) = {} /\ LoopsTo(s, Len(s)) = {}
         /\ Spot(s, a) = {}
<1>1. Len(s) = 0
  OBVIOUS
<1> QED
  BY <1>1, OweNothing DEF Spot, Idle

LEMMA OwesFunction ==
  ASSUME NEW s, Len(s) = 1, s[1].kind = "function", NEW a
  PROVE  /\ OwesTo(s, Len(s)) = {} /\ WaitsTo(s, Len(s)) = {} /\ LoopsTo(s, Len(s)) = {}
         /\ Spot(s, a) = {a}
<1>1. \A d \in 1 .. Len(s) : d = 1
  OBVIOUS
<1>2. Own(s[1]) = {} /\ Awaited(s[1]) = {} /\ Heading(s[1]) = {}
  BY PlainOwe
<1>3. OwesTo(s, Len(s)) = {} /\ WaitsTo(s, Len(s)) = {} /\ LoopsTo(s, Len(s)) = {}
  BY <1>1, <1>2 DEF OwesTo, WaitsTo, LoopsTo
<1>4. s # <<>>
  OBVIOUS
<1> QED
  BY <1>3, <1>4 DEF Spot, Idle

(* A function ends with what it was left with or with a ret void. *)
LEMMA FlowFunctionEnd == ASSUME Inv, FlowInv, function_ends PROVE FlowInv'
<1> DEFINE i == RetVoid(End)
<1>1. /\ stack # <<>> /\ top.kind = "function" /\ stack' = <<>> /\ at' = at
      /\ entries' = entries /\ odd \subseteq odd' /\ pending' = {}
      /\ \/ /\ blocks' = Built(blocks, at, i)
            /\ follow' = follow \cup (pending \X {End})
         \/ blocks' = blocks /\ follow' = follow
  BY DEF function_ends, Runs
<1>2. Sorts /\ at \in Block /\ at \in 1 .. Len(blocks) /\ Len(blocks) \in Nat
  BY <1>1, AtEnd DEF Block
<1>3. Len(stack) = 1 /\ stack[1].kind = "function"
  BY <1>1, StackIs
<1>4. /\ OwesTo(stack, Len(stack)) = {} /\ WaitsTo(stack, Len(stack)) = {}
      /\ LoopsTo(stack, Len(stack)) = {} /\ Spot(stack, at) = {at}
  BY <1>3, OwesFunction
<1>5. /\ OwesTo(stack', Len(stack')) = {} /\ WaitsTo(stack', Len(stack')) = {}
      /\ LoopsTo(stack', Len(stack')) = {} /\ Spot(stack', at') = {}
  BY <1>1, OwesNone
<1>6. Told => Fits(blocks, at, {}, {}, {}, entries, follow, {at}, pending)
  BY <1>4 DEF FlowInv, FitsOf
<1>7. FitsOf(blocks', stack', at', entries', follow', pending') <=>
        Fits(blocks', at, {}, {}, {}, entries, follow', {}, {})
  BY <1>1, <1>5 DEF FitsOf
<1>8. Told' => Told
  BY <1>1 DEF Told
<1>9. i \in Instructions(Len(blocks)) /\ i.to = {} /\ i.op \in Terminators
  BY <1>2, RetVoidIs DEF Terminators
<1>10. i.id = End /\ End # Begin
  BY BoundsAssumption DEF RetVoid, Instruction, End, Begin
<1>11. \A e \in entries : e[1] \in 1 .. Len(blocks)
  BY <1>2, EntriesExist
<1> HIDE DEF i
<1>12. ASSUME Told PROVE Fits(blocks', at, {}, {}, {}, entries, follow', {}, {})
  <2>1. Fits(blocks, at, {}, {}, {}, entries, follow, {at}, pending)
    BY <1>6, <1>12
  <2>2. CASE blocks' = blocks /\ follow' = follow
    BY <2>1, <2>2, FlowLeft
  <2>3. CASE blocks' = Built(blocks, at, i) /\ follow' = follow \cup (pending \X {End})
    <3>1. /\ Len(blocks') = Len(blocks) /\ blocks'[at] = Append(blocks[at], i)
          /\ \A b \in Block : b # at => blocks'[b] = blocks[b]
      BY <1>2, <1>9, <2>3, BuiltIn
    <3>2. Grows(Instructions(Len(blocks)), blocks, blocks', at, i)
      BY <1>2, <1>9, <3>1, GrowsIs
    <3>3. Free(at, {}, {})
      BY DEF Free
    <3> DEFINE qd == IF i.op \in Terminators THEN {} ELSE {i.id}
    <3>4. i.id # Begin /\ i.to = {} /\ qd = IF i.op \in Terminators THEN {} ELSE {i.id}
      BY <1>9, <1>10
    <3> HIDE DEF qd
    <3>5. Fits(blocks', at, {}, {}, {}, entries, follow \cup (pending \X {i.id}), {at}, qd)
      BY <1>11, <2>1, <3>1, <3>2, <3>3, <3>4, FlowStraight
    <3>6. Fits(blocks', at, {}, {}, {}, entries, follow', {at}, qd)
      BY <1>10, <2>3, <3>5
    <3> QED
      BY <3>6, FlowLeft
  <2> QED
    BY <1>1, <2>2, <2>3
<1> QED
  BY <1>7, <1>8, <1>12, Tell

(* A function begins where nothing has run. *)
LEMMA FlowFunction ==
  ASSUME Inv, FlowInv, NEW typed \in BOOLEAN, parse_function(typed)
  PROVE  FlowInv'
<1>n. PICK n : n = Len(blocks)
  OBVIOUS
<1> DEFINE f == [kind |-> "function", typed |-> typed, last |-> "none", names |-> {}]
           x == <<n + 1, typed>>
<1>1. /\ stack = <<>> /\ blocks' = Appended(1) /\ at' = n + 1
      /\ entries' = entries \cup {x} /\ stack' = <<f>> /\ odd' = odd
      /\ follow' = follow /\ pending' = {Begin}
  BY <1>n DEF parse_function, InFile
<1>2. Sorts /\ Len(blocks) \in Nat
  BY DEF Inv, Sorts
<1>3. /\ Len(blocks') = n + 1 /\ blocks'[n + 1] = <<>>
      /\ \A b \in 1 .. n : blocks'[b] = blocks[b]
  <2> DEFINE k == 1
  <2>1. k \in Nat /\ n + 1 = n + k /\ n + 1 \in n + 1 .. n + k
    BY <1>2, <1>n
  <2> HIDE DEF k
  <2>2. /\ Len(Appended(k)) = n + k
        /\ \A b \in 1 .. n : Appended(k)[b] = blocks[b]
        /\ \A b \in n + 1 .. n + k : Appended(k)[b] = <<>>
    BY <1>2, <1>n, <2>1, AppendedIs
  <2>3. blocks' = Appended(k)
    BY <1>1 DEF k
  <2> QED
    BY <2>1, <2>2, <2>3
<1>4. Len(stack') = 1 /\ stack'[1].kind = "function"
  BY <1>1
<1>5. x[1] = n + 1
  OBVIOUS
<1> HIDE DEF f, x
<1>6. /\ OwesTo(stack, Len(stack)) = {} /\ WaitsTo(stack, Len(stack)) = {}
      /\ LoopsTo(stack, Len(stack)) = {} /\ Spot(stack, at) = {}
  BY <1>1, OwesNone
<1>7. /\ OwesTo(stack', Len(stack')) = {} /\ WaitsTo(stack', Len(stack')) = {}
      /\ LoopsTo(stack', Len(stack')) = {} /\ Spot(stack', at') = {at'}
  BY <1>4, OwesFunction
<1>8. Told => Fits(blocks, at, {}, {}, {}, entries, follow, {}, pending)
  BY <1>6 DEF FlowInv, FitsOf
<1>9. FitsOf(blocks', stack', at', entries', follow', pending') <=>
        Fits(blocks', n + 1, {}, {}, {}, entries \cup {x}, follow, {n + 1}, {Begin})
  BY <1>1, <1>7 DEF FitsOf
<1>10. Told' => Told
  BY <1>1 DEF Told
<1>11. ASSUME Told
       PROVE  Fits(blocks', n + 1, {}, {}, {}, entries \cup {x}, follow, {n + 1}, {Begin})
  <2>1. Fits(blocks, at, {}, {}, {}, entries, follow, {}, pending)
    BY <1>8, <1>11
  <2>2. /\ Len(blocks') = Len(blocks) + 1 /\ blocks'[Len(blocks) + 1] = <<>>
        /\ x[1] = Len(blocks) + 1
    BY <1>n, <1>3, <1>5
  <2>3. \A b \in 1 .. Len(blocks) :
          blocks'[b] = blocks[b] /\ Exits(blocks[b]) \subseteq 1 .. Len(blocks)
    BY <1>n, <1>2, <1>3, ExitsExist
  <2>4. \A e \in entries : e[1] \in 1 .. Len(blocks)
    BY <1>2, EntriesExist
  <2>5. Fits(blocks', Len(blocks) + 1, {}, {}, {}, entries \cup {x}, follow,
             {Len(blocks) + 1}, {Begin})
    BY <1>2, <2>1, <2>2, <2>3, <2>4, FlowEnters
  <2> QED
    BY <1>n, <2>5
<1> QED
  BY <1>9, <1>10, <1>11, Tell

(* An extern generates nothing, or it is late. *)
LEMMA FlowExternal ==
  ASSUME FlowInv, NEW typed, parse_function_external(typed)
  PROVE  FlowInv'
<1>1. CASE "late extern" \in odd'
  BY <1>1, Tell DEF Told
<1>2. CASE "late extern" \notin odd'
  <2>1. /\ UNCHANGED <<blocks, at, entries, follow, pending>> /\ odd \subseteq odd'
        /\ stack' = stack
    BY <1>2 DEF parse_function_external
  <2>2. Equal(stack, Len(stack), stack', Len(stack')) /\ (Idle(stack') <=> Idle(stack))
    BY <2>1 DEF Equal
  <2> QED
    BY <2>1, <2>2, FlowUnmoved
<1> QED
  BY <1>1, <1>2

(* Nothing is generated when the generator stops. *)
LEMMA FlowStatus == ASSUME FlowInv, UNCHANGED <<code, stack, value, source>> PROVE FlowInv'
<1>1. /\ UNCHANGED <<blocks, at, entries, follow, pending>> /\ odd \subseteq odd'
      /\ stack' = stack
  BY DEF code, source
<1>2. Equal(stack, Len(stack), stack', Len(stack')) /\ (Idle(stack') <=> Idle(stack))
  BY <1>1 DEF Equal
<1> QED
  BY <1>1, <1>2, FlowUnmoved

(* At first there are no blocks. *)
LEMMA FlowStarts == Init => FlowInv
<1> SUFFICES ASSUME Init PROVE FlowInv
  OBVIOUS
<1>1. blocks = <<>> /\ entries = {} /\ stack = <<>> /\ follow = {} /\ pending = {}
  BY DEF Init
<1>2. /\ OwesTo(stack, Len(stack)) = {} /\ WaitsTo(stack, Len(stack)) = {}
      /\ LoopsTo(stack, Len(stack)) = {} /\ Spot(stack, at) = {}
  BY <1>1, OwesNone
<1>3. 1 .. Len(blocks) = {}
  BY <1>1
<1>4. Bones(blocks, at, {}, {}, {})
  BY <1>3 DEF Bones, Named
<1>5. Carries(blocks, {}, {}, {}, {}, {}, {}, blocks)
  BY <1>3 DEF Carries, Shut, Met, Brings
<1>6. Complete(blocks, {}, {}, {}, {}, {}, {})
  BY DEF Complete, Meets, Brought
<1>7. Fits(blocks, at, {}, {}, {}, {}, {}, {}, {})
  BY <1>4, <1>5, <1>6 DEF Fits, Flows, Sound
<1> QED
  BY <1>1, <1>2, <1>7 DEF FlowInv, FitsOf
-----------------------------------------------------------------------------
(* Every step keeps the invariant. *)
LEMMA FlowKeeps == ASSUME Inv, FlowInv, Next PROVE FlowInv'
<1>1. ASSUME NEW typed \in BOOLEAN, parse_function(typed) \/ parse_function_external(typed)
      PROVE  FlowInv'
  BY <1>1, FlowFunction, FlowExternal
<1>2. ASSUME NEW first \in BOOLEAN, NEW assigns \in BOOLEAN, parse_assignment(first, assigns)
      PROVE  FlowInv'
  BY <1>2, FlowAssignment
<1>3. CASE parse_function_call
  BY <1>3, FlowCall
<1>4. CASE parse_constant
  BY <1>4, FlowConstant
<1>5. CASE match_as_value \/ arm_crashes \/ function_crashes \/ file_ends
  BY <1>5, FlowStatus DEF match_as_value, arm_crashes, function_crashes, file_ends
<1>6. CASE parse_return
  BY <1>6, FlowReturn
<1>7. CASE parse_block
  BY <1>7, FlowBlock
<1>8. CASE block_ends
  BY <1>8, FlowBlockEnd
<1>9. CASE parse_while
  BY <1>9, FlowWhile
<1>10. CASE while_ends
  BY <1>10, FlowWhileEnd
<1>11. ASSUME NEW with_else \in BOOLEAN, parse_if(with_else) PROVE FlowInv'
  BY <1>11, FlowIf
<1>12. CASE then_ends
  BY <1>12, FlowThenEnd
<1>13. CASE else_ends
  BY <1>13, FlowElseEnd
<1>14. ASSUME NEW n \in 0 .. MaxBranches, parse_match(n) PROVE FlowInv'
  <2>1. n \in Nat
    BY BoundsAssumption
  <2> QED
    BY <1>14, <2>1, FlowMatch
<1>15. CASE match_option
  BY <1>15, FlowOptioned
<1>16. CASE match_result
  BY <1>16, FlowResult
<1>17. CASE match_ends
  BY <1>17, FlowMatchEnd
<1>18. CASE function_ends
  BY <1>18, FlowFunctionEnd
<1> QED
  BY <1>1, <1>2, <1>3, <1>4, <1>5, <1>6, <1>7, <1>8, <1>9, <1>10, <1>11, <1>12,
     <1>13, <1>14, <1>15, <1>16, <1>17, <1>18 DEF Next

(* The inductive invariant holds throughout. *)
LEMMA InFlow == Spec => [](Inv /\ FlowInv)
<1>1. Init => Inv /\ FlowInv
  BY Starts, FlowStarts
<1>2. ASSUME Inv /\ FlowInv, [Next]_vars PROVE (Inv /\ FlowInv)'
  <2>1. Inv'
    BY <1>2, Keeps
  <2>2. ASSUME UNCHANGED vars PROVE FlowInv'
    BY <1>2, <2>2, FlowStatus DEF vars, walk
  <2>3. ASSUME Next PROVE FlowInv'
    BY <1>2, <2>3, FlowKeeps
  <2> QED
    BY <1>2, <2>1, <2>2, <2>3
<1> QED
  BY <1>1, <1>2, PTL DEF Spec

(* Finished blocks are tidy and owe nothing: they run as was noted. *)
LEMMA FlowAtEnd ==
  ASSUME Inv, FlowInv, stack = <<>>, WellFormed, Told
  PROVE  BlockFlow = follow
<1>1. /\ OwesTo(stack, Len(stack)) = {} /\ WaitsTo(stack, Len(stack)) = {}
      /\ LoopsTo(stack, Len(stack)) = {} /\ Spot(stack, at) = {}
  BY OwesNone
<1>2. Fits(blocks, at, {}, {}, {}, entries, follow, {}, pending)
  BY <1>1 DEF FlowInv, FitsOf
<1>3. Sorts /\ Len(blocks) \in Nat
  BY DEF Inv, Sorts
<1>4. ASSUME NEW b \in Block
      PROVE  /\ DOMAIN blocks[b] = 1 .. Len(blocks[b]) /\ Len(blocks[b]) \in Nat \ {0}
             /\ blocks[b] # <<>>
             /\ \A k \in 1 .. Len(blocks[b]) :
                  blocks[b][k].op \in Terminators <=> k = Len(blocks[b])
             /\ Targets(b) \subseteq Block
  <2>1. blocks[b] \in Seq(Instructions(Len(blocks))) /\ b \in 1 .. Len(blocks)
    BY <1>3 DEF Sorts, Block
  <2>2. blocks[b] # <<>> /\ DOMAIN blocks[b] = 1 .. Len(blocks[b])
    BY <2>1 DEF WellFormed
  <2>3. Len(blocks[b]) \in Nat \ {0}
    BY <2>1, <2>2
  <2>4. Targets(b) = Exits(blocks[b])
    BY DEF Targets, Exits
  <2>5. Exits(blocks[b]) \subseteq 1 .. Len(blocks)
    BY <1>3, <2>1, ExitsExist
  <2>6. \A k \in 1 .. Len(blocks[b]) : blocks[b][k].op \in Terminators <=> k = Len(blocks[b])
    BY <2>2 DEF WellFormed
  <2> QED
    BY <2>2, <2>3, <2>4, <2>5, <2>6 DEF Block
<1>5. Tidy(blocks, at, {}, {})
  <2>1. \A b \in Block : \A k \in 1 .. Len(blocks[b]) - 1 : blocks[b][k].op \notin Terminators
    <3> SUFFICES ASSUME NEW b \in Block, NEW k \in 1 .. Len(blocks[b]) - 1
                 PROVE  blocks[b][k].op \notin Terminators
      OBVIOUS
    <3>1. k \in 1 .. Len(blocks[b]) /\ k # Len(blocks[b])
      BY <1>4
    <3> QED
      BY <1>4, <3>1
  <2>2. \A b \in Block : Ended(blocks[b])
    <3> SUFFICES ASSUME NEW b \in Block PROVE Ended(blocks[b])
      OBVIOUS
    <3>1. Len(blocks[b]) \in 1 .. Len(blocks[b])
      BY <1>4
    <3> QED
      BY <1>4, <3>1 DEF Ended
  <2> QED
    BY <2>1, <2>2 DEF Tidy, Block
<1>6. Sound(blocks, {}, {}, entries, follow, {}, pending)
  BY <1>2, <1>5 DEF Fits, Flows
<1>7. Complete(blocks, {}, {}, entries, follow, {}, pending)
  BY <1>2, <1>5 DEF Fits, Flows
<1>8. Named(blocks)
  BY <1>2 DEF Fits, Bones
<1>9. \A b \in Block : \A k \in 1 .. Len(blocks[b]) - 1 : blocks[b][k].id # Begin
  <2> SUFFICES ASSUME NEW b \in Block, NEW k \in 1 .. Len(blocks[b]) - 1
               PROVE  blocks[b][k].id # Begin
    OBVIOUS
  <2>1. k \in 1 .. Len(blocks[b]) /\ k # Len(blocks[b])
    BY <1>4
  <2>2. blocks[b][k].op \notin Terminators
    BY <1>4, <2>1
  <2> QED
    BY <1>8, <2>1, <2>2 DEF Named, Block
<1>10. Whole
  BY <1>3, <1>4, <1>9 DEF Whole
<1>11. \A e \in entries : e[1] \in Block
  BY <1>3, EntriesExist DEF Block
<1>12. \A e \in follow : e = <<e[1], e[2]>>
  BY DEF Inv, Marks
<1> QED
  BY <1>6, <1>7, <1>10, <1>11, <1>12, FlowFound

(* The blocks of every source, as far as LLVM accepts them and no extern   *)
(* put a ret void behind a function, run its statements in exactly the     *)
(* orders of the source: parse_if, parse_while, parse_match and            *)
(* parse_return neither lose nor add nor redirect a step.                  *)
THEOREM FlowIsPreserved == Spec => []FlowPreserved
<1>1. Inv /\ FlowInv => FlowPreserved
  BY FlowAtEnd DEF FlowPreserved, BetweenDeclarations, Told
<1> QED
  BY <1>1, InFlow, PTL
=============================================================================
