------------------------------ MODULE Linking -------------------------------
(***************************************************************************)
(* One LLVM module for every file, and the backend_ref fields that all of  *)
(* them share (codegen.c), linked into the module of the main file         *)
(* (main.c).                                                               *)
(*                                                                         *)
(* A file is known by its path.  Entry is the main file as main() reads    *)
(* it, which is another syntax tree than that of a module with its path.   *)
(* Of a function body one call is kept, of anything the resolver finds     *)
(* from there.                                                             *)
(***************************************************************************)
EXTENDS Integers, Sequences, FiniteSets, TLC

CONSTANTS Paths,     \* the files that can be imported
          Entry,     \* the main file
          MainPath,  \* its path
          Names,     \* the names of functions
          Externs,   \* the names of external functions
          MaxItems,  \* bound on the items of a file
          MaxText    \* bound on the items of all files

(* In a symbol there is an @ after a path and none in a name, see          *)
(* resolve_identifier_name.                                                *)
ASSUME PathsAssumption ==
  /\ MainPath \in Paths /\ Entry \notin Paths /\ Names \cap Externs = {}
  /\ Paths \cap (Names \cup Externs \cup {"main"}) = {} /\ IsFiniteSet(Paths)
  /\ MaxItems \in Nat /\ MaxText \in Nat

VARIABLES text,     \* the items of every path
          refs,     \* backend_ref of the functions, by file and item
          todo,     \* the modules not yet built
          file,     \* the file whose module is at hand
          item,     \* the index of its next item
          here,     \* the module at hand: who defines its symbols
          renamed,  \* how many of its functions LLVM had to rename
          linked,   \* the module of the main file
          calls,    \* the calls generated so far
          status

vars == <<text, refs, todo, file, item, here, renamed, linked, calls, status>>

Files == Paths \cup {Entry}
PathOf(f) == IF f = Entry THEN MainPath ELSE f
TextOf(f) == text[PathOf(f)]

Item(kind, what) == [kind |-> kind, what |-> what]
Items == {Item("import", p) : p \in Paths} \cup {Item("fun", n) : n \in Names}
           \cup {Item("extern", n) : n \in Externs}

Node(f, i) == [file |-> f, item |-> i]
NoNode == Node(Entry, 0)
Nodes == {Node(f, i) : f \in Files, i \in 1 .. MaxItems}
NoRef == [module |-> Entry, symbol |-> <<>>]

Imported(t) == {t[i].what : i \in {j \in DOMAIN t : t[j].kind = "import"}}

(* The modules that are loaded: what the main file imports, and so on. *)
Wider(t, S) == S \cup UNION {Imported(t[q]) : q \in S}
Within(t, p) ==
  LET reached[i \in 0 .. Cardinality(Paths)] ==
        IF i = 0 THEN Imported(t[p]) ELSE Wider(t, reached[i - 1])
  IN  reached
Reach(t, p) == Within(t, p)[Cardinality(Paths)]

Texts == UNION {[1 .. n -> Items] : n \in 0 .. MaxItems}

Init ==
  /\ text \in [Paths -> Texts]
  /\ Cardinality(UNION {{p} \X DOMAIN text[p] : p \in Paths}) <= MaxText
  /\ \A p \in Paths \ {MainPath} : p \in Reach(text, MainPath) \/ text[p] = <<>>
  /\ refs = [node \in Nodes |-> NoRef]
  /\ todo = Reach(text, MainPath)
  /\ file = Entry /\ item = 1
  /\ here = <<>> /\ renamed = 0 /\ linked = <<>> /\ calls = {}
  /\ status = "running"

(* A module maps symbols to the functions that define them, or NoNode. *)
With(module, symbol, node) ==
  [s \in DOMAIN module \cup {symbol} |-> IF s = symbol THEN node ELSE module[s]]

(* LLVM gives a second function of a name another one. *)
Fresh(m, symbol) ==
  IF symbol \in DOMAIN m.here THEN Append(symbol, ToString(m.renamed + 1)) ELSE symbol

(* The module at hand with one more function, which its node refers to. *)
AddFunction(m, symbol, node, definition) ==
  LET s == Fresh(m, symbol)
  IN  [here |-> With(m.here, s, definition),
       renamed |-> m.renamed + (IF s = symbol THEN 0 ELSE 1),
       refs |-> [m.refs EXCEPT ![node] = [module |-> file, symbol |-> s]]]

Module == [here |-> here, renamed |-> renamed, refs |-> refs]
Becomes(m) == here' = m.here /\ renamed' = m.renamed /\ refs' = m.refs

(* Mutant: what has a reference is not declared again. *)
DeclareOnce(m, symbol, node, definition) ==
  IF definition = NoNode /\ m.refs[node] # NoRef THEN m
  ELSE LET s == Fresh(m, symbol)
       IN  [here |-> With(m.here, s, definition),
            renamed |-> m.renamed + (IF s = symbol THEN 0 ELSE 1),
            refs |-> [m.refs EXCEPT ![node] = [module |-> file, symbol |-> s]]]

parse_function_definition(m, symbol, node, definition) ==
  AddFunction(m, symbol, node, definition)

(* Mutant: an imported function gets the path of the file at hand. *)
NameHere(path, name) == <<PathOf(file), name>>

resolve_identifier_name(path, name) == <<path, name>>

(* Mutant: no function has its path in its symbol. *)
NoPrefix(name, external) == <<name>>

resolve_identifier(name, external) ==
  IF external \/ name = "main" THEN <<name>>
  ELSE resolve_identifier_name(PathOf(file), name)
-----------------------------------------------------------------------------
At(kind) ==
  /\ status = "running" /\ item <= Len(TextOf(file))
  /\ TextOf(file)[item].kind = kind
What == TextOf(file)[item].what

(* All functions of the imported file are declared again, in this module,  *)
(* and their nodes refer to it from here on.  Its externs are not.         *)
Declare(m, p, i) ==
  IF text[p][i].kind # "fun" THEN m
  ELSE parse_function_definition(m, resolve_identifier_name(p, text[p][i].what),
                                 Node(p, i), NoNode)
WithItems(p) ==
  LET with[i \in 0 .. Len(text[p])] ==
        IF i = 0 THEN Module ELSE Declare(with[i - 1], p, i)
  IN  with

parse_import ==
  /\ At("import")
  /\ Becomes(WithItems(What)[Len(text[What])])
  /\ item' = item + 1
  /\ UNCHANGED <<text, todo, file, linked, calls, status>>

parse_function_external ==
  /\ At("extern")
  /\ Becomes(parse_function_definition(Module, resolve_identifier(What, TRUE),
                                       Node(file, item), NoNode))
  /\ item' = item + 1
  /\ UNCHANGED <<text, todo, file, linked, calls, status>>

(* The last of the items to n of a file that has this kind and name. *)
Latest(f, n, kind, name) ==
  LET found == {i \in 1 .. n : TextOf(f)[i] = Item(kind, name)}
  IN  IF found = {} THEN {} ELSE {Node(f, CHOOSE i \in found : \A j \in found : j <= i)}

(* What a function finds in its file: itself and what is above it.         *)
Own == UNION ({Latest(file, item, "fun", n) : n \in Names}
              \cup {Latest(file, item, "extern", n) : n \in Externs})

(* The files that may be resolved by now: none that leads back to the file *)
(* at hand (see Imports).                                                  *)
Earlier == {q \in Reach(text, MainPath) : PathOf(file) \notin Reach(text, q) \cup {q}}

(* The names that may lead to a function of another file.  All files have  *)
(* one name for a main, without a path, and that of the file at hand, once *)
(* declared, stands in the place of any other.                             *)
Sought == {n \in Names : n = "main" => Latest(file, item, "fun", "main") = {}}

(* What it finds in the files imported above it, by their names: all of    *)
(* their functions, a main among them.                                     *)
Beside ==
  UNION {Latest(p, Len(text[p]), "fun", n) :
           p \in Earlier \cap Imported(SubSeq(TextOf(file), 1, item)), n \in Sought}

(* What it finds besides, under a name without a path that it does not     *)
(* declare: the externs and the main of any file resolved before.          *)
Stray ==
  UNION ({Latest(p, Len(text[p]), "extern", n) :
            p \in Earlier, n \in {e \in Externs : Latest(file, item, "extern", e) = {}}}
         \cup {Latest(p, Len(text[p]), "fun", n) : p \in Earlier, n \in Sought \cap {"main"}})

(* The call refers to what the node refers to now, in whatever module. *)
parse_function ==
  /\ At("fun")
  /\ LET m == parse_function_definition(Module, resolve_identifier(What, FALSE),
                                        Node(file, item), Node(file, item))
     IN  /\ Becomes(m)
         /\ \E node \in Own \cup Beside \cup Stray :
              /\ calls' = calls \cup {[from |-> file, to |-> node, ref |-> m.refs[node],
                                       stray |-> node \notin Own \cup Beside]}
              /\ status' = IF m.refs[node] = NoRef THEN "crash" ELSE status
  /\ item' = item + 1
  /\ UNCHANGED <<text, todo, file, linked>>

Defined(module) == {s \in DOMAIN module : module[s] # NoNode}

(* The module at hand becomes part of that of the main file, and is gone.  *)
(* The next one may be any: the order is that of the table.                *)
Link(rest) ==
  LET doubly == Defined(linked) \cap Defined(here)
  IN  /\ status' = IF doubly # {} THEN "doubly_defined"
                   ELSE IF rest = {} THEN "linked" ELSE status
      /\ linked' = [s \in DOMAIN linked \cup DOMAIN here |->
                      IF s \in Defined(here) THEN here[s]
                      ELSE IF s \in DOMAIN linked THEN linked[s] ELSE NoNode]
      /\ IF rest = {} THEN UNCHANGED <<todo, file>>
         ELSE file' \in rest /\ todo' = rest \ {file'}

build_module ==
  /\ status = "running" /\ item > Len(TextOf(file))
  /\ Link(todo)
  /\ item' = 1 /\ here' = <<>> /\ renamed' = 0
  /\ UNCHANGED <<text, refs, calls>>

Next == parse_import \/ parse_function_external \/ parse_function \/ build_module

Spec == Init /\ [][Next]_vars
-----------------------------------------------------------------------------
(* A function of the file at hand, or of one it imports, is called by way  *)
(* of the module at hand, whatever modules were built before it: no call   *)
(* refers to a module that is gone (codegen.c:226-228, 428-439).           *)
CallsStayInModule ==
  \A c \in calls : ~c.stray => c.ref.module = c.from /\ c.ref # NoRef

Count(f, kind, name) == Cardinality({i \in DOMAIN TextOf(f) : TextOf(f)[i] = Item(kind, name)})

(* Nothing in either file makes LLVM rename the function. *)
Unambiguous(c) ==
  LET f == c.to.file
      name == TextOf(f)[c.to.item].what
  IN  /\ Count(f, "fun", name) <= 1 /\ Count(f, "extern", name) <= 1
      /\ Count(f, "import", PathOf(f)) = 0
      /\ Count(c.from, "import", PathOf(f)) <= 1

(* The main of another file: parse_import declares it with the path before *)
(* its name, and its own file defines it without.                          *)
ImportedMain(c) ==
  c.to.file # c.from /\ TextOf(c.to.file)[c.to.item].what = "main"

(* In the program the modules were linked to, the symbol of a call is that *)
(* of the function that was meant, or of an external one that no file      *)
(* defines.  It is so of every call but that of an imported main, whose    *)
(* symbol nobody defines.                                                  *)
SymbolsResolve ==
  status = "linked" =>
    \A c \in calls : ~c.stray /\ Unambiguous(c) /\ ~ImportedMain(c) =>
      linked[c.ref.symbol] = IF TextOf(c.to.file)[c.to.item].kind = "fun" THEN c.to ELSE NoNode

(* Linking fails only if two files have a main, or the main file is loaded *)
(* a second time as a module of its own.                                   *)
LinkFails ==
  status = "doubly_defined" =>
    \/ MainPath \in Reach(text, MainPath)
    \/ \E p, q \in Reach(text, MainPath) \cup {MainPath} :
         p # q /\ Count(p, "fun", "main") > 0 /\ Count(q, "fun", "main") > 0
=============================================================================
