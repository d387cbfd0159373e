------------------------------ MODULE Imports ------------------------------
(***************************************************************************)
(* main.c: loading the imported files depth first, resolving each of them, *)
(* and compiling the main file and then every module of the table.         *)
(*                                                                         *)
(* A module is known by its path.  The main file has a node of its own,    *)
(* which is never put into the table: a module that imports the main file  *)
(* loads a second copy of it.                                              *)
(***************************************************************************)
EXTENDS Integers, Sequences, FiniteSets, Functions

CONSTANTS Path,           \* the files
          MainPath,       \* the file named on the command line
          MainNode,       \* the node of the main file
          Garbage,        \* what is pointed to and is no file's node
          MaxImports,     \* bound on the imports of a file
          TableCapacity   \* entries a Table takes before it grows: 8

ASSUME PathsAssumption ==
  /\ MainPath \in Path /\ MainNode \notin Path
  /\ Garbage \notin Path \cup {MainNode}
  /\ IsFiniteSet(Path)
  /\ MaxImports \in Nat /\ TableCapacity \in Nat \ {0}

Node == Path \cup {MainNode}
FileOf(n) == IF n = MainNode THEN MainPath ELSE n

VARIABLES imports,   \* the import declarations of every file, in order
          stack,     \* the activations of traverse_imports, by their file
          next,      \* for every activation the loop index, from 1
          modules,   \* the keys of the modules table
          resolved,  \* the nodes resolved, in order
          built,     \* the nodes compiled, in order
          status

loading == <<stack, next, modules>>
vars == <<imports, loading, resolved, built, status>>

Failures == {"crashed", "exited", "assert_import", "assert_declaration"}
Final == Failures \cup {"done"}
Undefined == "undefined"   \* a wild pointer was followed: anything may come

ImportedBy(graph, n) == Range(graph[FileOf(n)])
Imported(n) == ImportedBy(imports, n)
SeqUpTo(m) == UNION {[1 .. k -> Path] : k \in 0 .. m}

(* The length of a Table that n keys were put into: past TableCapacity     *)
(* every table_put doubles the table and counts the old slots once more.   *)
table_capacity[n \in 0 .. Cardinality(Path)] ==
  IF n <= TableCapacity THEN TableCapacity ELSE 2 * table_capacity[n - 1]
table_length[n \in 0 .. Cardinality(Path)] ==
  IF n <= TableCapacity THEN n ELSE table_length[n - 1] + table_capacity[n - 1] + 1

Init ==
  /\ imports \in [Path -> SeqUpTo(MaxImports)]
  /\ stack = <<MainNode>>
  /\ next = [n \in Node |-> 1]
  /\ modules = {}
  /\ resolved = <<>> /\ built = <<>>
  /\ status = "traverse"

Traversing == status = "traverse" /\ stack # <<>>
top == stack[Len(stack)]

(* Mutant: the loop ends before the last declaration. *)
AtImportShort == next[top] < Len(imports[FileOf(top)])

AtImport == next[top] <= Len(imports[FileOf(top)])
import_path == imports[FileOf(top)][next[top]]

(* Mutant: the index is not advanced. *)
SkipForever ==
  /\ Traversing /\ AtImport /\ import_path \in modules
  /\ UNCHANGED vars

(* The import is in the table: on to the next declaration. *)
skip_import ==
  /\ Traversing /\ AtImport /\ import_path \in modules
  /\ next' = [next EXCEPT ![top] = @ + 1]
  /\ UNCHANGED <<imports, stack, modules, resolved, built, status>>

(* Mutant: the index advances before the recursion as well as after it. *)
LoadAndAdvance ==
  /\ Traversing /\ AtImport /\ import_path \notin modules
  /\ modules' = modules \cup {import_path}
  /\ stack' = Append(stack, import_path)
  /\ next' = [next EXCEPT ![top] = @ + 1]
  /\ UNCHANGED <<imports, resolved, built, status>>

(* Mutant: the module is put into the table only after its imports. *)
LoadUnrecorded ==
  /\ Traversing /\ AtImport /\ import_path \notin modules
  /\ stack' = Append(stack, import_path)
  /\ UNCHANGED <<imports, next, modules, resolved, built, status>>

(* Mutant: the imports of the new module wait for the file at hand. *)
LoadLater ==
  /\ Traversing /\ AtImport /\ import_path \notin modules
  /\ modules' = modules \cup {import_path}
  /\ stack' = <<import_path>> \o stack
  /\ UNCHANGED <<imports, next, resolved, built, status>>

(* Read and parse the file, put it into the table, traverse its imports. *)
load_import ==
  /\ Traversing /\ AtImport /\ import_path \notin modules
  /\ modules' = modules \cup {import_path}
  /\ stack' = Append(stack, import_path)
  /\ UNCHANGED <<imports, next, resolved, built, status>>

(* A missing file is read through a NULL FILE; a syntax error exits.       *)
load_fails ==
  /\ Traversing /\ AtImport /\ import_path \notin modules
  /\ status' \in {"crashed", "exited"}
  /\ UNCHANGED <<imports, loading, resolved, built>>

(* The imports of n whose members are not found when n is resolved: a      *)
(* module that is not resolved has no scope.  A file that imports itself   *)
(* has one, which holds only what is declared above the use.               *)
Unscoped(n) == Imported(n) \ Range(resolved)

(* Mutant: the main file is not resolved. *)
ResolveAllButMain ==
  /\ Traversing /\ ~AtImport
  /\ Imported(top) \subseteq modules
  /\ resolved' = IF Len(stack) = 1 THEN resolved ELSE Append(resolved, top)
  /\ stack' = SubSeq(stack, 1, Len(stack) - 1)
  /\ IF Len(stack) = 1
     THEN status' = "build" /\ UNCHANGED next
     ELSE /\ next' = [next EXCEPT ![stack[Len(stack) - 1]] = @ + 1]
          /\ UNCHANGED status
  /\ UNCHANGED <<imports, modules, built>>

(* Mutant: compilation starts after the first import of the main file. *)
ResolveFirst ==
  /\ Traversing /\ ~AtImport
  /\ Imported(top) \subseteq modules
  /\ resolved' = Append(resolved, top)
  /\ stack' = SubSeq(stack, 1, Len(stack) - 1)
  /\ IF Len(stack) <= 2
     THEN status' = "build" /\ UNCHANGED next
     ELSE /\ next' = [next EXCEPT ![stack[Len(stack) - 1]] = @ + 1]
          /\ UNCHANGED status
  /\ UNCHANGED <<imports, modules, built>>

(* The traversal of the top file ends and the file is resolved and typed;  *)
(* the loop that called it goes on.  Whether the file uses its imports is  *)
(* left open: a file that uses none can be resolved whatever has a scope.  *)
resolve_module ==
  /\ Traversing /\ ~AtImport
  /\ Imported(top) \subseteq modules
  /\ resolved' = Append(resolved, top)
  /\ stack' = SubSeq(stack, 1, Len(stack) - 1)
  /\ IF Len(stack) = 1
     THEN status' = "build" /\ UNCHANGED next
     ELSE /\ next' = [next EXCEPT ![stack[Len(stack) - 1]] = @ + 1]
          /\ UNCHANGED status
  /\ UNCHANGED <<imports, modules, built>>

(* assert(file_node != NULL) in parse_import, or                           *)
(* assert(declaration != NULL) in parse_variable.                          *)
resolve_fails ==
  /\ Traversing /\ ~AtImport
  /\ \/ /\ ~(Imported(top) \subseteq modules)
        /\ status' = "assert_import"
     \/ /\ Imported(top) \subseteq modules
        /\ Unscoped(top) # {}
        /\ status' = "assert_declaration"
  /\ UNCHANGED <<imports, loading, resolved, built>>

(* The main file is compiled first. *)
build_main ==
  /\ status = "build" /\ built = <<>>
  /\ built' = <<MainNode>>
  /\ UNCHANGED <<imports, loading, resolved, status>>

(* The cell of module_list the loop of main is at. *)
Cell == Len(built)
Cells == table_length[Cardinality(modules)]

(* Mutant: a module may come out of the table twice. *)
BuildAnyModule ==
  /\ status = "build" /\ Cell \in 1 .. Cardinality(modules)
  /\ \E p \in modules : built' = Append(built, p)
  /\ UNCHANGED <<imports, loading, resolved, status>>

(* Modules come out of the table in the order of their hash values.        *)
build_module ==
  /\ status = "build" /\ Cell \in 1 .. Cardinality(modules)
  /\ \E p \in modules \ Range(built) : built' = Append(built, p)
  /\ UNCHANGED <<imports, loading, resolved, status>>

(* A cell table_get_all left unwritten holds whatever malloc returned: a   *)
(* stale pointer to any node or to anything else.  What it points to is    *)
(* compiled, or the program does what no source says.                      *)
build_garbage ==
  /\ status = "build" /\ Cell \in Cardinality(modules) + 1 .. Cells
  /\ \/ /\ \E x \in Node \cup {Garbage} : built' = Append(built, x)
        /\ UNCHANGED status
     \/ status' = Undefined /\ UNCHANGED built
  /\ UNCHANGED <<imports, loading, resolved>>

build_ends ==
  /\ status = "build" /\ Cell = Cells + 1
  /\ status' = "done"
  /\ UNCHANGED <<imports, loading, resolved, built>>

Next == \/ skip_import \/ load_import \/ load_fails
        \/ resolve_module \/ resolve_fails
        \/ build_main \/ build_module \/ build_garbage \/ build_ends

(* One thread that never waits: it runs on until the program ends.         *)
Spec == Init /\ [][Next]_vars /\ WF_vars(Next)
-----------------------------------------------------------------------------
(* Every variable stays within its type, and a loop index within its list. *)
TypeOK ==
  /\ imports \in [Path -> SeqUpTo(MaxImports)]
  /\ stack \in Seq(Node)
  /\ next \in [Node -> Nat \ {0}]
  /\ \A n \in Node : next[n] <= Len(imports[FileOf(n)]) + 1
  /\ modules \in SUBSET Path
  /\ resolved \in Seq(Node) /\ built \in Seq(Node \cup {Garbage})
  /\ status \in {"traverse", "build", Undefined} \cup Final

(* b is a, or is imported by a through any number of files: it is in every *)
(* set of files that holds a and is closed under import.                   *)
Connects(graph, a, b) ==
  \A S \in SUBSET Node :
    a \in S /\ (\A n \in S : ImportedBy(graph, n) \subseteq S) => b \in S
Reaches(a, b) == Connects(imports, a, b)

(* A file is never traversed inside its own traversal: however the files   *)
(* import each other, the recursion is no deeper than there are files.     *)
NoReentry == IsInjective(stack)

(* parse_import asserts that the module it names was loaded: traversing    *)
(* depth first, cycles included, every import of a file is in the table    *)
(* when the file is resolved.                                              *)
ImportFound == status # "assert_import"

(* A file is resolved after everything it imports, except for the files of *)
(* an import cycle, whose own resolution waits for it.                     *)
ResolveOrder ==
  \A k \in DOMAIN resolved : \A q \in Imported(resolved[k]) :
    \/ \E j \in 1 .. k - 1 : resolved[j] = q
    \/ Reaches(q, resolved[k])

(* A member of an imported module is not found only in a module on an      *)
(* import cycle, and never in the main file.                               *)
AbortOnlyOnCycle ==
  status = "assert_declaration" =>
    /\ top # MainNode
    /\ \E q \in Imported(top) : Reaches(q, top)

(* The code generator follows declarations that the resolver filled in: as *)
(* long as the table of modules has not grown, it is never run on a node   *)
(* that was not resolved.                                                  *)
BuiltResolved ==
  Cardinality(modules) <= TableCapacity => Range(built) \subseteq Range(resolved)

(* As long as the table of modules has not grown, the program is the main  *)
(* file first and then every module once.                                  *)
BuiltOnce ==
  status = "done" /\ Cardinality(modules) <= TableCapacity =>
    /\ IsInjective(built)
    /\ Range(built) = modules \cup {MainNode}
    /\ built[1] = MainNode

(* What the assertion of parse_variable says of programs whose every name  *)
(* is declared in the module it is qualified with: the member of another   *)
(* module is always found.                                                 *)
DeclarationFound == status = "assert_declaration" => Unscoped(top) \subseteq {top}

C == INSTANCE Closure
     WITH imported <- [p \in Path |-> Range(imports[p])],
          loaded <- modules,
          outcome <- IF status = "traverse" THEN "open"
                     ELSE IF status \in {"build", "done"} \/ built # <<>>
                          THEN "closed" ELSE "failed"

(* Loading computes exactly the files reachable by imports: it adds only   *)
(* files that something loaded imports, and goes on to compile only when   *)
(* no import is missing.                                                   *)
ClosureSpec == C!Spec

(* Whatever imports what, the compiler comes to an end, unless it follows  *)
(* a wild pointer.                                                         *)
Terminates == <>(status \in Final \cup {Undefined})
=============================================================================
