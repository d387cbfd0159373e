----------------------------- MODULE Resolver -----------------------------
(***************************************************************************)
(* resolver.c: binding the names of the files, one file after the other,   *)
(* to their declarations.                                                  *)
(*                                                                         *)
(* A file is walked once, from its first declaration to its last; it is    *)
(* chosen declaration by declaration and use by use as it is walked.       *)
(* Operators, conditionals, loops, calls, arrays and returns only pass the *)
(* walk on to their parts: they are a series of uses, assignments and      *)
(* blocks.                                                                 *)
(***************************************************************************)
EXTENDS Integers, Sequences, FiniteSets

CONSTANTS Files, NoFile,
          Names, Main,      \* Main is the name "main"
          Base,             \* path_to_name: the name a file is imported under
          MaxNodes,         \* bound on the declarations
          MaxScopes,        \* bound on the scopes that are ever created
          MaxParameters     \* bound on the parameters of a function

ASSUME NamesAssumption ==
  /\ NoFile \notin Files /\ Main \in Names
  /\ Base \in [Files -> Names]
  /\ {MaxNodes, MaxScopes, MaxParameters} \subseteq Nat

VARIABLES nodes,          \* the declarations met so far
          locals, prev,   \* the table and the enclosing scope of every scope
          current_scope,  \* 0 is NULL
          module_path,
          file_scope,     \* the scope of every file, 0 before it is walked
          open,           \* the constructs around the walk, as scopes
          status          \* aborted: a failed look-up, assert or crash

tables == <<nodes, locals, prev, file_scope>>
vars == <<tables, current_scope, module_path, open, status>>

NULL == 0
global_scope == 1
Node == 1 .. Len(nodes)
Scope == 1 .. Len(locals)

(* A key of a table: a plain name, or path@name. *)
Plain(name) == <<NoFile, name>>
Key == ({NoFile} \cup Files) \X Names
EmptyTable == [k \in Key |-> NULL]

(* Mutant: every name is plain. *)
PlainIdentifier(path, name, external) == Plain(name)

resolve_identifier(path, name, external) ==
  IF external \/ name = Main THEN Plain(name) ELSE <<path, name>>

(* From the scope outwards: plain names, in the global scope path@name.    *)
Walk(path, name) ==
  LET found[s \in Scope \cup {NULL}] ==
        IF s = NULL THEN NULL
        ELSE LET key == IF s = global_scope
                        THEN resolve_identifier(path, name, FALSE)
                        ELSE Plain(name)
             IN  IF locals[s][key] # NULL THEN locals[s][key]
                                          ELSE found[prev[s]]
  IN  found

(* Last of all, what is external in any file. *)
lookup_identifier(path, name, scope) ==
  LET found == Walk(path, name)[scope]
  IN  IF found # NULL THEN found ELSE locals[global_scope][Plain(name)]

Init ==
  /\ nodes = <<>>
  /\ locals = <<EmptyTable>> /\ prev = <<NULL>>
  /\ current_scope = global_scope /\ module_path = NoFile
  /\ file_scope = [f \in Files |-> NULL]
  /\ open = <<>>
  /\ status = "running"

Running == status = "running"
AtFileLevel == Running /\ Len(open) = 1
InFile == Running /\ open # <<>>
Fresh(n) == Len(nodes) + n <= MaxNodes

Declaration(kind, name) ==
  [kind |-> kind, name |-> name, file |-> module_path,
   region |-> open[Len(open)], target |-> NoFile, typed |-> FALSE]

(* table_put: the node that is declared next goes into a scope.            *)
Put(s, key) ==
  locals' = [locals EXCEPT ![s][key] = Len(nodes) + 1]

(* Mutant: the new scope does not know the scope around it. *)
ScopeWithoutPrev(table) ==
  /\ Len(locals) < MaxScopes
  /\ locals' = Append(table, EmptyTable)
  /\ prev' = Append(prev, global_scope)
  /\ current_scope' = Len(locals) + 1
  /\ open' = Append(open, Len(locals) + 1)

(* The new scope is inside the current one, and becomes the current one.   *)
create_scope(table) ==
  /\ Len(locals) < MaxScopes
  /\ locals' = Append(table, EmptyTable)
  /\ prev' = Append(prev, current_scope)
  /\ current_scope' = Len(locals) + 1
  /\ open' = Append(open, Len(locals) + 1)

leave_scope ==
  /\ current_scope' = prev[current_scope]
  /\ open' = SubSeq(open, 1, Len(open) - 1)
-----------------------------------------------------------------------------
parse_file_node(f) ==
  /\ Running /\ open = <<>> /\ file_scope[f] = NULL
  /\ module_path' = f
  /\ create_scope(locals)
  /\ file_scope' = [file_scope EXCEPT ![f] = Len(locals) + 1]
  /\ UNCHANGED <<nodes, status>>

file_ends ==
  /\ AtFileLevel
  /\ leave_scope
  /\ module_path' = NoFile
  /\ UNCHANGED <<tables, status>>

(* The module was loaded, see Imports, but where files import each other   *)
(* it need not have been walked.                                           *)
parse_import(g) ==
  /\ AtFileLevel /\ Fresh(1)
  /\ nodes' = Append(nodes, [Declaration("file", Base[g]) EXCEPT !.target = g])
  /\ Put(current_scope, Plain(Base[g]))
  /\ UNCHANGED <<prev, current_scope, module_path, file_scope, open, status>>

(* A function is known from here on, and its parameters inside it.         *)
parse_function(name, parameters) ==
  LET function == Len(nodes) + 1
      n        == Len(parameters)
      key      == resolve_identifier(module_path, name, FALSE)
      named(p) == {k \in 1 .. n : parameters[k] = p}
      scope    == [k \in Key |->
                     IF k[1] = NoFile /\ named(k[2]) # {}
                     THEN function + (CHOOSE j \in named(k[2]) :
                                        \A i \in named(k[2]) : i <= j)
                     ELSE NULL]
  IN
    /\ AtFileLevel /\ Fresh(1 + n) /\ Len(locals) < MaxScopes
    /\ nodes' = Append(nodes, Declaration("function", name)) \o
                  [k \in 1 .. n |-> [Declaration("parameter", parameters[k])
                                       EXCEPT !.region = Len(locals) + 1]]
    /\ locals' = Append([locals EXCEPT ![global_scope][key] = function], scope)
    /\ prev' = Append(prev, current_scope)
    /\ current_scope' = Len(locals) + 1
    /\ open' = Append(open, Len(locals) + 1)
    /\ UNCHANGED <<module_path, file_scope, status>>

(* An extern keeps its plain name; it has no body, and its scope is left   *)
(* as soon as it is entered.                                               *)
parse_function_external(name) ==
  /\ AtFileLevel /\ Fresh(1)
  /\ nodes' = Append(nodes, Declaration("extern", name))
  /\ Put(global_scope, resolve_identifier(module_path, name, TRUE))
  /\ UNCHANGED <<prev, current_scope, module_path, file_scope, open, status>>

parse_block ==
  /\ InFile
  /\ create_scope(locals)
  /\ UNCHANGED <<nodes, module_path, file_scope, status>>

(* The end of a function or a block. *)
scope_ends ==
  /\ InFile /\ Len(open) > 1
  /\ leave_scope
  /\ UNCHANGED <<tables, module_path, status>>

(* What assert(declaration_node->as.assignment.type_info == NULL) reads of *)
(* a declaration.  The fields of the other nodes share their memory with   *)
(* those of an assignment: type_info is the name of a parameter, the nodes *)
(* of a file, the parameters of a function, which are not initialised if   *)
(* it has none, and nothing at all in the identifier of a match.           *)
HasNoType(d) ==
  CASE nodes[d].kind = "assignment"              -> {~nodes[d].typed}
    [] nodes[d].kind \in {"parameter", "file"}   -> {FALSE}
    [] OTHER                                     -> BOOLEAN

(* What a name stands for where the walk is. *)
Declared(name) == lookup_identifier(module_path, name, current_scope)

(* A name nothing is found for is declared in the current scope. *)
parse_assignment(name, typed) ==
  /\ InFile
  /\ \/ /\ Declared(name) = NULL /\ Fresh(1)
        /\ nodes' = Append(nodes, [Declaration("assignment", name)
                                     EXCEPT !.typed = typed])
        /\ Put(current_scope, Plain(name))
        /\ UNCHANGED status
     \/ /\ Declared(name) # NULL
        /\ \E ok \in HasNoType(Declared(name)) :
             status' = IF ok THEN status ELSE "assert_assignment"
        /\ UNCHANGED <<nodes, locals>>
  /\ UNCHANGED <<prev, current_scope, module_path, file_scope, open>>

(* The name of a branch of a match is put into the scope around the match. *)
parse_match(name) ==
  /\ InFile /\ Fresh(1)
  /\ nodes' = Append(nodes, Declaration("match", name))
  /\ Put(current_scope, Plain(name))
  /\ UNCHANGED <<prev, current_scope, module_path, file_scope, open, status>>

(* The use of a name, which must be declared, changes only its own node.   *)
parse_variable(name) ==
  /\ InFile
  /\ status' = IF Declared(name) = NULL THEN "aborted" ELSE status
  /\ UNCHANGED <<tables, current_scope, module_path, open>>

IsFile(left) == Declared(left) # NULL /\ nodes[Declared(left)].kind = "file"

(* Mutant: the member is looked up from where the walk is. *)
MemberFromHere(left, right) ==
  lookup_identifier(nodes[Declared(left)].target, right, current_scope)

(* left::right is looked up with the path and the scope of the file that   *)
(* left stands for; both are put back afterwards.                          *)
Member(left, right) ==
  LET f == nodes[Declared(left)].target
  IN  lookup_identifier(f, right, file_scope[f])

parse_accessor(left, right) ==
  /\ InFile /\ IsFile(left)
  /\ status' = IF Member(left, right) = NULL THEN "aborted" ELSE status
  /\ UNCHANGED <<tables, current_scope, module_path, open>>

(* The left side is taken for a file even if nothing was found for it, or  *)
(* a declaration whose memory holds neither a path nor a scope where a     *)
(* file has them.                                                          *)
accessor_crashes(left) ==
  /\ InFile /\ ~IsFile(left)
  /\ status' = "aborted"
  /\ UNCHANGED <<tables, current_scope, module_path, open>>

ParameterLists == UNION {[1 .. n -> Names] : n \in 0 .. MaxParameters}

Next ==
  \/ \E f \in Files : parse_file_node(f) \/ parse_import(f)
  \/ file_ends \/ parse_block \/ scope_ends
  \/ \E name \in Names :
       \/ \E parameters \in ParameterLists : parse_function(name, parameters)
       \/ parse_function_external(name)
       \/ \E typed \in BOOLEAN : parse_assignment(name, typed)
       \/ parse_match(name) \/ parse_variable(name) \/ accessor_crashes(name)
       \/ \E right \in Names : parse_accessor(name, right)

Spec == Init /\ [][Next]_vars
-----------------------------------------------------------------------------

Local == {"parameter", "assignment", "match", "file"}
Newest(S) == IF S = {} THEN NULL ELSE CHOOSE d \in S : \A e \in S : e <= d

(* What a reader of the source expects a name to mean, told from the       *)
(* declarations alone: the newest one in the innermost region around it    *)
(* that has any, else the newest function of the file, else the newest     *)
(* extern of all the files, among which main counts.                       *)
Expected(name, file, regions) ==
  LET named    == {d \in Node : nodes[d].name = name}
      within(k) == {d \in named : /\ nodes[d].kind \in Local
                                  /\ nodes[d].region = regions[k]}
      inner    == {k \in DOMAIN regions : within(k) # {}}
      own      == {d \in named : /\ nodes[d].kind = "function"
                                 /\ nodes[d].file = file /\ name # Main}
      shared   == {d \in named : \/ nodes[d].kind = "extern"
                                 \/ (nodes[d].kind = "function" /\ name = Main)}
  IN  IF inner # {} THEN Newest(within(CHOOSE k \in inner :
                                         \A j \in inner : j <= k))
      ELSE IF own # {} THEN Newest(own) ELSE Newest(shared)

(* A plain name means what it means in the regions around it, a member     *)
(* what it means at the top of its file: through all nesting of files,     *)
(* functions and blocks, whichever files were walked before.               *)
LexicalBinding ==
  InFile => \A name \in Names :
    LET d == Declared(name) IN
    /\ d = Expected(name, module_path, open)
    /\ d # NULL /\ nodes[d].kind = "file" =>
         LET f      == nodes[d].target
             region == IF file_scope[f] = NULL THEN <<>> ELSE <<file_scope[f]>>
         IN  \A right \in Names : Member(name, right) = Expected(right, f, region)

Shared(d) == \/ nodes[d].kind = "extern"
             \/ (nodes[d].kind = "function" /\ nodes[d].name = Main)

(* The functions, variables and parameters of a file are its own: another  *)
(* file gets at its functions only with an accessor, and never at what is  *)
(* local to them.                                                          *)
Private ==
  InFile => \A name \in Names :
    LET d == Declared(name) IN
    d # NULL =>
      /\ Shared(d) \/ nodes[d].file = module_path
      /\ nodes[d].kind = "file" => \A right \in Names :
           LET e == Member(name, right) IN
             e # NULL => \/ Shared(e)
                         \/ /\ nodes[e].file = nodes[d].target
                            /\ nodes[e].region = file_scope[nodes[e].file]

(* An assignment never declares a variable that hides another declaration, *)
(* in the same scope or around it: every later assignment to the name goes *)
(* to the same alloca.                                                     *)
NoShadowing ==
  \A j, k \in DOMAIN open : \A d, e \in Node :
    nodes[d].region = open[k] /\ nodes[e].region = open[j] /\ j <= k /\ e < d
      /\ nodes[d].kind = "assignment" /\ nodes[e].kind \in Local =>
    nodes[d].name # nodes[e].name

(* The comment of parse_accessor: the right side is looked up in the file  *)
(* the left side names.                                                    *)
MemberOfFile ==
  InFile => \A left, right \in Names :
    IsFile(left) /\ Member(left, right) # NULL =>
      nodes[Member(left, right)].file = nodes[Declared(left)].target

(* The assertion of parse_assignment: it reads the type of an assignment,  *)
(* so that it fails only for a variable that was declared with a type, and *)
(* for a module, which is no variable at all; never for a parameter.       *)
AssignsVariables ==
  status = "assert_assignment" =>
    \E name \in Names :
      /\ Declared(name) # NULL
      /\ nodes[Declared(name)].typed \/ nodes[Declared(name)].kind # "parameter"
=============================================================================
