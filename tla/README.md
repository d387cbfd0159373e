# A verification model of the Penquin compiler

Penquin (`src/`) is a compiler for a small language, in about 2 600 lines of C:
it reads a file and the files it imports, binds names, gives types, generates
one LLVM module per file, links them, emits an object file and runs the result.
This directory holds TLA+ models of its parts, TLC runs that check them on small
instances, and TLAPS proofs for all instances.

The program has one thread and persists nothing: nothing here is about
interleaving or crashes. What is hard in it is long legal sequences of calls,
the order of a recursion through files that may import each other, limits of
tables, and control flow that is right for every nesting but one.

## The system

| Part | Code | State | Operations | Interacts by |
|---|---|---|---|---|
| Hash table | `table.c` | `length`, `capacity`, `entries` | `table_init`, `table_put`, `table_get`, `table_get_all` | called by loader, resolver, code generator |
| Driver, module loading | `main.c` | the `modules` table, the recursion of `traverse_imports` | load, resolve, build, link | calls every other part; `modules` is shared with the resolver |
| Scanner | `token.c` | source and position, the list, the static `prev_token_type` | `scan`, `scan_token` | list of tokens to the parser |
| Parser | `parser.c` | `current_token` | one function per construct | AST nodes to all later passes |
| Name resolution | `resolver.c` | `global_scope`, `current_scope`, `module_path`, `module_dir` | `parse_*` per node | writes `declaration`, `initial`, `scope`, `file_node` into nodes |
| Type checker | `typechecker.c` | `type_info` of every node | `parse_*` per node | reads declarations, writes `type_info` |
| Code generator | `codegen.c` | LLVM builder and module, `current_function`, `types`, `backend_ref` of nodes | `parse_*` per node, `build_module`, `compile` | reads all that was filled in |
| Lists, strings, files | `list.c`, `string.c`, `file.c` | growing arrays, text | | used everywhere |

What makes each part correct:

- *Hash table*: it is a map, through collisions and growth; its loops end; the
  enumeration stays within its array.
- *Loading*: exactly the files reachable by imports are loaded, each once,
  cycles included; each is resolved after what it imports, and compiled once.
- *Scanner*: no character is lost, the longest token wins, the end is seen.
- *Resolver*: a name means what the text around it says; what is local to a file
  stays there; an assignment never hides a variable.
- *Control flow*: the blocks are what LLVM accepts, run in the order of the
  source, and see only variables that were made.
- *Parser*: it accepts the language and nothing else, with a tree that says what
  the text says; the cursor stays in the list; parsing ends.
- *Types*: the type of a node is the type of the value made for it; what keeps
  to the rules of the language is neither refused nor made into nonsense.
- *Calls and linking*: a call refers to a function of its own module, and in the
  linked program to the function that was meant.
- *Lists*: a list is the sequence of what was added to it.

## Modules

`Map`, `Closure` and `Appends` are abstract specifications, `Table`, `Imports` and
`List` the detailed ones that implement them; `MC…` modules give the constants their
values; `…Proofs` modules hold the theorems. In a model the name of an action
is the name of the C function, or of the part of it, that the action stands for.
Every module holds some *mutants*: operators that are a plausible bug of the
definition after them, and that a property is shown to notice.

### Table, implementing Map

`table_put` is three actions: the call (`table_put`, or `table_put_grow` when the
table is full, or `table_put_exit` when `calloc` fails), one `rehash_step` per
turn of the rehash loop, and `insert`, the last line. The program has no other
thread; the loop is split to be able to say that its probes stop. The probing
loops themselves are one step: the first slot of the probe sequence at which
they stop. `Digest` is the 32-bit hash of a key. `put` is the call under way.

`Map` is a partial function with put, get and enumeration. `MapSpec` says that
the table implements it, where a key that is not moved yet is looked up in the
old array (`Bindings`).

A fact about the code that the model makes visible: `table_put` does not reset
`length` when it grows, and the rehash loop re-inserts free slots as well, each of
which counts. As long as a table has not grown, `length` is the number of its keys and
every cell that `table_get_all` returns is written (`ListingFilled`). From the first
growth on `length >= capacity`, every further `table_put` doubles the table, and
`table_get_all` returns cells it never wrote. No map operation goes wrong by it, but some
thirty names in one table exhaust the memory, and `main` walks the unwritten cells
(`Imports`). No property covers this: it is what the code does.

### Imports, implementing Closure

The stack holds one activation of `traverse_imports` per file, `next` the index of
its loop. `load_import` is lines 49-55 of `main.c` up to the recursive call,
`resolve_module` the return from it with `resolve` and `resolve_types`; the main
file, resolved by `main`, is `MainNode`, which is not in the table, so that a
module that imports the main file loads it again under its path. `build_module`
takes modules out of the table in any order, that of their hashes;
`build_garbage` is the loop over the cells that were not written: such a cell may point to
any node, to anything else (`Garbage`), and following it may do anything (`Undefined`).
What is said of the build loop (`BuiltResolved`, `BuiltOnce`) is therefore said of a table
that has not grown; past a growth the code gives nothing to promise.

What the resolver does with a file is reduced to what fails: the assertion of
`parse_import` for a module that is not in the table, and the look-up of a member
in a module that has no scope yet (`resolve_fails`). Whether a file uses its
imports is left open.

### Scanner

One action per token. `Skip` is where a loop over a class of characters stops.
The source is a sequence of one-character strings that ends with `NUL`. Line and
column are left out; nothing reads them.

### Resolver

The source is not a constant: it is chosen declaration by declaration and use by
use as it is walked, so that the runs cover every file within the bounds. `nodes`
are the declarations, `locals` and `prev` the scopes, `open` the constructs around
the walk. Constructs that only pass the walk on (operators, conditionals, loops,
calls, arrays, returns) are sequences of the actions that are there. Reading a
field of the wrong union member is modelled by what is stored there
(`HasNoType`): never NULL for a parameter, whose name lies there, or a file, whose
list of nodes has a capacity of twelve; anything for a function without
parameters or the name of a match.

`LexicalBinding` compares every look-up with `Expected`, which reads the
meaning of a name off the declarations alone, with no scope in sight.

### Parser and Grammar

The C stack is `stack`, the points to go on at; `values` holds the nodes that its
activations have in hand. A step is what a function does between two looks at a
token, so that every look is a step of its own. The list of tokens is chosen as
the cursor reaches it (`next_token`), up to a bound and then EOF: a run is about
every list, valid or not, and does not enumerate what the parser never reads.
A token is its kind. The five functions of the binary operators are one operator
with a table of levels (`Binary`). A node keeps the index of the token it was made
of: `Grammar` can then say of a tree that its tokens, read off in order, are the
text, every one once and at its place (`TreeReadsLikeText`), and that operators
group by their levels (`Precedence`).

`Recognises` compares the parser with the rules of `Grammar` token by token: where
the parser exits, no program begins with what was read, and one does with
everything before it. The rules have the levels of operators flattened, for they are
about the language; `Precedence` is about the tree.

What the rules of `Grammar` say of the language and its parser, and one might not
expect: the token behind `extern` and the length of an array type may be any
(`"token"`); expressions may stand outside of functions; an array is no operand;
the arguments of a call have no comma behind the last, the items of an array may;
`match` as a statement ends with a semicolon; a comparison does not group.

The body of a function has a loop of its own, which is that of `parse_block`; the
model calls `parse_block` for both. `print_tree`, which `DEBUG` (`common.h:8`) turns on in every
build, only prints, and is left out.

### Literals and Escape

`Literals` puts `create_string` behind the scanner: the text of every token that
`scan` took for a string, without its quotes, goes through `escape_string`, and the
next file is scanned after that. `Escape` is the loop of `escape_string`, character by
character: it writes a newline over the backslash it has copied before. Strings
behind a token at which the parser would have ended are copied too.

### Types

One model for two passes, `typechecker.c` and the part of `codegen.c` that deals in
values: both walk an expression bottom up, so that all that is left of one is the
type the checker gave it, the LLVM type of the value the generator made, and
whether that value is a constant, an address or neither. Expressions are built on
the stack `values` and used up by assignments, conditions, returns, calls and
matches. A type is a sequence of words, of which that of an array carries its length, as the
LLVM type does (`codegen.c:88`): `[1, 2]` and `[1, 2, 3]` have two types. The empty sequence is
`NULL`. A `match` that is used as a value is left out.

The program does not check types; it generates what it is told to, or stops at an
assertion. `status` tells what a construct led to: `assert`, `crash` (a read through
`NULL`), `undefined` (a read of what was never set), `invalid` (what LLVM refuses) or
`misfit` (a store of another type than there is room for). So that there is
something to compare this with, every value carries `right`: whether it was built
by the rules of the language (`RightOperands`, `RightArguments` and so on), which
the language has no document of but its library and samples. `Sound` says that the
two agree: what keeps to the rules ends in none of these, and has the LLVM type its
type stands for. The rules exclude what the program has no answer to:

| Excluded | What the code does |
|---|---|
| arithmetic whose left operand is wider than `s4`, or whose right is not `s4` | `deduce_type` takes the right one's type, or the result has another type than `s4` |
| a comparison whose left operand is the wider one, or one of a `bool` with another type | the wider operand is "extended" to the narrower |
| an empty array | its type is read from a variable that was never set |
| items that are not constants, or of several types | the array is built all the same |
| a local pointer that is indexed | it is indexed from its own address |
| a name a branch of a match binds | it has no type |
| an assignment of another type (of an array of another length, too), or a declaration of another type than its value | it is stored, or the declared type is dropped |
| an argument or a result of another type, such as an array of another length | LLVM is given what it refuses |
| too few or too many arguments | read from behind the list, or dropped |

### Linking

`build_module` for the main file and then for the modules in any order, that of
the table. `refs` are the `backend_ref` fields of the functions, which all modules
share and every module overwrites; `here` the module at hand, a map from symbols to
definitions, `linked` that of the main file. LLVM renames a second function of
one name (`Fresh`) and refuses to link two definitions of one symbol: both are
modelled as its documentation has them. The main file is a file of its own (`Entry`),
and a second one if a module imports it. Of a function body one call is kept, of
anything the resolver finds there: functions above it, those of the files it
imports (`Beside`), and what the fallback of the resolver lets it see besides (`Stray`): the externs
and the `main` of any file resolved before it (`Earlier`). A `main` has its plain name for a key,
so that of its own file comes first (`Sought`). Files that lead back to the caller by imports are
left out of the calls: they are the subject of `Imports`.

The `main` of an imported file can be called, as `a::main`. The module at hand declares it as
`a@main` (`codegen.c:434`), but the file itself defines plain `main` (`codegen.c:33-35`): the
call refers to a symbol nobody defines. `SymbolsResolve` excepts these calls by name
(`ImportedMain`).

### List, implementing Appends

`list_add` with and without growth, and its exits. The test for an overflow is
modelled as what it does in a build that wraps; one that takes the test away, as
it may, asks `realloc` for more than there is, and exits as well.

### ControlFlow

As in Resolver the source is chosen as it is walked. `stack` holds the activations
of `parse_node`, `value` what the last one gave back, which `parse_if` decides by.
Blocks hold one instruction per straight piece of code, named by the statement it
belongs to; conditions and right sides are part of theirs. Statements directly in
a file, outside of functions, are left out.

Beside the code, three variables follow the source: `follow`, which statement may
run right after which, `pending`, which may have run last, and `odd`, the shapes
the generator has no answer to:

| Shape | What the code does |
|---|---|
| a statement after a `return` | a block with two terminators |
| a loop body that ends in a `return` | the branch back is added behind it |
| an arm whose value is a constant or a parameter | no branch to `if.end` is added |
| an empty block as an arm | the branch is added or not: `value` was not set |
| a function with a type that does not end in a `return`, such as one whose last `if` returns in both arms | a block without terminator |
| an empty function without a type | reads `elements[-1]` |
| an extern without a type behind a function | `ret void` at the end of that function |
| a value returned from a function without a type | `ret` that does not fit |

`RegularIsWellFormed` says that every other source gives well-formed blocks, and
`FlowPreserved` that well-formed blocks run exactly as the source says. The result
of `LLVMVerifyModule` is not looked at by `main`, so that nothing else stops them.

## Runs

| Run | Checks | Bounds, and why they are enough |
|---|---|---|
| `Table` | type, `ProbeStops`, `ListingFits`, `ListingFilled`, `MapSpec`, `PutReturns` | three keys, all colliding, in a table that starts with 2 slots instead of 8 and grows to 8: two growths, wrap-around, a full probe sequence; `calloc` fails above 8 |
| `Imports` | type, `NoReentry`, `ImportFound`, `ResolveOrder`, `AbortOnlyOnCycle`, `BuiltResolved`, `BuiltOnce`, `ClosureSpec`, `Terminates` | all graphs of three files with at most two imports each: chain, diamond, double and self import, cycles of two and three; a table of 2 instead of 8 entries, so that the third module makes it grow |
| `Imports_cycle` | `DeclarationFound`, violated | as above |
| `ControlFlow` | type, `RegularIsWellFormed`, `FlowPreserved`, `VisibleDominates`, `FinishedUntouched` | a file of at most five statements and declarations, two of them declarations, nested in any way; matches of at most two branches. Two conditionals around or behind each other, with a statement in an arm, need three or four; a function touches at most the one before it |
| `Scanner` | `Tiles`, `LongestMatch`, `Unescaped`, `ScanEnds` | every source of up to 4 characters out of 10, one or two per class; up to 6 of digit, dot, minus and blank, as the sign rule looks one token back and one character ahead; up to 6 of quote, backslash and `n`: two strings, or one with two escapes behind each other; then a second file of up to 2 characters, for what the static token type keeps |
| `Resolver` | `LexicalBinding`, `Private`, `NoShadowing` | two files, two names (one of them `main`, one the name of a module), three declarations, four scopes besides the global one: a file and a block in a function, and a second file |
| `Resolver_member`, `Resolver_assign` | `MemberOfFile`, `AssignsVariables`, violated | as above |
| `Parser` | `Recognises`, `TreeReadsLikeText`, `Precedence`, `LeavesListOnlyUnread`, `ParseEnds` | every text of up to 6 tokens out of 13 of expressions, one operator per level (`a + b * c` and every other pair of levels need 5); of 7 out of 12 of functions, externs and imports; of 11 of parameter lists (`fun f(a: t, b: t)` has 11, what must not follow a rest parameter begins at the ninth); of 7 of statements (a conditional with an else, a typed assignment with a value, nested blocks); of 9 of matches (a whole branch, or the beginning of a second) |
| `Types` | `Sound`, `RestFilled`, `IdsDistinguish` | one local variable, the functions of the library (one with rest arguments, one with `...`) and one of rest arguments only, one that takes an array of two, parameters of their types and a pointer to an array, two expressions at once, types of up to three words: every construct on every pair of types, arrays of one, two and five items, which differ, and rest arrays of one and two items |
| `Linking` | `CallsStayInModule`, `SymbolsResolve`, `LinkFails` | a main file and two others of up to three items, six in all: functions `f` and `main`, an extern, imports; all orders of building. A diamond whose lower file is declared again by both that import it needs six. The two others are interchangeable |
| `List` | type, `AppendsSpec` | two elements, a list that starts with three slots, ints of five bits: two growths and an overflow |

The program may always stop, so no run checks for deadlock: that the table, the
scanner, the parser and the loader do not stop early is said by the liveness
properties.

### What the violations show

- `Imports_cycle`: when two files import each other, the one that is resolved
  first looks up members in a module that has no scope. `assert(declaration !=
  NULL)` (`resolver.c:236`) aborts although the name is declared. That only cycles
  do this is `AbortOnlyOnCycle`, which is proved.
- `Resolver_member`: `resolver.c:99` says that the right side of `file::name` is
  looked up in that file. The fallback of `lookup_identifier` to the plain names
  of the global table finds `main` and the externs of every other file too.
- `Resolver_assign`: the assertion of `parse_assignment` (`resolver.c:120`) takes
  any declaration for an assignment. For a parameter it reads the pointer to its
  name, so that an assignment to a parameter always aborts.

### What else the models make visible

Some passing properties have an exception that is a fact about the code:

- `LeavesListOnlyUnread`: every loop of the parser tests that the cursor is in the
  list (`parser.c:685`, `736`), but a file that ends behind `extern` or behind the
  bracket of an array length makes it step over EOF. `parse_type` reports a length that
  is no number (`parser.c:290-294`) and goes on, without the exit of every other
  report.
- `RestFilled`: the index of a rest argument is `j - 1` (`codegen.c:257`), right for one
  parameter before the rest, as all functions of the library have, and only then.
- `IdsDistinguish`: `get_type_id` (`codegen.c:61-81`) adds 100 for a pointer and 1000 for
  an array in whatever order: a pointer to an array and an array of pointers share a
  number, and so do ten pointers and one array. It leaves out how long an array is: `[1, 2]`
  in an `any` selects a branch for `s4[5]`, which reads more than was stored. The property is
  about types of less than ten pointers, up to the lengths of arrays.
- `SymbolsResolve`: a call of an imported file's `main` has a symbol that nobody defines (see
  Linking above); neither has, possibly, a call of a function that LLVM renamed, as its file
  declares the name twice or imports a file twice.
- `Sound`: `score_value_type` (`codegen.c:120-136`) returns 1 for all types but `bool`, and
  2 for `bool`, as `String_cmp_cstring` is 0 for equal strings; its report of other types
  is never reached. A name a branch of a match binds is declared by itself, and its
  type read from itself: none, which `parse_operator` (`typechecker.c:151`) reads
  through.
- `CallsStayInModule`: an extern of another file, which the resolver finds
  (`resolver.c:65-68`), is not declared in the module that calls it (`codegen.c:433`): the
  call refers to another module, or one that is gone. Such calls are marked `stray`.
- A module is known by the text of its path, which is never normalised
  (`main.c:35-43`): `b` and `lib/../b` would be two modules. In the models a path is a
  value, and two paths are two files.

## Fairness

The program is one thread that never waits. `Table` assumes that a `table_put`
that was called runs on (weak fairness of `rehash_step` and `insert`), but not that
anybody calls one; `Scanner` that `scan` runs on, and the
copying of strings after it (weak fairness of `scan_next`, `create_string` and `escape_string`);
`Imports` that `main` runs on (it ends, or follows a wild pointer), `Parser` that `parse` does (weak fairness of
`Next`). That a text of tokens ends is not assumed of the parser but of the bound,
as the scanner's list ends with EOF. The other modules have no liveness properties
and no fairness: their walk goes where the source leads.

## Proofs

A proof holds for every value of the constants that the named assumptions of the
module allow: any number of files, names, scopes and characters. Where TLC checks a
small instance, the theorem says the same of all.

| Module | Theorems, and the property each states |
|---|---|
| `DriverProofs` | of `Imports`: `TypeCorrect`, `ImportAssertionHolds` (`ImportFound`), `TraversalNeverReenters` (`NoReentry`), `ResolvedInOrder` (`ResolveOrder`), `AbortsOnlyOnCycles` (`AbortOnlyOnCycle`), `OnlyResolvedIsBuilt` (`BuiltResolved`), `ModulesBuiltOnce` (`BuiltOnce`), `ClosureSafety` (the steps of `ClosureSpec`); of `Table`: `TableTypeCorrect` (`TableTypeOK`), `ProbingStops` (`ProbeStops`), `ListingInBounds` (`ListingFits`), `EveryCellWritten` (`ListingFilled`), `TableIsMap` (`MapSpec`) |
| `LiteralsProofs` | `NoCharacterIsLost` (`Tiles`), `TokensAreLongest` (`LongestMatch`), `CopiesAreUnescaped` (`Unescaped`), `NoEscapeIsLeft` |
| `ResolverProofs` | `BindingIsLexical` (`LexicalBinding`), `FilesArePrivate` (`Private`), `NothingIsShadowed` (`NoShadowing`) |
| `LinkingProofs` | `CallsGoThroughTheModule` (`CallsStayInModule`), `LinkFailsOnlyThen` (`LinkFails`), `CallsResolve` (`SymbolsResolve`) |
| `ControlFlowProofs` | `TypeCorrect`, `RegularSourcesVerify` (`RegularIsWellFormed`), `FinishedStay` (`FinishedUntouched`), `NamesReachTheirUses` (`VisibleDominates`) |
| `FlowProofs`, on top of it | `FlowIsPreserved` (`FlowPreserved`) |
| `TypesProofs` | `RightExpressionsGenerate` (`Sound`), `RestArraysFilled` (`RestFilled`) |
| `ParserProofs` | `CursorStaysInList` (`LeavesListOnlyUnread`); of `List`: `ListTypeCorrect` (`TypeOK`), `ListIsSequence` (`AppendsSpec`) |

Where a proof goes by induction, a lemma in its module says what it needs of numbers: a
set of them has a least and, if bounded, a greatest element (`Least`, `Greatest`), and
one that has 0 and with every number the next has them all (`Induction`). As lemmas about
sets, with no operator for a parameter, they can be instantiated. They tell of the
recursive functions of the models (`Walk`, `Within`, `WithItems`, `Kept`, `Reach`) that they exist
and unfold as they are written, and of what they compute.

### Table

The inductive invariant is

- `Settled`: no rehash is under way between calls;
- `Room`: during a `table_put` the used slots and the old slots not yet moved
  are together fewer than the slots. This is what `ProbeStops` needs and does not
  say of itself: one step ahead a full table would already be too late;
- `Counted`: the used slots are at most `length`. Length is not their number after
  a growth, but an upper bound is enough for `Room` at the next call and for
  `ListingFits`;
- `Fits`: the last enumeration fitted, as it was made.

The probe sequence reaches every slot (`ProbeCovers`), so that a free slot, which
`Room` provides by counting, stops it (`FreeSlotStops`). For `MapSpec` there are also

- `Chains`: between where the probe of a key in the table begins and the slot it is
  in there is no free slot, so that a look-up meets it before it stops;
- `OldUnique`: no two old slots not yet moved hold the same key;
- `Moved`: the keys still in the old array are not in the new one.

`Bindings`, the map a table stands for, is then the union of the two arrays
(`BindingsSay`). A `rehash_step` leaves it as it is, `insert` changes it for one key,
and every other step is a stutter or an answer read from it. `ListingFilled` needs
`Exact`: until the first growth no rehash is under way and the length is the number of
used slots.

### Imports

The inductive invariant
says that the stack begins with the main file and goes on with loaded modules
(`Rooted`, `Split`), none of them twice (`Distinct`), each the import its
predecessor is at (`Calls`), that the imports a loop has passed are loaded
(`Passed`), that every loaded file is on the stack or resolved (`Split`), and that a
file on the stack is reached by imports from every one below it (`Chained`). When
the traversal of a file ends, an import of it that is not resolved must thus be
below it on the stack, and so lie on a cycle with it. The graph is any one over a finite set of
files (`PathsAssumption`). `BuiltOnce` rests on `Listed`:
what was built begins with the main file and goes on with modules, none twice, as many
as are no longer in the table. Both it and `BuiltResolved` use that the length of a table that has
not grown is the number of its keys (`LengthUngrown`).

### Scanner and Literals

Most of the proof is about no state at all but about what stands in a source. `Reads` says of
a part of it, by its characters alone, what kinds of token it is; for numbers, of which
`Spelled` counts the points, that is `NumericIs`. `SkipStops` says of the loops that they end, for
`NUL` is in no class. From these there is one lemma for each scan function
(`IdentifierLongest`, `NumberLongest`, `StringLongest`, `SymbolLongest`): what it takes is
a token, and nothing longer is. They need of the characters only that the classes are apart
and that keywords are words (`CharactersAssumption`).

The inductive invariant `ScanInv` is then small: the tokens cover the source up to
`current` (`Scanned`), `prev_token_type` is the type of the last token, and no number's
where there is none (`Prev`): it is the end of the file before; and the strings are long enough to have two quotes
(`Quoted`). For `escape_string()`, `Copied` says that the copy is what the text keeps of
the characters read, and one backslash more where an `n` is to come; `LastKept`, that
a backslash at the end of the copy is the character read last, gives `NoEscapeIsLeft`.

### Resolver

`TypeOK` and `Nested` say how the scopes hang together. The heart is `Tables`: what a
table holds for a key is the newest of the declarations that the key is meant for, in
terms of the declarations alone. `Filed` and `Apart` say that a declaration is of the
file in whose scopes it is, and that the scopes of another file are never around the walk.
`lookup_identifier` is followed outwards, scope by scope (`WalkChain`): it finds the innermost
region that has the name, which is what `Expected` says without any scopes.
`NoShadowing` needs no more than that an assignment looks before it declares.

### Linking

`FromOwn` and `FromImport` say where a symbol of the module at hand comes from (`Origin`),
`OwnKept` and `ImportsKept` what became of the items that are done, `Owned` and `Linked`
whose definitions a module and the linked program hold, and `CallsKept` what the reference of a call is: the symbol of the function in its own file or, for a
function of another, the name with that file's path (`Means`), which is the symbol of the
definition unless the function is a `main`. The invariant is
about plain symbols, those LLVM made no number for; a renamed one is apart
from them all. What makes it inductive is that names which are said once (`Alone`) are
never renamed, and that a path heads the symbols of its file and no other's (`SymbolTells`). The set of
files is that which the imports lead to: `ReachCloses` shows that the recursion of
`Within` has reached it after as many turns as there are files. Paths are finitely many, and no
path is the name of something declared (`PathsAssumption`).

### Parser, List

`ParserProofs` holds for every alphabet of tokens and every bound. `Cursor` says that
the cursor is in the list or just behind it, that it is just behind EOF only if the
token before EOF is one the parser skips unread, and that no function other than
`parse_function` goes on at a point where a token is skipped that nobody has
looked at. One lemma per function; each step reads a token that was seen not to be
EOF, or none. The theorems about `List`, whose specification is `ListSpec`, are for
every default length and every width of an int.

### Types

The theorems hold for all functions, parameters and types that `TypesAssumption` allows: types
are words `pointer` and `array`, of any length, in front of a name `compiler_initialize` knows (all
but the structure `string`), and a rest parameter is a pointer. The bounds on expressions and words are
any numbers.

The inductive invariant `Inv` says of every expression and variable that it is `Sane`: the
type is one, the LLVM type is that of the type if the rules were kept (`Good`), a
variable has room for something, and a constant has a type. The last is what an array of items
needs: without it items of no type at all would keep to the rules and yet lead through `NULL`.
Loading a sane expression leaves its LLVM type as it is, but for an array variable, which
becomes an address (`RvalueIs`); so `Loaded` says less than `Sane`, and for each construct it has
to be shown that its rules keep array variables out, or take them for the pointers they have
become (`FittingIs`). `LLVMTypeIs` and `ArrayIs` are the lemmas on types: the LLVM type of
an array is an array of the same length, of a pointer a `ptr`, of a name itself. The casts come down to
`DeducedIs`: `score_value_type` tells no more than `bool` from the rest, so that the right
operand decides unless only the left one is a `bool`, and only a left operand that is
narrower can be extended (`CastIs`).

`RestInv` says which items of a rest array are set, for every function; that they fill it
from the first on if and only if one parameter is before it is then arithmetic.

### ControlFlow

The blocks of a function are not closed one after another: while `parse_node` is deep in an
arm, the blocks where everything around it goes on are still empty. The proof therefore
keeps account of them. An activation *holds* the blocks it will go on in (`Held`: the else
block and the end of a conditional, the end of a loop, the end of a match and the block it
begins in, which is closed last), and *knows* those it may branch back to besides (`Known`). The
inductive invariant `Inv` is

- `Sorts`, `Marks`: `TypeOK`, with sequences for functions;
- `Nesting`: a function is at the bottom of the stack and nowhere else, and on a match
  there is nothing but a match, as its arms are expressions;
- `Apart`: no two activations hold the same block, and none the one the builder is at, but for a
  match that has not come to its first branch. An `if.end` can thus be closed by one of
  them only, and once;
- `Values`: what the last `parse_node` gave back, as `parse_if` decides by it whether
  it adds the branch to `if.end`;
- `Current`: the function at hand is the last that was entered, and nothing branches to the
  entry of any;
- `Shape` and `Returns`, of regular sources: all blocks are closed but for those that are held, and
  the builder's unless a return ended it; what is returned fits the function.

When nothing is on the stack nothing is held, so that every block is closed:
`RegularIsWellFormed`. For `FinishedUntouched` it is shown of every handler that it is `Inside`: it
appends at most one instruction to each block, only to blocks of the function at hand
(`Mine`), and branches only to blocks it knows or has made (`Target`). How the stack
changes comes in four ways, with a lemma for what each does to the account: `Stays`, `Pushes`,
`Pops` and `Turns` (a conditional going on with its else, a match with its next
branch). `TypeCorrect` and `FinishedStay` hold for every source, also for those with an odd shape.

`VisibleDominates` is about every way that control can take, but no way has to be followed
to prove it. Each instruction notes what was in scope where it was built (`sees`), and it
is enough that nothing is seen in a block that was not seen on every branch to it. The
invariant that shows this, `Sight`, is kept in `Tame` sources: those whose matches have no
branches, as each branch binds a name in the scope around the match, and whose else
branches are no bare declarations. These two shapes are what the property leaves out. It says

- `Passed`: what the code in a block sees, but for an alloca in the block itself, was seen
  by every instruction that branches to it;
- `Here`: so was all that is visible now, of the block the builder is at;
- `Ahead`: a block that an activation holds is empty until the builder goes there, and every
  branch to it saw the names of the activations below. These are what is visible when
  the builder gets there;
- `Back`: the start of a loop, to which the end of its body branches late, saw no more than the
  names below the loop, and is no block that anything is built in again;
- `Branchless`: a match has not come to a branch, as its first would bind a name;
- `Entered`: what a function starts with saw nothing from before.

`SightStep` keeps account of it for a step that appends to the block at hand and to new
ones (`Builds`), and each handler is shown to be such a step. From `Sight` it follows by
induction over the number of branches (`SeenOnEveryWay`) that whatever is reached
without passing through the block of an alloca does not see that alloca.

`FlowPreserved` says of the finished blocks that they run the statements in the orders the
source has (`follow`, which the model notes as it walks the source). Both sides are
told as facts about sets carried along the branches: let `X[b]` be what may have run last
where block `b` begins, closed under all branches (`Shut`). The blocks allow nothing the source
does not if some such `X` meets only pairs in `follow` (`Sound`), and everything it does if
every such `X` meets all of them (`Complete`). With both, no way through the blocks is
ever followed in a step of the induction. The invariant `FlowInv` says them of the
unfinished blocks, with an account of what is missing. An activation

- *owes* a branch (`Own`): a match goes on from its first block to the branch
  at hand, although the instruction that does is built last;
- *awaits* blocks (`Awaited`): each block held for later is empty, and what may have run last
  where it begins are the statements meant to lead there, no more and no fewer;
- *loops* (`Heading`): the start of a loop has its condition and its branch.

`Bones` is the part that holds of untidy blocks too: what is owed, awaited and looped to is
as it was left, and only what ends a block branches. `Sound` and `Complete` hold of blocks that
are `Tidy`, with nothing behind a terminator; in finished code `WellFormed` says so, and as no
step removes an instruction, a step that makes blocks tidy found them tidy. A handler
changes the account in one of these ways: it appends to the block at hand (`FlowStraight`),
leaves it ended (`FlowStops`), branches back (`FlowLoops`), makes new blocks (`FlowOpens`), goes on
to a block that waits (`FlowCloses`), or takes a match to its next branch (`FlowOption`) or
its end (`FlowMatched`); a lemma for each says how an `X` of the blocks before yields one of the
blocks after, and back. All of it is said as long as no extern was late, as in the property. That the fixed points are what
`BlockFlow`, which walks through blocks with no statement in them, computes, is
`FlowSound` and `FlowComplete`, over `Reach`.

### Only model-checked

- Liveness (`PutReturns`, `Terminates`, `ScanEnds`, `ParseEnds`, and the fairness of
  `ClosureSpec`), which is out of the prover's reach.
- `Recognises`, `TreeReadsLikeText` and `Precedence`: `Grammar` is written with
  RECURSIVE operators, of which the provers know nothing.
- `IdsDistinguish` of `Types`: what `get_type_id` counts is the length of a `SelectSeq`, a
  recursive definition.

## Not modelled

- `compile` and `execl`: calls of LLVM, clang and the operating system in a line,
  with an exit after each failure. The result of `LLVMVerifyModule` is not looked at.
- Texts and the buffers behind them (`string.c`, `path_to_name`, `get_directory`,
  `resolve_module_path`): a string is a value in every model, and what an overflow of a
  buffer does depends on `malloc`. A file that cannot be read is `load_fails`.
- The values of numbers, and what a compiled program calculates.
- Statements directly in a file, as far as their code goes: they are parsed and bound
  in `Parser` and `Resolver`.
- Which target of a conditional branch is taken when its condition is true: `ControlFlow` knows
  where a branch can go, not when.
- The value of a `match` that is used as an expression: `parse_match` returns none
  (`codegen.c:531`), while the checker gives it the type of its first branch.
- `print_tree` and `print_token`, which only print (`DEBUG` is defined in every build,
  `common.h:8`).

## Plan

1. (done) `Table` with `Map`, `Imports` with `Closure`, and their proofs; `Scanner`;
   `Resolver`; `ControlFlow`.
2. (done) `Parser` with `Grammar`; `Types`; `Linking`; `List` with `Appends`;
   `Literals` with `Escape`.
3. (done) Proofs: `Table` implements `Map`; all safety properties of `Table`, `Imports`,
   `Scanner`, `Literals`, `Resolver`, `Linking` and `List`; the cursor of the parser; the
   type, `RegularIsWellFormed`, `FinishedUntouched`, `VisibleDominates` and
   `FlowPreserved` of `ControlFlow`, loops included; `Sound` and `RestFilled` of
   `Types`, construct by construct.
