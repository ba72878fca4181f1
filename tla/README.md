# A TLA+ model of cmmc

`cmmc` compiles C-- (int and float scalars and arrays, functions, loops) to
AArch64 assembly in two passes over a syntax tree: a semantic check that types
expressions and fills a symbol table, and a code generator that prints
instructions while it walks the tree.  The generator keeps temporaries in a
small register pool that spills to the stack.

The difficulty of this program is not concurrency.  It is that *two* programs
run at once: the compiler, which moves the register pool along the text of the
function, and the code it prints, which runs later, in the order that branches
allow, on registers and a stack that must be where the compiler believed they
would be.  The modules here model both sides.

## Inventory

| Part | Source | State | Operations | What makes it correct |
|---|---|---|---|---|
| register pool | `src/register.c` | `list`, `top`, `spill`, `spill_max`, `lock_cnt`; per register `tmp`, `lock`; per temporary `reg`, `addr`; the caller's `*offset` | init, alloc, lock, unlock, free, each printing code | temporaries keep their values; names returned by lock stay valid; slots are contiguous; `offset` is the depth of `sp` |
| calls | `code-generation.c` 361-559, `register.c` 262-315 | `print_buf`, the temporaries of the arguments, what is pushed | save/load arguments, caller save/load, call_write, call_function | a call changes only its result; arguments in place; pushes and pops balance |
| expressions | `code-generation.c` 82-358, 561-974 | labels, s16-s18, the pool | load, store, operators, conversions, short-circuit branches | the code computes the value of the source and makes its calls |
| statements, functions | `code-generation.c` 976-1305 | `current_offset` by value, label numbers, addresses of locals | while, for, if, return, blocks, functions | `sp` = `fp` at the epilogue on every path; loops end; locals do not overlap |
| global variables | `code-generation.c` 14-80, 1307-1325 | none | directives, storage | room for every element; values of the kind of the directive |
| semantic analysis | `semantic-analysis.c` | types of nodes, symbols, `any_error` | typedefs, declarations, references, calls, statements, functions, constant folding | accepts exactly the legal programs; what it accepts the generator can compile; folded values are the computed ones |
| symbol table | `symbol-table.c` | chain of all scopes, current scope | open, reopen, close, insert, retrieve | both passes resolve a name to the same symbol |
| syntax tree | `ast.c`, `ast.h` | parent, child and sibling links | append sibling, child, children | the links are those of the lists that were appended; the loops end |
| parser, lexer | `parser.y`, `lexer.l` | semantic values | combine values | a value is the end of a list of its own |
| dumps | `draw.c` | node counter | print a node and its children | what is drawn is the tree |
| driver | `main.c`, `state.c` | phase, exit status, open file; `output.s` across runs | parse, check, generate, exit | output only after a successful check; the status tells whose it is; a program that was written stays until the next one has been checked |

How they interact: the driver calls the parser, the checker and the generator
in this order and stops at the first that fails; the two passes share the tree
(types written by the first) and the symbol table (scopes created by the first
and *replayed* by the second, addresses written by the second); every handler
of the generator calls the pool and prints to the same stream.

Hard behaviours: address reuse by `malloc` in a search that compares addresses;
names that go stale between lock and print; swaps between what was pushed and
what will be popped around a call; code that a branch skips although the pool
has moved past it; a stack pointer that blocks, temporaries, saved registers,
arguments and returns all move.  The full list, line by line, is under
`hazards` in `PROJECT.json`, each with the properties that cover it or the
reason why none does.

## Modules

| Module | What it is |
|---|---|
| `TmpStore` | what the pool promises: a store with one cell per temporary |
| `RegPool` | `register.c`: bookkeeping (`...Book`) and printed code (`...Code`) of alloc, lock, unlock and free; refinement of `TmpStore` |
| `RegPoolProofs` | theorems about `RegPool` |
| `CallFrame` | a call at any moment of an expression, on top of `RegPool` |
| `CallFrameProofs` | theorems about `CallFrame` |
| `Machine` | external: the processor, for the instructions the generator prints |
| `ExprGen`, `StmtGen` | `code-generation.c` as functions from typed trees to scripts: the calls to the pool, the instructions printed and the calls of `generate_expression` and `generate_statement`, in order |
| `Compiler` | carries scripts out against the pool (`RegPool`), collects the code and runs it (`Machine`) |
| `CompilerProofs` | theorems about `Compiler`, for every program |
| `Source` | what a C-- function means: an interpreter of its tree |
| `Meaning` | compares what the generated code did (`Compiler`) with what the function means (`Source`) |
| `SymbolTable` | `symbol-table.c` and the lookups of names, as operators on a table |
| `ScopePasses` | the check that opens scopes and the code generation that reopens them, over a program written while the check reads it |
| `Syntax` | trees as the semantic analysis leaves them, with its typing rules |
| `ConstExpr` | constant folding (`eval_const_expr`, the conversion of initialisers) beside what the generated code computes for the same expression, with ints of `Width` bits |
| `TypeCheck` | the rest of `semantic-analysis.c`: for a node and a scope, what comes of it (ok, an error, a failed assertion) and the types, extents and symbols it leaves |
| `Language` | which programs are legal, stated as rules about a program and not as a walk over it: the yardstick for the check |
| `Contract` | the two passes over a program: the check (`TypeCheck`), then everything the generator asserts of, asks of and dereferences in what it is handed, and the storage it reserves |
| `Ast` | `ast.c`: the links of the syntax tree, by iterations of its loops, under a parser that combines its values in any order |
| `Draw` | `draw.c`: the recursion that dumps the tree `Ast` has built |
| `AstProofs` | theorems about `Ast` and `Draw`, and that the trees of `Ast` have no cycle |
| `Driver` | `main.c`, `state.c`: several runs of the compiler in one directory |
| `DriverProofs` | theorems about `Driver` |
| `Induction` | induction over numbers, stated of sets of numbers: a least and a greatest number with a property |
| `ScopingProofs` | lemmas about what `ScopePasses` is built from: levels and open blocks of a text, declarations, the table, lookup, insertion, reopening |
| `ScopePassesProofs` | theorems about `ScopePasses` |
| `MC*` | instances for TLC |

`RegPool` is used twice.  Alone, an action is a whole function of
`register.c` together with the execution of the code it prints, which is right
for straight-line code, and a caller may call anything at any time.  In
`Compiler` the same bookkeeping operators are combined with *emission*, and the
code runs afterwards, so that branches can separate the two.  That both are the
same pool is the property `UsesPool`: the steps of `Compiler`, with the code they
print left aside, are steps of `RegPool!Next`, whose guards are what
`register.c` asks of its callers.

The generator recurses over the tree; the model does not.  `todo` is the rest
of the script of every call that has begun, the innermost first, and a script
has items for the calls in it: `CallExpression` and `CallStatement` replace such
an item by what the called handler does with that node.  `Expr` and `Stmt` are the
nodes that occur, and `CompilerAssumption` says of them, node by node, what the
grammar and the semantic analysis say of a tree; nothing needs to be said of
its depth.

`ScopePasses` stands beside these modules: the generator modules take names as
resolved, with an environment of their own (`StmtGen!Locals`), and
`ScopePasses` is where resolution itself is checked, on programs in which
nothing but names matters.  A program is a sequence of items; an action of the
check writes one item and processes it, so that TLC explores every program, and
the code generation then walks over the text.  Scopes carry the item that
opened them (`by`), a ghost field that `ReplayInStep` compares with the text.
What a text says (`Level`, `OpenBlocks`, `Declarations`, `Meaning`) is defined
of a text given as a parameter, apart from the state, so that the proofs can
compare a text with its beginning.

`Contract` is about the seam between the passes.  A behaviour is one run on one
program; a step handles one global declaration, first of the check
(`process_program`), then of the generator (`generate_program`).  The check is
a function of the declaration and the global scope, because it is sequential
and reads nothing else; its early returns, its `any_error` and each of its
assertions are outcomes (`res`), joined in source order by `Then`.  The one
choice in it is the memory that `malloc` leaves in `array_dimension` when
`get_array_size` fails (`Junks`).  `Language` shares with it the syntax of
programs and `StaticType`, the typing rule for constants, but none of its
order of evaluation: whether the short cuts of the check lose an error is what
`AcceptsLegal` compares.

`Ast` numbers nodes in the order of `ccmmc_ast_new` and has NULL as 0.  The
history `row` files the siblings of every list under the first of them, and
`owner` has the parent of a row; they are what the four links must represent.
`Driver` leaves open what each stage makes of a source (any of its exits may
happen) and keeps `output.s` over the runs, with the buffer of the C library
between `fprintf` and the file.

Correspondence.  A stack address is its depth below the frame pointer, as in
`CcmmcTmp.addr`; words above the frame pointer have negative depths, globals
lie far below.  A `CcmmcTmp*` is an element of `Tmp`; `Alloc` may return any
address that is not live, so reuse after free happens.  `free` keeps the
dangling `tmp` of its register, as the code does.  A register name is a number.
`held` is the `const char *` local of a caller between lock and unlock.
In scripts a temporary is a number chosen by the nesting depth, and
`labels` are the C locals that hold label numbers.

`Machine` has words below `W` for ints and `W + k` for the bits of the float
`k`, so that an instruction of the wrong type gives a wrong value.  `bl`
overwrites every register the compiler does not save and the stack below `sp`
with `Junk`, and returns a value that depends on its arguments and on the calls
made before, so that a lost, repeated or reordered call shows.

## Runs

| Run | Question | Bounds |
|---|---|---|
| `regpool` | Do the pool's structures agree with each other and with the code, for callers in any order? Does it implement `TmpStore`? | 2 registers, 2 locks, spill array of 1 that must grow twice, 5 temporaries, 2 values, 2 frame depths; symmetry on addresses |
| `callframe` | Does a call keep what it must, for any pool state before it? | 2 registers, 1 lock, 2 argument registers, up to 3 arguments, 0 or 3 parameters |
| `expressions` | Do arithmetic expressions compute their value under spilling? Does the generator use the pool as `register.c` asks of it? | 3 registers (the fewest `lock_max` = 3 allows), 240 programs: trees of three operators, mixed types, calls with stack arguments, two-dimensional arrays |
| `logic` | Do `&&` and `||` make the right calls and give the right value? | 6 registers, no spilling; nested conditions over ints, floats and calls |
| `statements` | Do whole functions mean the same, balance the stack and end? | 3 registers, 2 argument registers, six bodies, several arguments |
| `scopes` | Does the check accept exactly the well-scoped programs, and does the code generation find the same symbols in the same scopes? | every program of up to five items (declarations, functions, blocks, uses, calls) over two names; parameter lists none, one name, one name twice |
| `contract` | Does the check accept exactly the legal programs, does what it accepts compile, do both passes agree on extents, storage and values? | every program of up to three of 26 declarations; a prelude with one statement of every form (some 7,000) over symbols and operands of every kind; global initialisers two operators deep over six numbers; ints of 4 bits; division that overflows traps (`Host`) |
| `ast` | Are the links those of the lists that were appended, whatever the order, do the loops end, is the drawing the tree? | 5 nodes, up to 4 children in one append |
| `driver` | What do the exit status and `output.s` say after any sequence of runs? | 3 runs, sources of up to 3 declarations |
| `function_by_name` | Expected violation: see Findings | as `scopes` |
| `logic_spill` | Expected violation: see Findings | 3 registers |
| `unary_plus` | Expected violation: see Findings | 6 registers |

Why the bounds are enough.  The pool distinguishes a register or a slot, locked
or not, first, middle or deepest: two registers and three slots contain all of
these, two values tell a moved value from a lost one, and the theorems lift the
results to every size.  Calls distinguish arguments in registers and on the
stack and parameters likewise: two argument registers (`ArgRegs`, 8 in the code)
with three arguments have both.  Programs are enumerated, not random; each
combines features that share state (temporaries, s16-s18, `sp`).

Five items are enough for a global hidden by a local of a nested block, for two
blocks side by side in a function and for two functions with a call: the cases
in which reopening, closing or searching the wrong scope shows (every mutant of
these operators is caught).

Three declarations are enough for a typedef of a typedef and its use, and for a
name declared twice, once after an error; the errors of `semantic-analysis.c`
depend on the symbol of a name and on one level of operands, which the
statements enumerate, with operands nested where an early return hides an
error.  Ints of 4 bits overflow in one operation, which is what folding and
compiled code must agree on.  Five nodes make rows of one to four nodes on
either side of a join, and a join of children below a parent; `AstProofs` lifts
this to every size.  Three runs give a program written, one that fails and one
that starts again.

The refinement `ImplementsStore` lets a value change only in a step that uses a
name: `TmpStore` keeps the set of temporaries the caller has names of, and
lock, unlock and free, which change that set, may not change a value.  Without
the set a swap that loses a value would pass for a write.

Ints are modulo `W` = 64; initial values are chosen so that results differ.
`Tmp`, `Depths` and the programs bound the compiled functions; nothing cuts a
behaviour short.  `Expr` and `Stmt` are the nodes of the programs of the run,
and `Frames` the depths their blocks have.

Fairness.  `Compiler!CSpec` has weak fairness of the single next-state action:
a compiler and a processor that are not stopped go on.  Both are sequential, so
`Terminates` rests on nothing else; the programs of that run end according to
`Source`.  `Ast!Spec` has weak fairness of the steps of the loops (`Reduce`):
once called, the functions of `ast.c` run on, whereas nothing makes the parser
go on to a next rule.  The other specifications state safety only and have no
fairness.

## Findings

* `logic_spill`: the short-circuit branch skips allocator code.  When the pool
  is full, the right operand of `&&` or `||` allocates a slot with
  `sub sp, sp, #4`; the branch of the left operand jumps behind it, and the
  code that frees the slot runs anyway.  `f(!x || z)` on the smallest pool ends
  with `sp` four bytes above `fp`.  With 15 registers it takes an expression
  nested deep enough to hold 13 or more temporaries.
* `function_by_name`: `call_function` looks for the function it is in by name,
  from the innermost scope, although the comment above it says that only the
  global scope should be searched.  `int a(int a) { b(); }` finds the parameter.
* `unary_plus`: `+y` for a float `y` yields what s16 held before.

Further defects were met while modelling and are listed under `hazards` with
their lines.  Each is named, as an exception, by the property that would
otherwise cover it, so that the runs also show that nothing else is wrong in
that way.

| Where | What happens | Named by |
|---|---|---|
| `code-generation.c:548` | an int returned to a function that has parameters is replaced by the first one: `load_arguments` restores x0 before the result is read | `ResultReturned` |
| `code-generation.c:475` | an array parameter passed on at a later position may have been overwritten | `ArgumentsInPlace` |
| `code-generation.c:485` | a global array passed as an argument passes the frame pointer | - |
| `code-generation.c:1245` | an initialiser that names a variable declared later in its block is checked against the outer variable and compiled against the inner one | `SameSymbol` |
| `code-generation.c:448` | `check_call` accepts any expression with a type for an array parameter; one that is no name fails this assertion | `AcceptedCompiles` |
| `code-generation.c:1149` | `return;` is accepted in every function and dereferences the missing child | `AcceptedCompiles` |
| `semantic-analysis.c:648` | an undeclared type name is dereferenced as NULL, and a function's name aborts, before either is reported | `CheckAsserts` |
| `semantic-analysis.c:359` | `v[u()]` with `u` undeclared is reported and then fails the assertion: `check_call` leaves no type when it fails | `CheckAsserts` |
| `semantic-analysis.c:776` | a bare expression in the first or third part of `for`, which the grammar has, fails the assertion | `CheckAsserts`, `AcceptsLegal` |
| `semantic-analysis.c:36` | folding `INT_MIN / -1` traps on x86 | `CheckAsserts`, `AcceptsLegal` |
| `semantic-analysis.c:732` | a float that initialises an int is truncated for a global and rounded for a local | `InitialisersAgree` |
| `code-generation.c:23`, `1200` | a plain name whose type is an array by typedef gets four bytes | `StorageFits` |
| `semantic-analysis.c:888` | a typedef inside a block declares variables; `Language` takes it so | - |
| `main.c:114` | exit status 0 although the disk did not take `output.s` | `StatusTellsOutput` |

`draw.c:194` says that `printGVNode` returns the next unused number; it returns
the last used one, which is what its loop expects and what `DrawsTree` states of
it (`GraphOfTree`: the counter that comes back is one less than the nodes
printed).  The comment is wrong and the drawing right.

Two remarks that no property is about: `prog_name` (`main.c:34`) stays NULL for a
name without a slash and is printed by every message; `ccmmc_register_fini`
(`register.c:317`) has an empty body, so that nothing frees the register pool,
nor the tree and the table (`state.c:21`), before the process ends.

## Proofs

`RegPoolProofs` proves about `RegPool`, for every `Num`, `LockMax <= Num`,
`SpillMax`, `Tmp`, `Val` and `Frames` (`PoolAssumption`):

* `PoolInvariant`: `Spec => []PoolInv`, where `PoolInv` is the conjunction of
  `TypeOK`, `RegistersInUseFirst`, `SpillSlotsContiguous`, `StackInStep`,
  `LockCountExact` and `HeldNameValid`.  No conjunct is inductive alone: the
  deepest slot that free loads is known to be live by `SpillSlotsContiguous`,
  the register lock picks is in use because a spilled temporary implies a full
  list (`RegistersInUseFirst`), a held name survives a swap because its
  register is locked (`HeldNameValid`) and the swap picks an unlocked one.  One
  lemma per disjunct of `Next`, one step per conjunct.
* `PoolTypeCorrect`, `RegistersStayPartitioned`, `SlotsStayContiguous`,
  `StackStaysInStep`, `LocksCounted`, `NamesStayValid`: the conjuncts.
* `SearchCorrect`: the linear searches find what their assertions claim,
  although dangling pointers above `top` may equal a live address.
* `PoolImplementsStore`: the pool implements `TmpStore`; each step maps to a
  store step or a stutter (`...KeepsValues` lemmas), and only a write through
  a name changes a value.

The linear searches are written with `CHOOSE` of the least index
(`FirstOfLeast`, by well-foundedness of `<` on `Nat`), so that the module has
no recursion.

`BookInv` is `PoolInv` without the stack pointer, which a call moves on its own;
the lemmas about lock, unlock and values are stated with it, so that they hold
in the middle of a call too.

`CallFrameProofs` proves about `CallFrame` all that its run checks, for every
size of the pool and any number of arguments, argument registers and parameters
(`PoolAssumption`, `CallAssumption`: at least one lock and two registers, for
the result and the argument of `write`, which is freed while the registers are
pushed):

* `FrameInvariant`: `FrameInv` says how deep the stack pointer is at each step
  (`StackDepth`: the parameters of the caller, then the registers in use, then
  the arguments that do not fit), that the words pushed are there (`PushedInv`),
  that at most the argument being moved is locked (`LocksInv`) and how far the
  loop is (`LoopInv`).  `PoolStaysIntact` and `CallsBalanced` follow.
* `KeepInvariant`: `KeepInv` rests on it and says which value is where.  Its
  heart is `RegsKept`: a temporary that is in a register now is in one of the
  registers pushed, and the word pushed is its value.  A lock may swap it out
  to the stack afterwards (then its slot has the value, `ValuesKept`, and what
  is popped into the register belongs to an argument) but never moves it to
  another register.  `CallsKeepValues`, `CallsKeepParameters`,
  `ArgumentsArrive` and `ResultsReturned` follow.

`AstProofs` proves about `Ast`, for every `MaxNodes` and `MaxArity` in `Nat`:

* `RepresentsAlways`: between two calls the four links are those of the rows.
  `Represents` says nothing while a loop runs, so that the invariant `IInv`
  has to: the right links are those of the rows at every step, because
  `append_sibling` joins two rows in one assignment; what lags are the leftmost
  and parent links of one row, the one `node` is in, behind a cursor `k`
  (`AdoptAt`, `FixAt`).  That no other row is disturbed needs `FreeInv`: what
  the parser, the arguments and the call hold are ends of rows without a
  parent, no two of the same row.
* `ValuesAreListsAlways`: the same for the values of the parser; hence no node
  is appended to its own list, which is what makes the loops end (that they do,
  `ReductionsEnd`, is left to TLC).
* `TypeCorrect`: no loop leaves the nodes there are.

Of the dump and of every other recursion over the tree, again for every
`MaxNodes` and `MaxArity`:

* `TreesEnd`: there is a rank that falls from a node to its first child and to
  its right sibling (`DescentInv`).  The rank exists in every state but is no
  variable of `Ast`: adopting children puts the parent above all nodes; joining
  two rows lifts the first row, and the row of its owner, above them.  That nothing
  leads to a node that is lifted is known from `FreeInv`.  It is what every
  recursion over the tree relies on, in the check and the generator too.
* `DrawsTreeHolds`: what is printed is the tree.  The rank makes the recursive
  function `PrintFrom` exist (`PrintingDefined`: it is built up rank by rank),
  and what it prints is shown by induction on the rank (`DrawnFrom`): the nodes
  below a node and those to its right are disjoint, since one link leads to a
  node (`ReachedApart`), and the numbers of the two parts follow each other
  because the counter is handed back (`LinesTogether`).

`DriverProofs` proves about `Driver`, for every `MaxRuns` and `MaxDecls` in
`Nat`: `StatusTellsOutputAlways` and, an action property, `OutputIsKept`.  The
invariant ties each phase to the file: `output.of < run` until it is opened,
`output.of = run` and only a part of the program afterwards, and what is in the
file never exceeds what was printed.

`ScopePassesProofs` proves about `ScopePasses` the five invariants of the run
`scopes`, for every set of names, every set of parameter lists and programs of
any length (`ScopeAssumption`):

* `ScopesHold`: `Spec => []ScopeInv`.  While the text is read, the table is the
  one the text describes (`TableInv`): a scope for every block, in the order of
  the blocks, the open ones marked, and in each the first declaration of every
  name; the current scope is that of the innermost open block.  That holds as
  long as no error was found (`ErrorInv` says when one is), because a function
  that is declared twice leaves no scope.  While the code is generated, the table
  does not change but for addresses, exactly the blocks opened so far are
  reopened and the current scope is the one of the innermost block around the
  item (`ReplayInv`).  What earlier items were checked against (`CheckInv`,
  `SameSymbol`) and where locals were placed (`PlaceInv`: the locals of a block
  lie behind those of the blocks around it) is remembered.  None of the five
  invariants of the run is inductive without the table: that the search finds
  what the text means needs to know what the scopes hold.
* `AcceptsWellScopedHolds`, `CheckedLexicallyHolds`, `ReplayInStepHolds`,
  `SameSymbolHolds`, `PlacesApartHold`: the conjuncts that the run checks.

The argument has three parts, the first two in `ScopingProofs`.  Of a text: one
more item changes nothing about the items before it, neither their block nor
what their names mean.  Of a table that is the one of a text: walking up the
chain of scopes meets the open blocks from the inside out, so that the first
scope with the name has the innermost declaration, which is what `Meaning` is
defined to be; inserting, opening, reopening and closing lead to the table of
the longer text.  Of the state: each action takes the table of a text to the
table of the next.

`ScopeInv` was checked by TLC over programs of four items (85,576 states)
before it was proved.

`CompilerProofs` proves about `Compiler` how the code generator uses the pool and
the labels, for every set of expressions and statements a program can consist
of, every environment and every pool (`PoolAssumption`, `CompilerAssumption`:
trees that the grammar and the semantic analysis let be, `LockMax` at least 3,
which is `REG_LOCK_MAX`, and a frame that starts at depth 0):

* `CompilerInvariant`: `CSpec => []CInv`.  The heart of `CInv` is `Ahead`: what is
  left of the script is *legal* from the present state and ends with nothing
  allocated, locked or open.  A state of a script (`St`) has the temporaries
  that are live, those that are locked, the depth `current_offset` starts from
  where that is known, and the labels that are open or have a number.  `Allowed`
  says when an item may stand in a state, and it is where the handlers owe each
  other something: who locks has at most two locks already, who frees or calls
  has none, who calls `generate_expression` hands over a live temporary and
  numbers nobody uses, who sets `current_offset` has at most one temporary.
  `Legal` composes (`LegalCat`), so that each handler is shown legal piece by
  piece (a lemma for each handler in `ExprGen` and `StmtGen`).  A call is
  one item with one result, which the handler of the called node must keep:
  induction over the tree has become induction over the steps of the compiler.
  Beside `Ahead` stand the pool (`Book`), whose locks belong to names that are
  held (`LockedHeld`), and the code so far (`Text`, and `Plain` of what
  `caller_load` will print).
* `LocksAlwaysGranted`: nobody is ever refused a lock, so that the code, which
  never looks, prints no NULL.
* `LabelsStayUnique`: no label is defined twice and none is missing, although
  `label_number` is read before it is advanced and labels outlive many calls.
* `PoolIsDrained` and `CompilerUsesPool`: the refinement.  Every step of the
  compiler is a step of `RegPool`'s callers or leaves the pool alone; hence what
  `RegPoolProofs` shows of callers in any order holds under this one.
* `AssertionsHold`: the assertions of the searches of `register.c` do not fail
  in any compilation.

`CInv` is about constants that no instance of TLC bounds, so that TLC checked it
with `Legal` as a function that is evaluated along the script, over the programs
of `statements` and `logic` and over part of those of `expressions` (30,520
states), before it was proved.

The theorems of the library on induction have an operator as a parameter, which
the provers here cannot instantiate.  `Induction` states them of *sets*:
`SetInduction` of a set of numbers that has 0 and with every number the next,
`LeastNumber` and `GreatestNumber` of a nonempty set.  Together with the
recursive functions of `SymbolTable`, `ScopePasses` and `Draw` (`Level`,
`Holder`, `InsertParams`, `PlaceAll`, `PrintFrom`), each shown to exist, that is
enough to reason about texts, chains, lists and trees of every size.

Only model-checked, and why:

* `MeansTheSame`, in `Meaning`: what the generated code computes.  `Source` is an
  interpreter that recurses over the tree with RECURSIVE operators, with which
  the prover loses its SMT backend, and that the two agree is an induction over
  data.
* `StackBalanced`: it is about the program that runs, and it is not true of all
  programs: a short circuit over a full pool breaks it (`logic_spill`), so that a
  theorem would have to say which branches separate allocation from release.
* The six invariants of `Contract`: `TypeCheck`, `Language` and `ConstExpr` recurse
  over trees with RECURSIVE operators, as the functions they model do.
* `Terminates` and `ReductionsEnd`: liveness under fairness is beyond the prover
  in any form.

## Not modelled

* Operators `/ != > >= <=`: same path as the modelled ones, other mnemonic.
* Float conditions of statements: the printed `b.e` does not assemble.
  `for` without a condition tests an uninitialised temporary.
* int results in functions with parameters, global arrays as arguments, array
  parameters overwritten by an earlier argument, negative indices of array
  parameters: the code is wrong there (see Findings and `hazards`), and the
  programs of the runs avoid them.
* Logical operators over a full pool and unary plus on floats, outside the two
  violation runs.
* Words pushed below `sp` before `sp` moves: there is no interrupt in the model.
* `is_arg` of symbols that are not parameters, which is never initialised.
* Division of floats by zero and unary plus of a float in initialisers: the
  first is no fraction, the second is the finding `unary_plus`.
* Alignment and the wording of directives; warnings, messages and labels; the
  listing of the symbol table in `draw.c`.
* Appends of NULL, and to a parent that has children: no rule of the parser
  makes them.  What the parser is fed: the grammar and the lexer are generated
  (bison, flex); `Ast` lets their actions come in any order, which includes
  every order the grammar has.
* Allocation failure: the compiler asserts or exits, which is among the exits
  of `Driver`.

## Plan

What is left, in order of what it would add:

1. The operators and conditions listed under Not modelled, in `ExprGen`.
2. One program text for both `Contract` and `Compiler`, so that what the check
   types is what is compiled and run, and `CompilerAssumption` is what
   `AcceptedCompiles` establishes.
3. `Contract` with the calls of the check as items of a script, as the generator
   has them now, so that its invariants can be proved.
