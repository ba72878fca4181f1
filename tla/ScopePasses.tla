---------------------------- MODULE ScopePasses -----------------------------
(***************************************************************************)
(* The two passes over a program, as far as names go: the semantic         *)
(* analysis opens a scope for each block and fills it (semantic-analysis.c *)
(* 636-1010), and the code generation reopens the scopes and looks the     *)
(* names up again (code-generation.c 1182-1345).                           *)
(*                                                                         *)
(* The program is written while the first pass reads it: text is the       *)
(* sequence of its items, in the order in which both passes reach them.    *)
(* A type has no name here; a scalar and an array are variables alike.     *)
(***************************************************************************)
EXTENDS SymbolTable, SequencesExt

CONSTANTS
  Name,       \* names of variables and functions
  ParamLists, \* parameter lists of functions
  MaxItems    \* items of a program, closing braces not counted

(* attr, if it is set, says where a variable is; a symbol; a declaration.  *)
Place == {"arg", "local"} \X Nat
Kinds == {"function", "variable"}
Symbol == [name : Name, kind : Kinds, by : Nat \X Nat, place : Place \cup {NULL}]
Declaration == [name : Name, by : Nat \X Nat, level : Nat, kind : Kinds]

ASSUME ScopeAssumption ==
  /\ NULL \notin Name \cup Place \cup Symbol \cup Declaration
  /\ ParamLists \subseteq Seq(Name)
  /\ MaxItems \in Nat

VARIABLES
  text,       \* the program
  phase,      \* "check", "failed", "generate" or "done"
  table,      \* state->table
  anyError,   \* any_error
  declaring,  \* whether a block still may have declarations
  checked,    \* for every item, the declaration its name was found at
  pos,        \* the item the code generation is at
  generated,  \* as checked, for the code generation
  owner,      \* what the lookup of the enclosing function found last
  offsets     \* current_offset of the open blocks, the outermost first

vars == <<text, phase, table, anyError, declaring, checked, pos, generated,
          owner, offsets>>

genVars == <<pos, generated, owner, offsets>>

Init ==
  /\ text = << >>
  /\ phase = "check"
  /\ table = OpenScope(EmptyTable, 0)
  /\ anyError = FALSE
  /\ declaring = FALSE
  /\ checked = << >>
  /\ pos = 1
  /\ generated = << >>
  /\ owner = NULL
  /\ offsets = << >>

-----------------------------------------------------------------------------
(* Facts about a text t that a reader of the program sees.  *)
Opener(t, k) == t[k].k \in {"function", "block"}

(* How many blocks an item opens, and how many are open after the first k. *)
Opens(t, k) == IF Opener(t, k) THEN 1 ELSE IF t[k].k = "close" THEN -1 ELSE 0

Level(t) ==
  LET level[k \in 0 .. Len(t)] ==
        IF k = 0 THEN 0 ELSE level[k - 1] + Opens(t, k)
  IN level

(* The blocks that are open after the first k items, by their first items, *)
(* and the innermost of them.                                              *)
OpenBlocks(t, k) ==
  LET level == Level(t) IN
  {m \in 1 .. k : Opener(t, m) /\ \A n \in m .. k : level[n] >= level[m]}

Innermost(t, k) ==
  IF OpenBlocks(t, k) = {} THEN 0
  ELSE CHOOSE m \in OpenBlocks(t, k) : \A n \in OpenBlocks(t, k) : n <= m

Here == Len(text) + 1
Inside == table.current # 1   \* 1 is the global scope
Item(k, name, init) == [k |-> k, name |-> name, init |-> init, params |-> << >>]

(* The first pass reads one more item, in which a name was looked up.  *)
Read(item, found) ==
  /\ phase = "check"
  /\ Cardinality({k \in DOMAIN text : text[k].k # "close"}) < MaxItems
  /\ text' = Append(text, item)
  /\ checked' = Append(checked, IF found = NULL THEN NULL ELSE found.by)
  /\ UNCHANGED <<phase, genVars>>

IsKind(sym, kind) == sym # NULL /\ sym.kind = kind

(* decl_variable of a global variable, whose initialiser is a constant *)
DeclGlobal(x) ==
  /\ ~ Inside
  /\ Read(Item("global", x, NULL), NULL)
  /\ IF ScopeExist(table, x)
     THEN anyError' = TRUE /\ UNCHANGED table
     ELSE table' = Insert(table, x, "variable", <<Here, 0>>) /\ UNCHANGED anyError
  /\ UNCHANGED declaring

(* The parameters are inserted one by one; a name used twice is an error.  *)
InsertParam(T, name, i) ==
  IF ScopeExist(T, name) THEN T ELSE Insert(T, name, "variable", <<Here, i>>)

InsertParams(T, params) ==
  LET done[i \in 0 .. Len(params)] ==
        IF i = 0 THEN T ELSE InsertParam(done[i - 1], params[i], i)
  IN done[Len(params)]

(* decl_function, and process_block until it reaches the first item of the *)
(* body.  The body of a function that is declared twice is not looked at:  *)
(* it is left empty.                                                       *)
DeclFunction(x, params) ==
  LET item == [Item("function", x, NULL) EXCEPT !.params = params]
      inserted == Insert(table, x, "function", <<Here, 0>>)
  IN
  /\ ~ Inside
  /\ IF ScopeExist(table, x)
     THEN /\ phase = "check"
          /\ Cardinality({k \in DOMAIN text : text[k].k # "close"}) < MaxItems
          /\ text' = text \o <<item, Item("close", NULL, NULL)>>
          /\ checked' = checked \o <<NULL, NULL>>
          /\ anyError' = TRUE
          /\ UNCHANGED <<table, phase, genVars>>
     ELSE /\ Read(item, NULL)
          /\ table' = InsertParams(OpenScope(inserted, Here), params)
          /\ anyError' = (anyError \/ ~ IsInjective(params))
  /\ declaring' = TRUE

(* process_block of a block that is a statement *)
OpenBlock ==
  /\ Inside
  /\ Read(Item("block", NULL, NULL), NULL)
  /\ table' = OpenScope(table, Here)
  /\ declaring' = TRUE
  /\ UNCHANGED anyError

(* decl_variable of a local variable: the initialiser is checked first.    *)
DeclLocal(x, init) ==
  LET found == IF init = NULL THEN NULL ELSE Retrieve(table, init)
      bad == ScopeExist(table, x) \/ (init # NULL /\ ~ IsKind(found, "variable"))
  IN
  /\ Inside /\ declaring
  /\ Read(Item("local", x, init), found)
  /\ IF bad THEN anyError' = TRUE /\ UNCHANGED table
     ELSE table' = Insert(table, x, "variable", <<Here, 0>>) /\ UNCHANGED anyError
  /\ UNCHANGED declaring

(* check_var_ref and check_call: a name in a statement *)
Refer(k, kind, x) ==
  LET found == Retrieve(table, x) IN
  /\ Inside
  /\ Read(Item(k, x, NULL), found)
  /\ anyError' = (anyError \/ ~ IsKind(found, kind))
  /\ declaring' = FALSE
  /\ UNCHANGED table

Use(x) == Refer("use", "variable", x)
Call(x) == Refer("call", "function", x)

CloseBlock ==
  /\ phase = "check"
  /\ Inside
  /\ text' = Append(text, Item("close", NULL, NULL))
  /\ checked' = Append(checked, NULL)
  /\ table' = CloseScope(table)
  /\ declaring' = FALSE
  /\ UNCHANGED <<phase, anyError, genVars>>

(* main, and the start of ccmmc_code_generation *)
EndCheck ==
  /\ phase = "check"
  /\ ~ Inside
  /\ IF anyError
     THEN phase' = "failed" /\ UNCHANGED table
     ELSE /\ phase' = "generate"
          /\ table' = ReopenScope([table EXCEPT !.this = 0, !.current = 0])
  /\ UNCHANGED <<text, anyError, declaring, checked, genVars>>

-----------------------------------------------------------------------------
(* The second pass.  *)
At(k) ==
  /\ phase = "generate"
  /\ pos <= Len(text)
  /\ text[pos].k = k

Step(T, found) ==
  /\ pos' = pos + 1
  /\ table' = T
  /\ generated' = Append(generated, IF found = NULL THEN NULL ELSE found.by)
  /\ UNCHANGED <<text, phase, anyError, declaring, checked>>

(* The function around an item. *)
FunctionAt(k) ==
  CHOOSE m \in 1 .. k : /\ text[m].k = "function"
                        /\ \A n \in m + 1 .. k : text[n].k # "function"

(* The declarations at the head of the block that item k opens.  *)
Locals(k) ==
  {m \in k + 1 .. Len(text) :
     \A n \in k + 1 .. m : text[n].k = "local"}

(* Sets the places of names, one after the other.  *)
PlaceAll(T, names, places) ==
  LET done[i \in 0 .. Len(names)] ==
        IF i = 0 THEN T ELSE SetPlace(done[i - 1], names[i], places[i])
  IN done[Len(names)]

(* MUTANT of PlaceLocals: every list of declarations starts at the frame *)
PlaceLocals_FromZero(T, k, offset) ==
  LET n == Cardinality(Locals(k)) IN
  PlaceAll(T, [i \in 1 .. n |-> text[k + i].name],
              [i \in 1 .. n |-> <<"local", 4 * i>>])

(* generate_local_variable for every declaration of the block  *)
PlaceLocals(T, k, offset) ==
  LET n == Cardinality(Locals(k)) IN
  PlaceAll(T, [i \in 1 .. n |-> text[k + i].name],
              [i \in 1 .. n |-> <<"local", offset + 4 * i>>])

Depth(k, offset) == offset + 4 * Cardinality(Locals(k))

(* attr.is_arg and attr.arg_num of the parameters *)
PlaceParams(T, params) ==
  PlaceAll(T, params, [i \in DOMAIN params |-> <<"arg", i - 1>>])

GenGlobal ==
  /\ At("global")
  /\ Step(table, NULL)
  /\ UNCHANGED <<owner, offsets>>

(* generate_function, and generate_block up to the initialisers *)
GenFunction ==
  /\ At("function")
  /\ Step(PlaceLocals(PlaceParams(ReopenScope(table), text[pos].params), pos, 0), NULL)
  /\ offsets' = <<Depth(pos, 0)>>
  /\ owner' = NULL

(* generate_block of a statement, up to the initialisers *)
GenBlock ==
  /\ At("block")
  /\ Step(PlaceLocals(ReopenScope(table), pos, Last(offsets)), NULL)
  /\ offsets' = Append(offsets, Depth(pos, Last(offsets)))
  /\ UNCHANGED owner

(* init_local_variable: all locals of the block are in the table by now.   *)
GenLocal ==
  /\ At("local")
  /\ Step(table, IF text[pos].init = NULL THEN NULL
                 ELSE Retrieve(table, text[pos].init))
  /\ UNCHANGED <<owner, offsets>>

(* load_variable, store_variable *)
GenUse ==
  /\ At("use")
  /\ Step(table, Retrieve(table, text[pos].name))
  /\ UNCHANGED <<owner, offsets>>

(* call_function looks for the function it is in by name, as return does,  *)
(* and for the function that is called.                                    *)
GenCall ==
  /\ At("call")
  /\ Step(table, Retrieve(table, text[pos].name))
  /\ owner' = Retrieve(table, text[FunctionAt(pos)].name)
  /\ UNCHANGED offsets

(* MUTANT of GenClose: the scope is not closed *)
GenClose_Open ==
  /\ At("close")
  /\ Step(table, NULL)
  /\ offsets' = Front(offsets)
  /\ UNCHANGED owner

(* The end of generate_block *)
GenClose ==
  /\ At("close")
  /\ Step(CloseScope(table), NULL)
  /\ offsets' = Front(offsets)
  /\ UNCHANGED owner

EndGenerate ==
  /\ phase = "generate"
  /\ pos > Len(text)
  /\ phase' = "done"
  /\ UNCHANGED <<text, table, anyError, declaring, checked, genVars>>

(* The compiler has exited. *)
Exited == phase \in {"failed", "done"} /\ UNCHANGED vars

Check ==
  \/ \E x \in Name :
       \/ DeclGlobal(x)
       \/ \E params \in ParamLists : DeclFunction(x, params)
       \/ \E init \in Name \cup {NULL} : DeclLocal(x, init)
       \/ Use(x)
       \/ Call(x)
  \/ OpenBlock
  \/ CloseBlock
  \/ EndCheck

Generate ==
  \/ GenGlobal \/ GenFunction \/ GenBlock \/ GenLocal \/ GenUse \/ GenCall
  \/ GenClose \/ EndGenerate

Next == Check \/ Generate \/ Exited

Spec == Init /\ [][Next]_vars

-----------------------------------------------------------------------------
(* What a text means by itself.  *)

(* A declaration: where it is, in how many blocks, and of what.  *)
OfItem(t, k) ==
  [name |-> t[k].name, by |-> <<k, 0>>,
   level |-> IF t[k].k = "local" THEN Level(t)[k] ELSE 0,
   kind |-> IF t[k].k = "function" THEN "function" ELSE "variable"]

OfParam(t, k, i) ==
  [name |-> t[k].params[i], by |-> <<k, i>>, level |-> 1, kind |-> "variable"]

Declarations(t) ==
  {OfItem(t, k) : k \in {k \in DOMAIN t : t[k].k \in {"global", "function", "local"}}}
  \cup UNION {{OfParam(t, k, i) : i \in DOMAIN t[k].params} :
               k \in {k \in DOMAIN t : t[k].k = "function"}}

(* Those whose block is still open at item k and that come before it.  *)
VisibleAt(t, k) ==
  LET level == Level(t) IN
  {d \in Declarations(t) :
     d.by[1] < k /\ \A m \in d.by[1] .. k - 1 : level[m] >= d.level}

(* The innermost declaration of a name, NULL if there is none. *)
Lexical(t, x, k) ==
  LET ds == {d \in VisibleAt(t, k) : d.name = x} IN
  IF ds = {} THEN NULL
  ELSE CHOOSE d \in ds : \A e \in ds : e.level <= d.level

(* The name that item k looks up.  *)
Mentions(t, k) ==
  CASE t[k].k \in {"use", "call"} -> t[k].name
    [] t[k].k = "local" -> t[k].init
    [] OTHER -> NULL

Binding(t, k) ==
  IF Mentions(t, k) = NULL \/ Lexical(t, Mentions(t, k), k) = NULL THEN NULL
  ELSE Lexical(t, Mentions(t, k), k).by

(* Every name is declared and used as what it is.  *)
NamesDeclared(t) ==
  \A k \in DOMAIN t : Mentions(t, k) # NULL =>
    LET d == Lexical(t, Mentions(t, k), k) IN
    d # NULL /\ d.kind = IF t[k].k = "call" THEN "function" ELSE "variable"

(* No name is declared twice in a block.  *)
DeclaredOnce(t) ==
  \A d, e \in Declarations(t) :
    d.name = e.name /\ d.level = e.level /\ d # e =>
      /\ d.by[1] # e.by[1]
      /\ d.by[1] < e.by[1] => d \notin VisibleAt(t, e.by[1])

WellScoped(t) == NamesDeclared(t) /\ DeclaredOnce(t)

-----------------------------------------------------------------------------
(* semantic-analysis.c: a program reaches the code generation if and only  *)
(* if every name is declared, once in its block, and used as what it is.   *)
Accepted == phase = "generate" /\ pos = 1

AcceptsWellScoped ==
  /\ phase = "failed" => ~ WellScoped(text)
  /\ Accepted => WellScoped(text)

(* symbol-table.c lines 80-94: what the check finds for a name is its      *)
(* innermost declaration in a block that is still open.                    *)
CheckedLexically ==
  Accepted => \A k \in DOMAIN checked : checked[k] = Binding(text, k)

(* symbol-table.c lines 50-57: the scope reopened for a block is the scope *)
(* that the check opened for it, and the chain around it is the blocks     *)
(* around it.                                                              *)
ReplayInStep ==
  phase = "generate" =>
    /\ table.current # 0
    /\ table.all[table.current].by = Innermost(text, pos - 1)
    /\ pos > Len(text) => table.this = Len(table.all)

(* A declaration at item k or behind it in the list of declarations of the *)
(* same block, of the name that initialises item k.                        *)
DeclaredLater(k) ==
  \E m \in k .. Len(text) : /\ text[m].name = text[k].init
                            /\ \A n \in k .. m : text[n].k = "local"

(* code-generation.c 141, 253, 436, 595: the code generation finds the     *)
(* symbol that the check found, although addresses and scopes were         *)
(* attached in between.  The initialisers of a block are the exception:    *)
(* they are compiled when all its locals are in the table.                 *)
SameSymbol ==
  \A k \in DOMAIN generated :
    generated[k] = checked[k] \/ (text[k].k = "local" /\ DeclaredLater(k))

(* generate_block lines 1224-1266: every variable that a statement can     *)
(* name, but globals, has a place, and no two of them the same one.        *)
PlacesApart ==
  phase = "generate" /\ pos > 1 =>
    LET chain == {table.all[i] : i \in
                    {i \in DOMAIN table.all : \E d \in VisibleAt(text, pos) :
                       d.level > 0 /\ \E j \in DOMAIN table.all[i].syms :
                         table.all[i].syms[j].by = d.by}}
        symbols == UNION {{s.syms[j] : j \in DOMAIN s.syms} : s \in chain}
    IN \A a, b \in symbols : a.place # NULL /\ (a # b => a.place # b.place)

(* code-generation.c line 419, "We should not search scopes other than the *)
(* global scope": the function found is the one the call is in.            *)
OwnFunctionFound ==
  owner # NULL => owner.by = <<FunctionAt(pos - 1), 0>>
=============================================================================
