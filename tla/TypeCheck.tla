----------------------------- MODULE TypeCheck ------------------------------
(***************************************************************************)
(* semantic-analysis.c 207-954 as functions from trees to the trees they   *)
(* leave behind.  Every operator returns its node with                     *)
(*   res   "ok", "error" (any_error), or the assertion that fails          *)
(*   type  type_value, "none" where the check never wrote one              *)
(* so that a child that an early return skipped is seen by what is missing *)
(* in it.                                                                  *)
(*                                                                         *)
(* An environment is what the symbol table resolves names to (this is      *)
(* checked in ScopePasses): sym, a function from names to symbols, and     *)
(* here, the names of the innermost scope.                                 *)
(***************************************************************************)
EXTENDS ConstExpr, SequencesExt, FiniteSetsExt, TLC

CONSTANT NULL

(* CcmmcSymbolType: dims is array_size, sized tells whether it is not NULL *)
Type(base, dims) == [base |-> base, dims |-> dims, sized |-> TRUE]
Symbol(kind, type) == [kind |-> kind, type |-> type, params |-> << >>]
Func(base, params) ==
  [kind |-> "function", type |-> Type(base, << >>), params |-> params]

(* The global scope as ccmmc_semantic_check leaves it.  *)
Builtin ==
  [sym |-> ("int" :> Symbol("type", Type("int", << >>))) @@
           ("float" :> Symbol("type", Type("float", << >>))) @@
           ("void" :> Symbol("type", Type("void", << >>))) @@
           ("read" :> Func("int", << >>)) @@
           ("write" :> Func("void", <<Type("int", << >>)>>)),
   here |-> {"int", "float", "void", "read", "write"}]

Retrieve(env, x) == IF x \in DOMAIN env.sym THEN env.sym[x] ELSE NULL

Insert(env, x, s) == [sym |-> (x :> s) @@ env.sym, here |-> env.here \cup {x}]
OpenScope(env) == [env EXCEPT !.here = {"int", "float", "void"}]

Fine == {"ok", "error"}
Failed(res) == res \notin Fine

(* What comes of two steps in a row.  *)
(* MUTANT of Then: any_error is assigned, not accumulated *)
Then_LastWins(r1, r2) == IF Failed(r1) THEN r1 ELSE r2

Then(r1, r2) ==
  CASE Failed(r1) -> r1
    [] Failed(r2) -> r2
    [] "error" \in {r1, r2} -> "error"
    [] OTHER -> "ok"
All(nodes) == FoldLeft(LAMBDA r, n : Then(r, n.res), "ok", nodes)

Leave(node, type, res) == [type |-> type, res |-> res] @@ node
NoNode == [node |-> "nul"]   \* CCMMC_AST_NODE_NUL

-----------------------------------------------------------------------------
(* get_array_size, which stops at the first bad size.  *)
Size(dim) == IF dim = NoNode THEN Int_(0) ELSE EvalConst(dim)

Sizes(dims, values) ==
  LET bad == {i \in DOMAIN dims :
                dims[i] # NoNode /\ (values[i].kind # "int" \/ values[i].v <= 0)}
  IN
  IF bad = {} THEN [res |-> "ok", sizes |-> [i \in DOMAIN dims |-> values[i].v]]
  ELSE [res |-> IF values[Min(bad)].kind = "trap" THEN "trap" ELSE "error", sizes |-> << >>]

GetArraySize(dims) == Sizes(dims, [i \in DOMAIN dims |-> Size(dims[i])])

-----------------------------------------------------------------------------
(* Expressions.  CheckTree is the recursion; the others take the trees it  *)
(* has left of the operands, subscripts or arguments.                      *)

(* What check_array_subscript makes of one subscript: the assertion behind *)
(* the two cases is reached with the type of a call that check_call gave   *)
(* up on, which is none.                                                   *)
Subscripted(s) ==
  CASE s.type \in {"float", "void"} -> [s EXCEPT !.res = Then(@, "error")]
    [] s.type \in {"error", "int"} \/ Failed(s.res) -> s
    [] OTHER -> [s EXCEPT !.res = "dim type"]

SubsOf(e) == IF e.node = "id" THEN e.subs ELSE << >>
WithSubs(e, subs) == [subs |-> subs] @@ e

(* check_var_ref and check_array_ref *)
CheckRef(e, sym, subs) ==
  CASE sym = NULL \/ (sym # NULL /\ sym.kind # "variable") -> Leave(e, "error", "error")
    [] sym.type.base \notin {"int", "float"} -> Leave(e, "none", "base type")
    [] e.subs = << >> ->
         Leave(e, sym.type.base, IF sym.type.dims = << >> THEN "ok" ELSE "error")
    [] sym.type.dims = << >> -> Leave(e, sym.type.base, "error")
    [] ~ sym.type.sized -> Leave(e, sym.type.base, "ok")
    [] Len(sym.type.dims) # Len(e.subs) -> Leave(e, sym.type.base, "error")
    [] OTHER -> Leave(WithSubs(e, subs), sym.type.base, All(subs))

(* check_relop_expr: the right operand is checked if the left one is fine. *)
Typed(e) == e.type \in {"int", "float"}
TypeOfBinary(op, l, r) ==
  IF op \in Arith /\ "float" \in {l.type, r.type} THEN "float" ELSE "int"

Operator(e, l, r) ==
  CASE l.res # "ok" -> Leave([l |-> l] @@ e, "error", l.res)
    [] r.res # "ok" -> Leave([l |-> l, r |-> r] @@ e, "error", r.res)
    [] ~ Typed(l) \/ ~ Typed(r) -> Leave(e, "none", "operand type")
    [] OTHER -> Leave([l |-> l, r |-> r] @@ e, TypeOfBinary(e.op, l, r), "ok")

OneOperand(e, l) ==
  CASE l.res # "ok" -> Leave([l |-> l] @@ e, "error", l.res)
    [] ~ Typed(l) -> Leave(e, "none", "operand type")
    [] OTHER -> Leave([l |-> l] @@ e, IF e.op = "not" THEN "int" ELSE l.type, "ok")

(* A call is refused as an operand if it has no value.  *)
(* MUTANT of NotVoid: it is not refused *)
NotVoid_Accepts(c) == c

NotVoid(c) == IF c.type = "void" THEN [c EXCEPT !.res = Then(@, "error")] ELSE c

(* An argument that is a name: p is the parameter's type, subs the checked *)
(* subscripts, ref the name checked as an expression.                      *)
BadPass(dim, sym, p) ==
  \/ dim > Len(sym.type.dims)
  \/ p.dims = << >> /\ dim < Len(sym.type.dims)
  \/ p.dims # << >> /\ dim = Len(sym.type.dims)

(* MUTANT of PassName: the type of a scalar is not looked up *)
PassName_NoType(arg, sym, p, subs, ref) ==
  CASE Failed(All(subs)) -> Leave(arg, "none", All(subs))
    [] BadPass(Len(subs), sym, p) -> Leave(arg, "none", "error")
    [] OTHER -> Leave(WithSubs(arg, subs), "none", All(subs))

PassName(arg, sym, p, subs, ref) ==
  CASE Failed(All(subs)) -> Leave(arg, "none", All(subs))
    [] BadPass(Len(subs), sym, p) -> Leave(arg, "none", "error")
    [] p.dims = << >> -> ref
    [] OTHER -> Leave(WithSubs(arg, subs), "none", All(subs))

CheckArg(arg, sym, p, subs, expr) ==
  CASE arg.node # "id" -> expr
    [] sym = NULL \/ (sym # NULL /\ sym.kind # "variable") -> Leave(arg, "none", "error")
    [] OTHER -> PassName(arg, sym, p, subs, expr)

FinishCall(call, args, f) == Leave([args |-> args] @@ call, f.type.base, All(args))

IsString(e) == e.node = "const" /\ e.kind = "string"
Callable(call, f) == f # NULL /\ f.kind = "function" /\ Len(f.params) = Len(call.args)

RECURSIVE CheckTree(_, _)
CheckTree(e, env) ==
  CASE IsString(e) -> Leave(e, "error", "error")
    [] e.node = "const" /\ ~ IsString(e) -> Leave(e, e.kind, "ok")
    [] e.node = "id" ->
         CheckRef(e, Retrieve(env, e.name),
                  [i \in DOMAIN e.subs |-> Subscripted(NotVoid(CheckTree(e.subs[i], env)))])
    [] e.node = "bin" ->
         Operator(e, NotVoid(CheckTree(e.l, env)), NotVoid(CheckTree(e.r, env)))
    [] e.node = "un" -> OneOperand(e, NotVoid(CheckTree(e.l, env)))
    [] e.node = "call" /\ ~ Callable(e, Retrieve(env, e.name)) -> Leave(e, "none", "error")
    [] e.node = "call" /\ e.name = "write" ->
         FinishCall(e, <<IF IsString(e.args[1]) THEN Leave(e.args[1], "string", "ok")
                         ELSE NotVoid(CheckTree(e.args[1], env))>>, env.sym[e.name])
    [] OTHER ->
         FinishCall(e,
           [i \in DOMAIN e.args |->
              CheckArg(e.args[i], IF e.args[i].node = "id" THEN Retrieve(env, e.args[i].name) ELSE NULL,
                env.sym[e.name].params[i],
                [k \in DOMAIN SubsOf(e.args[i]) |->
                   Subscripted(NotVoid(CheckTree(e.args[i].subs[k], env)))],
                NotVoid(CheckTree(e.args[i], env)))],
           env.sym[e.name])

CheckExpr(e, env) == NotVoid(CheckTree(e, env))

-----------------------------------------------------------------------------
(* Declarations.  d.type names the type; an id has its form ("plain",      *)
(* "array", "init"), dims and init.  A step of a declaration list carries  *)
(* the environment, the outcome so far and the ids left behind.            *)
Step(env, res, ids) == [env |-> env, res |-> res, ids |-> ids]

(* The symbol before it is known whether there is one: is_function reads   *)
(* through the pointer.                                                    *)
TypeSymbol(sym) ==
  CASE sym = NULL -> "type symbol is NULL"
    [] sym.kind = "function" -> "type symbol is a function"
    [] sym.kind # "type" -> "error"
    [] OTHER -> "ok"

(* MUTANT of ArrayType: the dimensions of the type come first *)
ArrayType_BaseFirst(base, sizes) == Type(base.base, base.dims \o sizes)

(* get_array_of_array_size: the declarator's dimensions come first.  *)
ArrayType(base, sizes) == Type(base.base, sizes \o base.dims)

(* A global initialiser is folded, a local one is checked.  *)
InitNode(init, type, global, env) ==
  IF global
  THEN LET x == EvalConst(init) IN
       CASE x.kind = "trap" -> Leave(init, "none", "trap")
         [] x.kind = "error" -> Leave(init, "none", "error")
         [] OTHER -> [value |-> ConvertInit(type, x)] @@ Leave(init, "none", "ok")
  ELSE CheckExpr(init, env)

(* One id of a list: kind is "variable" or "type", base the list's type,   *)
(* size and init what the checks of its extents and initialiser say.       *)
With(done, id, kind, type, node) ==
  Step(Insert(done.env, id.name, Symbol(kind, type)), done.res,
       Append(done.ids, [type |-> type, init |-> node] @@ id))
Without(done, id, res) == Step(done.env, Then(done.res, res), Append(done.ids, id))

DeclareId(done, id, kind, base, size, init) ==
  CASE Failed(done.res) -> done
    [] id.name \in done.env.here -> Without(done, id, "error")
    [] id.form = "plain" -> With(done, id, kind, base, NoNode)
    [] id.form = "array" /\ kind = "type" /\ base.base = "void" -> Without(done, id, "error")
    [] id.form = "array" /\ size.res = "ok" ->
         With(done, id, kind, ArrayType(base, size.sizes), NoNode)
    [] id.form = "init" /\ base.dims # << >> -> Without(done, id, "init of an array")
    [] id.form = "init" /\ init.res = "ok" -> With(done, id, kind, base, init)
    [] OTHER -> Without(done, id, IF id.form = "array" THEN size.res ELSE init.res)

DeclareIds(ids, start, kind, base, global) ==
  FoldLeft(LAMBDA done, id :
             DeclareId(done, id, kind, base, GetArraySize(id.dims),
                       InitNode(id.init, base.base, global, done.env)),
           start, ids)

(* decl_typedef and decl_variable *)
DeclareAs(d, env, kind, global, sym) ==
  CASE TypeSymbol(sym) # "ok" -> Step(env, TypeSymbol(sym), << >>)
    [] kind = "variable" /\ sym.type.base = "void" -> Step(env, "error", << >>)
    [] OTHER -> DeclareIds(d.ids, Step(env, "ok", << >>), kind, sym.type, global)

Declare(d, env, kind, global) == DeclareAs(d, env, kind, global, Retrieve(env, d.type))

(* The local declarations of a block: a typedef is taken for a variable.   *)
NextList(done, one) ==
  IF Failed(done.res) THEN done
  ELSE Step(one.env, Then(done.res, one.res), Append(done.ids, one.ids))
DeclareLocals(b, env) ==
  FoldLeft(LAMBDA done, d :
             NextList(done, Declare(d, done.env, "variable", FALSE)),
           Step(env, "ok", << >>), IF b.node = "block" THEN b.decls ELSE << >>)

-----------------------------------------------------------------------------
(* Statements: the fields of a statement that hold expressions (exprs),    *)
(* references that are assigned to (ref) and statements (body).            *)
IsStatement(s) == s.node \in {"while", "for", "assign", "if", "call", "return"}

Exprs(es, env) == [i \in DOMAIN es |-> CheckExpr(es[i], env)]

(* A node that is no statement is an expression the grammar allows in the  *)
(* first and third part of for.                                            *)
NotStatement(e) == [res |-> "not a statement"] @@ e

Assigned(s, ref, exprs) ==
  [ref |-> ref, exprs |-> exprs, res |-> Then(ref.res, All(exprs))] @@ s
Looped(s, init, exprs, step, body) ==
  [init |-> init, exprs |-> exprs, step |-> step, body |-> body,
   res |-> Then(Then(All(init), All(exprs)), Then(All(step), All(body)))] @@ s
Guarded(s, exprs, body) ==
  [exprs |-> exprs, body |-> body, res |-> Then(All(exprs), All(body))] @@ s

(* process_block: the scope is the one the code generation reopens.  *)
Filled(b, locals, stmts) ==
  [locals |-> locals.ids, scope |-> locals.env, stmts |-> stmts,
   res |-> Then(locals.res, All(stmts))] @@ b

(* The statements in s, by the field that holds them.  *)
Inner(s) ==
  CASE s.node = "block" -> s.stmts
    [] s.node = "for" -> s.init \o s.step \o s.body
    [] s.node \in {"while", "if", "return"} -> s.body
    [] OTHER -> << >>
Part(seq, i, n) == SubSeq(seq, i + 1, i + n)

(* The statement after those inside it (inner).  *)
Processed(s, env, locals, inner) ==
  CASE s.node = "nul" -> [res |-> "ok"] @@ s
    [] s.node = "block" -> Filled(s, locals, IF Failed(locals.res) THEN << >> ELSE inner)
    [] s.node = "call" -> CheckTree(s, env)
    [] s.node = "assign" -> Assigned(s, CheckTree(s.ref, env), Exprs(s.exprs, env))
    [] s.node = "for" ->
         Looped(s, Part(inner, 0, Len(s.init)), Exprs(s.exprs, env),
                Part(inner, Len(s.init), Len(s.step)),
                Part(inner, Len(s.init) + Len(s.step), Len(s.body)))
    [] s.node \in {"while", "if", "return"} -> Guarded(s, Exprs(s.exprs, env), inner)
    [] ~ IsStatement(s) /\ s.node \notin {"nul", "block"} -> NotStatement(s)

(* process_statement; locals is what the declarations of a block leave.  *)
RECURSIVE ProcessStatement(_, _, _)
ProcessStatement(s, env, locals) ==
  Processed(s, env, locals,
    [i \in DOMAIN Inner(s) |->
       ProcessStatement(Inner(s)[i], IF s.node = "block" THEN locals.env ELSE env,
         DeclareLocals(Inner(s)[i], OpenScope(IF s.node = "block" THEN locals.env ELSE env)))])

(* The body of a function, in the scope that has the parameters.  *)
ProcessBlock(b, env) == ProcessStatement(b, env, DeclareLocals(b, env))

(* decl_function: the parameters' types are read before the function is    *)
(* inserted, a size that is wrong leaves array_size NULL and               *)
(* array_dimension as malloc returned it (junk).                           *)
ParamType(p, size, junk) ==
  IF size.res = "ok" THEN Type(p.base, size.sizes)
  ELSE [base |-> p.base, dims |-> junk, sized |-> FALSE]

InsertParams(env, params, types) ==
  FoldLeftDomain(LAMBDA done, i :
      IF params[i].name \in done.env.here THEN [done EXCEPT !.res = "error"]
      ELSE [done EXCEPT !.env = Insert(@, params[i].name, Symbol("variable", types[i]))],
    [env |-> env, res |-> "ok"], params)

FunctionDone(d, env, sizes, inside, body) ==
  CASE d.name \in env.here -> [env |-> env, res |-> "error", body |-> d.body]
    [] Failed(sizes.res) -> [env |-> env, res |-> sizes.res, body |-> d.body]
    [] OTHER -> [env |-> sizes.env, body |-> body,
                 res |-> Then(sizes.res, Then(inside.res, body.res))]

FunctionBody(d, env, sizes, inside) ==
  FunctionDone(d, env, sizes, inside, ProcessBlock(d.body, inside.env))

(* The function's own name is in the global scope before its body.  *)
FunctionInserted(d, env, types, res) ==
  FunctionBody(d, env, [res |-> res, env |-> Insert(env, d.name, Func(d.type, types))],
    InsertParams(OpenScope(Insert(env, d.name, Func(d.type, types))), d.params, types))

Parameters(d, env, sizes, junk) ==
  FunctionInserted(d, env, [i \in DOMAIN d.params |-> ParamType(d.params[i], sizes[i], junk)],
                   All(sizes))

DeclareFunction(d, env, junk) ==
  Parameters(d, env, [i \in DOMAIN d.params |-> GetArraySize(d.params[i].dims)], junk)
=============================================================================
