------------------------------ MODULE Language ------------------------------
(***************************************************************************)
(* Which C-- programs are legal, as rules about a program and not as a     *)
(* walk over it: the yardstick the check is held against in Contract.tla.  *)
(* The rules are those the error messages of semantic-analysis.c name.     *)
(* V is what is visible: a function from names to symbols.                 *)
(***************************************************************************)
EXTENDS TypeCheck

IsA(V, x, kind) == x \in DOMAIN V /\ V[x].kind = kind
Array(V, x) == IsA(V, x, "variable") /\ V[x].type.dims # << >>

(* Of an array parameter the language asks for part of an array, and the   *)
(* check lets any expression through that is not a name; type is that of   *)
(* the argument as an expression, subs are the types of its subscripts.    *)
Suits(arg, p, V, type, subs) ==
  IF p.dims = << >> \/ arg.node # "id" THEN type \in {"int", "float"}
  ELSE Array(V, arg.name) /\ Len(subs) < Len(V[arg.name].type.dims) /\ Range(subs) \subseteq {"int"}

Result(S, type) == IF S \subseteq {"int", "float"} THEN type ELSE "illegal"
Wider(S) == IF "float" \in S THEN "float" ELSE "int"

(* The types of all operands, subscripts or arguments, then that of e.     *)
Operands(e) ==
  CASE e.node = "bin" -> <<e.l, e.r>>
    [] e.node = "un" -> <<e.l>>
    [] e.node = "id" -> e.subs
    [] e.node = "call" -> e.args
    [] OTHER -> << >>

(* subs[i]: the types of the subscripts of the i-th argument *)
TypeFrom(e, V, types, subs) ==
  CASE e.node = "const" -> IF e.kind = "string" THEN "illegal" ELSE e.kind
    [] e.node = "id" ->
         IF /\ IsA(V, e.name, "variable")
            /\ Len(e.subs) = Len(V[e.name].type.dims)
            /\ Range(types) \subseteq {"int"}
         THEN V[e.name].type.base ELSE "illegal"
    [] e.node \in {"un", "bin"} ->
         Result(Range(types),
                IF e.op \in Arith \cup {"neg", "pos"} THEN Wider(Range(types)) ELSE "int")
    [] e.node = "call" ->
         IF /\ IsA(V, e.name, "function")
            /\ Len(e.args) = Len(V[e.name].params)
            /\ \A i \in DOMAIN e.args :
                 \/ e.name = "write" /\ IsString(e.args[i])
                 \/ Suits(e.args[i], V[e.name].params[i], V, types[i], subs[i])
         THEN V[e.name].type.base ELSE "illegal"

RECURSIVE TypeOf(_, _)
TypeOf(e, V) ==
  TypeFrom(e, V, [i \in DOMAIN Operands(e) |-> TypeOf(Operands(e)[i], V)],
    [i \in DOMAIN Operands(e) |->
       [k \in DOMAIN SubsOf(Operands(e)[i]) |-> TypeOf(SubsOf(Operands(e)[i])[k], V)]])

Legal(e, V) == TypeOf(e, V) \in {"int", "float"}

-----------------------------------------------------------------------------
(* Constants.  *)
RECURSIVE Constant(_)
Constant(e) ==
  CASE e.node = "const" -> e.kind # "string"
    [] e.node = "bin" -> Constant(e.l) /\ Constant(e.r)
    [] e.node = "un" -> Constant(e.l)
    [] OTHER -> FALSE

LegalConstant(e) == Constant(e) /\ ~ DividesByZero(e)
LegalSize(e) ==
  e = NoNode \/ (LegalConstant(e) /\ StaticType(e) = "int" /\ RunConst(e).v > 0)
SizesOf(dims) == [i \in DOMAIN dims |-> IF dims[i] = NoNode THEN 0 ELSE RunConst(dims[i]).v]

-----------------------------------------------------------------------------
(* Declarations.  Every id of a list is legal on its own; a list may not   *)
(* name anything twice.                                                    *)
Names(ids) == {ids[i].name : i \in DOMAIN ids}
Distinct(ids) == \A i, j \in DOMAIN ids : ids[i].name = ids[j].name => i = j

LegalList(d, V, here) ==
  /\ IsA(V, d.type, "type")
  /\ Distinct(d.ids)
  /\ Names(d.ids) \cap here = {}
  /\ d.node = "typedef" \/ V[d.type].type.base # "void"
  /\ \A i \in DOMAIN d.ids :
       /\ \A k \in DOMAIN d.ids[i].dims : LegalSize(d.ids[i].dims[k])
       /\ d.ids[i].form = "array" => V[d.type].type.base # "void"

(* The extents of a declared name: its own, then those of its type.        *)
Declared(d, V) ==
  [x \in Names(d.ids) |->
     LET id == CHOOSE id \in Range(d.ids) : id.name = x IN
     Symbol(IF d.node = "typedef" THEN "type" ELSE "variable",
            Type(V[d.type].type.base, SizesOf(id.dims) \o V[d.type].type.dims))]

(* A local initialiser sees the names declared before it.  In a block, a   *)
(* typedef declares variables.                                             *)
Locals(b) == [i \in DOMAIN b.decls |-> [b.decls[i] EXCEPT !.node = "vars"]]
Before(locals, V) ==
  LET before[i \in 1 .. Len(locals) + 1] ==
        IF i = 1 THEN V ELSE Declared(locals[i - 1], before[i - 1]) @@ before[i - 1]
  IN before
UpTo(d, k) == [d EXCEPT !.ids = SubSeq(@, 1, k)]

LegalLocals(locals, before, here) ==
  \A i \in DOMAIN locals :
    /\ LegalList(locals[i], before[i], here \cup UNION {Names(locals[j].ids) : j \in 1 .. i - 1})
    /\ \A k \in DOMAIN locals[i].ids :
         locals[i].ids[k].form = "init" =>
           Legal(locals[i].ids[k].init, Declared(UpTo(locals[i], k - 1), before[i]) @@ before[i])

Inside(s, V) == IF s.node = "block" THEN Before(Locals(s), V)[Len(s.decls) + 1] ELSE V

(* here: the names that the scope of a block has from the start.  *)
LegalAlone(s, V, here) ==
  CASE s.node = "nul" -> TRUE
    [] s.node = "block" -> LegalLocals(Locals(s), Before(Locals(s), V), here)
    [] s.node = "call" -> TypeOf(s, V) # "illegal"
    [] s.node = "assign" -> Legal(s.ref, V) /\ Legal(s.exprs[1], V)
    [] s.node \in {"while", "if", "return", "for"} ->
         \A i \in DOMAIN s.exprs : Legal(s.exprs[i], V)
    [] OTHER -> Legal(s, V)

RECURSIVE LegalStatement(_, _, _)
LegalStatement(s, V, here) ==
  /\ LegalAlone(s, V, here)
  /\ \A i \in DOMAIN Inner(s) :
       LegalStatement(Inner(s)[i], Inside(s, V), {"int", "float", "void"})

-----------------------------------------------------------------------------
(* A program: a sequence of typedefs, variables and functions.  *)
ParamSymbols(d) ==
  [i \in DOMAIN d.params |-> Type(d.params[i].base, SizesOf(d.params[i].dims))]
Named(d, V) ==
  IF d.node = "function"
  THEN d.name :> Func(d.type, ParamSymbols(d)) ELSE Declared(d, V)

LegalFunction(d, V) ==
  /\ d.name \notin DOMAIN V
  /\ Distinct(d.params)
  /\ \A i \in DOMAIN d.params : \A k \in DOMAIN d.params[i].dims :
       LegalSize(d.params[i].dims[k])
  /\ LegalStatement(d.body,
       [x \in Names(d.params) |->
          Symbol("variable", ParamSymbols(d)[CHOOSE i \in DOMAIN d.params : d.params[i].name = x])]
       @@ Named(d, V) @@ V, Names(d.params) \cup {"int", "float", "void"})

LegalGlobal(d, V) ==
  IF d.node = "function" THEN LegalFunction(d, V)
  ELSE /\ LegalList(d, V, DOMAIN V)
       /\ \A i \in DOMAIN d.ids : d.ids[i].form = "init" => LegalConstant(d.ids[i].init)

(* What is visible after the first i declarations, which must be legal.    *)
Visible(program) ==
  LET after[i \in 0 .. Len(program)] ==
        IF i = 0 THEN Builtin.sym ELSE Named(program[i], after[i - 1]) @@ after[i - 1]
  IN after

LegalProgram(program) ==
  LET legal[i \in 0 .. Len(program)] ==
        i = 0 \/ (legal[i - 1] /\ LegalGlobal(program[i], Visible(program)[i - 1]))
  IN legal[Len(program)]
=============================================================================
