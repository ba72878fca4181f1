------------------------------- MODULE Syntax -------------------------------
(***************************************************************************)
(* Syntax trees of C-- as the semantic analysis leaves them: every         *)
(* expression has its type.  Values of floats are the bits of Machine.tla. *)
(***************************************************************************)
EXTENDS Integers, Sequences

Const(type, v) == [k |-> "const", type |-> type, v |-> v]
Id(x, type, index, dims) ==
  [k |-> "id", name |-> x, type |-> type, index |-> index, dims |-> dims]
Scalar(x, type) == Id(x, type, << >>, << >>)

(* check_relop_expr: an arithmetic operator is int if both operands are.   *)
BinaryType(op, l, r) ==
  IF op \in {"+", "-", "*"} /\ (l.type = "float" \/ r.type = "float")
  THEN "float" ELSE "int"
UnaryType(op, e) == IF op = "not" THEN "int" ELSE e.type

Bin(op, l, r) ==
  [k |-> "bin", op |-> op, l |-> l, r |-> r, type |-> BinaryType(op, l, r)]
Un(op, e) == [k |-> "un", op |-> op, l |-> e, type |-> UnaryType(op, e)]
Call(f, type, params, args) ==
  [k |-> "call", name |-> f, type |-> type, params |-> params, args |-> args]

Nul == [k |-> "nul"]
Set(id, e) == [k |-> "assign", id |-> id, value |-> e]
Do1(call) == [k |-> "call", call |-> call]
If(cond, then, else) == [k |-> "if", cond |-> cond, then |-> then, else |-> else]
While(cond, body) == [k |-> "while", cond |-> cond, body |-> body]
For(init, conds, step, body) ==
  [k |-> "for", init |-> init, conds |-> conds, step |-> step, body |-> body]
Return(type, e) == [k |-> "return", type |-> type, value |-> e]
Local(x, type, dims, init) ==
  [name |-> x, type |-> type, dims |-> dims, init |-> init]
Block(decls, stmts) == [k |-> "block", decls |-> decls, stmts |-> stmts]

Param(x, type, dims, of) == [name |-> x, type |-> type, dims |-> dims, of |-> of]
Global(a, dims) == [seg |-> "global", a |-> a, dims |-> dims]
Function(type, args, globals, body) ==
  [type |-> type, args |-> args, globals |-> globals, body |-> body]

-----------------------------------------------------------------------------
(* The trees in a tree: all expressions and all statements of a function.  *)
Elements(s) == {s[i] : i \in DOMAIN s}

Below(e) ==
  CASE e.k = "const" -> {}
    [] e.k = "id"    -> Elements(e.index)
    [] e.k = "bin"   -> {e.l, e.r}
    [] e.k = "un"    -> {e.l}
    [] e.k = "call"  -> Elements(e.args)

Exprs(s) ==
  CASE s.k = "nul"   -> {}
    [] s.k = "block" -> UNION {Elements(s.decls[i].init) : i \in DOMAIN s.decls}
    [] s.k \in {"while", "if"} -> {s.cond}
    [] s.k = "for"    -> Elements(s.conds)
    [] s.k = "assign" -> {s.id, s.value}
    [] s.k = "call"   -> {s.call}
    [] s.k = "return" -> {s.value}

Inner(s) ==
  CASE s.k = "block" -> Elements(s.stmts)
    [] s.k = "while" -> {s.body}
    [] s.k = "for"   -> Elements(s.init) \cup Elements(s.step) \cup {s.body}
    [] s.k = "if"    -> {s.then, s.else}
    [] OTHER         -> {}

RECURSIVE ExprTrees(_)
ExprTrees(e) == {e} \cup UNION {ExprTrees(x) : x \in Below(e)}

RECURSIVE StmtTrees(_)
StmtTrees(s) == {s} \cup UNION {StmtTrees(x) : x \in Inner(s)}

Statements(programs) == UNION {StmtTrees(p.f.body) : p \in programs}
Expressions(programs) ==
  UNION {ExprTrees(e) : e \in UNION {Exprs(s) : s \in Statements(programs)}}
=============================================================================
