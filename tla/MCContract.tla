----------------------------- MODULE MCContract -----------------------------
(* Programs for the contract between the two passes: of three families,    *)
(* with declarations, statements and initialisers of every kind.           *)
EXTENDS Contract

I(n) == [node |-> "const", kind |-> "int", v |-> n]
F(n, k) == [node |-> "const", kind |-> "float", v |-> <<n, k>>]
S == [node |-> "const", kind |-> "string", v |-> 0]
Ref(x, subs) == [node |-> "id", name |-> x, subs |-> subs]
V(x) == Ref(x, << >>)
B(op, l, r) == [node |-> "bin", op |-> op, l |-> l, r |-> r]
U(op, l) == [node |-> "un", op |-> op, l |-> l]
C(f, args) == [node |-> "call", name |-> f, args |-> args]

Id(x, form, dims, init) == [name |-> x, form |-> form, dims |-> dims, init |-> init]
Plain(x) == Id(x, "plain", << >>, NoNode)
Arr(x, dims) == Id(x, "array", dims, NoNode)
WithInit(x, e) == Id(x, "init", << >>, e)
Vars(type, ids) == [node |-> "vars", type |-> type, ids |-> ids]
Typedef(type, ids) == [node |-> "typedef", type |-> type, ids |-> ids]
Par(base, x, dims) == [base |-> base, name |-> x, dims |-> dims]
Fun(type, f, params, body) ==
  [node |-> "function", type |-> type, name |-> f, params |-> params, body |-> body]

Block(decls, stmts) == [node |-> "block", decls |-> decls, stmts |-> stmts]
Stmt(node, exprs, body) == [node |-> node, exprs |-> exprs, body |-> body]
Set(ref, e) == [node |-> "assign", ref |-> ref, exprs |-> <<e>>]
For(init, exprs, step, body) ==
  [node |-> "for", init |-> init, exprs |-> exprs, step |-> step, body |-> <<body>>]
Do(e) == Set(V("i"), e)
Empty == Block(<< >>, << >>)

-----------------------------------------------------------------------------
(* Sequences of up to three declarations that the grammar allows: types    *)
(* that are arrays, arrays of arrays, void types, sizes of every kind,     *)
(* names declared twice, names of the wrong kind, functions.               *)
OneDim(n) == <<I(n)>>
Minus(m, n) == B("-", I(m), I(n))
Decls ==
  {Typedef("int", <<Plain("a")>>), Typedef("float", <<Arr("a", OneDim(2)), Plain("b")>>),
   Typedef("void", <<Plain("a")>>), Typedef("void", <<Arr("b", OneDim(2))>>),
   Typedef("int", <<Arr("b", <<I(3), Minus(3, 1)>>)>>), Typedef("int", <<Arr("a", <<Minus(0, 2)>>)>>),
   Typedef("float", <<Plain("b"), Plain("b")>>), Typedef("int", <<Arr("c", <<S>>), Plain("b")>>),
   Vars("int", <<Plain("a"), WithInit("b", F(5, 2))>>), Vars("int", <<Plain("b"), Plain("b")>>),
   Vars("a", <<Plain("b")>>), Vars("a", <<Arr("c", OneDim(2))>>), Vars("b", <<Plain("c")>>),
   Vars("b", <<Arr("c", <<I(2), I(3)>>)>>), Vars("read", <<Plain("c")>>),
   Vars("float", <<Arr("c", OneDim(0))>>), Vars("float", <<Arr("c", <<I(1), F(1, 1)>>)>>),
   Vars("int", <<Arr("b", <<B("/", I(1), I(0))>>)>>),
   Vars("int", <<Arr("b", <<B("/", F(1, 1), F(0, 1))>>)>>),
   Vars("int", <<Arr("b", <<B("/", B("-", Minus(0, 7), I(1)), Minus(0, 1))>>)>>),
   Vars("int", <<WithInit("c", V("a"))>>), Vars("int", <<WithInit("c", C("read", << >>))>>),
   Fun("int", "a", <<Par("int", "x", <<NoNode, I(2)>>), Par("float", "y", << >>)>>, Empty),
   Fun("void", "b", <<Par("int", "x", <<NoNode, I(0)>>), Par("int", "y", << >>)>>,
       Block(<< >>, <<Set(Ref("x", <<I(1)>>), V("y")), Set(V("y"), V("x"))>>)),
   Fun("float", "c", <<Par("int", "x", << >>), Par("int", "x", << >>)>>, Empty),
   Fun("int", "c", << >>, Block(<<Vars("a", <<Plain("x"), Arr("y", OneDim(2))>>)>>,
                                <<Stmt("return", <<V("x")>>, << >>)>>))}

-----------------------------------------------------------------------------
(* One statement after declarations of every kind of symbol.               *)
Prelude ==
  <<Typedef("int", <<Plain("t"), Arr("row", OneDim(2))>>),
    Vars("int", <<Plain("i"), Arr("v", OneDim(3))>>),
    Vars("row", <<Arr("m", OneDim(3))>>), Vars("float", <<Plain("r")>>),
    Fun("float", "g", <<Par("int", "p", << >>)>>, Empty),
    Fun("void", "h", <<Par("float", "q", <<NoNode>>), Par("int", "p", << >>)>>, Empty)>>

Atoms == {I(1), F(3, 2), S, V("i"), V("r"), V("v"), V("t"), V("g"), V("u"),
          C("read", << >>), C("u", << >>), C("write", <<I(1)>>)}
Names2 == {"i", "v", "m", "t", "u"}
Subs2 == {<<a>> : a \in Atoms} \cup {<<a, b>> : a, b \in {I(1), F(3, 2), V("v"), C("u", << >>)}}
Refs == {Ref(x, s) : x \in Names2, s \in Subs2}
Ops == {"+", "<", "&&"}
Binary == {B(op, l, r) : op \in Ops, l, r \in Atoms}
Unary == {U(op, l) : op \in {"neg", "not"}, l \in Atoms}
Passed == Atoms \cup {Ref("m", <<I(1)>>), Ref("m", <<F(3, 2)>>), Ref("m", <<C("u", << >>)>>),
                      Ref("m", <<I(1), V("i")>>), Ref("v", <<I(1)>>), V("m"),
                      B("+", V("v"), I(1)), B("+", V("i"), V("r"))}
Calls == {C("g", <<a>>) : a \in Passed} \cup {C("h", <<a, b>>) : a, b \in Passed} \cup
         {C("write", <<a>>) : a \in Passed} \cup {C("write", <<I(1), I(2)>>), C("h", <<V("v")>>)}
Nested == {B("+", a, c) : a \in {I(1), V("v"), F(3, 2)}, c \in {C("g", <<x>>) : x \in Passed}} \cup
          {Ref("v", <<e>>) : e \in {B("+", a, b) : a, b \in Atoms} \cup {C("g", <<a>>) : a \in Atoms}} \cup
          {C("write", <<e>>) : e \in Unary}

Bodies == {Do(e) : e \in Atoms \cup Refs \cup Binary \cup Unary \cup Nested \cup {c \in Calls : c.name # "h"}}
          \cup Calls \cup {Set(r, I(1)) : r \in Refs \cup {V(x) : x \in Names2}}
Conds == {V("i"), V("v"), C("h", <<V("v"), I(1)>>), F(1, 1)}
Clauses == {<< >>, <<Do(I(1))>>, <<C("read", << >>)>>, <<V("i")>>, <<Do(V("v")), Do(S)>>}
Simple1 == {NoNode, Do(V("v")), Do(V("x")), Stmt("return", << >>, << >>)}
Control ==
  {Stmt("while", <<c>>, <<s>>) : c \in Conds, s \in Simple1} \cup
  {Stmt("if", <<c>>, <<s, z>>) : c \in Conds, s, z \in Simple1} \cup
  {Stmt("return", <<c>>, << >>) : c \in Conds} \cup
  {For(a, <<c>>, b, s) : a, b \in Clauses, c \in {V("i"), V("t")}, s \in Simple1} \cup
  {Block(<<Vars(ty, <<Plain("x"), WithInit("y", e)>>)>>, <<s>>) :
     ty \in {"int"}, e \in {V("x"), V("y"), V("v"), F(3, 2)}, s \in Simple1} \cup
  {Block(<<Vars(ty, <<Plain("x")>>), Vars("int", <<id>>)>>, <<Do(V("x"))>>) :
     ty \in {"row", "t", "u", "g", "i"}, id \in {Plain("x"), Plain("z"), Arr("z", OneDim(2)), Arr("z", OneDim(0))}} \cup
  {Block(<<Typedef("int", <<Plain("x")>>)>>, <<Do(V("x"))>>),
   Block(<<Typedef("int", <<Plain("x")>>), Vars("x", <<Plain("y")>>)>>, << >>)}
Main(s) == Fun("int", "main", <<Par("int", "z", << >>)>>, Block(<< >>, <<s, NoNode>>))

-----------------------------------------------------------------------------
(* Global initialisers, two operators deep.  Division by 0.0, whose value  *)
(* is no fraction, and unary + of a float are left out.                    *)
Numbers == {I(0), I(1), I(7), F(0, 1), F(1, 2), F(5, 2)}
AllOps == {"+", "-", "*", "/", "==", "!=", ">=", "<=", ">", "<", "&&", "||"}
Simple == {B(op, l, r) : op \in AllOps, l, r \in Numbers} \cup
          {U(op, n) : op \in {"neg", "not"}, n \in Numbers} \cup {U("pos", I(7))}

RECURSIVE FloatByZero(_)
FloatByZero(e) ==
  CASE e.node = "bin" ->
         \/ FloatByZero(e.l) \/ FloatByZero(e.r)
         \/ e.op = "/" /\ StaticType(e) = "float" /\ ~ Nonzero(RunConst(e.r))
    [] e.node = "un" -> FloatByZero(e.l)
    [] OTHER -> FALSE

Initialisers ==
  {S, V("b"), C("read", << >>), B("+", I(1), V("b")), U("neg", S)} \cup
  {e \in Numbers \cup Simple \cup {U(op, x) : op \in {"neg", "not"}, x \in Simple} \cup
         {B(op, x, n) : op \in {"/", "&&", "||"}, x \in Simple, n \in {I(0), F(5, 2)}} \cup
         {B(op, n, x) : op \in {"-", "/", "&&"}, x \in Simple, n \in {I(0), F(1, 2)}} \cup
         {B("/", B("-", U("neg", I(7)), I(1)), x) : x \in {U("neg", I(1)), I(1)}} :
     ~ FloatByZero(e)}

(* What malloc may leave in array_dimension.  *)
MCJunks == {<< >>, <<1>>}

MCPrograms ==
  UNION {[1 .. n -> Decls] : n \in 1 .. 3}
  \cup {Append(Prelude, Main(s)) : s \in Bodies \cup Control}
  \cup {<<Vars(type, <<WithInit("a", e)>>)>> : type \in {"int", "float"}, e \in Initialisers}
=============================================================================
