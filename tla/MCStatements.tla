---------------------------- MODULE MCStatements ----------------------------
(* Functions with parameters in registers and on the stack, locals in      *)
(* nested blocks, loops, branches and returns, on a pool of three          *)
(* registers.                                                              *)
EXTENDS Meaning, Syntax

MCTmp == 1 .. 30
MCFrames == {4 * k : k \in 0 .. 8}
MCDepths == {4 * d : d \in -60 .. 40}

Lit(v) == Const("int", v)
iv(x) == Scalar(x, "int")
fv(x) == Scalar(x, "float")
Minus(e, f) == Bin("-", e, f)
Plus(e, f) == Bin("+", e, f)
Less(e, f) == Bin("<", e, f)
Deep(e) == Plus(e, Minus(Lit(9), Minus(Lit(5), Minus(Lit(3), Lit(1)))))
SetInt(x, e) == Set(iv(x), e)
IntL(x, e) == Local(x, "int", << >>, e)
Stmts(ss) == Block(<< >>, ss)
Bump(x) == SetInt(x, Plus(iv(x), Lit(1)))

MCGlobals == [g |-> Global(-160, << >>), h |-> Global(-164, << >>),
              a |-> Global(-200, <<2, 2>>)]

(* int f(int n, float s, int m): m is on the stack. *)
Args3 == <<Param("n", "int", << >>, ""), Param("s", "float", << >>, ""),
           Param("m", "int", << >>, "")>>
(* int f(int p[][2], int n) *)
ArgsP == <<Param("p", "int", <<2, 2>>, "a"), Param("n", "int", << >>, "")>>
P(i, j) == Id("p", "int", <<i, j>>, <<2, 2>>)
Loc(i) == Id("l", "int", <<i>>, <<3>>)
k1(x) == Call("k", "int", <<"int">>, <<x>>)
q3(x, y, z) == Call("q", "float", <<"int", "float", "int">>, <<x, y, z>>)
Out(type, e) == Do1(Call("write", "void", <<type>>, <<e>>))

(* A loop that multiplies, with a local in its body. *)
Power ==
  Block(<<IntL("r", <<Lit(1)>>)>>,
    <<While(Less(Lit(0), Deep(Minus(iv("n"), Lit(6)))),
            Block(<<IntL("t", << >>)>>,
                  <<SetInt("t", Bin("*", iv("r"), iv("m"))),
                    SetInt("r", iv("t")), SetInt("n", Minus(iv("n"), Lit(1)))>>)),
      Return("int", iv("r"))>>)

(* Returns from nested blocks, with locals that hide others. *)
Leave ==
  Block(<<IntL("r", <<iv("n")>>), Local("l", "int", <<3>>, << >>)>>,
    <<Set(Loc(Lit(1)), Lit(3)), Set(Loc(Lit(2)), Lit(7)),
      If(Less(iv("n"), Lit(2)),
         Block(<<IntL("n", <<Lit(4)>>), IntL("u", <<Plus(iv("n"), iv("r"))>>)>>,
               <<If(Less(iv("r"), Lit(1)), Return("int", fv("s")),
                    Block(<<IntL("r", <<Loc(Lit(2))>>)>>,
                          <<SetInt("g", iv("r")),
                            Return("int", Deep(iv("u")))>>)),
                 Bump("g")>>),
         Stmts(<<SetInt("m", Loc(Lit(2))), Set(fv("s"), iv("m"))>>)),
      Return("int", Plus(iv("m"), fv("s")))>>)

(* Nested for loops: several assignments, several conditions, arrays.  *)
Fill ==
  Block(<<IntL("i", << >>), IntL("j", << >>), IntL("c", <<Lit(0)>>)>>,
    <<For(<<SetInt("i", Lit(0)), SetInt("c", Deep(iv("n")))>>,
          <<iv("c"), Less(iv("i"), Lit(2))>>, <<Bump("i")>>,
          For(<<SetInt("j", Lit(0))>>, <<Less(iv("j"), Lit(2))>>,
              <<Bump("j"), Bump("c")>>,
              Stmts(<<Set(P(iv("i"), iv("j")),
                          Plus(P(iv("j"), iv("i")), iv("c")))>>))),
      Return("int", iv("c"))>>)

(* Calls: a float result, arguments on the stack, arrays passed on.  *)
Calls ==
  Block(<<Local("l", "int", <<3>>, << >>), Local("v", "float", << >>, << >>)>>,
    <<Set(Loc(Lit(1)), iv("n")),
      Set(fv("v"), Deep(q3(iv("n"), fv("s"), Plus(iv("m"), Lit(1))))),
      Do1(Call("t", "int", <<"array", "int", "array">>,
               <<Id("l", "int", <<Lit(1)>>, <<3>>), iv("m"),
                 Id("l", "int", <<Lit(1)>>, <<3>>)>>)),
      Out("float", fv("v")), Out("int", Deep(iv("n"))),
      Out("string", Const("string", Junk)),
      Set(fv("h"), fv("v")),
      Return("int", fv("v"))>>)

PassOn ==
  Stmts(<<Do1(Call("t", "int", <<"array", "int", "array">>,
                   <<Id("p", "int", << >>, <<2, 2>>), iv("n"), P(Lit(1), Lit(0))>>)),
          SetInt("g", P(iv("n"), Lit(1))),
          Return("int", iv("g"))>>)

(* No parameters: ints returned by calls.  *)
Reads ==
  Stmts(<<SetInt("g", Call("read", "int", << >>, << >>)),
          While(Less(iv("g"), Lit(9)),
                SetInt("g", Plus(iv("g"), k1(Deep(k1(Lit(2))))))),
          If(iv("g"), Out("int", iv("g")), Nul),
          If(Less(iv("g"), Lit(0)), Bump("g"), Nul)>>)

Word1(v) == [i \in {0} |-> v]
Base == [g |-> Word1(1), h |-> Word1(FloatBits(1)), a |-> [i \in 0 .. 3 |-> 10 + i]]
Init3(n, m) ==
  [x \in DOMAIN Base \cup {"n", "s", "m"} |->
     IF x \in DOMAIN Base THEN Base[x]
     ELSE Word1(CASE x = "n" -> n [] x = "s" -> FloatBits(6) [] x = "m" -> m)]
InitP(n) ==
  [x \in DOMAIN Base \cup {"n", "p"} |->
     IF x \in DOMAIN Base THEN Base[x] ELSE Word1(IF x = "n" THEN n ELSE -200)]

MCPrograms ==
  {[f |-> Function(type, Args3, MCGlobals, body), init |-> Init3(n, m)] :
     type \in {"int"}, body \in {Power, Leave, Calls},
     n \in 0 .. 3, m \in {2, 5}}
  \cup {[f |-> Function("int", ArgsP, MCGlobals, body), init |-> InitP(n)] :
     body \in {Fill, PassOn}, n \in 0 .. 1}
  \cup {[f |-> Function("int", << >>, MCGlobals, Reads), init |-> Base]}

MCExpr == Expressions(MCPrograms)
MCStmt == Statements(MCPrograms)
=============================================================================
