--------------------------- MODULE MCExpressions ----------------------------
(* Assignments of expressions to a global, on a pool of three registers,   *)
(* the fewest that lock_max = 3 allows: every tree of depth two or more    *)
(* spills.                                                                 *)
EXTENDS Meaning, Syntax

MCTmp == 1 .. 30
MCFrames == {0}
MCDepths == {4 * d : d \in -60 .. 30}

MCGlobals == [g |-> Global(-160, << >>), h |-> Global(-164, << >>),
              x |-> Global(-168, << >>), y |-> Global(-172, << >>),
              a |-> Global(-200, <<2, 2>>)]
MCInit == [g |-> [i \in {0} |-> 9], h |-> [i \in {0} |-> 9],
           x |-> [i \in {0} |-> 5], y |-> [i \in {0} |-> FloatBits(3)],
           a |-> [i \in 0 .. 3 |-> 10 + i]]

x == Scalar("x", "int")
y == Scalar("y", "float")
f0 == Call("f", "int", << >>, << >>)
One == Const("int", 1)
Half == Const("float", FloatBits(2))
Element(i, j) == Id("a", "int", <<i, j>>, <<2, 2>>)
f2(e1, e2) == Call("f", "int", <<"int", "float">>, <<e1, e2>>)
g3(e1, e2, e3) == Call("g", "float", <<"int", "int", "float">>, <<e1, e2, e3>>)

Ops == {"-", "<"}

(* ((a o b) o c) o d, a o (b o (c o d)), (a o b) o (c o d) *)
Trees ==
  LET L == {x, y}
      M == {f0, Half}
  IN UNION {
       {Bin(o[1], Bin(o[2], Bin(o[3], a, b), c), d),
        Bin(o[1], a, Bin(o[2], b, Bin(o[3], c, d))),
        Bin(o[1], Bin(o[2], a, b), Bin(o[3], c, d))} :
       o \in {<<"-", "-", "-">>, <<"-", "<", "-">>, <<"<", "-", "-">>},
       a \in {x, f0}, b \in {y, One}, c \in {f0, Half}, d \in {x, y}}

(* Array elements, calls with more arguments than registers, unary         *)
(* operators, all under operators that hold temporaries.                   *)
Nested ==
  LET sub(e) == Bin("-", x, Bin("-", One, Bin("-", f0, e))) IN
  UNION {{sub(e), Bin("<", e, e), Un("neg", e), Un("not", e)} :
    e \in {Element(One, Bin("<", x, One)),
           Element(Bin("-", x, Const("int", 4)), One),
           f2(Bin("-", x, One), Bin("-", y, One)),
           g3(sub(x), f2(f0, Half), Element(One, One)),
           g3(y, sub(f2(x, One)), x),
           Un("neg", Bin("-", y, x)),
           Un("not", y), Un("pos", x)}}

Assigning(id, e) ==
  [f |-> Function("int", << >>, MCGlobals,
                  Block(<< >>, <<Set(id, e)>>)),
   init |-> MCInit]

MCPrograms ==
  {Assigning(Scalar("g", "int"), e) : e \in Trees \cup Nested}
    \cup {Assigning(Scalar("h", "float"), e) : e \in Nested}
    \cup {Assigning(Element(One, Bin("<", One, f0)), e) : e \in Nested}

MCExpr == Expressions(MCPrograms)
MCStmt == Statements(MCPrograms)
=============================================================================
