------------------------------ MODULE MCLogic -------------------------------
(* Assignments of logical expressions.  With six registers none of them    *)
(* spills; with three the right operand of && or || does.                  *)
EXTENDS Meaning, Syntax

CONSTANT Operands   \* "calls" or "plus": what MCPrograms is made of

MCTmp == 1 .. 30
MCFrames == {0}
MCDepths == {4 * d : d \in -60 .. 30}

MCGlobals == [g |-> Global(-160, << >>), h |-> Global(-164, << >>),
              x |-> Global(-168, << >>), y |-> Global(-172, << >>),
              z |-> Global(-176, << >>)]

(* x is an int, y a float, z a float that is zero. *)
MCInit == {[g |-> [i \in {0} |-> 9], h |-> [i \in {0} |-> 9],
            x |-> [i \in {0} |-> v], y |-> [i \in {0} |-> FloatBits(3)],
            z |-> [i \in {0} |-> FloatBits(0)]] : v \in {0, 5}}

x == Scalar("x", "int")
y == Scalar("y", "float")
z == Scalar("z", "float")
f0 == Call("f", "int", << >>, << >>)
r0 == Call("r", "float", << >>, << >>)
f1(e) == Call("f", "int", <<"int">>, <<e>>)
Not(e) == Un("not", e)
Logic == {"&&", "||"}

Conditions ==
  UNION {
    {Bin(o, a, b), Bin(o, a, Bin(p, b, c)), Bin(o, Bin(p, a, b), c),
     Not(Bin(o, a, Not(b))), f1(Bin(o, Not(a), c))} :
    o \in Logic, p \in Logic, a \in {x, y, z}, b \in {f0, r0}, c \in {f0, z, Not(r0)}}

Sums == {Un("pos", x), Un("pos", y), Bin("-", y, Un("pos", z))}

MCPrograms ==
  {[f |-> Function("int", << >>, MCGlobals,
                   Block(<< >>, <<Set(Scalar("g", "int"), e)>>)),
    init |-> i] :
   i \in MCInit, e \in IF Operands = "calls" THEN Conditions ELSE Sums}

MCExpr == Expressions(MCPrograms)
MCStmt == Statements(MCPrograms)

(* code-generation.c line 901 prints "nop" for a unary plus.  *)
UnaryPlusIsNop == MeansTheSame

(* register.c line 59, "gen code to alloc space on the stack": the code    *)
(* that allocates a slot runs before the code that frees it, so that the   *)
(* stack pointer ends where it was.                                        *)
SlotsAllocatedByCode == StackBalanced
=============================================================================
