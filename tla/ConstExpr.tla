----------------------------- MODULE ConstExpr ------------------------------
(***************************************************************************)
(* Constant expressions: eval_const_expr (semantic-analysis.c 18-205), the *)
(* conversion of a global initialiser (707-749) and what the same          *)
(* expression yields when the generated code computes it.                  *)
(*                                                                         *)
(* An expression is a tree of records with a field node.  Ints have Width  *)
(* bits.  A float is a fraction <<numerator, denominator>>, the latter not *)
(* negative; rounding to 24 bits is left out, and a denominator of 0       *)
(* stands for what division by 0.0 yields, of which only the kind is used. *)
(***************************************************************************)
EXTENDS Integers, Sequences

CONSTANTS
  Width,   \* bits of an int
  Host     \* the machine the compiler runs on: "x86" or "arm"

ASSUME ConstAssumption ==
  /\ Width \in Nat /\ Width >= 2
  /\ Host \in {"x86", "arm"}

IntMin == -(2^(Width - 1))
IntMax == 2^(Width - 1) - 1
Wrap(n) == ((n - IntMin) % 2^Width) + IntMin

Num(kind, v) == [kind |-> kind, v |-> v]
Int_(n) == Num("int", n)
Error == Num("error", 0)
Trap == Num("trap", 0)    \* the compiler is killed by the processor

-----------------------------------------------------------------------------
(* C arithmetic.  *)
Fraction(n, d) == IF d < 0 THEN <<-n, -d>> ELSE <<n, d>>
Float(x) == IF x.kind = "int" THEN <<x.v, 1>> ELSE x.v

Truncate(f) == IF f[1] >= 0 THEN f[1] \div f[2] ELSE -((-f[1]) \div f[2])
Nearest(f) ==  \* ties away from zero
  IF f[1] >= 0 THEN (2 * f[1] + f[2]) \div (2 * f[2])
  ELSE -((f[2] - 2 * f[1]) \div (2 * f[2]))
Fits(n) == IntMin <= n /\ n <= IntMax

(* Signed overflow is undefined in C; what the build does is wrap, except  *)
(* that a division that overflows traps on x86.                            *)
Divide(a, b) ==
  IF a = IntMin /\ b = -1
  THEN IF Host = "x86" THEN Trap ELSE Int_(IntMin)
  ELSE Int_(Truncate(Fraction(a, b)))

IntArith(op, a, b) ==
  CASE op = "+" -> Int_(Wrap(a + b))
    [] op = "-" -> Int_(Wrap(a - b))
    [] op = "*" -> Int_(Wrap(a * b))
    [] op = "/" -> Divide(a, b)

FloatArith(op, f, g) ==
  CASE op = "+" -> Fraction(f[1] * g[2] + g[1] * f[2], f[2] * g[2])
    [] op = "-" -> Fraction(f[1] * g[2] - g[1] * f[2], f[2] * g[2])
    [] op = "*" -> Fraction(f[1] * g[1], f[2] * g[2])
    [] op = "/" -> Fraction(f[1] * g[2], f[2] * g[1])

Nonzero(x) == Float(x)[1] # 0

(* Comparisons and the logical operators, on ints or after conversion.     *)
Related(op, x, y) ==
  LET a == Float(x)[1] * Float(y)[2]
      b == Float(y)[1] * Float(x)[2]
  IN CASE op = "==" -> a = b
       [] op = "!=" -> a # b
       [] op = ">=" -> a >= b
       [] op = "<=" -> a <= b
       [] op = ">"  -> a > b
       [] op = "<"  -> a < b
       [] op = "&&" -> Nonzero(x) /\ Nonzero(y)
       [] op = "||" -> Nonzero(x) \/ Nonzero(y)

Truth(b) == Int_(IF b THEN 1 ELSE 0)
Arith == {"+", "-", "*", "/"}

-----------------------------------------------------------------------------
(* eval_const_expr: both operands of every operator are evaluated.         *)

EvalBinary(op, x, y) ==
  CASE x.kind = "trap" \/ y.kind = "trap" -> Trap
    [] x.kind = "error" \/ y.kind = "error" -> Error
    [] op = "/" /\ x.kind = "int" /\ y.kind = "int" /\ y.v = 0 -> Error
    [] op \notin Arith -> Truth(Related(op, x, y))
    [] x.kind = "int" /\ y.kind = "int" -> IntArith(op, x.v, y.v)
    [] OTHER -> Num("float", FloatArith(op, Float(x), Float(y)))

EvalUnary(op, x) ==
  CASE x.kind \in {"error", "trap"} -> x
    [] op = "not" -> Truth(~ Nonzero(x))
    [] op = "pos" -> x
    [] x.kind = "int" -> Int_(Wrap(-x.v))
    [] OTHER -> Num("float", <<-x.v[1], x.v[2]>>)

RECURSIVE EvalConst(_)
EvalConst(e) ==
  CASE e.node = "const" -> IF e.kind = "string" THEN Error ELSE Num(e.kind, e.v)
    [] e.node = "bin" -> EvalBinary(e.op, EvalConst(e.l), EvalConst(e.r))
    [] e.node = "un" -> EvalUnary(e.op, EvalConst(e.l))
    [] OTHER -> Error  \* not a constant expression

(* A float that no int can hold: undefined in C, cvttss2si and fcvtzs.     *)
ToInt(f) ==
  CASE Fits(Truncate(f)) -> Truncate(f)
    [] Host = "x86" -> IntMin
    [] f[1] < 0 -> IntMin
    [] OTHER -> IntMax

(* decl_variable: the folded value becomes one of the declared type.       *)
(* MUTANT of ConvertInit: a float stays as it is *)
ConvertInit_KeepFloat(type, x) ==
  IF x.kind = "int" /\ type = "float" THEN Num("float", <<x.v, 1>>) ELSE x

ConvertInit(type, x) ==
  CASE x.kind = "int" /\ type = "float" -> Num("float", <<x.v, 1>>)
    [] x.kind = "float" /\ type = "int" -> Int_(ToInt(x.v))
    [] OTHER -> x

-----------------------------------------------------------------------------
(* What the generated code computes for the same expression as a local     *)
(* initialiser: types come from check_relop_expr, && and || skip their     *)
(* right operand, sdiv by 0 gives 0 and never traps, fcvtas rounds.        *)
RECURSIVE StaticType(_)
StaticType(e) ==
  CASE e.node = "const" -> e.kind
    [] e.node = "bin" -> IF e.op \in Arith /\ "float" \in {StaticType(e.l), StaticType(e.r)}
                         THEN "float" ELSE "int"
    [] e.node = "un" -> IF e.op = "not" THEN "int" ELSE StaticType(e.l)

RunArith(op, x, y) ==
  IF op # "/" THEN IntArith(op, x, y)
  ELSE IF y = 0 THEN Int_(0) ELSE Int_(Wrap(Truncate(Fraction(x, y))))

RunBinary(type, op, x, y) ==
  CASE op = "&&" -> IF Nonzero(x) THEN Truth(Nonzero(y)) ELSE Int_(0)
    [] op = "||" -> IF Nonzero(x) THEN Int_(1) ELSE Truth(Nonzero(y))
    [] op \notin Arith -> Truth(Related(op, x, y))
    [] type = "int" -> RunArith(op, x.v, y.v)
    [] OTHER -> Num("float", FloatArith(op, Float(x), Float(y)))

RECURSIVE RunConst(_)
RunConst(e) ==
  CASE e.node = "const" -> Num(e.kind, e.v)
    [] e.node = "bin" -> RunBinary(StaticType(e), e.op, RunConst(e.l), RunConst(e.r))
    [] e.node = "un" -> EvalUnary(e.op, RunConst(e.l))

Saturate(n) == IF n < IntMin THEN IntMin ELSE IF n > IntMax THEN IntMax ELSE n

(* calc_expression_result: the result is converted to the declared type.   *)
RunInit(type, e) ==
  LET x == RunConst(e) IN
  CASE StaticType(e) = "int" /\ type = "float" -> Num("float", Float(x))
    [] StaticType(e) = "float" /\ type = "int" -> Int_(Saturate(Nearest(x.v)))
    [] OTHER -> x

SameValue(x, y) == x.kind = y.kind /\ Related("==", x, y)

(* The conversions in which folding and generated code differ.             *)
Inexact(f) == f[1] % f[2] # 0 \/ ~ Fits(Truncate(f))

(* Whether a division of two ints by zero occurs, taken or not.            *)
RECURSIVE DividesByZero(_)
DividesByZero(e) ==
  CASE e.node = "bin" ->
         \/ DividesByZero(e.l) \/ DividesByZero(e.r)
         \/ e.op = "/" /\ StaticType(e) = "int" /\ RunConst(e.r) = Int_(0)
    [] e.node = "un" -> DividesByZero(e.l)
    [] OTHER -> FALSE
=============================================================================
