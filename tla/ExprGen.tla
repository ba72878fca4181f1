------------------------------ MODULE ExprGen -------------------------------
(***************************************************************************)
(* The code of expressions, assignments and calls: generate_expression and *)
(* the functions under it in code-generation.c.                            *)
(*                                                                         *)
(* An expression is translated to a script: what these functions do, in    *)
(* order, that is their calls to the register pool of RegPool.tla, the     *)
(* instructions they print and the calls of generate_expression itself,    *)
(* for the expressions in it.  Compiler.tla carries scripts out.           *)
(*                                                                         *)
(* In a script a temporary has a number, and an operand is <<"t", number>> *)
(* for the name that lock returned, or <<"r", register>>.  An expression   *)
(* is a record: its kind k, the type the semantic analysis gave it, and    *)
(* its parts.  env holds the locations of the variables in scope, and the  *)
(* number of parameters and the type of the function being compiled.       *)
(***************************************************************************)
EXTENDS Machine, SequencesExt

(* Pieces of scripts. *)
Do(what, t) == <<[do |-> what, t |-> t]>>
Emit(f, op, d, s, a) ==
  <<[do |-> "emit", i |-> [f |-> f, op |-> op, d |-> d, s |-> s, a |-> a]]>>

T(t) == <<"t", t>>
R(r) == <<"r", r>>
None == R(0)

Compute(op, d, s) == Emit("alu", op, d, s, 0)
BranchIf(cond, s, label) == Emit("b", cond, None, s, label)
Label(label) == Emit("label", "", None, << >>, label)
AddSp(n) == Emit("sp", "", None, << >>, n)

(* MUTANT of Locked: the first temporary stays locked *)
Locked_Leak(ts, body) ==
  FlattenSeq([k \in DOMAIN ts |-> Do("lock", ts[k])])
    \o body
    \o FlattenSeq([k \in DOMAIN ts |-> IF k = 1 THEN << >> ELSE Do("unlock", ts[k])])

(* lock every temporary of ts, print, unlock them.  *)
Locked(ts, body) ==
  FlattenSeq([k \in DOMAIN ts |-> Do("lock", ts[k])])
    \o body
    \o FlattenSeq([k \in DOMAIN ts |-> Do("unlock", ts[k])])

(* The call of generate_expression: the value of e into the temporary t;   *)
(* numbers from n on are free.                                             *)
Gen(e, t, n, env) == <<[do |-> "gen", e |-> e, t |-> t, n |-> n, env |-> env]>>

-----------------------------------------------------------------------------
(* Variables.  A location is [seg, a, dims]: the segment, the address (a   *)
(* depth), or the number of the argument, and the sizes of an array.       *)

(* calc_arg_offset, as a depth *)
ArgSlot(num) == - (16 + (num - ArgRegs) * 8)

(* calc_array_offset: the byte offset of an element, into t.  *)
OffsetOf(index, dims, t, n, env) ==
  LET scale(k) == Emit("imm", "", T(n + 1), << >>, dims[k])
                    \o Compute("*", T(t), <<T(t), T(n + 1)>>)
      step(k) ==
        IF k <= Len(index)
        THEN Gen(index[k], n, n + 2, env)
               \o Locked(<<n, t, n + 1>>,
                         scale(k) \o Compute("+", T(t), <<T(t), T(n)>>))
        ELSE Locked(<<t, n + 1>>, scale(k))
  IN Gen(index[1], t, n, env)
       \o Do("alloc", n) \o Do("alloc", n + 1)
       \o FlattenSeq([k \in 1 .. Len(dims) - 1 |-> step(k + 1)])
       \o Do("free", n) \o Do("free", n + 1)
       \o Locked(<<t>>, Compute("lsl2", T(t), <<T(t)>>))

(* The operands of a load or store of the variable at loc.  *)
Place(f, loc, reg, off) ==
  IF loc.seg # "arg" THEN Emit(f, "depth", reg, off, loc.a)
  ELSE IF loc.a >= ArgRegs
       THEN Emit(f, IF off = << >> THEN "depth" ELSE "slot", reg, off,
                  ArgSlot(loc.a))
  ELSE IF off # << >> THEN Emit(f, "xreg", reg, off, loc.a)
  ELSE IF f = "str" THEN Compute("mov", R(X(loc.a)), <<reg>>)
  ELSE Compute("mov", reg, <<R(X(loc.a))>>)

(* MUTANT of Access: the offset is freed before it is unlocked *)
Access_FreeLocked(f, id, t, n, env) ==
  LET loc == env.loc[id.name] IN
  IF id.index = << >>
  THEN Locked(<<t>>, Place(f, loc, T(t), << >>))
  ELSE Do("alloc", n)
         \o OffsetOf(id.index, loc.dims, n, n + 1, env)
         \o Locked(<<t, n>>, Place(f, loc, T(t), <<T(n)>>) \o Do("free", n))

Access(f, id, t, n, env) ==
  LET loc == env.loc[id.name] IN
  IF id.index = << >>
  THEN Locked(<<t>>, Place(f, loc, T(t), << >>))
  ELSE Do("alloc", n)
         \o OffsetOf(id.index, loc.dims, n, n + 1, env)
         \o Locked(<<t, n>>, Place(f, loc, T(t), <<T(n)>>))
         \o Do("free", n)

LoadVariable(id, t, n, env) == Access("ldr", id, t, n, env)
StoreVariable(id, t, n, env) == Access("str", id, t, n, env)

-----------------------------------------------------------------------------
(* Calls.  *)
InRegs(n) == IF n >= ArgRegs THEN ArgRegs ELSE n

(* ccmmc_register_save_arguments and ccmmc_register_load_arguments *)
SaveArguments(n) ==
  FlattenSeq([i \in 1 .. InRegs(n) |->
                Emit("str", "sp", R(X(i - 1)), << >>, i * 8)])
    \o AddSp(InRegs(n) * 8)
LoadArguments(n) ==
  AddSp(- (InRegs(n) * 8))
    \o FlattenSeq([i \in 1 .. InRegs(n) |->
                     Emit("ldr", "sp", R(X(i - 1)), << >>, i * 8)])

(* A float for an int, or an int for a float, through s16.  *)
Convert(from, to, t) ==
  IF from = "float" /\ to = "int"
  THEN Compute("mov", R(S(16)), <<T(t)>>) \o Compute("fcvtas", T(t), <<R(S(16))>>)
  ELSE IF from = "int" /\ to = "float"
  THEN Compute("scvtf", R(S(16)), <<T(t)>>) \o Compute("mov", T(t), <<R(S(16))>>)
  ELSE << >>

Before(env) == SaveArguments(env.params) \o Do("save", 0)
After(env) == Do("load", 0) \o LoadArguments(env.params)
Bl(e, args) == Emit("bl", [name |-> e.name, type |-> e.type], None, << >>, args)

(* call_write: the argument is computed, saved and freed before bl.  *)
CallWrite(e, n, env) ==
  IF e.args[1].type = "string"
  THEN Before(env) \o Do("label", <<"str", n>>)
         \o Emit("data", Junk, None, << >>, <<"str", n>>)
         \o Emit("imm", "", R(X(0)), << >>, Junk)
         \o Bl(e, <<"int">>) \o After(env)
  ELSE LET float == e.args[1].type = "float" IN
       Do("alloc", n)
         \o Gen(e.args[1], n, n + 1, env)
         \o Before(env)
         \o Locked(<<n>>, Compute("mov", R(IF float THEN S(0) ELSE X(0)), <<T(n)>>))
         \o Do("free", n)
         \o Bl(e, <<IF float THEN "s0" ELSE "int">>) \o After(env)

(* The address of an array argument, into x9 and from there into place.   *)
PassArray(e, i, t, env) ==
  LET arg == e.args[i]
      loc == env.loc[arg.name]
      off == IF arg.index = << >> THEN << >> ELSE <<T(t)>>
      address(op, a) == Emit("address", op, R(X9), off, a)
  IN (IF loc.seg = "local" THEN address("depth", loc.a)
      ELSE IF loc.seg = "global" THEN address("depth", 0)
      ELSE IF loc.a < ArgRegs THEN address("xreg", loc.a)
      ELSE address("slot", ArgSlot(loc.a)))
       \o IF i <= ArgRegs THEN Compute("mov", R(X(i - 1)), <<R(X9)>>)
          ELSE Emit("str", "sp", R(X9), << >>, - ((i - 1 - ArgRegs) * 8))

PassScalar(e, i, t) ==
  Convert(e.args[i].type, e.params[i], t)
    \o IF i <= ArgRegs THEN Compute("mov", R(X(i - 1)), <<T(t)>>)
       ELSE Emit("str", "sp", T(t), << >>, - ((i - 1 - ArgRegs) * 8))

(* call_function *)
CallFunction(e, n, env) ==
  LET k == Len(e.args)
      dist(i) == n + i - 1
      all(op(_)) == FlattenSeq([i \in 1 .. k |-> op(i)])
      alloc(i) == Do("alloc", dist(i))
      evaluate(i) ==
        IF e.params[i] # "array" THEN Gen(e.args[i], dist(i), n + k, env)
        ELSE IF e.args[i].index = << >> THEN << >>
        ELSE OffsetOf(e.args[i].index, env.loc[e.args[i].name].dims,
                      dist(i), n + k, env)
      pass(i) == Locked(<<dist(i)>>,
                        IF e.params[i] = "array" THEN PassArray(e, i, dist(i), env)
                        ELSE PassScalar(e, i, dist(i)))
      free(i) == Do("free", dist(i))
      onStack == (k - InRegs(k)) * 8
  IN IF e.name = "write" THEN CallWrite(e, n, env)
     ELSE all(alloc) \o all(evaluate)
            \o Before(env) \o AddSp(onStack) \o all(pass)
            \o Bl(e, e.params)
            \o AddSp(- onStack) \o After(env) \o all(free)

-----------------------------------------------------------------------------
(* Expressions.  *)
IsFloat(e) == e.type = "float"

GenConst(e, t, n) ==
  IF IsFloat(e)
  THEN Locked(<<t>>,
              Do("label", <<"const", n>>)
                \o Emit("literal", "", T(t), << >>, <<"const", n>>)
                \o Emit("data", e.v, None, << >>, <<"const", n>>))
  ELSE Locked(<<t>>, Emit("imm", "", T(t), << >>, e.v))

GenCall(e, t, n, env) ==
  CallFunction(e, n, env)
    \o Locked(<<t>>, Compute("mov", T(t), <<R(IF IsFloat(e) THEN S(0) ELSE X(0))>>))

(* MUTANT of ShortWhen: the two operators exchanged *)
ShortWhen_Swapped(op) == IF op = "||" THEN "z" ELSE "nz"

(* The value of an operand that decides: zero (cbz) for &&, nonzero for || *)
ShortWhen(op) == IF op = "&&" THEN "z" ELSE "nz"

(* The branch around the right operand of && or ||.  *)
ShortCircuit(e, a) ==
  IF e.op \notin {"&&", "||"} THEN << >>
  ELSE Do("label", <<"short", a>>)
         \o Locked(<<a>>,
              IF IsFloat(e.l)
              THEN Compute("mov", R(S(17)), <<T(a)>>)
                     \o BranchIf("f" \o ShortWhen(e.op), <<R(S(17))>>, <<"short", a>>)
              ELSE BranchIf(ShortWhen(e.op), <<T(a)>>, <<"short", a>>))

(* MUTANT of ToFloat: an int is moved, not converted *)
ToFloat_Bits(e, t, s) == Locked(<<t>>, Compute("mov", R(s), <<T(t)>>))

(* scvtf or fmov of an operand, if either is a float.  *)
ToFloat(e, t, s) ==
  Locked(<<t>>, Compute(IF IsFloat(e) THEN "mov" ELSE "scvtf", R(s), <<T(t)>>))

(* The switch over op_binary: result t, operands a and b.  *)
Operate(e, t, a, b) ==
  LET float == IsFloat(e.l) \/ IsFloat(e.r)
      s == IF float THEN <<R(S(17)), R(S(18))>> ELSE <<T(a), T(b)>>
  IN IF e.op \in {"&&", "||"}
     THEN Do("label", <<"exit", a>>)
            \o (IF IsFloat(e.r)
                THEN BranchIf("f" \o ShortWhen(e.op), <<R(S(18))>>, <<"short", a>>)
                ELSE BranchIf(ShortWhen(e.op), <<T(b)>>, <<"short", a>>))
            \o Emit("imm", "", T(t), << >>, Truth(e.op = "&&"))
            \o BranchIf("always", << >>, <<"exit", a>>)
            \o Label(<<"short", a>>)
            \o Emit("imm", "", T(t), << >>, Truth(e.op = "||"))
            \o Label(<<"exit", a>>)
     ELSE Compute(IF float THEN "f" \o e.op ELSE e.op,
                  IF IsFloat(e) THEN R(S(16)) ELSE T(t), s)

FromFloat(e, t) ==
  IF IsFloat(e) THEN Locked(<<t>>, Compute("mov", T(t), <<R(S(16))>>)) ELSE << >>

GenBinary(e, t, n, env) ==
  LET a == n
      b == n + 1
  IN Gen(e.l, t, n, env)
       \o Do("alloc", a) \o Locked(<<t, a>>, Compute("mov", T(a), <<T(t)>>))
       \o ShortCircuit(e, a)
       \o Gen(e.r, t, n + 1, env)
       \o Do("alloc", b) \o Locked(<<t, b>>, Compute("mov", T(b), <<T(t)>>))
       \o (IF IsFloat(e.l) \/ IsFloat(e.r)
           THEN ToFloat(e.l, a, S(17)) \o ToFloat(e.r, b, S(18))
           ELSE << >>)
       \o Locked(<<t, a, b>>, Operate(e, t, a, b))
       \o Do("free", a) \o Do("free", b)
       \o FromFloat(e, t)

GenUnary(e, t, n, env) ==
  LET float == IsFloat(e.l)
      s == IF float THEN R(S(17)) ELSE T(n)
  IN Gen(e.l, t, n, env)
       \o Do("alloc", n) \o Locked(<<t, n>>, Compute("mov", T(n), <<T(t)>>))
       \o (IF float THEN Locked(<<n>>, Compute("mov", R(S(17)), <<T(n)>>)) ELSE << >>)
       \o Locked(<<t, n>>,
            CASE e.op = "pos" -> << >>
              [] e.op = "neg" -> IF float THEN Compute("fneg", R(S(16)), <<s>>)
                                 ELSE Compute("neg", T(t), <<s>>)
              [] e.op = "not" -> Compute(IF float THEN "fnot" ELSE "not", T(t), <<s>>))
       \o Do("free", n)
       \o FromFloat(e, t)

(* generate_expression: what the call Gen(e, t, n, env) does.  *)
Expression(e, t, n, env) ==
  CASE e.k = "const" -> GenConst(e, t, n)
    [] e.k = "call"  -> GenCall(e, t, n, env)
    [] e.k = "id"    -> LoadVariable(e, t, n, env)
    [] e.k = "bin"   -> GenBinary(e, t, n, env)
    [] e.k = "un"    -> GenUnary(e, t, n, env)

(* calc_expression_result *)
GenConverted(e, type, t, n, env) ==
  Gen(e, t, n, env) \o Locked(<<t>>, Convert(e.type, type, t))

(* calc_and_save_expression_result *)
GenAssign(id, e, n, env) ==
  Do("alloc", n)
    \o GenConverted(e, id.type, n, n + 1, env)
    \o StoreVariable(id, n, n + 1, env)
    \o Do("free", n)
=============================================================================
