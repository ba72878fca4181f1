------------------------------- MODULE Source -------------------------------
(***************************************************************************)
(* What a function written in C-- means, as an interpreter of its syntax   *)
(* tree: the specification that the generated code is compared with.       *)
(*                                                                         *)
(* The state of the interpreter is a record: v, the words of every         *)
(* variable in scope; calls, the calls made so far; done, whether return   *)
(* was executed; and ret, the value returned.  An array parameter is the   *)
(* array of the caller, alias[x].                                          *)
(***************************************************************************)
EXTENDS Machine

RECURSIVE Eval(_, _)

(* A value of one type where another is expected.  *)
As(to, from, w) ==
  IF from = "int" /\ to = "float" THEN FloatBits(w)
  ELSE IF from = "float" /\ to = "int" THEN FloatOf(w)
  ELSE w

Real(e, w) == As("float", e.type, w)
True(e, w) == IF e.type = "float" THEN FloatOf(w) # 0 ELSE w # 0

(* Values of es, from left to right: [w |-> their sequence, calls].  *)
RECURSIVE EvalAll(_, _)
EvalAll(es, m) ==
  IF es = << >> THEN [w |-> << >>, calls |-> m.calls]
  ELSE LET first == Eval(Head(es), m)
           rest == EvalAll(Tail(es), [m EXCEPT !.calls = first.calls])
       IN [w |-> <<first.w>> \o rest.w, calls |-> rest.calls]

(* The array of a name, and the index of an element in row-major order.  *)
Variable(x, m) == IF x \in DOMAIN m.alias THEN m.alias[x] ELSE x

Flat(index, dims) ==
  LET flat[k \in 1 .. Len(dims)] ==
        IF k = 1 THEN index[1]
        ELSE flat[k - 1] * dims[k] + (IF k <= Len(index) THEN index[k] ELSE 0)
  IN IF dims = << >> THEN 0 ELSE flat[Len(dims)]

Apply(e, l, r) ==
  IF e.l.type = "float" \/ e.r.type = "float"
  THEN Alu("f" \o e.op, <<Real(e.l, l), Real(e.r, r)>>)
  ELSE Alu(e.op, <<l, r>>)

EvalBinary(e, m) ==
  LET l == Eval(e.l, m)
      r == Eval(e.r, [m EXCEPT !.calls = l.calls])
  IN IF e.op = "&&" /\ ~ True(e.l, l.w) THEN [w |-> 0, calls |-> l.calls]
     ELSE IF e.op = "||" /\ True(e.l, l.w) THEN [w |-> 1, calls |-> l.calls]
     ELSE [w |-> IF e.op \in {"&&", "||"} THEN Truth(True(e.r, r.w))
                 ELSE Apply(e, l.w, r.w),
           calls |-> r.calls]

EvalUnary(e, m) ==
  LET l == Eval(e.l, m) IN
  [w |-> CASE e.op = "pos" -> l.w
           [] e.op = "neg" -> IF e.type = "float" THEN Alu("fneg", <<l.w>>)
                              ELSE Alu("neg", <<l.w>>)
           [] e.op = "not" -> Truth(~ True(e.l, l.w)),
   calls |-> l.calls]

(* A call: scalars are converted, an array stands for the element it       *)
(* points at.                                                              *)
EvalCall(e, m) ==
  LET index(k) == IF e.params[k] = "array" THEN e.args[k].index ELSE << >>
      scalar == [k \in DOMAIN e.args |->
                   IF e.params[k] = "array" THEN << >> ELSE <<e.args[k]>>]
      RECURSIVE Args(_, _)
      Args(k, c) ==
        IF k > Len(e.args) THEN [w |-> << >>, calls |-> c]
        ELSE LET at == [m EXCEPT !.calls = c]
                 got == IF e.params[k] = "array" THEN EvalAll(index(k), at)
                        ELSE EvalAll(scalar[k], at)
                 x == e.args[k]
                 word == IF e.params[k] # "array"
                         THEN As(e.params[k], x.type, got.w[1])
                         ELSE m.v[Variable(x.name, m)]
                                 [IF got.w = << >> THEN 0 ELSE Flat(got.w, x.dims)]
                 rest == Args(k + 1, got.calls)
             IN [w |-> <<word>> \o rest.w, calls |-> rest.calls]
      args == Args(1, m.calls)
      v == Answer(args.w, args.calls)
  IN [w |-> As(e.type, "int", v),
      calls |-> Append(args.calls, <<e.name, args.w>>)]

Eval(e, m) ==
  CASE e.k = "const" -> [w |-> e.v, calls |-> m.calls]
    [] e.k = "id" -> LET i == EvalAll(e.index, m) IN
                     [w |-> m.v[Variable(e.name, m)][Flat(i.w, e.dims)],
                      calls |-> i.calls]
    [] e.k = "bin" -> EvalBinary(e, m)
    [] e.k = "un" -> EvalUnary(e, m)
    [] e.k = "call" -> EvalCall(e, m)

-----------------------------------------------------------------------------
(* Statements.  *)
RECURSIVE Exec(_, _)
RECURSIVE ExecAll(_, _)
ExecAll(ss, m) ==
  IF ss = << >> \/ m.done THEN m ELSE ExecAll(Tail(ss), Exec(Head(ss), m))

Assign(id, e, m) ==
  LET value == Eval(e, m)
      i == EvalAll(id.index, [m EXCEPT !.calls = value.calls])
      x == Variable(id.name, m)
      f == Flat(i.w, id.dims)
  IN [m EXCEPT !.v = [@ EXCEPT ![x] =
                        [@ EXCEPT ![f] = As(id.type, e.type, value.w)]],
               !.calls = i.calls]

(* The body while the condition, the last one of conds, is true.  *)
RECURSIVE Loop(_, _, _)
Loop(conds, body, m) ==
  LET c == EvalAll(conds, m)
      after == [m EXCEPT !.calls = c.calls]
  IN IF m.done THEN m
     ELSE IF c.w[Len(c.w)] = 0 THEN after
     ELSE Loop(conds, body, ExecAll(body, after))

(* The locals of a block hide outer variables of the same name.  *)
Words(dims) ==
  LET n[k \in 0 .. Len(dims)] == IF k = 0 THEN 1 ELSE n[k - 1] * dims[k]
  IN n[Len(dims)]

Declare(decl, m) ==
  LET x == decl.name
      fresh == [m EXCEPT
        !.v = [y \in DOMAIN @ \cup {x} |->
                 IF y = x THEN [i \in 0 .. Words(decl.dims) - 1 |-> Junk] ELSE @[y]],
        !.alias = [y \in DOMAIN @ \ {x} |-> @[y]]]
  IN IF decl.init = << >> THEN fresh
     ELSE Assign([name |-> x, index |-> << >>, dims |-> << >>,
                  type |-> decl.type], decl.init[1], fresh)

RECURSIVE DeclareAll(_, _)
DeclareAll(ds, m) ==
  IF ds = << >> THEN m ELSE DeclareAll(Tail(ds), Declare(Head(ds), m))

ExecBlock(s, m) ==
  LET hidden == {s.decls[i].name : i \in DOMAIN s.decls}
      end == ExecAll(s.stmts, DeclareAll(s.decls, m))
  IN [end EXCEPT
        !.v = [x \in DOMAIN m.v |-> IF x \in hidden THEN m.v[x] ELSE @[x]],
        !.alias = m.alias]

Exec(s, m) ==
  CASE s.k = "nul"   -> m
    [] s.k = "block" -> ExecBlock(s, m)
    [] s.k = "while" -> Loop(<<s.cond>>, <<s.body>>, m)
    [] s.k = "for"   -> Loop(s.conds, <<s.body>> \o s.step, ExecAll(s.init, m))
    [] s.k = "if"    -> LET c == Eval(s.cond, m) IN
                        Exec(IF c.w # 0 THEN s.then ELSE s.else,
                             [m EXCEPT !.calls = c.calls])
    [] s.k = "assign" -> Assign(s.id, s.value, m)
    [] s.k = "call"   -> [m EXCEPT !.calls = EvalCall(s.call, m).calls]
    [] s.k = "return" -> LET e == Eval(s.value, m) IN
                         [m EXCEPT !.calls = e.calls, !.done = TRUE,
                                   !.ret = As(s.type, s.value.type, e.w)]
=============================================================================
