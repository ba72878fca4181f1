------------------------------ MODULE StmtGen -------------------------------
(***************************************************************************)
(* The code of statements, blocks and functions: generate_statement,       *)
(* generate_block and generate_function of code-generation.c, as scripts   *)
(* (see ExprGen.tla).                                                      *)
(*                                                                         *)
(* A statement is a record with its kind k and its parts.  Statements get  *)
(* current_offset by value: off is the value a handler starts with.  d is  *)
(* the nesting depth; temporaries and label variables of a statement are   *)
(* numbered from it.                                                       *)
(***************************************************************************)
EXTENDS ExprGen

(* The call of generate_statement.  *)
GenStmt(s, off, env, d) ==
  <<[do |-> "stmt", s |-> s, off |-> off, env |-> env, d |-> d]>>

(* The handler's own current_offset is off.  *)
Offset(off) == Do("offset", off)

GenStmts(stmts, off, env, d) ==
  FlattenSeq([i \in DOMAIN stmts |-> GenStmt(stmts[i], off, env, d)])

(* MUTANT of Test: no branch *)
Test_Never(t, label) == Do("lock", t) \o Do("unlock", t)

(* The test of a condition in t: cbz.  (For a float the code prints "b.e", *)
(* which no assembler accepts; conditions are ints here.)                  *)
Test(t, label) == Locked(<<t>>, BranchIf("z", <<T(t)>>, label))

GenWhile(s, off, env, d) ==
  LET cmp == <<"cmp", d>>
      exit == <<"exit while", d>>
  IN Do("label", cmp) \o Do("label", exit)
       \o Do("alloc", d)
       \o Label(cmp)
       \o Gen(s.cond, d, d + 1, env)
       \o Test(d, exit)
       \o Do("free", d)
       \o GenStmt(s.body, off, env, d + 1)
       \o BranchIf("always", << >>, cmp)
       \o Label(exit)

(* The result of the last condition counts.  The temporary is allocated    *)
(* before the assignments of the first part.                               *)
GenFor(s, off, env, d) ==
  LET cmp == <<"cmp", d>>
      exit == <<"exit while", d>>
  IN Do("label", cmp) \o Do("label", exit)
       \o Do("alloc", d)
       \o GenStmts(s.init, off, env, d + 1)
       \o Offset(off)
       \o Label(cmp)
       \o FlattenSeq([i \in DOMAIN s.conds |-> Gen(s.conds[i], d, d + 1, env)])
       \o Test(d, exit)
       \o Do("free", d)
       \o GenStmt(s.body, off, env, d + 1)
       \o GenStmts(s.step, off, env, d + 1)
       \o BranchIf("always", << >>, cmp)
       \o Label(exit)

GenIf(s, off, env, d) ==
  LET cross == <<"cross if", d>>
      exit == <<"exit if", d>>
  IN Do("label", cross)
       \o Do("alloc", d)
       \o Gen(s.cond, d, d + 1, env)
       \o Test(d, cross)
       \o Do("free", d)
       \o GenStmt(s.then, off, env, d + 1)
       \o IF s.else.k = "nul" THEN Label(cross)
          ELSE Do("label", exit)
                 \o BranchIf("always", << >>, exit)
                 \o Label(cross)
                 \o GenStmt(s.else, off, env, d + 1)
                 \o Label(exit)

(* MUTANT of GenReturn: the locals of the enclosing blocks are not popped *)
GenReturn_NoUnwind(s, env, d) ==
  Do("alloc", d)
    \o GenConverted(s.value, env.type, d, d + 1, env)
    \o Locked(<<d>>, Compute("mov", R(IF env.type = "float" THEN S(0) ELSE X(0)),
                             <<T(d)>>))
    \o Do("free", d)
    \o BranchIf("always", << >>, <<"LR", 0>>)

(* return: the result into x0 or s0, and the locals of every enclosing     *)
(* block off the stack.                                                    *)
GenReturn(s, env, d) ==
  Do("alloc", d)
    \o GenConverted(s.value, env.type, d, d + 1, env)
    \o Locked(<<d>>, Compute("mov", R(IF env.type = "float" THEN S(0) ELSE X(0)),
                             <<T(d)>>))
    \o Do("free", d)
    \o Do("unwind", 0)
    \o BranchIf("always", << >>, <<"LR", 0>>)

-----------------------------------------------------------------------------
(* Blocks.  A declaration is [name, dims, type, init], init << >> or <<e>>. *)
(* MUTANT of SizeOf: an array gets one word *)
SizeOf_Word(decl) == 4

(* Bytes of a local variable. *)
SizeOf(decl) ==
  LET words[k \in 0 .. Len(decl.dims)] ==
        IF k = 0 THEN 1 ELSE words[k - 1] * decl.dims[k]
  IN words[Len(decl.dims)] * 4

(* generate_local_variable: the addresses of the locals of a block.  *)
AddressOf(decls, i, off) ==
  LET depth[k \in 0 .. i] ==
        IF k = 0 THEN off ELSE depth[k - 1] + SizeOf(decls[k])
  IN depth[i]

Locals(decls, off, env) ==
  [env EXCEPT !.loc =
     [x \in DOMAIN @ \cup {decls[i].name : i \in DOMAIN decls} |->
        IF \E i \in DOMAIN decls : decls[i].name = x
        THEN LET i == CHOOSE i \in DOMAIN decls : decls[i].name = x
             IN [seg |-> "local", a |-> AddressOf(decls, i, off),
                 dims |-> decls[i].dims]
        ELSE @[x]]]

(* init_local_variable *)
InitLocal(decl, off, env, d) ==
  IF decl.init = << >> THEN << >>
  ELSE Offset(off)
         \o GenAssign([name |-> decl.name, type |-> decl.type, index |-> << >>],
                      decl.init[1], d, env)

GenBlock(s, off, env, d) ==
  LET inner == AddressOf(s.decls, Len(s.decls), off)
      local == Locals(s.decls, off, env)
      diff == inner - off
      move(n) == IF diff > 0 THEN AddSp(n) ELSE << >>
  IN move(diff)
       \o FlattenSeq([i \in DOMAIN s.decls |->
                        InitLocal(s.decls[i], inner, local, d)])
       \o GenStmts(s.stmts, inner, local, d + 1)
       \o move(- diff)

(* generate_statement: what the call GenStmt(s, off, env, d) does.  *)
Statement(s, off, env, d) ==
  Offset(off) \o
  CASE s.k = "nul"    -> << >>
    [] s.k = "block"  -> GenBlock(s, off, env, d)
    [] s.k = "while"  -> GenWhile(s, off, env, d)
    [] s.k = "for"    -> GenFor(s, off, env, d)
    [] s.k = "if"     -> GenIf(s, off, env, d)
    [] s.k = "assign" -> GenAssign(s.id, s.value, d, env)
    [] s.k = "call"   -> CallFunction(s.call, d, env)
    [] s.k = "return" -> GenReturn(s, env, d)

(* generate_function: the body, behind the prologue that makes the frame   *)
(* pointer the stack pointer, and the label of the epilogue.  Only the     *)
(* scope of the parameters is open, which is that of the body.             *)
GenFunction(f) ==
  LET arg(x) == CHOOSE i \in DOMAIN f.args : f.args[i].name = x
      env == [type |-> f.type, params |-> Len(f.args),
              loc |-> [x \in DOMAIN f.globals \cup {f.args[i].name : i \in DOMAIN f.args} |->
                         IF \E i \in DOMAIN f.args : f.args[i].name = x
                         THEN [seg |-> "arg", a |-> arg(x) - 1,
                               dims |-> f.args[arg(x)].dims]
                         ELSE f.globals[x]]]
  IN GenBlock(f.body, 0, env, 1) \o Label(<<"LR", 0>>)
=============================================================================
