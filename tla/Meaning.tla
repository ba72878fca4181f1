------------------------------ MODULE Meaning -------------------------------
(***************************************************************************)
(* What the code generator is for: the program that it generates (see      *)
(* Compiler.tla) does what the function says (Source.tla).                 *)
(***************************************************************************)
EXTENDS Compiler, Source

(* What each function means, from the state it is entered in.  *)
Meanings ==
  [p \in Programs |->
     LET arrays == {k \in DOMAIN p.f.args : p.f.args[k].dims # << >>} IN
     Exec(p.f.body,
          [v |-> p.init,
           alias |-> [x \in {p.f.args[k].name : k \in arrays} |->
                        p.f.args[CHOOSE k \in arrays : p.f.args[k].name = x].of],
           calls |-> << >>, done |-> FALSE, ret |-> Junk])]

Agrees(meaning) ==
  /\ calls = meaning.calls
  /\ meaning.done =>
       rv[IF program.f.type = "float" THEN S(0) ELSE X(0)] = meaning.ret
  /\ \A x \in DOMAIN program.f.globals : \A i \in DOMAIN program.init[x] :
       mem[program.f.globals[x].a - 4 * i] = meaning.v[x][i]

(* code-generation.c as a whole: the program makes the calls the source    *)
(* makes, in the same order and with the same arguments, returns the same  *)
(* value and leaves the same values in the global variables, whatever is   *)
(* spilled, swapped, saved or skipped by a branch on the way.              *)
MeansTheSame == Finished => Agrees(Meanings[program])
=============================================================================
