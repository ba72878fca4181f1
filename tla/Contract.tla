------------------------------ MODULE Contract ------------------------------
(***************************************************************************)
(* The two passes over a program of typedefs, variables and functions: the *)
(* semantic check (ccmmc_semantic_check, TypeCheck.tla) and the assertions *)
(* that the code generation makes about the trees and symbols it is handed *)
(* (code-generation.c), which nothing but the check can have established.  *)
(*                                                                         *)
(* A behaviour is one run of the compiler on one of Programs.  Every step  *)
(* handles one global declaration.                                         *)
(***************************************************************************)
EXTENDS Language

CONSTANTS
  Programs,  \* the source texts, as trees
  Junks      \* what an uninitialised array_dimension may be: some extents

ASSUME ContractAssumption == Junks # {}

VARIABLES
  program,   \* the source text
  pos,       \* the global declaration at hand
  phase,     \* see TypeOK
  why,       \* the assertion that failed
  env,       \* the global scope
  anyError,
  checked,   \* the declarations as the check leaves them
  emitted    \* storage and directives, one record per variable

vars == <<program, pos, phase, why, env, anyError, checked, emitted>>

Init ==
  /\ program \in Programs
  /\ pos = 1
  /\ phase = "check"
  /\ why = NULL
  /\ env = Builtin
  /\ anyError = FALSE
  /\ checked = << >>
  /\ emitted = << >>

At(ph, node) == phase = ph /\ pos <= Len(program) /\ program[pos].node = node
d == program[pos]

-----------------------------------------------------------------------------
(* process_program: out is what comes of one declaration.  An assertion    *)
(* that fails kills the compiler.                                          *)
Check(out, left) ==
  /\ checked' = Append(checked, left @@ d)
  /\ env' = out.env
  /\ anyError' = (anyError \/ out.res # "ok")
  /\ IF Failed(out.res) THEN phase' = "aborted" /\ why' = out.res /\ UNCHANGED pos
     ELSE pos' = pos + 1 /\ UNCHANGED <<phase, why>>
  /\ UNCHANGED <<program, emitted>>

CheckList(out) == Check(out, [ids |-> out.ids])
CheckBody(out) == Check(out, [body |-> out.body])

CheckTypedef == At("check", "typedef") /\ CheckList(Declare(d, env, "type", TRUE))
CheckVariables == At("check", "vars") /\ CheckList(Declare(d, env, "variable", TRUE))
CheckFunction ==
  At("check", "function") /\ \E junk \in Junks : CheckBody(DeclareFunction(d, env, junk))

(* main: nothing is generated for a program with an error.  *)
EndCheck ==
  /\ phase = "check" /\ pos > Len(program)
  /\ IF anyError THEN phase' = "rejected" ELSE phase' = "generate"
  /\ pos' = 1
  /\ UNCHANGED <<program, why, env, anyError, checked, emitted>>

-----------------------------------------------------------------------------
(* What the code generation takes for granted: "ok", or the first of its   *)
(* assertions (or dereferences of NULL) that fails.  scope resolves names. *)
Taken(b, label) == IF b THEN "ok" ELSE label
AllOf(results) == FoldLeft(Then, "ok", results)

(* load_variable, store_variable, calc_array_offset: one subscript for     *)
(* each dimension, or fewer for an array that is passed on.  subs is what  *)
(* comes of generating the subscripts.                                     *)
GenRef(e, scope, subs) ==
  AllOf(<<Taken(Retrieve(scope, e.name) # NULL /\ Retrieve(scope, e.name).kind = "variable",
                "variable"),
          Taken(Len(e.subs) <= Len(scope.sym[e.name].type.dims), "array_size")>> \o subs \o
        [i \in DOMAIN e.subs |-> Taken(e.subs[i].type = "int", "subscript type")])

GenArg(arg, p, scope, subs, expr) ==
  IF p.dims = << >> THEN Then(Taken(Typed(arg), "argument type"), expr)
  ELSE IF arg.node = "id" THEN GenRef(arg, scope, subs) ELSE "array argument is no ID"

RECURSIVE GenExpr(_, _)
GenExpr(e, scope) ==
  CASE e.node = "const" -> Taken(Typed(e), "constant type")
    [] e.node = "call" /\ e.name = "write" ->
         IF e.args[1].type = "string" THEN "ok"
         ELSE Then(Taken(Typed(e.args[1]), "write"), GenExpr(e.args[1], scope))
    [] e.node = "call" /\ e.name # "write" ->
         AllOf([i \in DOMAIN e.args |->
           GenArg(e.args[i], scope.sym[e.name].params[i], scope,
                  [k \in DOMAIN SubsOf(e.args[i]) |-> GenExpr(e.args[i].subs[k], scope)],
                  GenExpr(e.args[i], scope))])
    [] e.node = "id" -> Then(Taken(Len(e.subs) = Len(scope.sym[e.name].type.dims), "scalar"),
                             GenRef(e, scope, [i \in DOMAIN e.subs |-> GenExpr(e.subs[i], scope)]))
    [] e.node = "un" -> Then(Taken(Typed(e.l), "operand type"), GenExpr(e.l, scope))
    [] e.node = "bin" -> AllOf(<<Taken(Typed(e.l) /\ Typed(e.r), "operand type"),
                                 GenExpr(e.l, scope), GenExpr(e.r, scope)>>)

(* calc_expression_result *)
GenValue(e, scope) == Then(Taken(Typed(e), "expression type"), GenExpr(e, scope))
GenValues(es, scope) == AllOf([i \in DOMAIN es |-> GenValue(es[i], scope)])

(* init_local_variable *)
Inits(b) == FlattenSeq([i \in DOMAIN b.locals |->
              SelectSeq(b.locals[i], LAMBDA id : id.form = "init")])

GenHere(s, scope) ==
  CASE s.node = "nul" -> "ok"
    [] s.node = "block" -> GenValues([i \in DOMAIN Inits(s) |-> Inits(s)[i].init], s.scope)
    [] s.node = "call" -> GenExpr(s, scope)
    [] s.node = "assign" -> GenValues(s.exprs \o <<s.ref>>, scope)
    [] s.node = "return" -> IF s.exprs = << >> THEN "return without a value"
                            ELSE GenValues(s.exprs, scope)
    [] s.node \in {"while", "for", "if"} -> GenValues(s.exprs, scope)
    [] ~ IsStatement(s) /\ s.node \notin {"nul", "block"} -> "not a statement"

RECURSIVE GenStatement(_, _)
GenStatement(s, scope) ==
  Then(GenHere(s, scope),
       AllOf([i \in DOMAIN Inner(s) |->
                GenStatement(Inner(s)[i], IF s.node = "block" THEN s.scope ELSE scope)]))

-----------------------------------------------------------------------------
(* The bytes of a variable: all extents of an array declarator, one word   *)
(* for anything else.                                                      *)
Product(sizes) == FoldLeft(LAMBDA a, n : a * n, 1, sizes)

(* MUTANT of Bytes: one word per element of the first extent only *)
Bytes_FirstExtent(id) == IF id.form = "array" THEN 4 * id.type.dims[1] ELSE 4

Bytes(id) == IF id.form = "array" THEN 4 * Product(id.type.dims) ELSE 4

Storage(id) == [id |-> id, bytes |-> Bytes(id)]

(* generate_global_variable: a directive has the kind of the declared      *)
(* type.                                                                   *)
GenGlobal(id) ==
  Taken(id.form = "init" => id.init.value.kind = id.type.base, "directive")

(* generate_local_variable, in all blocks of a function *)
RECURSIVE LocalStorage(_)
LocalStorage(s) ==
  (IF s.node = "block"
   THEN FlattenSeq([i \in DOMAIN s.locals |->
                      [k \in DOMAIN s.locals[i] |-> Storage(s.locals[i][k])]])
   ELSE << >>)
  \o FlattenSeq([i \in DOMAIN Inner(s) |-> LocalStorage(Inner(s)[i])])

(* generate_program: one declaration *)
Generate(res, storage) ==
  /\ IF res = "ok" THEN pos' = pos + 1 /\ UNCHANGED <<phase, why>>
     ELSE phase' = "crashed" /\ why' = res /\ UNCHANGED pos
  /\ emitted' = emitted \o storage
  /\ UNCHANGED <<program, env, anyError, checked>>

GenerateVariables ==
  /\ At("generate", "vars")
  /\ LET ids == checked[pos].ids IN
     Generate(AllOf([i \in DOMAIN ids |-> GenGlobal(ids[i])]),
              [i \in DOMAIN ids |-> Storage(ids[i])])

GenerateFunction ==
  /\ At("generate", "function")
  /\ LET body == checked[pos].body IN Generate(GenStatement(body, env), LocalStorage(body))

GenerateTypedef == At("generate", "typedef") /\ Generate("ok", << >>)

EndGenerate ==
  /\ phase = "generate" /\ pos > Len(program)
  /\ phase' = "done"
  /\ UNCHANGED <<program, pos, why, env, anyError, checked, emitted>>

Over == phase \in {"rejected", "aborted", "crashed", "done"} /\ UNCHANGED vars

Next ==
  \/ CheckTypedef \/ CheckVariables \/ CheckFunction \/ EndCheck
  \/ GenerateVariables \/ GenerateFunction \/ GenerateTypedef \/ EndGenerate
  \/ Over

Spec == Init /\ [][Next]_vars

-----------------------------------------------------------------------------
Accepted == phase \in {"generate", "crashed", "done"}

(* The check accepts the legal programs, whatever its early returns and    *)
(* short cuts skip: a rejected program has an error, an accepted one has   *)
(* none, and an assertion of the check fails only on a program with an     *)
(* error, except for an expression in the first or third part of for.      *)
AcceptsLegal ==
  /\ Accepted => LegalProgram(program)
  /\ phase = "rejected" => ~ LegalProgram(program)
  /\ phase = "aborted" /\ why \notin {"not a statement", "trap"} => ~ LegalProgram(program)

(* Of the assertions in semantic-analysis.c three can fail: 648, which     *)
(* looks through a pointer that may be NULL and aborts for a function,     *)
(* 359 and 776.  A division that overflows kills the compiler on x86.      *)
CheckAsserts ==
  phase = "aborted" =>
    why \in {"type symbol is NULL", "type symbol is a function", "dim type",
             "not a statement", "trap"}

(* The trees and symbols of an accepted program are what the generator     *)
(* asserts, asks of type_value and dereferences, with two exceptions: an   *)
(* array argument that is no name (448) and return without a value (1149). *)
AcceptedCompiles ==
  phase = "crashed" => why \in {"array argument is no ID", "return without a value"}

(* Every name of an accepted program has the extents that follow from its  *)
(* own declaration and the typedefs it is made of.                         *)
ExtentsComposed ==
  Accepted => \A x \in DOMAIN env.sym :
    env.sym[x] = Visible(program)[Len(program)][x]

(* A variable gets room for all its elements (code-generation.c:21-32,     *)
(* 1188-1201), for a global those of the type it was declared with, unless *)
(* that is an array by typedef and the declarator a plain name: ast.h:35   *)
(* has those for scalars.                                                  *)
Roomy(id, dims) == id.form # "plain" \/ dims = << >>
StorageFits ==
  /\ \A i \in DOMAIN emitted :
       LET id == emitted[i].id IN
       Roomy(id, id.type.dims) => emitted[i].bytes >= 4 * Product(id.type.dims)
  /\ phase = "done" => \A i \in DOMAIN program : program[i].node = "vars" =>
       \A id \in Range(program[i].ids) :
         LET dims == Visible(program)[i][id.name].type.dims IN
         Roomy(id, dims) => \E k \in DOMAIN emitted :
           emitted[k].id.name = id.name /\ emitted[k].bytes = 4 * Product(dims)

(* The value a global variable starts with is the one the same initialiser *)
(* gives a local variable, unless a float is converted that is no int.     *)
InitialisersAgree ==
  \A i \in DOMAIN emitted :
    LET id == emitted[i].id IN
    id.form = "init" /\ emitted[i].id.init.res = "ok" /\ "value" \in DOMAIN id.init =>
      LET e == id.init IN
      \/ SameValue(e.value, RunInit(id.type.base, e))
      \/ StaticType(e) = "float" /\ id.type.base = "int" /\ Inexact(RunConst(e).v)
=============================================================================
