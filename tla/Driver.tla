------------------------------- MODULE Driver -------------------------------
(***************************************************************************)
(* main.c and state.c: runs of cmmc, one after the other in a directory    *)
(* where output.s outlives them.  main is a straight line; what the parts  *)
(* it calls make of a source, and whether files can be opened, is open.    *)
(*                                                                         *)
(* What is printed goes through a buffer of the C library: exit and fclose *)
(* write it to the file, an abort loses it, and nobody looks whether the   *)
(* disk takes it.  Messages, dumps to stdout and the closing of the source *)
(* are left out, and so is state->reg_pool: ccmmc_register_fini, for which *)
(* it is kept, has an empty body, and nothing frees the pool.              *)
(***************************************************************************)
EXTENDS Integers

CONSTANTS
  MaxRuns,  \* bound: runs of the compiler
  MaxDecls  \* bound: global declarations of a source

ASSUME DriverAssumption == MaxRuns \in Nat /\ MaxDecls \in Nat

NULL == "NULL"
Running == -1
Aborted == 134  \* the status of SIGABRT in a shell; other signals alike

VARIABLES
  run,    \* the runs so far
  main,   \* the process of the last one, see TypeOK
  output  \* output.s: the run that opened it, the declarations it has the
          \* code of, and whether it has all of a program
vars == <<run, main, output>>

(* printed: the declarations generate_program has gone through; disk:      *)
(* history, whether it has taken everything.                               *)
Process ==
  [phase |-> "arguments", status |-> Running, decls |-> 0, printed |-> 0,
   asm |-> NULL, disk |-> "written"]

Init ==
  /\ run = 0
  /\ main = [Process EXCEPT !.phase = "over", !.status = 1]
  /\ output = [of |-> 0, decls |-> 0, text |-> "part"]

At(phase) == main.phase = phase
Proceed(phase) == main' = [main EXCEPT !.phase = phase] /\ UNCHANGED <<run, output>>

(* exit(1), or a failed assertion or a NULL dereferenced: SIGABRT, SIGSEGV *)
Fail ==
  /\ main' = [main EXCEPT !.phase = "over", !.status = 1]
  /\ UNCHANGED <<run, output>>
Abort ==
  /\ main' = [main EXCEPT !.phase = "over", !.status = Aborted]
  /\ UNCHANGED <<run, output>>

Begin ==
  /\ At("over") /\ run < MaxRuns
  /\ run' = run + 1
  /\ main' = Process
  /\ UNCHANGED output

Arguments == At("arguments") /\ (Fail \/ Proceed("source"))

(* fopen of the source, and ccmmc_state_init.  *)
OpenSource == At("source") /\ (Fail \/ Proceed("parse"))

(* yyparse: errors of the lexer, the grammar and of memory.                *)
Parse ==
  /\ At("parse")
  /\ \/ Fail
     \/ \E n \in 0 .. MaxDecls :
          /\ main' = [main EXCEPT !.phase = "check", !.decls = n]
          /\ UNCHANGED <<run, output>>

(* MUTANT of Check: the file is opened by the time the check succeeds      *)
Check_Opens ==
  /\ At("check")
  /\ \/ /\ main' = [main EXCEPT !.phase = "output"]
        /\ output' = [of |-> run, decls |-> 0, text |-> "part"]
        /\ UNCHANGED run
     \/ Fail
     \/ Abort

(* ccmmc_semantic_check, which reports errors by their line.  *)
Check == At("check") /\ (Proceed("output") \/ Fail \/ Abort)

(* MUTANT of OpenOutput: the file is opened before the check, as it were   *)
OpenOutput_Truncates ==
  /\ At("output")
  /\ output' = [of |-> run, decls |-> 0, text |-> "part"]
  /\ \/ main' = [main EXCEPT !.phase = "over", !.status = 1]
     \/ main' = [main EXCEPT !.phase = "start", !.asm = "open"]
  /\ UNCHANGED run

(* fopen("output.s", "w") empties the file when it succeeds.  *)
OpenOutput ==
  /\ At("output")
  /\ \/ Fail
     \/ /\ output' = [of |-> run, decls |-> 0, text |-> "part"]
        /\ main' = [main EXCEPT !.phase = "start", !.asm = "open"]
        /\ UNCHANGED run

(* ccmmc_code_generation up to its loop, ...  *)
StartGeneration == At("start") /\ Proceed("generate")

(* ... an iteration of generate_program, ...  *)
Generate ==
  /\ At("generate") /\ main.printed < main.decls
  /\ \/ main' = [main EXCEPT !.printed = @ + 1] /\ UNCHANGED <<run, output>>
     \/ Abort

(* ... and the end of it.  *)
EndGeneration ==
  At("generate") /\ main.printed = main.decls /\ Proceed("close")

(* The buffer is full: the C library writes some of what was printed.      *)
Flush ==
  /\ main.asm = "open" /\ ~ At("over")
  /\ \E n \in output.decls + 1 .. main.printed :
       output' = [output EXCEPT !.decls = n]
  /\ UNCHANGED <<run, main>>

(* ccmmc_state_fini and return 0, whatever fclose says.  *)
Finish ==
  /\ At("close")
  /\ \E disk \in {"written", "full"} :
       /\ main' = [main EXCEPT !.phase = "over", !.status = 0, !.disk = disk,
                               !.asm = IF @ = NULL THEN NULL ELSE "closed"]
       /\ output' = IF disk = "full" THEN output
                    ELSE [output EXCEPT !.decls = main.decls, !.text = "whole"]
  /\ UNCHANGED run

Main ==
  \/ Arguments \/ OpenSource \/ Parse \/ Check \/ OpenOutput
  \/ StartGeneration \/ Generate \/ EndGeneration \/ Finish

(* The last run is over.  *)
Over == At("over") /\ run = MaxRuns /\ UNCHANGED vars

Next == Begin \/ Main \/ Flush \/ Over

Spec == Init /\ [][Next]_vars

-----------------------------------------------------------------------------
TypeOK ==
  /\ run \in 0 .. MaxRuns
  /\ main \in
       [phase : {"arguments", "source", "parse", "check", "output", "start",
                 "generate", "close", "over"},
        status : {0, 1, Aborted, Running},
        decls : 0 .. MaxDecls, printed : 0 .. MaxDecls,
        asm : {NULL, "open", "closed"}, disk : {"written", "full"}]
  /\ output \in [of : 0 .. MaxRuns, decls : 0 .. MaxDecls, text : {"part", "whole"}]

(* What the exit status says of output.s, which make or a script goes by:  *)
(* 0, that it is the whole of this run's program, if the disk took it; 1,  *)
(* that it is what it was before the run.                                  *)
StatusTellsOutput ==
  At("over") =>
    /\ main.status = 0 => output.of = run /\ (output.text = "whole" \/ main.disk = "full")
    /\ main.status = 1 /\ run > 0 => output.of < run

(* output.s is changed only by the run that has checked its source, a      *)
(* program that was written stays until then, and what is in the file of a *)
(* run only grows.                                                         *)
OutputKept ==
  [][output' # output =>
       /\ output'.of = run /\ main.phase \in {"output", "start", "generate", "close"}
       /\ output.of = run => output.decls <= output'.decls /\ output.text = "part"]_vars
=============================================================================
