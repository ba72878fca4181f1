---------------------------- MODULE DriverProofs ----------------------------
(***************************************************************************)
(* Theorems about Driver.tla, for any number of runs and declarations.     *)
(* The exit status and output.s are written by different steps of main;    *)
(* what relates them is what every phase knows of both.                    *)
(***************************************************************************)
EXTENDS Driver, TLAPS

Early == {"arguments", "source", "parse", "check", "output"}

(* Up to fopen a run has neither touched output.s nor printed code, ...    *)
BeforeOutput ==
  main.phase \in Early =>
    /\ main.status = Running /\ main.printed = 0
    /\ main.asm = NULL
    /\ output.of < run

(* ... while it generates code the file is its own, and not whole, ...     *)
InOutput ==
  main.phase \in {"start", "generate", "close"} =>
    /\ main.status = Running /\ main.asm = "open"
    /\ output.of = run /\ output.text = "part"
    /\ output.decls <= main.printed /\ main.printed <= main.decls
    /\ main.phase = "close" => main.printed = main.decls

(* ... and no file is of a run that has not begun.                         *)
NotAhead == output.of <= run

IInv == TypeOK /\ BeforeOutput /\ InOutput /\ NotAhead /\ StatusTellsOutput

LEMMA InitInv == Init => IInv
<1> SUFFICES ASSUME Init PROVE IInv
  OBVIOUS
<1>1. main = [phase |-> "over", status |-> 1, decls |-> 0, printed |-> 0,
              asm |-> NULL, disk |-> "written"]
  BY DEF Init, Process
<1>2. TypeOK
  BY <1>1, DriverAssumption DEF Init, TypeOK, Running, Aborted
<1>3. QED
  BY <1>1, <1>2 DEF Init, IInv, BeforeOutput, Early, InOutput, NotAhead,
                    StatusTellsOutput, At

(* Every step of main, the one of the C library and the start of another   *)
(* run keep to the types ...                                               *)
LEMMA StepType == IInv /\ [Next]_vars => TypeOK'
<1> SUFFICES ASSUME TypeOK, InOutput, [Next]_vars PROVE TypeOK'
  BY DEF IInv
<1> USE DriverAssumption DEF TypeOK
<1>1. CASE Fail \/ Abort \/ \E phase \in {"source", "parse", "output"} : Proceed(phase)
  BY <1>1, ZenonT(30) DEF Fail, Abort, Proceed
<1>2. CASE Begin
  <2>1. run + 1 \in 0 .. MaxRuns
    BY <1>2 DEF Begin
  <2>2. Process \in [phase : {"arguments"}, status : {Running}, decls : {0}, printed : {0},
                     asm : {NULL}, disk : {"written"}]
    BY DEF Process
  <2>3. QED
    BY <1>2, <2>1, <2>2 DEF Begin
<1>3. CASE Arguments \/ OpenSource \/ Check
  BY <1>1, <1>3 DEF Arguments, OpenSource, Check
<1>4. CASE Parse
  BY <1>1, <1>4 DEF Parse
<1>5. CASE OpenOutput
  <2>1. ASSUME ~ Fail
        PROVE  /\ output' = [of |-> run, decls |-> 0, text |-> "part"]
               /\ main' = [main EXCEPT !.phase = "start", !.asm = "open"]
               /\ run' = run
    BY <1>5, <2>1 DEF OpenOutput
  <2>2. ASSUME ~ Fail PROVE output' \in [of : 0 .. MaxRuns, decls : 0 .. MaxDecls, text : {"part", "whole"}]
    BY <2>1, <2>2
  <2>3. QED
    BY <1>1, <2>1, <2>2
<1>6. CASE StartGeneration
  BY <1>6, ZenonT(30) DEF StartGeneration, Proceed
<1>7. CASE Generate
  <2>1. main.printed + 1 \in 0 .. MaxDecls
    BY <1>7 DEF Generate
  <2>2. ASSUME ~ Abort
        PROVE main' = [main EXCEPT !.printed = main.printed + 1] /\ UNCHANGED <<run, output>>
    BY <1>7, <2>2 DEF Generate
  <2>3. QED
    BY <1>1, <2>1, <2>2
<1>8. CASE EndGeneration
  BY <1>8, ZenonT(30) DEF EndGeneration, Proceed
<1>9. CASE Finish
  <2>1. main.asm = "open"
    BY <1>9 DEF Finish, InOutput, At
  <2>2. PICK disk \in {"written", "full"} :
          /\ main' = [main EXCEPT !.phase = "over", !.status = 0, !.disk = disk,
                                  !.asm = "closed"]
          /\ output' = IF disk = "full" THEN output
                       ELSE [output EXCEPT !.decls = main.decls, !.text = "whole"]
          /\ run' = run
    BY <1>9, <2>1 DEF Finish, NULL
  <2>3. QED
    BY <2>2
<1>10. CASE Flush
  <2>1. PICK n \in output.decls + 1 .. main.printed : output' = [output EXCEPT !.decls = n]
    BY <1>10 DEF Flush
  <2>2. n \in 0 .. MaxDecls
    BY <2>1
  <2>3. QED
    BY <1>10, <2>1, <2>2 DEF Flush
<1>11. CASE Over \/ UNCHANGED vars
  BY <1>11 DEF Over, vars
<1>12. QED
  BY <1>2, <1>3, <1>4, <1>5, <1>6, <1>7, <1>8, <1>9, <1>10, <1>11 DEF Next, Main

(* ... and lead from what one phase knows to what the next one does.       *)
LEMMA StepInv == IInv /\ [Next]_vars => IInv'
<1> DEFINE Knows == BeforeOutput /\ InOutput /\ NotAhead /\ StatusTellsOutput
<1> SUFFICES ASSUME TypeOK, Knows, [Next]_vars PROVE Knows'
  BY StepType DEF IInv
<1> USE DEF BeforeOutput, Early, InOutput, NotAhead, StatusTellsOutput, At
<1>0. /\ run \in Nat /\ output.of \in Nat /\ output.decls \in Nat
      /\ main.printed \in Nat /\ main.decls \in Nat
  BY DriverAssumption DEF TypeOK
<1>1. CASE main.phase \in Early /\ Fail
  <2>1. main'.phase = "over" /\ main'.status = 1 /\ UNCHANGED <<run, output>>
    BY <1>1 DEF Fail, TypeOK
  <2>2. QED
    BY <1>1, <2>1
<1>2. CASE Abort
  <2>1. main'.phase = "over" /\ main'.status = Aborted /\ UNCHANGED <<run, output>>
    BY <1>2 DEF Abort, TypeOK
  <2>2. QED
    BY <1>2, <2>1 DEF Aborted
<1>3. ASSUME NEW phase \in {"source", "parse", "output"}, main.phase \in Early, Proceed(phase)
      PROVE Knows'
  <2>1. /\ main'.phase \in Early
        /\ main'.status = main.status /\ main'.printed = main.printed
        /\ main'.asm = main.asm
        /\ UNCHANGED <<run, output>>
    BY <1>3 DEF Proceed, TypeOK
  <2>2. QED
    BY <1>3, <2>1
<1>4. CASE Begin
  BY <1>0, <1>4 DEF Begin, Process
<1>5. CASE Arguments \/ OpenSource \/ Check
  BY <1>1, <1>2, <1>3, <1>5 DEF Arguments, OpenSource, Check
<1>6. CASE Parse
  <2>1. ASSUME ~ Fail
        PROVE /\ main'.phase \in Early
              /\ main'.status = main.status /\ main'.printed = main.printed
              /\ main'.asm = main.asm
              /\ UNCHANGED <<run, output>>
    BY <1>6, <2>1 DEF Parse, TypeOK
  <2>2. QED
    BY <1>1, <1>6, <2>1 DEF Parse
<1>7. CASE OpenOutput
  <2>1. ASSUME ~ Fail
        PROVE /\ main'.phase = "start" /\ main'.asm = "open"
              /\ main'.status = main.status /\ main'.printed = main.printed
             
              /\ main'.decls = main.decls
    BY <1>7, <2>1 DEF OpenOutput, TypeOK
  <2>2. ASSUME ~ Fail
        PROVE  output'.of = run /\ output'.decls = 0 /\ output'.text = "part" /\ run' = run
    BY <1>7, <2>2 DEF OpenOutput
  <2>3. QED
    BY <1>0, <1>1, <1>7, <2>1, <2>2 DEF OpenOutput
<1>8. CASE StartGeneration
  <2>1. /\ main'.phase = "generate" /\ main'.asm = main.asm
        /\ main'.status = main.status /\ main'.printed = main.printed
        /\ main'.decls = main.decls /\ UNCHANGED <<run, output>>
    BY <1>8 DEF StartGeneration, Proceed, TypeOK
  <2>2. QED
    BY <1>8, <2>1 DEF StartGeneration
<1>9. CASE Generate
  <2>1. ASSUME ~ Abort
        PROVE /\ main'.phase = main.phase /\ main'.asm = main.asm
              /\ main'.status = main.status /\ main'.printed = main.printed + 1
             
              /\ main'.decls = main.decls /\ UNCHANGED <<run, output>>
    BY <1>9, <2>1 DEF Generate, TypeOK
  <2>2. QED
    BY <1>0, <1>2, <1>9, <2>1 DEF Generate
<1>10. CASE EndGeneration
  <2>1. /\ main'.phase = "close" /\ main'.asm = main.asm
        /\ main'.status = main.status /\ main'.printed = main.printed
        /\ main'.decls = main.decls /\ UNCHANGED <<run, output>>
    BY <1>10 DEF EndGeneration, Proceed, TypeOK
  <2>2. QED
    BY <1>0, <1>10, <2>1 DEF EndGeneration
<1>11. CASE Finish
  <2>1. PICK disk \in {"written", "full"} :
          /\ main' = [main EXCEPT !.phase = "over", !.status = 0, !.disk = disk,
                                  !.asm = "closed"]
          /\ output' = IF disk = "full" THEN output
                       ELSE [output EXCEPT !.decls = main.decls, !.text = "whole"]
          /\ run' = run
    BY <1>11 DEF Finish, NULL
  <2>2. /\ main'.phase = "over" /\ main'.status = 0 /\ main'.disk = disk
        /\ main'.asm = "closed"
    BY <2>1 DEF TypeOK
  <2>3. output'.of = output.of /\ (disk # "full" => output'.text = "whole")
    BY <2>1 DEF TypeOK
  <2>4. QED
    BY <1>0, <1>11, <2>1, <2>2, <2>3 DEF Finish
<1>12. CASE Flush
  <2>1. PICK n \in output.decls + 1 .. main.printed : output' = [output EXCEPT !.decls = n]
    BY <1>12 DEF Flush
  <2>2. output'.of = output.of /\ output'.text = output.text /\ output'.decls = n
    BY <2>1 DEF TypeOK
  <2>3. n <= main.printed
    BY <1>0, <2>1
  <2>4. ~ main.phase \in Early
    BY <1>12 DEF Flush, NULL
  <2>5. QED
    BY <1>0, <1>12, <2>2, <2>3, <2>4 DEF Flush
<1>13. CASE Over \/ UNCHANGED vars
  BY <1>13 DEF Over, vars
<1>14. QED
  BY <1>4, <1>5, <1>6, <1>7, <1>8, <1>9, <1>10, <1>11, <1>12, <1>13 DEF Next, Main

LEMMA Invariance == Spec => []IInv
<1>1. Init => IInv
  BY InitInv
<1>2. IInv /\ [Next]_vars => IInv'
  BY StepInv
<1>3. QED
  BY <1>1, <1>2, PTL DEF Spec

(* The variables stay in their types.  *)
THEOREM TypeCorrect == Spec => []TypeOK
<1>1. IInv => TypeOK
  BY DEF IInv
<1>2. QED
  BY <1>1, Invariance, PTL

(* However many runs there are in a directory and whatever fails in them,  *)
(* the exit status of the last one (main.c) tells whose program output.s   *)
(* has.                                                                    *)
THEOREM StatusTellsOutputAlways == Spec => []StatusTellsOutput
<1>1. IInv => StatusTellsOutput
  BY DEF IInv
<1>2. QED
  BY <1>1, Invariance, PTL

(* A program that was written stays until the next one has been checked,   *)
(* and what a run has written of its own only grows.                       *)
THEOREM OutputIsKept == Spec => OutputKept
<1> DEFINE Kept == output' # output =>
                     /\ output'.of = run
                     /\ main.phase \in {"output", "start", "generate", "close"}
                     /\ output.of = run => output.decls <= output'.decls /\ output.text = "part"
<1>1. ASSUME IInv, [Next]_vars PROVE [Kept]_vars
  <2> USE <1>1, DriverAssumption
      DEF IInv, TypeOK, BeforeOutput, Early, InOutput, NotAhead, At, NULL
  <2>1. CASE OpenOutput
    BY <2>1 DEF OpenOutput, Fail
  <2>2. CASE Finish
    BY <2>2 DEF Finish
  <2>3. CASE Flush
    BY <2>3 DEF Flush
  <2>4. CASE output' = output
    BY <2>4
  <2>5. ASSUME Begin \/ Arguments \/ OpenSource \/ Parse \/ Check \/ StartGeneration
                 \/ Generate \/ EndGeneration \/ Over \/ UNCHANGED vars
        PROVE output' = output
    BY <2>5 DEF Begin, Arguments, OpenSource, Parse, Check, StartGeneration, Generate,
                EndGeneration, Over, Fail, Abort, Proceed, vars
  <2>6. QED
    BY <2>1, <2>2, <2>3, <2>4, <2>5 DEF Next, Main
<1>2. QED
  BY <1>1, Invariance, PTL DEF Spec, OutputKept
=============================================================================
