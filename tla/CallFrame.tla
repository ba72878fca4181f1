----------------------------- MODULE CallFrame ------------------------------
(***************************************************************************)
(* A function call in the middle of an expression: call_function and       *)
(* call_write of code-generation.c with the caller_save, caller_load,      *)
(* save_arguments and load_arguments of register.c.                        *)
(*                                                                         *)
(* The callee may overwrite every register of the pool, every argument     *)
(* register and everything below the stack pointer.  The caller pushes the *)
(* argument registers it received itself and the pool registers in use,    *)
(* moves the arguments into place, branches, and pops what it pushed.      *)
(* The code that pops is prepared when the registers are pushed and kept   *)
(* in print_buf, while locking a spilled argument in between emits a swap  *)
(* of the very registers that were pushed.                                 *)
(*                                                                         *)
(* Between calls (pc = "eval") the compiler evaluates expressions with the *)
(* steps of RegPool.                                                       *)
(***************************************************************************)
EXTENDS RegPool, Sequences, Functions

CONSTANTS
  ArgRegs,     \* number of argument registers: 8, x0 to x7
  MaxArgs,     \* bound on the number of arguments of a call
  ParamCounts  \* numbers of parameters of the calling function

ASSUME CallAssumption ==
  /\ Num >= 2 /\ LockMax >= 1  \* 15 and 3 in register.c
  /\ ArgRegs \in Nat \ {0}
  /\ MaxArgs \in Nat
  /\ ParamCounts \subseteq Nat

VARIABLES
  pc,        \* next step of call_function
  kind,      \* "call": user function, "write": call_write, "plain": no argument
  params,    \* stored_param_count: parameters of the calling function
  dists,     \* call_function: the temporaries of the arguments, in order
  source,    \* the arguments moved: NULL, or the array parameter passed on
  next,      \* call_function: the loop variable i
  result,    \* the temporary that receives the returned value
  printBuf,  \* pool->print_buf: the registers caller_load will pop, in order
  xreg,      \* machine: x0 .. x7
  stack,     \* machine: what was pushed below the spill slots, by depth
  ret,       \* machine: what the callee returned
  before     \* the values when the call began (history)

callVars == <<pc, kind, params, dists, source, next, result, printBuf,
              xreg, stack, ret, before>>
allVars == <<vars, callVars>>

Arg == 0 .. ArgRegs - 1
InRegs(n) == IF n >= ArgRegs THEN ArgRegs ELSE n

(* The stack after words[0], words[1], ... are pushed, size bytes each.  *)
Push(words, size) ==
  LET places == {sp + (i + 1) * size : i \in DOMAIN words} IN
  [d \in DOMAIN stack \cup places |->
     IF d \in places THEN words[(d - sp) \div size - 1] ELSE stack[d]]

(* Words deeper than the stack pointer belong to whoever runs next. *)
Above(d) == [e \in {e \in DOMAIN stack : e <= d} |-> stack[e]]

CallInit ==
  /\ Init
  /\ pc = "eval"
  /\ kind = "plain"
  /\ params \in ParamCounts
  /\ dists = << >>
  /\ source = << >>
  /\ next = 1
  /\ result = NULL
  /\ printBuf = << >>
  /\ xreg \in [Arg -> Val]
  /\ stack = [d \in {} |-> CHOOSE v \in Val : TRUE]
  /\ ret = CHOOSE v \in Val : TRUE
  /\ before = [tmp |-> << >>, xreg |-> << >>]

(* The compiler evaluates expressions: nothing is pushed.  Registers and   *)
(* new slots hold arbitrary values to begin with, so that the instructions *)
(* that compute add nothing.                                               *)
Eval ==
  /\ pc = "eval"
  /\ \E t \in Tmp : Alloc(t) \/ Lock(t) \/ Unlock(t) \/ Free(t)
  /\ UNCHANGED callVars

-----------------------------------------------------------------------------
(* ccmmc_register_save_arguments, the first step of every call.  Every     *)
(* caller has unlocked its temporaries by now, and the values of the       *)
(* arguments have been computed.  write has no value, so that nothing but  *)
(* the result of the whole statement can be pending when it is called.     *)
SaveArguments(k, ds) ==
  LET n == InRegs(params) IN
  /\ pc = "eval"
  /\ lockCnt = 0
  /\ Range(ds) \subseteq live
  /\ IsInjective(ds)
  /\ k = "plain" => ds = << >>
  /\ k = "call" => Len(ds) > 0
  /\ k = "write" => Len(ds) = 1 /\ top <= 2
  /\ kind' = k
  /\ dists' = ds
  /\ before' = [tmp |-> [t \in live |-> Value(t)], xreg |-> xreg]
  /\ stack' = Push([i \in 0 .. n - 1 |-> xreg[i]], 8)
  /\ sp' = sp + n * 8
  /\ pc' = "callerSave"
  /\ UNCHANGED <<book, held, rv, mem, params, source, next, result,
                 printBuf, xreg, ret>>

(* MUTANT of Popped: the registers are popped in the opposite order *)
Popped_Reversed(n) == [i \in 1 .. n |-> list[n - i]]

(* print_buf: the registers in the order in which they are popped *)
Popped(n) == [i \in 1 .. n |-> list[i - 1]]

(* ccmmc_register_caller_save, and the room for the arguments that do not  *)
(* fit in registers.                                                       *)
CallerSave ==
  LET bound == IF top < Num THEN top ELSE Num
      onStack == Len(dists) - InRegs(Len(dists))
  IN
  /\ pc = "callerSave"
  /\ stack' = Push([i \in 0 .. bound - 1 |-> rv[list[i]]], RegSize)
  /\ sp' = sp + bound * RegSize + onStack * 8
  /\ printBuf' = Popped(bound)
  /\ next' = 1
  /\ pc' = IF kind = "plain" THEN "branch" ELSE "lock"
  /\ UNCHANGED <<book, held, rv, mem, kind, params, dists, source, result,
                 xreg, ret, before>>

-----------------------------------------------------------------------------
(* The loop that moves the arguments into place.  *)
LockArgument ==
  /\ pc = "lock"
  /\ Lock(dists[next])
  /\ pc' = "move"
  /\ UNCHANGED <<kind, params, dists, source, next, result, printBuf,
                 xreg, stack, ret, before>>

(* MUTANT of Moved: the register allocated in this place, not the one locked *)
Moved_Unlocked(s) == IF s = NULL THEN rv[list[next - 1]] ELSE xreg[s]

(* The value of a scalar argument, or the address in the array parameter.  *)
Moved(s) == IF s = NULL THEN rv[held[dists[next]]] ELSE xreg[s]

MoveArgument(s) ==
  /\ pc = "move"
  /\ kind = "write" => s = NULL
  /\ source' = Append(source, s)
  /\ IF next <= ArgRegs
     THEN /\ xreg' = [xreg EXCEPT ![next - 1] = Moved(s)]
          /\ UNCHANGED stack
     ELSE LET place == sp - (next - 1 - ArgRegs) * 8
          IN /\ stack' = [d \in DOMAIN stack \cup {place} |->
                            IF d = place THEN Moved(s) ELSE stack[d]]
             /\ UNCHANGED xreg
  /\ pc' = "unlock"
  /\ UNCHANGED <<vars, kind, params, dists, next, result, printBuf,
                 ret, before>>

UnlockArgument ==
  /\ pc = "unlock"
  /\ Unlock(dists[next])
  /\ next' = next + 1
  /\ pc' = IF kind = "write" THEN "freeEarly"
           ELSE IF next < Len(dists) THEN "lock" ELSE "branch"
  /\ UNCHANGED <<kind, params, dists, source, result, printBuf, xreg, stack,
                 ret, before>>

(* call_write frees its argument before the branch, while the registers    *)
(* are pushed.                                                             *)
FreeEarly ==
  /\ pc = "freeEarly"
  /\ Free(dists[1])
  /\ pc' = "branch"
  /\ UNCHANGED <<kind, params, dists, source, next, result, printBuf, xreg,
                 stack, ret, before>>

-----------------------------------------------------------------------------
(* bl: the callee leaves the stack pointer where it was and its value in   *)
(* x0 and s0.  The caller then drops the arguments on the stack.           *)
(* One arbitrary value stands for all it leaves in the pool registers, and *)
(* one for all it leaves in the argument registers.                        *)
Branch(v, w) ==
  /\ pc = "branch"
  /\ rv' = [r \in Reg |-> v]
  /\ xreg' = [i \in Arg |-> w]
  /\ ret' = w
  /\ source' = << >>
  /\ stack' = Above(sp)
  /\ sp' = sp - (Len(dists) - InRegs(Len(dists))) * 8
  /\ pc' = "callerLoad"
  /\ UNCHANGED <<book, held, mem, kind, params, dists, next, result, printBuf,
                 before>>

(* ccmmc_register_caller_load: print_buf is emitted.  *)
CallerLoad ==
  LET bound == Len(printBuf)
      down == sp - bound * RegSize
  IN
  /\ pc = "callerLoad"
  /\ sp' = down
  /\ rv' = [r \in Reg |->
              IF \E i \in 1 .. bound : printBuf[i] = r
              THEN stack[down + RegSize * (CHOOSE i \in 1 .. bound : printBuf[i] = r)]
              ELSE rv[r]]
  /\ pc' = "loadArguments"
  /\ UNCHANGED <<book, held, mem, kind, params, dists, source, next, result,
                 printBuf, xreg, stack, ret, before>>

(* MUTANT of Restored: the words are popped in the opposite order *)
Restored_Reversed(n, d) ==
  [i \in Arg |-> IF i < n THEN stack[d + (n - i) * 8] ELSE xreg[i]]

(* x0 .. x7 after the first n are popped and the stack pointer is at d *)
Restored(n, d) ==
  [i \in Arg |-> IF i < n THEN stack[d + (i + 1) * 8] ELSE xreg[i]]

(* MUTANT of LoadArguments: the words are loaded but not popped *)
LoadArguments_NoPop ==
  LET n == InRegs(params) IN
  /\ pc = "loadArguments"
  /\ xreg' = Restored(n, sp - n * 8)
  /\ next' = 1
  /\ pc' = IF kind = "call" THEN "free" ELSE "lockResult"
  /\ UNCHANGED <<vars, kind, params, dists, source, result, printBuf, stack,
                 ret, before>>

(* ccmmc_register_load_arguments.  *)
LoadArguments ==
  LET n == InRegs(params)
      down == sp - n * 8
  IN
  /\ pc = "loadArguments"
  /\ sp' = down
  /\ xreg' = Restored(n, down)
  /\ stack' = Above(down)
  /\ next' = 1
  /\ pc' = IF kind = "call" THEN "free" ELSE "lockResult"
  /\ UNCHANGED <<book, held, rv, mem, kind, params, dists, source, result,
                 printBuf, ret, before>>

(* call_function frees the temporaries of the arguments.  *)
FreeArgument ==
  /\ pc = "free"
  /\ Free(dists[next])
  /\ next' = next + 1
  /\ pc' = IF next < Len(dists) THEN "free" ELSE "lockResult"
  /\ UNCHANGED <<kind, params, dists, source, result, printBuf, xreg, stack,
                 ret, before>>

-----------------------------------------------------------------------------
(* generate_expression moves the returned value into the result: a float   *)
(* from s0, which nothing restored, and an int from w0.                    *)
LockResult(t) ==
  /\ pc = "lockResult"
  /\ result' = t
  /\ Lock(t)
  /\ pc' = "result"
  /\ UNCHANGED <<kind, params, dists, source, next, printBuf, xreg,
                 stack, ret, before>>

(* MUTANT of MoveResult: a float is taken from x0 as well *)
MoveResult_FromX0(type) ==
  /\ pc = "result"
  /\ Write(result, xreg[0])
  /\ pc' = IF type = "float" THEN "floatDone" ELSE "intDone"
  /\ UNCHANGED <<kind, params, dists, source, next, result, printBuf, xreg,
                 stack, ret, before>>

(* mov, or fmov for a float. *)
MoveResult(type) ==
  /\ pc = "result"
  /\ Write(result, IF type = "float" THEN ret ELSE xreg[0])
  /\ pc' = IF type = "float" THEN "floatDone" ELSE "intDone"
  /\ UNCHANGED <<kind, params, dists, source, next, result, printBuf, xreg,
                 stack, ret, before>>

(* The call is over: what only served it is forgotten.  *)
Forget ==
  /\ pc' = "eval"
  /\ kind' = "plain"
  /\ dists' = << >>
  /\ next' = 1
  /\ result' = NULL
  /\ printBuf' = << >>
  /\ before' = [tmp |-> << >>, xreg |-> << >>]
  /\ ret' = CHOOSE v \in Val : TRUE
  /\ UNCHANGED <<params, source, xreg, stack>>

UnlockResult ==
  /\ pc \in {"floatDone", "intDone"}
  /\ Unlock(result)
  /\ Forget

(* A call that is a statement of its own ignores what is returned.  *)
IgnoreResult ==
  /\ pc = "lockResult"
  /\ UNCHANGED vars
  /\ Forget

SeqsUpTo(S, n) == UNION {[1 .. k -> S] : k \in 0 .. n}

CallNext ==
  \/ Eval
  \/ \E k \in {"call", "write", "plain"}, ds \in SeqsUpTo(live, MaxArgs) :
       SaveArguments(k, ds)
  \/ CallerSave
  \/ LockArgument
  \/ \E s \in {NULL} \cup (0 .. InRegs(params) - 1) : MoveArgument(s)
  \/ UnlockArgument
  \/ FreeEarly
  \/ \E v, w \in Val : Branch(v, w)
  \/ CallerLoad
  \/ LoadArguments
  \/ FreeArgument
  \/ \E t \in live \ Range(dists) : LockResult(t)
  \/ \E type \in {"int", "float"} : MoveResult(type)
  \/ UnlockResult
  \/ IgnoreResult

CallSpec == CallInit /\ [][CallNext]_allVars

-----------------------------------------------------------------------------
Over == {"free", "lockResult", "result", "floatDone", "intDone"}

(* register.c lines 262-291 around call_function lines 458-548: a call     *)
(* keeps the value of every temporary but its arguments' and its result's, *)
(* although locking a spilled argument swaps a register that is already    *)
(* pushed and will be popped.                                              *)
CallKeepsValues ==
  pc \in Over =>
    \A t \in live \ (Range(dists) \cup {result}) : Value(t) = before.tmp[t]

(* register.c lines 293-315: the parameters of the calling function are    *)
(* the same after the call, however many there are.                        *)
CallKeepsParameters ==
  pc \in Over => \A i \in Arg : i < params => xreg[i] = before.xreg[i]

(* call_function lines 460-464 and 529-538: at the branch every argument   *)
(* is where the callee looks for it.  An array parameter that is passed on *)
(* must not have been overwritten by an argument in front of it.           *)
ArgumentsInPlace ==
  pc = "branch" =>
    \A i \in DOMAIN source :
      LET place == IF i <= ArgRegs THEN xreg[i - 1]
                   ELSE stack[sp - (i - 1 - ArgRegs) * 8]
      IN IF source[i] = NULL
         THEN place = before.tmp[dists[i]]
         ELSE source[i] >= i - 1 => place = before.xreg[source[i]]

(* call_function pushes and pops as much, with or without arguments on the *)
(* stack, and the stack pointer never passes a word that is still needed.  *)
CallBalanced ==
  /\ pc \in Over \cup {"eval"} => sp = offset /\ DOMAIN stack = {}
  /\ \A d \in DOMAIN stack : offset < d
  /\ pc = "branch" => \A d \in DOMAIN stack : d <= sp

(* generate_expression lines 599-605: the result is what the callee        *)
(* returned.  An int comes in x0, which load_arguments has overwritten by  *)
(* then unless the calling function has no parameters.                     *)
ResultReturned ==
  /\ pc = "floatDone" => Value(result) = ret
  /\ pc = "intDone" /\ params = 0 => Value(result) = ret

(* code-generation.c lines 361-559 against register.c: the pool is intact  *)
(* during the call, call_write's early free with the registers pushed      *)
(* never moves a slot, and every lock the call asks for is granted.        *)
PoolIntact ==
  /\ RegistersInUseFirst
  /\ SpillSlotsContiguous
  /\ LockCountExact
  /\ HeldNameValid
  /\ pc = "move" => held[dists[next]] # NULL
  /\ pc = "result" => held[result] # NULL
=============================================================================
