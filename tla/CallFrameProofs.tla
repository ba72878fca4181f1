-------------------------- MODULE CallFrameProofs ---------------------------
(***************************************************************************)
(* A call changes nothing but its result: proofs about CallFrame for pools *)
(* of every size and for any number of arguments and parameters.           *)
(*                                                                         *)
(* FrameInv says where everything is while a call is in progress: the      *)
(* stack pointer, what was pushed, what is locked.  KeepInv says which     *)
(* values are there, and rests on FrameInv.                                *)
(***************************************************************************)
EXTENDS CallFrame, RegPoolProofs

(* Where the stack pointer is, by how far the call has come: the words     *)
(* pushed are the parameters of the caller, the registers in use and the   *)
(* arguments that do not fit in registers, in this order.                  *)
Passing == {"lock", "move", "unlock", "freeEarly", "branch"}
Calling == Passing \cup {"callerSave", "callerLoad", "loadArguments"}
Saved == Passing \cup {"callerLoad"}
Resulting == {"result", "floatDone", "intDone"}

Params == offset + InRegs(params) * 8
Regs == Params + Len(printBuf) * RegSize
Args == Regs + (Len(dists) - InRegs(Len(dists))) * 8

StackDepth ==
  /\ pc \in {"callerSave", "loadArguments"} => sp = Params
  /\ pc = "callerLoad" => sp = Regs
  /\ pc \in Passing => sp = Args
  /\ pc \notin Calling => sp = offset

CallType ==
  /\ pc \in Calling \cup Over \cup {"eval"}
  /\ kind \in {"call", "write", "plain"}
  /\ params \in ParamCounts
  /\ dists \in Seq(Tmp)
  /\ source \in Seq(Arg \cup {NULL})
  /\ next \in Nat \ {0}
  /\ result \in Tmp \cup {NULL}
  /\ printBuf \in Seq(Reg)
  /\ xreg \in [Arg -> Val]
  /\ DOMAIN stack \subseteq Nat
  /\ \A d \in DOMAIN stack : stack[d] \in Val
  /\ ret \in Val

(* How far the loop over the arguments is.  *)
LoopInv ==
  /\ pc \in {"lock", "move", "unlock"} => next <= Len(dists)
  /\ pc \in {"lock", "move"} => Len(source) = next - 1
  /\ pc = "unlock" => Len(source) = next
  /\ pc \in {"freeEarly", "branch"} => Len(source) = Len(dists)
  /\ pc \in {"eval", "callerSave"} => printBuf = << >>
  /\ pc \notin Passing => source = << >>
  /\ kind = "plain" => dists = << >>
  /\ kind = "call" => Len(dists) > 0
  /\ kind = "write" => Len(dists) = 1
  /\ pc = "freeEarly" => kind = "write"
  /\ kind = "write" /\ pc \in {"callerSave", "lock", "move", "unlock", "freeEarly"} => top <= 2
  /\ pc \in {"callerSave", "lock", "move", "unlock", "freeEarly"} =>
       \A i \in DOMAIN dists : dists[i] \in live
  /\ pc \in Resulting => result \in live
  /\ pc \notin Resulting => result = NULL

(* Only the argument that is being moved is locked.  *)
LocksInv ==
  /\ pc \in (Calling \cup {"lockResult"}) \ {"move", "unlock"} =>
       \A r \in Reg : ~ regLock[r]
  /\ pc \in {"move", "unlock"} =>
       /\ held[dists[next]] # NULL
       /\ \A r \in Reg : regLock[r] => r = held[dists[next]]
  /\ pc = "free" => \A r \in Reg : ~ regLock[r]
  /\ pc = "result" => held[result] # NULL

(* The words that were pushed are still there.  *)
PushedInv ==
  /\ pc \in Calling =>
       \A i \in 0 .. InRegs(params) - 1 : offset + (i + 1) * 8 \in DOMAIN stack
  /\ pc \in Saved =>
       \A i \in DOMAIN printBuf : Params + i * RegSize \in DOMAIN stack
  /\ \A d \in DOMAIN stack : offset < d
  /\ pc \in {"callerSave"} \cup Passing => \A d \in DOMAIN stack : d <= sp
  /\ pc \notin Calling => DOMAIN stack = {}

FrameInv ==
  /\ BookInv
  /\ StackDepth
  /\ CallType
  /\ LoopInv
  /\ LocksInv
  /\ PushedInv

-----------------------------------------------------------------------------
(* The number of words that are passed in registers.  *)
LEMMA InRegsBound ==
  ASSUME NEW n \in Nat
  PROVE  /\ InRegs(n) \in Nat /\ InRegs(n) <= n /\ InRegs(n) <= ArgRegs
         /\ n - InRegs(n) \in Nat
         /\ \A i \in Arg : i < n => i < InRegs(n)
BY CallAssumption DEF InRegs, Arg

(* Nothing is locked exactly if the counter says so.  *)
LEMMA NoLocks ==
  ASSUME BookInv
  PROVE  lockCnt = 0 <=> \A r \in Reg : ~ regLock[r]
<1> DEFINE L == {r \in Reg : regLock[r]}
<1>1. L \in SUBSET Reg /\ lockCnt = Cardinality(L)
  BY DEF BookInv, LockCountExact
<1>2. Cardinality(L) = 0 <=> L = {}
  <2>1. IsFiniteSet(Reg)
    BY FS_Interval, PoolAssumption DEF Reg, Index
  <2>2. IsFiniteSet(L)
    BY <1>1, <2>1, FS_Subset
  <2> HIDE DEF L
  <2> QED
    BY <2>2, FS_EmptySet
<1> QED
  BY <1>1, <1>2

(* The first lock of a call is granted, and it leaves every other          *)
(* temporary in its register or on the stack, or moves it to the stack.    *)
LEMMA LockGranted ==
  ASSUME BookInv, NEW t \in Tmp, Lock(t), \A r \in Reg : ~ regLock[r]
  PROVE  /\ BookInv'
         /\ t \in live
         /\ held'[t] \in Reg /\ held'[t] = tmpReg'[t]
         /\ \A r \in Reg : regLock'[r] => r = held'[t]
         /\ \A u \in Tmp \ {t} : tmpReg'[u] = tmpReg[u] \/ tmpReg'[u] = NULL
         /\ UNCHANGED <<live, top, offset, frame, list, sp>>
         /\ DOMAIN mem' = DOMAIN mem
<1>1. lockCnt = 0 /\ lockCnt < LockMax /\ t \in live /\ ~ (lockCnt >= LockMax)
  BY NoLocks, CallAssumption, PoolAssumption DEF Lock
<1>2. held' = [held EXCEPT ![t] = tmpReg'[t]]
  BY <1>1 DEF Lock, LockFull
<1>3. held \in [Tmp -> Reg \cup {NULL}] /\ tmpReg \in [Tmp -> Reg \cup {NULL}]
      /\ regLock \in [Reg -> BOOLEAN]
  BY DEF BookInv, TypeOK
<1>4. held'[t] = tmpReg'[t]
  BY <1>2, <1>3
<1>5. CASE LockInRegBook(t) /\ UNCHANGED machine
  <2>1. BookInv'
    BY <1>1, <1>2, <1>5, LockInRegInv
  <2>2. /\ tmpReg' = tmpReg /\ tmpReg[t] # NULL
        /\ regLock' = [regLock EXCEPT ![tmpReg[t]] = TRUE]
        /\ UNCHANGED <<live, top, offset, frame, list, sp, mem>>
    BY <1>5 DEF LockInRegBook, machine
  <2>3. tmpReg[t] \in Reg
    BY <1>3, <2>2
  <2>4. \A r \in Reg : regLock'[r] => r = tmpReg[t]
    BY <1>3, <2>2
  <2> QED
    BY <1>1, <1>4, <2>1, <2>2, <2>3, <2>4
<1>6. CASE LockSwapBook(t) /\ LockSwapCode(t)
  <2> DEFINE r == list[FirstUnlocked]
             u == regTmp[r]
  <2>1. BookInv'
    BY <1>1, <1>2, <1>6, LockSwapInv
  <2>2. /\ tmpReg' = [tmpReg EXCEPT ![u] = NULL, ![t] = r]
        /\ regLock' = [regLock EXCEPT ![r] = TRUE]
        /\ UNCHANGED <<live, top, offset, frame, list, sp>>
        /\ DOMAIN mem' = DOMAIN mem
    BY <1>6 DEF LockSwapBook, LockSwapCode
  <2>3. r \in Reg
    BY <1>1, FirstUnlockedFound DEF BookInv, TypeOK
  <2> HIDE DEF r, u
  <2>4. tmpReg'[t] = r
    BY <1>3, <2>2
  <2>5. \A q \in Reg : regLock'[q] => q = r
    BY <1>3, <2>2
  <2>6. \A w \in Tmp \ {t} : tmpReg'[w] = tmpReg[w] \/ tmpReg'[w] = NULL
    BY <1>3, <2>2
  <2> QED
    BY <1>1, <1>4, <2>1, <2>2, <2>3, <2>4, <2>5, <2>6
<1> QED
  BY <1>1, <1>5, <1>6 DEF Lock, LockFull

(* Unlocking the one temporary that is locked leaves nothing locked.  *)
LEMMA UnlockReleases ==
  ASSUME BookInv, NEW t \in Tmp, Unlock(t), held[t] # NULL,
         \A r \in Reg : regLock[r] => r = held[t]
  PROVE  /\ BookInv'
         /\ \A r \in Reg : ~ regLock'[r]
         /\ UNCHANGED <<live, top, offset, frame, list, tmpReg, tmpAddr, rv, mem, sp>>
<1>1. t \in live /\ UNCHANGED <<live, top, offset, frame, list, tmpReg, tmpAddr, rv, mem, sp>>
  BY DEF Unlock, UnlockBook, machine
<1>2. BookInv'
  BY <1>1, UnlockInv
<1>3. tmpReg[t] = held[t] /\ regLock[held[t]]
  BY <1>1 DEF BookInv, HeldNameValid
<1>4. regLock' = [regLock EXCEPT ![held[t]] = FALSE]
  BY <1>3 DEF Unlock, UnlockBook
<1>5. regLock \in [Reg -> BOOLEAN] /\ held[t] \in Reg
  BY DEF BookInv, TypeOK
<1>6. \A r \in Reg : ~ regLock'[r]
  BY <1>4, <1>5
<1> QED
  BY <1>1, <1>2, <1>6

(* The pool's books are not touched while the call moves words about.  *)
LEMMA BookAgain ==
  ASSUME BookInv, UNCHANGED <<book, held, mem>>, rv' \in [Reg -> Val], sp' \in Nat
  PROVE  BookInv'
<1>1. UNCHANGED <<list, top, spill, spillMax, lockCnt, regTmp, regLock, live,
                  tmpReg, tmpAddr, offset, frame, held, mem>>
  BY DEF book
<1>2. TypeOK'
  BY <1>1 DEF BookInv, TypeOK
<1>3. RegistersInUseFirst' /\ SpillSlotsContiguous' /\ SlotsInStep'
  BY <1>1 DEF BookInv, RegistersInUseFirst, SpillSlotsContiguous, SlotsInStep, Spilled, Slot
<1>4. LockCountExact' /\ HeldNameValid'
  BY <1>1 DEF BookInv, LockCountExact, HeldNameValid
<1> QED
  BY <1>2, <1>3, <1>4 DEF BookInv

(* The depths of the stack pointer during a call.  *)
LEMMA Depths ==
  ASSUME offset \in Nat, params \in Nat, Len(printBuf) \in Nat, Len(dists) \in Nat
  PROVE  /\ Params \in Nat /\ offset <= Params
         /\ Regs \in Nat /\ Params <= Regs
         /\ Args \in Nat /\ Regs <= Args
<1>1. InRegs(params) \in Nat /\ Len(dists) - InRegs(Len(dists)) \in Nat
  BY InRegsBound
<1> DEFINE a == InRegs(params)
           b == Len(dists) - InRegs(Len(dists))
           c == Len(printBuf)
<1>2. a \in Nat /\ b \in Nat /\ c \in Nat
  BY <1>1
<1>3. Params = offset + a * 8 /\ Regs = Params + c * 4 /\ Args = Regs + b * 8
  BY DEF Params, Regs, Args, RegSize
<1> HIDE DEF a, b, c
<1> QED
  BY <1>2, <1>3

LEMMA FrameTypes ==
  ASSUME FrameInv
  PROVE  /\ offset \in Nat /\ params \in Nat /\ top \in Nat /\ sp \in Nat
         /\ Len(printBuf) \in Nat /\ Len(dists) \in Nat /\ Len(source) \in Nat
         /\ DOMAIN dists = 1 .. Len(dists)
         /\ DOMAIN printBuf = 1 .. Len(printBuf)
         /\ rv \in [Reg -> Val]
BY CallAssumption DEF FrameInv, BookInv, TypeOK, CallType

(* Words that are pushed in a loop.  *)
LEMMA PushedWords ==
  ASSUME NEW words, DOMAIN words \subseteq Nat, NEW size \in {4, 8},
         sp \in Nat, DOMAIN stack \subseteq Nat, \A d \in DOMAIN stack : d <= sp
  PROVE  /\ \A d \in DOMAIN stack :
              d \in DOMAIN Push(words, size) /\ Push(words, size)[d] = stack[d]
         /\ \A i \in DOMAIN words :
              /\ sp + (i + 1) * size \in DOMAIN Push(words, size)
              /\ Push(words, size)[sp + (i + 1) * size] = words[i]
         /\ \A d \in DOMAIN Push(words, size) :
              d \in DOMAIN stack \/ \E i \in DOMAIN words : d = sp + (i + 1) * size
<1> DEFINE places == {sp + (i + 1) * size : i \in DOMAIN words}
           P == Push(words, size)
<1>1. P = [d \in DOMAIN stack \cup places |->
             IF d \in places THEN words[(d - sp) \div size - 1] ELSE stack[d]]
  BY DEF Push
<1>2. \A i \in DOMAIN words :
        /\ sp + (i + 1) * size > sp
        /\ (sp + (i + 1) * size - sp) \div size - 1 = i
  <2>1. CASE size = 4
    BY <2>1
  <2>2. CASE size = 8
    BY <2>2
  <2> QED
    BY <2>1, <2>2
<1>3. \A d \in DOMAIN stack : d \notin places
  <2> SUFFICES ASSUME NEW d \in DOMAIN stack, NEW i \in DOMAIN words,
                      d = sp + (i + 1) * size
               PROVE  FALSE
    OBVIOUS
  <2> QED
    BY <1>2
<1>4. \A i \in DOMAIN words : sp + (i + 1) * size \in DOMAIN P /\ P[sp + (i + 1) * size] = words[i]
  <2> SUFFICES ASSUME NEW i \in DOMAIN words
               PROVE  sp + (i + 1) * size \in DOMAIN P /\ P[sp + (i + 1) * size] = words[i]
    OBVIOUS
  <2> DEFINE d == sp + (i + 1) * size
  <2>1. d \in places /\ (d - sp) \div size - 1 = i
    BY <1>2
  <2> HIDE DEF d, places, P
  <2>2. d \in DOMAIN P /\ P[d] = words[(d - sp) \div size - 1]
    BY <1>1, <2>1
  <2> QED
    BY <2>1, <2>2 DEF d
<1>5. \A d \in DOMAIN P : d \in DOMAIN stack \/ \E i \in DOMAIN words : d = sp + (i + 1) * size
  <2> HIDE DEF P
  <2> QED
    BY <1>1
<1> HIDE DEF places, P
<1>6. \A d \in DOMAIN stack : d \in DOMAIN P /\ P[d] = stack[d]
  BY <1>1, <1>3
<1> QED
  BY <1>4, <1>5, <1>6 DEF P

(* The parameters, in x registers.  *)
LEMMA PushedDoubles ==
  ASSUME NEW words, DOMAIN words \subseteq Nat,
         sp \in Nat, DOMAIN stack \subseteq Nat, \A d \in DOMAIN stack : d <= sp
  PROVE  /\ \A d \in DOMAIN stack :
              d \in DOMAIN Push(words, 8) /\ Push(words, 8)[d] = stack[d]
         /\ \A i \in DOMAIN words :
              /\ sp + (i + 1) * 8 \in DOMAIN Push(words, 8)
              /\ Push(words, 8)[sp + (i + 1) * 8] = words[i]
         /\ \A d \in DOMAIN Push(words, 8) :
              d \in DOMAIN stack \/ \E i \in DOMAIN words : d = sp + (i + 1) * 8
<1>1. 8 \in {4, 8}
  OBVIOUS
<1>2. \A d \in DOMAIN stack :
        d \in DOMAIN Push(words, 8) /\ Push(words, 8)[d] = stack[d]
  BY <1>1, PushedWords
<1>3. \A i \in DOMAIN words : sp + (i + 1) * 8 \in DOMAIN Push(words, 8)
  BY <1>1, PushedWords
<1>4. \A i \in DOMAIN words : Push(words, 8)[sp + (i + 1) * 8] = words[i]
  BY <1>1, PushedWords
<1>5. \A d \in DOMAIN Push(words, 8) :
        d \in DOMAIN stack \/ \E i \in DOMAIN words : d = sp + (i + 1) * 8
  BY <1>1, PushedWords
<1> QED
  BY <1>2, <1>3, <1>4, <1>5

(* The pool registers, in w registers.  *)
LEMMA PushedSingles ==
  ASSUME NEW words, DOMAIN words \subseteq Nat,
         sp \in Nat, DOMAIN stack \subseteq Nat, \A d \in DOMAIN stack : d <= sp
  PROVE  /\ \A d \in DOMAIN stack :
              d \in DOMAIN Push(words, 4) /\ Push(words, 4)[d] = stack[d]
         /\ \A i \in DOMAIN words :
              /\ sp + (i + 1) * 4 \in DOMAIN Push(words, 4)
              /\ Push(words, 4)[sp + (i + 1) * 4] = words[i]
         /\ \A d \in DOMAIN Push(words, 4) :
              d \in DOMAIN stack \/ \E i \in DOMAIN words : d = sp + (i + 1) * 4
<1>1. 4 \in {4, 8}
  OBVIOUS
<1>2. \A d \in DOMAIN stack :
        d \in DOMAIN Push(words, 4) /\ Push(words, 4)[d] = stack[d]
  BY <1>1, PushedWords
<1>3. \A i \in DOMAIN words : sp + (i + 1) * 4 \in DOMAIN Push(words, 4)
  BY <1>1, PushedWords
<1>4. \A i \in DOMAIN words : Push(words, 4)[sp + (i + 1) * 4] = words[i]
  BY <1>1, PushedWords
<1>5. \A d \in DOMAIN Push(words, 4) :
        d \in DOMAIN stack \/ \E i \in DOMAIN words : d = sp + (i + 1) * 4
  BY <1>1, PushedWords
<1> QED
  BY <1>2, <1>3, <1>4, <1>5

-----------------------------------------------------------------------------
(* Every step keeps the frame of the call.  *)
LEMMA FrameInit == CallInit => FrameInv
<1> SUFFICES ASSUME CallInit PROVE FrameInv
  OBVIOUS
<1>1. BookInv /\ sp = offset
  BY InitInv, BookOfPool DEF CallInit
<1>2. \A r \in Reg : ~ regLock[r]
  BY DEF CallInit, Init, BookInit
<1>3. CallType
  <2>1. (CHOOSE v \in Val : TRUE) \in Val
    BY PoolAssumption
  <2> QED
    BY <2>1 DEF CallInit, CallType
<1>4. StackDepth /\ PushedInv
  BY <1>1 DEF CallInit, StackDepth, PushedInv, Calling, Passing, Saved
<1>5. LoopInv /\ LocksInv
  BY <1>2 DEF CallInit, LoopInv, LocksInv, Calling, Passing, Resulting
<1> QED
  BY <1>1, <1>3, <1>4, <1>5 DEF FrameInv

LEMMA EvalFrame ==
  ASSUME FrameInv, Eval
  PROVE  FrameInv'
<1>1. BookInv /\ sp = offset
  BY DEF FrameInv, StackDepth, Eval, Calling, Passing
<1>2. [Next]_vars
  <2>1. PICK t \in Tmp : Alloc(t) \/ Lock(t) \/ Unlock(t) \/ Free(t)
    BY DEF Eval
  <2> QED
    BY <2>1 DEF Next
<1>3. PoolInv'
  BY <1>1, <1>2, BookOfPool, StepInv
<1>4. BookInv' /\ sp' = offset'
  BY <1>3 DEF PoolInv, BookInv, StackInStep, SlotsInStep
<1>5. UNCHANGED callVars /\ pc = "eval"
  BY DEF Eval
<1>6. CallType'
  BY <1>5 DEF FrameInv, CallType, callVars
<1>7. StackDepth' /\ PushedInv'
  BY <1>4, <1>5 DEF FrameInv, StackDepth, PushedInv, callVars, Calling, Passing, Saved
<1>8. LoopInv' /\ LocksInv'
  BY <1>5 DEF FrameInv, LoopInv, LocksInv, callVars, Calling, Passing, Resulting
<1> QED
  BY <1>4, <1>6, <1>7, <1>8 DEF FrameInv

LEMMA SaveArgumentsFrame ==
  ASSUME FrameInv, NEW k \in {"call", "write", "plain"},
         NEW ds \in SeqsUpTo(live, MaxArgs), SaveArguments(k, ds)
  PROVE  /\ FrameInv'
         /\ \A i \in 0 .. InRegs(params) - 1 : stack'[offset + (i + 1) * 8] = xreg[i]
<1> DEFINE n == InRegs(params)
           w == [i \in 0 .. n - 1 |-> xreg[i]]
<1>1. /\ pc = "eval" /\ lockCnt = 0 /\ pc' = "callerSave"
      /\ kind' = k /\ dists' = ds
      /\ k = "plain" => ds = << >>
      /\ k = "call" => Len(ds) > 0
      /\ k = "write" => Len(ds) = 1 /\ top <= 2
      /\ stack' = Push(w, 8)
      /\ sp' = sp + n * 8
      /\ UNCHANGED <<book, held, rv, mem, params, source, next, result,
                     printBuf, xreg, ret>>
      /\ UNCHANGED <<top, live, regLock, offset>>
  BY DEF SaveArguments, book
<1>2. n \in Nat /\ n <= ArgRegs /\ offset \in Nat /\ sp \in Nat /\ sp = offset
  BY <1>1, FrameTypes, InRegsBound DEF FrameInv, StackDepth, Calling, Passing
<1>3. ds \in Seq(Tmp) /\ \A i \in DOMAIN ds : ds[i] \in live
  <2>1. PICK m \in 0 .. MaxArgs : ds \in [1 .. m -> live]
    BY DEF SeqsUpTo
  <2>2. live \subseteq Tmp
    BY DEF FrameInv, BookInv, TypeOK
  <2>3. m \in Nat
    BY CallAssumption
  <2> QED
    BY <2>1, <2>2, <2>3
<1>4. DOMAIN stack = {} /\ source = << >> /\ printBuf = << >> /\ result = NULL
  <2>1. pc \notin Calling /\ pc \notin Resulting /\ pc \notin Passing
    BY <1>1 DEF Calling, Passing, Resulting
  <2> QED
    BY <1>1, <2>1 DEF FrameInv, PushedInv, LoopInv
<1>5. /\ \A i \in 0 .. n - 1 :
           /\ sp + (i + 1) * 8 \in DOMAIN stack'
           /\ stack'[sp + (i + 1) * 8] = xreg[i]
      /\ \A d \in DOMAIN stack' :
           /\ d \in Nat /\ d <= sp' /\ d > sp
           /\ \E i \in 0 .. n - 1 : d = sp + (i + 1) * 8
  <2> HIDE DEF n
  <2>1. DOMAIN w = 0 .. n - 1 /\ \A i \in 0 .. n - 1 : w[i] = xreg[i]
    OBVIOUS
  <2> HIDE DEF w
  <2>2. DOMAIN stack \subseteq Nat /\ \A d \in DOMAIN stack : d <= sp
    BY <1>4
  <2>3. /\ \A i \in 0 .. n - 1 :
             /\ sp + (i + 1) * 8 \in DOMAIN Push(w, 8)
             /\ Push(w, 8)[sp + (i + 1) * 8] = w[i]
        /\ \A d \in DOMAIN Push(w, 8) :
             d \in DOMAIN stack \/ \E i \in 0 .. n - 1 : d = sp + (i + 1) * 8
    <3>1. DOMAIN w \subseteq Nat
      BY <2>1
    <3>2. /\ \A i \in DOMAIN w :
               /\ sp + (i + 1) * 8 \in DOMAIN Push(w, 8)
               /\ Push(w, 8)[sp + (i + 1) * 8] = w[i]
          /\ \A d \in DOMAIN Push(w, 8) :
               d \in DOMAIN stack \/ \E i \in DOMAIN w : d = sp + (i + 1) * 8
      BY <1>2, <2>2, <3>1, PushedDoubles
    <3> QED
      BY <2>1, <3>2
  <2>4. \A i \in 0 .. n - 1 :
          sp + (i + 1) * 8 \in Nat /\ sp + (i + 1) * 8 <= sp + n * 8 /\ sp + (i + 1) * 8 > sp
    BY <1>2
  <2> QED
    BY <1>1, <1>4, <2>1, <2>3, <2>4
<1>6. CallType'
  <2>1. \A i \in 0 .. n - 1 : xreg[i] \in Val
    BY <1>2, CallAssumption DEF FrameInv, CallType, Arg
  <2>2. \A d \in DOMAIN stack' : stack'[d] \in Val
    <3> HIDE DEF n
    <3> QED
      BY <1>5, <2>1
  <2> QED
    BY <1>1, <1>3, <1>5, <2>2 DEF FrameInv, CallType, Calling
<1>7. Params' = sp' /\ Params' = sp + n * 8
  BY <1>1, <1>2 DEF Params, InRegs
<1>8. StackDepth'
  BY <1>1, <1>7 DEF StackDepth, Calling, Passing
<1>9. PushedInv'
  <2>1. InRegs(params)' = n
    BY <1>1 DEF InRegs
  <2> HIDE DEF n
  <2> QED
    BY <1>1, <1>2, <1>5, <2>1 DEF PushedInv, Calling, Passing, Saved
<1>10. LoopInv'
  BY <1>1, <1>3, <1>4 DEF LoopInv, Passing, Resulting
<1>11. LocksInv'
  <2>1. \A r \in Reg : ~ regLock[r]
    BY <1>1, NoLocks DEF FrameInv
  <2> QED
    BY <1>1, <2>1 DEF LocksInv, Calling, Passing
<1>12. BookInv'
  <2> HIDE DEF n
  <2>1. sp' \in Nat
    BY <1>1, <1>2
  <2>2. rv' \in [Reg -> Val]
    BY <1>1, FrameTypes
  <2> QED
    BY <1>1, <2>1, <2>2, BookAgain DEF FrameInv
<1>13. \A i \in 0 .. n - 1 : stack'[offset + (i + 1) * 8] = xreg[i]
  BY <1>2, <1>5
<1> QED
  BY <1>6, <1>8, <1>9, <1>10, <1>11, <1>12, <1>13 DEF FrameInv

LEMMA CallerSaveFrame ==
  ASSUME FrameInv, CallerSave
  PROVE  /\ FrameInv'
         /\ \A d \in DOMAIN stack : stack'[d] = stack[d]
         /\ \A i \in DOMAIN printBuf' :
              /\ i - 1 \in Index /\ i - 1 < top
              /\ printBuf'[i] = list[i - 1]
              /\ stack'[Params + i * RegSize] = rv[printBuf'[i]]
         /\ \A i \in Index : i < top => i + 1 \in DOMAIN printBuf'
<1> DEFINE n == IF top < Num THEN top ELSE Num
           w == [i \in 0 .. n - 1 |-> rv[list[i]]]
           m == Len(dists) - InRegs(Len(dists))
<1>1. /\ pc = "callerSave"
      /\ pc' = IF kind = "plain" THEN "branch" ELSE "lock"
      /\ next' = 1
      /\ printBuf' = Popped(n)
      /\ stack' = Push(w, RegSize)
      /\ sp' = sp + n * RegSize + m * 8
      /\ UNCHANGED <<book, held, rv, mem, kind, params, dists, source, result,
                     xreg, ret>>
      /\ UNCHANGED <<top, live, regLock, offset>>
  BY DEF CallerSave, book
<1>2. /\ n \in Nat /\ n <= Num /\ m \in Nat /\ offset \in Nat /\ sp \in Nat
      /\ sp = Params /\ offset <= sp
      /\ source = << >> /\ Len(dists) \in Nat
  <2>1. sp = Params /\ source = << >>
    BY <1>1 DEF FrameInv, StackDepth, LoopInv, Passing
  <2>2. m \in Nat
    BY FrameTypes, InRegsBound
  <2> QED
    BY <2>1, <2>2, FrameTypes, Depths, PoolAssumption
<1>3. /\ \A d \in DOMAIN stack : d \in Nat /\ d <= sp /\ offset < d
      /\ \A i \in 0 .. InRegs(params) - 1 : offset + (i + 1) * 8 \in DOMAIN stack
      /\ DOMAIN stack \subseteq Nat
  <2>1. pc \in Calling /\ pc \in {"callerSave"} \cup Passing
    BY <1>1 DEF Calling
  <2>2. DOMAIN stack \subseteq Nat /\ PushedInv
    BY DEF FrameInv, CallType
  <2> QED
    BY <1>2, <2>1, <2>2 DEF PushedInv
<1>4. \A i \in 0 .. n - 1 : list[i] \in Reg /\ rv[list[i]] \in Val
  <2>1. list \in [0 .. Num - 1 -> Reg] /\ rv \in [Reg -> Val]
    BY FrameTypes DEF FrameInv, BookInv, TypeOK, Index
  <2> HIDE DEF n
  <2> QED
    BY <1>2, <2>1, PoolAssumption
<1>5. printBuf' \in Seq(Reg) /\ Len(printBuf') = n /\ DOMAIN printBuf' = 1 .. n
  <2>1. \A i \in 1 .. n : list[i - 1] \in Reg
    BY <1>2, <1>4
  <2>2. printBuf' = [i \in 1 .. n |-> list[i - 1]]
    BY <1>1 DEF Popped
  <2> HIDE DEF n
  <2> QED
    BY <1>2, <2>1, <2>2
<1>6. /\ \A d \in DOMAIN stack : d \in DOMAIN stack' /\ stack'[d] = stack[d]
      /\ \A i \in 0 .. n - 1 :
           /\ sp + (i + 1) * RegSize \in DOMAIN stack'
           /\ stack'[sp + (i + 1) * RegSize] = rv[list[i]]
      /\ \A d \in DOMAIN stack' :
           /\ d \in Nat /\ d <= sp + n * RegSize
           /\ \/ d \in DOMAIN stack
              \/ d > sp /\ \E i \in 0 .. n - 1 : d = sp + (i + 1) * RegSize
  <2> HIDE DEF n
  <2>1. DOMAIN w = 0 .. n - 1 /\ \A i \in 0 .. n - 1 : w[i] = rv[list[i]]
    OBVIOUS
  <2> HIDE DEF w
  <2>2. RegSize = 4
    BY DEF RegSize
  <2>3. /\ \A d \in DOMAIN stack : d \in DOMAIN Push(w, 4) /\ Push(w, 4)[d] = stack[d]
        /\ \A i \in 0 .. n - 1 :
             /\ sp + (i + 1) * 4 \in DOMAIN Push(w, 4)
             /\ Push(w, 4)[sp + (i + 1) * 4] = w[i]
        /\ \A d \in DOMAIN Push(w, 4) :
             d \in DOMAIN stack \/ \E i \in 0 .. n - 1 : d = sp + (i + 1) * 4
    <3>1. DOMAIN w \subseteq Nat
      BY <2>1
    <3>2. /\ \A d \in DOMAIN stack : d \in DOMAIN Push(w, 4) /\ Push(w, 4)[d] = stack[d]
          /\ \A i \in DOMAIN w :
               /\ sp + (i + 1) * 4 \in DOMAIN Push(w, 4)
               /\ Push(w, 4)[sp + (i + 1) * 4] = w[i]
          /\ \A d \in DOMAIN Push(w, 4) :
               d \in DOMAIN stack \/ \E i \in DOMAIN w : d = sp + (i + 1) * 4
      BY <1>2, <1>3, <3>1, PushedSingles
    <3> QED
      BY <2>1, <3>2
  <2>4. \A i \in 0 .. n - 1 :
          sp + (i + 1) * 4 \in Nat /\ sp + (i + 1) * 4 <= sp + n * 4 /\ sp + (i + 1) * 4 > sp
    BY <1>2
  <2>5. \A d \in DOMAIN stack : d \in Nat /\ d <= sp + n * 4
    BY <1>2, <1>3
  <2> QED
    BY <1>1, <2>1, <2>2, <2>3, <2>4, <2>5
<1>14. /\ \A i \in 1 .. n : i - 1 \in Index /\ i - 1 < top /\ i - 1 \in 0 .. n - 1
       /\ \A i \in Index : i < top => i + 1 \in 1 .. n
  BY FrameTypes, PoolAssumption DEF Index
<1> HIDE DEF n, m
<1>15. \A i \in 1 .. n : printBuf'[i] = list[i - 1]
  BY <1>1 DEF Popped
<1>16. \A i \in 1 .. n : stack'[Params + i * RegSize] = rv[printBuf'[i]]
  <2> SUFFICES ASSUME NEW i \in 1 .. n PROVE stack'[Params + i * RegSize] = rv[list[i - 1]]
    BY <1>15
  <2>1. i - 1 \in 0 .. n - 1 /\ (i - 1) + 1 = i
    BY <1>2
  <2> QED
    BY <1>2, <1>6, <2>1
<1>7. CallType'
  <2>1. \A d \in DOMAIN stack' : stack'[d] \in Val
    <3>1. \A d \in DOMAIN stack : stack[d] \in Val
      BY DEF FrameInv, CallType
    <3> QED
      BY <1>4, <1>6, <3>1
  <2> QED
    BY <1>1, <1>5, <1>6, <2>1 DEF FrameInv, CallType, Calling, Passing
<1>8. /\ Params' = sp /\ Regs' = sp + n * RegSize
      /\ Args' = sp + n * RegSize + m * 8
  BY <1>1, <1>2, <1>5 DEF Params, Regs, Args, InRegs, m
<1>9. StackDepth'
  BY <1>1, <1>8 DEF StackDepth, Calling, Passing
<1>10. PushedInv'
  <2>1. InRegs(params)' = InRegs(params)
    BY <1>1 DEF InRegs
  <2>2. \A i \in DOMAIN printBuf' : Params' + i * RegSize \in DOMAIN stack'
    <3> SUFFICES ASSUME NEW i \in 1 .. n PROVE sp + i * RegSize \in DOMAIN stack'
      BY <1>5, <1>8
    <3>1. i - 1 \in 0 .. n - 1 /\ (i - 1) + 1 = i
      BY <1>2
    <3> QED
      BY <1>6, <3>1
  <2>3. \A d \in DOMAIN stack' : offset < d /\ d <= sp'
    BY <1>1, <1>2, <1>3, <1>6 DEF RegSize
  <2>4. \A i \in 0 .. InRegs(params) - 1 : offset + (i + 1) * 8 \in DOMAIN stack'
    BY <1>3, <1>6
  <2> QED
    BY <1>1, <2>1, <2>2, <2>3, <2>4 DEF PushedInv, Calling, Passing, Saved
<1>11. LoopInv'
  <2>1. Len(source) = 0 /\ (kind = "plain" => Len(dists) = 0)
    BY <1>1, <1>2 DEF FrameInv, LoopInv
  <2>2. kind # "plain" => Len(dists) >= 1
    <3>1. kind \in {"call", "write", "plain"} /\ LoopInv
      BY DEF FrameInv, CallType
    <3> QED
      BY <1>2, <3>1 DEF LoopInv
  <2>3. pc' \in {"branch", "lock"} /\ (pc' = "branch" <=> kind = "plain")
    BY <1>1
  <2>4. UNCHANGED <<source, kind, dists, top, live, result>> /\ next' = 1
    BY <1>1
  <2>5. result = NULL
    BY <1>1 DEF FrameInv, LoopInv, Resulting
  <2>6. \A i \in DOMAIN dists : dists[i] \in live
    BY <1>1 DEF FrameInv, LoopInv
  <2> QED
    BY <1>1, <2>1, <2>2, <2>3, <2>4, <2>5, <2>6 DEF FrameInv, LoopInv, Passing, Resulting
<1>12. LocksInv'
  BY <1>1 DEF FrameInv, LocksInv, Calling, Passing
<1>13. BookInv'
  <2>1. sp' \in Nat
    BY <1>1, <1>2 DEF RegSize
  <2>2. rv' \in [Reg -> Val]
    BY <1>1, FrameTypes
  <2> QED
    BY <1>1, <2>1, <2>2, BookAgain DEF FrameInv
<1> QED
  BY <1>5, <1>6, <1>7, <1>9, <1>10, <1>11, <1>12, <1>13, <1>14, <1>15, <1>16 DEF FrameInv

LEMMA LockArgumentFrame ==
  ASSUME FrameInv, LockArgument
  PROVE  FrameInv'
<1>1. /\ pc = "lock" /\ pc' = "move" /\ Lock(dists[next])
      /\ UNCHANGED <<kind, params, dists, source, next, result, printBuf,
                     xreg, stack, ret>>
  BY DEF LockArgument
<1>2. dists[next] \in Tmp
  <2>1. dists[next] \in live
    BY <1>1 DEF Lock
  <2> QED
    BY <2>1 DEF FrameInv, BookInv, TypeOK
<1>3. \A r \in Reg : ~ regLock[r]
  BY <1>1 DEF FrameInv, LocksInv, Calling, Passing
<1>4. /\ BookInv'
      /\ held'[dists[next]] \in Reg
      /\ \A r \in Reg : regLock'[r] => r = held'[dists[next]]
      /\ UNCHANGED <<live, top, offset, sp>>
  BY <1>1, <1>2, <1>3, LockGranted DEF FrameInv
<1>5. CallType'
  BY <1>1 DEF FrameInv, CallType, Calling, Passing
<1>6. StackDepth' /\ PushedInv'
  <2>1. pc \in Calling /\ pc \in Saved /\ pc \in Passing
        /\ pc' \in Calling /\ pc' \in Saved /\ pc' \in Passing
    BY <1>1 DEF Calling, Saved, Passing
  <2>2. UNCHANGED <<Params, Args, InRegs(params)>>
    BY <1>1, <1>4 DEF Params, Regs, Args, InRegs
  <2>3. StackDepth'
    BY <1>1, <1>4, <2>1, <2>2 DEF FrameInv, StackDepth
  <2>4. PushedInv'
    BY <1>1, <1>4, <2>1, <2>2 DEF FrameInv, PushedInv
  <2> QED
    BY <2>3, <2>4
<1>7. LoopInv'
  BY <1>1, <1>4 DEF FrameInv, LoopInv, Passing, Resulting
<1>8. LocksInv'
  <2>1. held'[dists[next]] # NULL
    BY <1>4, PoolAssumption DEF Reg, Index
  <2> QED
    BY <1>1, <1>4, <2>1 DEF LocksInv, Calling, Passing
<1> QED
  BY <1>4, <1>5, <1>6, <1>7, <1>8 DEF FrameInv

(* The place of an argument on the stack is below everything pushed.  *)
LEMMA ArgumentPlace ==
  ASSUME FrameInv, NEW i \in Nat, i <= Len(dists), i > ArgRegs
  PROVE  /\ Args - (i - 1 - ArgRegs) * 8 \in Nat
         /\ Args - (i - 1 - ArgRegs) * 8 > Regs
         /\ Args - (i - 1 - ArgRegs) * 8 <= Args
<1>1. Len(dists) - InRegs(Len(dists)) = Len(dists) - ArgRegs
  BY FrameTypes, CallAssumption DEF InRegs
<1>2. Regs \in Nat /\ Len(dists) \in Nat
  BY FrameTypes, Depths
<1>3. Args = Regs + (Len(dists) - ArgRegs) * 8
  BY <1>1 DEF Args
<1> QED
  BY <1>2, <1>3, CallAssumption

LEMMA MovedInVal ==
  ASSUME FrameInv, pc = "move", NEW s \in {NULL} \cup (0 .. InRegs(params) - 1)
  PROVE  Moved(s) \in Val /\ s \in Arg \cup {NULL}
<1>1. held \in [Tmp -> Reg \cup {NULL}] /\ rv \in [Reg -> Val] /\ xreg \in [Arg -> Val]
  BY DEF FrameInv, BookInv, TypeOK, CallType
<1>2. CASE s = NULL
  <2>1. dists[next] \in Tmp /\ held[dists[next]] # NULL
    <3>1. next \in DOMAIN dists /\ dists \in Seq(Tmp)
      BY FrameTypes DEF FrameInv, LoopInv, CallType
    <3> QED
      BY <3>1 DEF FrameInv, LocksInv
  <2> QED
    BY <1>1, <1>2, <2>1 DEF Moved
<1>3. CASE s # NULL
  <2>1. s \in Arg
    <3>1. InRegs(params) \in Nat /\ InRegs(params) <= ArgRegs
      BY FrameTypes, InRegsBound
    <3>2. s \in 0 .. InRegs(params) - 1
      BY <1>3
    <3> QED
      BY <3>1, <3>2, CallAssumption DEF Arg
  <2> QED
    BY <1>1, <1>3, <2>1 DEF Moved
<1> QED
  BY <1>2, <1>3

LEMMA MoveArgumentFrame ==
  ASSUME FrameInv, NEW s \in {NULL} \cup (0 .. InRegs(params) - 1), MoveArgument(s)
  PROVE  FrameInv'
<1>1. /\ pc = "move" /\ pc' = "unlock"
      /\ source' = Append(source, s)
      /\ UNCHANGED <<vars, kind, params, dists, next, result, printBuf, ret>>
      /\ UNCHANGED <<live, top, offset, sp, held, regLock, rv>>
  BY DEF MoveArgument, vars
<1>2. Moved(s) \in Val /\ s \in Arg \cup {NULL}
  BY <1>1, MovedInVal
<1>3. sp = Args /\ next <= Len(dists) /\ next \in Nat \ {0} /\ Len(source) = next - 1
  BY <1>1 DEF FrameInv, StackDepth, LoopInv, CallType, Passing
<1>4. /\ xreg' \in [Arg -> Val]
      /\ \A d \in DOMAIN stack : d \in DOMAIN stack'
      /\ \A d \in DOMAIN stack' : d \in Nat /\ stack'[d] \in Val /\ offset < d /\ d <= sp
  <2>1. \A d \in DOMAIN stack : d \in Nat /\ stack[d] \in Val /\ offset < d /\ d <= sp
    BY <1>1 DEF FrameInv, CallType, PushedInv, Passing
  <2>2. CASE next <= ArgRegs
    <3>1. xreg' = [xreg EXCEPT ![next - 1] = Moved(s)] /\ stack' = stack
      BY <2>2 DEF MoveArgument
    <3> QED
      BY <1>2, <2>1, <3>1 DEF FrameInv, CallType
  <2>3. CASE ~ (next <= ArgRegs)
    <3> DEFINE place == sp - (next - 1 - ArgRegs) * 8
    <3>1. /\ xreg' = xreg
          /\ stack' = [d \in DOMAIN stack \cup {place} |->
                         IF d = place THEN Moved(s) ELSE stack[d]]
      BY <2>3 DEF MoveArgument
    <3>2. place \in Nat /\ offset < place /\ place <= sp
      BY <1>3, <2>3, FrameTypes, Depths, ArgumentPlace, CallAssumption
    <3> HIDE DEF place
    <3> QED
      BY <1>2, <2>1, <3>1, <3>2 DEF FrameInv, CallType
  <2> QED
    BY <2>2, <2>3
<1>5. source' \in Seq(Arg \cup {NULL}) /\ Len(source') = next
  <2>1. source \in Seq(Arg \cup {NULL})
    BY DEF FrameInv, CallType
  <2> QED
    BY <1>1, <1>2, <1>3, <2>1
<1>6. BookInv'
  <2>1. UNCHANGED <<book, held, mem>> /\ rv' \in [Reg -> Val] /\ sp' \in Nat
    BY <1>1, FrameTypes DEF vars, book
  <2> QED
    BY <2>1, BookAgain DEF FrameInv
<1>7. CallType'
  <2>1. DOMAIN stack' \subseteq Nat /\ \A d \in DOMAIN stack' : stack'[d] \in Val
    BY <1>4
  <2> QED
    BY <1>1, <1>4, <1>5, <2>1 DEF FrameInv, CallType, Calling, Passing
<1>8. StackDepth' /\ PushedInv'
  <2>1. pc \in Calling /\ pc \in Saved /\ pc \in Passing
        /\ pc' \in Calling /\ pc' \in Saved /\ pc' \in Passing
    BY <1>1 DEF Calling, Saved, Passing
  <2>2. UNCHANGED <<Params, Args, InRegs(params)>>
    BY <1>1 DEF Params, Regs, Args, InRegs
  <2>3. StackDepth'
    BY <1>1, <2>1, <2>2 DEF FrameInv, StackDepth
  <2>4. PushedInv'
    BY <1>1, <1>4, <2>1, <2>2 DEF FrameInv, PushedInv
  <2> QED
    BY <2>3, <2>4
<1>9. LoopInv'
  BY <1>1, <1>3, <1>5 DEF FrameInv, LoopInv, Passing, Resulting
<1>10. LocksInv'
  BY <1>1 DEF FrameInv, LocksInv, Calling, Passing
<1> QED
  BY <1>6, <1>7, <1>8, <1>9, <1>10 DEF FrameInv

LEMMA UnlockArgumentFrame ==
  ASSUME FrameInv, UnlockArgument
  PROVE  FrameInv'
<1>1. /\ pc = "unlock" /\ Unlock(dists[next])
      /\ next' = next + 1
      /\ pc' = IF kind = "write" THEN "freeEarly"
               ELSE IF next < Len(dists) THEN "lock" ELSE "branch"
      /\ UNCHANGED <<kind, params, dists, source, result, printBuf, xreg, stack, ret>>
  BY DEF UnlockArgument
<1>2. dists[next] \in Tmp
  <2>1. dists[next] \in live
    BY <1>1 DEF Unlock
  <2> QED
    BY <2>1 DEF FrameInv, BookInv, TypeOK
<1>3. /\ BookInv'
      /\ \A r \in Reg : ~ regLock'[r]
      /\ UNCHANGED <<live, top, offset, sp>>
  BY <1>1, <1>2, UnlockReleases DEF FrameInv, LocksInv
<1>4. pc' \in {"freeEarly", "lock", "branch"}
  BY <1>1
<1>5. CallType'
  BY <1>1, <1>4 DEF FrameInv, CallType, Calling, Passing
<1>6. StackDepth' /\ PushedInv'
  <2>1. pc \in Calling /\ pc \in Saved /\ pc \in Passing
        /\ pc' \in Calling /\ pc' \in Saved /\ pc' \in Passing
    BY <1>1, <1>4 DEF Calling, Saved, Passing
  <2>2. UNCHANGED <<Params, Args, InRegs(params)>>
    BY <1>1, <1>3 DEF Params, Regs, Args, InRegs
  <2>3. StackDepth'
    BY <1>1, <1>3, <1>4, <2>1, <2>2 DEF FrameInv, StackDepth
  <2>4. PushedInv'
    BY <1>1, <1>3, <1>4, <2>1, <2>2 DEF FrameInv, PushedInv
  <2> QED
    BY <2>3, <2>4
<1>7. LoopInv'
  <2>1. next \in Nat \ {0} /\ next <= Len(dists) /\ Len(dists) \in Nat /\ Len(source) = next
    BY <1>1, FrameTypes DEF FrameInv, LoopInv, CallType
  <2>2. pc' = "lock" => next' <= Len(dists) /\ Len(source) = next' - 1
    BY <1>1, <2>1
  <2>3. pc' \in {"freeEarly", "branch"} => Len(source) = Len(dists)
    <3>1. kind = "write" => Len(dists) = 1
      BY DEF FrameInv, LoopInv
    <3> QED
      BY <1>1, <2>1, <3>1
  <2>4. pc' = "freeEarly" => kind = "write"
    BY <1>1
  <2>5. pc' \notin {"move", "unlock", "eval", "callerSave"} \cup Resulting /\ pc' \in Passing
    BY <1>4 DEF Resulting, Passing
  <2>6. LoopInv /\ pc \in {"callerSave", "lock", "move", "unlock", "freeEarly"} /\ pc \notin Resulting
    BY <1>1 DEF FrameInv, Resulting
  <2>7. UNCHANGED <<kind, dists, source, result, printBuf, live, top>>
    BY <1>1, <1>3
  <2> QED
    BY <2>2, <2>3, <2>4, <2>5, <2>6, <2>7 DEF LoopInv
<1>8. LocksInv'
  BY <1>3, <1>4 DEF LocksInv
<1> QED
  BY <1>3, <1>5, <1>6, <1>7, <1>8 DEF FrameInv

(* With at most two temporaries allocated nothing is spilled.  *)
LEMMA FreeEarlyStep ==
  ASSUME FrameInv, FreeEarly
  PROVE  /\ BookInv'
         /\ dists[1] \in live /\ live' = live \ {dists[1]}
         /\ tmpReg' = [tmpReg EXCEPT ![dists[1]] = NULL]
         /\ tmpAddr' = [tmpAddr EXCEPT ![dists[1]] = 0]
         /\ tmpReg[dists[1]] # NULL
         /\ UNCHANGED <<regLock, offset, rv, mem, sp>>
<1>1. pc = "freeEarly" /\ Free(dists[1])
  BY DEF FreeEarly
<1>2. top <= 2 /\ top \in Nat
  BY <1>1, FrameTypes DEF FrameInv, LoopInv
<1>3. ~ (top > Num) /\ Num \in Nat
  BY <1>2, CallAssumption, PoolAssumption
<1>4. /\ dists[1] \in live /\ Unlocked(dists[1])
      /\ FreeRegBook(dists[1]) /\ UNCHANGED machine
      /\ held' = [held EXCEPT ![dists[1]] = NULL]
  BY <1>1, <1>3 DEF Free, FreeRegLoadBook, FreeSlotBook
<1>5. BookInv'
  BY <1>4, FreeRegInv DEF FrameInv
<1>6. tmpReg[dists[1]] # NULL
  BY <1>3, <1>4, SpillIndexFound DEF FrameInv
<1> QED
  BY <1>4, <1>5, <1>6 DEF FreeRegBook, machine

LEMMA FreeEarlyFrame ==
  ASSUME FrameInv, FreeEarly
  PROVE  FrameInv'
<1>1. /\ pc = "freeEarly" /\ pc' = "branch"
      /\ UNCHANGED <<kind, params, dists, source, next, result, printBuf, xreg,
                     stack, ret>>
  BY DEF FreeEarly
<1>2. BookInv' /\ UNCHANGED <<regLock, offset, sp>>
  BY FreeEarlyStep
<1>3. CallType'
  BY <1>1 DEF FrameInv, CallType, Calling, Passing
<1>4. StackDepth' /\ PushedInv'
  <2>1. pc \in Calling /\ pc \in Saved /\ pc \in Passing
        /\ pc' \in Calling /\ pc' \in Saved /\ pc' \in Passing
    BY <1>1 DEF Calling, Saved, Passing
  <2>2. UNCHANGED <<Params, Args, InRegs(params)>>
    BY <1>1, <1>2 DEF Params, Regs, Args, InRegs
  <2>3. StackDepth'
    BY <1>1, <1>2, <2>1, <2>2 DEF FrameInv, StackDepth
  <2>4. PushedInv'
    BY <1>1, <1>2, <2>1, <2>2 DEF FrameInv, PushedInv
  <2> QED
    BY <2>3, <2>4
<1>5. LoopInv'
  BY <1>1 DEF FrameInv, LoopInv, Passing, Resulting
<1>6. LocksInv'
  BY <1>1, <1>2 DEF FrameInv, LocksInv, Calling, Passing
<1> QED
  BY <1>2, <1>3, <1>4, <1>5, <1>6 DEF FrameInv

LEMMA BranchFrame ==
  ASSUME FrameInv, NEW v \in Val, NEW w \in Val, Branch(v, w)
  PROVE  /\ FrameInv'
         /\ \A d \in DOMAIN stack : stack'[d] = stack[d]
<1>1. /\ pc = "branch" /\ pc' = "callerLoad"
      /\ rv' = [r \in Reg |-> v]
      /\ xreg' = [i \in Arg |-> w]
      /\ ret' = w
      /\ source' = << >>
      /\ stack' = Above(sp)
      /\ sp' = sp - (Len(dists) - InRegs(Len(dists))) * 8
      /\ UNCHANGED <<book, held, mem, kind, params, dists, next, result, printBuf>>
      /\ UNCHANGED <<live, top, offset, regLock>>
  BY DEF Branch, book
<1>2. sp = Args /\ \A d \in DOMAIN stack : d <= sp
  BY <1>1 DEF FrameInv, StackDepth, PushedInv, Passing
<1>3. /\ sp' = Regs /\ Regs' = Regs /\ Params' = Params /\ InRegs(params)' = InRegs(params)
      /\ Regs \in Nat
  <2>1. Regs \in Nat /\ Len(dists) - InRegs(Len(dists)) \in Nat
    BY FrameTypes, Depths, InRegsBound
  <2>2. sp' = Regs
    BY <1>1, <1>2, <2>1 DEF Args
  <2> QED
    BY <1>1, <2>1, <2>2 DEF Params, Regs, InRegs
<1>4. DOMAIN stack' = DOMAIN stack /\ \A d \in DOMAIN stack : stack'[d] = stack[d]
  BY <1>1, <1>2 DEF Above
<1>5. BookInv'
  <2>1. rv' \in [Reg -> Val] /\ sp' \in Nat
    BY <1>1, <1>3
  <2> QED
    BY <1>1, <2>1, BookAgain DEF FrameInv
<1>6. CallType'
  <2>1. xreg' \in [Arg -> Val] /\ source' \in Seq(Arg \cup {NULL})
    BY <1>1
  <2>2. DOMAIN stack' \subseteq Nat /\ \A d \in DOMAIN stack' : stack'[d] \in Val
    BY <1>4 DEF FrameInv, CallType
  <2> QED
    BY <1>1, <2>1, <2>2 DEF FrameInv, CallType, Calling
<1>7. StackDepth'
  BY <1>1, <1>3 DEF StackDepth, Calling, Passing
<1>8. PushedInv'
  BY <1>1, <1>3, <1>4 DEF FrameInv, PushedInv, Calling, Saved, Passing
<1>9. LoopInv'
  BY <1>1 DEF FrameInv, LoopInv, Passing, Resulting
<1>10. LocksInv'
  BY <1>1 DEF FrameInv, LocksInv, Calling, Passing
<1> QED
  BY <1>4, <1>5, <1>6, <1>7, <1>8, <1>9, <1>10 DEF FrameInv

LEMMA CallerLoadFrame ==
  ASSUME FrameInv, CallerLoad
  PROVE  FrameInv'
<1> DEFINE n == Len(printBuf)
           At(r) == CHOOSE i \in 1 .. n : printBuf[i] = r
<1>1. /\ pc = "callerLoad" /\ pc' = "loadArguments"
      /\ sp' = sp - n * RegSize
      /\ rv' = [r \in Reg |-> IF \E i \in 1 .. n : printBuf[i] = r
                              THEN stack[sp - n * RegSize + RegSize * At(r)]
                              ELSE rv[r]]
      /\ UNCHANGED <<book, held, mem, kind, params, dists, source, next, result,
                     printBuf, xreg, stack, ret>>
      /\ UNCHANGED <<live, top, offset, regLock>>
  BY DEF CallerLoad, book
<1>2. sp = Regs
  BY <1>1 DEF FrameInv, StackDepth
<1>3. sp' = Params /\ sp' \in Nat /\ sp - n * RegSize = Params
  <2>1. Params \in Nat /\ n \in Nat
    BY FrameTypes, Depths
  <2> HIDE DEF n
  <2>2. Regs = Params + n * 4
    BY DEF Regs, RegSize, n
  <2> QED
    BY <1>1, <1>2, <2>1, <2>2 DEF RegSize
<1>4. \A i \in 1 .. n : Params + RegSize * i \in DOMAIN stack
  <2>1. \A i \in DOMAIN printBuf : Params + i * RegSize \in DOMAIN stack
    BY <1>1 DEF FrameInv, PushedInv, Saved
  <2>2. \A i \in 1 .. n : i * RegSize = RegSize * i
    BY DEF RegSize
  <2> QED
    BY <2>1, <2>2, FrameTypes
<1>5. rv' \in [Reg -> Val]
  <2> SUFFICES ASSUME NEW r \in Reg
               PROVE  (IF \E i \in 1 .. n : printBuf[i] = r
                       THEN stack[sp - n * RegSize + RegSize * At(r)]
                       ELSE rv[r]) \in Val
    BY <1>1
  <2>1. CASE \E i \in 1 .. n : printBuf[i] = r
    <3>1. At(r) \in 1 .. n
      BY <2>1
    <3> HIDE DEF At
    <3>2. Params + RegSize * At(r) \in DOMAIN stack
      BY <1>4, <3>1
    <3>3. stack[Params + RegSize * At(r)] \in Val
      BY <3>2 DEF FrameInv, CallType
    <3> QED
      BY <1>3, <2>1, <3>3
  <2>2. CASE ~ \E i \in 1 .. n : printBuf[i] = r
    BY <2>2, FrameTypes
  <2> QED
    BY <2>1, <2>2
<1>6. BookInv'
  BY <1>1, <1>3, <1>5, BookAgain DEF FrameInv
<1>7. CallType'
  BY <1>1 DEF FrameInv, CallType, Calling
<1>8. StackDepth'
  <2>1. Params' = Params
    BY <1>1 DEF Params, InRegs
  <2> QED
    BY <1>1, <1>3, <2>1 DEF StackDepth, Calling, Passing
<1>9. PushedInv'
  <2>1. InRegs(params)' = InRegs(params)
    BY <1>1 DEF InRegs
  <2> QED
    BY <1>1, <2>1 DEF FrameInv, PushedInv, Calling, Saved, Passing
<1>10. LoopInv'
  BY <1>1 DEF FrameInv, LoopInv, Passing, Resulting
<1>11. LocksInv'
  BY <1>1 DEF FrameInv, LocksInv, Calling, Passing
<1> QED
  BY <1>6, <1>7, <1>8, <1>9, <1>10, <1>11 DEF FrameInv

LEMMA LoadArgumentsFrame ==
  ASSUME FrameInv, LoadArguments
  PROVE  FrameInv'
<1> DEFINE n == InRegs(params)
<1>1. /\ pc = "loadArguments"
      /\ sp' = sp - n * 8
      /\ xreg' = Restored(n, sp - n * 8)
      /\ stack' = Above(sp - n * 8)
      /\ next' = 1
      /\ pc' = IF kind = "call" THEN "free" ELSE "lockResult"
      /\ UNCHANGED <<book, held, rv, mem, kind, params, dists, source, result,
                     printBuf, ret>>
      /\ UNCHANGED <<live, top, offset, regLock>>
  BY DEF LoadArguments, book
<1>2. sp = Params /\ n \in Nat /\ offset \in Nat
  BY <1>1, FrameTypes, InRegsBound DEF FrameInv, StackDepth
<1>3. sp - n * 8 = offset
  BY <1>2 DEF Params
<1>4. DOMAIN stack' = {}
  <2>1. \A d \in DOMAIN stack : d \in Nat /\ offset < d
    BY DEF FrameInv, PushedInv, CallType
  <2>2. DOMAIN stack' = {e \in DOMAIN stack : e <= offset}
    BY <1>1, <1>3 DEF Above
  <2> QED
    BY <1>2, <2>1, <2>2
<1>5. xreg' \in [Arg -> Val]
  <2> SUFFICES ASSUME NEW i \in Arg
               PROVE  (IF i < n THEN stack[offset + (i + 1) * 8] ELSE xreg[i]) \in Val
    BY <1>1, <1>3 DEF Restored
  <2>1. CASE i < n
    <3>1. i \in 0 .. n - 1
      BY <1>2, <2>1, CallAssumption DEF Arg
    <3>2. offset + (i + 1) * 8 \in DOMAIN stack
      BY <1>1, <3>1 DEF FrameInv, PushedInv, Calling
    <3> QED
      BY <2>1, <3>2 DEF FrameInv, CallType
  <2>2. CASE ~ (i < n)
    BY <2>2 DEF FrameInv, CallType
  <2> QED
    BY <2>1, <2>2
<1>6. pc' \in {"free", "lockResult"} /\ sp' = offset'
  BY <1>1, <1>3
<1>7. BookInv'
  <2>1. rv' \in [Reg -> Val] /\ sp' \in Nat
    BY <1>1, <1>2, <1>3, FrameTypes
  <2> QED
    BY <1>1, <2>1, BookAgain DEF FrameInv
<1>8. CallType'
  <2>1. DOMAIN stack' \subseteq Nat /\ \A d \in DOMAIN stack' : stack'[d] \in Val
    BY <1>4
  <2> QED
    BY <1>1, <1>5, <1>6, <2>1 DEF FrameInv, CallType, Over
<1>9. StackDepth' /\ PushedInv'
  BY <1>4, <1>6 DEF StackDepth, PushedInv, Calling, Passing, Saved
<1>10. LoopInv'
  BY <1>1, <1>6 DEF FrameInv, LoopInv, Passing, Resulting
<1>11. LocksInv'
  BY <1>1, <1>6 DEF FrameInv, LocksInv, Calling, Passing
<1> QED
  BY <1>7, <1>8, <1>9, <1>10, <1>11 DEF FrameInv

(* Before and after the call proper the steps are those of the pool.  *)
LEMMA OutsideCall ==
  ASSUME FrameInv, pc \notin Calling, pc' \notin Calling, [Next]_vars, UNCHANGED stack
  PROVE  BookInv' /\ sp' = offset' /\ StackDepth' /\ PushedInv'
<1>1. PoolInv
  BY BookOfPool DEF FrameInv, StackDepth
<1>2. PoolInv'
  BY <1>1, StepInv
<1>3. BookInv' /\ sp' = offset'
  BY <1>2 DEF PoolInv, BookInv, StackInStep, SlotsInStep
<1>4. DOMAIN stack = {}
  BY DEF FrameInv, PushedInv
<1> QED
  BY <1>3, <1>4 DEF StackDepth, PushedInv, Calling, Saved

LEMMA FreeArgumentFrame ==
  ASSUME FrameInv, FreeArgument
  PROVE  FrameInv'
<1>1. /\ pc = "free" /\ Free(dists[next]) /\ next' = next + 1
      /\ pc' = IF next < Len(dists) THEN "free" ELSE "lockResult"
      /\ UNCHANGED <<kind, params, dists, source, result, printBuf, xreg, stack, ret>>
  BY DEF FreeArgument
<1>2. pc' \in {"free", "lockResult"}
  BY <1>1
<1>3. dists[next] \in Tmp /\ [Next]_vars
  <2>1. dists[next] \in Tmp
    BY <1>1 DEF Free, FrameInv, BookInv, TypeOK
  <2> QED
    BY <1>1, <2>1 DEF Next
<1>4. BookInv' /\ StackDepth' /\ PushedInv'
  BY <1>1, <1>2, <1>3, OutsideCall DEF Calling, Passing
<1>5. CallType'
  BY <1>1, <1>2 DEF FrameInv, CallType, Over
<1>6. LoopInv'
  BY <1>1, <1>2 DEF FrameInv, LoopInv, Passing, Resulting
<1>7. LocksInv'
  <2>1. regLock' = regLock
    BY <1>1 DEF Free, FreeRegBook, FreeRegLoadBook, FreeSlotBook
  <2> QED
    BY <1>1, <1>2, <2>1 DEF FrameInv, LocksInv, Calling, Passing
<1> QED
  BY <1>4, <1>5, <1>6, <1>7 DEF FrameInv

LEMMA LockResultFrame ==
  ASSUME FrameInv, NEW t \in live \ Range(dists), LockResult(t)
  PROVE  FrameInv'
<1>1. /\ pc = "lockResult" /\ pc' = "result" /\ result' = t /\ Lock(t)
      /\ UNCHANGED <<kind, params, dists, source, next, printBuf, xreg, stack, ret>>
  BY DEF LockResult
<1>2. t \in Tmp /\ [Next]_vars
  <2>1. t \in Tmp
    BY DEF FrameInv, BookInv, TypeOK
  <2> QED
    BY <1>1, <2>1 DEF Next
<1>3. BookInv' /\ StackDepth' /\ PushedInv'
  BY <1>1, <1>2, OutsideCall DEF Calling, Passing
<1>4. \A r \in Reg : ~ regLock[r]
  BY <1>1 DEF FrameInv, LocksInv
<1>5. held'[t] \in Reg /\ t \in live /\ live' = live
  BY <1>1, <1>2, <1>4, LockGranted DEF FrameInv
<1>6. CallType'
  BY <1>1, <1>2 DEF FrameInv, CallType, Over
<1>7. LoopInv'
  BY <1>1, <1>5 DEF FrameInv, LoopInv, Passing, Resulting
<1>8. LocksInv'
  <2>1. held'[t] # NULL
    BY <1>5, PoolAssumption DEF Reg, Index
  <2> QED
    BY <1>1, <2>1 DEF LocksInv, Calling, Passing
<1> QED
  BY <1>3, <1>6, <1>7, <1>8 DEF FrameInv

LEMMA MoveResultFrame ==
  ASSUME FrameInv, NEW type \in {"int", "float"}, MoveResult(type)
  PROVE  /\ FrameInv'
         /\ \E v \in Val :
              /\ Write(result, v)
              /\ v = IF type = "float" THEN ret ELSE xreg[0]
<1>1. /\ pc = "result"
      /\ Write(result, IF type = "float" THEN ret ELSE xreg[0])
      /\ pc' = IF type = "float" THEN "floatDone" ELSE "intDone"
      /\ UNCHANGED <<kind, params, dists, source, next, result, printBuf, xreg,
                     stack, ret>>
  BY DEF MoveResult
<1>2. pc' \in {"floatDone", "intDone"}
  BY <1>1
<1>3. (IF type = "float" THEN ret ELSE xreg[0]) \in Val
  BY CallAssumption DEF FrameInv, CallType, Arg
<1>4. result \in Tmp /\ [Next]_vars
  <2>1. result \in Tmp
    BY <1>1 DEF FrameInv, LoopInv, Resulting, BookInv, TypeOK
  <2> QED
    BY <1>1, <1>3, <2>1 DEF Next
<1>5. BookInv' /\ StackDepth' /\ PushedInv'
  BY <1>1, <1>2, <1>4, OutsideCall DEF Calling, Passing
<1>6. CallType'
  BY <1>1, <1>2 DEF FrameInv, CallType, Over
<1>7. LoopInv'
  <2>1. UNCHANGED <<live, top>>
    BY <1>1 DEF Write, book
  <2> QED
    BY <1>1, <1>2, <2>1 DEF FrameInv, LoopInv, Passing, Resulting
<1>8. LocksInv'
  BY <1>2 DEF LocksInv, Calling, Passing
<1> QED
  BY <1>1, <1>3, <1>5, <1>6, <1>7, <1>8 DEF FrameInv

LEMMA ForgetFrame ==
  ASSUME FrameInv, pc \notin Calling, Forget, BookInv', StackDepth', PushedInv'
  PROVE  FrameInv'
<1>1. /\ pc' = "eval" /\ kind' = "plain" /\ dists' = << >> /\ next' = 1
      /\ result' = NULL /\ printBuf' = << >> /\ ret' = CHOOSE v \in Val : TRUE
      /\ UNCHANGED <<params, source, xreg, stack>>
  BY DEF Forget
<1>2. ret' \in Val
  BY <1>1, PoolAssumption
<1>3. source = << >>
  BY DEF FrameInv, LoopInv, Calling
<1>4. CallType'
  BY <1>1, <1>2 DEF FrameInv, CallType
<1>5. LoopInv'
  BY <1>1, <1>3 DEF LoopInv, Passing, Resulting
<1>6. LocksInv'
  BY <1>1 DEF LocksInv, Calling, Passing
<1> QED
  BY <1>4, <1>5, <1>6 DEF FrameInv

LEMMA UnlockResultFrame ==
  ASSUME FrameInv, UnlockResult
  PROVE  FrameInv'
<1>1. pc \in {"floatDone", "intDone"} /\ Unlock(result) /\ Forget
  BY DEF UnlockResult
<1>2. pc \notin Calling /\ pc' \notin Calling /\ UNCHANGED stack
  BY <1>1 DEF Forget, Calling, Passing
<1>3. [Next]_vars
  <2>1. result \in Tmp
    BY <1>1 DEF Unlock, FrameInv, BookInv, TypeOK
  <2> QED
    BY <1>1, <2>1 DEF Next
<1> QED
  BY <1>1, <1>2, <1>3, OutsideCall, ForgetFrame

LEMMA IgnoreResultFrame ==
  ASSUME FrameInv, IgnoreResult
  PROVE  FrameInv'
<1>1. pc = "lockResult" /\ UNCHANGED vars /\ Forget
  BY DEF IgnoreResult
<1>2. pc \notin Calling /\ pc' \notin Calling /\ UNCHANGED stack
  BY <1>1 DEF Forget, Calling, Passing
<1> QED
  BY <1>1, <1>2, OutsideCall, ForgetFrame

LEMMA FrameStep == FrameInv /\ [CallNext]_allVars => FrameInv'
<1> SUFFICES ASSUME FrameInv, [CallNext]_allVars PROVE FrameInv'
  OBVIOUS
<1>1. CASE UNCHANGED allVars
  <2>1. UNCHANGED vars /\ UNCHANGED callVars
    BY <1>1 DEF allVars
  <2>2. /\ UNCHANGED <<book, held, mem>> /\ rv' = rv /\ sp' = sp
        /\ UNCHANGED <<live, top, offset, regLock, held>>
    BY <2>1 DEF vars, book
  <2>3. BookInv'
    BY <2>2, BookAgain, FrameTypes DEF FrameInv
  <2>4. UNCHANGED <<pc, kind, params, dists, source, next, result, printBuf, xreg,
                    stack, ret>>
    BY <2>1 DEF callVars
  <2>5. CallType'
    BY <2>4 DEF FrameInv, CallType
  <2>6. StackDepth' /\ PushedInv'
    BY <2>2, <2>4 DEF FrameInv, StackDepth, PushedInv, Params, Regs, Args, InRegs
  <2>7. LoopInv' /\ LocksInv'
    BY <2>2, <2>4 DEF FrameInv, LoopInv, LocksInv
  <2> QED
    BY <2>3, <2>5, <2>6, <2>7 DEF FrameInv
<1>2. CASE Eval
  BY <1>2, EvalFrame
<1>3. ASSUME NEW k \in {"call", "write", "plain"}, NEW ds \in SeqsUpTo(live, MaxArgs),
             SaveArguments(k, ds)
      PROVE  FrameInv'
  BY <1>3, SaveArgumentsFrame
<1>4. CASE CallerSave
  BY <1>4, CallerSaveFrame
<1>5. CASE LockArgument
  BY <1>5, LockArgumentFrame
<1>6. ASSUME NEW s \in {NULL} \cup (0 .. InRegs(params) - 1), MoveArgument(s)
      PROVE  FrameInv'
  BY <1>6, MoveArgumentFrame
<1>7. CASE UnlockArgument
  BY <1>7, UnlockArgumentFrame
<1>8. CASE FreeEarly
  BY <1>8, FreeEarlyFrame
<1>9. ASSUME NEW v \in Val, NEW w \in Val, Branch(v, w) PROVE FrameInv'
  BY <1>9, BranchFrame
<1>10. CASE CallerLoad
  BY <1>10, CallerLoadFrame
<1>11. CASE LoadArguments
  BY <1>11, LoadArgumentsFrame
<1>12. CASE FreeArgument
  BY <1>12, FreeArgumentFrame
<1>13. ASSUME NEW t \in live \ Range(dists), LockResult(t) PROVE FrameInv'
  BY <1>13, LockResultFrame
<1>14. ASSUME NEW type \in {"int", "float"}, MoveResult(type) PROVE FrameInv'
  BY <1>14, MoveResultFrame
<1>15. CASE UnlockResult
  BY <1>15, UnlockResultFrame
<1>16. CASE IgnoreResult
  BY <1>16, IgnoreResultFrame
<1> QED
  BY <1>1, <1>2, <1>3, <1>4, <1>5, <1>6, <1>7, <1>8, <1>9, <1>10, <1>11, <1>12,
     <1>13, <1>14, <1>15, <1>16 DEF CallNext

(* Where everything is while a call is in progress, for pools of every     *)
(* size and any number of arguments.                                       *)
THEOREM FrameInvariant == CallSpec => []FrameInv
<1>1. CallInit => FrameInv
  BY FrameInit
<1>2. FrameInv /\ [CallNext]_allVars => FrameInv'
  BY FrameStep
<1> QED
  BY <1>1, <1>2, PTL DEF CallSpec

(* call_function lines 361-559 against register.c: the books of the pool   *)
(* are intact during a call and the locks it asks for are granted.         *)
THEOREM PoolStaysIntact == CallSpec => []PoolIntact
<1>1. FrameInv => PoolIntact
  BY DEF FrameInv, BookInv, LocksInv, PoolIntact
<1> QED
  BY <1>1, FrameInvariant, PTL

(* call_function pushes and pops as much, with or without arguments on the *)
(* stack, and no word that is still needed is below the stack pointer.     *)
THEOREM CallsBalanced == CallSpec => []CallBalanced
<1>1. FrameInv => CallBalanced
  <2>1. \A p \in Over \cup {"eval"} : p \notin Calling
    BY DEF Over, Calling, Passing
  <2> QED
    BY <2>1 DEF FrameInv, StackDepth, PushedInv, CallBalanced, Passing
<1> QED
  BY <1>1, FrameInvariant, PTL

-----------------------------------------------------------------------------
(* Which values are where.  *)
ParamsKept ==
  pc \in Calling => \A i \in 0 .. InRegs(params) - 1 :
    stack[offset + (i + 1) * 8] = before.xreg[i]

(* A temporary that is in a register is in one of the registers pushed,    *)
(* and the word pushed is its value; one that a lock moved to the stack    *)
(* since is of no concern to caller_load.                                  *)
RegsKept ==
  pc \in Saved =>
    /\ \A i, j \in DOMAIN printBuf : printBuf[i] = printBuf[j] => i = j
    /\ \A t \in live \ Range(dists) : tmpReg[t] # NULL =>
         \E i \in DOMAIN printBuf :
           printBuf[i] = tmpReg[t] /\ stack[Params + i * RegSize] = before.tmp[t]

ValuesKept ==
  /\ pc \in {"callerSave"} \cup Passing => \A t \in live : Value(t) = before.tmp[t]
  /\ pc = "callerLoad" => \A t \in live \ Range(dists) :
       tmpReg[t] = NULL => mem[tmpAddr[t]] = before.tmp[t]
  /\ pc = "loadArguments" => \A t \in live \ Range(dists) : Value(t) = before.tmp[t]

(* Where the callee looks for the i-th argument.  *)
Place(i) == IF i <= ArgRegs THEN xreg[i - 1] ELSE stack[Args - (i - 1 - ArgRegs) * 8]

ArgumentsMoved ==
  /\ pc = "callerSave" => xreg = before.xreg
  /\ pc \in Passing =>
       /\ \A i \in DOMAIN source :
            /\ i > ArgRegs => Args - (i - 1 - ArgRegs) * 8 \in DOMAIN stack
            /\ IF source[i] = NULL THEN Place(i) = before.tmp[dists[i]]
               ELSE source[i] >= i - 1 => Place(i) = before.xreg[source[i]]
       /\ \A j \in Arg : j >= Len(source) => xreg[j] = before.xreg[j]

ReturnKept ==
  pc \in {"callerLoad", "loadArguments", "free", "lockResult", "result"} /\ params = 0 =>
    xreg[0] = ret

KeepInv ==
  /\ ParamsKept
  /\ RegsKept
  /\ ValuesKept
  /\ ArgumentsMoved
  /\ ReturnKept
  /\ CallKeepsValues
  /\ CallKeepsParameters
  /\ ResultReturned

LEMMA EvalKeep ==
  ASSUME pc = "eval"
  PROVE  KeepInv
BY DEF KeepInv, ParamsKept, RegsKept, ValuesKept, ArgumentsMoved, ReturnKept,
       CallKeepsValues, CallKeepsParameters, ResultReturned, Calling, Saved, Passing, Over

LEMMA SaveArgumentsKeep ==
  ASSUME FrameInv, NEW k \in {"call", "write", "plain"},
         NEW ds \in SeqsUpTo(live, MaxArgs), SaveArguments(k, ds)
  PROVE  KeepInv'
<1>1. /\ pc' = "callerSave"
      /\ before' = [tmp |-> [t \in live |-> Value(t)], xreg |-> xreg]
      /\ UNCHANGED <<book, rv, mem, params, xreg>>
      /\ UNCHANGED <<live, tmpReg, tmpAddr, offset>>
  BY DEF SaveArguments, book
<1>2. ParamsKept'
  <2>1. \A i \in 0 .. InRegs(params) - 1 : stack'[offset + (i + 1) * 8] = xreg[i]
    BY SaveArgumentsFrame
  <2>2. InRegs(params)' = InRegs(params) /\ before'.xreg = xreg
    BY <1>1 DEF InRegs
  <2> QED
    BY <1>1, <2>1, <2>2 DEF ParamsKept
<1>3. ValuesKept'
  <2>1. \A t \in live : before'.tmp[t] = Value(t)
    BY <1>1
  <2>2. \A t \in live : Value(t)' = Value(t)
    BY <1>1 DEF Value
  <2> QED
    BY <1>1, <2>1, <2>2 DEF ValuesKept, Passing
<1>4. ArgumentsMoved'
  BY <1>1 DEF ArgumentsMoved, Passing
<1>5. RegsKept' /\ ReturnKept' /\ CallKeepsValues' /\ CallKeepsParameters' /\ ResultReturned'
  BY <1>1 DEF RegsKept, ReturnKept, CallKeepsValues, CallKeepsParameters, ResultReturned,
              Saved, Passing, Over
<1> QED
  BY <1>2, <1>3, <1>4, <1>5 DEF KeepInv

LEMMA CallerSaveKeep ==
  ASSUME FrameInv, KeepInv, CallerSave
  PROVE  KeepInv'
<1>1. /\ pc = "callerSave" /\ pc' \in {"branch", "lock"}
      /\ UNCHANGED <<rv, mem, params, dists, source, xreg, before>>
      /\ UNCHANGED <<live, tmpReg, tmpAddr, offset, list>>
  BY DEF CallerSave, book
<1>2. /\ \A d \in DOMAIN stack : stack'[d] = stack[d]
      /\ \A i \in DOMAIN printBuf' :
           /\ i - 1 \in Index /\ i - 1 < top
           /\ printBuf'[i] = list[i - 1]
           /\ stack'[Params + i * RegSize] = rv[printBuf'[i]]
      /\ \A i \in Index : i < top => i + 1 \in DOMAIN printBuf'
      /\ FrameInv'
  BY CallerSaveFrame
<1>3. InRegs(params)' = InRegs(params) /\ Params' = Params
  BY <1>1 DEF InRegs, Params
<1>4. ParamsKept'
  <2>1. \A i \in 0 .. InRegs(params) - 1 :
          /\ offset + (i + 1) * 8 \in DOMAIN stack
          /\ stack[offset + (i + 1) * 8] = before.xreg[i]
    BY <1>1 DEF KeepInv, ParamsKept, FrameInv, PushedInv, Calling
  <2> QED
    BY <1>1, <1>2, <1>3, <2>1 DEF ParamsKept
<1>5. RegsKept'
  <2>1. \A i, j \in DOMAIN printBuf' : printBuf'[i] = printBuf'[j] => i = j
    <3> SUFFICES ASSUME NEW i \in DOMAIN printBuf', NEW j \in DOMAIN printBuf',
                        printBuf'[i] = printBuf'[j]
                 PROVE  i = j
      OBVIOUS
    <3>1. i - 1 = j - 1
      BY <1>2 DEF FrameInv, BookInv, RegistersInUseFirst
    <3>2. i \in Int /\ j \in Int
      BY <1>2 DEF FrameInv, CallType
    <3> QED
      BY <3>1, <3>2
  <2>2. ASSUME NEW t \in live, tmpReg[t] # NULL
        PROVE  \E i \in DOMAIN printBuf' :
                 printBuf'[i] = tmpReg[t] /\ stack'[Params + i * RegSize] = before.tmp[t]
    <3>1. PICK i \in Index : i < top /\ list[i] = tmpReg[t]
      BY <2>2 DEF FrameInv, BookInv, RegistersInUseFirst
    <3>2. i + 1 \in DOMAIN printBuf' /\ (i + 1) - 1 = i
      BY <1>2, <3>1, PoolAssumption DEF Index
    <3>3. printBuf'[i + 1] = tmpReg[t]
      BY <1>2, <3>1, <3>2
    <3>4. stack'[Params + (i + 1) * RegSize] = rv[tmpReg[t]]
      BY <1>2, <3>2, <3>3
    <3>5. rv[tmpReg[t]] = before.tmp[t]
      BY <1>1, <2>2 DEF KeepInv, ValuesKept, Value
    <3> QED
      BY <3>2, <3>3, <3>4, <3>5
  <2> QED
    BY <1>1, <1>3, <2>1, <2>2 DEF RegsKept
<1>6. ValuesKept'
  <2>1. \A t \in live : Value(t)' = Value(t)
    BY <1>1 DEF Value
  <2> QED
    BY <1>1, <2>1 DEF KeepInv, ValuesKept, Passing
<1>7. ArgumentsMoved'
  <2>1. source = << >> /\ xreg = before.xreg
    BY <1>1 DEF FrameInv, LoopInv, Passing, KeepInv, ArgumentsMoved
  <2> QED
    BY <1>1, <2>1 DEF ArgumentsMoved
<1>8. ReturnKept' /\ CallKeepsValues' /\ CallKeepsParameters' /\ ResultReturned'
  BY <1>1 DEF ReturnKept, CallKeepsValues, CallKeepsParameters, ResultReturned, Over
<1> QED
  BY <1>4, <1>5, <1>6, <1>7, <1>8 DEF KeepInv

(* Locking and unlocking an argument change no value, although a lock may  *)
(* swap a register that is already pushed.                                 *)
LEMMA PassingKeep ==
  ASSUME FrameInv, KeepInv, pc \in Passing, pc' \in Passing,
         live' \subseteq live,
         \A t \in live' : Value(t)' = Value(t),
         \A t \in live' \ Range(dists) : tmpReg'[t] = tmpReg[t] \/ tmpReg'[t] = NULL,
         UNCHANGED <<params, dists, source, printBuf, xreg, stack, before, offset>>
  PROVE  KeepInv'
<1>1. UNCHANGED <<InRegs(params), Params, Args>>
  BY DEF InRegs, Params, Regs, Args
<1>2. pc \in Calling /\ pc' \in Calling /\ pc \in Saved /\ pc' \in Saved
  BY DEF Calling, Saved
<1>3. pc' \notin {"callerSave", "callerLoad", "loadArguments"} \cup Over
  BY DEF Passing, Over
<1>4. ParamsKept'
  BY <1>1, <1>2 DEF KeepInv, ParamsKept
<1>5. RegsKept'
  BY <1>1, <1>2 DEF KeepInv, RegsKept
<1>6. ValuesKept'
  BY <1>3 DEF KeepInv, ValuesKept
<1>7. ArgumentsMoved'
  <2>1. \A i : Place(i)' = Place(i)
    BY <1>1 DEF Place
  <2> HIDE DEF Place
  <2>2. \A i \in DOMAIN source :
          /\ i > ArgRegs => Args' - (i - 1 - ArgRegs) * 8 \in DOMAIN stack
          /\ IF source[i] = NULL THEN Place(i)' = before.tmp[dists[i]]
             ELSE source[i] >= i - 1 => Place(i)' = before.xreg[source[i]]
    BY <1>1, <2>1 DEF KeepInv, ArgumentsMoved
  <2>3. \A j \in Arg : j >= Len(source) => xreg[j] = before.xreg[j]
    BY DEF KeepInv, ArgumentsMoved
  <2> QED
    BY <1>3, <2>2, <2>3 DEF ArgumentsMoved
<1>8. ReturnKept' /\ CallKeepsValues' /\ CallKeepsParameters' /\ ResultReturned'
  BY <1>3 DEF ReturnKept, CallKeepsValues, CallKeepsParameters, ResultReturned, Over
<1> QED
  BY <1>4, <1>5, <1>6, <1>7, <1>8 DEF KeepInv

LEMMA InRange ==
  ASSUME FrameInv, NEW i \in 1 .. Len(dists)
  PROVE  dists[i] \in Range(dists)
BY FrameTypes DEF Range

LEMMA LockArgumentKeep ==
  ASSUME FrameInv, KeepInv, LockArgument
  PROVE  KeepInv'
<1>1. /\ pc = "lock" /\ pc' = "move" /\ Lock(dists[next])
      /\ UNCHANGED <<params, dists, source, printBuf, xreg, stack, before>>
  BY DEF LockArgument
<1>2. dists[next] \in live /\ live \subseteq Tmp
  BY <1>1 DEF Lock, FrameInv, BookInv, TypeOK
<1>3. \A r \in Reg : ~ regLock[r]
  BY <1>1 DEF FrameInv, LocksInv, Calling, Passing
<1>4. /\ \A u \in Tmp \ {dists[next]} : tmpReg'[u] = tmpReg[u] \/ tmpReg'[u] = NULL
      /\ UNCHANGED offset
  BY <1>1, <1>2, <1>3, LockGranted DEF FrameInv
<1>5. live' = live /\ \A w \in live : Value(w)' = Value(w)
  BY <1>1, <1>2, LockKeepsValues DEF FrameInv
<1>6. dists[next] \in Range(dists)
  <2>1. next \in 1 .. Len(dists)
    BY <1>1, FrameTypes DEF FrameInv, LoopInv, CallType
  <2> QED
    BY <2>1, InRange
<1>7. \A t \in live' \ Range(dists) : tmpReg'[t] = tmpReg[t] \/ tmpReg'[t] = NULL
  BY <1>2, <1>4, <1>5, <1>6
<1>8. pc \in Passing /\ pc' \in Passing
  BY <1>1 DEF Passing
<1> QED
  BY <1>1, <1>4, <1>5, <1>7, <1>8, PassingKeep

LEMMA UnlockArgumentKeep ==
  ASSUME FrameInv, KeepInv, UnlockArgument
  PROVE  KeepInv'
<1>1. /\ pc = "unlock" /\ Unlock(dists[next])
      /\ pc' \in {"freeEarly", "lock", "branch"}
      /\ UNCHANGED <<params, dists, source, printBuf, xreg, stack, before>>
  BY DEF UnlockArgument
<1>2. UNCHANGED <<live, tmpReg, tmpAddr, rv, mem, offset>>
  BY <1>1 DEF Unlock, UnlockBook, machine
<1>3. live' \subseteq live /\ \A t \in live' : Value(t)' = Value(t) /\ tmpReg'[t] = tmpReg[t]
  BY <1>2 DEF Value
<1>4. pc \in Passing /\ pc' \in Passing
  BY <1>1 DEF Passing
<1> QED
  BY <1>1, <1>2, <1>3, <1>4, PassingKeep

LEMMA FreeEarlyKeep ==
  ASSUME FrameInv, KeepInv, FreeEarly
  PROVE  KeepInv'
<1>1. /\ pc = "freeEarly" /\ pc' = "branch"
      /\ UNCHANGED <<params, dists, source, printBuf, xreg, stack, before>>
  BY DEF FreeEarly
<1>2. /\ dists[1] \in live /\ live' = live \ {dists[1]}
      /\ tmpReg' = [tmpReg EXCEPT ![dists[1]] = NULL]
      /\ tmpAddr' = [tmpAddr EXCEPT ![dists[1]] = 0]
      /\ UNCHANGED <<offset, rv, mem>>
  BY FreeEarlyStep
<1>3. live \subseteq Tmp /\ DOMAIN tmpReg = Tmp /\ DOMAIN tmpAddr = Tmp
  BY DEF FrameInv, BookInv, TypeOK
<1>4. \A t \in live' : tmpReg'[t] = tmpReg[t] /\ tmpAddr'[t] = tmpAddr[t]
  BY <1>2, <1>3
<1>5. live' \subseteq live /\ \A t \in live' : Value(t)' = Value(t)
  BY <1>2, <1>4 DEF Value
<1>6. pc \in Passing /\ pc' \in Passing
  BY <1>1 DEF Passing
<1> QED
  BY <1>1, <1>2, <1>4, <1>5, <1>6, PassingKeep

LEMMA MoveArgumentKeep ==
  ASSUME FrameInv, KeepInv, NEW s \in {NULL} \cup (0 .. InRegs(params) - 1),
         MoveArgument(s)
  PROVE  KeepInv'
<1>1. /\ pc = "move" /\ pc' = "unlock"
      /\ source' = Append(source, s)
      /\ UNCHANGED <<params, dists, next, printBuf, before>>
      /\ UNCHANGED <<live, tmpReg, tmpAddr, offset, sp, rv, mem>>
  BY DEF MoveArgument, vars
<1>2. /\ sp = Args /\ next <= Len(dists) /\ next \in Nat \ {0}
      /\ Len(source) = next - 1 /\ source \in Seq(Arg \cup {NULL})
      /\ Len(dists) \in Nat
  BY <1>1, FrameTypes DEF FrameInv, StackDepth, LoopInv, CallType, Passing
<1>3. UNCHANGED <<InRegs(params), Params, Regs, Args>>
  BY <1>1 DEF InRegs, Params, Regs, Args
<1>4. DOMAIN xreg = 0 .. ArgRegs - 1
  BY DEF FrameInv, CallType, Arg
<1>5. /\ Len(source') = next
      /\ DOMAIN source' = DOMAIN source \cup {next}
      /\ source'[next] = s
      /\ \A i \in DOMAIN source :
           source'[i] = source[i] /\ i \in Nat /\ 1 <= i /\ i < next
  <2>1. s \in Arg \cup {NULL}
    BY <1>1, MovedInVal
  <2> QED
    BY <1>1, <1>2, <2>1
<1>6. /\ Place(next)' = Moved(s)
      /\ \A i \in DOMAIN source : Place(i)' = Place(i)
      /\ \A j \in Arg : j >= next => xreg'[j] = xreg[j]
      /\ \A d \in DOMAIN stack : d \in DOMAIN stack' /\ (d <= Regs => stack'[d] = stack[d])
      /\ next > ArgRegs => Args - (next - 1 - ArgRegs) * 8 \in DOMAIN stack'
  <2>1. CASE next <= ArgRegs
    <3>1. xreg' = [xreg EXCEPT ![next - 1] = Moved(s)] /\ stack' = stack
      BY <2>1 DEF MoveArgument
    <3>2. xreg'[next - 1] = Moved(s)
      BY <1>2, <1>4, <2>1, <3>1, CallAssumption
    <3>3. \A i \in DOMAIN source : xreg'[i - 1] = xreg[i - 1] /\ i <= ArgRegs
      <4> SUFFICES ASSUME NEW i \in DOMAIN source
                   PROVE  xreg'[i - 1] = xreg[i - 1] /\ i <= ArgRegs
        OBVIOUS
      <4>1. i \in Nat /\ 1 <= i /\ i < next
        BY <1>5
      <4>2. i - 1 # next - 1 /\ i - 1 \in DOMAIN xreg /\ i <= ArgRegs
        BY <1>2, <1>4, <2>1, <4>1, CallAssumption
      <4> QED
        BY <3>1, <4>2
    <3>4. \A j \in Arg : j >= next => xreg'[j] = xreg[j]
      <4> SUFFICES ASSUME NEW j \in Arg, j >= next PROVE xreg'[j] = xreg[j]
        OBVIOUS
      <4>1. j # next - 1 /\ j \in DOMAIN xreg
        BY <1>2, <1>4, CallAssumption DEF Arg
      <4> QED
        BY <3>1, <4>1
    <3>5. Place(next)' = Moved(s)
      BY <1>1, <2>1, <3>2 DEF Place
    <3>6. \A i \in DOMAIN source : Place(i)' = Place(i)
      BY <3>3 DEF Place
    <3>7. ~ (next > ArgRegs)
      BY <1>2, <2>1, CallAssumption
    <3> QED
      BY <3>1, <3>4, <3>5, <3>6, <3>7
  <2>2. CASE ~ (next <= ArgRegs)
    <3> DEFINE place == sp - (next - 1 - ArgRegs) * 8
    <3>1. /\ xreg' = xreg
          /\ stack' = [d \in DOMAIN stack \cup {place} |->
                         IF d = place THEN Moved(s) ELSE stack[d]]
      BY <2>2 DEF MoveArgument
    <3>2. place > Regs /\ place \in Nat /\ Regs \in Nat /\ Args \in Nat
      <4>1. next \in Nat /\ next > ArgRegs
        BY <1>2, <2>2, CallAssumption
      <4>2. Regs \in Nat /\ Args \in Nat
        BY FrameTypes, Depths
      <4> QED
        BY <1>2, <4>1, <4>2, ArgumentPlace
    <3>3. /\ \A d \in DOMAIN stack : d \in DOMAIN stack' /\ (d <= Regs => stack'[d] = stack[d])
          /\ place \in DOMAIN stack'
      <4> HIDE DEF place
      <4>1. \A d \in DOMAIN stack : d \in Nat
        BY DEF FrameInv, CallType
      <4> QED
        BY <3>1, <3>2, <4>1
    <3>4. Place(next)' = Moved(s)
      <4>1. stack'[place] = Moved(s)
        <5> HIDE DEF place
        <5> QED
          BY <3>1
      <4>2. Args' - (next' - 1 - ArgRegs) * 8 = place
        BY <1>1, <1>2, <1>3
      <4>3. ~ (next' <= ArgRegs)
        BY <1>1, <2>2
      <4> HIDE DEF place
      <4> QED
        BY <4>1, <4>2, <4>3 DEF Place
    <3>5. \A i \in DOMAIN source : Place(i)' = Place(i)
      <4> SUFFICES ASSUME NEW i \in DOMAIN source PROVE Place(i)' = Place(i)
        OBVIOUS
      <4>1. i \in Nat /\ 1 <= i /\ i < next
        BY <1>5
      <4>2. CASE i <= ArgRegs
        BY <3>1, <4>2 DEF Place
      <4>3. CASE ~ (i <= ArgRegs)
        <5> DEFINE d == Args - (i - 1 - ArgRegs) * 8
        <5>1. d # place
          BY <1>2, <2>2, <3>2, <4>1, <4>3, CallAssumption
        <5>2. d \in DOMAIN stack
          <6>1. i > ArgRegs /\ pc \in Passing
            BY <1>1, <4>1, <4>3, CallAssumption DEF Passing
          <6> QED
            BY <6>1 DEF KeepInv, ArgumentsMoved
        <5> HIDE DEF d, place
        <5>3. stack'[d] = stack[d]
          BY <3>1, <5>1, <5>2
        <5> QED
          BY <1>3, <4>3, <5>3 DEF Place, d
      <4> QED
        BY <4>2, <4>3
    <3>6. Args - (next - 1 - ArgRegs) * 8 = place
      BY <1>2
    <3> HIDE DEF place
    <3> QED
      BY <3>1, <3>3, <3>4, <3>5, <3>6
  <2> QED
    BY <2>1, <2>2
<1>7. /\ pc \in Passing /\ pc' \in Passing /\ pc \in Calling /\ pc' \in Calling
      /\ pc \in Saved /\ pc' \in Saved
      /\ pc' \notin {"callerSave", "callerLoad", "loadArguments"} \cup Over
  BY <1>1 DEF Passing, Calling, Saved, Over
<1>8. /\ \A i \in 0 .. InRegs(params) - 1 :
           offset + (i + 1) * 8 \in DOMAIN stack /\ offset + (i + 1) * 8 <= Regs
      /\ \A i \in DOMAIN printBuf :
           Params + i * RegSize \in DOMAIN stack /\ Params + i * RegSize <= Regs
  <2>1. /\ \A i \in 0 .. InRegs(params) - 1 : offset + (i + 1) * 8 \in DOMAIN stack
        /\ \A i \in DOMAIN printBuf : Params + i * RegSize \in DOMAIN stack
    BY <1>7 DEF FrameInv, PushedInv
  <2>2. /\ offset \in Nat /\ InRegs(params) \in Nat /\ Len(printBuf) \in Nat
        /\ Params \in Nat /\ Params <= Regs /\ Regs \in Nat
        /\ DOMAIN printBuf = 1 .. Len(printBuf)
    BY FrameTypes, InRegsBound, Depths
  <2>3. \A i \in 0 .. InRegs(params) - 1 : offset + (i + 1) * 8 <= Params
    BY <2>2 DEF Params
  <2>4. \A i \in 1 .. Len(printBuf) : Params + i * RegSize <= Regs
    BY <2>2 DEF Regs, RegSize
  <2>5. \A i \in 0 .. InRegs(params) - 1 : offset + (i + 1) * 8 <= Regs
    BY <2>2, <2>3
  <2> QED
    BY <2>1, <2>2, <2>4, <2>5
<1>9. ParamsKept'
  <2>1. \A i \in 0 .. InRegs(params) - 1 : stack'[offset + (i + 1) * 8] = before.xreg[i]
    BY <1>6, <1>7, <1>8 DEF KeepInv, ParamsKept
  <2> QED
    BY <1>1, <1>3, <2>1 DEF ParamsKept
<1>10. RegsKept'
  <2>1. \A i \in DOMAIN printBuf : stack'[Params + i * RegSize] = stack[Params + i * RegSize]
    BY <1>6, <1>8
  <2> QED
    BY <1>1, <1>3, <1>7, <2>1 DEF KeepInv, RegsKept
<1>11. ValuesKept'
  <2>1. \A t \in live : Value(t)' = Value(t)
    BY <1>1 DEF Value
  <2> QED
    BY <1>1, <1>7, <2>1 DEF KeepInv, ValuesKept
<1>12. IF s = NULL THEN Moved(s) = before.tmp[dists[next]]
       ELSE s >= next - 1 => Moved(s) = before.xreg[s]
  <2>1. CASE s = NULL
    <3>1. dists[next] \in live /\ dists[next] \in Tmp
      <4>1. next \in DOMAIN dists
        BY <1>2, FrameTypes
      <4>2. dists[next] \in live
        BY <1>1, <4>1 DEF FrameInv, LoopInv
      <4> QED
        BY <4>2 DEF FrameInv, BookInv, TypeOK
    <3>2. held[dists[next]] # NULL /\ tmpReg[dists[next]] = held[dists[next]]
      BY <1>1, <3>1 DEF FrameInv, LocksInv, BookInv, HeldNameValid
    <3>3. Moved(s) = Value(dists[next])
      BY <2>1, <3>2 DEF Moved, Value
    <3> QED
      BY <1>7, <2>1, <3>1, <3>3 DEF KeepInv, ValuesKept
  <2>2. CASE s # NULL
    <3>1. s \in Arg /\ Moved(s) = xreg[s]
      BY <1>1, <2>2, MovedInVal DEF Moved
    <3>2. \A j \in Arg : j >= next - 1 => xreg[j] = before.xreg[j]
      BY <1>2, <1>7 DEF KeepInv, ArgumentsMoved
    <3> QED
      BY <2>2, <3>1, <3>2
  <2> QED
    BY <2>1, <2>2
<1>13. ArgumentsMoved'
  <2> HIDE DEF Place
  <2>1. ASSUME NEW i \in DOMAIN source'
        PROVE  /\ i > ArgRegs => Args - (i - 1 - ArgRegs) * 8 \in DOMAIN stack'
               /\ IF source'[i] = NULL THEN Place(i)' = before.tmp[dists[i]]
                  ELSE source'[i] >= i - 1 => Place(i)' = before.xreg[source'[i]]
    <3>1. CASE i = next
      <4>1. Place(i)' = Moved(s)
        BY <1>1, <1>6, <3>1 DEF Place
      <4> QED
        BY <1>5, <1>6, <1>12, <3>1, <4>1
    <3>2. CASE i \in DOMAIN source
      <4>1. Place(i)' = Place(i) /\ source'[i] = source[i]
        BY <1>5, <1>6, <3>2
      <4>2. i > ArgRegs => Args - (i - 1 - ArgRegs) * 8 \in DOMAIN stack'
        BY <1>6, <1>7, <3>2 DEF KeepInv, ArgumentsMoved
      <4> QED
        BY <1>7, <3>2, <4>1, <4>2 DEF KeepInv, ArgumentsMoved
    <3> QED
      BY <1>5, <2>1, <3>1, <3>2
  <2>2. \A j \in Arg : j >= Len(source') => xreg'[j] = before.xreg[j]
    <3> SUFFICES ASSUME NEW j \in Arg, j >= next PROVE xreg'[j] = before.xreg[j]
      BY <1>5
    <3>1. xreg'[j] = xreg[j] /\ j >= Len(source)
      BY <1>2, <1>6, CallAssumption DEF Arg
    <3> QED
      BY <1>7, <3>1 DEF KeepInv, ArgumentsMoved
  <2>3. Args' = Args /\ UNCHANGED <<before, dists>> /\ pc' \in Passing /\ pc' # "callerSave"
    BY <1>1, <1>3, <1>7
  <2> QED
    BY <2>1, <2>2, <2>3 DEF ArgumentsMoved
<1>14. ReturnKept' /\ CallKeepsValues' /\ CallKeepsParameters' /\ ResultReturned'
  BY <1>1 DEF ReturnKept, CallKeepsValues, CallKeepsParameters, ResultReturned, Over
<1> QED
  BY <1>9, <1>10, <1>11, <1>13, <1>14 DEF KeepInv

LEMMA BranchKeep ==
  ASSUME FrameInv, KeepInv, NEW v \in Val, NEW w \in Val, Branch(v, w)
  PROVE  KeepInv'
<1>1. /\ pc = "branch" /\ pc' = "callerLoad"
      /\ xreg' = [i \in Arg |-> w] /\ ret' = w
      /\ UNCHANGED <<mem, params, dists, printBuf, before>>
      /\ UNCHANGED <<live, tmpReg, tmpAddr, offset>>
  BY DEF Branch, book
<1>2. \A d \in DOMAIN stack : stack'[d] = stack[d]
  BY BranchFrame
<1>3. UNCHANGED <<InRegs(params), Params>>
  BY <1>1 DEF InRegs, Params
<1>4. pc \in Passing /\ pc \in Calling /\ pc \in Saved
  BY <1>1 DEF Passing, Calling, Saved
<1>5. ParamsKept'
  <2>1. \A i \in 0 .. InRegs(params) - 1 :
          /\ offset + (i + 1) * 8 \in DOMAIN stack
          /\ stack[offset + (i + 1) * 8] = before.xreg[i]
    BY <1>4 DEF KeepInv, ParamsKept, FrameInv, PushedInv
  <2> QED
    BY <1>1, <1>2, <1>3, <2>1 DEF ParamsKept
<1>6. RegsKept'
  <2>1. \A i \in DOMAIN printBuf : stack'[Params + i * RegSize] = stack[Params + i * RegSize]
    BY <1>2, <1>4 DEF FrameInv, PushedInv
  <2> QED
    BY <1>1, <1>3, <1>4, <2>1 DEF KeepInv, RegsKept
<1>7. ValuesKept'
  <2>1. \A t \in live : tmpReg[t] = NULL => mem[tmpAddr[t]] = before.tmp[t]
    BY <1>4 DEF KeepInv, ValuesKept, Value
  <2> QED
    BY <1>1, <2>1 DEF ValuesKept, Passing
<1>8. ArgumentsMoved' /\ CallKeepsValues' /\ CallKeepsParameters' /\ ResultReturned'
  BY <1>1 DEF ArgumentsMoved, CallKeepsValues, CallKeepsParameters, ResultReturned,
              Passing, Over
<1>9. ReturnKept'
  <2>1. xreg'[0] = ret'
    BY <1>1, CallAssumption DEF Arg
  <2> QED
    BY <2>1 DEF ReturnKept
<1> QED
  BY <1>5, <1>6, <1>7, <1>8, <1>9 DEF KeepInv

LEMMA CallerLoadKeep ==
  ASSUME FrameInv, KeepInv, CallerLoad
  PROVE  KeepInv'
<1> DEFINE n == Len(printBuf)
           At(r) == CHOOSE i \in 1 .. n : printBuf[i] = r
<1>1. /\ pc = "callerLoad" /\ pc' = "loadArguments"
      /\ rv' = [r \in Reg |-> IF \E i \in 1 .. n : printBuf[i] = r
                              THEN stack[sp - n * RegSize + RegSize * At(r)]
                              ELSE rv[r]]
      /\ UNCHANGED <<mem, params, dists, xreg, stack, ret, before>>
      /\ UNCHANGED <<live, tmpReg, tmpAddr, offset>>
  BY DEF CallerLoad, book
<1>2. sp - n * RegSize = Params
  <2>1. Params \in Nat /\ n \in Nat /\ sp = Regs
    BY <1>1, FrameTypes, Depths DEF FrameInv, StackDepth
  <2> HIDE DEF n
  <2>2. Regs = Params + n * 4
    BY DEF Regs, RegSize, n
  <2> QED
    BY <2>1, <2>2 DEF RegSize
<1>3. ParamsKept'
  <2>1. InRegs(params)' = InRegs(params)
    BY <1>1 DEF InRegs
  <2> QED
    BY <1>1, <2>1 DEF KeepInv, ParamsKept, Calling
<1>4. ASSUME NEW t \in live \ Range(dists)
      PROVE  Value(t)' = before.tmp[t]
  <2>1. CASE tmpReg[t] = NULL
    BY <1>1, <2>1 DEF KeepInv, ValuesKept, Value
  <2>2. CASE tmpReg[t] # NULL
    <3> DEFINE r == tmpReg[t]
    <3>1. PICK i \in DOMAIN printBuf :
            printBuf[i] = r /\ stack[Params + i * RegSize] = before.tmp[t]
      BY <1>1, <2>2 DEF KeepInv, RegsKept, Saved
    <3>2. \A a, b \in DOMAIN printBuf : printBuf[a] = printBuf[b] => a = b
      BY <1>1 DEF KeepInv, RegsKept, Saved
    <3>3. DOMAIN printBuf = 1 .. n /\ n \in Nat
      BY FrameTypes
    <3>4. At(r) = i
      BY <3>1, <3>2, <3>3
    <3>5. r \in Reg
      BY <2>2 DEF FrameInv, BookInv, TypeOK
    <3> HIDE DEF At, r, n
    <3>6. rv'[r] = stack[sp - n * RegSize + RegSize * i]
      BY <1>1, <3>1, <3>3, <3>4, <3>5
    <3>7. RegSize * i = i * RegSize
      BY <3>3 DEF RegSize
    <3>8. rv'[r] = before.tmp[t]
      BY <1>2, <3>1, <3>6, <3>7
    <3> QED
      BY <1>1, <2>2, <3>8 DEF Value, r
  <2> QED
    BY <2>1, <2>2
<1>5. ValuesKept'
  BY <1>1, <1>4 DEF ValuesKept, Passing
<1>6. RegsKept' /\ ArgumentsMoved' /\ CallKeepsValues' /\ CallKeepsParameters' /\ ResultReturned'
  BY <1>1 DEF RegsKept, ArgumentsMoved, CallKeepsValues, CallKeepsParameters,
              ResultReturned, Passing, Over, Saved
<1>7. ReturnKept'
  BY <1>1 DEF KeepInv, ReturnKept
<1> QED
  BY <1>3, <1>5, <1>6, <1>7 DEF KeepInv

LEMMA LoadArgumentsKeep ==
  ASSUME FrameInv, KeepInv, LoadArguments
  PROVE  KeepInv'
<1> DEFINE n == InRegs(params)
<1>1. /\ pc = "loadArguments" /\ pc' \in {"free", "lockResult"}
      /\ xreg' = Restored(n, sp - n * 8)
      /\ UNCHANGED <<rv, mem, params, dists, result, ret, before>>
      /\ UNCHANGED <<live, tmpReg, tmpAddr, offset>>
  BY DEF LoadArguments, book
<1>2. sp = Params /\ n \in Nat /\ offset \in Nat /\ params \in Nat
  BY <1>1, FrameTypes, InRegsBound DEF FrameInv, StackDepth
<1>3. sp - n * 8 = offset
  BY <1>2 DEF Params
<1>4. CallKeepsValues'
  <2>1. \A t \in live \ Range(dists) : Value(t)' = before.tmp[t]
    <3>1. \A t \in live : Value(t)' = Value(t)
      BY <1>1 DEF Value
    <3> QED
      BY <1>1, <3>1 DEF KeepInv, ValuesKept
  <2> QED
    BY <1>1, <2>1 DEF CallKeepsValues
<1>5. CallKeepsParameters'
  <2>1. ASSUME NEW i \in Arg, i < params
        PROVE  xreg'[i] = before.xreg[i]
    <3>1. i < n
      BY <1>2, <2>1, InRegsBound
    <3>2. i \in 0 .. n - 1
      BY <1>2, <3>1, CallAssumption DEF Arg
    <3>3. xreg'[i] = stack[offset + (i + 1) * 8]
      BY <1>1, <1>3, <3>1 DEF Restored
    <3> QED
      BY <1>1, <3>2, <3>3 DEF KeepInv, ParamsKept, Calling
  <2> QED
    BY <1>1, <2>1 DEF CallKeepsParameters
<1>6. ReturnKept'
  <2>1. ASSUME params = 0 PROVE xreg'[0] = ret
    <3>1. n = 0
      BY <2>1, CallAssumption DEF InRegs
    <3>2. 0 \in Arg /\ ~ (0 < n)
      BY <3>1, CallAssumption DEF Arg
    <3> HIDE DEF n
    <3>3. xreg'[0] = xreg[0]
      BY <1>1, <3>2 DEF Restored
    <3> QED
      BY <1>1, <2>1, <3>3 DEF KeepInv, ReturnKept
  <2> QED
    BY <1>1, <2>1 DEF ReturnKept
<1>7. ParamsKept' /\ RegsKept' /\ ValuesKept' /\ ArgumentsMoved' /\ ResultReturned'
  BY <1>1 DEF ParamsKept, RegsKept, ValuesKept, ArgumentsMoved, ResultReturned,
              Calling, Passing, Saved
<1> QED
  BY <1>4, <1>5, <1>6, <1>7 DEF KeepInv

(* Afterwards only the returned value is moved.  *)
LEMMA AfterKeep ==
  ASSUME KeepInv, pc \in Over, pc' \in Over,
         live' \subseteq live, Range(dists)' = Range(dists),
         \A t \in live' \ (Range(dists) \cup {result'}) :
           t # result /\ Value(t)' = Value(t),
         UNCHANGED <<params, xreg, ret, before>>,
         pc' \in {"floatDone", "intDone"} \/ pc \in {"free", "lockResult"},
         ResultReturned'
  PROVE  KeepInv'
<1>1. pc' \notin Calling /\ pc' \notin Passing /\ pc' \notin Saved
      /\ pc' \notin {"callerSave", "callerLoad", "loadArguments"}
  BY DEF Over, Calling, Passing, Saved
<1>2. CallKeepsValues' /\ CallKeepsParameters'
  BY DEF KeepInv, CallKeepsValues, CallKeepsParameters
<1>3. ReturnKept'
  BY DEF KeepInv, ReturnKept
<1> QED
  BY <1>1, <1>2, <1>3 DEF KeepInv, ParamsKept, RegsKept, ValuesKept, ArgumentsMoved

LEMMA FreeArgumentKeep ==
  ASSUME FrameInv, KeepInv, FreeArgument
  PROVE  KeepInv'
<1>1. /\ pc = "free" /\ pc' \in {"free", "lockResult"} /\ Free(dists[next])
      /\ UNCHANGED <<params, dists, result, xreg, ret, before>>
  BY DEF FreeArgument
<1>2. PoolInv /\ dists[next] \in Tmp /\ result = NULL
  BY <1>1, BookOfPool
     DEF FrameInv, StackDepth, LoopInv, Calling, Passing, Resulting, Free, BookInv, TypeOK
<1>3. live' \subseteq live /\ \A t \in live' : Value(t)' = Value(t)
  BY <1>1, <1>2, FreeKeepsValues
<1>4. \A t \in live' : t # result
  BY <1>2, <1>3, PoolAssumption DEF PoolInv, TypeOK
<1>5. ResultReturned'
  BY <1>1 DEF ResultReturned
<1>6. Range(dists)' = Range(dists)
  BY <1>1
<1>7. pc \in Over /\ pc' \in Over
  BY <1>1 DEF Over
<1> QED
  BY <1>1, <1>3, <1>4, <1>5, <1>6, <1>7, AfterKeep

LEMMA LockResultKeep ==
  ASSUME FrameInv, KeepInv, NEW t \in live \ Range(dists), LockResult(t)
  PROVE  KeepInv'
<1>1. /\ pc = "lockResult" /\ pc' = "result" /\ Lock(t)
      /\ UNCHANGED <<params, dists, xreg, ret, before>>
  BY DEF LockResult
<1>2. BookInv /\ live \subseteq Tmp /\ result = NULL
  BY <1>1 DEF FrameInv, LoopInv, Resulting, BookInv, TypeOK
<1>3. live' = live /\ \A w \in live : Value(w)' = Value(w)
  BY <1>1, <1>2, LockKeepsValues
<1>4. \A w \in live' : w # result
  BY <1>2, <1>3, PoolAssumption
<1>5. ResultReturned'
  BY <1>1 DEF ResultReturned
<1>6. Range(dists)' = Range(dists)
  BY <1>1
<1>7. pc \in Over /\ pc' \in Over
  BY <1>1 DEF Over
<1> QED
  BY <1>1, <1>3, <1>4, <1>5, <1>6, <1>7, AfterKeep

LEMMA MoveResultKeep ==
  ASSUME FrameInv, KeepInv, NEW type \in {"int", "float"}, MoveResult(type)
  PROVE  KeepInv'
<1>1. /\ pc = "result" /\ pc' = IF type = "float" THEN "floatDone" ELSE "intDone"
      /\ UNCHANGED <<params, dists, result, xreg, ret, before>>
  BY DEF MoveResult
<1>2. PICK v \in Val : Write(result, v) /\ v = IF type = "float" THEN ret ELSE xreg[0]
  BY MoveResultFrame
<1>3. PoolInv /\ result \in Tmp
  BY <1>1, <1>2, BookOfPool
     DEF FrameInv, StackDepth, Calling, Passing, Write, BookInv, TypeOK
<1>4. /\ live' = live /\ Value(result)' = v
      /\ \A w \in live \ {result} : Value(w)' = Value(w)
  <2>1. PICK t \in Tmp : t = result
    BY <1>3
  <2>2. Write(t, v)
    BY <1>2, <2>1
  <2>3. live' = live /\ Value(t)' = v /\ \A w \in live \ {t} : Value(w)' = Value(w)
    BY <1>3, <2>2, WriteKeepsValues
  <2>4. result' = t
    BY <1>1, <2>1
  <2> QED
    BY <2>1, <2>3, <2>4 DEF Value
<1>5. ResultReturned'
  <2>1. Value(result)' = IF type = "float" THEN ret ELSE xreg[0]
    BY <1>2, <1>4
  <2>2. pc' = "floatDone" => Value(result)' = ret'
    BY <1>1, <2>1
  <2>3. pc' = "intDone" /\ params' = 0 => Value(result)' = ret'
    BY <1>1, <2>1 DEF KeepInv, ReturnKept
  <2> QED
    BY <2>2, <2>3 DEF ResultReturned
<1>6. Range(dists)' = Range(dists)
  BY <1>1
<1>7. pc \in Over /\ pc' \in Over /\ pc' \in {"floatDone", "intDone"}
  BY <1>1 DEF Over
<1>8. \A w \in live' \ (Range(dists) \cup {result'}) : w # result /\ Value(w)' = Value(w)
  BY <1>1, <1>4
<1> QED
  BY <1>1, <1>4, <1>5, <1>6, <1>7, <1>8, AfterKeep

LEMMA StutterKeep ==
  ASSUME KeepInv, UNCHANGED allVars
  PROVE  KeepInv'
<1>1. UNCHANGED vars /\ UNCHANGED callVars
  BY DEF allVars
<1>2. UNCHANGED <<pc, params, dists, source, result, printBuf, xreg, stack, ret, before>>
  BY <1>1 DEF callVars
<1>3. UNCHANGED <<live, tmpReg, tmpAddr, offset, rv, mem>>
  BY <1>1 DEF vars
<1>4. ParamsKept' /\ RegsKept'
  BY <1>2, <1>3 DEF KeepInv, ParamsKept, RegsKept, InRegs, Params
<1>5. ValuesKept' /\ ReturnKept'
  BY <1>2, <1>3 DEF KeepInv, ValuesKept, ReturnKept, Value
<1>6. ArgumentsMoved'
  BY <1>2, <1>3 DEF KeepInv, ArgumentsMoved, Place, Args, Regs, Params, InRegs
<1>7. CallKeepsValues' /\ CallKeepsParameters' /\ ResultReturned'
  BY <1>2, <1>3 DEF KeepInv, CallKeepsValues, CallKeepsParameters, ResultReturned, Value
<1> QED
  BY <1>4, <1>5, <1>6, <1>7 DEF KeepInv

LEMMA KeepStep == FrameInv /\ KeepInv /\ [CallNext]_allVars => KeepInv'
<1> SUFFICES ASSUME FrameInv, KeepInv, [CallNext]_allVars PROVE KeepInv'
  OBVIOUS
<1>1. ASSUME pc' = "eval" PROVE KeepInv'
  BY <1>1 DEF KeepInv, ParamsKept, RegsKept, ValuesKept, ArgumentsMoved, ReturnKept,
              CallKeepsValues, CallKeepsParameters, ResultReturned, Calling, Saved,
              Passing, Over
<1>2. CASE Eval \/ UnlockResult \/ IgnoreResult
  BY <1>1, <1>2 DEF Eval, UnlockResult, IgnoreResult, Forget, callVars
<1>3. ASSUME NEW k \in {"call", "write", "plain"}, NEW ds \in SeqsUpTo(live, MaxArgs),
             SaveArguments(k, ds)
      PROVE  KeepInv'
  BY <1>3, SaveArgumentsKeep
<1>4. CASE CallerSave
  BY <1>4, CallerSaveKeep
<1>5. CASE LockArgument
  BY <1>5, LockArgumentKeep
<1>6. ASSUME NEW s \in {NULL} \cup (0 .. InRegs(params) - 1), MoveArgument(s)
      PROVE  KeepInv'
  BY <1>6, MoveArgumentKeep
<1>7. CASE UnlockArgument
  BY <1>7, UnlockArgumentKeep
<1>8. CASE FreeEarly
  BY <1>8, FreeEarlyKeep
<1>9. ASSUME NEW v \in Val, NEW w \in Val, Branch(v, w) PROVE KeepInv'
  BY <1>9, BranchKeep
<1>10. CASE CallerLoad
  BY <1>10, CallerLoadKeep
<1>11. CASE LoadArguments
  BY <1>11, LoadArgumentsKeep
<1>12. CASE FreeArgument
  BY <1>12, FreeArgumentKeep
<1>13. ASSUME NEW t \in live \ Range(dists), LockResult(t) PROVE KeepInv'
  BY <1>13, LockResultKeep
<1>14. ASSUME NEW type \in {"int", "float"}, MoveResult(type) PROVE KeepInv'
  BY <1>14, MoveResultKeep
<1>15. CASE UNCHANGED allVars
  BY <1>15, StutterKeep
<1> QED
  BY <1>2, <1>3, <1>4, <1>5, <1>6, <1>7, <1>8, <1>9, <1>10, <1>11, <1>12,
     <1>13, <1>14, <1>15 DEF CallNext

(* Which values are where, for pools of every size and any number of       *)
(* arguments and parameters.                                               *)
THEOREM KeepInvariant == CallSpec => []KeepInv
<1>1. CallInit => KeepInv
  <2>1. CallInit => pc = "eval"
    BY DEF CallInit
  <2> QED
    BY <2>1, EvalKeep
<1>2. FrameInv /\ KeepInv /\ [CallNext]_allVars => KeepInv'
  BY KeepStep
<1> QED
  BY <1>1, <1>2, FrameInvariant, PTL DEF CallSpec

(* register.c lines 262-291 around call_function: a call keeps the value   *)
(* of every temporary but its arguments' and its result's, although a lock *)
(* may swap a register that is already pushed and will be popped.          *)
THEOREM CallsKeepValues == CallSpec => []CallKeepsValues
<1>1. KeepInv => CallKeepsValues
  BY DEF KeepInv
<1> QED
  BY <1>1, KeepInvariant, PTL

(* register.c lines 293-315: the parameters of the calling function are    *)
(* the same after the call.                                                *)
THEOREM CallsKeepParameters == CallSpec => []CallKeepsParameters
<1>1. KeepInv => CallKeepsParameters
  BY DEF KeepInv
<1> QED
  BY <1>1, KeepInvariant, PTL

(* call_function lines 460-538: every argument is where the callee looks   *)
(* for it at the branch, an array parameter that is passed on included     *)
(* unless an argument in front of it was moved into its register.          *)
THEOREM ArgumentsArrive == CallSpec => []ArgumentsInPlace
<1>1. FrameInv /\ KeepInv => ArgumentsInPlace
  <2> SUFFICES ASSUME FrameInv, KeepInv, pc = "branch", NEW i \in DOMAIN source
               PROVE  LET place == IF i <= ArgRegs THEN xreg[i - 1]
                                   ELSE stack[sp - (i - 1 - ArgRegs) * 8]
                      IN IF source[i] = NULL
                         THEN place = before.tmp[dists[i]]
                         ELSE source[i] >= i - 1 => place = before.xreg[source[i]]
    BY DEF ArgumentsInPlace
  <2>1. sp = Args /\ pc \in Passing
    BY DEF FrameInv, StackDepth, Passing
  <2> QED
    BY <2>1 DEF KeepInv, ArgumentsMoved, Place
<1> QED
  BY <1>1, FrameInvariant, KeepInvariant, PTL

(* generate_expression lines 599-605: a float result is what the callee    *)
(* returned, and an int result is unless the caller has parameters.        *)
THEOREM ResultsReturned == CallSpec => []ResultReturned
<1>1. KeepInv => ResultReturned
  BY DEF KeepInv
<1> QED
  BY <1>1, KeepInvariant, PTL
=============================================================================
