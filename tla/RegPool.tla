------------------------------ MODULE RegPool -------------------------------
(***************************************************************************)
(* The register pool of register.c: the allocator that gives each          *)
(* temporary of an expression a home, a register while there is one and a  *)
(* 4-byte slot at the deep end of the stack frame otherwise, and that      *)
(* swaps a spilled temporary into a register when it is locked.            *)
(*                                                                         *)
(* Every function of register.c does two things: it updates the pool at    *)
(* compile time, and it emits instructions which the generated program     *)
(* executes in the order in which they were emitted.  The first is an      *)
(* operator whose name ends in Book, the second one whose name ends in     *)
(* Code and which acts on the machine (rv, mem, sp).  In straight-line     *)
(* code a step of this module is both at once.                             *)
(*                                                                         *)
(* A stack address is written as its depth below the frame pointer, the    *)
(* form in which CcmmcTmp.addr holds it.                                   *)
(***************************************************************************)
EXTENDS Integers, FiniteSets

CONSTANTS
  Num,        \* REG_NUM: number of registers of the pool
  LockMax,    \* REG_LOCK_MAX: temporaries that may be locked at once
  SpillMax,   \* SPILL_MAX: initial capacity of the spill array
  Tmp,        \* addresses malloc can return for a CcmmcTmp
  Val,        \* values of a 32-bit register or stack slot
  Frames,     \* stack depths at which an expression may start
  NULL        \* the null pointer

ASSUME PoolAssumption ==
  /\ Num \in Nat \ {0}
  /\ LockMax \in Nat
  /\ LockMax <= Num
  /\ SpillMax \in Nat \ {0}
  /\ Val # {}
  /\ Frames \subseteq Nat
  /\ Frames # {}
  /\ NULL \notin Tmp
  /\ NULL \notin Int

VARIABLES
  list,      \* pool->list: the registers, those in use first
  top,       \* pool->top: number of temporaries allocated
  spill,     \* pool->spill: the temporaries on the stack, shallowest first
  spillMax,  \* pool->spill_max: capacity of spill
  lockCnt,   \* pool->lock_cnt
  regTmp,    \* CcmmcReg.tmp, which keeps dangling after a free
  regLock,   \* CcmmcReg.lock
  live,      \* the CcmmcTmp that malloc returned and free has not taken back
  tmpReg,    \* CcmmcTmp.reg
  tmpAddr,   \* CcmmcTmp.addr
  offset,    \* *offset, the depth of the stack pointer the compiler assumes
  frame,     \* the value of *offset when the expression started
  held,      \* the register name the caller got from lock and still uses
  rv,        \* machine: contents of the registers
  mem,       \* machine: contents of the spill slots above the stack pointer
  sp         \* machine: depth of the stack pointer

book == <<list, top, spill, spillMax, lockCnt, regTmp, regLock,
          live, tmpReg, tmpAddr, offset, frame>>
machine == <<rv, mem, sp>>
vars == <<list, top, spill, spillMax, lockCnt, regTmp, regLock,
          live, tmpReg, tmpAddr, offset, frame, held, rv, mem, sp>>

RegSize == 4
Index == 0 .. Num - 1
Reg == Index                         \* the k-th entry of reg_name

(* Number of temporaries on the stack: pool->top - pool->num, if positive. *)
Spilled == IF top > Num THEN top - Num ELSE 0

(* Depth of the k-th spill slot. *)
Slot(k) == frame + RegSize * (k + 1)

-----------------------------------------------------------------------------
(* The linear searches of the C code: the first index of S, or n.  *)
FirstOf(S, n) == IF S = {} THEN n ELSE CHOOSE i \in S : \A j \in S : i <= j

(* MUTANT of RegIndex: the register's number taken for its place in the list *)
RegIndex_Number(t) == IF tmpReg[t] = NULL THEN Num ELSE tmpReg[t]

(* MUTANT of RegIndex: the list searched from its end *)
RegIndex_Last(t) ==
  LET S == {i \in Index : regTmp[list[i]] = t}
  IN IF S = {} THEN Num ELSE CHOOSE i \in S : \A j \in S : j <= i

(* free: the index of the register associated with t *)
RegIndex(t) == FirstOf({i \in Index : regTmp[list[i]] = t}, Num)

(* MUTANT of FirstUnlocked: the lock flag is not looked at *)
FirstUnlocked_Any == 0

(* lock: the index of the first register that is not locked *)
FirstUnlocked == FirstOf({i \in Index : ~ regLock[list[i]]}, Num)

(* lock and free: the index of t in the spill array *)
SpillIndex(t) == FirstOf({j \in 0 .. Spilled - 1 : spill[j] = t}, Spilled)

-----------------------------------------------------------------------------
(* ccmmc_register_init.  *)
BookInit ==
  /\ list = [i \in Index |-> i]
  /\ top = 0
  /\ spillMax = SpillMax
  /\ spill = [j \in 0 .. SpillMax - 1 |-> NULL]
  /\ lockCnt = 0
  /\ regTmp = [r \in Reg |-> NULL]
  /\ regLock = [r \in Reg |-> FALSE]
  /\ live = {}
  /\ tmpReg = [t \in Tmp |-> NULL]
  /\ tmpAddr = [t \in Tmp |-> 0]
  /\ frame \in Frames
  /\ offset = frame
  /\ held = [t \in Tmp |-> NULL]

Init ==
  /\ BookInit
  /\ sp = frame
  /\ rv \in [Reg -> Val]
  /\ mem = [d \in {} |-> CHOOSE v \in Val : TRUE]

(* The caller changes *offset between expressions, when no temporary is    *)
(* allocated: a block of statements makes room for its variables.          *)
EnterFrame(f) ==
  /\ top = 0
  /\ frame' = f
  /\ offset' = f
  /\ sp' = f
  /\ UNCHANGED <<list, top, spill, spillMax, lockCnt, regTmp, regLock,
                 live, tmpReg, tmpAddr, held, rv, mem>>

-----------------------------------------------------------------------------
(* ccmmc_register_alloc.  malloc may return an address that was freed and  *)
(* that regTmp or spill still holds beyond top.                            *)
AllocRegBook(t) ==
  LET r == list[top] IN
  /\ t \notin live
  /\ top < Num
  /\ live' = live \cup {t}
  /\ tmpAddr' = [tmpAddr EXCEPT ![t] = 0]
  /\ tmpReg' = [tmpReg EXCEPT ![t] = r]
  /\ regTmp' = [regTmp EXCEPT ![r] = t]
  /\ regLock' = [regLock EXCEPT ![r] = FALSE]
  /\ top' = top + 1
  /\ UNCHANGED <<list, spill, spillMax, lockCnt, offset, frame>>

(* MUTANTS of GrowSpill: no realloc at all; malloc, which copies nothing *)
GrowSpill_Never(n) == spill
GrowSpill_Malloc(n) == [j \in 0 .. n - 1 |-> NULL]

(* realloc doubles the spill array; what it adds is not initialised, and   *)
(* NULL stands for it.                                                     *)
GrowSpill(n) ==
  [j \in 0 .. n - 1 |-> IF j \in DOMAIN spill THEN spill[j] ELSE NULL]

AllocStackBook(t) ==
  /\ t \notin live
  /\ top >= Num
  /\ live' = live \cup {t}
  /\ offset' = offset + RegSize
  /\ tmpAddr' = [tmpAddr EXCEPT ![t] = offset + RegSize]
  /\ tmpReg' = [tmpReg EXCEPT ![t] = NULL]
  /\ spillMax' = IF top - Num >= spillMax THEN spillMax * 2 ELSE spillMax
  /\ spill' = [GrowSpill(spillMax') EXCEPT ![top - Num] = t]
  /\ top' = top + 1
  /\ UNCHANGED <<list, lockCnt, regTmp, regLock, frame>>

(* sub sp, sp, #4: the new slot holds v, which was below the stack.  *)
AllocStackCode(v) ==
  /\ sp' = sp + RegSize
  /\ mem' = [d \in DOMAIN mem \cup {sp'} |-> IF d = sp' THEN v ELSE mem[d]]
  /\ UNCHANGED rv

Alloc(t) ==
  /\ \/ AllocRegBook(t) /\ UNCHANGED machine
     \/ AllocStackBook(t) /\ \E v \in Val : AllocStackCode(v)
  /\ UNCHANGED held

-----------------------------------------------------------------------------
(* ccmmc_register_lock when lock_max temporaries are locked: NULL.  *)
LockFull(t) ==
  /\ lockCnt >= LockMax
  /\ held' = [held EXCEPT ![t] = NULL]
  /\ UNCHANGED <<book, machine>>

(* The temporary is in a register: lock it where it is.  *)
LockInRegBook(t) ==
  /\ lockCnt < LockMax
  /\ tmpReg[t] # NULL
  /\ lockCnt' = IF regLock[tmpReg[t]] THEN lockCnt ELSE lockCnt + 1
  /\ regLock' = [regLock EXCEPT ![tmpReg[t]] = TRUE]
  /\ UNCHANGED <<list, top, spill, spillMax, regTmp, live, tmpReg, tmpAddr,
                 offset, frame>>

(* The temporary is on the stack: it changes places with the temporary of  *)
(* the first register that is not locked.                                  *)
LockSwapBook(t) ==
  LET r == list[FirstUnlocked]
      u == regTmp[r]
  IN
  /\ lockCnt < LockMax
  /\ tmpReg[t] = NULL
  /\ spill' = [spill EXCEPT ![SpillIndex(t)] = u]
  /\ tmpReg' = [tmpReg EXCEPT ![u] = NULL, ![t] = r]
  /\ tmpAddr' = [tmpAddr EXCEPT ![u] = tmpAddr[t], ![t] = 0]
  /\ regTmp' = [regTmp EXCEPT ![r] = t]
  /\ regLock' = [regLock EXCEPT ![r] = TRUE]
  /\ lockCnt' = lockCnt + 1
  /\ UNCHANGED <<list, top, spillMax, live, offset, frame>>

(* MUTANT of LockSwapCode: the value of the register is not stored *)
LockSwapCode_Load(t) ==
  /\ rv' = [rv EXCEPT ![list[FirstUnlocked]] = mem[tmpAddr[t]]]
  /\ UNCHANGED <<mem, sp>>

(* The emitted swap, through the scratch register w10.  *)
LockSwapCode(t) ==
  LET r == list[FirstUnlocked]
      a == tmpAddr[t]
  IN
  /\ rv' = [rv EXCEPT ![r] = mem[a]]
  /\ mem' = [mem EXCEPT ![a] = rv[r]]
  /\ UNCHANGED sp

Lock(t) ==
  /\ t \in live
  /\ \/ LockFull(t)
     \/ /\ \/ LockInRegBook(t) /\ UNCHANGED machine
           \/ LockSwapBook(t) /\ LockSwapCode(t)
        /\ held' = [held EXCEPT ![t] = tmpReg'[t]]

-----------------------------------------------------------------------------
(* MUTANT of UnlockBook: counts down for a temporary that is not locked *)
UnlockBook_Always(t) ==
  /\ regLock' = [r \in Reg |-> regLock[r] /\ r # tmpReg[t]]
  /\ lockCnt' = lockCnt - 1
  /\ UNCHANGED <<list, top, spill, spillMax, regTmp, live, tmpReg, tmpAddr,
                 offset, frame>>

(* ccmmc_register_unlock.  The caller drops the name it was given.  *)
UnlockBook(t) ==
  /\ IF tmpReg[t] # NULL /\ regLock[tmpReg[t]]
     THEN /\ regLock' = [regLock EXCEPT ![tmpReg[t]] = FALSE]
          /\ lockCnt' = lockCnt - 1
     ELSE UNCHANGED <<regLock, lockCnt>>
  /\ UNCHANGED <<list, top, spill, spillMax, regTmp, live, tmpReg, tmpAddr,
                 offset, frame>>

Unlock(t) ==
  /\ t \in live
  /\ UnlockBook(t)
  /\ held' = [held EXCEPT ![t] = NULL]
  /\ UNCHANGED machine

-----------------------------------------------------------------------------
(* ccmmc_register_free.  No caller frees a temporary it has locked.  The   *)
(* fields of a CcmmcTmp given back to malloc are never read: they are set  *)
(* to NULL and 0 here.                                                     *)
Unlocked(t) == tmpReg[t] # NULL => ~ regLock[tmpReg[t]]

(* Nothing is spilled: the register goes behind the ones in use.  *)
FreeRegBook(t) ==
  LET i == RegIndex(t)
      last == top - 1
  IN
  /\ top <= Num
  /\ live' = live \ {t}
  /\ tmpReg' = [tmpReg EXCEPT ![t] = NULL]
  /\ tmpAddr' = [tmpAddr EXCEPT ![t] = 0]
  /\ top' = last
  /\ list' = IF i < last
             THEN [list EXCEPT ![i] = list[last], ![last] = list[i]]
             ELSE list
  /\ UNCHANGED <<spill, spillMax, lockCnt, regTmp, regLock, offset, frame>>

(* The register is given to the temporary in the deepest slot.  *)
FreeRegLoadBook(t) ==
  LET r == tmpReg[t]
      last == spill[top - 1 - Num]
  IN
  /\ top > Num
  /\ RegIndex(t) < Num
  /\ top' = top - 1
  /\ offset' = offset - RegSize
  /\ regTmp' = [regTmp EXCEPT ![r] = last]
  /\ tmpReg' = [tmpReg EXCEPT ![last] = r, ![t] = NULL]
  /\ tmpAddr' = [tmpAddr EXCEPT ![last] = 0, ![t] = 0]
  /\ live' = live \ {t}
  /\ UNCHANGED <<list, spill, spillMax, lockCnt, regLock, frame>>

(* MUTANT of FreeRegLoadCode: the stack pointer is left where it is *)
FreeRegLoadCode_NoPop(t) ==
  /\ rv' = [rv EXCEPT ![tmpReg[t]] = mem[tmpAddr[spill[top - 1 - Num]]]]
  /\ UNCHANGED <<mem, sp>>

(* The emitted load, and add sp, sp, #4. *)
FreeRegLoadCode(t) ==
  /\ rv' = [rv EXCEPT ![tmpReg[t]] = mem[tmpAddr[spill[top - 1 - Num]]]]
  /\ sp' = sp - RegSize
  /\ mem' = [d \in DOMAIN mem \ {sp} |-> mem[d]]

(* The slot, if it is not the deepest, is given to the deepest's owner.  *)
FreeSlotBook(t) ==
  LET i == SpillIndex(t)
      last == spill[top - 1 - Num]
  IN
  /\ top > Num
  /\ RegIndex(t) >= Num
  /\ top' = top - 1
  /\ offset' = offset - RegSize
  /\ IF i < top - 1 - Num
     THEN /\ tmpAddr' = [tmpAddr EXCEPT ![last] = tmpAddr[spill[i]],
                                        ![spill[i]] = 0]
          /\ spill' = [spill EXCEPT ![i] = last]
          /\ live' = live \ {spill[i]}
     ELSE /\ tmpAddr' = [tmpAddr EXCEPT ![spill[i]] = 0]
          /\ live' = live \ {spill[i]}
          /\ UNCHANGED spill
  /\ UNCHANGED <<list, spillMax, lockCnt, regTmp, regLock, tmpReg, frame>>

FreeSlotCode(t) ==
  LET i == SpillIndex(t)
      last == top - 1 - Num
      moved == IF i < last
               THEN [mem EXCEPT ![tmpAddr[spill[i]]] = mem[tmpAddr[spill[last]]]]
               ELSE mem
  IN
  /\ mem' = [d \in DOMAIN mem \ {sp} |-> moved[d]]
  /\ sp' = sp - RegSize
  /\ UNCHANGED rv

Free(t) ==
  /\ t \in live
  /\ Unlocked(t)
  /\ \/ FreeRegBook(t) /\ UNCHANGED machine
     \/ FreeRegLoadBook(t) /\ FreeRegLoadCode(t)
     \/ FreeSlotBook(t) /\ FreeSlotCode(t)
  /\ held' = [held EXCEPT ![t] = NULL]

-----------------------------------------------------------------------------
(* An instruction of the caller whose destination is the name it holds.  *)
Write(t, v) ==
  /\ t \in live
  /\ held[t] # NULL
  /\ rv' = [rv EXCEPT ![held[t]] = v]
  /\ UNCHANGED <<book, held, mem, sp>>

Next ==
  \/ \E f \in Frames : EnterFrame(f)
  \/ \E t \in Tmp :
       \/ Alloc(t)
       \/ Lock(t)
       \/ Unlock(t)
       \/ Free(t)
       \/ \E v \in Val : Write(t, v)

Spec == Init /\ [][Next]_vars

-----------------------------------------------------------------------------
(* Every variable keeps the type the C declarations give it. *)
TypeOK ==
  /\ list \in [Index -> Reg]
  /\ top \in Nat
  /\ spillMax \in Nat \ {0}
  /\ spill \in [0 .. spillMax - 1 -> Tmp \cup {NULL}]
  /\ lockCnt \in Nat
  /\ regTmp \in [Reg -> Tmp \cup {NULL}]
  /\ regLock \in [Reg -> BOOLEAN]
  /\ live \subseteq Tmp
  /\ tmpReg \in [Tmp -> Reg \cup {NULL}]
  /\ tmpAddr \in [Tmp -> Nat]
  /\ frame \in Nat
  /\ offset \in Nat
  /\ sp \in Nat
  /\ held \in [Tmp -> Reg \cup {NULL}]
  /\ rv \in [Reg -> Val]
  /\ DOMAIN mem \subseteq Nat
  /\ \A d \in DOMAIN mem : mem[d] \in Val

(* register.c lines 161-173 and 43-57: swapping entries of the list never  *)
(* loses or duplicates a register, the first top entries are the registers *)
(* in use, and register and temporary point at each other, although a      *)
(* freed temporary stays in the tmp field of its register.                 *)
RegistersInUseFirst ==
  /\ \A i, j \in Index : list[i] = list[j] => i = j
  /\ \A r \in Reg : \E i \in Index : list[i] = r
  /\ \A i \in Index : i < top =>
       /\ regTmp[list[i]] \in live
       /\ tmpReg[regTmp[list[i]]] = list[i]
  /\ \A t \in live : tmpReg[t] # NULL =>
       \E i \in Index : i < top /\ list[i] = tmpReg[t] /\ regTmp[list[i]] = t

(* register.c lines 58-79, 118-130 and 204-250: the spilled temporaries    *)
(* are exactly the first top - num entries of the spill array, the k-th at *)
(* the k-th slot below the frame, whatever was swapped, freed or moved.    *)
SpillSlotsContiguous ==
  /\ Spilled <= spillMax
  /\ \A j \in 0 .. Spilled - 1 :
       /\ spill[j] \in live
       /\ tmpReg[spill[j]] = NULL
       /\ tmpAddr[spill[j]] = Slot(j)
  /\ \A t \in live : tmpReg[t] = NULL =>
       \E j \in 0 .. Spilled - 1 : spill[j] = t

(* register.c lines 60-66, 186-192, 225-231: the depth the compiler        *)
(* assumes is the depth the emitted code produces, and both cover exactly  *)
(* the slots in use.                                                       *)
StackInStep ==
  /\ offset = frame + RegSize * Spilled
  /\ sp = offset
  /\ DOMAIN mem = {Slot(k) : k \in 0 .. Spilled - 1}

(* register.c lines 83-154: lock_cnt is the number of locked registers,    *)
(* never above lock_max, and only a register in use is locked.             *)
LockCountExact ==
  /\ lockCnt = Cardinality({r \in Reg : regLock[r]})
  /\ lockCnt <= LockMax
  /\ \A i \in Index : regLock[list[i]] => i < top

(* register.c line 139: the name lock returned stays the name of the       *)
(* temporary's register until unlock, whatever the caller allocates, locks *)
(* or frees meanwhile.                                                     *)
HeldNameValid ==
  \A t \in Tmp : held[t] # NULL =>
    /\ t \in live
    /\ tmpReg[t] = held[t]
    /\ regLock[held[t]]

(* register.c lines 101, 167 and 206: the three "must found" assertions.   *)
(* The search of free compares addresses that malloc may have reused, in   *)
(* every register of the list, and still finds the temporary's own.        *)
SearchFindsOwner ==
  \A t \in live :
    /\ top <= Num => RegIndex(t) < Num
    /\ RegIndex(t) < Num => RegIndex(t) < top /\ tmpReg[t] = list[RegIndex(t)]
    /\ RegIndex(t) >= Num => SpillIndex(t) < Spilled
    /\ lockCnt < LockMax => FirstUnlocked < Num

-----------------------------------------------------------------------------
(* The home of a temporary, and what the machine holds there.  *)
Value(t) == IF tmpReg[t] # NULL THEN rv[tmpReg[t]] ELSE mem[tmpAddr[t]]

Abs == INSTANCE TmpStore WITH
         store <- [t \in live |-> Value(t)],
         named <- {t \in Tmp : held[t] # NULL}

(* register.c as a whole: the pool implements a store with one cell per    *)
(* temporary.  Swaps, moves of the deepest slot and address reuse never    *)
(* change a value; only an instruction that uses a name the caller was     *)
(* given does, and only that of the temporary it was given for.            *)
ImplementsStore == Abs!Spec
=============================================================================
