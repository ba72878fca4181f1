--------------------------- MODULE RegPoolProofs ----------------------------
(***************************************************************************)
(* Proofs about RegPool for every number of registers, locks, slots and    *)
(* temporaries: the invariants the runs check are together inductive, the  *)
(* linear searches find what the assertions of register.c say they find,   *)
(* and the pool implements the store of TmpStore.                          *)
(***************************************************************************)
EXTENDS RegPool, FiniteSetTheorems, WellFoundedInduction, TLAPS

(* The inductive invariant: no conjunct is inductive without the others.   *)
(* BookInv does without the stack pointer, which a call moves on its own.  *)
SlotsInStep ==
  /\ offset = frame + RegSize * Spilled
  /\ DOMAIN mem = {Slot(k) : k \in 0 .. Spilled - 1}

BookInv ==
  /\ TypeOK
  /\ RegistersInUseFirst
  /\ SpillSlotsContiguous
  /\ SlotsInStep
  /\ LockCountExact
  /\ HeldNameValid

PoolInv ==
  /\ TypeOK
  /\ RegistersInUseFirst
  /\ SpillSlotsContiguous
  /\ StackInStep
  /\ LockCountExact
  /\ HeldNameValid

LEMMA BookOfPool == PoolInv <=> BookInv /\ sp = offset
BY DEF PoolInv, BookInv, StackInStep, SlotsInStep

-----------------------------------------------------------------------------
(* The linear searches return the least index that qualifies.  *)
LEMMA FirstOfLeast ==
  ASSUME NEW S \in SUBSET Nat, S # {}, NEW n
  PROVE  /\ FirstOf(S, n) \in S
         /\ \A j \in S : FirstOf(S, n) <= j
<1>1. PICK i \in S : \A j \in S : ~ (<<j, i>> \in OpToRel(<, Nat))
  BY NatLessThanWellFounded, WFMin
<1>2. \A j \in S : i <= j
  <2>1. SUFFICES ASSUME NEW j \in S, j < i PROVE FALSE
    OBVIOUS
  <2>2. <<j, i>> \in Nat \X Nat /\ <<j, i>>[1] < <<j, i>>[2]
    BY <2>1
  <2>3. <<j, i>> \in OpToRel(<, Nat)
    BY <2>2 DEF OpToRel
  <2> QED
    BY <1>1, <2>3
<1>3. \E k \in S : \A j \in S : k <= j
  BY <1>2
<1> QED
  BY <1>3 DEF FirstOf

(* Sets of registers are finite: counting the locked ones is exact.  *)
LEMMA RegSetCardinality ==
  ASSUME NEW L \in SUBSET Reg
  PROVE  /\ Cardinality(L) \in Nat
         /\ \A r \in L : Cardinality(L \ {r}) = Cardinality(L) - 1
         /\ \A r \in Reg \ L : Cardinality(L \cup {r}) = Cardinality(L) + 1
<1>1. IsFiniteSet(0 .. Num - 1)
  BY FS_Interval, PoolAssumption
<1>2. IsFiniteSet(L)
  BY <1>1, FS_Subset DEF Reg, Index
<1> QED
  BY <1>2, FS_CardinalityType, FS_AddElement, FS_RemoveElement

(* The search of free over the registers: a temporary in a register is     *)
(* found at its own index, below top, although registers above top keep    *)
(* dangling pointers that malloc may have handed out again.                *)
LEMMA RegIndexFound ==
  ASSUME BookInv, NEW t \in live, tmpReg[t] # NULL
  PROVE  /\ RegIndex(t) \in Index
         /\ RegIndex(t) < top
         /\ list[RegIndex(t)] = tmpReg[t]
         /\ regTmp[tmpReg[t]] = t
<1> DEFINE S == {i \in Index : regTmp[list[i]] = t}
<1>1. PICK i \in Index : i < top /\ list[i] = tmpReg[t] /\ regTmp[list[i]] = t
  BY DEF BookInv, RegistersInUseFirst
<1>2. S \in SUBSET Nat /\ i \in S
  BY <1>1, PoolAssumption DEF Index
<1>3. RegIndex(t) \in S /\ RegIndex(t) <= i
  <2> HIDE DEF S
  <2>1. FirstOf(S, Num) \in S /\ FirstOf(S, Num) <= i
    BY <1>2, FirstOfLeast
  <2> QED
    BY <2>1 DEF RegIndex, S
<1>4. RegIndex(t) < top
  BY <1>1, <1>2, <1>3, PoolAssumption DEF BookInv, TypeOK, Index
<1> QED
  BY <1>1, <1>3, <1>4 DEF BookInv, RegistersInUseFirst

(* The same search fails for a spilled temporary, and the search of the    *)
(* spill array then finds it.                                              *)
LEMMA SpillIndexFound ==
  ASSUME BookInv, NEW t \in live, tmpReg[t] = NULL
  PROVE  /\ top > Num
         /\ RegIndex(t) = Num
         /\ SpillIndex(t) \in 0 .. Spilled - 1
         /\ spill[SpillIndex(t)] = t
<1> DEFINE S == {i \in Index : regTmp[list[i]] = t}
           P == {j \in 0 .. Spilled - 1 : spill[j] = t}
<1>1. PICK j \in 0 .. Spilled - 1 : spill[j] = t
  BY DEF BookInv, SpillSlotsContiguous
<1>2. top > Num
  BY <1>1, PoolAssumption DEF BookInv, TypeOK, Spilled
<1>3. S = {}
  <2>1. SUFFICES ASSUME NEW i \in Index, regTmp[list[i]] = t PROVE FALSE
    OBVIOUS
  <2>2. i < top
    BY <1>2, PoolAssumption DEF BookInv, TypeOK, Index
  <2>3. tmpReg[t] = list[i]
    BY <2>1, <2>2 DEF BookInv, RegistersInUseFirst
  <2> QED
    BY <2>3, PoolAssumption DEF BookInv, TypeOK, Reg, Index
<1>4. RegIndex(t) = Num
  BY <1>3 DEF RegIndex, FirstOf
<1>5. P \in SUBSET Nat /\ P # {}
  BY <1>1
<1>6. SpillIndex(t) \in P
  <2> HIDE DEF P
  <2>1. FirstOf(P, Spilled) \in P
    BY <1>5, FirstOfLeast
  <2> QED
    BY <2>1 DEF SpillIndex, P
<1> QED
  BY <1>2, <1>4, <1>6

(* The search of lock: while fewer than lock_max registers are locked one  *)
(* of them is free to be swapped.                                          *)
LEMMA FirstUnlockedFound ==
  ASSUME BookInv, lockCnt < LockMax
  PROVE  FirstUnlocked \in Index /\ ~ regLock[list[FirstUnlocked]]
<1> DEFINE S == {i \in Index : ~ regLock[list[i]]}
           L == {r \in Reg : regLock[r]}
<1>1. S # {}
  <2>1. SUFFICES ASSUME S = {} PROVE FALSE
    OBVIOUS
  <2>2. \A r \in Reg : regLock[r]
    BY <2>1 DEF BookInv, RegistersInUseFirst
  <2>3. L = 0 .. Num - 1
    BY <2>2 DEF Reg, Index
  <2>4. Cardinality(0 .. Num - 1) = Num
    BY FS_Interval, PoolAssumption
  <2>5. lockCnt = Num
    BY <2>3, <2>4 DEF BookInv, LockCountExact
  <2> QED
    BY <2>5, PoolAssumption
<1>2. S \in SUBSET Nat
  BY PoolAssumption DEF Index
<1>3. FirstUnlocked \in S
  <2> HIDE DEF S
  <2>1. FirstOf(S, Num) \in S
    BY <1>1, <1>2, FirstOfLeast
  <2> QED
    BY <2>1 DEF FirstUnlocked, S
<1> QED
  BY <1>3

-----------------------------------------------------------------------------
(* The initial state satisfies the invariant.  *)
LEMMA InitInv == Init => PoolInv
<1> SUFFICES ASSUME Init PROVE PoolInv
  OBVIOUS
<1> USE PoolAssumption DEF Init, BookInit
<1>1. TypeOK
  <2>1. frame \in Nat
    OBVIOUS
  <2>2. spill \in [0 .. spillMax - 1 -> Tmp \cup {NULL}]
    OBVIOUS
  <2> QED
    BY <2>1, <2>2 DEF TypeOK, Index, Reg
<1>2. RegistersInUseFirst
  BY DEF RegistersInUseFirst, Index, Reg
<1>3. Spilled = 0
  BY DEF Spilled
<1>4. SpillSlotsContiguous
  BY <1>3 DEF SpillSlotsContiguous
<1>5. StackInStep
  BY <1>1, <1>3 DEF StackInStep, RegSize, TypeOK
<1>6. LockCountExact
  <2>1. {r \in Reg : regLock[r]} = {}
    OBVIOUS
  <2>2. Cardinality({}) = 0
    BY FS_EmptySet
  <2>3. \A i \in Index : ~ regLock[list[i]]
    BY DEF Reg
  <2>4. lockCnt = 0 /\ 0 <= LockMax
    OBVIOUS
  <2> HIDE DEF Init, BookInit
  <2> QED
    BY <2>1, <2>2, <2>3, <2>4 DEF LockCountExact
<1>7. HeldNameValid
  BY DEF HeldNameValid
<1> QED
  BY <1>1, <1>2, <1>4, <1>5, <1>6, <1>7 DEF PoolInv

(* Entering a frame keeps the invariant: no temporary is allocated.  *)
LEMMA EnterFrameInv ==
  ASSUME PoolInv, NEW f \in Frames, EnterFrame(f)
  PROVE  PoolInv'
<1> USE PoolAssumption DEF PoolInv, EnterFrame
<1>1. TypeOK'
  <2>1. f \in Nat
    OBVIOUS
  <2> QED
    BY <2>1 DEF TypeOK
<1>2. Spilled = 0 /\ Spilled' = 0
  BY DEF Spilled
<1>3. live = {}
  <2>1. SUFFICES ASSUME NEW t \in live PROVE FALSE
    OBVIOUS
  <2>2. CASE tmpReg[t] = NULL
    BY <2>2, <1>2 DEF SpillSlotsContiguous
  <2>3. CASE tmpReg[t] # NULL
    BY <2>3 DEF RegistersInUseFirst, Index
  <2> QED
    BY <2>2, <2>3
<1>4. RegistersInUseFirst'
  BY DEF RegistersInUseFirst
<1>5. SpillSlotsContiguous'
  BY <1>2, <1>3 DEF SpillSlotsContiguous, TypeOK
<1>6. StackInStep'
  <2>1. DOMAIN mem = {}
    BY <1>2 DEF StackInStep
  <2> QED
    BY <1>1, <1>2, <2>1 DEF StackInStep, RegSize, TypeOK
<1>7. LockCountExact'
  BY DEF LockCountExact
<1>8. HeldNameValid'
  BY DEF HeldNameValid
<1> QED
  BY <1>1, <1>4, <1>5, <1>6, <1>7, <1>8

(* Allocating a register keeps the invariant: the entry at top was not in  *)
(* use, whatever its tmp field still points at.                            *)
LEMMA AllocRegInv ==
  ASSUME PoolInv, NEW t \in Tmp, AllocRegBook(t), UNCHANGED <<machine, held>>
  PROVE  PoolInv'
<1> USE PoolAssumption DEF PoolInv, AllocRegBook, machine
<1> DEFINE r == list[top]
<1>1. top \in Index /\ r \in Reg
  BY DEF TypeOK, Index
<1>2. TypeOK'
  BY <1>1 DEF TypeOK
<1>3. Spilled = 0 /\ Spilled' = 0
  BY DEF Spilled, TypeOK
<1>4. ~ regLock[r]
  BY <1>1 DEF LockCountExact, TypeOK, Index
<1>5. RegistersInUseFirst'
  <2>1. \A i, j \in Index : list'[i] = list'[j] => i = j
    BY DEF RegistersInUseFirst
  <2>2. \A s \in Reg : \E i \in Index : list'[i] = s
    BY DEF RegistersInUseFirst
  <2>3. ASSUME NEW i \in Index, i < top'
        PROVE  /\ regTmp'[list'[i]] \in live'
               /\ tmpReg'[regTmp'[list'[i]]] = list'[i]
    <3>1. CASE i = top
      BY <3>1, <1>1 DEF TypeOK
    <3>2. CASE i # top
      <4>1. i < top /\ list[i] # r /\ list[i] \in Reg
        BY <3>2, <2>3, <1>1 DEF TypeOK, Index, RegistersInUseFirst
      <4>2. regTmp[list[i]] \in live /\ tmpReg[regTmp[list[i]]] = list[i]
        BY <4>1 DEF RegistersInUseFirst
      <4> QED
        BY <4>1, <4>2 DEF TypeOK
    <3> QED
      BY <3>1, <3>2
  <2>4. ASSUME NEW u \in live', tmpReg'[u] # NULL
        PROVE  \E i \in Index :
                 i < top' /\ list'[i] = tmpReg'[u] /\ regTmp'[list'[i]] = u
    <3>1. CASE u = t
      BY <3>1, <1>1 DEF TypeOK, Index
    <3>2. CASE u # t
      <4>1. u \in live /\ tmpReg'[u] = tmpReg[u]
        BY <3>2, <2>4 DEF TypeOK
      <4>2. PICK i \in Index :
              i < top /\ list[i] = tmpReg[u] /\ regTmp[list[i]] = u
        BY <4>1, <2>4 DEF RegistersInUseFirst
      <4>3. list[i] # r
        BY <4>2, <1>1 DEF TypeOK, Index, RegistersInUseFirst
      <4> QED
        BY <4>1, <4>2, <4>3, <1>1 DEF TypeOK, Index
    <3> QED
      BY <3>1, <3>2
  <2> QED
    BY <2>1, <2>2, <2>3, <2>4 DEF RegistersInUseFirst
<1>6. SpillSlotsContiguous'
  BY <1>1, <1>3 DEF SpillSlotsContiguous, TypeOK, Reg, Index
<1>7. StackInStep'
  BY <1>3 DEF StackInStep, Slot
<1>8. LockCountExact'
  <2>1. regLock' = regLock
    BY <1>1, <1>4 DEF TypeOK
  <2>2. ASSUME NEW i \in Index, regLock[list[i]] PROVE i < top'
    BY <2>2, <1>1 DEF LockCountExact, TypeOK, Index
  <2> QED
    BY <2>1, <2>2 DEF LockCountExact
<1>9. HeldNameValid'
  <2>1. regLock' = regLock
    BY <1>1, <1>4 DEF TypeOK
  <2> QED
    BY <2>1 DEF HeldNameValid, TypeOK
<1> QED
  BY <1>2, <1>5, <1>6, <1>7, <1>8, <1>9

(* Allocating a slot keeps the invariant, with or without growing the      *)
(* spill array.                                                            *)
LEMMA AllocStackInv ==
  ASSUME PoolInv, NEW t \in Tmp, NEW v \in Val, AllocStackBook(t),
         AllocStackCode(v), UNCHANGED held
  PROVE  PoolInv'
<1> USE PoolAssumption DEF PoolInv, AllocStackBook, AllocStackCode
<1>1. /\ Spilled = top - Num
      /\ Spilled' = Spilled + 1
      /\ Spilled \in Nat
      /\ top - Num = Spilled
  BY DEF Spilled, TypeOK
<1>2. /\ spillMax' \in Nat \ {0}
      /\ spillMax <= spillMax'
      /\ Spilled < spillMax'
  BY <1>1 DEF TypeOK, SpillSlotsContiguous
<1>3. /\ spill' \in [0 .. spillMax' - 1 -> Tmp \cup {NULL}]
      /\ spill'[Spilled] = t
      /\ \A j \in 0 .. Spilled - 1 : spill'[j] = spill[j]
  <2>1. DOMAIN spill = 0 .. spillMax - 1
    BY DEF TypeOK
  <2>2. GrowSpill(spillMax') \in [0 .. spillMax' - 1 -> Tmp \cup {NULL}]
    BY <2>1 DEF GrowSpill, TypeOK
  <2>3. \A j \in 0 .. Spilled - 1 : GrowSpill(spillMax')[j] = spill[j]
    BY <2>1, <1>1, <1>2 DEF GrowSpill, SpillSlotsContiguous, TypeOK
  <2>4. Spilled \in 0 .. spillMax' - 1
    BY <1>1, <1>2
  <2>5. spill' = [GrowSpill(spillMax') EXCEPT ![Spilled] = t]
    BY <1>1
  <2> HIDE DEF AllocStackBook, AllocStackCode, PoolInv
  <2> QED
    BY <2>2, <2>3, <2>4, <2>5, <1>1
<1>4. offset + RegSize = frame + RegSize * (Spilled + 1)
  BY <1>1 DEF StackInStep, RegSize, TypeOK
<1>5. offset + RegSize = Slot(Spilled) /\ sp' = Slot(Spilled)
  BY <1>4 DEF Slot, StackInStep
<1>6. TypeOK'
  <2>1. sp' \in Nat /\ offset' \in Nat
    BY DEF TypeOK, RegSize
  <2>2. DOMAIN mem' \subseteq Nat /\ \A d \in DOMAIN mem' : mem'[d] \in Val
    BY <2>1 DEF TypeOK
  <2>3. top' \in Nat
    BY DEF TypeOK
  <2> QED
    BY <2>1, <2>2, <2>3, <1>2, <1>3 DEF TypeOK
<1>7. \A u \in live : u # t /\ u \in Tmp /\ tmpReg'[u] = tmpReg[u]
                      /\ tmpAddr'[u] = tmpAddr[u]
  BY DEF TypeOK
<1>8. tmpReg'[t] = NULL /\ tmpAddr'[t] = Slot(Spilled)
  BY <1>5 DEF TypeOK
<1>9. RegistersInUseFirst'
  <2>1. /\ \A i, j \in Index : list'[i] = list'[j] => i = j
        /\ \A s \in Reg : \E i \in Index : list'[i] = s
    BY DEF RegistersInUseFirst
  <2>2. ASSUME NEW i \in Index, i < top'
        PROVE  /\ regTmp'[list'[i]] \in live'
               /\ tmpReg'[regTmp'[list'[i]]] = list'[i]
    <3>1. i < top
      BY DEF TypeOK, Index
    <3> QED
      BY <3>1, <1>7 DEF RegistersInUseFirst
  <2>3. ASSUME NEW u \in live', tmpReg'[u] # NULL
        PROVE  \E i \in Index :
                 i < top' /\ list'[i] = tmpReg'[u] /\ regTmp'[list'[i]] = u
    <3>1. u \in live
      BY <2>3, <1>8
    <3>2. PICK i \in Index :
            i < top /\ list[i] = tmpReg[u] /\ regTmp[list[i]] = u
      BY <3>1, <2>3, <1>7 DEF RegistersInUseFirst
    <3> QED
      BY <3>1, <3>2, <1>7 DEF TypeOK, Index
  <2> QED
    BY <2>1, <2>2, <2>3 DEF RegistersInUseFirst
<1>10. SpillSlotsContiguous'
  <2>1. Spilled' <= spillMax'
    BY <1>1, <1>2
  <2>2. ASSUME NEW j \in 0 .. Spilled' - 1
        PROVE  /\ spill'[j] \in live'
               /\ tmpReg'[spill'[j]] = NULL
               /\ tmpAddr'[spill'[j]] = Slot(j)
    <3>1. CASE j = Spilled
      BY <3>1, <1>3, <1>8
    <3>2. CASE j # Spilled
      <4>1. j \in 0 .. Spilled - 1
        BY <3>2, <1>1
      <4> QED
        BY <4>1, <1>3, <1>7 DEF SpillSlotsContiguous
    <3> QED
      BY <3>1, <3>2
  <2>3. ASSUME NEW u \in live', tmpReg'[u] = NULL
        PROVE  \E j \in 0 .. Spilled' - 1 : spill'[j] = u
    <3>1. CASE u = t
      <4>1. Spilled \in 0 .. Spilled' - 1
        BY <1>1
      <4> QED
        BY <3>1, <4>1, <1>3
    <3>2. CASE u # t
      <4>1. PICK j \in 0 .. Spilled - 1 : spill[j] = u
        BY <3>2, <2>3, <1>7 DEF SpillSlotsContiguous
      <4> HIDE DEF PoolInv, AllocStackBook, AllocStackCode
      <4>2. j \in 0 .. Spilled' - 1
        BY <4>1, <1>1
      <4>3. spill'[j] = u
        BY <4>1, <1>3
      <4> QED
        BY <4>2, <4>3
    <3> QED
      BY <3>1, <3>2
  <2>4. frame' = frame
    OBVIOUS
  <2> QED
    BY <2>1, <2>2, <2>3, <2>4 DEF SpillSlotsContiguous, Slot
<1>11. StackInStep'
  <2>1. DOMAIN mem' = DOMAIN mem \cup {Slot(Spilled)}
    BY <1>5
  <2>2. {Slot(k) : k \in 0 .. Spilled' - 1}
          = {Slot(k) : k \in 0 .. Spilled - 1} \cup {Slot(Spilled)}
    <3>1. 0 .. Spilled' - 1 = (0 .. Spilled - 1) \cup {Spilled}
      BY <1>1
    <3> QED
      BY <3>1
  <2>3. DOMAIN mem' = {Slot(k) : k \in 0 .. Spilled' - 1}
    BY <2>1, <2>2 DEF StackInStep
  <2>4. frame' = frame
    OBVIOUS
  <2>5. offset' = frame' + RegSize * Spilled' /\ sp' = offset'
    BY <1>1, <1>4, <1>5
  <2> QED
    BY <2>3, <2>4, <2>5 DEF StackInStep, Slot
<1>12. LockCountExact'
  BY DEF LockCountExact, TypeOK, Index
<1>13. HeldNameValid'
  BY <1>7 DEF HeldNameValid
<1> QED
  BY <1>6, <1>9, <1>10, <1>11, <1>12, <1>13

(* Unlocking keeps the invariant: one register fewer is locked, and the    *)
(* caller drops its name.                                                  *)
LEMMA UnlockInv ==
  ASSUME BookInv, NEW t \in live, Unlock(t)
  PROVE  BookInv'
<1> USE PoolAssumption DEF BookInv, Unlock, UnlockBook, machine
<1> DEFINE L == {r \in Reg : regLock[r]}
<1>1. t \in Tmp /\ tmpReg[t] \in Reg \cup {NULL}
  BY DEF TypeOK
<1>3. LockCountExact' /\ lockCnt' \in Nat /\ regLock' \in [Reg -> BOOLEAN]
  <2>1. CASE tmpReg[t] # NULL /\ regLock[tmpReg[t]]
    <3>1. tmpReg[t] \in L
      BY <2>1, <1>1
    <3>2. {r \in Reg : regLock'[r]} = L \ {tmpReg[t]}
      BY <2>1, <1>1 DEF TypeOK
    <3>3. /\ Cardinality(L) \in Nat
          /\ Cardinality(L \ {tmpReg[t]}) = Cardinality(L) - 1
          /\ Cardinality(L \ {tmpReg[t]}) \in Nat
      <4>1. L \in SUBSET Reg /\ L \ {tmpReg[t]} \in SUBSET Reg
        OBVIOUS
      <4> HIDE DEF L
      <4> QED
        BY <4>1, <3>1, RegSetCardinality
    <3>4. lockCnt' = lockCnt - 1
      BY <2>1
    <3>6. \A i \in Index : regLock'[list'[i]] => i < top'
      BY <2>1, <1>1 DEF LockCountExact, TypeOK
    <3>7. lockCnt = Cardinality(L) /\ lockCnt <= LockMax
      BY DEF LockCountExact
    <3>8. regLock' \in [Reg -> BOOLEAN]
      BY <2>1 DEF TypeOK
    <3> HIDE DEF BookInv, Unlock, UnlockBook
    <3>9. lockCnt' = Cardinality(L \ {tmpReg[t]}) /\ lockCnt' <= LockMax
      BY <3>3, <3>4, <3>7
    <3> QED
      BY <3>2, <3>3, <3>6, <3>8, <3>9 DEF LockCountExact
  <2>2. CASE ~ (tmpReg[t] # NULL /\ regLock[tmpReg[t]])
    BY <2>2 DEF LockCountExact, TypeOK
  <2> QED
    BY <2>1, <2>2
<1>4. TypeOK'
  BY <1>3, <1>1 DEF TypeOK
<1>5. RegistersInUseFirst'
  BY DEF RegistersInUseFirst
<1>6. SpillSlotsContiguous'
  BY DEF SpillSlotsContiguous, Spilled, Slot
<1>7. SlotsInStep'
  BY DEF SlotsInStep, Spilled, Slot
<1>8. HeldNameValid'
  <2>1. SUFFICES ASSUME NEW u \in Tmp, held'[u] # NULL
                 PROVE  u \in live /\ tmpReg[u] = held'[u] /\ regLock'[held'[u]]
    BY DEF HeldNameValid
  <2>2. u # t /\ held'[u] = held[u]
    BY <2>1, <1>1 DEF TypeOK
  <2>3. u \in live /\ tmpReg[u] = held[u] /\ regLock[held[u]]
    BY <2>1, <2>2 DEF HeldNameValid
  <2>4. tmpReg[u] # tmpReg[t]
    BY <2>1, <2>2, <2>3 DEF RegistersInUseFirst
  <2>5. held[u] \in Reg
    BY <2>1, <2>2 DEF TypeOK
  <2> QED
    BY <2>2, <2>3, <2>4, <2>5, <1>1 DEF TypeOK
<1> QED
  BY <1>3, <1>4, <1>5, <1>6, <1>7, <1>8

(* A refused lock changes nothing but the caller's name.  *)
LEMMA LockFullInv ==
  ASSUME BookInv, NEW t \in live, LockFull(t)
  PROVE  BookInv'
<1> USE DEF BookInv, LockFull, book, machine
<1>1. TypeOK'
  BY DEF TypeOK
<1>2. RegistersInUseFirst' /\ SpillSlotsContiguous' /\ SlotsInStep'
  BY DEF RegistersInUseFirst, SpillSlotsContiguous, SlotsInStep, Spilled, Slot
<1>3. LockCountExact' /\ HeldNameValid'
  BY DEF LockCountExact, HeldNameValid, TypeOK
<1> QED
  BY <1>1, <1>2, <1>3

(* Locking a register counts it once.  *)
LEMMA LockOne ==
  ASSUME BookInv, NEW r \in Reg, lockCnt < LockMax, ~ regLock[r],
         regLock' = [regLock EXCEPT ![r] = TRUE], lockCnt' = lockCnt + 1
  PROVE  /\ lockCnt' = Cardinality({q \in Reg : regLock'[q]})
         /\ lockCnt' <= LockMax
         /\ lockCnt' \in Nat
<1> DEFINE L == {q \in Reg : regLock[q]}
<1>1. {q \in Reg : regLock'[q]} = L \cup {r}
  BY DEF BookInv, TypeOK
<1>2. L \in SUBSET Reg /\ r \in Reg \ L
  OBVIOUS
<1>3. lockCnt = Cardinality(L) /\ lockCnt \in Nat
  BY DEF BookInv, LockCountExact, TypeOK
<1>4. Cardinality(L \cup {r}) = Cardinality(L) + 1
  <2> HIDE DEF L
  <2> QED
    BY <1>2, RegSetCardinality
<1> QED
  BY <1>1, <1>3, <1>4, PoolAssumption

(* Locking a temporary in its register keeps the invariant.  *)
LEMMA LockInRegInv ==
  ASSUME BookInv, NEW t \in live, LockInRegBook(t), UNCHANGED machine,
         held' = [held EXCEPT ![t] = tmpReg'[t]]
  PROVE  BookInv'
<1> USE PoolAssumption DEF BookInv, LockInRegBook, machine
<1> DEFINE r == tmpReg[t]
<1>1. t \in Tmp /\ r \in Reg
  BY DEF TypeOK
<1>2. PICK i \in Index : i < top /\ list[i] = r /\ regTmp[r] = t
  BY DEF RegistersInUseFirst
<1>3. LockCountExact' /\ lockCnt' \in Nat /\ regLock' \in [Reg -> BOOLEAN]
  <2>1. \A j \in Index : regLock'[list'[j]] => j < top'
    BY <1>1, <1>2 DEF LockCountExact, TypeOK, RegistersInUseFirst
  <2>2. regLock' \in [Reg -> BOOLEAN]
    BY DEF TypeOK
  <2>3. CASE regLock[r]
    <3>1. regLock' = regLock /\ lockCnt' = lockCnt
      BY <2>3, <1>1 DEF TypeOK
    <3>2. lockCnt \in Nat /\ LockCountExact
      BY DEF TypeOK
    <3> HIDE DEF BookInv, LockInRegBook
    <3>3. {q \in Reg : regLock'[q]} = {q \in Reg : regLock[q]}
      BY <3>1
    <3>4. LockCountExact'
      BY <3>1, <3>2, <3>3, <2>1 DEF LockCountExact
    <3> QED
      BY <3>1, <3>2, <3>4, <2>2
  <2>4. CASE ~ regLock[r]
    <3>1. lockCnt' = lockCnt + 1
      BY <2>4
    <3>2. /\ lockCnt' = Cardinality({q \in Reg : regLock'[q]})
          /\ lockCnt' <= LockMax
          /\ lockCnt' \in Nat
      BY <3>1, <2>4, <1>1, LockOne
    <3> HIDE DEF BookInv, LockInRegBook
    <3>3. LockCountExact'
      BY <3>2, <2>1 DEF LockCountExact
    <3> QED
      BY <3>2, <3>3, <2>2
  <2> QED
    BY <2>3, <2>4
<1>4. TypeOK'
  BY <1>1, <1>3 DEF TypeOK
<1>5. RegistersInUseFirst' /\ SpillSlotsContiguous' /\ SlotsInStep'
  BY DEF RegistersInUseFirst, SpillSlotsContiguous, SlotsInStep, Spilled, Slot
<1>6. HeldNameValid'
  <2>1. regLock'[r]
    BY <1>1 DEF TypeOK
  <2>2. \A q \in Reg : regLock[q] => regLock'[q]
    BY <1>1 DEF TypeOK
  <2>3. held'[t] = r /\ \A u \in Tmp : u # t => held'[u] = held[u]
    BY <1>1 DEF TypeOK
  <2>4. \A u \in Tmp : held[u] \in Reg \cup {NULL}
    BY DEF TypeOK
  <2> QED
    BY <2>1, <2>2, <2>3, <2>4 DEF HeldNameValid
<1> QED
  BY <1>3, <1>4, <1>5, <1>6

(* Swapping a spilled temporary with the one in the first unlocked         *)
(* register keeps the invariant: each takes the other's home and the spill *)
(* array follows.                                                          *)
LEMMA LockSwapInv ==
  ASSUME BookInv, NEW t \in live, LockSwapBook(t), LockSwapCode(t),
         held' = [held EXCEPT ![t] = tmpReg'[t]]
  PROVE  BookInv'
<1> USE PoolAssumption DEF BookInv
<1> DEFINE x == FirstUnlocked
           r == list[x]
           u == regTmp[r]
           k == SpillIndex(t)
<1> USE DEF LockSwapBook, LockSwapCode
<1>1. x \in Index /\ ~ regLock[r]
  BY FirstUnlockedFound
<1>2. top > Num /\ k \in 0 .. Spilled - 1 /\ spill[k] = t /\ tmpAddr[t] = Slot(k)
  BY SpillIndexFound DEF SpillSlotsContiguous
<1>3. x < top /\ r \in Reg
  BY <1>1, <1>2 DEF TypeOK, Index
<1>4. u \in live /\ tmpReg[u] = r /\ t \in Tmp /\ u \in Tmp /\ u # t
  BY <1>1, <1>3 DEF RegistersInUseFirst, TypeOK, Reg, Index
<1>5. /\ spill' = [spill EXCEPT ![k] = u]
      /\ tmpReg' = [tmpReg EXCEPT ![u] = NULL, ![t] = r]
      /\ tmpAddr' = [tmpAddr EXCEPT ![u] = tmpAddr[t], ![t] = 0]
      /\ regTmp' = [regTmp EXCEPT ![r] = t]
      /\ regLock' = [regLock EXCEPT ![r] = TRUE]
      /\ lockCnt' = lockCnt + 1
      /\ lockCnt < LockMax
      /\ tmpReg[t] = NULL
      /\ UNCHANGED <<list, top, spillMax, live, offset, frame>>
      /\ rv' = [rv EXCEPT ![r] = mem[tmpAddr[t]]]
      /\ mem' = [mem EXCEPT ![tmpAddr[t]] = rv[r]]
      /\ UNCHANGED sp
  OBVIOUS
<1> HIDE DEF LockSwapBook, LockSwapCode, x, r, u, k
<1>6. /\ Spilled' = Spilled
      /\ Spilled \in Nat
      /\ Spilled <= spillMax
      /\ \A j : Slot(j)' = Slot(j)
  BY <1>5 DEF Spilled, SpillSlotsContiguous, TypeOK, Slot
<1>7. k \in DOMAIN spill
  BY <1>2, <1>6 DEF TypeOK
<1>8. tmpAddr[t] \in DOMAIN mem
  BY <1>2 DEF SlotsInStep
<1>9. /\ tmpReg'[t] = r /\ tmpReg'[u] = NULL /\ tmpAddr'[u] = Slot(k)
      /\ \A w \in live : w # t /\ w # u =>
           tmpReg'[w] = tmpReg[w] /\ tmpAddr'[w] = tmpAddr[w]
  BY <1>2, <1>4, <1>5 DEF TypeOK
<1>10. spill'[k] = u /\ \A j \in 0 .. Spilled - 1 : j # k => spill'[j] = spill[j]
  BY <1>5, <1>7, <1>6 DEF TypeOK
<1>11. regTmp'[r] = t /\ \A q \in Reg : q # r => regTmp'[q] = regTmp[q]
  BY <1>3, <1>5 DEF TypeOK
<1>12. lockCnt' \in Nat /\ LockCountExact'
  <2>1. /\ lockCnt' = Cardinality({q \in Reg : regLock'[q]})
        /\ lockCnt' <= LockMax
        /\ lockCnt' \in Nat
    BY <1>1, <1>3, <1>5, LockOne
  <2>2. \A i \in Index : i < top'
    BY <1>2, <1>5 DEF TypeOK, Index
  <2> QED
    BY <2>1, <2>2 DEF LockCountExact
<1>13. TypeOK'
  <2>1. /\ tmpReg' \in [Tmp -> Reg \cup {NULL}]
        /\ tmpAddr' \in [Tmp -> Nat]
        /\ regTmp' \in [Reg -> Tmp \cup {NULL}]
        /\ regLock' \in [Reg -> BOOLEAN]
    BY <1>3, <1>4, <1>5 DEF TypeOK
  <2>2. spill' \in [0 .. spillMax' - 1 -> Tmp \cup {NULL}]
    BY <1>4, <1>5 DEF TypeOK
  <2>3. rv' \in [Reg -> Val] /\ DOMAIN mem' = DOMAIN mem
    BY <1>5, <1>8 DEF TypeOK
  <2>4. \A d \in DOMAIN mem' : mem'[d] \in Val
    BY <1>3, <1>5, <1>8 DEF TypeOK
  <2>5. held' \in [Tmp -> Reg \cup {NULL}]
    BY <2>1, <1>4 DEF TypeOK
  <2> QED
    BY <2>1, <2>2, <2>3, <2>4, <2>5, <1>5, <1>12 DEF TypeOK
<1>14. RegistersInUseFirst'
  <2>1. /\ \A i, j \in Index : list'[i] = list'[j] => i = j
        /\ \A s \in Reg : \E i \in Index : list'[i] = s
    BY <1>5 DEF RegistersInUseFirst
  <2>2. ASSUME NEW i \in Index, i < top'
        PROVE  /\ regTmp'[list'[i]] \in live'
               /\ tmpReg'[regTmp'[list'[i]]] = list'[i]
    <3>1. CASE list[i] = r
      BY <3>1, <1>5, <1>9, <1>11
    <3>2. CASE list[i] # r
      <4>1. list[i] \in Reg /\ i < top
        BY <2>2, <1>5 DEF TypeOK
      <4>2. regTmp[list[i]] \in live /\ tmpReg[regTmp[list[i]]] = list[i]
        BY <4>1 DEF RegistersInUseFirst
      <4>3. regTmp[list[i]] # t /\ regTmp[list[i]] # u
        BY <4>1, <4>2, <3>2, <1>4, <1>5 DEF Reg, Index
      <4>4. list' = list /\ live' = live
        BY <1>5
      <4>5. regTmp'[list[i]] = regTmp[list[i]]
        BY <4>1, <3>2, <1>11
      <4>6. tmpReg'[regTmp[list[i]]] = tmpReg[regTmp[list[i]]]
        BY <4>2, <4>3, <1>9
      <4> HIDE DEF BookInv
      <4> QED
        BY <4>2, <4>4, <4>5, <4>6
    <3> QED
      BY <3>1, <3>2
  <2>3. ASSUME NEW w \in live', tmpReg'[w] # NULL
        PROVE  \E i \in Index :
                 i < top' /\ list'[i] = tmpReg'[w] /\ regTmp'[list'[i]] = w
    <3>1. CASE w = t
      BY <3>1, <1>1, <1>3, <1>5, <1>9, <1>11 DEF r
    <3>2. CASE w # t
      <4>1. w \in live /\ w # u /\ tmpReg'[w] = tmpReg[w]
        BY <3>2, <2>3, <1>5, <1>9
      <4>2. PICK i \in Index :
              i < top /\ list[i] = tmpReg[w] /\ regTmp[list[i]] = w
        BY <4>1, <2>3 DEF RegistersInUseFirst
      <4>3. list[i] # r /\ list[i] \in Reg
        BY <4>1, <4>2 DEF u, TypeOK
      <4> QED
        BY <4>1, <4>2, <4>3, <1>5, <1>11
    <3> QED
      BY <3>1, <3>2
  <2> QED
    BY <2>1, <2>2, <2>3 DEF RegistersInUseFirst
<1>15. SpillSlotsContiguous'
  <2>1. Spilled' <= spillMax'
    BY <1>5, <1>6
  <2>2. ASSUME NEW j \in 0 .. Spilled - 1
        PROVE  /\ spill'[j] \in live'
               /\ tmpReg'[spill'[j]] = NULL
               /\ tmpAddr'[spill'[j]] = Slot(j)
    <3>1. CASE j = k
      BY <3>1, <1>4, <1>5, <1>9, <1>10
    <3>2. CASE j # k
      <4>1. /\ spill[j] \in live /\ tmpReg[spill[j]] = NULL
            /\ tmpAddr[spill[j]] = Slot(j)
        BY DEF SpillSlotsContiguous
      <4>2. spill[j] # u
        BY <4>1, <1>3, <1>4 DEF Reg, Index
      <4>3. Slot(j) # Slot(k)
        BY <3>2, <1>2, <1>6 DEF Slot, RegSize, TypeOK
      <4>4. spill[j] # t
        BY <4>1, <4>3, <1>2
      <4>5. spill'[j] = spill[j] /\ live' = live
        BY <3>2, <1>5, <1>10
      <4>6. /\ tmpReg'[spill[j]] = tmpReg[spill[j]]
            /\ tmpAddr'[spill[j]] = tmpAddr[spill[j]]
        BY <4>1, <4>2, <4>4, <1>9
      <4> HIDE DEF BookInv
      <4> QED
        BY <4>1, <4>5, <4>6
    <3> QED
      BY <3>1, <3>2
  <2>3. ASSUME NEW w \in live', tmpReg'[w] = NULL
        PROVE  \E j \in 0 .. Spilled - 1 : spill'[j] = w
    <3>1. CASE w = u
      BY <3>1, <1>2, <1>10
    <3>2. CASE w # u
      <4>1. w # t
        BY <2>3, <1>3, <1>9 DEF Reg, Index
      <4>2. w \in live /\ tmpReg[w] = NULL
        BY <4>1, <3>2, <2>3, <1>5, <1>9
      <4>3. PICK j \in 0 .. Spilled - 1 : spill[j] = w
        BY <4>2 DEF SpillSlotsContiguous
      <4>4. j # k
        BY <4>1, <4>3, <1>2
      <4> QED
        BY <4>3, <4>4, <1>10
    <3> QED
      BY <3>1, <3>2
  <2> QED
    BY <2>1, <2>2, <2>3, <1>6 DEF SpillSlotsContiguous
<1>16. SlotsInStep'
  <2>1. DOMAIN mem' = DOMAIN mem
    BY <1>5
  <2>2. Spilled' = Spilled /\ UNCHANGED <<offset, sp, frame>>
    BY <1>5, <1>6
  <2> QED
    BY <2>1, <2>2 DEF SlotsInStep, Slot
<1>17. HeldNameValid'
  <2>1. SUFFICES ASSUME NEW w \in Tmp, held'[w] # NULL
                 PROVE  w \in live /\ tmpReg'[w] = held'[w] /\ regLock'[held'[w]]
    BY <1>5 DEF HeldNameValid
  <2>2. CASE w = t
    <3>1. held'[t] = r
      BY <1>4, <1>9 DEF TypeOK
    <3> QED
      BY <3>1, <2>2, <1>3, <1>5, <1>9 DEF TypeOK
  <2>3. CASE w # t
    <3>1. held'[w] = held[w] /\ held[w] \in Reg
      BY <2>1, <2>3 DEF TypeOK
    <3>2. w \in live /\ tmpReg[w] = held[w] /\ regLock[held[w]]
      BY <3>1, <2>1 DEF HeldNameValid
    <3>3. w # u
      BY <3>2, <1>1, <1>4
    <3>4. regLock'[held[w]]
      BY <3>1, <3>2, <1>5 DEF TypeOK
    <3> QED
      BY <2>3, <3>1, <3>2, <3>3, <3>4, <1>9
  <2> QED
    BY <2>2, <2>3
<1> QED
  BY <1>12, <1>13, <1>14, <1>15, <1>16, <1>17

(* Freeing with nothing spilled keeps the invariant: the register leaves   *)
(* the first top entries of the list and keeps its dangling pointer.       *)
LEMMA FreeRegInv ==
  ASSUME BookInv, NEW t \in live, Unlocked(t), FreeRegBook(t),
         UNCHANGED machine, held' = [held EXCEPT ![t] = NULL]
  PROVE  BookInv'
<1> USE PoolAssumption DEF BookInv
<1> DEFINE i0 == RegIndex(t)
           last == top - 1
<1>1. /\ top <= Num
      /\ live' = live \ {t}
      /\ tmpReg' = [tmpReg EXCEPT ![t] = NULL]
      /\ tmpAddr' = [tmpAddr EXCEPT ![t] = 0]
      /\ top' = last
      /\ list' = IF i0 < last
                 THEN [list EXCEPT ![i0] = list[last], ![last] = list[i0]]
                 ELSE list
      /\ UNCHANGED <<spill, spillMax, lockCnt, regTmp, regLock, offset, frame>>
      /\ UNCHANGED <<rv, mem, sp>>
  BY DEF FreeRegBook, machine
<1>2. tmpReg[t] # NULL
  BY <1>1, SpillIndexFound DEF TypeOK
<1>3. /\ i0 \in Index /\ i0 < top /\ list[i0] = tmpReg[t]
      /\ regTmp[tmpReg[t]] = t
  BY <1>2, RegIndexFound
<1> HIDE DEF i0
<1>4. /\ last \in Index /\ i0 <= last /\ last \in Nat /\ t \in Tmp
      /\ tmpReg[t] \in Reg /\ ~ regLock[tmpReg[t]]
  BY <1>1, <1>2, <1>3 DEF TypeOK, Index, Unlocked
<1>5. /\ list' \in [Index -> Reg]
      /\ list'[last] = list[i0]
      /\ i0 # last => list'[i0] = list[last]
      /\ \A j \in Index : j # i0 /\ j # last => list'[j] = list[j]
  <2>1. list \in [Index -> Reg]
    BY DEF TypeOK
  <2> HIDE DEF BookInv, last
  <2>2. CASE i0 < last
    <3>1. list' = [list EXCEPT ![i0] = list[last], ![last] = list[i0]]
      BY <2>2, <1>1
    <3>2. i0 # last
      BY <2>2, <1>3, <1>4 DEF Index
    <3> QED
      BY <2>1, <3>1, <3>2, <1>3, <1>4
  <2>3. CASE ~ (i0 < last)
    <3>1. list' = list /\ i0 = last
      BY <2>3, <1>1, <1>3, <1>4 DEF Index
    <3> QED
      BY <2>1, <3>1, <1>3, <1>4
  <2> QED
    BY <2>2, <2>3
<1>6. Spilled = 0 /\ Spilled' = 0
  BY <1>1, <1>4 DEF Spilled, TypeOK
<1>7. \A w \in live' : w # t /\ w \in live /\ w \in Tmp /\ tmpReg'[w] = tmpReg[w]
  BY <1>1 DEF TypeOK
<1>8. TypeOK'
  <2>1. held' \in [Tmp -> Reg \cup {NULL}]
    BY DEF TypeOK
  <2> QED
    BY <2>1, <1>1, <1>4, <1>5 DEF TypeOK
<1>9. RegistersInUseFirst'
  <2>1. ASSUME NEW i \in Index, NEW j \in Index, list'[i] = list'[j]
        PROVE  i = j
    BY <2>1, <1>3, <1>4, <1>5 DEF RegistersInUseFirst
  <2>2. ASSUME NEW s \in Reg PROVE \E i \in Index : list'[i] = s
    <3>1. PICK i \in Index : list[i] = s
      BY DEF RegistersInUseFirst
    <3> QED
      BY <3>1, <1>3, <1>4, <1>5
  <2>3. ASSUME NEW i \in Index, i < top'
        PROVE  /\ regTmp'[list'[i]] \in live'
               /\ tmpReg'[regTmp'[list'[i]]] = list'[i]
    <3>1. PICK j \in Index : j < top /\ j # i0 /\ list'[i] = list[j]
      <4>0. i < last /\ i # last /\ last < top
        BY <2>3, <1>1, <1>4 DEF TypeOK, Index
      <4>1. CASE i = i0
        BY <4>0, <4>1, <1>4, <1>5
      <4>2. CASE i # i0
        <5>1. i < top
          BY <4>0 DEF TypeOK, Index
        <5>2. list'[i] = list[i]
          BY <4>0, <4>2, <1>5
        <5> QED
          BY <4>2, <5>1, <5>2
      <4> QED
        BY <4>1, <4>2
    <3>2. regTmp[list[j]] \in live /\ tmpReg[regTmp[list[j]]] = list[j]
      BY <3>1 DEF RegistersInUseFirst
    <3>3. regTmp[list[j]] # t
      BY <3>1, <3>2, <1>3 DEF RegistersInUseFirst
    <3>4. regTmp[list[j]] \in live'
      BY <3>2, <3>3, <1>1
    <3> QED
      BY <3>1, <3>2, <3>4, <1>1, <1>7
  <2>4. ASSUME NEW w \in live', tmpReg'[w] # NULL
        PROVE  \E i \in Index :
                 i < top' /\ list'[i] = tmpReg'[w] /\ regTmp'[list'[i]] = w
    <3>1. w \in live /\ w # t /\ tmpReg'[w] = tmpReg[w]
      BY <1>7
    <3>2. PICK j \in Index :
            j < top /\ list[j] = tmpReg[w] /\ regTmp[list[j]] = w
      BY <3>1, <2>4 DEF RegistersInUseFirst
    <3>3. j # i0
      BY <3>1, <3>2, <1>3
    <3>4. \E i \in Index : i < last /\ list'[i] = list[j]
      <4>1. CASE j = last
        BY <4>1, <3>3, <1>3, <1>4, <1>5 DEF Index
      <4>2. CASE j # last
        BY <4>2, <3>2, <3>3, <1>5 DEF TypeOK, Index
      <4> QED
        BY <4>1, <4>2
    <3> QED
      BY <3>1, <3>2, <3>4, <1>1
  <2> QED
    BY <2>1, <2>2, <2>3, <2>4 DEF RegistersInUseFirst
<1>10. SpillSlotsContiguous'
  <2>1. Spilled' <= spillMax'
    BY <1>1, <1>6 DEF TypeOK
  <2>2. ASSUME NEW w \in live', tmpReg'[w] = NULL PROVE FALSE
    BY <2>2, <1>1, <1>7, SpillIndexFound DEF TypeOK
  <2> QED
    BY <2>1, <2>2, <1>6 DEF SpillSlotsContiguous
<1>11. SlotsInStep'
  <2>1. UNCHANGED <<offset, sp, mem, frame>>
    BY <1>1
  <2> QED
    BY <2>1, <1>6 DEF SlotsInStep, Slot
<1>12. LockCountExact'
  <2>1. UNCHANGED <<lockCnt, regLock>>
    BY <1>1
  <2>2. ASSUME NEW i \in Index, regLock[list'[i]] PROVE i < last
    <3>1. i # last
      BY <2>2, <1>3, <1>4, <1>5
    <3>2. CASE i = i0
      BY <3>1, <3>2, <1>4 DEF Index
    <3>3. CASE i # i0
      BY <2>2, <3>1, <3>3, <1>5 DEF LockCountExact, TypeOK, Index
    <3> QED
      BY <3>2, <3>3
  <2> QED
    BY <2>1, <2>2, <1>1 DEF LockCountExact
<1>13. HeldNameValid'
  <2>1. SUFFICES ASSUME NEW w \in Tmp, held'[w] # NULL
                 PROVE  w \in live' /\ tmpReg'[w] = held'[w] /\ regLock'[held'[w]]
    BY DEF HeldNameValid
  <2>2. w # t /\ held'[w] = held[w]
    BY <2>1, <1>4 DEF TypeOK
  <2>3. w \in live /\ tmpReg[w] = held[w] /\ regLock[held[w]]
    BY <2>1, <2>2 DEF HeldNameValid
  <2> QED
    BY <2>2, <2>3, <1>1, <1>7
<1> QED
  BY <1>8, <1>9, <1>10, <1>11, <1>12, <1>13

(* The deepest slot goes away: what is left covers one slot fewer.  *)
LEMMA DropDeepest ==
  ASSUME PoolInv, top > Num, top' = top - 1, frame' = frame,
         offset' = offset - RegSize, sp' = sp - RegSize,
         DOMAIN mem' = DOMAIN mem \ {sp}
  PROVE  /\ Spilled \in Nat /\ Spilled >= 1
         /\ top - 1 - Num = Spilled - 1
         /\ Spilled' = Spilled - 1
         /\ \A j : Slot(j)' = Slot(j)
         /\ top' \in Nat /\ offset' \in Nat /\ sp' \in Nat
         /\ StackInStep'
<1> USE PoolAssumption DEF PoolInv
<1>1. /\ Spilled \in Nat /\ Spilled >= 1
      /\ top - 1 - Num = Spilled - 1
      /\ Spilled' = Spilled - 1
      /\ top' \in Nat
  BY DEF Spilled, TypeOK
<1>2. \A j : Slot(j)' = Slot(j)
  BY DEF Slot
<1>3. offset = frame + RegSize * Spilled /\ sp = offset /\ frame \in Nat
  BY DEF StackInStep, TypeOK
<1>4. offset' = frame' + RegSize * Spilled' /\ sp' = offset' /\ offset' \in Nat
  BY <1>1, <1>3 DEF RegSize
<1>5. sp = Slot(Spilled - 1)
  BY <1>1, <1>3 DEF Slot, RegSize
<1>6. \A k \in 0 .. Spilled - 1 : Slot(k) = sp => k = Spilled - 1
  BY <1>1, <1>3 DEF Slot, RegSize
<1>7. DOMAIN mem' = {Slot(k) : k \in 0 .. Spilled' - 1}
  <2>1. DOMAIN mem = {Slot(k) : k \in 0 .. Spilled - 1}
    BY DEF StackInStep
  <2>2. 0 .. Spilled - 1 = (0 .. Spilled' - 1) \cup {Spilled - 1}
    BY <1>1
  <2>3. Spilled - 1 \notin 0 .. Spilled' - 1
    BY <1>1
  <2> HIDE DEF PoolInv
  <2> QED
    BY <2>1, <2>2, <2>3, <1>5, <1>6
<1> QED
  BY <1>1, <1>2, <1>4, <1>7 DEF StackInStep, Slot

(* Freeing a register while temporaries are spilled keeps the invariant:   *)
(* the owner of the deepest slot moves into it.                            *)
LEMMA FreeRegLoadInv ==
  ASSUME PoolInv, NEW t \in live, Unlocked(t), FreeRegLoadBook(t),
         FreeRegLoadCode(t), held' = [held EXCEPT ![t] = NULL]
  PROVE  PoolInv'
<1> BookInv
  BY BookOfPool
<1> USE PoolAssumption DEF PoolInv
<1> DEFINE r == tmpReg[t]
           u == spill[top - 1 - Num]
<1>1. /\ top > Num
      /\ RegIndex(t) < Num
      /\ top' = top - 1
      /\ offset' = offset - RegSize
      /\ regTmp' = [regTmp EXCEPT ![r] = u]
      /\ tmpReg' = [tmpReg EXCEPT ![u] = r, ![t] = NULL]
      /\ tmpAddr' = [tmpAddr EXCEPT ![u] = 0, ![t] = 0]
      /\ live' = live \ {t}
      /\ UNCHANGED <<list, spill, spillMax, lockCnt, regLock, frame>>
      /\ rv' = [rv EXCEPT ![r] = mem[tmpAddr[u]]]
      /\ sp' = sp - RegSize
      /\ mem' = [d \in DOMAIN mem \ {sp} |-> mem[d]]
  BY DEF FreeRegLoadBook, FreeRegLoadCode
<1>2. /\ Spilled \in Nat /\ Spilled >= 1
      /\ top - 1 - Num = Spilled - 1
      /\ Spilled' = Spilled - 1
      /\ \A j : Slot(j)' = Slot(j)
      /\ top' \in Nat /\ offset' \in Nat /\ sp' \in Nat
      /\ StackInStep'
  <2> HIDE DEF PoolInv
  <2> QED
    BY <1>1, DropDeepest
<1>3. r # NULL
  BY <1>1, SpillIndexFound DEF TypeOK
<1>4. regTmp[r] = t /\ r \in Reg /\ t \in Tmp /\ ~ regLock[r]
  BY <1>3, RegIndexFound DEF TypeOK, Unlocked
<1>5. /\ u \in live /\ tmpReg[u] = NULL /\ tmpAddr[u] = Slot(Spilled - 1)
      /\ u \in Tmp /\ u # t
  BY <1>2, <1>3 DEF SpillSlotsContiguous, TypeOK
<1> HIDE DEF r, u
<1>6. /\ tmpReg'[u] = r
      /\ regTmp'[r] = u
      /\ \A q \in Reg : q # r => regTmp'[q] = regTmp[q]
      /\ \A w \in live' : w \in live /\ w # t
      /\ \A w \in live' : w # u =>
           tmpReg'[w] = tmpReg[w] /\ tmpAddr'[w] = tmpAddr[w]
  BY <1>1, <1>4, <1>5 DEF TypeOK
<1>7. TypeOK'
  <2>1. /\ tmpReg' \in [Tmp -> Reg \cup {NULL}]
        /\ tmpAddr' \in [Tmp -> Nat]
        /\ regTmp' \in [Reg -> Tmp \cup {NULL}]
        /\ held' \in [Tmp -> Reg \cup {NULL}]
    BY <1>1, <1>4, <1>5 DEF TypeOK
  <2>2. tmpAddr[u] \in DOMAIN mem
    BY <1>2, <1>5 DEF StackInStep
  <2>3. rv' \in [Reg -> Val]
    BY <2>2, <1>1 DEF TypeOK
  <2>4. DOMAIN mem' \subseteq Nat /\ \A d \in DOMAIN mem' : mem'[d] \in Val
    BY <1>1 DEF TypeOK
  <2> QED
    BY <2>1, <2>3, <2>4, <1>1, <1>2 DEF TypeOK
<1>8. RegistersInUseFirst'
  <2>1. /\ \A i, j \in Index : list'[i] = list'[j] => i = j
        /\ \A s \in Reg : \E i \in Index : list'[i] = s
    BY <1>1 DEF RegistersInUseFirst
  <2>2. \A i \in Index : i < top /\ i < top'
    BY <1>1 DEF TypeOK, Index
  <2>3. ASSUME NEW i \in Index
        PROVE  /\ regTmp'[list'[i]] \in live'
               /\ tmpReg'[regTmp'[list'[i]]] = list'[i]
    <3>1. CASE list[i] = r
      BY <3>1, <1>1, <1>5, <1>6
    <3>2. CASE list[i] # r
      <4>1. list[i] \in Reg
        BY DEF TypeOK
      <4>2. regTmp[list[i]] \in live /\ tmpReg[regTmp[list[i]]] = list[i]
        BY <2>2 DEF RegistersInUseFirst
      <4>3. regTmp[list[i]] # t /\ regTmp[list[i]] # u
        BY <4>1, <4>2, <3>2, <1>5 DEF r, Reg, Index
      <4>4. regTmp'[list[i]] = regTmp[list[i]] /\ list' = list
        BY <4>1, <3>2, <1>1, <1>6
      <4>5. regTmp[list[i]] \in live'
        BY <4>2, <4>3, <1>1
      <4> QED
        BY <4>2, <4>3, <4>4, <4>5, <1>6
    <3> QED
      BY <3>1, <3>2
  <2>4. ASSUME NEW w \in live', tmpReg'[w] # NULL
        PROVE  \E i \in Index : list'[i] = tmpReg'[w] /\ regTmp'[list'[i]] = w
    <3>1. CASE w = u
      BY <3>1, <1>1, <1>4, <1>6 DEF RegistersInUseFirst
    <3>2. CASE w # u
      <4>1. w \in live /\ w # t /\ tmpReg'[w] = tmpReg[w]
        BY <3>2, <1>6
      <4>2. PICK i \in Index : list[i] = tmpReg[w] /\ regTmp[list[i]] = w
        BY <4>1, <2>4 DEF RegistersInUseFirst
      <4>3. list[i] # r /\ list[i] \in Reg
        BY <4>1, <4>2, <1>4 DEF TypeOK
      <4> QED
        BY <4>1, <4>2, <4>3, <1>1, <1>6
    <3> QED
      BY <3>1, <3>2
  <2> QED
    BY <2>1, <2>2, <2>3, <2>4 DEF RegistersInUseFirst
<1>9. SpillSlotsContiguous'
  <2>1. Spilled' <= spillMax'
    BY <1>1, <1>2 DEF SpillSlotsContiguous, TypeOK
  <2>2. ASSUME NEW j \in 0 .. Spilled' - 1
        PROVE  /\ spill'[j] \in live'
               /\ tmpReg'[spill'[j]] = NULL
               /\ tmpAddr'[spill'[j]] = Slot(j)
    <3>1. j \in 0 .. Spilled - 1 /\ j # Spilled - 1
      BY <1>2
    <3>2. /\ spill[j] \in live /\ tmpReg[spill[j]] = NULL
          /\ tmpAddr[spill[j]] = Slot(j)
      BY <3>1 DEF SpillSlotsContiguous
    <3>3. spill[j] # t
      BY <3>2, <1>3 DEF r
    <3>4. spill[j] # u
      BY <3>1, <3>2, <1>2, <1>5 DEF Slot, RegSize, TypeOK
    <3>5. spill[j] \in live' /\ spill' = spill
      BY <3>2, <3>3, <1>1
    <3> QED
      BY <3>2, <3>4, <3>5, <1>6
  <2>3. ASSUME NEW w \in live', tmpReg'[w] = NULL
        PROVE  \E j \in 0 .. Spilled' - 1 : spill'[j] = w
    <3>1. w # u
      BY <2>3, <1>4, <1>6 DEF Reg, Index
    <3>2. w \in live /\ tmpReg[w] = NULL
      BY <3>1, <2>3, <1>6
    <3>3. PICK j \in 0 .. Spilled - 1 : spill[j] = w
      BY <3>2 DEF SpillSlotsContiguous
    <3>4. j # Spilled - 1
      BY <3>1, <3>3, <1>2 DEF u
    <3>5. j \in 0 .. Spilled' - 1
      BY <3>4, <1>2
    <3> QED
      BY <3>3, <3>5, <1>1
  <2> QED
    BY <2>1, <2>2, <2>3, <1>2 DEF SpillSlotsContiguous
<1>10. LockCountExact'
  <2>1. \A i \in Index : i < top'
    BY <1>1 DEF TypeOK, Index
  <2>2. UNCHANGED <<lockCnt, regLock>>
    BY <1>1
  <2> QED
    BY <2>1, <2>2 DEF LockCountExact
<1>11. HeldNameValid'
  <2>1. SUFFICES ASSUME NEW w \in Tmp, held'[w] # NULL
                 PROVE  w \in live' /\ tmpReg'[w] = held'[w] /\ regLock'[held'[w]]
    BY DEF HeldNameValid
  <2>2. w # t /\ held'[w] = held[w]
    BY <2>1, <1>4 DEF TypeOK
  <2>3. w \in live /\ tmpReg[w] = held[w] /\ regLock[held[w]]
    BY <2>1, <2>2 DEF HeldNameValid
  <2>4. w # u /\ w \in live'
    BY <2>1, <2>2, <2>3, <1>1, <1>5
  <2> QED
    BY <2>2, <2>3, <2>4, <1>1, <1>6
<1> QED
  BY <1>2, <1>7, <1>8, <1>9, <1>10, <1>11

(* Freeing a slot keeps the invariant: if it is not the deepest one, the   *)
(* owner of the deepest one takes it over.                                 *)
LEMMA FreeSlotInv ==
  ASSUME PoolInv, NEW t \in live, FreeSlotBook(t), FreeSlotCode(t),
         held' = [held EXCEPT ![t] = NULL]
  PROVE  PoolInv'
<1> BookInv
  BY BookOfPool
<1> USE PoolAssumption DEF PoolInv
<1> DEFINE k == SpillIndex(t)
           n == top - 1 - Num
           u == spill[n]
<1>1. tmpReg[t] = NULL
  BY RegIndexFound DEF FreeSlotBook, TypeOK, Index
<1>2. k \in 0 .. Spilled - 1 /\ spill[k] = t /\ tmpAddr[t] = Slot(k)
  BY <1>1, SpillIndexFound DEF SpillSlotsContiguous
<1>3. /\ top > Num
      /\ top' = top - 1
      /\ offset' = offset - RegSize
      /\ live' = live \ {t}
      /\ tmpAddr' = IF k < n THEN [tmpAddr EXCEPT ![u] = tmpAddr[t], ![t] = 0]
                             ELSE [tmpAddr EXCEPT ![t] = 0]
      /\ spill' = IF k < n THEN [spill EXCEPT ![k] = u] ELSE spill
      /\ UNCHANGED <<list, spillMax, lockCnt, regTmp, regLock, tmpReg, frame>>
      /\ sp' = sp - RegSize
      /\ mem' = IF k < n
                THEN [d \in DOMAIN mem \ {sp} |->
                        [mem EXCEPT ![tmpAddr[t]] = mem[tmpAddr[u]]][d]]
                ELSE [d \in DOMAIN mem \ {sp} |-> mem[d]]
      /\ UNCHANGED rv
  BY <1>2 DEF FreeSlotBook, FreeSlotCode
<1>4. /\ Spilled \in Nat /\ Spilled >= 1
      /\ n = Spilled - 1
      /\ Spilled' = Spilled - 1
      /\ \A j : Slot(j)' = Slot(j)
      /\ top' \in Nat /\ offset' \in Nat /\ sp' \in Nat
      /\ StackInStep'
  <2>1. DOMAIN mem' = DOMAIN mem \ {sp}
    BY <1>3
  <2> HIDE DEF PoolInv
  <2> QED
    BY <1>3, <2>1, DropDeepest
<1>5. /\ u \in live /\ tmpReg[u] = NULL /\ tmpAddr[u] = Slot(n)
      /\ u \in Tmp /\ t \in Tmp /\ n \in 0 .. Spilled - 1
  BY <1>4 DEF SpillSlotsContiguous, TypeOK
<1>6. k # n => u # t
  BY <1>2, <1>4, <1>5, SMTT(30) DEF Slot, RegSize, TypeOK
<1> HIDE DEF k, u, n
<1>7. /\ \A w \in live' : w \in live /\ w # t /\ w \in Tmp
      /\ \A w \in live' : w # u => tmpAddr'[w] = tmpAddr[w]
      /\ k # n => tmpAddr'[u] = Slot(k)
      /\ \A j \in 0 .. Spilled - 1 : j # k => spill'[j] = spill[j]
      /\ k # n => spill'[k] = u
  <2>1. \A w \in live' : w \in live /\ w # t /\ w \in Tmp
    BY <1>3 DEF TypeOK
  <2>2. k < n \/ k = n
    BY <1>2, <1>4
  <2>3. k \in DOMAIN spill
    BY <1>2, <1>4 DEF SpillSlotsContiguous, TypeOK
  <2>4. CASE k < n
    <3>1. k # n /\ u # t
      BY <2>4, <1>2, <1>4, <1>6
    <3>2. /\ tmpAddr' = [tmpAddr EXCEPT ![u] = tmpAddr[t], ![t] = 0]
          /\ spill' = [spill EXCEPT ![k] = u]
      BY <2>4, <1>3
    <3> QED
      BY <2>1, <2>3, <3>1, <3>2, <1>2, <1>4, <1>5 DEF TypeOK
  <2>5. CASE k = n
    <3>1. tmpAddr' = [tmpAddr EXCEPT ![t] = 0] /\ spill' = spill
      BY <2>5, <1>3, <1>4
    <3> QED
      BY <2>1, <2>5, <3>1, <1>5 DEF TypeOK
  <2> QED
    BY <2>2, <2>4, <2>5
<1>8. TypeOK'
  <2>1. /\ tmpAddr' \in [Tmp -> Nat]
        /\ held' \in [Tmp -> Reg \cup {NULL}]
    BY <1>3, <1>5 DEF TypeOK
  <2>2. spill' \in [0 .. spillMax' - 1 -> Tmp \cup {NULL}]
    BY <1>3, <1>5 DEF TypeOK
  <2>3. tmpAddr[u] \in DOMAIN mem /\ tmpAddr[t] \in DOMAIN mem
    BY <1>2, <1>5 DEF StackInStep
  <2>4. DOMAIN mem' \subseteq Nat
    BY <1>3 DEF TypeOK
  <2>5. ASSUME NEW d \in DOMAIN mem' PROVE mem'[d] \in Val
    <3>1. d \in DOMAIN mem /\ mem[d] \in Val /\ mem[tmpAddr[u]] \in Val
      BY <2>3, <1>3 DEF TypeOK
    <3>2. mem'[d] = mem[d] \/ mem'[d] = mem[tmpAddr[u]]
      BY <3>1, <2>3, <1>3
    <3> QED
      BY <3>1, <3>2
  <2> QED
    BY <2>1, <2>2, <2>4, <2>5, <1>3, <1>4 DEF TypeOK
<1>9. RegistersInUseFirst'
  <2>1. /\ \A i, j \in Index : list'[i] = list'[j] => i = j
        /\ \A s \in Reg : \E i \in Index : list'[i] = s
    BY <1>3 DEF RegistersInUseFirst
  <2>2. \A i \in Index : i < top /\ i < top'
    BY <1>3 DEF TypeOK, Index
  <2>3. ASSUME NEW i \in Index
        PROVE  /\ regTmp'[list'[i]] \in live'
               /\ tmpReg'[regTmp'[list'[i]]] = list'[i]
    <3>1. /\ regTmp[list[i]] \in live /\ tmpReg[regTmp[list[i]]] = list[i]
          /\ list[i] \in Reg
      BY <2>2 DEF RegistersInUseFirst, TypeOK
    <3>2. regTmp[list[i]] # t
      BY <3>1, <1>1 DEF Reg, Index
    <3> QED
      BY <3>1, <3>2, <1>3
  <2>4. ASSUME NEW w \in live', tmpReg'[w] # NULL
        PROVE  \E i \in Index : list'[i] = tmpReg'[w] /\ regTmp'[list'[i]] = w
    BY <2>4, <1>3 DEF RegistersInUseFirst
  <2> QED
    BY <2>1, <2>2, <2>3, <2>4 DEF RegistersInUseFirst
<1>10. SpillSlotsContiguous'
  <2>1. Spilled' <= spillMax'
    BY <1>3, <1>4, SMTT(30) DEF SpillSlotsContiguous, TypeOK
  <2>2. ASSUME NEW j \in 0 .. Spilled' - 1
        PROVE  /\ spill'[j] \in live'
               /\ tmpReg'[spill'[j]] = NULL
               /\ tmpAddr'[spill'[j]] = Slot(j)
    <3>1. j \in 0 .. Spilled - 1 /\ j # n
      BY <1>4
    <3>2. CASE j = k
      <4>1. k # n /\ u # t
        BY <3>1, <3>2, <1>6
      <4>2. u \in live' /\ tmpReg'[u] = NULL
        BY <4>1, <1>3, <1>5
      <4> QED
        BY <3>2, <4>1, <4>2, <1>7
    <3>3. CASE j # k
      <4>1. /\ spill[j] \in live /\ tmpReg[spill[j]] = NULL
            /\ tmpAddr[spill[j]] = Slot(j)
        BY <3>1 DEF SpillSlotsContiguous
      <4>2. spill[j] # t
        BY <3>1, <3>3, <4>1, <1>2, <1>4 DEF Slot, RegSize, TypeOK
      <4>3. spill[j] # u
        BY <3>1, <4>1, <1>4, <1>5 DEF Slot, RegSize, TypeOK
      <4>4. spill'[j] = spill[j] /\ spill[j] \in live'
        BY <3>1, <3>3, <4>1, <4>2, <1>3, <1>7
      <4>5. tmpAddr'[spill[j]] = tmpAddr[spill[j]] /\ tmpReg' = tmpReg
        BY <4>3, <4>4, <1>3, <1>7
      <4> QED
        BY <4>1, <4>4, <4>5
    <3> QED
      BY <3>2, <3>3
  <2>3. ASSUME NEW w \in live', tmpReg'[w] = NULL
        PROVE  \E j \in 0 .. Spilled' - 1 : spill'[j] = w
    <3>1. w \in live /\ w # t /\ tmpReg[w] = NULL
      BY <2>3, <1>3, <1>7
    <3>2. PICK j \in 0 .. Spilled - 1 : spill[j] = w
      BY <3>1 DEF SpillSlotsContiguous
    <3>3. j # k
      BY <3>1, <3>2, <1>2
    <3>4. CASE j = n
      <4>1. k # n /\ w = u
        BY <3>2, <3>3, <3>4 DEF u
      <4>2. k \in 0 .. Spilled' - 1
        BY <4>1, <1>2, <1>4
      <4> QED
        BY <4>1, <4>2, <1>7
    <3>5. CASE j # n
      <4>1. j \in 0 .. Spilled' - 1
        BY <3>5, <1>4
      <4> QED
        BY <3>2, <3>3, <4>1, <1>7
    <3> QED
      BY <3>4, <3>5
  <2> QED
    BY <2>1, <2>2, <2>3, <1>4 DEF SpillSlotsContiguous
<1>11. LockCountExact'
  <2>1. \A i \in Index : i < top'
    BY <1>3 DEF TypeOK, Index
  <2>2. UNCHANGED <<lockCnt, regLock>>
    BY <1>3
  <2> QED
    BY <2>1, <2>2 DEF LockCountExact
<1>12. HeldNameValid'
  <2>1. SUFFICES ASSUME NEW w \in Tmp, held'[w] # NULL
                 PROVE  w \in live' /\ tmpReg'[w] = held'[w] /\ regLock'[held'[w]]
    BY DEF HeldNameValid
  <2>2. w # t /\ held'[w] = held[w]
    BY <2>1, <1>5 DEF TypeOK
  <2> QED
    BY <2>1, <2>2, <1>3 DEF HeldNameValid
<1> QED
  BY <1>4, <1>8, <1>9, <1>10, <1>11, <1>12

(* An emitted instruction changes the machine only.  *)
LEMMA WriteInv ==
  ASSUME PoolInv, NEW t \in live, NEW v \in Val, Write(t, v)
  PROVE  PoolInv'
<1> USE DEF PoolInv, Write, book
<1>1. TypeOK'
  BY DEF TypeOK
<1>2. RegistersInUseFirst' /\ SpillSlotsContiguous' /\ StackInStep'
  BY DEF RegistersInUseFirst, SpillSlotsContiguous, StackInStep, Spilled, Slot
<1>3. LockCountExact' /\ HeldNameValid'
  BY DEF LockCountExact, HeldNameValid
<1> QED
  BY <1>1, <1>2, <1>3

(* Every step of the pool and of its callers keeps the invariant.  *)
LEMMA StepInv ==
  ASSUME PoolInv, [Next]_vars
  PROVE  PoolInv'
<1>1. ASSUME NEW f \in Frames, EnterFrame(f) PROVE PoolInv'
  BY <1>1, EnterFrameInv
<1>2. ASSUME NEW t \in Tmp, Alloc(t) PROVE PoolInv'
  BY <1>2, AllocRegInv, AllocStackInv DEF Alloc
<1>b. BookInv /\ sp = offset
  BY BookOfPool
<1>3. ASSUME NEW t \in Tmp, Lock(t) PROVE PoolInv'
  <2>1. BookInv'
    BY <1>b, <1>3, LockFullInv, LockInRegInv, LockSwapInv DEF Lock
  <2>2. UNCHANGED <<sp, offset>>
    BY <1>3 DEF Lock, LockFull, LockInRegBook, LockSwapBook, LockSwapCode, book, machine
  <2>3. QED
    BY <1>b, <2>1, <2>2 DEF PoolInv, BookInv, StackInStep, SlotsInStep
<1>4. ASSUME NEW t \in Tmp, Unlock(t) PROVE PoolInv'
  <2>1. BookInv'
    BY <1>b, <1>4, UnlockInv DEF Unlock
  <2>2. UNCHANGED <<sp, offset>>
    BY <1>4 DEF Unlock, UnlockBook, machine
  <2>3. QED
    BY <1>b, <2>1, <2>2 DEF PoolInv, BookInv, StackInStep, SlotsInStep
<1>5. ASSUME NEW t \in Tmp, Free(t) PROVE PoolInv'
  <2>1. CASE FreeRegBook(t) /\ UNCHANGED machine
    <3>1. BookInv'
      BY <1>b, <1>5, <2>1, FreeRegInv DEF Free
    <3>2. UNCHANGED <<sp, offset>>
      BY <2>1 DEF FreeRegBook, machine
    <3>3. QED
      BY <1>b, <3>1, <3>2 DEF PoolInv, BookInv, StackInStep, SlotsInStep
  <2>2. CASE ~ (FreeRegBook(t) /\ UNCHANGED machine)
    BY <1>5, <2>2, FreeRegLoadInv, FreeSlotInv DEF Free
  <2>3. QED
    BY <2>1, <2>2
<1>6. ASSUME NEW t \in Tmp, NEW v \in Val, Write(t, v) PROVE PoolInv'
  BY <1>6, WriteInv DEF Write
<1>7. CASE UNCHANGED vars
  <2> USE <1>7 DEF vars, PoolInv
  <2>1. TypeOK'
    BY DEF TypeOK
  <2>2. RegistersInUseFirst' /\ SpillSlotsContiguous' /\ StackInStep'
    BY DEF RegistersInUseFirst, SpillSlotsContiguous, StackInStep, Spilled,
           Slot
  <2>3. LockCountExact' /\ HeldNameValid'
    BY DEF LockCountExact, HeldNameValid
  <2> QED
    BY <2>1, <2>2, <2>3
<1> QED
  BY <1>1, <1>2, <1>3, <1>4, <1>5, <1>6, <1>7 DEF Next

-----------------------------------------------------------------------------
(* The invariants of the runs hold in every state, for every number of     *)
(* registers, lock limit, spill capacity and set of temporaries.           *)
THEOREM PoolInvariant == Spec => []PoolInv
<1>1. Init => PoolInv
  BY InitInv
<1>2. PoolInv /\ [Next]_vars => PoolInv'
  BY StepInv
<1> QED
  BY <1>1, <1>2, PTL DEF Spec

(* The pool's fields keep their C types, the growing spill array included. *)
THEOREM PoolTypeCorrect == Spec => []TypeOK
<1>1. PoolInv => TypeOK
  BY DEF PoolInv
<1> QED
  BY <1>1, PoolInvariant, PTL

(* Swapping entries of the list in free loses and duplicates no register.  *)
THEOREM RegistersStayPartitioned == Spec => []RegistersInUseFirst
<1>1. PoolInv => RegistersInUseFirst
  BY DEF PoolInv
<1> QED
  BY <1>1, PoolInvariant, PTL

(* The spilled temporaries occupy the first slots, one each.  *)
THEOREM SlotsStayContiguous == Spec => []SpillSlotsContiguous
<1>1. PoolInv => SpillSlotsContiguous
  BY DEF PoolInv
<1> QED
  BY <1>1, PoolInvariant, PTL

(* *offset is the depth the emitted code gives the stack pointer.  *)
THEOREM StackStaysInStep == Spec => []StackInStep
<1>1. PoolInv => StackInStep
  BY DEF PoolInv
<1> QED
  BY <1>1, PoolInvariant, PTL

(* lock_cnt counts the locks, so that lock fails only at lock_max.  *)
THEOREM LocksCounted == Spec => []LockCountExact
<1>1. PoolInv => LockCountExact
  BY DEF PoolInv
<1> QED
  BY <1>1, PoolInvariant, PTL

(* The name that lock returned names the temporary's register until the    *)
(* temporary is unlocked.                                                  *)
THEOREM NamesStayValid == Spec => []HeldNameValid
<1>1. PoolInv => HeldNameValid
  BY DEF PoolInv
<1> QED
  BY <1>1, PoolInvariant, PTL

(* The "must found" assertions of register.c never fail, although free     *)
(* compares addresses that malloc may have handed out again.               *)
THEOREM SearchCorrect == Spec => []SearchFindsOwner
<1>1. PoolInv => SearchFindsOwner
  <2> SUFFICES ASSUME PoolInv, NEW t \in live
               PROVE  /\ top <= Num => RegIndex(t) < Num
                      /\ RegIndex(t) < Num =>
                           RegIndex(t) < top /\ tmpReg[t] = list[RegIndex(t)]
                      /\ RegIndex(t) >= Num => SpillIndex(t) < Spilled
                      /\ lockCnt < LockMax => FirstUnlocked < Num
    BY DEF SearchFindsOwner
  <2> BookInv
    BY BookOfPool
  <2>1. lockCnt < LockMax => FirstUnlocked < Num
    BY FirstUnlockedFound, PoolAssumption DEF Index
  <2>2. CASE tmpReg[t] # NULL
    BY <2>1, <2>2, RegIndexFound, PoolAssumption DEF Index
  <2>3. CASE tmpReg[t] = NULL
    <3>1. Spilled \in Nat /\ top \in Nat
      BY PoolAssumption DEF PoolInv, TypeOK, Spilled
    <3>2. top > Num /\ RegIndex(t) = Num /\ SpillIndex(t) \in 0 .. Spilled - 1
      BY <2>3, SpillIndexFound
    <3> QED
      BY <2>1, <3>1, <3>2, PoolAssumption
  <2> QED
    BY <2>2, <2>3
<1> QED
  BY <1>1, PoolInvariant, PTL
-----------------------------------------------------------------------------
(* What the emitted code does to the values of the temporaries.  *)

LEMMA ValueInVal ==
  ASSUME BookInv, NEW t \in live
  PROVE  Value(t) \in Val
<1>1. CASE tmpReg[t] # NULL
  BY <1>1 DEF BookInv, TypeOK, Value
<1>2. CASE tmpReg[t] = NULL
  <2>1. PICK j \in 0 .. Spilled - 1 : spill[j] = t
    BY <1>2 DEF BookInv, SpillSlotsContiguous
  <2>2. tmpAddr[t] \in DOMAIN mem
    BY <2>1 DEF BookInv, SpillSlotsContiguous, SlotsInStep
  <2> QED
    BY <1>2, <2>2 DEF BookInv, TypeOK, Value
<1> QED
  BY <1>1, <1>2

(* Two temporaries never share a register or a slot.  *)
LEMMA HomesDistinct ==
  ASSUME BookInv, NEW t \in live, NEW u \in live, t # u
  PROVE  /\ tmpReg[t] # NULL => tmpReg[t] # tmpReg[u]
         /\ tmpReg[t] = NULL /\ tmpReg[u] = NULL => tmpAddr[t] # tmpAddr[u]
<1>1. tmpReg[t] # NULL => tmpReg[t] # tmpReg[u]
  BY DEF BookInv, RegistersInUseFirst
<1>2. ASSUME tmpReg[t] = NULL, tmpReg[u] = NULL PROVE tmpAddr[t] # tmpAddr[u]
  <2>1. PICK j \in 0 .. Spilled - 1 : spill[j] = t
    BY <1>2 DEF BookInv, SpillSlotsContiguous
  <2>2. PICK k \in 0 .. Spilled - 1 : spill[k] = u
    BY <1>2 DEF BookInv, SpillSlotsContiguous
  <2>3. j # k /\ frame \in Nat
    BY <2>1, <2>2 DEF BookInv, TypeOK
  <2>4. tmpAddr[t] = Slot(j) /\ tmpAddr[u] = Slot(k)
    BY <2>1, <2>2 DEF BookInv, SpillSlotsContiguous
  <2> QED
    BY <2>3, <2>4 DEF Slot, RegSize
<1> QED
  BY <1>1, <1>2

LEMMA AllocKeepsValues ==
  ASSUME PoolInv, PoolInv', NEW t \in Tmp, Alloc(t)
  PROVE  /\ t \notin live /\ live' = live \cup {t}
         /\ \A w \in live : Value(w)' = Value(w)
<1>1. t \notin live /\ live' = live \cup {t}
  BY DEF Alloc, AllocRegBook, AllocStackBook
<1>2. ASSUME NEW w \in live PROVE Value(w)' = Value(w)
  <2>1. w # t /\ w \in Tmp
    BY <1>1 DEF PoolInv, TypeOK
  <2>2. tmpReg'[w] = tmpReg[w] /\ tmpAddr'[w] = tmpAddr[w] /\ rv' = rv
    BY <2>1 DEF PoolInv, TypeOK, Alloc, AllocRegBook, AllocStackBook,
                AllocStackCode, machine
  <2>3. CASE tmpReg[w] # NULL
    BY <2>2, <2>3 DEF Value
  <2>4. CASE tmpReg[w] = NULL
    <3>1. PICK j \in 0 .. Spilled - 1 : spill[j] = w
      BY <2>4 DEF PoolInv, SpillSlotsContiguous
    <3>2. tmpAddr[w] = Slot(j) /\ tmpAddr[w] \in DOMAIN mem
      BY <3>1 DEF PoolInv, SpillSlotsContiguous, StackInStep
    <3>3. CASE AllocRegBook(t) /\ UNCHANGED machine
      BY <3>3, <2>2 DEF Value, machine
    <3>4. CASE \E v \in Val : AllocStackCode(v)
      <4>1. Spilled \in Nat /\ sp = frame + RegSize * Spilled /\ frame \in Nat
        BY PoolAssumption DEF PoolInv, TypeOK, StackInStep, Spilled
      <4>2. tmpAddr[w] # sp'
        BY <3>2, <3>4, <4>1 DEF AllocStackCode, Slot, RegSize
      <4>3. mem'[tmpAddr[w]] = mem[tmpAddr[w]]
        BY <3>2, <3>4, <4>2 DEF AllocStackCode
      <4> QED
        BY <2>2, <4>3 DEF Value
    <3> QED
      BY <3>3, <3>4 DEF Alloc
  <2> QED
    BY <2>3, <2>4
<1> QED
  BY <1>1, <1>2

LEMMA LockKeepsValues ==
  ASSUME BookInv, NEW t \in Tmp, Lock(t)
  PROVE  /\ live' = live
         /\ \A w \in live : Value(w)' = Value(w)
<1> t \in live
  BY DEF Lock
<1>1. CASE LockFull(t) \/ (LockInRegBook(t) /\ UNCHANGED machine)
  BY <1>1 DEF LockFull, LockInRegBook, book, machine, Value
<1>2. CASE LockSwapBook(t) /\ LockSwapCode(t)
  <2> DEFINE r == list[FirstUnlocked]
             u == regTmp[r]
             a == tmpAddr[t]
  <2>1. FirstUnlocked \in Index /\ tmpReg[t] = NULL /\ t \in Tmp
    BY <1>2, FirstUnlockedFound DEF LockSwapBook
  <2>2. top > Num /\ SpillIndex(t) \in 0 .. Spilled - 1 /\ spill[SpillIndex(t)] = t
    BY <2>1, SpillIndexFound
  <2>3. FirstUnlocked < top /\ r \in Reg
    BY <2>1, <2>2, PoolAssumption DEF BookInv, TypeOK, Index
  <2>4. u \in live /\ tmpReg[u] = r /\ u \in Tmp /\ r # NULL
    BY <2>1, <2>3, PoolAssumption DEF BookInv, RegistersInUseFirst, TypeOK, Reg, Index
  <2>5. a \in DOMAIN mem
    BY <2>2 DEF BookInv, SpillSlotsContiguous, SlotsInStep
  <2>6. /\ tmpReg' = [tmpReg EXCEPT ![u] = NULL, ![t] = r]
        /\ tmpAddr' = [tmpAddr EXCEPT ![u] = a, ![t] = 0]
        /\ rv' = [rv EXCEPT ![r] = mem[a]]
        /\ mem' = [mem EXCEPT ![a] = rv[r]]
        /\ live' = live
    BY <1>2 DEF LockSwapBook, LockSwapCode
  <2> HIDE DEF r, u, a
  <2>7. Value(t)' = Value(t)
    <3>1. tmpReg'[t] = r /\ rv'[r] = mem[a]
      BY <2>1, <2>3, <2>6 DEF BookInv, TypeOK
    <3> QED
      BY <3>1, <2>1, <2>4 DEF Value, a
  <2>8. ASSUME NEW w \in live, w = u PROVE Value(w)' = Value(w)
    <3>1. w # t
      BY <2>1, <2>4, <2>8
    <3>2. tmpReg'[w] = NULL /\ tmpAddr'[w] = a /\ mem'[a] = rv[r]
      BY <3>1, <2>4, <2>5, <2>6, <2>8 DEF BookInv, TypeOK
    <3> QED
      BY <3>2, <2>4, <2>8 DEF Value
  <2>9. ASSUME NEW w \in live, w # t, w # u PROVE Value(w)' = Value(w)
    <3>1. tmpReg'[w] = tmpReg[w] /\ tmpAddr'[w] = tmpAddr[w]
      BY <2>6, <2>9 DEF BookInv, TypeOK
    <3>2. CASE tmpReg[w] # NULL
      <4>1. tmpReg[w] # r
        BY <3>2, <2>4, <2>9, HomesDistinct
      <4> QED
        BY <3>1, <3>2, <4>1, <2>6 DEF BookInv, TypeOK, Value
    <3>3. CASE tmpReg[w] = NULL
      <4>1. tmpAddr[w] # a
        BY <3>3, <2>1, <2>9, HomesDistinct DEF a
      <4>2. tmpAddr[w] \in DOMAIN mem
        BY <3>3 DEF BookInv, SpillSlotsContiguous, SlotsInStep
      <4> QED
        BY <3>1, <3>3, <4>1, <4>2, <2>6 DEF Value
    <3> QED
      BY <3>2, <3>3
  <2> QED
    BY <2>6, <2>7, <2>8, <2>9
<1>3. \/ LockFull(t)
      \/ LockInRegBook(t) /\ UNCHANGED machine
      \/ LockSwapBook(t) /\ LockSwapCode(t)
  BY DEF Lock
<1> QED
  BY <1>1, <1>2, <1>3

LEMMA FreeKeepsValues ==
  ASSUME PoolInv, NEW t \in Tmp, Free(t)
  PROVE  /\ t \in live /\ live' = live \ {t}
         /\ \A w \in live \ {t} : Value(w)' = Value(w)
<1> BookInv
  BY BookOfPool
<1> t \in live
  BY DEF Free
<1> DEFINE n == top - 1 - Num
           u == spill[n]
<1>1. ASSUME top > Num
      PROVE  /\ u \in live /\ u \in Tmp /\ tmpReg[u] = NULL /\ tmpAddr[u] = sp
             /\ n \in 0 .. Spilled - 1
             /\ tmpAddr[u] \in DOMAIN mem
             /\ \A w \in live : tmpReg[w] = NULL => tmpAddr[w] \in DOMAIN mem
  <2>1. n \in 0 .. Spilled - 1 /\ n = Spilled - 1 /\ Spilled \in Nat /\ frame \in Nat
    BY <1>1, PoolAssumption DEF PoolInv, TypeOK, Spilled
  <2>2. u \in live /\ tmpReg[u] = NULL /\ tmpAddr[u] = Slot(n)
    BY <2>1 DEF PoolInv, SpillSlotsContiguous
  <2>3. Slot(n) = sp
    BY <2>1 DEF PoolInv, StackInStep, Slot, RegSize
  <2>4. \A w \in live : tmpReg[w] = NULL => tmpAddr[w] \in DOMAIN mem
    BY DEF PoolInv, SpillSlotsContiguous, StackInStep
  <2> QED
    BY <2>1, <2>2, <2>3, <2>4 DEF PoolInv, TypeOK
<1>2. CASE FreeRegBook(t) /\ UNCHANGED machine
  BY <1>2 DEF FreeRegBook, machine, PoolInv, TypeOK, Value
<1>3. CASE FreeRegLoadBook(t) /\ FreeRegLoadCode(t)
  <2> DEFINE r == tmpReg[t]
  <2>1. /\ top > Num
        /\ RegIndex(t) < Num
        /\ tmpReg' = [tmpReg EXCEPT ![u] = r, ![t] = NULL]
        /\ tmpAddr' = [tmpAddr EXCEPT ![u] = 0, ![t] = 0]
        /\ live' = live \ {t}
        /\ rv' = [rv EXCEPT ![r] = mem[tmpAddr[u]]]
        /\ mem' = [d \in DOMAIN mem \ {sp} |-> mem[d]]
    BY <1>3 DEF FreeRegLoadBook, FreeRegLoadCode
  <2>2. r # NULL /\ r \in Reg
    BY <2>1, SpillIndexFound, PoolAssumption DEF PoolInv, TypeOK
  <2>3. u # t
    BY <1>1, <2>1, <2>2
  <2> HIDE DEF u, n
  <2>4. ASSUME NEW w \in live, w = u PROVE Value(w)' = Value(w)
    <3>1. tmpReg'[w] = r /\ rv'[r] = mem[tmpAddr[w]]
      BY <1>1, <2>1, <2>2, <2>3, <2>4 DEF PoolInv, TypeOK
    <3> QED
      BY <3>1, <1>1, <2>1, <2>2, <2>4 DEF Value
  <2>5. ASSUME NEW w \in live \ {t}, w # u PROVE Value(w)' = Value(w)
    <3>1. tmpReg'[w] = tmpReg[w] /\ tmpAddr'[w] = tmpAddr[w]
      BY <2>1, <2>5 DEF PoolInv, TypeOK
    <3>2. CASE tmpReg[w] # NULL
      <4>1. tmpReg[w] # r
        BY <3>2, HomesDistinct
      <4> QED
        BY <3>1, <3>2, <4>1, <2>1 DEF PoolInv, TypeOK, Value
    <3>3. CASE tmpReg[w] = NULL
      <4>1. tmpAddr[w] # sp /\ tmpAddr[w] \in DOMAIN mem
        BY <3>3, <1>1, <2>1, <2>5, HomesDistinct
      <4> QED
        BY <3>1, <3>3, <4>1, <2>1 DEF Value
    <3> QED
      BY <3>2, <3>3
  <2> QED
    BY <2>1, <2>4, <2>5
<1>4. CASE FreeSlotBook(t) /\ FreeSlotCode(t)
  <2> DEFINE k == SpillIndex(t)
  <2>1. tmpReg[t] = NULL
    BY <1>4, RegIndexFound, PoolAssumption DEF FreeSlotBook, PoolInv, TypeOK, Index
  <2>2. /\ k \in 0 .. Spilled - 1 /\ spill[k] = t /\ top > Num
        /\ n = Spilled - 1
    BY <2>1, SpillIndexFound, PoolAssumption DEF PoolInv, TypeOK, Spilled
  <2>3. /\ live' = live \ {t}
        /\ tmpReg' = tmpReg
        /\ tmpAddr' = IF k < n THEN [tmpAddr EXCEPT ![u] = tmpAddr[t], ![t] = 0]
                               ELSE [tmpAddr EXCEPT ![t] = 0]
        /\ mem' = IF k < n
                  THEN [d \in DOMAIN mem \ {sp} |->
                          [mem EXCEPT ![tmpAddr[t]] = mem[tmpAddr[u]]][d]]
                  ELSE [d \in DOMAIN mem \ {sp} |-> mem[d]]
        /\ rv' = rv
    BY <1>4, <2>2 DEF FreeSlotBook, FreeSlotCode
  <2>4. k < n => u # t
    <3>1. ASSUME k < n, u = t PROVE FALSE
      <4>1. Slot(k) = Slot(n) /\ frame \in Nat
        BY <3>1, <1>1, <2>2 DEF PoolInv, SpillSlotsContiguous, TypeOK
      <4> QED
        BY <3>1, <4>1, <2>2, <1>1 DEF Slot, RegSize
    <3> QED
      BY <3>1
  <2>5. k >= n => k = n
    BY <1>1, <2>2
  <2> HIDE DEF u, n, k
  <2>6. ASSUME NEW w \in live \ {t} PROVE Value(w)' = Value(w)
    <3>1. w \in Tmp /\ t \in Tmp
      BY DEF PoolInv, TypeOK
    <3>2. CASE tmpReg[w] # NULL
      BY <3>2, <2>3 DEF Value
    <3>3. CASE tmpReg[w] = NULL /\ w = u
      <4>1. k < n
        BY <3>3, <2>2, <2>5, <1>1 DEF u, n, k
      <4>2. tmpAddr'[u] = tmpAddr[t]
        BY <4>1, <2>3, <2>4, <3>1, <3>3 DEF PoolInv, TypeOK
      <4>3. tmpAddr[t] # sp /\ tmpAddr[t] \in DOMAIN mem
        BY <4>1, <1>1, <2>1, <2>2, <2>4, HomesDistinct
      <4>4. mem'[tmpAddr[t]] = mem[tmpAddr[u]]
        BY <4>1, <4>3, <2>3
      <4> QED
        BY <3>3, <4>2, <4>4, <2>3 DEF Value
    <3>4. CASE tmpReg[w] = NULL /\ w # u
      <4>1. tmpAddr'[w] = tmpAddr[w]
        BY <3>1, <3>4, <2>3 DEF PoolInv, TypeOK
      <4>2. /\ tmpAddr[w] # sp /\ tmpAddr[w] \in DOMAIN mem
            /\ tmpAddr[w] # tmpAddr[t]
        BY <3>4, <1>1, <2>1, <2>2, HomesDistinct
      <4>3. mem'[tmpAddr[w]] = mem[tmpAddr[w]]
        BY <4>2, <2>3
      <4> QED
        BY <3>4, <4>1, <4>3, <2>3 DEF Value
    <3> QED
      BY <3>2, <3>3, <3>4
  <2> QED
    BY <2>3, <2>6
<1> QED
  BY <1>2, <1>3, <1>4 DEF Free

LEMMA WriteKeepsValues ==
  ASSUME PoolInv, NEW t \in Tmp, NEW v \in Val, Write(t, v)
  PROVE  /\ t \in live /\ live' = live
         /\ Value(t)' = v
         /\ \A w \in live \ {t} : Value(w)' = Value(w)
<1> BookInv
  BY BookOfPool
<1>1. /\ t \in live /\ held[t] # NULL
      /\ rv' = [rv EXCEPT ![held[t]] = v]
      /\ UNCHANGED <<live, tmpReg, tmpAddr, mem>>
  BY DEF Write, book
<1>2. tmpReg[t] = held[t] /\ held[t] \in Reg
  BY <1>1 DEF PoolInv, TypeOK, HeldNameValid
<1>3. \A w \in live \ {t} : tmpReg[w] # held[t]
  BY <1>1, <1>2, HomesDistinct
<1>4. Value(t)' = v
  BY <1>1, <1>2 DEF PoolInv, TypeOK, Value
<1>5. ASSUME NEW w \in live \ {t} PROVE Value(w)' = Value(w)
  BY <1>1, <1>2, <1>3 DEF PoolInv, TypeOK, Value
<1> QED
  BY <1>1, <1>4, <1>5
-----------------------------------------------------------------------------
(* The pool implements the store: swaps, moves and reuse of registers,     *)
(* slots and addresses are invisible to the code that uses temporaries.    *)
THEOREM PoolImplementsStore == Spec => ImplementsStore
<1> DEFINE s == [t \in live |-> Value(t)]
           h == {t \in Tmp : held[t] # NULL}
           V == \A w \in live : Value(w) \in Val
<1>1. Init => Abs!Init
  BY DEF Init, BookInit, Abs!Init
<1>2. PoolInv => V
  BY BookOfPool, ValueInVal
<1>3. PoolInv /\ PoolInv' /\ V' /\ [Next]_vars => [Abs!Next]_<<s, h>>
  <2> SUFFICES ASSUME PoolInv, PoolInv', V', [Next]_vars
               PROVE [Abs!Next]_<<s, h>>
    OBVIOUS
  <2> live \subseteq Tmp /\ DOMAIN held = Tmp
    BY DEF PoolInv, TypeOK
  <2>1. ASSUME NEW f \in Frames, EnterFrame(f) PROVE s' = s /\ h' = h
    BY <2>1 DEF EnterFrame, Value
  <2>2. ASSUME NEW t \in Tmp, Alloc(t) PROVE Abs!Alloc(t)
    <3>1. /\ t \notin live /\ live' = live \cup {t}
          /\ \A w \in live : Value(w)' = Value(w)
      BY <2>2, AllocKeepsValues
    <3>2. Value(t)' \in Val
      BY <3>1 DEF V
    <3>3. s' = [w \in live \cup {t} |-> IF w = t THEN Value(t)' ELSE s[w]]
      BY <3>1
    <3>4. h' = h
      BY <2>2 DEF Alloc
    <3> QED
      BY <3>1, <3>2, <3>3, <3>4 DEF Abs!Alloc
  <2>3. ASSUME NEW t \in Tmp, Lock(t) PROVE Abs!Lock(t)
    <3>1. s' = s /\ t \in live
      BY <2>3, BookOfPool, LockKeepsValues DEF Lock
    <3>2. \E x : held' = [held EXCEPT ![t] = x]
      BY <2>3 DEF Lock, LockFull
    <3>3. h' = h \cup {t} \/ h' = h \ {t}
      BY <3>2
    <3> QED
      BY <3>1, <3>3 DEF Abs!Lock
  <2>4. ASSUME NEW t \in Tmp, Unlock(t) PROVE Abs!Unlock(t)
    <3>1. s' = s /\ t \in live
      BY <2>4 DEF Unlock, UnlockBook, machine, Value
    <3>2. h' = h \ {t}
      BY <2>4 DEF Unlock
    <3> QED
      BY <3>1, <3>2 DEF Abs!Unlock
  <2>5. ASSUME NEW t \in Tmp, Free(t) PROVE Abs!Free(t)
    <3>1. /\ t \in live /\ live' = live \ {t}
          /\ \A w \in live \ {t} : Value(w)' = Value(w)
      BY <2>5, FreeKeepsValues
    <3>2. s' = [w \in live \ {t} |-> s[w]]
      BY <3>1
    <3>3. h' = h \ {t}
      BY <2>5 DEF Free
    <3> QED
      BY <3>1, <3>2, <3>3 DEF Abs!Free
  <2>6. ASSUME NEW t \in Tmp, NEW v \in Val, Write(t, v) PROVE Abs!Write(t, v)
    <3>1. /\ t \in live /\ live' = live
          /\ Value(t)' = v
          /\ \A w \in live \ {t} : Value(w)' = Value(w)
      BY <2>6, WriteKeepsValues
    <3>2. s' = [s EXCEPT ![t] = v]
      BY <3>1
    <3>3. t \in h /\ h' = h
      BY <2>6 DEF Write
    <3> QED
      BY <3>2, <3>3 DEF Abs!Write
  <2>7. CASE UNCHANGED vars
    BY <2>7 DEF vars, Value
  <2> QED
    BY <2>1, <2>2, <2>3, <2>4, <2>5, <2>6, <2>7 DEF Next, Abs!Next
<1> QED
  BY <1>1, <1>2, <1>3, PoolInvariant, PTL
     DEF Spec, ImplementsStore, Abs!Spec, Abs!storeVars
=============================================================================
