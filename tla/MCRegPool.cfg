CONSTANTS
  t1 = t1
  t2 = t2
  t3 = t3
  t4 = t4
  t5 = t5
  NULL = NULL
  Num = 2
  LockMax = 2
  SpillMax = 1
  Tmp <- MCTmp
  Val <- MCVal
  Frames <- MCFrames
SYMMETRY Symm
SPECIFICATION Spec
INVARIANTS
  TypeOK
  RegistersInUseFirst
  SpillSlotsContiguous
  StackInStep
  LockCountExact
  HeldNameValid
  SearchFindsOwner
PROPERTY
  ImplementsStore
