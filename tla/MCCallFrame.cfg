CONSTANTS
  t1 = t1
  t2 = t2
  t3 = t3
  t4 = t4
  NULL = NULL
  Num = 2
  LockMax = 1
  SpillMax = 2
  Tmp <- MCTmp
  Val <- MCVal
  Frames <- MCFrames
  ArgRegs = 2
  MaxArgs = 3
  ParamCounts <- MCParamCounts
SYMMETRY Symm
SPECIFICATION CallSpec
INVARIANTS
  CallKeepsValues
  CallKeepsParameters
  ArgumentsInPlace
  CallBalanced
  ResultReturned
  PoolIntact
