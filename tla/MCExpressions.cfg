CONSTANTS
  NULL = NULL
  Num = 3
  LockMax = 3
  SpillMax = 1
  Tmp <- MCTmp
  Val = {0}
  Frames <- MCFrames
  ArgRegs = 2
  W = 64
  Junk = 63
  Depths <- MCDepths
  Programs <- MCPrograms
  Expr <- MCExpr
  Stmt <- MCStmt
SPECIFICATION CSpec
INVARIANTS
  MeansTheSame
  LocksGranted
PROPERTY
  UsesPool
