CONSTANTS
  NULL = NULL
  Num = 6
  LockMax = 3
  SpillMax = 1
  Tmp <- MCTmp
  Val = {0}
  Frames <- MCFrames
  ArgRegs = 2
  W = 64
  Junk = 63
  Operands = "plus"
  Depths <- MCDepths
  Programs <- MCPrograms
  Expr <- MCExpr
  Stmt <- MCStmt
SPECIFICATION CSpec
INVARIANT
  UnaryPlusIsNop
