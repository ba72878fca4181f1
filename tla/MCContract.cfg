CONSTANTS
  NULL = NULL
  Width = 4
  Host = "x86"
  Programs <- MCPrograms
  Junks <- MCJunks
SPECIFICATION Spec
INVARIANTS
  InitialisersAgree
  CheckAsserts
  AcceptsLegal
  AcceptedCompiles
  ExtentsComposed
  StorageFits
