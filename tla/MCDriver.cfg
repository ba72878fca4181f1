CONSTANTS
  MaxRuns = 3
  MaxDecls = 3
SPECIFICATION Spec
INVARIANTS
  StatusTellsOutput
PROPERTY
  OutputKept
