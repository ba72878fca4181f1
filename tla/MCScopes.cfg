CONSTANTS
  a = a
  b = b
  NULL = NULL
  Name <- MCName
  ParamLists <- MCParamLists
  MaxItems = 5
SPECIFICATION Spec
INVARIANTS
  AcceptsWellScoped
  CheckedLexically
  ReplayInStep
  SameSymbol
  PlacesApart
