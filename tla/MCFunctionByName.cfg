CONSTANTS
  a = a
  b = b
  NULL = NULL
  Name <- MCName
  ParamLists <- MCParamLists
  MaxItems = 4
SPECIFICATION Spec
INVARIANT
  OwnFunctionFound
