CONSTANTS
  MaxNodes = 5
  MaxArity = 4
SPECIFICATION Spec
INVARIANTS
  Represents
  ValuesAreLists
  DrawsTree
PROPERTIES
  ReductionsEnd
