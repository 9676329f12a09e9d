CONSTANTS
  Records = {1, 2, 3, 4, 5, 6, 7, 8, 9, 10, 11, 12, 13}
  Imports <- SomeImports
  LeafMax = 2
  DirMax = 2
  MaxUpdates = 4
SPECIFICATION Spec
CHECK_DEADLOCK FALSE
INVARIANTS
  TypeOK
  TreeIsSearchable
  RangeIsExact
PROPERTY
  StepsAreExact
