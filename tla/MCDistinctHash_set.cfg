CONSTANTS
  a = a
  b = b
  c = c
  d = d
  Tuples = {a, b, c, d}
  Hash <- LateHash
  NBits = 3
  DEFAULT_GLOBAL_DEPTH = 0
  MaxTuples = 1
  NoTuple = NoTuple
  NoAnswer = NoAnswer
SPECIFICATION Spec
INVARIANTS
  TypeOK
  DirectoryIsExact
PROPERTY ImplementsDistinctSet
