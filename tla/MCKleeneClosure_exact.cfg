CONSTANTS
  a = a
  b = b
  c = c
  d = d
  NoVertex = NoVertex
  Vertices = {a, b, c, d}
  MaxEdges = 4
  Graphs <- SmallGraphs
  ChildKinds = {"index", "store", "lazy"}
  MaxIterations = 9
SPECIFICATION Spec
CHECK_DEADLOCK FALSE
SYMMETRY VertexSymmetry
INVARIANTS
  TypeOK
  ClosureIsExact
  StoreHoldsTheAnswer
  RoundsAreBounded
