CONSTANTS
  x = x
  y = y
  z = z
  p = "p"
  q = "q"
  Vertices = {x, y, z}
  Free = Free
  Labels = {"p", "q"}
  MaxEdges = 2
  Cases <- SomeCases
SPECIFICATION Spec
CHECK_DEADLOCK FALSE
INVARIANTS
  EagerIsExact
  LazyIsExact
