-------------------------- MODULE MCKleeneClosure --------------------------
(* Small instances of KleeneClosure.                                       *)
EXTENDS KleeneClosure, TLC

CONSTANTS
  a, b, c, d,    \* vertices
  MaxEdges       \* rows of the child

\* Every graph of at most MaxEdges edges.
SmallGraphs == {g \in SUBSET Rows : Cardinality(g) <= MaxEdges}

VertexSymmetry == Permutations(Vertices)
=============================================================================
