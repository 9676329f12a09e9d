---------------------------- MODULE MCPathPlans ----------------------------
(* Small instances of PathPlans.                                           *)
EXTENDS PathPlans

CONSTANTS
  x, y, z,       \* vertices
  p, q,          \* labels
  MaxEdges       \* edges of a graph of short expressions

Unary(S) == {Expr(op, <<e>>) : op \in {"opt", "star", "plus", "inv"}, e \in S}
Binary(S, T) == {Expr(op, <<e, f>>) : op \in {"alt", "seq"}, e \in S, f \in T}

Atoms == {Atom(p, FALSE), Atom(q, FALSE)}
Short == Atoms \cup Unary(Atoms) \cup Binary(Atoms, Atoms)
Deep == Unary(Short) \cup Binary(Short, Short)
Sequences3 == {Expr("seq", <<e, f, g>>) : e \in Unary(Atoms), f \in Atoms, g \in Short}

\* Graphs of at most MaxEdges edges.
AllEdges == Labels \X Vertices \X Vertices
SmallGraphs ==
  {[l \in Labels |-> {<<e[2], e[3]>> : e \in {f \in E : f[1] = l}}] :
     E \in {F \in SUBSET AllEdges : Cardinality(F) <= MaxEdges}}

\* A cycle and a path that branches; a path whose ends differ in label.
DeepGraphs ==
  {[l \in Labels |-> IF l = p THEN {<<x, y>>, <<y, x>>, <<y, z>>} ELSE {<<y, z>>, <<z, z>>}],
   [l \in Labels |-> IF l = p THEN {<<x, y>>, <<z, x>>} ELSE {<<y, z>>, <<x, z>>}]}

SomeCases == (Short \X SmallGraphs) \cup ((Deep \cup Sequences3) \X DeepGraphs)
=============================================================================
