--------------------------- MODULE KleeneClosure ---------------------------
(***************************************************************************)
(* The KC operator of the custom plans: the pairs of a path expression e+  *)
(* (query/executor/binding_iter/custom_ops/kc_operator.{h,cc}) over the    *)
(* TwoColumnStore it fills (storage/custom_buffer/two_column_store.cc).    *)
(*                                                                         *)
(* The operator joins the rows it found last with the rows of its child    *)
(* until a round finds nothing new.  An eager operator does it once, in    *)
(* _begin; a lazy one for each vertex that its parent asks about.  The     *)
(* rows of a store come in the order of an unordered_map, so a round takes *)
(* them in any order; the loop over the child's rows of one vertex has no  *)
(* effect that depends on their order and is one step.                     *)
(*                                                                         *)
(* The child has no constants: kleene_planning plans it with fresh         *)
(* variables.  A definition Mut<Name> is a deliberately wrong form of      *)
(* <Name> that shows which property notices it.                            *)
(***************************************************************************)
EXTENDS Integers, FiniteSets

CONSTANTS
  Vertices,
  NoVertex,       \* ObjectId::get_null()
  Graphs,         \* the sets of rows that the child may have
  ChildKinds,     \* the kinds of child considered
  MaxIterations   \* 1000 in the code

Rows == Vertices \X Vertices

Kinds == {"index",     \* BPlusTreeTwoColumnBindingIter
          "store",     \* an operator that materialised all its rows
          "lazy",      \* a lazy union or two-way join
          "closure"}   \* a lazy KC operator

ASSUME ConstantsAssumption ==
  /\ IsFiniteSet(Vertices)
  /\ NoVertex \notin Vertices
  /\ Graphs \subseteq SUBSET Rows
  /\ ChildKinds \subseteq Kinds
  /\ MaxIterations \in Nat \ {0}

VARIABLES
  child_kind, edges,      \* the child and all its rows
  child_rows,             \* the rows that seeking in the child can find
  lazy, constant_col1, constant_col2,
  store,                  \* rows appended to this->store
  num_edges,              \* number of rows appended
  seen_edges,
  global_compute_fix_point_called,
  vertex_specific_compute_fix_point_called,
  iterations_count, fix_point_reached,
  pc,
  starting_vertex, current_store, next_store,   \* locals of compute_fix_point
  todo,                   \* rows of current_store not yet joined
  cut                     \* history: the iteration limit ended a computation

planVars  == <<child_kind, edges, lazy, constant_col1, constant_col2>>
callVars  == <<global_compute_fix_point_called,
               vertex_specific_compute_fix_point_called, starting_vertex>>
storeVars == <<store, num_edges>>
vars == <<planVars, callVars, storeVars, child_rows, seen_edges, iterations_count,
          fix_point_reached, pc, current_store, next_store, todo, cut>>

TypeOK ==
  /\ child_kind \in ChildKinds
  /\ edges \in Graphs
  /\ child_rows \in SUBSET edges
  /\ lazy \in BOOLEAN
  /\ constant_col1 \in Vertices \cup {NoVertex}
  /\ constant_col2 \in Vertices \cup {NoVertex}
  /\ store \in SUBSET Rows
  /\ num_edges \in Nat
  /\ seen_edges \in SUBSET Rows
  /\ global_compute_fix_point_called \in BOOLEAN
  /\ vertex_specific_compute_fix_point_called \in SUBSET Vertices
  /\ iterations_count \in 0 .. MaxIterations + 1
  /\ fix_point_reached \in BOOLEAN
  /\ pc \in {"created", "collect", "join", "ready"}
  /\ starting_vertex \in Vertices \cup {NoVertex}
  /\ current_store \in SUBSET Rows
  /\ next_store \in SUBSET Rows
  /\ todo \in SUBSET current_store
  /\ cut \in BOOLEAN

\* kleene_planning gives the operator at most one constant, and makes the
\* child lazy only below a constant first column.
Planned ==
  /\ constant_col1 = NoVertex \/ constant_col2 = NoVertex
  /\ child_kind \in {"lazy", "closure"} => constant_col1 # NoVertex

Init ==
  /\ child_kind \in ChildKinds
  /\ edges \in Graphs
  /\ lazy \in BOOLEAN
  /\ constant_col1 \in Vertices \cup {NoVertex}
  /\ constant_col2 \in Vertices \cup {NoVertex}
  /\ Planned
  /\ child_rows = IF child_kind \in {"index", "store"} THEN edges ELSE {}
  /\ store = {} /\ num_edges = 0
  /\ seen_edges = {}
  /\ global_compute_fix_point_called = FALSE
  /\ vertex_specific_compute_fix_point_called = {}
  /\ iterations_count = 0 /\ fix_point_reached = FALSE
  /\ pc = "created"
  /\ starting_vertex = NoVertex
  /\ current_store = {} /\ next_store = {} /\ todo = {}
  /\ cut = FALSE

-----------------------------------------------------------------------------
From(R, v) == {r \in R : r[1] = v}

\* child->seek_to_vertex(v).  A lazy union or two-way join computes the rows
\* of v first; the KC operator inherits the seek of a store, which does not.
MutSought(v) == child_rows \cup {<<v, v>>}
Sought(v) == IF child_kind = "lazy" THEN child_rows \cup From(edges, v) ELSE child_rows

\* The rows that the loop after the seek sees: it stops at the first row of
\* another vertex, which is what next() returns after a seek that failed.
Found(v) == From(Sought(v), v)

\* What goes to this->store.
MutWanted(R) == R
Wanted(R) == {r \in R : constant_col2 = NoVertex \/ r[2] = constant_col2}

Append(R) ==
  /\ store' = store \cup R
  /\ num_edges' = num_edges + Cardinality(R)

\* The rows of R that is_edge_new accepts.
MutNew(R) == R
New(R) == R \ seen_edges

-----------------------------------------------------------------------------
(* compute_fix_point                                                       *)

Compute(v) ==
  /\ starting_vertex' = v
  /\ IF v = NoVertex
       THEN /\ global_compute_fix_point_called' = TRUE
            /\ UNCHANGED vertex_specific_compute_fix_point_called
       ELSE /\ vertex_specific_compute_fix_point_called' =
                 vertex_specific_compute_fix_point_called \cup {v}
            /\ UNCHANGED global_compute_fix_point_called
  /\ current_store' = {} /\ next_store' = {} /\ todo' = {}
  /\ pc' = "collect"

\* _begin of an operator without a store.
BeginEager ==
  /\ pc = "created" /\ ~lazy
  /\ Compute(constant_col1)
  /\ UNCHANGED <<planVars, storeVars, child_rows, seen_edges, iterations_count,
                 fix_point_reached, cut>>

BeginLazy ==
  /\ pc = "created" /\ lazy
  /\ pc' = "ready"
  /\ UNCHANGED <<planVars, callVars, storeVars, child_rows, seen_edges, iterations_count,
                 fix_point_reached, current_store, next_store, todo, cut>>

\* get_neighbors of a vertex whose rows are not known yet.
GetNeighbors(v) ==
  /\ pc = "ready" /\ lazy
  /\ ~global_compute_fix_point_called
  /\ v \notin vertex_specific_compute_fix_point_called
  /\ Compute(v)
  /\ UNCHANGED <<planVars, storeVars, child_rows, seen_edges, iterations_count,
                 fix_point_reached, cut>>

\* The first rows come from the child.
FirstRows == IF starting_vertex = NoVertex THEN child_rows ELSE Found(starting_vertex)

Collect ==
  /\ pc = "collect"
  /\ child_rows' = IF starting_vertex = NoVertex THEN child_rows
                   ELSE Sought(starting_vertex)
  /\ seen_edges' = seen_edges \cup FirstRows
  /\ current_store' = New(FirstRows)
  /\ todo' = New(FirstRows)
  /\ Append(Wanted(New(FirstRows)))
  /\ iterations_count' = 1
  /\ pc' = IF New(FirstRows) = {} THEN "ready" ELSE "join"
  /\ UNCHANGED <<planVars, callVars, fix_point_reached, next_store, cut>>

\* perform_self_join_iteration: one row <<s, t>> of current_store.
Joined(s, t) == {<<s, r[2]>> : r \in Found(t)}

JoinRow ==
  /\ pc = "join"
  /\ \E row \in todo :
       LET new == New(Joined(row[1], row[2]))
       IN  /\ todo' = todo \ {row}
           /\ child_rows' = Sought(row[2])
           /\ seen_edges' = seen_edges \cup new
           /\ next_store' = next_store \cup new
  /\ UNCHANGED <<planVars, callVars, storeVars, iterations_count, fix_point_reached, pc,
                 current_store, cut>>

EndOfRound == pc = "join" /\ todo = {}

FixPoint ==
  /\ EndOfRound /\ next_store = {}
  /\ fix_point_reached' = TRUE
  /\ pc' = "ready"
  /\ UNCHANGED <<planVars, callVars, storeVars, child_rows, seen_edges, iterations_count,
                 current_store, next_store, todo, cut>>

\* "Safety check to prevent infinite loops"
Limit == iterations_count + 1 > MaxIterations

MutNextRows == {}
NextRows == next_store

NextRound ==
  /\ EndOfRound /\ next_store # {}
  /\ Append(Wanted(next_store))
  /\ current_store' = next_store
  /\ iterations_count' = iterations_count + 1
  /\ IF Limit
       THEN /\ fix_point_reached' = TRUE /\ cut' = TRUE
            /\ pc' = "ready" /\ todo' = {}
       ELSE /\ todo' = NextRows
            /\ UNCHANGED <<fix_point_reached, cut, pc>>
  /\ next_store' = {}
  /\ UNCHANGED <<planVars, callVars, child_rows, seen_edges>>

Next ==
  \/ BeginEager \/ BeginLazy \/ \E v \in Vertices : GetNeighbors(v)
  \/ Collect \/ JoinRow \/ FixPoint \/ NextRound

Spec == Init /\ [][Next]_vars

-----------------------------------------------------------------------------
(* Properties.                                                             *)

\* The rows of the child that the computations asked for start from.
Seeds == {e \in edges : \/ global_compute_fix_point_called
                        \/ e[1] \in vertex_specific_compute_fix_point_called}

\* T has those rows, and with a path every longer one.
IsClosed(T) ==
  /\ Seeds \subseteq T
  /\ \A r \in T, e \in edges : r[2] = e[1] => <<r[1], e[2]>> \in T

\* Where no limit cut it short and seeks in the child find its rows, what the
\* operator found is the least relation that extends the child's rows by the
\* child's rows: all the pairs of e+ from the vertices asked for, and no
\* other, whether computed at once or vertex by vertex.
ClosureIsExact ==
  pc = "ready" /\ ~cut /\ child_kind # "closure" =>
    /\ IsClosed(seen_edges)
    /\ \A T \in SUBSET seen_edges : IsClosed(T) => T = seen_edges

\* The rows that the parent iterates are the found ones with the constant
\* second column, each appended to the store once.
StoreHoldsTheAnswer ==
  pc = "ready" =>
    /\ store = {r \in seen_edges : constant_col2 \in {NoVertex, r[2]}}
    /\ num_edges = Cardinality(store)

\* A computation takes at most one round per vertex: a graph needs more than
\* a thousand vertices to meet the iteration limit.
RoundsAreBounded == iterations_count <= Cardinality(Vertices)
=============================================================================
