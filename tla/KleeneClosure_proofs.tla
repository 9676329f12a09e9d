------------------------ MODULE KleeneClosure_proofs ------------------------
(***************************************************************************)
(* Proofs about KleeneClosure: for every graph, every limit and every      *)
(* order in which rows are joined, the operator finds exactly the pairs of *)
(* the closure (unless the limit stops it or seeks in the child fail), and *)
(* puts each of them into its store once.                                  *)
(***************************************************************************)
EXTENDS KleeneClosure, FiniteSetTheorems, TLAPS

\* Rows still to be joined are found rows, and there are none between calls.
Pending ==
  /\ current_store \subseteq seen_edges
  /\ next_store \subseteq seen_edges
  /\ pc # "join" => todo = {} /\ next_store = {}
  /\ pc = "join" => iterations_count <= MaxIterations
  /\ pc = "collect" =>
       IF starting_vertex = NoVertex
         THEN global_compute_fix_point_called
         ELSE starting_vertex \in vertex_specific_compute_fix_point_called

\* Which rows of the child a seek can find.
ChildInv ==
  /\ Planned
  /\ child_kind \in {"index", "store"} => child_rows = edges
  /\ pc = "collect" /\ child_kind = "lazy" => starting_vertex # NoVertex

\* Found rows are in every closed relation.
Sound == \A T \in SUBSET Rows : IsClosed(T) => seen_edges \subseteq T

\* Seeds are found once collected, and a found row that is not waiting to be
\* joined has all its extensions.
Collecting(e) ==
  pc = "collect" /\ (starting_vertex = NoVertex \/ e[1] = starting_vertex)

Complete ==
  ~cut /\ child_kind # "closure" =>
    /\ \A e \in Seeds : e \in seen_edges \/ Collecting(e)
    /\ \A r \in seen_edges, e \in edges :
         r[2] = e[1] => \/ <<r[1], e[2]>> \in seen_edges
                        \/ r \in todo
                        \/ r \in next_store

Stored ==
  /\ store = Wanted(seen_edges \ next_store)
  /\ num_edges = Cardinality(store)

Inv == TypeOK /\ Pending /\ ChildInv /\ Sound /\ Complete /\ Stored

\* The vertices found from s in the rounds before the one under way.
Reached(s) == {u \in Vertices : <<s, u>> \in seen_edges \ next_store}

\* From the first column of a row under way, a vertex more has been reached
\* in each round so far.
RoundInv ==
  /\ iterations_count <= Cardinality(Vertices)
  /\ pc = "join" => \A r \in current_store \cup next_store :
                      iterations_count <= Cardinality(Reached(r[1]))

-----------------------------------------------------------------------------
\* Every set of rows is finite, because the set of vertices is.
LEMMA RowsFinite == ASSUME NEW R \in SUBSET Rows PROVE IsFiniteSet(R)
<1>1. IsFiniteSet(Rows)
  BY FS_Product, ConstantsAssumption DEF Rows
<1> QED BY <1>1, FS_Subset

\* Appending rows that are not in the store adds as many as there are.
LEMMA AppendDisjoint ==
  ASSUME NEW S \in SUBSET Rows, NEW R \in SUBSET Rows, S \cap R = {}
  PROVE  /\ Cardinality(S \cup R) = Cardinality(S) + Cardinality(R)
         /\ Cardinality(R) \in Nat /\ Cardinality(S) \in Nat
<1>1. IsFiniteSet(S) /\ IsFiniteSet(R)
  BY RowsFinite
<1>2. Cardinality(S \cup R) = Cardinality(S) + Cardinality(R) - Cardinality(S \cap R)
  BY <1>1, FS_Union
<1>3. Cardinality(S \cap R) = 0
  BY FS_EmptySet
<1>4. Cardinality(R) \in Nat /\ Cardinality(S) \in Nat
  BY <1>1, FS_CardinalityType
<1> QED BY <1>2, <1>3, <1>4

\* The child's rows are pairs of vertices, and a seek finds only the child's rows.
LEMMA GraphRows == ASSUME TypeOK PROVE edges \subseteq Rows /\ child_rows \subseteq edges
BY ConstantsAssumption DEF TypeOK

\* A seek for v finds only rows of v, and forgets none that was found before.
LEMMA FoundRows ==
  ASSUME TypeOK, NEW v
  PROVE  /\ Sought(v) \subseteq edges
         /\ child_rows \subseteq Sought(v)
         /\ Found(v) \subseteq From(edges, v)
BY DEF TypeOK, Sought, Found, From

\* A seek finds all the rows of a vertex, except in a lazy closure.
LEMMA FoundAll ==
  ASSUME TypeOK, ChildInv, child_kind # "closure", NEW v
  PROVE  Found(v) = From(edges, v)
<1>1. child_kind \in {"index", "store", "lazy"}
  BY ConstantsAssumption DEF TypeOK, Kinds
<1>2. CASE child_kind \in {"index", "store"}
  BY <1>2 DEF ChildInv, Found, Sought, From
<1>3. CASE child_kind = "lazy"
  BY <1>3 DEF TypeOK, Found, Sought, From
<1> QED BY <1>1, <1>2, <1>3

\* Joining a row gives pairs of vertices.
LEMMA JoinedRows ==
  ASSUME TypeOK, NEW s \in Vertices, NEW t
  PROVE  Joined(s, t) \subseteq Rows
<1>1. \A r \in Found(t) : r \in Rows
  BY FoundRows, GraphRows DEF From
<1> QED BY <1>1 DEF Joined, Rows

\* The rows that compute_fix_point starts from are rows that were asked for.
LEMMA FirstRowsAreSeeds ==
  ASSUME TypeOK, Pending, pc = "collect"
  PROVE  FirstRows \subseteq Seeds
BY FoundRows, GraphRows DEF Pending, FirstRows, Seeds, From

\* The invariant holds before _begin.
LEMMA InitInv == Init => Inv
<1> SUFFICES ASSUME Init PROVE Inv
  OBVIOUS
<1>1. TypeOK
  <2>1. child_rows \in SUBSET edges
    BY DEF Init
  <2>2. 0 \in 0 .. MaxIterations + 1 /\ 0 \in Nat
    BY ConstantsAssumption
  <2> QED BY <2>1, <2>2 DEF Init, TypeOK
<1>2. Pending /\ ChildInv
  BY DEF Init, Pending, ChildInv
<1>3. Sound
  BY DEF Init, Sound
<1>4. Complete
  BY DEF Init, Complete, Seeds
<1>5. Cardinality({}) = 0
  BY FS_EmptySet
<1>6. Stored
  BY <1>5 DEF Init, Stored, Wanted
<1> QED BY <1>1, <1>2, <1>3, <1>4, <1>6 DEF Inv

\* A call of compute_fix_point: more vertices are asked for, nothing else.
LEMMA ComputeStep ==
  ASSUME Inv, pc \in {"created", "ready"}, NEW v \in Vertices \cup {NoVertex}, Compute(v),
         child_kind = "lazy" => v # NoVertex,
         UNCHANGED <<planVars, storeVars, child_rows, seen_edges, iterations_count,
                     fix_point_reached, cut>>
  PROVE  Inv'
<1> USE DEF planVars, storeVars
<1>1. TypeOK'
  BY DEF Inv, TypeOK, Compute
<1>2. Pending' /\ ChildInv'
  BY DEF Inv, Pending, ChildInv, Planned, Compute, TypeOK
<1>3. \A e \in Seeds' : e \in Seeds \/ v = NoVertex \/ e[1] = v
  BY DEF Seeds, Compute
<1>4. Seeds \subseteq Seeds'
  BY DEF Seeds, Compute
<1>5. Sound'
  BY <1>4 DEF Inv, Sound, IsClosed
<1>6. todo = {} /\ next_store = {}
  BY DEF Inv, Pending
<1>7. Complete'
  BY <1>3, <1>6 DEF Inv, Complete, Collecting, Compute
<1>8. Stored'
  BY <1>6 DEF Inv, Stored, Wanted, Compute
<1> QED BY <1>1, <1>2, <1>5, <1>7, <1>8 DEF Inv

\* Collecting the first rows: every row asked for is found and waits to be joined.
LEMMA CollectStep == ASSUME Inv, Collect PROVE Inv'
<1> USE DEF planVars, callVars
<1>0. TypeOK /\ Pending /\ ChildInv /\ pc = "collect"
  BY DEF Inv, Collect
<1>1. FirstRows \subseteq Seeds /\ Seeds \subseteq edges /\ edges \subseteq Rows
  BY <1>0, FirstRowsAreSeeds, GraphRows DEF Seeds
<1>2. next_store = {} /\ next_store' = {} /\ todo = {}
  BY <1>0 DEF Pending, Collect
<1> DEFINE first == FirstRows
           new == New(FirstRows)
<1>3. new \subseteq first /\ new \cap seen_edges = {} /\ seen_edges \cup new = seen_edges \cup first
  BY DEF New
<1>4. /\ seen_edges' = seen_edges \cup first
      /\ current_store' = new /\ todo' = new
  BY DEF Collect
<1>5. child_rows \subseteq child_rows' /\ child_rows' \subseteq edges
  BY <1>0, FoundRows, GraphRows DEF Collect
<1>6. store \cap Wanted(new) = {} /\ Wanted(new) \subseteq Rows
  BY <1>1, <1>3 DEF Inv, Stored, Wanted
<1>7. /\ store' = store \cup Wanted(new)
      /\ num_edges' = num_edges + Cardinality(Wanted(new))
  BY DEF Collect, Append
<1>8. /\ Cardinality(store') = Cardinality(store) + Cardinality(Wanted(new))
      /\ Cardinality(Wanted(new)) \in Nat /\ Cardinality(store) \in Nat
  BY <1>0, <1>6, <1>7, AppendDisjoint DEF TypeOK
<1>9. UNCHANGED <<child_kind, edges, lazy, constant_col1, constant_col2,
                  global_compute_fix_point_called,
                  vertex_specific_compute_fix_point_called, starting_vertex,
                  fix_point_reached, cut>>
  BY DEF Collect
<1>10. iterations_count' = 1 /\ pc' \in {"ready", "join"} /\ (pc' = "ready" => new = {})
  BY DEF Collect
<1>11. TypeOK'
  <2>1. seen_edges' \in SUBSET Rows /\ current_store' \in SUBSET Rows /\ todo' \in SUBSET current_store'
    BY <1>0, <1>1, <1>3, <1>4 DEF TypeOK
  <2>2. store' \in SUBSET Rows /\ num_edges' \in Nat
    BY <1>0, <1>6, <1>7, <1>8 DEF TypeOK
  <2>3. iterations_count' \in 0 .. MaxIterations + 1
    BY <1>10, ConstantsAssumption
  <2>4. child_rows' \in SUBSET edges'
    BY <1>5, <1>9
  <2> QED BY <1>0, <1>2, <1>9, <1>10, <2>1, <2>2, <2>3, <2>4 DEF TypeOK
<1>12. Pending'
  BY <1>2, <1>3, <1>4, <1>10, ConstantsAssumption DEF Pending
<1>13. ChildInv'
  BY <1>0, <1>5, <1>9, <1>10 DEF ChildInv, Planned
<1>14. Seeds' = Seeds
  BY <1>9 DEF Seeds
<1>15. Sound'
  BY <1>1, <1>4, <1>9, <1>14 DEF Inv, Sound, IsClosed
<1>16. Complete'
  <2> SUFFICES ASSUME ~cut, child_kind # "closure"
               PROVE  /\ \A e \in Seeds : e \in seen_edges'
                      /\ \A r \in seen_edges', e \in edges :
                           r[2] = e[1] => <<r[1], e[2]>> \in seen_edges' \/ r \in todo'
    BY <1>9, <1>14 DEF Complete
  <2>1. \A e \in Seeds : Collecting(e) => e \in first
    <3> SUFFICES ASSUME NEW e \in Seeds, Collecting(e) PROVE e \in FirstRows
      OBVIOUS
    <3>1. CASE starting_vertex = NoVertex
      <4>1. child_kind \in {"index", "store"}
        BY <1>0, <3>1, ConstantsAssumption DEF ChildInv, TypeOK, Kinds
      <4> QED BY <4>1, <3>1, <1>0 DEF ChildInv, FirstRows, Seeds
    <3>2. CASE starting_vertex # NoVertex
      BY <3>2, <1>0, FoundAll DEF Collecting, FirstRows, From, Seeds
    <3> QED BY <3>1, <3>2
  <2>2. \A e \in Seeds : e \in seen_edges'
    BY <2>1, <1>4 DEF Inv, Complete
  <2>3. ASSUME NEW r \in seen_edges', NEW e \in edges, r[2] = e[1]
        PROVE  <<r[1], e[2]>> \in seen_edges' \/ r \in todo'
    <3>1. CASE r \in seen_edges
      BY <3>1, <2>3, <1>2, <1>4 DEF Inv, Complete
    <3>2. CASE r \in new
      BY <3>2, <1>4
    <3> QED BY <3>1, <3>2, <1>3, <1>4
  <2> QED BY <2>2, <2>3
<1>17. Stored'
  <2>1. store' = Wanted(seen_edges')
    BY <1>2, <1>3, <1>4, <1>7 DEF Inv, Stored, Wanted
  <2>3. num_edges' = Cardinality(store')
    BY <1>7, <1>8 DEF Inv, Stored
  <2>4. (Wanted(seen_edges \ next_store))' = Wanted(seen_edges')
    BY <1>2, <1>9 DEF Wanted
  <2> QED BY <2>1, <2>3, <2>4 DEF Stored
<1> QED BY <1>11, <1>12, <1>13, <1>15, <1>16, <1>17 DEF Inv

\* Joining a row: its extensions are found, and it need not be joined again.
LEMMA JoinRowStep == ASSUME Inv, JoinRow PROVE Inv'
<1> USE DEF planVars, callVars, storeVars
<1>0. TypeOK /\ Pending /\ ChildInv /\ pc = "join"
  BY DEF Inv, JoinRow
<1>1. PICK row \in todo :
        /\ todo' = todo \ {row}
        /\ child_rows' = Sought(row[2])
        /\ seen_edges' = seen_edges \cup New(Joined(row[1], row[2]))
        /\ next_store' = next_store \cup New(Joined(row[1], row[2]))
  BY DEF JoinRow
<1>2. row \in seen_edges /\ row \in Rows /\ row[1] \in Vertices
  BY <1>0 DEF TypeOK, Pending, Rows
<1> DEFINE joined == Joined(row[1], row[2])
           new == New(joined)
<1>3. joined \subseteq Rows /\ new \subseteq joined /\ new \cap seen_edges = {}
      /\ joined \subseteq seen_edges \cup new
  BY <1>0, <1>2, JoinedRows DEF New
<1>4. seen_edges' = seen_edges \cup new /\ next_store' = next_store \cup new
  BY <1>1
<1>5. UNCHANGED <<child_kind, edges, lazy, constant_col1, constant_col2,
                  global_compute_fix_point_called,
                  vertex_specific_compute_fix_point_called, starting_vertex,
                  store, num_edges, iterations_count, fix_point_reached, pc,
                  current_store, cut>>
  BY DEF JoinRow
<1>6. child_rows \subseteq child_rows' /\ child_rows' \subseteq edges
  BY <1>0, <1>1, FoundRows
<1>7. \A j \in joined : \E e \in edges : row[2] = e[1] /\ j = <<row[1], e[2]>>
  BY <1>0, FoundRows DEF Joined, From
<1> HIDE DEF joined, new
<1>8. TypeOK'
  BY <1>0, <1>1, <1>3, <1>4, <1>5, <1>6 DEF TypeOK
<1>9. Pending'
  BY <1>0, <1>4, <1>5 DEF Pending
<1>10. ChildInv'
  BY <1>0, <1>5, <1>6 DEF ChildInv, Planned
<1>11. Seeds' = Seeds
  BY <1>5 DEF Seeds
<1>12. Sound'
  <2> SUFFICES ASSUME NEW T \in SUBSET Rows, IsClosed(T) PROVE seen_edges' \subseteq T
    BY <1>5, <1>11 DEF Sound, IsClosed
  <2>1. seen_edges \subseteq T
    BY DEF Inv, Sound
  <2>2. joined \subseteq T
    BY <2>1, <1>2, <1>7 DEF IsClosed
  <2> QED BY <2>1, <2>2, <1>3, <1>4
<1>13. Complete'
  <2> SUFFICES ASSUME ~cut, child_kind # "closure"
               PROVE  /\ \A e \in Seeds : e \in seen_edges'
                      /\ \A r \in seen_edges', e \in edges :
                           r[2] = e[1] => \/ <<r[1], e[2]>> \in seen_edges'
                                          \/ r \in todo'
                                          \/ r \in next_store'
    BY <1>5, <1>11 DEF Complete
  <2>1. \A e \in Seeds : e \in seen_edges'
    BY <1>0, <1>4 DEF Inv, Complete, Collecting
  <2>2. ASSUME NEW r \in seen_edges', NEW e \in edges, r[2] = e[1]
        PROVE  \/ <<r[1], e[2]>> \in seen_edges'
               \/ r \in todo'
               \/ r \in next_store'
    <3>1. CASE r = row
      <4>1. <<r[1], e[2]>> \in joined
        BY <3>1, <2>2, <1>0, FoundAll DEF joined, Joined, From
      <4> QED BY <4>1, <1>3, <1>4
    <3>2. CASE r # row /\ r \in seen_edges
      BY <3>2, <2>2, <1>1, <1>4 DEF Inv, Complete
    <3>3. CASE r \in new
      BY <3>3, <1>4
    <3> QED BY <3>1, <3>2, <3>3, <1>4
  <2> QED BY <2>1, <2>2
<1>14. Stored'
  <2>1. seen_edges' \ next_store' = seen_edges \ next_store
    BY <1>3, <1>4
  <2>2. (Wanted(seen_edges \ next_store))' = Wanted(seen_edges' \ next_store')
    BY <1>5 DEF Wanted
  <2> QED BY <1>5, <2>1, <2>2 DEF Inv, Stored
<1> QED BY <1>8, <1>9, <1>10, <1>12, <1>13, <1>14 DEF Inv

\* A round that found nothing leaves no row to join.
LEMMA FixPointStep == ASSUME Inv, FixPoint PROVE Inv'
<1> USE DEF planVars, callVars, storeVars
<1>0. TypeOK /\ Pending /\ ChildInv /\ pc = "join" /\ pc' = "ready" /\ todo = {} /\ next_store = {}
  BY DEF Inv, FixPoint, EndOfRound
<1>1. UNCHANGED <<child_kind, edges, lazy, constant_col1, constant_col2, child_rows,
                  global_compute_fix_point_called,
                  vertex_specific_compute_fix_point_called, starting_vertex,
                  store, num_edges, iterations_count, seen_edges,
                  current_store, next_store, todo, cut>>
  BY DEF FixPoint
<1>2. TypeOK'
  BY <1>0, <1>1 DEF TypeOK, FixPoint
<1>3. Pending' /\ ChildInv'
  BY <1>0, <1>1 DEF Pending, ChildInv, Planned
<1>4. Seeds' = Seeds
  BY <1>1 DEF Seeds
<1>5. Sound'
  BY <1>1, <1>4 DEF Inv, Sound, IsClosed
<1>6. Complete'
  BY <1>0, <1>1, <1>4 DEF Inv, Complete, Collecting
<1>7. Stored'
  BY <1>1 DEF Inv, Stored, Wanted
<1> QED BY <1>2, <1>3, <1>5, <1>6, <1>7 DEF Inv

\* The rows of the next round move to the store and become the ones to join;
\* if the limit stops the loop they are not joined, and cut says so.
LEMMA NextRoundStep == ASSUME Inv, NextRound PROVE Inv'
<1> USE DEF planVars, callVars
<1>0. TypeOK /\ Pending /\ ChildInv /\ pc = "join" /\ todo = {}
  BY DEF Inv, NextRound, EndOfRound
<1>1. UNCHANGED <<child_kind, edges, lazy, constant_col1, constant_col2, child_rows,
                  global_compute_fix_point_called,
                  vertex_specific_compute_fix_point_called, starting_vertex, seen_edges>>
  BY DEF NextRound
<1>2. current_store' = next_store /\ next_store' = {} /\ iterations_count' = iterations_count + 1
  BY DEF NextRound
<1>3. \/ /\ cut' = TRUE /\ pc' = "ready" /\ todo' = {} /\ fix_point_reached' = TRUE
      \/ /\ ~Limit /\ cut' = cut /\ pc' = "join" /\ todo' = next_store
         /\ fix_point_reached' = fix_point_reached
  BY <1>0 DEF NextRound, NextRows
<1>4. store \cap Wanted(next_store) = {} /\ Wanted(next_store) \subseteq Rows
  BY <1>0 DEF Inv, Stored, Wanted, TypeOK
<1>5. /\ store' = store \cup Wanted(next_store)
      /\ num_edges' = num_edges + Cardinality(Wanted(next_store))
  BY DEF NextRound, Append
<1>6. /\ Cardinality(store') = Cardinality(store) + Cardinality(Wanted(next_store))
      /\ Cardinality(Wanted(next_store)) \in Nat /\ Cardinality(store) \in Nat
  BY <1>0, <1>4, <1>5, AppendDisjoint DEF TypeOK
<1>7. iterations_count \in Nat /\ iterations_count <= MaxIterations /\ MaxIterations \in Nat
  BY <1>0, ConstantsAssumption DEF TypeOK, Pending
<1>8. TypeOK'
  <2>1. iterations_count' \in 0 .. MaxIterations + 1
    BY <1>2, <1>7
  <2>2. store' \in SUBSET Rows /\ num_edges' \in Nat
    BY <1>0, <1>4, <1>5, <1>6 DEF TypeOK
  <2>3. todo' \in SUBSET current_store' /\ cut' \in BOOLEAN /\ fix_point_reached' \in BOOLEAN
        /\ pc' \in {"created", "collect", "join", "ready"}
    BY <1>0, <1>2, <1>3 DEF TypeOK
  <2> QED BY <1>0, <1>1, <1>2, <2>1, <2>2, <2>3 DEF TypeOK
<1>9. Pending'
  <2>1. pc' = "join" => iterations_count' <= MaxIterations
    BY <1>2, <1>3, <1>7 DEF Limit
  <2> QED BY <1>0, <1>1, <1>2, <1>3, <2>1 DEF Pending
<1>10. ChildInv'
  BY <1>0, <1>1, <1>3 DEF ChildInv, Planned
<1>11. Seeds' = Seeds
  BY <1>1 DEF Seeds
<1>12. Sound'
  BY <1>1, <1>11 DEF Inv, Sound, IsClosed
<1>13. Complete'
  BY <1>0, <1>1, <1>2, <1>3, <1>11 DEF Inv, Complete, Collecting
<1>14. Stored'
  <2>1. store' = Wanted(seen_edges)
    BY <1>0, <1>5 DEF Inv, Stored, Wanted, Pending
  <2>2. num_edges' = Cardinality(store')
    BY <1>5, <1>6 DEF Inv, Stored
  <2>3. (Wanted(seen_edges \ next_store))' = Wanted(seen_edges)
    BY <1>1, <1>2 DEF Wanted
  <2> QED BY <2>1, <2>2, <2>3 DEF Stored
<1> QED BY <1>8, <1>9, <1>10, <1>12, <1>13, <1>14 DEF Inv

\* Every step of the operator keeps the invariant.
LEMMA StepInv == Inv /\ [Next]_vars => Inv'
<1> SUFFICES ASSUME Inv, [Next]_vars PROVE Inv'
  OBVIOUS
<1>1. CASE BeginEager
  <2>1. constant_col1 \in Vertices \cup {NoVertex} /\ (child_kind = "lazy" => constant_col1 # NoVertex)
    BY DEF Inv, TypeOK, ChildInv, Planned
  <2> QED BY <1>1, <2>1, ComputeStep DEF BeginEager
<1>2. CASE BeginLazy
  <2> USE DEF planVars, callVars, storeVars
  <2>1. UNCHANGED <<child_kind, edges, lazy, constant_col1, constant_col2, child_rows,
                    global_compute_fix_point_called,
                    vertex_specific_compute_fix_point_called, starting_vertex,
                    store, num_edges, iterations_count, seen_edges, fix_point_reached,
                    current_store, next_store, todo, cut>>
        /\ pc = "created" /\ pc' = "ready"
    BY <1>2 DEF BeginLazy
  <2>2. TypeOK'
    BY <2>1 DEF Inv, TypeOK
  <2>3. Pending' /\ ChildInv'
    BY <2>1 DEF Inv, Pending, ChildInv, Planned
  <2>4. Sound' /\ Complete' /\ Stored'
    BY <2>1 DEF Inv, Sound, Complete, Stored, IsClosed, Seeds, Collecting, Wanted
  <2> QED BY <2>2, <2>3, <2>4 DEF Inv
<1>3. CASE \E v \in Vertices : GetNeighbors(v)
  <2>1. PICK v \in Vertices : GetNeighbors(v)
    BY <1>3
  <2>2. v # NoVertex
    BY ConstantsAssumption
  <2> QED BY <2>1, <2>2, ComputeStep DEF GetNeighbors
<1>4. CASE Collect
  BY <1>4, CollectStep
<1>5. CASE JoinRow
  BY <1>5, JoinRowStep
<1>6. CASE FixPoint
  BY <1>6, FixPointStep
<1>7. CASE NextRound
  BY <1>7, NextRoundStep
<1>8. CASE UNCHANGED vars
  <2> USE <1>8 DEF vars, planVars, callVars, storeVars
  <2>1. TypeOK' /\ Pending' /\ ChildInv'
    BY DEF Inv, TypeOK, Pending, ChildInv, Planned
  <2>2. Sound' /\ Complete' /\ Stored'
    BY DEF Inv, Sound, Complete, Stored, IsClosed, Seeds, Collecting, Wanted
  <2> QED BY <2>1, <2>2 DEF Inv
<1> QED BY <1>1, <1>2, <1>3, <1>4, <1>5, <1>6, <1>7, <1>8 DEF Next

-----------------------------------------------------------------------------
\* The inductive invariant of compute_fix_point holds in every reachable state.
THEOREM Invariance == Spec => []Inv
<1> QED BY InitInv, StepInv, PTL DEF Spec

\* Every variable of the operator keeps its type; the iteration counter does
\* not pass the limit by more than one.
THEOREM TypeCorrect == Spec => []TypeOK
<1>1. Inv => TypeOK
  BY DEF Inv
<1> QED BY <1>1, Invariance, PTL

\* compute_fix_point finds exactly the pairs of e+ from the vertices asked
\* for, for every graph, every order of the rows and every order of calls.
THEOREM ClosureExact == Spec => []ClosureIsExact
<1>1. Inv => ClosureIsExact
  <2> SUFFICES ASSUME Inv, pc = "ready", ~cut, child_kind # "closure"
               PROVE  /\ IsClosed(seen_edges)
                      /\ \A T \in SUBSET seen_edges : IsClosed(T) => T = seen_edges
    BY DEF ClosureIsExact
  <2>1. todo = {} /\ next_store = {}
    BY DEF Inv, Pending
  <2>2. IsClosed(seen_edges)
    BY <2>1 DEF Inv, Complete, Collecting, IsClosed
  <2>3. \A T \in SUBSET seen_edges : T \in SUBSET Rows
    BY DEF Inv, TypeOK
  <2> QED BY <2>2, <2>3 DEF Inv, Sound
<1> QED BY <1>1, Invariance, PTL

\* this->store holds the found rows with the constant second column, each
\* appended once.
THEOREM StoreExact == Spec => []StoreHoldsTheAnswer
<1>1. Inv => StoreHoldsTheAnswer
  <2> SUFFICES ASSUME Inv, pc = "ready" PROVE StoreHoldsTheAnswer
    BY DEF StoreHoldsTheAnswer
  <2>1. next_store = {}
    BY DEF Inv, Pending
  <2> QED BY <2>1 DEF Inv, Stored, StoreHoldsTheAnswer, Wanted
<1> QED BY <1>1, Invariance, PTL
-----------------------------------------------------------------------------
(* The number of rounds.                                                   *)

LEMMA ReachedFinite ==
  ASSUME NEW s
  PROVE  /\ Reached(s) \subseteq Vertices /\ IsFiniteSet(Reached(s))
         /\ Cardinality(Reached(s)) \in Nat
         /\ Cardinality(Vertices) \in Nat
         /\ Cardinality(Reached(s)) <= Cardinality(Vertices)
<1>1. Reached(s) \subseteq Vertices /\ IsFiniteSet(Vertices)
  BY ConstantsAssumption DEF Reached
<1>2. IsFiniteSet(Reached(s)) /\ Cardinality(Reached(s)) <= Cardinality(Vertices)
  BY <1>1, FS_Subset
<1> QED BY <1>1, <1>2, FS_CardinalityType

\* The same for the next state.
LEMMA ReachedFiniteNext ==
  ASSUME NEW s
  PROVE  /\ Reached(s)' \subseteq Vertices /\ IsFiniteSet(Reached(s)')
         /\ Cardinality(Reached(s)') \in Nat
<1>1. Reached(s)' \subseteq Vertices /\ IsFiniteSet(Vertices)
  BY ConstantsAssumption DEF Reached
<1> QED BY <1>1, FS_Subset, FS_CardinalityType

\* The first rows reach a vertex each.
LEMMA CollectRounds ==
  ASSUME Vertices # {}, Inv, Collect PROVE RoundInv'
<1>1. TypeOK /\ pc = "collect" /\ next_store = {} /\ next_store' = {}
  BY DEF Inv, Pending, Collect
<1>2. FirstRows \subseteq Rows
  BY <1>1, FirstRowsAreSeeds, GraphRows DEF Inv, Seeds
<1>3. iterations_count' = 1
  BY DEF Collect
<1>4. iterations_count' <= Cardinality(Vertices)
  <2>1. IsFiniteSet(Vertices) /\ Cardinality(Vertices) \in Nat /\ Cardinality(Vertices) # 0
    BY ConstantsAssumption, FS_CardinalityType, FS_EmptySet
  <2> QED BY <1>3, <2>1
<1>5. ASSUME NEW r \in (current_store \cup next_store)'
      PROVE  iterations_count' <= Cardinality(Reached(r[1])')
  <2>1. r \in FirstRows /\ r \in Rows /\ r \in seen_edges'
    BY <1>1, <1>2, <1>5 DEF Collect, New
  <2>2. r = <<r[1], r[2]>> /\ r[2] \in Vertices
    BY <2>1 DEF Rows
  <2>3. r[2] \in Reached(r[1])'
    BY <1>1, <2>1, <2>2 DEF Reached
  <2>4. IsFiniteSet(Reached(r[1])') /\ Cardinality(Reached(r[1])') \in Nat
    BY ReachedFiniteNext
  <2>5. Cardinality(Reached(r[1])') # 0
    BY <2>3, <2>4, FS_EmptySet
  <2> QED BY <1>3, <2>4, <2>5
<1> QED BY <1>4, <1>5 DEF RoundInv

\* A round appends to the same first columns, and what it finds is not yet
\* counted as reached.
LEMMA JoinRowRounds ==
  ASSUME Inv, RoundInv, JoinRow PROVE RoundInv'
<1>1. PICK row \in todo :
        /\ seen_edges' = seen_edges \cup New(Joined(row[1], row[2]))
        /\ next_store' = next_store \cup New(Joined(row[1], row[2]))
  BY DEF JoinRow
<1>2. /\ pc = "join" /\ pc' = "join"
      /\ iterations_count' = iterations_count /\ current_store' = current_store
  BY DEF JoinRow
<1>3. row \in current_store
  BY DEF Inv, TypeOK
<1> DEFINE new == New(Joined(row[1], row[2]))
<1>4. seen_edges' \ next_store' = seen_edges \ next_store
  <2>1. new \cap seen_edges = {}
    BY DEF New
  <2> HIDE DEF new
  <2>2. seen_edges' = seen_edges \cup new /\ next_store' = next_store \cup new
    BY <1>1 DEF new
  <2> QED BY <2>1, <2>2 DEF Inv, Pending
<1>5. \A s : Reached(s)' = Reached(s)
  BY <1>4 DEF Reached
<1>6. ASSUME NEW r \in (current_store \cup next_store)'
      PROVE  iterations_count' <= Cardinality(Reached(r[1])')
  <2>1. CASE r \in current_store \cup next_store
    BY <1>2, <1>5, <2>1 DEF RoundInv
  <2>2. CASE r \in new
    <3>1. r[1] = row[1]
      BY <2>2 DEF New, Joined
    <3>2. iterations_count <= Cardinality(Reached(row[1]))
      BY <1>2, <1>3 DEF RoundInv
    <3>3. Reached(r[1])' = Reached(row[1])
      BY <1>5, <3>1
    <3> QED BY <1>2, <3>2, <3>3
  <2> QED BY <1>1, <1>2, <1>6, <2>1, <2>2
<1> QED BY <1>2, <1>6 DEF RoundInv

\* The rows a round found make their first columns reach a vertex more.
LEMMA NextRoundRounds ==
  ASSUME Inv, RoundInv, NextRound PROVE RoundInv'
<1>1. /\ pc = "join" /\ next_store # {} /\ next_store' = {}
      /\ current_store' = next_store /\ seen_edges' = seen_edges
      /\ iterations_count' = iterations_count + 1
  BY DEF NextRound, EndOfRound
<1>2. /\ next_store \subseteq seen_edges /\ next_store \subseteq Rows
      /\ iterations_count \in Int
  BY DEF Inv, Pending, TypeOK
<1>3. ASSUME NEW r \in next_store
      PROVE  /\ iterations_count + 1 <= Cardinality(Reached(r[1])')
             /\ iterations_count + 1 <= Cardinality(Vertices)
  <2>1. r = <<r[1], r[2]>> /\ r[2] \in Vertices
    BY <1>2 DEF Rows
  <2>2. r[2] \notin Reached(r[1])
    BY <2>1 DEF Reached
  <2>3. Reached(r[1]) \cup {r[2]} \subseteq Reached(r[1])'
    <3>1. r[2] \in Reached(r[1])'
      BY <1>1, <1>2, <2>1 DEF Reached
    <3>2. Reached(r[1]) \subseteq Reached(r[1])'
      BY <1>1 DEF Reached
    <3> QED BY <3>1, <3>2
  <2>4. /\ IsFiniteSet(Reached(r[1])) /\ Cardinality(Reached(r[1])) \in Nat
        /\ Cardinality(Vertices) \in Nat
    BY ReachedFinite
  <2>5. /\ Reached(r[1])' \subseteq Vertices /\ IsFiniteSet(Reached(r[1])')
        /\ Cardinality(Reached(r[1])') \in Nat
    BY ReachedFiniteNext
  <2>6. Cardinality(Reached(r[1]) \cup {r[2]}) = Cardinality(Reached(r[1])) + 1
    BY <2>2, <2>4, FS_AddElement
  <2>7. Cardinality(Reached(r[1]) \cup {r[2]}) <= Cardinality(Reached(r[1])')
    BY <2>3, <2>5, FS_Subset
  <2>8. Cardinality(Reached(r[1])') <= Cardinality(Vertices)
    BY <2>5, ConstantsAssumption, FS_Subset
  <2>9. iterations_count <= Cardinality(Reached(r[1]))
    BY <1>1 DEF RoundInv
  <2> QED BY <1>2, <2>4, <2>5, <2>6, <2>7, <2>8, <2>9
<1>4. PICK r \in next_store : TRUE
  BY <1>1
<1>5. iterations_count' <= Cardinality(Vertices)
  BY <1>1, <1>3, <1>4
<1>6. \A q \in (current_store \cup next_store)' :
        iterations_count' <= Cardinality(Reached(q[1])')
  BY <1>1, <1>3
<1> QED BY <1>5, <1>6 DEF RoundInv

\* Outside a computation, and at its last step, no round is counted.
LEMMA OtherRounds ==
  ASSUME RoundInv, iterations_count' = iterations_count, pc' # "join"
  PROVE  RoundInv'
BY DEF RoundInv

LEMMA RoundStep ==
  ASSUME Vertices # {}, Inv, RoundInv, [Next]_vars PROVE RoundInv'
<1>1. CASE BeginEager
  BY <1>1, OtherRounds DEF BeginEager, Compute
<1>2. CASE BeginLazy
  BY <1>2, OtherRounds DEF BeginLazy
<1>3. CASE \E v \in Vertices : GetNeighbors(v)
  BY <1>3, OtherRounds DEF GetNeighbors, Compute
<1>4. CASE Collect
  BY <1>4, CollectRounds
<1>5. CASE JoinRow
  BY <1>5, JoinRowRounds
<1>6. CASE FixPoint
  BY <1>6, OtherRounds DEF FixPoint
<1>7. CASE NextRound
  BY <1>7, NextRoundRounds
<1>8. CASE UNCHANGED vars
  BY <1>8 DEF RoundInv, Reached, vars
<1> QED BY <1>1, <1>2, <1>3, <1>4, <1>5, <1>6, <1>7, <1>8 DEF Next

\* A computation takes at most one round per vertex, for every graph: each
\* round reaches a vertex more from the first column of every row under way.
THEOREM RoundsBounded ==
  ASSUME Vertices # {} PROVE Spec => []RoundsAreBounded
<1>1. Init => RoundInv
  <2>1. Cardinality(Vertices) \in Nat
    BY ConstantsAssumption, FS_CardinalityType
  <2> QED BY <2>1 DEF Init, RoundInv
<1>2. Inv /\ RoundInv /\ [Next]_vars => RoundInv'
  BY RoundStep
<1>3. RoundInv => RoundsAreBounded
  BY DEF RoundInv, RoundsAreBounded
<1> QED BY <1>1, <1>2, <1>3, Invariance, PTL DEF Spec

\* The safety limit of compute_fix_point never ends a computation on a graph
\* with no more vertices than the limit: there the answer is always whole.
THEOREM LimitNeverCuts ==
  ASSUME Vertices # {}, Cardinality(Vertices) <= MaxIterations
  PROVE  Spec => []~cut
<1>1. Init => RoundInv /\ ~cut
  <2>1. Cardinality(Vertices) \in Nat
    BY ConstantsAssumption, FS_CardinalityType
  <2> QED BY <2>1 DEF Init, RoundInv
<1>2. Inv /\ (RoundInv /\ ~cut) /\ [Next]_vars => (RoundInv /\ ~cut)'
  <2> SUFFICES ASSUME Inv, RoundInv, ~cut, [Next]_vars PROVE RoundInv' /\ ~cut'
    OBVIOUS
  <2>1. RoundInv'
    BY RoundStep
  <2>2. CASE NextRound
    <3>1. iterations_count' = iterations_count + 1 /\ iterations_count \in Int
      BY <2>2 DEF NextRound, Inv, TypeOK
    <3>2. iterations_count' <= MaxIterations /\ MaxIterations \in Int
      <4>1. iterations_count' <= Cardinality(Vertices) /\ Cardinality(Vertices) \in Nat
        BY <2>1, ConstantsAssumption, FS_CardinalityType DEF RoundInv
      <4> QED BY <3>1, <4>1, ConstantsAssumption
    <3>3. ~Limit
      BY <3>1, <3>2 DEF Limit
    <3> QED BY <2>1, <2>2, <3>3 DEF NextRound
  <2>3. CASE ~NextRound
    BY <2>1, <2>3 DEF Next, vars, BeginEager, BeginLazy, GetNeighbors, Collect, JoinRow, FixPoint
  <2> QED BY <2>2, <2>3
<1> QED BY <1>1, <1>2, Invariance, PTL DEF Spec

=============================================================================
