----------------------------- MODULE PathPlans -----------------------------
(***************************************************************************)
(* From a regular path expression to its pairs of vertices: what the       *)
(* parser keeps of it, the tree of custom operators that CustomPlanner     *)
(* makes (rpq_preprocess, kleene_planning, dp for the elements of a        *)
(* sequence), and the rows that the scans and the operators Union, TI      *)
(* two-way and KC compute, all at once or vertex by vertex.                *)
(*                                                                         *)
(* Every node of a plan has two columns, and every expression two plans:   *)
(* slot 1 from subject to object, slot 2 back.  Costs are abstracted: the  *)
(* dynamic program may keep any of the plans it compares.  Stores are sets *)
(* of rows, since all that depends on the order of a hash table is which   *)
(* rows a lazy union meets early (Met).  The closure itself is the module  *)
(* KleeneClosure; here it is the closure of the rows its child lets it see.*)
(*                                                                         *)
(* The root is the operator that the rest of the query uses: eager as the  *)
(* leftmost operand of a plan, lazy as an operand that TI intersects.      *)
(***************************************************************************)
EXTENDS Integers, Sequences, FiniteSets, SequencesExt

CONSTANTS
  Vertices,
  Free,          \* an end that is a variable
  Labels,
  Cases          \* pairs of a written expression and a graph

VARIABLES
  written,       \* the expression in the query
  graph,         \* the edges of each label
  src, dst,      \* the ends of the pattern
  pc,
  plan,
  store,         \* rows in the store of the root
  computed,      \* computed_vertices of a lazy root
  given          \* history: what get_neighbors returned for each vertex

vars == <<written, graph, src, dst, pc, plan, store, computed, given>>
patternVars == <<written, graph, src, dst>>

-----------------------------------------------------------------------------
(* Expressions: an operator and its operands.  An atom has a label and a   *)
(* direction.                                                              *)

Atom(l, inv) == [op |-> "atom", kids |-> <<>>, label |-> l, inverse |-> inv]
Expr(op, kids) == [op |-> op, kids |-> kids, label |-> "", inverse |-> FALSE]

RECURSIVE Nullable(_)
Nullable(e) ==
  CASE e.op = "alt" -> \E i \in DOMAIN e.kids : Nullable(e.kids[i])
    [] e.op = "seq" -> \A i \in DOMAIN e.kids : Nullable(e.kids[i])
    [] OTHER -> e.op \in {"opt", "star"}

\* PathDenull: the operand of a star without its own empty path.
RECURSIVE Denull(_)
Denull(e) ==
  CASE e.op \in {"opt", "star"} -> e.kids[1]
    [] e.op \in {"alt", "seq"} /\ Nullable(e) ->
         Expr("alt", [i \in DOMAIN e.kids |-> Denull(e.kids[i])])
    [] OTHER -> e

\* The visitor of the grammar.  "inv" turns sequences and atoms around.
RECURSIVE Parse(_, _)
Parse(e, inv) ==
  LET kids == [i \in DOMAIN e.kids |->
                 Parse(e.kids[IF inv /\ e.op = "seq" THEN Len(e.kids) + 1 - i ELSE i],
                       IF e.op = "inv" THEN ~inv ELSE inv)]
  IN  CASE e.op = "atom" -> Atom(e.label, inv)
        [] e.op = "inv" -> kids[1]
        [] e.op = "opt" /\ Nullable(kids[1]) -> kids[1]
        [] e.op = "star" -> Expr("star", <<Denull(kids[1])>>)
        [] OTHER -> Expr(e.op, kids)

path == Parse(written, FALSE)

\* PathDenull has no case of its own for a plus: it calls itself for ever.
RECURSIVE DenullReturns(_), ParseReturns(_)
DenullReturns(e) ==
  /\ e.op # "plus"
  /\ e.op \in {"alt", "seq"} /\ Nullable(e) => \A i \in DOMAIN e.kids : DenullReturns(e.kids[i])
ParseReturns(e) ==
  /\ \A i \in DOMAIN e.kids : ParseReturns(e.kids[i])
  /\ e.op = "star" => DenullReturns(Parse(e.kids[1], FALSE))

-----------------------------------------------------------------------------
(* Plans.  c1 and c2 are the constants of the columns; back says that the  *)
(* first column is the object; eps is Plan::epsilon, own the second        *)
(* epsilon that TITwoWayOperatorPlan declares; reverse tells POS from PSO. *)

Node(op, kids, c1, c2) ==
  [op |-> op, kids |-> kids, c1 |-> c1, c2 |-> c2, back |-> FALSE, eps |-> FALSE,
   own |-> FALSE, lazy |-> FALSE, label |-> "", reverse |-> FALSE]

\* create_atom_plan.
AtomPlan(e, s, d, t) ==
  [Node("scan", <<>>, IF t = 1 THEN s ELSE d, IF t = 1 THEN d ELSE s)
     EXCEPT !.label = e.label, !.reverse = e.inverse # (t = 2), !.back = (t = 2)]

\* create_btree_plan: an atom in a sequence is a triple from its own subject,
\* so slot 1 of an inverse atom runs against the sequence.
TriplePlan(e, s, d, t) ==
  LET back == e.inverse # (t = 2)
  IN  [Node("scan", <<>>, IF back THEN d ELSE s, IF back THEN s ELSE d)
         EXCEPT !.label = e.label, !.reverse = (t = 2), !.back = back]

\* One plan from each of a sequence of sets of plans.
OneOfEach(S) ==
  FoldLeft(LAMBDA chosen, plans : {Append(c, p) : c \in chosen, p \in plans}, {<<>>}, S)

\* The two-way joins that dp makes of the plans L and R of neighbouring parts
\* of a sequence.  Left operands end, and right operands begin, in the
\* variable between the parts; later says that the left operand is the later
\* part.
Joins(L, R, later) ==
  {[Node("join", <<l, r>>, l.c1, r.c2) EXCEPT !.back = later, !.own = l.eps /\ r.eps] :
     l \in {x \in L : x.back = later /\ x.c2 = Free},
     r \in {x \in R : x.back = later /\ x.c1 = Free}}

\* rpq_preprocess: the plans that slot t may hold.
RECURSIVE Plans(_, _, _, _), Part(_, _, _, _, _, _)
Plans(e, s, d, t) ==
  LET c1 == IF t = 1 THEN s ELSE d
      c2 == IF t = 1 THEN d ELSE s
      alternatives == [i \in DOMAIN e.kids |-> Plans(e.kids[i], s, d, t)]
  IN  CASE e.op = "atom" -> {AtomPlan(e, s, d, t)}
        [] e.op = "opt" -> {[p EXCEPT !.eps = TRUE] : p \in Plans(e.kids[1], s, d, t)}
        [] e.op = "alt" -> {[Node("union", ks, c1, c2) EXCEPT !.back = (t = 2)] :
                              ks \in OneOfEach(alternatives)}
        [] e.op = "seq" -> Part(e.kids, 1, Len(e.kids), s, d, t)
        \* kleene_planning: the child has variables of its own where the
        \* closure has a constant, and is lazy below a constant first column.
        [] e.op \in {"plus", "star"} ->
             {[Node("closure", <<[p EXCEPT !.lazy = c1 # Free]>>, c1, c2)
                 EXCEPT !.back = (t = 2), !.eps = (e.op = "star")] :
                p \in Plans(e.kids[1], Free, Free, t)}

\* dp over a path: the plans of elements i to j in slot t.  Left operands are
\* at least as large as right ones; a slot 1 without a plan ends the loop over
\* the slots of an operand.
Part(es, i, j, s, d, t) ==
  LET begin == IF i = 1 THEN s ELSE Free
      end == IF j = Len(es) THEN d ELSE Free
      Slot(a, b, u) == Part(es, a, b, s, d, u)
      Left(a, b) == IF Slot(a, b, 1) = {} THEN {} ELSE Slot(a, b, t)
      Right(a, b) == IF Slot(a, b, 1) = {} THEN {} ELSE Slot(a, b, 1) \cup Slot(a, b, 2)
  IN  IF i = j
        THEN IF es[i].op = "atom" THEN {TriplePlan(es[i], begin, end, t)}
                                  ELSE Plans(es[i], begin, end, t)
        ELSE UNION {(IF k - i + 1 >= j - k THEN Joins(Left(i, k), Right(k + 1, j), FALSE)
                                           ELSE {})
                    \cup (IF j - k >= k - i + 1 THEN Joins(Left(k + 1, j), Right(i, k), TRUE)
                                                ELSE {}) : k \in i .. j - 1}

-----------------------------------------------------------------------------
(* Rows.                                                                   *)

From(R, v) == {r \in R : r[1] = v}
Targets(R) == {r[2] : r \in R}
Converse(R) == {<<r[2], r[1]>> : r \in R}

\* The rows of R that agree with the constants of n.
Agree(n, R) == {r \in R : n.c1 \in {Free, r[1]} /\ n.c2 \in {Free, r[2]}}

\* get_epsilon of the iterator: the union is never told, and a join is by its
\* own flag or when both operands have the empty path.
RECURSIVE Epsilon(_)
Epsilon(n) ==
  CASE n.op \in {"scan", "closure"} -> n.eps
    [] n.op = "union" -> FALSE
    [] n.op = "join" -> n.own \/ (Epsilon(n.kids[1]) /\ Epsilon(n.kids[2]))

Edges(n) == IF n.reverse THEN Converse(graph[n.label]) ELSE graph[n.label]

\* Children whose constant differs from the union's are skipped.
Differ(n, k) == \/ n.c1 # Free /\ k.c1 # Free /\ n.c1 # k.c1
                \/ n.c2 # Free /\ k.c2 # Free /\ n.c2 # k.c2

\* The vertices that the rounds of a closure reach from v, where Step(u) are
\* the targets that its child shows for u.
RECURSIVE Reach(_, _)
Reach(Step(_), seen) ==
  LET more == seen \cup UNION {Step(u) : u \in seen}
  IN  IF more = seen THEN seen ELSE Reach(Step, more)

RECURSIVE Rows(_), Sought(_, _)

\* What next() delivers after begin() of an eager node.
UnionRows(n) ==
  FoldLeft(LAMBDA found, k :
             IF Differ(n, k) THEN found
             ELSE LET new == Agree(n, Rows(k)) \ found
                      empty == {<<r[1], r[1]>> : r \in {x \in new : k.c2 \in {Free, x[1]}}}
                  IN  found \cup new \cup (IF Epsilon(k) THEN empty ELSE {})
                            \cup (IF k.c2 # Free THEN {<<k.c2, k.c2>>} ELSE {}),
           {}, n.kids)

\* get_neighbors of an eager operand.
Neighbors(n, v) == {w \in Targets(From(IF n.op = "scan" THEN Edges(n) ELSE Rows(n), v)) :
                      n.c2 \in {Free, w}}

MutEmptyLeft(n, l, r) == {}
EmptyLeft(n, l, r) ==
  IF Epsilon(l) THEN {p \in Rows(r) : n.c1 \in {Free, p[1]}} ELSE {}
EmptyRight(l, r) ==
  IF Epsilon(r) THEN {p \in Rows(l) : r.c2 \in {Free, p[2]}} ELSE {}

JoinRows(n) ==
  LET l == n.kids[1]
      r == n.kids[2]
  IN  UNION {{<<p[1], w>> : w \in Neighbors(r, p[2])} : p \in Rows(l)}
        \cup EmptyLeft(n, l, r) \cup EmptyRight(l, r)

ClosureFrom(n, v) ==
  LET Step(u) == Targets(Sought(n.kids[1], u))
  IN  {<<v, w>> : w \in Reach(Step, Step(v))}

ClosureRows(n) == UNION {ClosureFrom(n, v) : v \in IF n.c1 = Free THEN Vertices ELSE {n.c1}}

Rows(n) ==
  Agree(n, CASE n.op = "scan" -> Edges(n)
             [] n.op = "union" -> UnionRows(n)
             [] n.op = "join" -> JoinRows(n)
             [] n.op = "closure" -> ClosureRows(n))

\* What a lazy union or join adds to its store for v, where no operand has
\* the empty path.
MutJoinVertex(n, v) ==
  UNION {{<<v, w>> : w \in Neighbors(n.kids[2], p[2])} : p \in Rows(n.kids[1])}
JoinVertex(n, v) ==
  UNION {{<<v, w>> : w \in Neighbors(n.kids[2], p[2])} : p \in From(Rows(n.kids[1]), v)}

UnionVertex(n, v) ==
  UNION {IF Differ(n, n.kids[i]) THEN {} ELSE Agree(n, From(Rows(n.kids[i]), v)) :
           i \in DOMAIN n.kids}

OfVertex(n, v) ==
  CASE n.op = "scan" -> From(Agree(n, Edges(n)), v)
    [] n.op = "closure" -> Agree(n, ClosureFrom(n, v))
    [] n.c1 \notin {Free, v} -> {}
    [] n.op = "union" -> UnionVertex(n, v)
    [] n.op = "join" -> JoinVertex(n, v)

\* Rows of other vertices that a lazy union may take along: a child with a
\* constant second column is read from v on, and its rows are not compared
\* with v.
Met(n, v) ==
  IF n.op # "union" THEN {}
  ELSE UNION {IF n.kids[i].c2 # Free /\ n.kids[i].op # "scan" THEN Rows(n.kids[i]) ELSE {} :
                i \in DOMAIN n.kids}

\* What a closure sees after seek_to_vertex(v) in its child.  A lazy union or
\* join computes the rows of v; a lazy closure inherits the seek of a store.
Sought(n, v) ==
  CASE ~n.lazy -> From(Rows(n), v)
    [] n.lazy /\ n.op = "closure" -> {}
    [] OTHER -> OfVertex(n, v)

-----------------------------------------------------------------------------
(* The root.                                                               *)

RECURSIVE Nodes(_)
Nodes(n) == {n} \cup UNION {Nodes(n.kids[i]) : i \in DOMAIN n.kids}

\* The lazy computations of union and join treat empty paths in a way of their
\* own (they read bindings that other operands wrote), which is not modelled.
Modelled(n) ==
  \A x \in Nodes(n) : x.lazy => \A y \in Nodes(x) : y = x \/ ~Epsilon(y)

Init ==
  /\ \E c \in Cases : written = c[1] /\ graph = c[2]
  /\ src \in Vertices \cup {Free} /\ dst \in Vertices \cup {Free}
  /\ src = Free \/ dst = Free
  /\ pc = "parse"
  /\ plan = Node("none", <<>>, Free, Free)
  /\ store = {} /\ computed = {}
  /\ given = [v \in Vertices |-> {}]

\* Slots without a plan make dp copy a null pointer; with both, either may be
\* used.  TI makes lazy the plan whose first column is not a constant.
MakePlan ==
  /\ pc = "parse" /\ ParseReturns(written)
  /\ \A t \in 1 .. 2 : Plans(path, src, dst, t) # {}
  /\ \E t \in 1 .. 2, lazy \in BOOLEAN :
       /\ lazy => (IF t = 1 THEN src ELSE dst) = Free
       /\ \E p \in Plans(path, src, dst, t) : plan' = [p EXCEPT !.lazy = lazy]
  /\ Modelled(plan')
  /\ pc' = "planned"
  /\ UNCHANGED <<patternVars, store, computed, given>>

\* begin(): an eager operator computes all its rows.
Begin ==
  /\ pc = "planned"
  /\ store' = IF plan.lazy THEN {} ELSE Rows(plan)
  /\ pc' = "begun"
  /\ UNCHANGED <<patternVars, plan, computed, given>>

\* get_neighbors of a lazy root, the first time and later.
Compute(v) ==
  \E met \in SUBSET Met(plan, v) : store' = store \cup OfVertex(plan, v) \cup met

GetNeighbors(v) ==
  /\ pc = "begun" /\ plan.lazy
  /\ IF v \in computed
       THEN UNCHANGED <<store, computed>>
       ELSE Compute(v) /\ computed' = computed \cup {v}
  /\ given' = [given EXCEPT ![v] = {w \in Targets(From(store', v)) : plan.c2 \in {Free, w}}]
  /\ UNCHANGED <<patternVars, pc, plan>>

Next == MakePlan \/ Begin \/ \E v \in Vertices : GetNeighbors(v)

Spec == Init /\ [][Next]_vars

-----------------------------------------------------------------------------
(* What an expression means.                                               *)

Id == {<<v, v>> : v \in Vertices}
Compose(R, S) == {<<p[1][1], p[2][2]>> : p \in {x \in R \X S : x[1][2] = x[2][1]}}
Transitive(R) ==
  FoldLeft(LAMBDA T, v : T \cup {<<p[1][1], p[2][2]>> :
                                    p \in {x \in T \X T : x[1][2] = v /\ x[2][1] = v}},
           R, SetToSeq(Vertices))

RECURSIVE Meaning(_)
Meaning(e) ==
  LET kids == [i \in DOMAIN e.kids |-> Meaning(e.kids[i])]
  IN  CASE e.op = "atom" -> graph[e.label]
        [] e.op = "inv"  -> Converse(kids[1])
        [] e.op = "alt"  -> UNION {kids[i] : i \in DOMAIN kids}
        [] e.op = "seq"  -> FoldLeft(Compose, Id, kids)
        [] e.op = "opt"  -> kids[1] \cup Id
        [] e.op = "plus" -> Transitive(kids[1])
        [] e.op = "star" -> Transitive(kids[1]) \cup Id

BetweenEnds(R) == {r \in R : src \in {Free, r[1]} /\ dst \in {Free, r[2]}}
Expected == BetweenEnds(Meaning(written))

\* The rows of the root from subject to object, and with its empty path.
Forward(R) == IF plan.back THEN Converse(R) ELSE R
Answer == Forward(store) \cup (IF Epsilon(plan) THEN BetweenEnds(Id) ELSE {})

-----------------------------------------------------------------------------
(* Properties.  Three forms of plans are known not to mean their expression *)
(* (README, section 6) and are left out of each.                            *)

\* A whole union with a constant second column adds the constant to itself.
ConstantUnion(n) ==
  /\ n.op = "union" /\ ~n.lazy /\ n.c2 # Free
  /\ \E i \in DOMAIN n.kids : n.kids[i].c2 # Free

\* A closure with a constant cannot see the rows of a closure below it.
BlindClosure(n) == n.op = "closure" /\ n.kids[1].op = "closure" /\ n.kids[1].lazy

\* A sequence of inverse atoms has its plans in the wrong slots, which a union
\* or a closure above it does not notice.
TurnedChild(n) ==
  n.op \in {"union", "closure"} /\ \E i \in DOMAIN n.kids : n.kids[i].back # n.back

Regular ==
  \A n \in Nodes(plan) : ~ConstantUnion(n) /\ ~BlindClosure(n) /\ ~TurnedChild(n)

\* Expressions whose empty path no operator loses: a union ignores the one of
\* a child that has no row of its own, a closure that of its child, and an
\* optional union or sequence is never told that it is optional.
RECURSIVE KeepsEmptyPath(_)
KeepsEmptyPath(e) ==
  /\ \A i \in DOMAIN e.kids : KeepsEmptyPath(e.kids[i])
  /\ e.op = "alt" => ~Nullable(e)
  /\ e.op = "plus" => ~Nullable(e.kids[1])
  /\ e.op = "opt" => e.kids[1].op \notin {"alt", "seq"}

\* The rows of an eager plan, with the empty path where the plan has it, are
\* the pairs of the expression in the query: the parser's rewriting, the slots
\* and every order of joins that the planner may choose keep its meaning; where
\* empty paths get lost a plan may miss pairs but invents none.
EagerIsExact ==
  pc = "begun" /\ ~plan.lazy /\ Regular =>
    /\ Answer \subseteq Expected
    /\ KeepsEmptyPath(path) => Answer = Expected

\* A lazy plan answers for each vertex with all its pairs, whichever vertices
\* were asked for before and whatever rows came along with theirs; where empty
\* paths get lost, with no other pairs.
LazyIsExact ==
  pc = "begun" /\ plan.lazy /\ Regular =>
    /\ Answer \subseteq Expected
    /\ \A v \in computed :
         LET answer == given[v] \cup Targets(From(Forward(Answer) \cap Id, v))
             expected == Targets(From(Forward(Expected), v))
         IN  /\ answer \subseteq expected
             /\ KeepsEmptyPath(path) => answer = expected
=============================================================================
