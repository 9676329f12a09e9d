--------------------------- MODULE BPlusTree_proofs ---------------------------
(***************************************************************************)
(* Proofs about the B+tree.                                                *)
(*                                                                         *)
(* The invariant says which records each page stands for.  D gives every   *)
(* directory and L every leaf the set of the records that a search takes   *)
(* there, and H every directory its height.  In a Tree these sets follow   *)
(* the keys (Routes and Exact: a record of a directory's set is in that of *)
(* the child its keys choose, and in no other), pages of one level have    *)
(* disjoint sets (Apart), and all leaves are at one depth (Levels).  While *)
(* a split is on its way up one page has no parent yet: w names the        *)
(* directory that will own it (Owned).  Chained puts the leaves in the     *)
(* order of their sets along next_leaf.  None of the sets is a variable of *)
(* the program: the invariant says that some fit (Grows).                  *)
(*                                                                         *)
(* The recursive functions of the searches and of the scan are chosen by   *)
(* their equation, so each has a lemma that the equation has a solution    *)
(* (an interval that shrinks, a height that falls, positions that remain), *)
(* and is then followed by induction over that number (AllNumbers).        *)
(***************************************************************************)
EXTENDS BPlusTree, FiniteSetTheorems, SequenceTheorems, WellFoundedInduction, TLAPS

-----------------------------------------------------------------------------
(* The searches in a page.                                                 *)

\* A set of numbers with zero and with the successors of its members.
LEMMA AllNumbers ==
  ASSUME NEW K, 0 \in K, \A n \in Nat : n \in K => n + 1 \in K
  PROVE  \A n \in Nat : n \in K
<1> DEFINE R == {ss \in Nat \X Nat : ss[1] < ss[2]}
           T == Nat \ K
<1>1. IsWellFoundedOn(R, Nat)
  BY NatLessThanWellFounded DEF OpToRel
<1>2. ASSUME T # {} PROVE FALSE
  <2>1. \E x \in T : \A y \in T : <<y, x>> \notin R
    <3>1. T \subseteq Nat
      OBVIOUS
    <3> HIDE DEF R, T
    <3> QED BY <1>1, <1>2, <3>1, WFMin
  <2>2. PICK x \in Nat : x \notin K /\ \A y \in Nat : y \notin K => ~(y < x)
    BY <2>1
  <2>3. x # 0 /\ x - 1 \in Nat /\ x - 1 < x
    BY <2>2
  <2>4. x - 1 \in K
    BY <2>2, <2>3
  <2>5. (x - 1) + 1 \in K
    BY <2>3, <2>4
  <2> QED BY <2>2, <2>5
<1> QED BY <1>2

\* The recursive function of search_index, step by step.
Bounds == (0 .. LeafMax) \X (-1 .. LeafMax)

LeafStep(l, r, f, b) ==
  LET from == b[1]
      to == b[2]
      middle == (from + to) \div 2
  IN  IF from < to
        THEN IF r < l.records[middle] THEN f[<<from, middle - 1>>]
             ELSE IF r > l.records[middle] THEN f[<<middle + 1, to>>]
             ELSE middle
        ELSE IF r <= l.records[from] THEN from ELSE from + 1

LeafBisect(l, r) == CHOOSE f : f = [b \in Bounds |-> LeafStep(l, r, f, b)]

\* The function that SearchIndex chooses solves its recursive equation: the
\* interval shrinks.
LEMMA LeafBisectStep ==
  ASSUME NEW l, NEW r, NEW b \in Bounds
  PROVE  LeafBisect(l, r)[b] = LeafStep(l, r, LeafBisect(l, r), b)
<1> DEFINE size(c) == c[2] - c[1]
           Solves(f, k) == \A c \in Bounds : size(c) < k => f[c] = LeafStep(l, r, f, c)
           K == {k \in Nat : \E f : Solves(f, k)}
<1>1. ASSUME NEW f, NEW g, NEW c \in Bounds,
             \A e \in Bounds : size(e) < size(c) => f[e] = g[e]
      PROVE  LeafStep(l, r, f, c) = LeafStep(l, r, g, c)
  <2> DEFINE from == c[1]
             to == c[2]
             middle == (from + to) \div 2
  <2>1. from \in 0 .. LeafMax /\ to \in -1 .. LeafMax /\ LeafMax \in Nat
    BY ConstantsAssumption DEF Bounds
  <2>2. ASSUME from < to
        PROVE  f[<<from, middle - 1>>] = g[<<from, middle - 1>>]
               /\ f[<<middle + 1, to>>] = g[<<middle + 1, to>>]
    <3>1. middle \in Int /\ from <= middle /\ middle < to
      BY <2>1, <2>2
    <3> HIDE DEF from, to, middle
    <3>2. <<from, middle - 1>> \in Bounds /\ <<middle + 1, to>> \in Bounds
      BY <2>1, <3>1 DEF Bounds
    <3>3. middle - 1 - from < to - from /\ to - (middle + 1) < to - from
      BY <2>1, <3>1
    <3> QED BY <1>1, <3>2, <3>3 DEF from, to
  <2> QED BY <2>2 DEF LeafStep
<1>2. 0 \in K
  <2>1. ASSUME NEW c \in Bounds, size(c) < 0
        PROVE  LeafStep(l, r, [e \in Bounds |-> IF r <= l.records[e[1]] THEN e[1] ELSE e[1] + 1], c)
               = IF r <= l.records[c[1]] THEN c[1] ELSE c[1] + 1
    <3>1. ~(c[1] < c[2])
      BY <2>1 DEF Bounds
    <3> QED BY <3>1 DEF LeafStep
  <2>2. Solves([e \in Bounds |-> IF r <= l.records[e[1]] THEN e[1] ELSE e[1] + 1], 0)
    BY <2>1
  <2> QED BY <2>2
<1>3. ASSUME NEW k \in Nat, k \in K PROVE k + 1 \in K
  <2>1. PICK f : Solves(f, k)
    BY <1>3
  <2> DEFINE g == [c \in Bounds |-> IF size(c) < k THEN f[c] ELSE LeafStep(l, r, f, c)]
  <2>2. \A c \in Bounds : size(c) < k => g[c] = f[c]
    OBVIOUS
  <2>3. \A c \in Bounds : ~(size(c) < k) => g[c] = LeafStep(l, r, f, c)
    OBVIOUS
  <2> HIDE DEF g, LeafStep
  <2>4. ASSUME NEW c \in Bounds, size(c) < k + 1 PROVE g[c] = LeafStep(l, r, g, c)
    <3>1. size(c) \in Int
      BY DEF Bounds
    <3>2. \A e \in Bounds : size(e) < size(c) => f[e] = g[e]
      BY <2>2, <2>4, <3>1 DEF Bounds
    <3>3. LeafStep(l, r, f, c) = LeafStep(l, r, g, c)
      BY <1>1, <3>2
    <3> QED BY <2>1, <2>2, <2>3, <3>3
  <2>5. Solves(g, k + 1)
    BY <2>4
  <2> QED BY <2>5
<1>4. LeafMax + 2 \in K
  <2> HIDE DEF K
  <2>1. \A n \in Nat : n \in K
    BY <1>2, <1>3, AllNumbers
  <2> QED BY <2>1, ConstantsAssumption
<1>5. PICK f : Solves(f, LeafMax + 2)
  BY <1>4
<1> DEFINE g == [c \in Bounds |-> f[c]]
<1> HIDE DEF LeafStep
<1>6. ASSUME NEW c \in Bounds PROVE g[c] = LeafStep(l, r, g, c)
  <2>1. size(c) < LeafMax + 2 /\ size(c) \in Int
    BY ConstantsAssumption DEF Bounds
  <2>2. LeafStep(l, r, f, c) = LeafStep(l, r, g, c)
    BY <1>1
  <2> QED BY <1>5, <2>1, <2>2
<1>7. g = [c \in Bounds |-> LeafStep(l, r, g, c)]
  BY <1>6
<1> HIDE DEF g
<1>8. LeafBisect(l, r) = [c \in Bounds |-> LeafStep(l, r, LeafBisect(l, r), c)]
  BY <1>7 DEF LeafBisect
<1> QED BY <1>8

\* SearchIndex is that function on the whole leaf.
LEMMA SearchIndexBisects ==
  ASSUME NEW l, NEW r
  PROVE  SearchIndex(l, r) = LeafBisect(l, r)[<<0, l.value_count - 1>>]
BY DEF SearchIndex, LeafBisect, LeafStep, Bounds
\* search_index of a leaf: a position in it or the one after, and in a leaf with
\* records in order the first whose record is not smaller.
InOrder(l) ==
  \A i, j \in 0 .. l.value_count - 1 : i < j => l.records[i] < l.records[j]

Filled(l) == \A i \in 0 .. l.value_count - 1 : l.records[i] \in Records

\* search_index of a leaf with records returns a slot in use or the one after.
LEMMA SearchIndexRange ==
  ASSUME NEW l \in Leaf, NEW r, l.value_count # 0
  PROVE  SearchIndex(l, r) \in 0 .. l.value_count
<1> DEFINE n == l.value_count
           S == {b \in Bounds : b[1] <= n - 1 /\ b[2] <= n - 1}
           K == {k \in Nat : \A b \in S : b[2] - b[1] < k => LeafBisect(l, r)[b] \in 0 .. n}
<1>0. n \in 1 .. LeafMax /\ LeafMax \in Nat
  BY ConstantsAssumption DEF Leaf
<1> HIDE DEF n
<1>1. ASSUME NEW k \in Nat, NEW b \in S,
             \A c \in S : c[2] - c[1] < k => LeafBisect(l, r)[c] \in 0 .. n,
             b[2] - b[1] < k + 1
      PROVE  LeafBisect(l, r)[b] \in 0 .. n
  <2> DEFINE from == b[1]
             to == b[2]
             middle == (from + to) \div 2
             f == LeafBisect(l, r)
  <2>1. f[b] = LeafStep(l, r, f, b)
    BY LeafBisectStep
  <2>2. from \in 0 .. LeafMax /\ to \in -1 .. LeafMax /\ from <= n - 1 /\ to <= n - 1
    BY DEF Bounds
  <2>3. CASE ~(from < to)
    <3>1. f[b] = from \/ f[b] = from + 1
      BY <2>1, <2>3 DEF LeafStep
    <3> HIDE DEF f, from, to
    <3>2. f[b] \in 0 .. n
      BY <1>0, <2>2, <3>1
    <3> QED BY <3>2 DEF f
  <2>4. CASE from < to
    <3>1. middle \in Int /\ from <= middle /\ middle < to
      BY <2>2, <2>4
    <3>2. \/ f[b] = f[<<from, middle - 1>>] \/ f[b] = f[<<middle + 1, to>>] \/ f[b] = middle
      BY <2>1, <2>4 DEF LeafStep
    <3> HIDE DEF middle, f
    <3>3. <<from, middle - 1>> \in S /\ <<middle + 1, to>> \in S
      BY <1>0, <2>2, <3>1 DEF Bounds
    <3>4. (middle - 1) - from < k /\ to - (middle + 1) < k
      BY <1>1, <2>2, <3>1
    <3>5. f[<<from, middle - 1>>] \in 0 .. n /\ f[<<middle + 1, to>>] \in 0 .. n
      <4>1. /\ <<from, middle - 1>>[2] - <<from, middle - 1>>[1] < k
            /\ <<middle + 1, to>>[2] - <<middle + 1, to>>[1] < k
        BY <3>4
      <4> QED BY <1>1, <3>3, <4>1 DEF f
    <3>6. middle \in 0 .. n
      BY <1>0, <2>2, <3>1
    <3> QED BY <3>2, <3>5, <3>6 DEF f
  <2> QED BY <2>3, <2>4
<1>2. 0 \in K
  <2>1. ASSUME NEW b \in S, b[2] - b[1] < 0 PROVE LeafBisect(l, r)[b] \in 0 .. n
    <3> DEFINE f == LeafBisect(l, r)
    <3>1. f[b] = LeafStep(l, r, f, b)
      BY LeafBisectStep
    <3>2. b[1] \in 0 .. n - 1 /\ ~(b[1] < b[2])
      BY <1>0, <2>1 DEF Bounds
    <3>3. f[b] = b[1] \/ f[b] = b[1] + 1
      BY <3>1, <3>2 DEF LeafStep
    <3> HIDE DEF f
    <3>4. f[b] \in 0 .. n
      BY <1>0, <3>2, <3>3
    <3> QED BY <3>4 DEF f
  <2> QED BY <2>1
<1>3. \A k \in Nat : k \in K => k + 1 \in K
  <2> SUFFICES ASSUME NEW k \in Nat, k \in K PROVE k + 1 \in K
    OBVIOUS
  <2>1. \A c \in S : c[2] - c[1] < k => LeafBisect(l, r)[c] \in 0 .. n
    OBVIOUS
  <2>2. \A b \in S : b[2] - b[1] < k + 1 => LeafBisect(l, r)[b] \in 0 .. n
    BY <1>1, <2>1
  <2> QED BY <2>2
<1>4. n \in K
  <2> HIDE DEF K
  <2> QED BY <1>0, <1>2, <1>3, AllNumbers
<1>5. <<0, n - 1>> \in S /\ <<0, n - 1>>[2] - <<0, n - 1>>[1] < n
  BY <1>0 DEF Bounds
<1>6. LeafBisect(l, r)[<<0, n - 1>>] \in 0 .. n
  BY <1>4, <1>5
<1> QED BY <1>6, SearchIndexBisects DEF n

\* search_index of a leaf with records in order: before it are the records
\* smaller than r.
LEMMA SearchIndexExact ==
  ASSUME NEW l \in Leaf, NEW r \in Nat, l.value_count # 0, Filled(l), InOrder(l)
  PROVE  \A i \in 0 .. l.value_count - 1 : l.records[i] < r <=> i < SearchIndex(l, r)
<1> DEFINE n == l.value_count
           rec == l.records
           Right(x) == x \in Int /\ \A i \in 0 .. n - 1 : rec[i] < r <=> i < x
           S == {b \in Bounds : /\ b[1] <= n - 1 /\ b[2] <= n - 1
                                /\ \A i \in 0 .. n - 1 : i < b[1] => rec[i] < r
                                /\ \A i \in 0 .. n - 1 : i > b[2] => rec[i] > r}
           K == {k \in Nat : \A b \in S : b[2] - b[1] < k => Right(LeafBisect(l, r)[b])}
<1>0. /\ n \in 1 .. LeafMax /\ LeafMax \in Nat /\ Records \subseteq Nat
      /\ \A i \in 0 .. n - 1 : rec[i] \in Nat
      /\ \A i, j \in 0 .. n - 1 : i < j => rec[i] < rec[j]
  <2>1. n \in 1 .. LeafMax /\ LeafMax \in Nat
    BY ConstantsAssumption DEF Leaf
  <2>2. Records \subseteq Nat
    BY ConstantsAssumption
  <2>3. \A i \in 0 .. n - 1 : rec[i] \in Records
    BY DEF Filled
  <2>4. \A i, j \in 0 .. n - 1 : i < j => rec[i] < rec[j]
    BY DEF InOrder
  <2> QED BY <2>1, <2>2, <2>3, <2>4
<1> HIDE DEF n, rec
<1>1. ASSUME NEW b \in S, ~(b[1] < b[2]) PROVE Right(LeafBisect(l, r)[b])
  <2> DEFINE x == LeafBisect(l, r)[b]
             from == b[1]
             to == b[2]
  <2>1. x = LeafStep(l, r, LeafBisect(l, r), b)
    BY LeafBisectStep
  <2>2. from \in 0 .. n - 1 /\ to \in Int /\ ~(from < to)
    BY <1>0, <1>1 DEF Bounds
  <2>3. x = IF r <= rec[from] THEN from ELSE from + 1
    BY <1>1, <2>1 DEF LeafStep, rec
  <2>4. /\ \A i \in 0 .. n - 1 : i < from => rec[i] < r
        /\ \A i \in 0 .. n - 1 : i > to => rec[i] > r
    OBVIOUS
  <2> HIDE DEF x, from, to
  <2>5. ASSUME NEW i \in 0 .. n - 1 PROVE rec[i] < r <=> i < x
    <3>1. rec[i] \in Nat /\ rec[from] \in Nat /\ i \in Int
      BY <1>0, <2>2
    <3>2. CASE r <= rec[from]
      <4>1. from <= i => rec[from] <= rec[i]
        BY <1>0, <2>2, <3>1
      <4> QED BY <2>2, <2>3, <2>4, <3>1, <3>2, <4>1
    <3>3. CASE ~(r <= rec[from])
      <4>1. x = from + 1 /\ rec[from] < r
        BY <2>3, <3>1, <3>3
      <4>2. i > from => rec[i] > r
        BY <2>2, <2>4, <3>1
      <4>3. i < from => rec[i] < r
        BY <2>4
      <4>4. i = from \/ i < from \/ i > from
        BY <2>2, <3>1
      <4> QED BY <2>2, <3>1, <4>1, <4>2, <4>3, <4>4
    <3> QED BY <3>2, <3>3
  <2>6. x \in Int
    BY <2>2, <2>3
  <2> QED BY <2>5, <2>6 DEF x
<1>2. ASSUME NEW k \in Nat, NEW b \in S, b[1] < b[2],
             \A c \in S : c[2] - c[1] < k => Right(LeafBisect(l, r)[c]),
             b[2] - b[1] < k + 1
      PROVE  Right(LeafBisect(l, r)[b])
  <2> DEFINE from == b[1]
             to == b[2]
             middle == (from + to) \div 2
             f == LeafBisect(l, r)
  <2>1. f[b] = LeafStep(l, r, f, b)
    BY LeafBisectStep
  <2>2. from \in 0 .. LeafMax /\ to \in -1 .. LeafMax /\ from <= n - 1 /\ to <= n - 1 /\ from < to
    BY <1>2 DEF Bounds
  <2>3. middle \in Int /\ from <= middle /\ middle < to /\ middle \in 0 .. n - 1
    BY <1>0, <2>2
  <2>4. f[b] = IF r < rec[middle] THEN f[<<from, middle - 1>>]
               ELSE IF r > rec[middle] THEN f[<<middle + 1, to>>]
               ELSE middle
    BY <1>2, <2>1 DEF LeafStep, rec
  <2>5. /\ \A i \in 0 .. n - 1 : i < from => rec[i] < r
        /\ \A i \in 0 .. n - 1 : i > to => rec[i] > r
    OBVIOUS
  <2> HIDE DEF middle, f, from, to
  <2>6. rec[middle] \in Nat
    BY <1>0, <2>3
  <2>7. CASE r < rec[middle]
    <3> DEFINE c == <<from, middle - 1>>
    <3>1. \A i \in 0 .. n - 1 : i > middle - 1 => rec[i] > r
      <4> SUFFICES ASSUME NEW i \in 0 .. n - 1, i > middle - 1 PROVE rec[i] > r
        OBVIOUS
      <4>1. i = middle \/ (middle < i /\ rec[middle] < rec[i])
        BY <1>0, <2>3
      <4>2. rec[i] \in Nat
        BY <1>0
      <4> QED BY <2>6, <2>7, <4>1, <4>2
    <3>2. c \in Bounds /\ c[1] = from /\ c[2] = middle - 1
      BY <1>0, <2>2, <2>3 DEF Bounds
    <3>3. from <= n - 1 /\ middle - 1 <= n - 1 /\ (middle - 1) - from < k
      BY <1>0, <1>2, <2>2, <2>3 DEF from, to
    <3> HIDE DEF c
    <3>4. c \in S
      BY <2>5, <3>1, <3>2, <3>3
    <3>5. Right(f[c])
      BY <1>2, <3>2, <3>3, <3>4 DEF f
    <3>6. f[b] = f[c]
      BY <2>4, <2>7 DEF c
    <3> QED BY <3>5, <3>6 DEF f
  <2>8. CASE r > rec[middle]
    <3> DEFINE c == <<middle + 1, to>>
    <3>1. \A i \in 0 .. n - 1 : i < middle + 1 => rec[i] < r
      <4> SUFFICES ASSUME NEW i \in 0 .. n - 1, i < middle + 1 PROVE rec[i] < r
        OBVIOUS
      <4>1. i = middle \/ (i < middle /\ rec[i] < rec[middle])
        BY <1>0, <2>3
      <4>2. rec[i] \in Nat
        BY <1>0
      <4> QED BY <2>6, <2>8, <4>1, <4>2
    <3>2. c \in Bounds /\ c[1] = middle + 1 /\ c[2] = to
      BY <1>0, <2>2, <2>3 DEF Bounds
    <3>3. middle + 1 <= n - 1 /\ to <= n - 1 /\ to - (middle + 1) < k
      BY <1>0, <1>2, <2>2, <2>3 DEF from, to
    <3> HIDE DEF c
    <3>4. c \in S
      BY <2>5, <3>1, <3>2, <3>3
    <3>5. Right(f[c])
      BY <1>2, <3>2, <3>3, <3>4 DEF f
    <3>6. f[b] = f[c]
      <4>1. ~(r < rec[middle])
        BY <2>6, <2>8
      <4> QED BY <2>4, <2>8, <4>1 DEF c
    <3> QED BY <3>5, <3>6 DEF f
  <2>9. CASE r = rec[middle]
    <3>1. f[b] = middle
      BY <2>4, <2>6, <2>9
    <3>2. ASSUME NEW i \in 0 .. n - 1 PROVE rec[i] < r <=> i < middle
      <4>1. i < middle => rec[i] < rec[middle]
        BY <1>0, <2>3
      <4>2. middle < i => rec[middle] < rec[i]
        BY <1>0, <2>3
      <4>3. rec[i] \in Nat /\ i \in Int
        BY <1>0
      <4>4. i = middle => rec[i] = r
        BY <2>9
      <4> QED BY <2>3, <2>6, <2>9, <4>1, <4>2, <4>3, <4>4
    <3> QED BY <2>3, <3>1, <3>2 DEF f
  <2> QED BY <2>6, <2>7, <2>8, <2>9
<1> HIDE DEF Right, S
<1>3. \A b \in S : b[1] \in Int /\ b[2] \in Int
  BY DEF S, Bounds
<1>4. 0 \in K
  <2>1. ASSUME NEW b \in S, b[2] - b[1] < 0 PROVE ~(b[1] < b[2])
    BY <1>3, <2>1
  <2> QED BY <1>1, <2>1
<1>5. \A k \in Nat : k \in K => k + 1 \in K
  <2> SUFFICES ASSUME NEW k \in Nat, k \in K PROVE k + 1 \in K
    OBVIOUS
  <2>1. \A c \in S : c[2] - c[1] < k => Right(LeafBisect(l, r)[c])
    OBVIOUS
  <2>2. \A b \in S : b[2] - b[1] < k + 1 => Right(LeafBisect(l, r)[b])
    BY <1>1, <1>2, <2>1
  <2> QED BY <2>2
<1>6. n \in K
  <2> HIDE DEF K
  <2> QED BY <1>0, <1>4, <1>5, AllNumbers
<1>7. <<0, n - 1>> \in S /\ <<0, n - 1>>[2] - <<0, n - 1>>[1] < n
  BY <1>0 DEF Bounds, S
<1>8. Right(LeafBisect(l, r)[<<0, n - 1>>])
  BY <1>6, <1>7
<1> QED BY <1>8, SearchIndexBisects DEF n, rec, Right

\* The recursive function of search_child_index, in the same way.
DirBounds == (0 .. DirMax) \X (0 .. DirMax)

DirStep(d, r, f, b) ==
  LET from == b[1]
      to == b[2]
      middle == (from + to + 1) \div 2
  IN  IF from = to THEN from
      ELSE IF r < d.keys[middle] THEN f[<<from, middle - 1>>]
      ELSE f[<<middle, to>>]

DirBisect(d, r) == CHOOSE f : f = [b \in DirBounds |-> DirStep(d, r, f, b)]

\* The function that SearchChildIndex chooses solves its recursive equation.
LEMMA DirBisectStep ==
  ASSUME NEW d, NEW r, NEW b \in DirBounds
  PROVE  DirBisect(d, r)[b] = DirStep(d, r, DirBisect(d, r), b)
<1> DEFINE size(c) == c[2] - c[1]
           Solves(f, k) == /\ \A c \in DirBounds : size(c) < 0 => f[c] = 0
                           /\ \A c \in DirBounds :
                                size(c) \in 0 .. k - 1 => f[c] = DirStep(d, r, f, c)
           K == {k \in Nat : \E f : Solves(f, k)}
<1>0. \A c \in DirBounds : c[1] \in 0 .. DirMax /\ c[2] \in 0 .. DirMax /\ size(c) \in Int
  BY ConstantsAssumption DEF DirBounds
<1>1. ASSUME NEW c \in DirBounds
      PROVE  LET middle == (c[1] + c[2] + 1) \div 2
             IN  /\ c[1] < c[2] => /\ <<c[1], middle - 1>> \in DirBounds
                                   /\ <<middle, c[2]>> \in DirBounds
                                   /\ (middle - 1) - c[1] \in 0 .. size(c) - 1
                                   /\ c[2] - middle \in 0 .. size(c) - 1
                 /\ c[2] < c[1] => /\ <<c[1], middle - 1>> \in DirBounds
                                   /\ <<middle, c[2]>> \in DirBounds
                                   /\ (middle - 1) - c[1] < 0
                                   /\ c[2] - middle < 0
  <2> DEFINE from == c[1]
             to == c[2]
             middle == (from + to + 1) \div 2
  <2>1. from \in 0 .. DirMax /\ to \in 0 .. DirMax /\ DirMax \in Nat
    BY <1>0, ConstantsAssumption
  <2>2. /\ from < to => middle \in Int /\ from + 1 <= middle /\ middle <= to
        /\ to < from => middle \in Int /\ to + 1 <= middle /\ middle <= from
    BY <2>1
  <2> HIDE DEF from, to, middle
  <2>3. /\ from < to => /\ <<from, middle - 1>> \in DirBounds
                        /\ <<middle, to>> \in DirBounds
                        /\ (middle - 1) - from \in 0 .. (to - from) - 1
                        /\ to - middle \in 0 .. (to - from) - 1
        /\ to < from => /\ <<from, middle - 1>> \in DirBounds
                        /\ <<middle, to>> \in DirBounds
                        /\ (middle - 1) - from < 0
                        /\ to - middle < 0
    BY <2>1, <2>2 DEF DirBounds
  <2> QED BY <2>3 DEF from, to, middle
<1>2. ASSUME NEW f, NEW g, NEW c \in DirBounds, c[1] < c[2],
             \A e \in DirBounds : size(e) \in 0 .. size(c) - 1 => f[e] = g[e]
      PROVE  DirStep(d, r, f, c) = DirStep(d, r, g, c)
  <2> DEFINE middle == (c[1] + c[2] + 1) \div 2
  <2>1. /\ <<c[1], middle - 1>> \in DirBounds
        /\ <<middle, c[2]>> \in DirBounds
        /\ (middle - 1) - c[1] \in 0 .. size(c) - 1
        /\ c[2] - middle \in 0 .. size(c) - 1
    BY <1>1, <1>2
  <2> HIDE DEF middle
  <2>2. /\ f[<<c[1], middle - 1>>] = g[<<c[1], middle - 1>>]
        /\ f[<<middle, c[2]>>] = g[<<middle, c[2]>>]
    BY <1>2, <2>1
  <2> QED BY <2>2 DEF DirStep, middle
<1>3. 0 \in K
  <2>1. Solves([e \in DirBounds |-> 0], 0)
    OBVIOUS
  <2> QED BY <2>1
<1>4. ASSUME NEW k \in Nat, k \in K PROVE k + 1 \in K
  <2>1. PICK f : Solves(f, k)
    BY <1>4
  <2> DEFINE g == [c \in DirBounds |-> IF size(c) < k THEN f[c] ELSE DirStep(d, r, f, c)]
  <2>2. \A c \in DirBounds : size(c) < k => g[c] = f[c]
    OBVIOUS
  <2>3. \A c \in DirBounds : ~(size(c) < k) => g[c] = DirStep(d, r, f, c)
    OBVIOUS
  <2> HIDE DEF g, DirStep
  <2>4. ASSUME NEW c \in DirBounds, size(c) \in 0 .. (k + 1) - 1
        PROVE  g[c] = DirStep(d, r, g, c)
    <3>1. size(c) \in Int /\ size(c) < k + 1 /\ size(c) >= 0
      BY <2>4
    <3>2. DirStep(d, r, f, c) = DirStep(d, r, g, c)
      <4>1. CASE c[1] = c[2]
        BY <4>1 DEF DirStep
      <4>2. CASE c[1] # c[2]
        <5>1. c[1] < c[2]
          BY <1>0, <3>1, <4>2
        <5>2. \A e \in DirBounds : size(e) \in 0 .. size(c) - 1 => f[e] = g[e]
          BY <1>0, <2>2, <3>1
        <5> QED BY <1>2, <5>1, <5>2
      <4> QED BY <4>1, <4>2
    <3> QED BY <2>1, <2>2, <2>3, <3>1, <3>2
  <2>5. \A c \in DirBounds : size(c) < 0 => g[c] = 0
    BY <1>0, <2>1, <2>2
  <2>6. Solves(g, k + 1)
    BY <2>4, <2>5
  <2> QED BY <2>6
<1>5. DirMax + 1 \in K
  <2> HIDE DEF K
  <2>1. \A n \in Nat : n \in K
    BY <1>3, <1>4, AllNumbers
  <2> QED BY <2>1, ConstantsAssumption
<1>6. PICK f : Solves(f, DirMax + 1)
  BY <1>5
<1> DEFINE g == [c \in DirBounds |-> f[c]]
<1>7. ASSUME NEW c \in DirBounds PROVE g[c] = DirStep(d, r, g, c)
  <2>1. CASE c[2] < c[1]
    <3> DEFINE middle == (c[1] + c[2] + 1) \div 2
    <3>1. /\ <<c[1], middle - 1>> \in DirBounds
          /\ <<middle, c[2]>> \in DirBounds
          /\ (middle - 1) - c[1] < 0
          /\ c[2] - middle < 0
      BY <1>1, <2>1
    <3> HIDE DEF middle
    <3>2. f[<<c[1], middle - 1>>] = 0 /\ f[<<middle, c[2]>>] = 0
      BY <1>6, <3>1
    <3>3. f[c] = 0 /\ c[1] # c[2]
      BY <1>0, <1>6, <2>1
    <3>4. g[c] = 0 /\ g[<<c[1], middle - 1>>] = 0 /\ g[<<middle, c[2]>>] = 0
      BY <3>1, <3>2, <3>3
    <3> HIDE DEF g
    <3> QED BY <3>3, <3>4 DEF DirStep, middle
  <2>2. CASE ~(c[2] < c[1])
    <3>1. size(c) \in 0 .. (DirMax + 1) - 1
      BY <1>0, <2>2, ConstantsAssumption
    <3>2. DirStep(d, r, f, c) = DirStep(d, r, g, c)
      <4>1. CASE c[1] = c[2]
        BY <4>1 DEF DirStep
      <4>2. CASE c[1] # c[2]
        <5>1. c[1] < c[2]
          BY <1>0, <2>2, <4>2
        <5>2. \A e \in DirBounds : size(e) \in 0 .. size(c) - 1 => f[e] = g[e]
          OBVIOUS
        <5> HIDE DEF g
        <5> QED BY <1>2, <5>1, <5>2
      <4> QED BY <4>1, <4>2
    <3> HIDE DEF DirStep
    <3> QED BY <1>6, <3>1, <3>2
  <2> QED BY <2>1, <2>2
<1> HIDE DEF DirStep
<1>8. g = [c \in DirBounds |-> DirStep(d, r, g, c)]
  BY <1>7
<1> HIDE DEF g
<1>9. DirBisect(d, r) = [c \in DirBounds |-> DirStep(d, r, DirBisect(d, r), c)]
  BY <1>8 DEF DirBisect
<1> QED BY <1>9

\* SearchChildIndex is that function on the whole directory.
LEMMA SearchChildIndexBisects ==
  ASSUME NEW d, NEW r
  PROVE  SearchChildIndex(d, r) = DirBisect(d, r)[<<0, Len(d.keys)>>]
BY DEF SearchChildIndex, DirBisect, DirStep, DirBounds

\* search_child_index of a directory: a child between keys that enclose the record,
\* even if the keys were in no order.
LEMMA SearchChildIndexExact ==
  ASSUME NEW d, d.keys \in Seq(Nat), Len(d.keys) <= DirMax, NEW r \in Nat
  PROVE  /\ SearchChildIndex(d, r) \in 0 .. Len(d.keys)
         /\ SearchChildIndex(d, r) > 0 => d.keys[SearchChildIndex(d, r)] <= r
         /\ SearchChildIndex(d, r) < Len(d.keys) => r < d.keys[SearchChildIndex(d, r) + 1]
<1> DEFINE n == Len(d.keys)
           key == d.keys
           Right(x) == /\ x \in 0 .. n
                       /\ x > 0 => key[x] <= r
                       /\ x < n => r < key[x + 1]
           S == {b \in DirBounds : /\ b[1] <= b[2] /\ b[2] <= n
                                   /\ b[1] > 0 => key[b[1]] <= r
                                   /\ b[2] < n => r < key[b[2] + 1]}
           K == {k \in Nat : \A b \in S : b[2] - b[1] < k => Right(DirBisect(d, r)[b])}
<1>0. n \in 0 .. DirMax /\ DirMax \in Nat /\ \A i \in 1 .. n : key[i] \in Nat
  BY ConstantsAssumption
<1> HIDE DEF n, key
<1>1. ASSUME NEW k \in Nat, NEW b \in S,
             \A c \in S : c[2] - c[1] < k => Right(DirBisect(d, r)[c]),
             b[2] - b[1] < k + 1
      PROVE  Right(DirBisect(d, r)[b])
  <2> DEFINE from == b[1]
             to == b[2]
             middle == (from + to + 1) \div 2
             f == DirBisect(d, r)
  <2>1. f[b] = DirStep(d, r, f, b)
    BY DirBisectStep
  <2>2. /\ from \in 0 .. DirMax /\ to \in 0 .. DirMax /\ from <= to /\ to <= n
        /\ from > 0 => key[from] <= r
        /\ to < n => r < key[to + 1]
    BY <1>0 DEF DirBounds
  <2>3. CASE from = to
    <3>1. f[b] = from
      BY <2>1, <2>3 DEF DirStep
    <3>2. Right(from)
      BY <1>0, <2>2, <2>3
    <3> QED BY <3>1, <3>2
  <2>4. CASE from < to
    <3>1. middle \in Int /\ from + 1 <= middle /\ middle <= to
      BY <2>2, <2>4
    <3>2. f[b] = IF r < key[middle] THEN f[<<from, middle - 1>>] ELSE f[<<middle, to>>]
      <4>1. from # to
        BY <2>2, <2>4
      <4> QED BY <2>1, <4>1 DEF DirStep, key
    <3> HIDE DEF middle, f, from, to
    <3>3. key[middle] \in Nat
      BY <1>0, <2>2, <3>1
    <3>4. CASE r < key[middle]
      <4> DEFINE c == <<from, middle - 1>>
      <4>1. c \in DirBounds /\ c[1] = from /\ c[2] = middle - 1
        BY <1>0, <2>2, <3>1 DEF DirBounds
      <4>2. from <= middle - 1 /\ middle - 1 <= n /\ (middle - 1) + 1 = middle
        BY <1>0, <2>2, <3>1
      <4> HIDE DEF c
      <4>3. c \in S
        BY <2>2, <3>4, <4>1, <4>2
      <4>4. (middle - 1) - from < k
        BY <1>0, <1>1, <2>2, <3>1 DEF from, to
      <4>5. Right(f[c])
        BY <1>1, <4>1, <4>3, <4>4 DEF f
      <4> QED BY <3>2, <3>4, <4>5 DEF c, f
    <3>5. CASE ~(r < key[middle])
      <4> DEFINE c == <<middle, to>>
      <4>1. c \in DirBounds /\ c[1] = middle /\ c[2] = to
        BY <1>0, <2>2, <3>1 DEF DirBounds
      <4>2. key[middle] <= r
        BY <3>3, <3>5
      <4> HIDE DEF c
      <4>3. c \in S
        BY <2>2, <3>1, <4>1, <4>2
      <4>4. to - middle < k
        BY <1>0, <1>1, <2>2, <3>1 DEF from, to
      <4>5. Right(f[c])
        BY <1>1, <4>1, <4>3, <4>4 DEF f
      <4> QED BY <3>2, <3>5, <4>5 DEF c, f
    <3> QED BY <3>4, <3>5
  <2> QED BY <2>2, <2>3, <2>4
<1> HIDE DEF Right, S
<1>2. 0 \in K
  <2>1. ASSUME NEW b \in S, b[2] - b[1] < 0 PROVE FALSE
    BY <1>0, <2>1 DEF S, DirBounds
  <2> QED BY <2>1
<1>3. \A k \in Nat : k \in K => k + 1 \in K
  <2> SUFFICES ASSUME NEW k \in Nat, k \in K PROVE k + 1 \in K
    OBVIOUS
  <2>1. \A c \in S : c[2] - c[1] < k => Right(DirBisect(d, r)[c])
    OBVIOUS
  <2>2. \A b \in S : b[2] - b[1] < k + 1 => Right(DirBisect(d, r)[b])
    BY <1>1, <2>1
  <2> QED BY <2>2
<1>4. n + 1 \in K
  <2> HIDE DEF K
  <2>1. n + 1 \in Nat
    BY <1>0
  <2> QED BY <1>2, <1>3, <2>1, AllNumbers
<1>5. <<0, n>> \in S /\ <<0, n>>[2] - <<0, n>>[1] < n + 1
  BY <1>0 DEF DirBounds, S
<1>6. Right(DirBisect(d, r)[<<0, n>>])
  BY <1>4, <1>5
<1> QED BY <1>6, SearchChildIndexBisects DEF n, key, Right

-----------------------------------------------------------------------------
(* Files and sequences.                                                    *)

IsFile(f) == f = [p \in DOMAIN f |-> f[p]] /\ \E n \in Nat : DOMAIN f = 0 .. n - 1

\* The pages of a file are numbered from 0 and NewPage is the next number.
LEMMA FileFacts ==
  ASSUME NEW f, IsFile(f)
  PROVE  /\ NewPage(f) \in Nat /\ DOMAIN f = 0 .. NewPage(f) - 1
         /\ NewPage(f) \notin DOMAIN f
         /\ f # EmptyFile => 0 \in DOMAIN f /\ NewPage(f) > 0
         /\ f = EmptyFile => NewPage(f) = 0
<1>1. PICK n \in Nat : DOMAIN f = 0 .. n - 1
  BY DEF IsFile
<1>2. Cardinality(0 .. n - 1) = n
  <2>1. 0 \in Int /\ n - 1 \in Int
    OBVIOUS
  <2>2. Cardinality(0 .. n - 1) = IF 0 > n - 1 THEN 0 ELSE (n - 1) - 0 + 1
    BY <2>1, FS_Interval
  <2> QED BY <2>2
<1>3. NewPage(f) = n
  BY <1>1, <1>2 DEF NewPage
<1>4. ASSUME f # EmptyFile PROVE n > 0
  <2>1. CASE n = 0
    <3>1. DOMAIN f = {}
      BY <1>1, <2>1
    <3>2. f = << >>
      BY <3>1 DEF IsFile
    <3> QED BY <1>4, <3>2 DEF EmptyFile
  <2> QED BY <2>1
<1>5. ASSUME f = EmptyFile PROVE n = 0
  <2>1. DOMAIN f = {}
    BY <1>5 DEF EmptyFile
  <2>2. CASE n # 0
    <3>1. 0 \in 0 .. n - 1
      BY <2>2
    <3> QED BY <1>1, <2>1, <3>1
  <2> QED BY <2>2
<1> QED BY <1>1, <1>3, <1>4, <1>5

\* A file with one page more.
IsAppended(f, page, g) ==
  /\ IsFile(g) /\ NewPage(g) = NewPage(f) + 1 /\ g # EmptyFile
  /\ DOMAIN g = DOMAIN f \cup {NewPage(f)} /\ g[NewPage(f)] = page
  /\ \A p \in DOMAIN f : g[p] = f[p]

\* append_page adds one page and leaves the others.
LEMMA AppendedFile ==
  ASSUME NEW f, IsFile(f), NEW page
  PROVE  IsAppended(f, page, Appended(f, page))
<1> DEFINE g == Appended(f, page)
           n == NewPage(f)
<1>1. n \in Nat /\ DOMAIN f = 0 .. n - 1
  BY FileFacts
<1> HIDE DEF n
<1>2. g = [p \in 0 .. n |-> IF p = n THEN page ELSE f[p]]
  BY DEF Appended, n
<1>3. DOMAIN g = 0 .. n /\ \A p \in 0 .. n : g[p] = IF p = n THEN page ELSE f[p]
  BY <1>2
<1>4. g = [p \in DOMAIN g |-> g[p]]
  BY <1>2
<1> HIDE DEF g
<1>5. 0 .. n = 0 .. (n + 1) - 1 /\ n + 1 \in Nat /\ 0 .. n = (0 .. n - 1) \cup {n}
  BY <1>1
<1>6. IsFile(g)
  BY <1>3, <1>4, <1>5 DEF IsFile
<1>7. NewPage(g) = n + 1 /\ g # EmptyFile
  <2>1. NewPage(g) \in Nat /\ 0 .. n = 0 .. NewPage(g) - 1
    BY <1>3, <1>6, FileFacts
  <2>2. NewPage(g) = n + 1
    <3>1. n \in 0 .. NewPage(g) - 1
      BY <1>1, <2>1
    <3>2. NewPage(g) > n
      BY <1>1, <2>1, <3>1
    <3>3. NewPage(g) - 1 \in 0 .. n
      BY <1>1, <2>1, <3>2
    <3> QED BY <1>1, <2>1, <3>2, <3>3
  <2> QED BY <1>1, <1>6, <2>2, FileFacts
<1>8. \A p \in DOMAIN f : g[p] = f[p]
  BY <1>1, <1>3
<1>9. n \in DOMAIN g /\ g[n] = page /\ DOMAIN g = DOMAIN f \cup {n}
  BY <1>1, <1>3, <1>5
<1>10. IsAppended(f, page, g)
  BY <1>6, <1>7, <1>8, <1>9 DEF n, IsAppended
<1> QED BY <1>10 DEF g

\* Changing a page of a file leaves the others.
LEMMA ChangedFile ==
  ASSUME NEW f, IsFile(f), NEW p \in DOMAIN f, NEW page
  PROVE  LET g == [f EXCEPT ![p] = page]
         IN  /\ IsFile(g) /\ NewPage(g) = NewPage(f) /\ DOMAIN g = DOMAIN f
             /\ g[p] = page /\ \A q \in DOMAIN f : q # p => g[q] = f[q]
BY DEF IsFile, NewPage

\* w is s with x after its element i.
IsWith(T, s, i, x, w) ==
  /\ w \in Seq(T) /\ Len(w) = Len(s) + 1
  /\ \A j \in 1 .. i : w[j] = s[j]
  /\ w[i + 1] = x
  /\ \A j \in i + 2 .. Len(s) + 1 : w[j] = s[j - 1]

\* With puts x after the first i members and moves the others up.
LEMMA WithFacts ==
  ASSUME NEW T, NEW s \in Seq(T), NEW i \in 0 .. Len(s), NEW x \in T
  PROVE  IsWith(T, s, i, x, With(s, i, x))
<1> DEFINE a == SubSeq(s, 1, i)
           b == <<x>>
           c == SubSeq(s, i + 1, Len(s))
<1>0. Len(s) \in Nat /\ i \in Nat /\ i <= Len(s)
  OBVIOUS
<1>1. a \in Seq(T) /\ Len(a) = i /\ \A j \in 1 .. i : a[j] = s[j]
  <2>1. \A j \in 1 .. i : j \in 1 .. Len(s)
    BY <1>0
  <2> QED BY <1>0, <2>1, SubSeqProperties
<1>2. c \in Seq(T) /\ Len(c) = Len(s) - i /\ \A j \in 1 .. Len(s) - i : c[j] = s[i + j]
  <2>1. CASE i = Len(s)
    <3>1. c = <<>>
      BY <1>0, <2>1
    <3> QED BY <1>0, <2>1, <3>1
  <2>2. CASE i < Len(s)
    BY <1>0, <2>2, SubSeqProperties
  <2> QED BY <1>0, <2>1, <2>2
<1>3. b \in Seq(T) /\ Len(b) = 1 /\ b[1] = x
  OBVIOUS
<1> HIDE DEF a, b, c
<1> DEFINE ab == a \o b
<1>4. ab \in Seq(T) /\ Len(ab) = i + 1 /\ ab[i + 1] = x /\ \A j \in 1 .. i : ab[j] = s[j]
  <2>1. /\ ab \in Seq(T) /\ Len(ab) = Len(a) + Len(b)
        /\ \A j \in 1 .. Len(a) + Len(b) : ab[j] = IF j <= Len(a) THEN a[j] ELSE b[j - Len(a)]
    BY <1>1, <1>3, ConcatProperties
  <2> HIDE DEF ab
  <2>2. Len(ab) = i + 1 /\ \A j \in 1 .. i + 1 : ab[j] = IF j <= i THEN a[j] ELSE b[j - i]
    BY <1>1, <1>3, <2>1
  <2>3. i + 1 \in 1 .. i + 1 /\ ~(i + 1 <= i) /\ (i + 1) - i = 1
    BY <1>0
  <2>4. ab[i + 1] = x
    BY <1>3, <2>2, <2>3
  <2>5. \A j \in 1 .. i : j \in 1 .. i + 1 /\ j <= i
    BY <1>0
  <2>6. \A j \in 1 .. i : ab[j] = s[j]
    BY <1>1, <2>2, <2>5
  <2> QED BY <2>1, <2>2, <2>4, <2>6
<1> HIDE DEF ab
<1> DEFINE w == ab \o c
<1>5. w \in Seq(T) /\ Len(w) = Len(s) + 1
  <2>1. w \in Seq(T) /\ Len(w) = Len(ab) + Len(c)
    BY <1>2, <1>4, ConcatProperties
  <2> HIDE DEF w
  <2> QED BY <1>0, <1>2, <1>4, <2>1
<1>6. /\ \A j \in 1 .. i + 1 : w[j] = ab[j]
      /\ \A j \in i + 2 .. Len(s) + 1 : w[j] = c[j - (i + 1)]
  BY <1>0, <1>2, <1>4, ConcatProperties
<1>7. \A j \in i + 2 .. Len(s) + 1 : c[j - (i + 1)] = s[j - 1]
  <2> SUFFICES ASSUME NEW j \in i + 2 .. Len(s) + 1 PROVE c[j - (i + 1)] = s[j - 1]
    OBVIOUS
  <2>1. j - (i + 1) \in 1 .. Len(s) - i /\ i + (j - (i + 1)) = j - 1
    BY <1>0
  <2> QED BY <1>2, <2>1
<1> HIDE DEF w
<1>8. /\ \A j \in 1 .. i : w[j] = s[j]
      /\ w[i + 1] = x
      /\ \A j \in i + 2 .. Len(s) + 1 : w[j] = s[j - 1]
  <2>1. \A j \in 1 .. i : j \in 1 .. i + 1
    BY <1>0
  <2>2. i + 1 \in 1 .. i + 1
    BY <1>0
  <2> QED BY <1>4, <1>6, <1>7, <2>1, <2>2
<1>9. w = With(s, i, x)
  BY DEF w, ab, a, b, c, With
<1>10. IsWith(T, s, i, x, w)
  BY <1>5, <1>8 DEF IsWith
<1> QED BY <1>9, <1>10

-----------------------------------------------------------------------------
(* The tree.  D and L give each directory and each leaf the records that a *)
(* search takes there, H each directory its height.                        *)

Sorted(keys) == \A i, j \in 1 .. Len(keys) : i < j => keys[i] < keys[j]

\* The record belongs under child i + 1 of a directory with these keys.
Between(keys, i, r) ==
  /\ i \in 0 .. Len(keys)
  /\ i > 0 => keys[i] <= r
  /\ i < Len(keys) => r < keys[i + 1]

\* The records a search takes to a child, and the height of its directory.
Under(D, L, c) == IF c < 0 THEN D[-c] ELSE L[c]
Above(H, c) == IF c < 0 THEN H[-c] + 1 ELSE 0
Exists(ds, ls, c) == IF c < 0 THEN -c \in DOMAIN ds ELSE c \in DOMAIN ls

\* A split of which the directory own does not know yet: from key on, the records
\* of its child slot + 1 are under page.
NoOwner == [own |-> -1, slot |-> 0, key |-> NoRecord, page |-> 0]

Dirs(ds, D) ==
  \A p \in DOMAIN ds :
    /\ ds[p] \in Dir /\ Len(ds[p].children) = Len(ds[p].keys) + 1
    /\ Sorted(ds[p].keys)
    /\ \A i \in 1 .. Len(ds[p].keys) : ds[p].keys[i] \in D[p]

LeavesOf(ls, L) ==
  \A p \in DOMAIN ls :
    /\ ls[p] \in Leaf /\ InOrder(ls[p])
    /\ \A i \in 0 .. ls[p].value_count - 1 : ls[p].records[i] \in L[p]

Ranges(ds, ls, D, L, H) ==
  /\ D \in [DOMAIN ds -> SUBSET Records] /\ 0 \in DOMAIN ds /\ D[0] = Records
  /\ L \in [DOMAIN ls -> SUBSET Records]
  /\ H \in [DOMAIN ds -> Nat]
  /\ DOMAIN ds \subseteq Nat /\ DOMAIN ls \subseteq Nat

Goes(w, p, i, r, c) == IF p = w.own /\ i = w.slot /\ w.key <= r THEN w.page ELSE c

Routes(ds, D, L, w) ==
  \A p \in DOMAIN ds : \A r \in D[p] : \A i \in 0 .. Len(ds[p].keys) :
    Between(ds[p].keys, i, r) => r \in Under(D, L, Goes(w, p, i, r, ds[p].children[i + 1]))

Exact(ds, D, L) ==
  \A p \in DOMAIN ds : \A i \in 0 .. Len(ds[p].keys) :
    \A r \in Under(D, L, ds[p].children[i + 1]) : r \in D[p] /\ Between(ds[p].keys, i, r)

Levels(ds, ls, H) ==
  /\ \A p \in DOMAIN ds : \A i \in 1 .. Len(ds[p].keys) + 1 :
       /\ Exists(ds, ls, ds[p].children[i])
       /\ H[p] = Above(H, ds[p].children[i])
  /\ \A p \in DOMAIN ds : p # 0 => H[p] < H[0]

Apart(ds, ls, D, L, H) ==
  /\ \A p, q \in DOMAIN ds : H[p] = H[q] /\ D[p] \cap D[q] # {} => p = q
  /\ \A p, q \in DOMAIN ls : L[p] \cap L[q] # {} => p = q

Owned(ds, ls, D, L, H, w) ==
  w.own # -1 =>
    /\ w.own \in DOMAIN ds /\ w.slot \in 0 .. Len(ds[w.own].keys)
    /\ w.page \in Int /\ Exists(ds, ls, w.page) /\ H[w.own] = Above(H, w.page)
    /\ w.key \in Under(D, L, w.page)
    /\ \A r \in Under(D, L, w.page) :
         r \in D[w.own] /\ Between(ds[w.own].keys, w.slot, r) /\ w.key <= r
    /\ \A r \in Under(D, L, ds[w.own].children[w.slot + 1]) : r < w.key
    /\ \E r \in D[w.own] : Between(ds[w.own].keys, w.slot, r) /\ r < w.key

\* Every leaf but the one of the split is the child of a directory.
Reached(ds, ls, w) ==
  \A c \in DOMAIN ls :
    \/ w.own # -1 /\ c = w.page
    \/ \E p \in DOMAIN ds : \E i \in 1 .. Len(ds[p].keys) + 1 : ds[p].children[i] = c

Tree(ds, ls, D, L, H, w) ==
  /\ Dirs(ds, D) /\ LeavesOf(ls, L) /\ Ranges(ds, ls, D, L, H)
  /\ Routes(ds, D, L, w) /\ Exact(ds, D, L) /\ Levels(ds, ls, H)
  /\ Apart(ds, ls, D, L, H) /\ Owned(ds, ls, D, L, H, w) /\ Reached(ds, ls, w)

\* What ConstantsAssumption says of the constants.
LEMMA RecordsAreNumbers ==
  Records \subseteq Nat /\ NoRecord \notin Records /\ LeafMax \in Nat \ {0} /\ DirMax \in Nat \ {0, 1}
BY ConstantsAssumption

\* A record is under one child of a directory only.
LEMMA BetweenUnique ==
  ASSUME NEW keys \in Seq(Records), Sorted(keys), NEW i, NEW j, NEW r \in Nat,
         Between(keys, i, r), Between(keys, j, r)
  PROVE  i = j
<1>1. \A a \in 1 .. Len(keys) : keys[a] \in Nat
  <2>1. \A a \in 1 .. Len(keys) : keys[a] \in Records
    OBVIOUS
  <2> QED BY <2>1, RecordsAreNumbers
<1>2. ASSUME NEW a, NEW b, Between(keys, a, r), Between(keys, b, r), a < b PROVE FALSE
  <2>1. a \in 0 .. Len(keys) /\ b \in 0 .. Len(keys) /\ Len(keys) \in Nat
    BY <1>2 DEF Between
  <2>2. a + 1 \in 1 .. Len(keys) /\ b \in 1 .. Len(keys)
    BY <1>2, <2>1
  <2>3. r < keys[a + 1] /\ keys[b] <= r
    BY <1>2, <2>1, <2>2 DEF Between
  <2>4. a + 1 = b \/ keys[a + 1] < keys[b]
    BY <1>2, <2>1, <2>2 DEF Sorted
  <2> QED BY <1>1, <2>2, <2>3, <2>4
<1>3. i \in Int /\ j \in Int
  <2>1. i \in 0 .. Len(keys) /\ j \in 0 .. Len(keys)
    BY DEF Between
  <2> QED BY <2>1
<1>4. ~(i < j) /\ ~(j < i)
  BY <1>2
<1> QED BY <1>3, <1>4

\* A directory with a key, and a child to the right of it, inserted.
Grown(d, e, s, key, page) ==
  /\ e \in Dir /\ Len(e.keys) = Len(d.keys) + 1 /\ Len(e.children) = Len(e.keys) + 1
  /\ \A j \in 1 .. s : e.keys[j] = d.keys[j]
  /\ e.keys[s + 1] = key
  /\ \A j \in s + 2 .. Len(d.keys) + 1 : e.keys[j] = d.keys[j - 1]
  /\ \A j \in 1 .. s + 1 : e.children[j] = d.children[j]
  /\ e.children[s + 2] = page
  /\ \A j \in s + 3 .. Len(d.keys) + 2 : e.children[j] = d.children[j - 1]

\* The types of a directory's keys and children.
LEMMA DirTypes ==
  ASSUME NEW d \in Dir
  PROVE  /\ d.keys \in Seq(Records) /\ d.children \in Seq(Int) /\ Len(d.keys) \in Nat
         /\ \A j \in 1 .. Len(d.keys) : d.keys[j] \in Records /\ d.keys[j] \in Nat
         /\ \A j \in 1 .. Len(d.children) : d.children[j] \in Int
<1>1. d.keys \in Seq(Records) /\ d.children \in Seq(Int)
  BY DEF Dir
<1> DEFINE k == d.keys
           c == d.children
<1> HIDE DEF k, c
<1>2. k \in Seq(Records) /\ c \in Seq(Int)
  BY <1>1 DEF k, c
<1>3. /\ Len(k) \in Nat
      /\ \A j \in 1 .. Len(k) : k[j] \in Records
      /\ \A j \in 1 .. Len(c) : c[j] \in Int
  BY <1>2
<1> QED BY <1>1, <1>3, RecordsAreNumbers DEF k, c

\* A directory that takes a key at its place keeps its keys in order.
LEMMA GrownSorted ==
  ASSUME NEW d \in Dir, Sorted(d.keys), NEW e, NEW s \in 0 .. Len(d.keys), NEW key \in Records,
         NEW page, Grown(d, e, s, key, page), Between(d.keys, s, key),
         s > 0 => d.keys[s] < key
  PROVE  Sorted(e.keys)
<1> DEFINE n == Len(d.keys)
           k == d.keys
           m == e.keys
<1>0. n \in Nat /\ s \in 0 .. n /\ \A j \in 1 .. n : k[j] \in Nat
  BY DirTypes
<1>1. key \in Nat /\ (s > 0 => k[s] < key) /\ (s < n => key < k[s + 1])
  BY RecordsAreNumbers DEF Between
<1>2. /\ Len(m) = n + 1
      /\ \A j \in 1 .. s : m[j] = k[j]
      /\ m[s + 1] = key
      /\ \A j \in s + 2 .. n + 1 : m[j] = k[j - 1]
  BY DEF Grown
<1>3. \A a, b \in 1 .. n : a < b => k[a] < k[b]
  BY DEF Sorted
<1> HIDE DEF n, k, m
<1>4. ASSUME NEW a \in 1 .. n + 1, NEW b \in 1 .. n + 1, a < b PROVE m[a] < m[b]
  <2>0. a \in Nat /\ b \in Nat /\ a <= n
    BY <1>0, <1>4
  <2>1. CASE b <= s
    <3>1. a \in 1 .. s /\ b \in 1 .. s /\ a \in 1 .. n /\ b \in 1 .. n
      BY <1>0, <1>4, <2>0, <2>1
    <3> QED BY <1>2, <1>3, <1>4, <3>1
  <2>2. CASE b = s + 1
    <3>1. a \in 1 .. s /\ s \in 1 .. n /\ a \in 1 .. n
      BY <1>0, <1>4, <2>0, <2>2
    <3>2. a = s \/ k[a] < k[s]
      BY <1>3, <3>1
    <3> QED BY <1>0, <1>1, <1>2, <2>2, <3>1, <3>2
  <2>3. CASE b >= s + 2
    <3>1. b \in s + 2 .. n + 1 /\ b - 1 \in 1 .. n /\ s + 1 \in 1 .. n
      BY <1>0, <2>0, <2>3
    <3>2. m[b] = k[b - 1]
      BY <1>2, <3>1
    <3>3. CASE a <= s
      <4>1. a \in 1 .. s /\ a \in 1 .. n /\ a < b - 1
        BY <1>0, <1>4, <2>0, <2>3, <3>3
      <4> QED BY <1>2, <1>3, <3>1, <3>2, <4>1
    <3>4. CASE a = s + 1
      <4>1. s + 1 = b - 1 \/ k[s + 1] < k[b - 1]
        BY <1>0, <1>3, <2>0, <2>3, <3>1
      <4> QED BY <1>0, <1>1, <1>2, <3>1, <3>2, <3>4, <4>1
    <3>5. CASE a >= s + 2
      <4>1. a \in s + 2 .. n + 1 /\ a - 1 \in 1 .. n /\ a - 1 < b - 1
        BY <1>0, <1>4, <2>0, <3>5
      <4> QED BY <1>2, <1>3, <3>1, <3>2, <4>1
    <3> QED BY <1>0, <2>0, <3>3, <3>4, <3>5
  <2> QED BY <1>0, <2>0, <2>1, <2>2, <2>3
<1> QED BY <1>2, <1>4 DEF Sorted, m

\* Where records belong after that.
LEMMA GrownBetween ==
  ASSUME NEW d \in Dir, NEW e, NEW s \in 0 .. Len(d.keys), NEW key \in Records,
         NEW page, Grown(d, e, s, key, page), Between(d.keys, s, key),
         s > 0 => d.keys[s] < key, NEW r \in Nat, NEW j \in 0 .. Len(e.keys)
  PROVE  /\ j < s => (Between(e.keys, j, r) <=> Between(d.keys, j, r))
         /\ j = s => (Between(e.keys, j, r) <=> Between(d.keys, s, r) /\ r < key)
         /\ j = s + 1 => (Between(e.keys, j, r) <=> Between(d.keys, s, r) /\ key <= r)
         /\ j > s + 1 => (Between(e.keys, j, r) <=> Between(d.keys, j - 1, r))
<1> DEFINE n == Len(d.keys)
           k == d.keys
           m == e.keys
<1>0. n \in Nat /\ s \in 0 .. n /\ \A i \in 1 .. n : k[i] \in Nat
  BY DirTypes
<1>1. key \in Nat /\ (s > 0 => k[s] < key) /\ (s < n => key < k[s + 1])
  BY RecordsAreNumbers DEF Between
<1>2. /\ Len(m) = n + 1
      /\ \A i \in 1 .. s : m[i] = k[i]
      /\ m[s + 1] = key
      /\ \A i \in s + 2 .. n + 1 : m[i] = k[i - 1]
  BY DEF Grown
<1>3. /\ \A i : Between(d.keys, i, r) <=>
           i \in 0 .. n /\ (i > 0 => k[i] <= r) /\ (i < n => r < k[i + 1])
      /\ \A i : Between(e.keys, i, r) <=>
           i \in 0 .. n + 1 /\ (i > 0 => m[i] <= r) /\ (i < n + 1 => r < m[i + 1])
  BY <1>2 DEF Between
<1>4. j \in 0 .. n + 1
  BY <1>2
<1> HIDE DEF n, k, m
<1>5. ASSUME j < s PROVE Between(e.keys, j, r) <=> Between(d.keys, j, r)
  <2>1. j > 0 => m[j] = k[j]
    BY <1>0, <1>2, <1>4, <1>5
  <2>2. m[j + 1] = k[j + 1] /\ j \in 0 .. n /\ j < n /\ j < n + 1
    BY <1>0, <1>2, <1>4, <1>5
  <2> QED BY <1>3, <1>4, <2>1, <2>2
<1>6. ASSUME j = s PROVE Between(e.keys, j, r) <=> Between(d.keys, s, r) /\ r < key
  <2>1. j > 0 => m[j] = k[j]
    BY <1>0, <1>2, <1>6
  <2>2. j < n + 1 /\ m[j + 1] = key /\ (s < n => k[s + 1] \in Nat)
    BY <1>0, <1>2, <1>6
  <2>3. r < key => (s < n => r < k[s + 1])
    BY <1>1, <2>2
  <2> QED BY <1>0, <1>3, <1>4, <1>6, <2>1, <2>2, <2>3
<1>7. ASSUME j = s + 1 PROVE Between(e.keys, j, r) <=> Between(d.keys, s, r) /\ key <= r
  <2>1. j > 0 /\ m[j] = key /\ (s < n <=> j < n + 1)
    BY <1>0, <1>2, <1>7
  <2>2. s < n => m[j + 1] = k[s + 1]
    BY <1>0, <1>2, <1>7
  <2>3. key <= r => (s > 0 => k[s] <= r)
    <3>1. s > 0 => k[s] \in Nat
      BY <1>0
    <3> QED BY <1>1, <3>1
  <2> QED BY <1>0, <1>3, <1>4, <1>7, <2>1, <2>2, <2>3
<1>8. ASSUME j > s + 1 PROVE Between(e.keys, j, r) <=> Between(d.keys, j - 1, r)
  <2>1. j > 0 /\ j - 1 > 0 /\ m[j] = k[j - 1] /\ j - 1 \in 0 .. n /\ (j - 1 < n <=> j < n + 1)
    BY <1>0, <1>2, <1>4, <1>8
  <2>2. j < n + 1 => m[j + 1] = k[(j - 1) + 1]
    <3>1. j < n + 1 => j + 1 \in s + 2 .. n + 1 /\ (j - 1) + 1 = (j + 1) - 1
      BY <1>0, <1>4, <1>8
    <3> QED BY <1>2, <3>1
  <2> QED BY <1>3, <1>4, <2>1, <2>2
<1> QED BY <1>5, <1>6, <1>7, <1>8

\* What the owner of a split knows of it.
LEMMA OwnerFacts ==
  ASSUME NEW ds, NEW ls, NEW D, NEW L, NEW H, NEW w, Tree(ds, ls, D, L, H, w), w.own # -1
  PROVE  /\ w.own \in DOMAIN ds /\ ds[w.own] \in Dir /\ w.slot \in 0 .. Len(ds[w.own].keys)
         /\ Len(ds[w.own].children) = Len(ds[w.own].keys) + 1 /\ Sorted(ds[w.own].keys)
         /\ w.key \in Records /\ w.key \in D[w.own] /\ w.page \in Int
         /\ Between(ds[w.own].keys, w.slot, w.key)
         /\ w.slot > 0 => ds[w.own].keys[w.slot] < w.key
<1>1. /\ w.own \in DOMAIN ds /\ w.slot \in 0 .. Len(ds[w.own].keys) /\ w.page \in Int
      /\ w.key \in Under(D, L, w.page)
      /\ \A r \in Under(D, L, w.page) :
           r \in D[w.own] /\ Between(ds[w.own].keys, w.slot, r) /\ w.key <= r
      /\ \E r \in D[w.own] : Between(ds[w.own].keys, w.slot, r) /\ r < w.key
  BY DEF Tree, Owned
<1>2. /\ ds[w.own] \in Dir /\ Len(ds[w.own].children) = Len(ds[w.own].keys) + 1
      /\ Sorted(ds[w.own].keys)
  BY <1>1 DEF Tree, Dirs
<1>3. D[w.own] \subseteq Records
  BY <1>1 DEF Tree, Ranges
<1>4. w.key \in Records /\ w.key \in D[w.own] /\ Between(ds[w.own].keys, w.slot, w.key)
  BY <1>1, <1>3
<1>5. ASSUME w.slot > 0 PROVE ds[w.own].keys[w.slot] < w.key
  <2>1. PICK r \in D[w.own] : Between(ds[w.own].keys, w.slot, r) /\ r < w.key
    BY <1>1
  <2>2. ds[w.own].keys[w.slot] <= r
    BY <1>5, <2>1 DEF Between
  <2>3. r \in Nat /\ w.key \in Nat
    BY <1>3, <1>4, <2>1, RecordsAreNumbers
  <2>4. w.slot \in 1 .. Len(ds[w.own].keys)
    BY <1>1, <1>5
  <2>5. ds[w.own].keys[w.slot] \in Nat
    BY <1>2, <2>4, DirTypes
  <2> QED BY <2>1, <2>2, <2>3, <2>5
<1> QED BY <1>1, <1>2, <1>4, <1>5

\* With the key and the child of the split in place the tree is one again.
LEMMA Fitted ==
  ASSUME NEW ds, NEW ls, NEW D, NEW L, NEW H, NEW w, Tree(ds, ls, D, L, H, w), w.own # -1,
         NEW es, NEW e, Grown(ds[w.own], e, w.slot, w.key, w.page),
         DOMAIN es = DOMAIN ds, es[w.own] = e,
         \A p \in DOMAIN ds : p # w.own => es[p] = ds[p]
  PROVE  Tree(es, ls, D, L, H, NoOwner)
<1> DEFINE o == w.own
           s == w.slot
           key == w.key
           d == ds[o]
           n == Len(d.keys)
<1>1. /\ o \in DOMAIN ds /\ d \in Dir /\ s \in 0 .. n /\ n \in Nat
      /\ Len(d.children) = n + 1 /\ Sorted(d.keys)
      /\ key \in Records /\ key \in Nat /\ key \in D[o] /\ w.page \in Int
      /\ Between(d.keys, s, key)
      /\ s > 0 => d.keys[s] < key
  <2>1. /\ o \in DOMAIN ds /\ d \in Dir /\ s \in 0 .. n
        /\ Len(d.children) = n + 1 /\ Sorted(d.keys)
        /\ key \in Records /\ key \in D[o] /\ w.page \in Int
        /\ Between(d.keys, s, key)
        /\ s > 0 => d.keys[s] < key
    BY OwnerFacts
  <2>2. n \in Nat
    BY <2>1, DirTypes
  <2>3. key \in Nat
    BY <2>1, RecordsAreNumbers
  <2> QED BY <2>1, <2>2, <2>3
<1>2. /\ e \in Dir /\ Len(e.keys) = n + 1 /\ Len(e.children) = n + 2
      /\ \A j \in 1 .. s : e.keys[j] = d.keys[j]
      /\ e.keys[s + 1] = key
      /\ \A j \in s + 2 .. n + 1 : e.keys[j] = d.keys[j - 1]
      /\ \A j \in 1 .. s + 1 : e.children[j] = d.children[j]
      /\ e.children[s + 2] = w.page
      /\ \A j \in s + 3 .. n + 2 : e.children[j] = d.children[j - 1]
  <2>1. (n + 1) + 1 = n + 2
    BY <1>1
  <2> QED BY <2>1 DEF Grown
<1>3. Sorted(e.keys)
  BY <1>1, GrownSorted
<1>4. ASSUME NEW r \in Nat, NEW j \in 0 .. n + 1
      PROVE  /\ j < s => (Between(e.keys, j, r) <=> Between(d.keys, j, r))
             /\ j = s => (Between(e.keys, j, r) <=> Between(d.keys, s, r) /\ r < key)
             /\ j = s + 1 => (Between(e.keys, j, r) <=> Between(d.keys, s, r) /\ key <= r)
             /\ j > s + 1 => (Between(e.keys, j, r) <=> Between(d.keys, j - 1, r))
  <2>1. /\ j \in 0 .. Len(e.keys) /\ Grown(d, e, s, key, w.page)
        /\ Len(d.keys) = n
    BY <1>2
  <2> HIDE DEF d, n, s, key
  <2> QED BY <1>1, <2>1, GrownBetween
<1>5. /\ D[o] \subseteq Records /\ D[o] \subseteq Nat
      /\ \A c \in Int : Exists(ds, ls, c) => Under(D, L, c) \subseteq Nat
  BY <1>1, RecordsAreNumbers DEF Tree, Ranges, Under, Exists
<1>6. /\ Exists(ds, ls, w.page) /\ H[o] = Above(H, w.page)
      /\ \A r \in Under(D, L, w.page) : r \in D[o] /\ Between(d.keys, s, r) /\ key <= r
      /\ \A r \in Under(D, L, d.children[s + 1]) : r < key
  BY DEF Tree, Owned
<1> HIDE DEF n, d, key, s, o
<1>7. Dirs(es, D)
  <2>1. \A i \in 1 .. n + 1 : e.keys[i] \in D[o]
    <3> SUFFICES ASSUME NEW i \in 1 .. n + 1 PROVE e.keys[i] \in D[o]
      OBVIOUS
    <3>1. \A j \in 1 .. n : d.keys[j] \in D[o]
      BY <1>1 DEF Tree, Dirs, d, n
    <3>2. CASE i <= s
      BY <1>1, <1>2, <3>1, <3>2
    <3>3. CASE i = s + 1
      BY <1>1, <1>2, <3>3
    <3>4. CASE i >= s + 2
      BY <1>1, <1>2, <3>1, <3>4
    <3> QED BY <1>1, <3>2, <3>3, <3>4
  <2>2. Len(e.children) = Len(e.keys) + 1
    BY <1>1, <1>2
  <2>3. ASSUME NEW p \in DOMAIN es
        PROVE  /\ es[p] \in Dir /\ Len(es[p].children) = Len(es[p].keys) + 1
               /\ Sorted(es[p].keys)
               /\ \A i \in 1 .. Len(es[p].keys) : es[p].keys[i] \in D[p]
    <3>1. CASE p = o
      BY <1>2, <1>3, <2>1, <2>2, <3>1 DEF o
    <3>2. CASE p # o
      BY <2>3, <3>2 DEF Tree, Dirs, o
    <3> QED BY <3>1, <3>2
  <2> QED BY <2>3 DEF Dirs
<1>8. Routes(es, D, L, NoOwner)
  <2> SUFFICES ASSUME NEW p \in DOMAIN ds, NEW r \in D[p], NEW i \in 0 .. Len(es[p].keys),
                      Between(es[p].keys, i, r)
               PROVE  r \in Under(D, L, Goes(NoOwner, p, i, r, es[p].children[i + 1]))
    BY DEF Routes
  <2>0. Goes(NoOwner, p, i, r, es[p].children[i + 1]) = es[p].children[i + 1]
    <3>1. -1 \notin DOMAIN ds
      BY DEF Tree, Ranges
    <3> QED BY <3>1 DEF Goes, NoOwner
  <2>1. CASE p # o
    <3>1. es[p] = ds[p]
      BY <2>1 DEF o
    <3>2. r \in Under(D, L, Goes(w, p, i, r, ds[p].children[i + 1]))
      BY <3>1 DEF Tree, Routes
    <3> QED BY <2>0, <2>1, <3>1, <3>2 DEF Goes, o
  <2>2. CASE p = o
    <3>1. es[p] = e /\ i \in 0 .. n + 1 /\ r \in Nat /\ r \in D[o] /\ Between(e.keys, i, r)
      BY <1>2, <1>5, <2>2 DEF o
    <3>2. \A j \in 0 .. n : Between(d.keys, j, r) =>
            r \in Under(D, L, IF j = s /\ key <= r THEN w.page ELSE d.children[j + 1])
      BY <1>1, <3>1 DEF Tree, Routes, Goes, o, d, n, key, s
    <3>3. CASE i < s
      <4>1. i \in 0 .. n /\ Between(d.keys, i, r) /\ i # s /\ i + 1 \in 1 .. s + 1
        BY <1>1, <1>4, <3>1, <3>3
      <4> QED BY <1>2, <2>0, <3>1, <3>2, <4>1
    <3>4. CASE i = s
      <4>1. Between(d.keys, s, r) /\ ~(key <= r) /\ i + 1 \in 1 .. s + 1
        BY <1>1, <1>4, <3>1, <3>4
      <4> QED BY <1>1, <1>2, <2>0, <3>1, <3>2, <3>4, <4>1
    <3>5. CASE i = s + 1
      <4>1. Between(d.keys, s, r) /\ key <= r /\ i + 1 = s + 2
        BY <1>1, <1>4, <3>1, <3>5
      <4> QED BY <1>1, <1>2, <2>0, <3>1, <3>2, <4>1
    <3>6. CASE i > s + 1
      <4>1. Between(d.keys, i - 1, r) /\ i - 1 \in 0 .. n /\ i - 1 # s /\ (i - 1) + 1 = i
            /\ i + 1 \in s + 3 .. n + 2 /\ (i + 1) - 1 = i
        BY <1>1, <1>4, <3>1, <3>6
      <4>2. e.children[i + 1] = d.children[i]
        BY <1>2, <4>1
      <4> QED BY <2>0, <3>1, <3>2, <4>1, <4>2
    <3> QED BY <1>1, <3>1, <3>3, <3>4, <3>5, <3>6
  <2> QED BY <2>1, <2>2
<1>9. Exact(es, D, L)
  <2> SUFFICES ASSUME NEW p \in DOMAIN ds, NEW i \in 0 .. Len(es[p].keys),
                      NEW r \in Under(D, L, es[p].children[i + 1])
               PROVE  r \in D[p] /\ Between(es[p].keys, i, r)
    BY DEF Exact
  <2>1. CASE p # o
    <3>1. es[p] = ds[p]
      BY <2>1 DEF o
    <3> QED BY <3>1 DEF Tree, Exact
  <2>2. CASE p = o
    <3>1. es[p] = e /\ i \in 0 .. n + 1
      BY <1>2, <2>2 DEF o
    <3>2. \A j \in 0 .. n : \A q \in Under(D, L, d.children[j + 1]) :
            q \in D[o] /\ Between(d.keys, j, q)
      BY <1>1 DEF Tree, Exact, d, n
    <3>3. CASE i < s
      <4>1. i \in 0 .. n /\ i + 1 \in 1 .. s + 1
        BY <1>1, <3>1, <3>3
      <4>2. r \in D[o] /\ Between(d.keys, i, r)
        BY <1>2, <3>1, <3>2, <4>1
      <4> QED BY <1>4, <1>5, <2>2, <3>1, <3>3, <4>2
    <3>4. CASE i = s
      <4>1. i \in 0 .. n /\ i + 1 \in 1 .. s + 1
        BY <1>1, <3>1, <3>4
      <4>2. r \in D[o] /\ Between(d.keys, s, r) /\ r < key
        BY <1>2, <1>6, <3>1, <3>2, <3>4, <4>1
      <4> QED BY <1>4, <1>5, <2>2, <3>1, <3>4, <4>2
    <3>5. CASE i = s + 1
      <4>1. i + 1 = s + 2
        BY <1>1, <3>5
      <4>2. r \in D[o] /\ Between(d.keys, s, r) /\ key <= r
        BY <1>2, <1>6, <3>1, <4>1
      <4> QED BY <1>4, <1>5, <2>2, <3>1, <3>5, <4>2
    <3>6. CASE i > s + 1
      <4>1. i - 1 \in 0 .. n /\ (i - 1) + 1 = i /\ i + 1 \in s + 3 .. n + 2 /\ (i + 1) - 1 = i
        BY <1>1, <3>1, <3>6
      <4>2. e.children[i + 1] = d.children[i]
        BY <1>2, <4>1
      <4>3. r \in D[o] /\ Between(d.keys, i - 1, r)
        BY <3>1, <3>2, <4>1, <4>2
      <4> QED BY <1>4, <1>5, <2>2, <3>1, <3>6, <4>3
    <3> QED BY <1>1, <3>1, <3>3, <3>4, <3>5, <3>6
  <2> QED BY <2>1, <2>2
<1>10. Levels(es, ls, H)
  <2>1. ASSUME NEW p \in DOMAIN ds, NEW i \in 1 .. Len(es[p].keys) + 1
        PROVE  Exists(es, ls, es[p].children[i]) /\ H[p] = Above(H, es[p].children[i])
    <3>0. \A c : Exists(es, ls, c) <=> Exists(ds, ls, c)
      BY DEF Exists
    <3>1. CASE p # o
      <4>1. es[p] = ds[p]
        BY <3>1 DEF o
      <4> QED BY <3>0, <4>1 DEF Tree, Levels
    <3>2. CASE p = o
      <4>1. es[p] = e /\ i \in 1 .. n + 2
        BY <1>1, <1>2, <2>1, <3>2 DEF o
      <4>2. \A j \in 1 .. n + 1 : Exists(ds, ls, d.children[j]) /\ H[o] = Above(H, d.children[j])
        BY <1>1 DEF Tree, Levels, d, n
      <4>3. CASE i <= s + 1
        <5>1. i \in 1 .. s + 1 /\ i \in 1 .. n + 1
          BY <1>1, <4>1, <4>3
        <5>2. e.children[i] = d.children[i]
          BY <1>2, <5>1
        <5> QED BY <3>0, <3>2, <4>1, <4>2, <5>1, <5>2
      <4>4. CASE i = s + 2
        BY <1>2, <1>6, <3>0, <3>2, <4>1, <4>4
      <4>5. CASE i >= s + 3
        <5>1. i \in s + 3 .. n + 2 /\ i - 1 \in 1 .. n + 1
          BY <1>1, <4>1, <4>5
        <5>2. e.children[i] = d.children[i - 1]
          BY <1>2, <5>1
        <5> QED BY <3>0, <3>2, <4>1, <4>2, <5>1, <5>2
      <4> QED BY <1>1, <4>1, <4>3, <4>4, <4>5
    <3> QED BY <3>1, <3>2
  <2> QED BY <2>1 DEF Tree, Levels
<1>11. Reached(es, ls, NoOwner)
  <2> SUFFICES ASSUME NEW c \in DOMAIN ls
               PROVE  \E p \in DOMAIN es : \E i \in 1 .. Len(es[p].keys) + 1 :
                        es[p].children[i] = c
    BY DEF Reached
  <2>1. CASE c = w.page
    <3>1. s + 2 \in 1 .. n + 2 /\ (n + 1) + 1 = n + 2
      BY <1>1
    <3> QED BY <1>1, <1>2, <2>1, <3>1 DEF o
  <2>2. CASE c # w.page
    <3>1. PICK p \in DOMAIN ds : \E i \in 1 .. Len(ds[p].keys) + 1 : ds[p].children[i] = c
      BY <2>2 DEF Tree, Reached
    <3>2. PICK i \in 1 .. Len(ds[p].keys) + 1 : ds[p].children[i] = c
      BY <3>1
    <3>3. CASE p # o
      BY <3>2, <3>3 DEF o
    <3>4. CASE p = o
      <4>1. i \in 1 .. n + 1 /\ d.children[i] = c
        BY <3>2, <3>4 DEF d, n
      <4>2. CASE i <= s + 1
        <5>1. i \in 1 .. s + 1 /\ i \in 1 .. (n + 1) + 1
          BY <1>1, <4>1, <4>2
        <5> QED BY <1>1, <1>2, <4>1, <5>1 DEF o
      <4>3. CASE i >= s + 2
        <5>1. i + 1 \in s + 3 .. n + 2 /\ i + 1 \in 1 .. (n + 1) + 1 /\ (i + 1) - 1 = i
          BY <1>1, <4>1, <4>3
        <5>2. e.children[i + 1] = c
          BY <1>2, <4>1, <5>1
        <5> QED BY <1>1, <1>2, <5>1, <5>2 DEF o
      <4> QED BY <1>1, <4>1, <4>2, <4>3
    <3> QED BY <3>3, <3>4
  <2> QED BY <2>1, <2>2
<1>12. /\ LeavesOf(ls, L) /\ Ranges(es, ls, D, L, H) /\ Apart(es, ls, D, L, H)
       /\ Owned(es, ls, D, L, H, NoOwner)
  BY DEF Tree, Ranges, Apart, Owned, NoOwner
<1> QED BY <1>7, <1>8, <1>9, <1>10, <1>11, <1>12 DEF Tree

\* A directory cut in two around its key m + 1.
Halves(d, e, f, m) ==
  /\ e \in Dir /\ f \in Dir /\ m \in 1 .. Len(d.keys) - 1
  /\ Len(e.keys) = m /\ Len(e.children) = m + 1
  /\ Len(f.keys) = Len(d.keys) - m - 1 /\ Len(f.children) = Len(d.keys) - m
  /\ \A j \in 1 .. m : e.keys[j] = d.keys[j]
  /\ \A j \in 1 .. m + 1 : e.children[j] = d.children[j]
  /\ \A j \in 1 .. Len(d.keys) - m - 1 : f.keys[j] = d.keys[m + 1 + j]
  /\ \A j \in 1 .. Len(d.keys) - m : f.children[j] = d.children[m + 1 + j]

\* The halves of a directory are in order, to the left and right of the middle
\* key.
LEMMA HalvesSorted ==
  ASSUME NEW d \in Dir, Sorted(d.keys), NEW e, NEW f, NEW m, Halves(d, e, f, m)
  PROVE  /\ Sorted(e.keys) /\ Sorted(f.keys)
         /\ \A j \in 1 .. m : e.keys[j] < d.keys[m + 1]
         /\ \A j \in 1 .. Len(f.keys) : d.keys[m + 1] < f.keys[j]
<1> DEFINE n == Len(d.keys)
           k == d.keys
           a == e.keys
           b == f.keys
<1>1. /\ n \in Nat /\ m \in 1 .. n - 1 /\ Len(a) = m /\ Len(b) = n - m - 1
      /\ \A j \in 1 .. m : a[j] = k[j]
      /\ \A j \in 1 .. n - m - 1 : b[j] = k[m + 1 + j]
  BY DirTypes DEF Halves
<1>2. \A i, j \in 1 .. n : i < j => k[i] < k[j]
  BY DEF Sorted
<1> HIDE DEF n, k, a, b
<1>3. Sorted(a)
  <2>1. \A i \in 1 .. m : i \in 1 .. n
    BY <1>1
  <2> QED BY <1>1, <1>2, <2>1 DEF Sorted
<1>4. Sorted(b)
  <2> SUFFICES ASSUME NEW i \in 1 .. n - m - 1, NEW j \in 1 .. n - m - 1, i < j PROVE b[i] < b[j]
    BY <1>1 DEF Sorted
  <2>1. m + 1 + i \in 1 .. n /\ m + 1 + j \in 1 .. n /\ m + 1 + i < m + 1 + j
    BY <1>1
  <2> QED BY <1>1, <1>2, <2>1
<1>5. \A j \in 1 .. m : a[j] < k[m + 1]
  <2>1. \A j \in 1 .. m : j \in 1 .. n /\ m + 1 \in 1 .. n /\ j < m + 1
    BY <1>1
  <2> QED BY <1>1, <1>2, <2>1
<1>6. \A j \in 1 .. n - m - 1 : k[m + 1] < b[j]
  <2>1. \A j \in 1 .. n - m - 1 : m + 1 + j \in 1 .. n /\ m + 1 \in 1 .. n /\ m + 1 < m + 1 + j
    BY <1>1
  <2> QED BY <1>1, <1>2, <2>1
<1> QED BY <1>1, <1>3, <1>4, <1>5, <1>6 DEF k, a, b

\* A record is under the same child in the halves as it was in the whole.
LEMMA HalvesBetween ==
  ASSUME NEW d \in Dir, Sorted(d.keys), NEW e, NEW f, NEW m, Halves(d, e, f, m), NEW r \in Nat
  PROVE  /\ \A j \in 0 .. m :
              Between(d.keys, j, r) <=> Between(e.keys, j, r) /\ r < d.keys[m + 1]
         /\ \A j \in 0 .. Len(d.keys) - m - 1 :
              Between(d.keys, m + 1 + j, r) <=> Between(f.keys, j, r) /\ d.keys[m + 1] <= r
<1> DEFINE n == Len(d.keys)
           k == d.keys
           a == e.keys
           b == f.keys
<1>1. /\ n \in Nat /\ m \in 1 .. n - 1 /\ Len(a) = m /\ Len(b) = n - m - 1
      /\ \A j \in 1 .. m : a[j] = k[j]
      /\ \A j \in 1 .. n - m - 1 : b[j] = k[m + 1 + j]
      /\ \A j \in 1 .. n : k[j] \in Nat
  BY DirTypes DEF Halves
<1>2. \A i, j \in 1 .. n : i < j => k[i] < k[j]
  BY DEF Sorted
<1>3. /\ \A i : Between(k, i, r) <=>
           i \in 0 .. n /\ (i > 0 => k[i] <= r) /\ (i < n => r < k[i + 1])
      /\ \A i : Between(a, i, r) <=>
           i \in 0 .. m /\ (i > 0 => a[i] <= r) /\ (i < m => r < a[i + 1])
      /\ \A i : Between(b, i, r) <=>
           i \in 0 .. n - m - 1 /\ (i > 0 => b[i] <= r) /\ (i < n - m - 1 => r < b[i + 1])
  BY <1>1 DEF Between
<1> HIDE DEF n, k, a, b
<1>4. ASSUME NEW j \in 0 .. m PROVE Between(k, j, r) <=> Between(a, j, r) /\ r < k[m + 1]
  <2>1. j \in 0 .. n /\ j < n /\ (j > 0 => a[j] = k[j]) /\ (j < m => a[j + 1] = k[j + 1])
        /\ j + 1 \in 1 .. n /\ m + 1 \in 1 .. n
    BY <1>1
  <2>2. j = m \/ (j < m /\ k[j + 1] < k[m + 1])
    BY <1>1, <1>2, <2>1
  <2>3. k[j + 1] \in Nat /\ k[m + 1] \in Nat
    BY <1>1, <2>1
  <2>4. r < k[j + 1] => r < k[m + 1]
    BY <2>2, <2>3
  <2> QED BY <1>1, <1>3, <2>1, <2>2, <2>4
<1>5. ASSUME NEW j \in 0 .. n - m - 1
      PROVE  Between(k, m + 1 + j, r) <=> Between(b, j, r) /\ k[m + 1] <= r
  <2> DEFINE i == m + 1 + j
  <2>1. i \in 1 .. n /\ i > 0 /\ (i < n <=> j < n - m - 1) /\ m + 1 \in 1 .. n
    BY <1>1
  <2>2. j > 0 => b[j] = k[i]
    BY <1>1
  <2>3. j < n - m - 1 => b[j + 1] = k[i + 1]
    <3>1. j < n - m - 1 => j + 1 \in 1 .. n - m - 1 /\ m + 1 + (j + 1) = i + 1
      BY <1>1
    <3> QED BY <1>1, <3>1
  <2>4. (j = 0 /\ i = m + 1) \/ (j > 0 /\ k[m + 1] < k[i])
    BY <1>1, <1>2, <2>1
  <2>5. k[i] \in Nat /\ k[m + 1] \in Nat /\ i \in 0 .. n
    BY <1>1, <2>1
  <2> HIDE DEF i
  <2>6. k[i] <= r => k[m + 1] <= r
    BY <2>4, <2>5
  <2>7. Between(k, i, r) <=> Between(b, j, r) /\ k[m + 1] <= r
    BY <1>3, <2>1, <2>2, <2>3, <2>4, <2>5, <2>6
  <2> QED BY <2>7 DEF i
<1> QED BY <1>4, <1>5 DEF n, k, a, b

\* What a search takes to page p is divided between p and the page a.
Divided(D, p, a, key) ==
  [c \in DOMAIN D \cup {a} |-> IF c = a THEN {x \in D[p] : key <= x}
                               ELSE IF c = p THEN {x \in D[p] : x < key} ELSE D[c]]

SameLevel(H, p, a) == [c \in DOMAIN H \cup {a} |-> IF c = a THEN H[p] ELSE H[c]]

\* Child slot + 1 of own, and no other child, is the page to be cut.
Parent(ds, own, slot, c) ==
  /\ own \in DOMAIN ds /\ slot \in 0 .. Len(ds[own].keys)
  /\ ds[own].children[slot + 1] = c

\* A child with records in its range has one parent, at one position.
LEMMA OnlyParent ==
  ASSUME NEW ds, NEW ls, NEW D, NEW L, NEW H, Tree(ds, ls, D, L, H, NoOwner),
         NEW o, NEW t, NEW c, Parent(ds, o, t, c),
         NEW p \in DOMAIN ds, NEW i \in 0 .. Len(ds[p].keys), ds[p].children[i + 1] = c,
         NEW r \in Under(D, L, c)
  PROVE  p = o /\ i = t
<1>1. /\ o \in DOMAIN ds /\ t \in 0 .. Len(ds[o].keys) /\ ds[o].children[t + 1] = c
  BY DEF Parent
<1>2. r \in D[o] /\ Between(ds[o].keys, t, r) /\ r \in D[p] /\ Between(ds[p].keys, i, r)
  BY <1>1 DEF Tree, Exact
<1>3. H[o] = Above(H, c) /\ H[p] = Above(H, c)
  <2>1. \A q \in DOMAIN ds : Len(ds[q].keys) \in Nat
    BY DirTypes DEF Tree, Dirs
  <2>2. t + 1 \in 1 .. Len(ds[o].keys) + 1 /\ i + 1 \in 1 .. Len(ds[p].keys) + 1
    BY <1>1, <2>1
  <2> QED BY <1>1, <2>2 DEF Tree, Levels
<1>4. p = o
  BY <1>1, <1>2, <1>3 DEF Tree, Apart
<1>5. ds[p] \in Dir /\ Sorted(ds[p].keys) /\ r \in Nat
  BY <1>2, RecordsAreNumbers DEF Tree, Dirs, Ranges
<1>6. ds[p].keys \in Seq(Records)
  BY <1>5, DirTypes
<1> QED BY <1>2, <1>4, <1>5, <1>6, BetweenUnique

\* A search goes to one child.
LEMMA Routed ==
  ASSUME NEW ds, NEW ls, NEW D, NEW L, NEW H, Tree(ds, ls, D, L, H, NoOwner),
         NEW p \in DOMAIN ds, NEW r \in D[p], NEW i \in 0 .. Len(ds[p].keys),
         Between(ds[p].keys, i, r)
  PROVE  r \in Under(D, L, ds[p].children[i + 1])
<1>1. p # NoOwner.own
  BY DEF Tree, Ranges, NoOwner
<1>2. Goes(NoOwner, p, i, r, ds[p].children[i + 1]) = ds[p].children[i + 1]
  BY <1>1 DEF Goes
<1>3. r \in Under(D, L, Goes(NoOwner, p, i, r, ds[p].children[i + 1]))
  BY DEF Tree, Routes
<1> QED BY <1>2, <1>3

\* The children of a directory.
LEMMA ChildFacts ==
  ASSUME NEW ds, NEW ls, NEW D, NEW L, NEW H, NEW w, Tree(ds, ls, D, L, H, w),
         NEW p \in DOMAIN ds, NEW i \in 0 .. Len(ds[p].keys)
  PROVE  LET c == ds[p].children[i + 1]
         IN  /\ c \in Int /\ Exists(ds, ls, c) /\ H[p] = Above(H, c)
             /\ \A r \in Under(D, L, c) : r \in D[p] /\ Between(ds[p].keys, i, r) /\ r \in Nat
             /\ (p # 0 => H[p] < H[0] /\ c # -p) /\ H[p] \in Nat
<1> DEFINE c == ds[p].children[i + 1]
<1>1. ds[p] \in Dir /\ Len(ds[p].children) = Len(ds[p].keys) + 1 /\ p \in Nat /\ H[p] \in Nat
  BY DEF Tree, Dirs, Ranges
<1>2. i + 1 \in 1 .. Len(ds[p].keys) + 1
  BY <1>1, DirTypes
<1>3. c \in Int
  BY <1>1, <1>2, DirTypes
<1>4. Exists(ds, ls, c) /\ H[p] = Above(H, c)
  BY <1>2 DEF Tree, Levels
<1>5. \A r \in Under(D, L, c) : r \in D[p] /\ Between(ds[p].keys, i, r)
  BY DEF Tree, Exact
<1>6. D[p] \subseteq Nat
  BY RecordsAreNumbers DEF Tree, Ranges
<1>7. p # 0 => H[p] < H[0]
  BY DEF Tree, Levels
<1> HIDE DEF c
<1>8. ASSUME c = -p, p # 0 PROVE FALSE
  <2>1. c < 0 /\ -c = p
    BY <1>1, <1>8
  <2>2. H[p] = H[p] + 1
    BY <1>4, <2>1 DEF Above
  <2> QED BY <1>1, <2>2
<1>9. /\ c \in Int /\ Exists(ds, ls, c) /\ H[p] = Above(H, c)
      /\ \A r \in Under(D, L, c) : r \in D[p] /\ Between(ds[p].keys, i, r) /\ r \in Nat
      /\ (p # 0 => H[p] < H[0] /\ c # -p) /\ H[p] \in Nat
  BY <1>1, <1>3, <1>4, <1>5, <1>6, <1>7, <1>8
<1> QED BY <1>9 DEF c

\* A directory is cut in two: its parent is the owner of the split.
LEMMA CutDir ==
  ASSUME NEW ds, NEW ls, NEW D, NEW L, NEW H, Tree(ds, ls, D, L, H, NoOwner),
         NEW p \in DOMAIN ds, p # 0, NEW o, NEW t, Parent(ds, o, t, -p),
         NEW e, NEW f, NEW m, Halves(ds[p], e, f, m),
         NEW a \in Nat, a \notin DOMAIN ds,
         NEW fs, DOMAIN fs = DOMAIN ds \cup {a}, fs[p] = e, fs[a] = f,
         \A c \in DOMAIN ds : c # p => fs[c] = ds[c]
  PROVE  LET key == ds[p].keys[m + 1]
         IN  Tree(fs, ls, Divided(D, p, a, key), L, SameLevel(H, p, a),
                  [own |-> o, slot |-> t, key |-> key, page |-> -a])
<1> DEFINE d == ds[p]
           n == Len(d.keys)
           key == d.keys[m + 1]
           E == Divided(D, p, a, key)
           G == SameLevel(H, p, a)
           w == [own |-> o, slot |-> t, key |-> key, page |-> -a]
<1>1. /\ d \in Dir /\ Len(d.children) = n + 1 /\ Sorted(d.keys) /\ n \in Nat
      /\ p \in Nat /\ 0 \in DOMAIN ds /\ DOMAIN ds \subseteq Nat /\ DOMAIN ls \subseteq Nat
      /\ D \in [DOMAIN ds -> SUBSET Records] /\ L \in [DOMAIN ls -> SUBSET Records]
      /\ H \in [DOMAIN ds -> Nat] /\ D[0] = Records
      /\ \A i \in 1 .. n : d.keys[i] \in D[p] /\ d.keys[i] \in Nat
  BY DirTypes DEF Tree, Dirs, Ranges
<1>2. /\ e \in Dir /\ f \in Dir /\ m \in 1 .. n - 1
      /\ Len(e.keys) = m /\ Len(e.children) = m + 1
      /\ Len(f.keys) = n - m - 1 /\ Len(f.children) = n - m
      /\ \A j \in 1 .. m : e.keys[j] = d.keys[j]
      /\ \A j \in 1 .. m + 1 : e.children[j] = d.children[j]
      /\ \A j \in 1 .. n - m - 1 : f.keys[j] = d.keys[m + 1 + j]
      /\ \A j \in 1 .. n - m : f.children[j] = d.children[m + 1 + j]
  BY DEF Halves
<1>2a. \A j \in 0 .. n - m - 1 : f.children[j + 1] = d.children[(m + 1 + j) + 1]
  <2> SUFFICES ASSUME NEW j \in 0 .. n - m - 1
               PROVE  f.children[j + 1] = d.children[(m + 1 + j) + 1]
    OBVIOUS
  <2>1. j + 1 \in 1 .. n - m /\ m + 1 + (j + 1) = (m + 1 + j) + 1
    BY <1>1, <1>2
  <2> QED BY <1>2, <2>1
<1>2b. ASSUME NEW j \in 0 .. n
       PROVE  LET c == d.children[j + 1]
              IN  /\ c \in Int /\ Exists(ds, ls, c) /\ c # -p /\ H[p] = Above(H, c)
                  /\ \A x \in Under(D, L, c) : x \in D[p] /\ Between(d.keys, j, x) /\ x \in Nat
  BY ChildFacts
<1>3. key \in D[p] /\ key \in Nat
  <2>1. m + 1 \in 1 .. n
    BY <1>1, <1>2
  <2> QED BY <1>1, <2>1
<1>4. /\ DOMAIN E = DOMAIN ds \cup {a}
      /\ E[a] = {x \in D[p] : key <= x} /\ E[p] = {x \in D[p] : x < key}
      /\ \A c \in DOMAIN ds : c # p => E[c] = D[c]
  <2>1. DOMAIN D = DOMAIN ds
    BY <1>1
  <2> HIDE DEF key
  <2> QED BY <2>1 DEF Divided
<1>5. DOMAIN G = DOMAIN ds \cup {a} /\ G[a] = H[p] /\ \A c \in DOMAIN ds : G[c] = H[c]
  BY <1>1 DEF SameLevel
<1>6. /\ Sorted(e.keys) /\ Sorted(f.keys)
      /\ \A j \in 1 .. m : e.keys[j] < key
      /\ \A j \in 1 .. n - m - 1 : key < f.keys[j]
  BY <1>1, <1>2, HalvesSorted
<1>7. ASSUME NEW r \in Nat
      PROVE  /\ \A j \in 0 .. m : Between(d.keys, j, r) <=> Between(e.keys, j, r) /\ r < key
             /\ \A j \in 0 .. n - m - 1 :
                  Between(d.keys, m + 1 + j, r) <=> Between(f.keys, j, r) /\ key <= r
  BY <1>1, HalvesBetween
<1>8. /\ o \in DOMAIN ds /\ t \in 0 .. Len(ds[o].keys) /\ ds[o].children[t + 1] = -p
      /\ o \in Nat /\ o # p /\ H[o] = H[p] + 1 /\ p > 0 /\ -p < 0 /\ -(-p) = p
  <2>1. o \in DOMAIN ds /\ t \in 0 .. Len(ds[o].keys) /\ ds[o].children[t + 1] = -p
    BY DEF Parent
  <2>2. H[o] = Above(H, -p)
    BY <2>1, ChildFacts
  <2>3. -p < 0 /\ -(-p) = p /\ p > 0
    <3>1. p \in Nat
      BY <1>1
    <3> QED BY <3>1
  <2>4. H[o] = H[p] + 1
    BY <2>2, <2>3 DEF Above
  <2>5. H[p] \in Nat
    BY <1>1
  <2> QED BY <1>1, <2>1, <2>3, <2>4, <2>5
<1>9. a # 0 /\ a # p /\ -a < 0 /\ -(-a) = a /\ -a \in Int /\ a # o
  BY <1>1, <1>8
<1>10. /\ w.own = o /\ w.slot = t /\ w.key = key /\ w.page = -a
  OBVIOUS
<1> HIDE DEF w, E, G, d, n, key
<1>11. D[p] \subseteq Nat /\ \A c \in DOMAIN ds : D[c] \subseteq Records /\ E[c] \subseteq D[c]
  <2>1. D[p] \subseteq Records /\ \A c \in DOMAIN ds : D[c] \subseteq Records
    BY <1>1
  <2>2. \A c \in DOMAIN ds : E[c] \subseteq D[c]
    BY <1>4
  <2> QED BY <2>1, <2>2, RecordsAreNumbers
\* What is under the old children.
<1>12. ASSUME NEW c \in Int, Exists(ds, ls, c)
       PROVE  /\ c = -p => Under(E, L, c) = E[p] /\ Under(D, L, c) = D[p]
              /\ c # -p => Under(E, L, c) = Under(D, L, c)
              /\ Under(E, L, c) \subseteq Under(D, L, c)
              /\ Above(G, c) = Above(H, c)
              /\ Exists(fs, ls, c)
  <2>1. CASE c < 0
    <3>1. -c \in DOMAIN ds
      BY <2>1, <1>12 DEF Exists
    <3>2. Under(E, L, c) = E[-c] /\ Under(D, L, c) = D[-c]
      BY <2>1 DEF Under
    <3>3. c # -p => -c # p
      <4>1. -(-c) = c
        OBVIOUS
      <4> QED BY <4>1
    <3>4. c = -p => -c = p
      BY <1>8
    <3>5. Above(G, c) = Above(H, c) /\ Exists(fs, ls, c)
      BY <1>5, <2>1, <3>1 DEF Above, Exists
    <3> QED BY <1>4, <1>11, <3>1, <3>2, <3>3, <3>4, <3>5
  <2>2. CASE ~(c < 0)
    <3>1. c # -p
      BY <1>8, <2>2
    <3>2. Under(E, L, c) = Under(D, L, c) /\ Above(G, c) = Above(H, c) /\ Exists(fs, ls, c)
      BY <1>12, <2>2 DEF Under, Above, Exists
    <3> QED BY <3>1, <3>2
  <2> QED BY <2>1, <2>2
<1>13. Dirs(fs, E)
  <2>1. \A j \in 1 .. m : e.keys[j] \in E[p]
    <3>1. \A j \in 1 .. m : j \in 1 .. n
      BY <1>1, <1>2
    <3> QED BY <1>1, <1>2, <1>4, <1>6, <3>1 DEF d
  <2>2. \A j \in 1 .. n - m - 1 : f.keys[j] \in E[a]
    <3> SUFFICES ASSUME NEW j \in 1 .. n - m - 1 PROVE f.keys[j] \in E[a]
      OBVIOUS
    <3>1. m + 1 + j \in 1 .. n
      BY <1>1, <1>2
    <3>2. f.keys[j] \in D[p] /\ f.keys[j] \in Nat
      BY <1>1, <1>2, <3>1
    <3>3. key <= f.keys[j]
      BY <1>3, <1>6, <3>2
    <3> QED BY <1>4, <3>2, <3>3
  <2>3. Len(e.children) = Len(e.keys) + 1 /\ Len(f.children) = Len(f.keys) + 1
    BY <1>1, <1>2
  <2>4. ASSUME NEW c \in DOMAIN fs
        PROVE  /\ fs[c] \in Dir /\ Len(fs[c].children) = Len(fs[c].keys) + 1
               /\ Sorted(fs[c].keys)
               /\ \A i \in 1 .. Len(fs[c].keys) : fs[c].keys[i] \in E[c]
    <3>1. CASE c = p
      BY <1>2, <1>6, <2>1, <2>3, <3>1
    <3>2. CASE c = a
      BY <1>2, <1>6, <2>2, <2>3, <3>2
    <3>3. CASE c # p /\ c # a
      <4>1. c \in DOMAIN ds /\ fs[c] = ds[c] /\ E[c] = D[c]
        BY <1>4, <3>3
      <4> QED BY <4>1 DEF Tree, Dirs
    <3> QED BY <3>1, <3>2, <3>3
  <2> QED BY <2>4 DEF Dirs
<1>14. Ranges(fs, ls, E, L, G)
  <2>1. E \in [DOMAIN fs -> SUBSET Records]
    <3>1. E = [c \in DOMAIN E |-> E[c]]
      BY DEF E, Divided
    <3>2. E[a] \subseteq Records
      BY <1>4, <1>11
    <3>3. \A c \in DOMAIN fs : E[c] \in SUBSET Records
      BY <1>11, <3>2
    <3> QED BY <1>4, <3>1, <3>3
  <2>2. G \in [DOMAIN fs -> Nat]
    <3>1. G = [c \in DOMAIN G |-> G[c]]
      BY DEF G, SameLevel
    <3>2. \A c \in DOMAIN fs : G[c] \in Nat
      BY <1>1, <1>5
    <3> QED BY <1>5, <3>1, <3>2
  <2>3. E[0] = Records
    BY <1>1, <1>4
  <2> QED BY <1>1, <2>1, <2>2, <2>3 DEF Ranges
<1>15. Routes(fs, E, L, w)
  <2> SUFFICES ASSUME NEW q \in DOMAIN fs, NEW r \in E[q], NEW i \in 0 .. Len(fs[q].keys),
                      Between(fs[q].keys, i, r)
               PROVE  r \in Under(E, L, Goes(w, q, i, r, fs[q].children[i + 1]))
    BY DEF Routes
  <2>1. CASE q = p
    <3>1. fs[q] = e /\ i \in 0 .. m /\ r \in D[p] /\ r \in Nat /\ r < key
      BY <1>2, <1>4, <1>11, <2>1
    <3>2. i \in 0 .. n /\ i + 1 \in 1 .. m + 1 /\ Between(d.keys, i, r)
      BY <1>1, <1>2, <1>7, <3>1
    <3> DEFINE c == d.children[i + 1]
    <3>3. r \in Under(D, L, c)
      BY <3>1, <3>2, Routed DEF d, n
    <3>4. c \in Int /\ Exists(ds, ls, c) /\ c # -p
      BY <3>2, <1>2b
    <3>5. e.children[i + 1] = c
      BY <1>2, <3>2
    <3> HIDE DEF c
    <3>6. r \in Under(E, L, c)
      BY <1>12, <3>3, <3>4
    <3>7. Goes(w, q, i, r, c) = c
      BY <1>8, <1>10, <2>1 DEF Goes
    <3> QED BY <3>1, <3>5, <3>6, <3>7
  <2>2. CASE q = a
    <3>1. fs[q] = f /\ i \in 0 .. n - m - 1 /\ r \in D[p] /\ r \in Nat /\ key <= r
      BY <1>2, <1>4, <1>11, <2>2
    <3>2. /\ m + 1 + i \in 0 .. n /\ i + 1 \in 1 .. n - m /\ Between(d.keys, m + 1 + i, r)
          /\ m + 1 + (i + 1) = (m + 1 + i) + 1
      BY <1>1, <1>2, <1>7, <2>2, <3>1
    <3> DEFINE c == d.children[(m + 1 + i) + 1]
    <3>3. r \in Under(D, L, c)
      BY <3>1, <3>2, Routed DEF d, n
    <3>4. c \in Int /\ Exists(ds, ls, c) /\ c # -p
      BY <3>2, <1>2b
    <3>5. f.children[i + 1] = c
      BY <1>2a, <3>1
    <3> HIDE DEF c
    <3>6. r \in Under(E, L, c)
      BY <1>12, <3>3, <3>4
    <3>7. Goes(w, q, i, r, c) = c
      BY <1>9, <1>10, <2>2 DEF Goes
    <3> QED BY <3>1, <3>5, <3>6, <3>7
  <2>3. CASE q # p /\ q # a
    <3>1. q \in DOMAIN ds /\ fs[q] = ds[q] /\ E[q] = D[q]
      BY <1>4, <2>3
    <3> DEFINE c == ds[q].children[i + 1]
    <3>2. r \in Under(D, L, c)
      BY <3>1, Routed
    <3>3. c \in Int /\ Exists(ds, ls, c) /\ r \in Nat
      BY <3>1, <3>2, ChildFacts
    <3>4. c = -p => q = o /\ i = t
      BY <3>1, <3>2, OnlyParent
    <3>5. q = o /\ i = t => c = -p
      BY <1>8
    <3> HIDE DEF c
    <3>6. CASE q = o /\ i = t /\ key <= r
      <4>1. Goes(w, q, i, r, c) = -a
        BY <1>10, <3>6 DEF Goes
      <4>2. r \in D[p]
        BY <1>12, <3>2, <3>3, <3>5, <3>6
      <4>3. r \in E[a]
        BY <1>4, <3>6, <4>2
      <4>4. Under(E, L, -a) = E[a]
        BY <1>9 DEF Under
      <4> QED BY <3>1, <4>1, <4>3, <4>4 DEF c
    <3>7. CASE q = o /\ i = t /\ ~(key <= r)
      <4>1. Goes(w, q, i, r, c) = c
        BY <1>10, <3>7 DEF Goes
      <4>2. r \in D[p]
        BY <1>12, <3>2, <3>3, <3>5, <3>7
      <4>3. r < key
        BY <1>3, <3>3, <3>7
      <4>4. r \in E[p]
        BY <1>4, <4>2, <4>3
      <4> QED BY <1>12, <3>1, <3>3, <3>5, <3>7, <4>1, <4>4 DEF c
    <3>8. CASE ~(q = o /\ i = t)
      <4>1. Goes(w, q, i, r, c) = c
        BY <1>10, <3>8 DEF Goes
      <4> QED BY <1>12, <3>1, <3>2, <3>3, <3>4, <3>8, <4>1 DEF c
    <3> QED BY <3>6, <3>7, <3>8
  <2> QED BY <2>1, <2>2, <2>3
<1>16. Exact(fs, E, L)
  <2> SUFFICES ASSUME NEW q \in DOMAIN fs, NEW i \in 0 .. Len(fs[q].keys),
                      NEW r \in Under(E, L, fs[q].children[i + 1])
               PROVE  r \in E[q] /\ Between(fs[q].keys, i, r)
    BY DEF Exact
  <2>1. CASE q = p
    <3>1. fs[q] = e /\ i \in 0 .. m /\ i \in 0 .. n /\ i + 1 \in 1 .. m + 1
      BY <1>1, <1>2, <2>1
    <3> DEFINE c == d.children[i + 1]
    <3>2. /\ c \in Int /\ Exists(ds, ls, c)
          /\ \A x \in Under(D, L, c) : x \in D[p] /\ Between(d.keys, i, x) /\ x \in Nat
      BY <3>1, <1>2b
    <3>3. e.children[i + 1] = c
      BY <1>2, <3>1
    <3> HIDE DEF c
    <3>4. r \in D[p] /\ Between(d.keys, i, r) /\ r \in Nat
      <4>1. r \in Under(E, L, c)
        BY <3>1, <3>3
      <4>2. r \in Under(D, L, c)
        BY <1>12, <3>2, <4>1
      <4> QED BY <3>2, <4>2
    <3>5. Between(e.keys, i, r) /\ r < key
      BY <1>7, <3>1, <3>4
    <3> QED BY <1>4, <2>1, <3>1, <3>4, <3>5
  <2>2. CASE q = a
    <3>1. /\ fs[q] = f /\ i \in 0 .. n - m - 1 /\ i + 1 \in 1 .. n - m
          /\ m + 1 + i \in 0 .. n /\ m + 1 + (i + 1) = (m + 1 + i) + 1
      <4>1. fs[q] = f /\ Len(f.keys) = n - m - 1 /\ m \in 1 .. n - 1 /\ n \in Nat
        BY <1>1, <1>2, <2>2
      <4>2. i \in 0 .. n - m - 1
        BY <4>1
      <4> QED BY <4>1, <4>2
    <3> DEFINE c == d.children[(m + 1 + i) + 1]
    <3>2. /\ c \in Int /\ Exists(ds, ls, c)
          /\ \A x \in Under(D, L, c) : x \in D[p] /\ Between(d.keys, m + 1 + i, x) /\ x \in Nat
      BY <3>1, <1>2b
    <3>3. f.children[i + 1] = c
      BY <1>2a, <3>1
    <3> HIDE DEF c
    <3>4. r \in D[p] /\ Between(d.keys, m + 1 + i, r) /\ r \in Nat
      BY <1>12, <3>1, <3>2, <3>3
    <3>5. Between(f.keys, i, r) /\ key <= r
      BY <1>7, <3>1, <3>4
    <3> QED BY <1>4, <2>2, <3>1, <3>4, <3>5
  <2>3. CASE q # p /\ q # a
    <3>1. q \in DOMAIN ds /\ fs[q] = ds[q] /\ E[q] = D[q]
      BY <1>4, <2>3
    <3> DEFINE c == ds[q].children[i + 1]
    <3>2. /\ c \in Int /\ Exists(ds, ls, c)
          /\ \A x \in Under(D, L, c) : x \in D[q] /\ Between(ds[q].keys, i, x)
      BY <3>1, ChildFacts
    <3>3. r \in Under(E, L, c)
      BY <3>1
    <3> HIDE DEF c
    <3>4. r \in Under(D, L, c)
      BY <1>12, <3>2, <3>3
    <3> QED BY <3>1, <3>2, <3>4
  <2> QED BY <2>1, <2>2, <2>3
<1>17. Levels(fs, ls, G)
  <2>1. ASSUME NEW q \in DOMAIN fs, NEW j \in 1 .. Len(fs[q].keys) + 1
        PROVE  Exists(fs, ls, fs[q].children[j]) /\ G[q] = Above(G, fs[q].children[j])
    <3>1. CASE q = p
      <4>1. fs[q] = e /\ j \in 1 .. m + 1 /\ j - 1 \in 0 .. n /\ (j - 1) + 1 = j
        <5>1. fs[q] = e /\ Len(e.keys) = m /\ m \in 1 .. n - 1 /\ n \in Nat
          BY <1>1, <1>2, <3>1
        <5>2. j \in 1 .. m + 1
          BY <2>1, <5>1
        <5> QED BY <5>1, <5>2
      <4> DEFINE c == d.children[j]
      <4>2. c \in Int /\ Exists(ds, ls, c) /\ H[p] = Above(H, c)
        <5> DEFINE i == j - 1
        <5>1. i \in 0 .. n /\ i + 1 = j
          BY <4>1
        <5> HIDE DEF i
        <5> QED BY <5>1, <1>2b
      <4>3. e.children[j] = c
        BY <1>2, <4>1
      <4> HIDE DEF c
      <4> QED BY <1>5, <1>12, <3>1, <4>1, <4>2, <4>3
    <3>2. CASE q = a
      <4> DEFINE i == m + j
      <4>1. fs[q] = f /\ j \in 1 .. n - m /\ i \in 0 .. n /\ i + 1 = m + 1 + j
        <5>1. fs[q] = f /\ Len(f.keys) = n - m - 1 /\ m \in 1 .. n - 1 /\ n \in Nat
          BY <1>1, <1>2, <3>2
        <5>2. j \in 1 .. n - m
          BY <2>1, <5>1
        <5> QED BY <5>1, <5>2
      <4> HIDE DEF i
      <4> DEFINE c == d.children[i + 1]
      <4>2. c \in Int /\ Exists(ds, ls, c) /\ H[p] = Above(H, c)
        BY <4>1, <1>2b
      <4>3. f.children[j] = c
        <5>1. f.children[j] = d.children[m + 1 + j]
          BY <1>2, <4>1
        <5> QED BY <4>1, <5>1
      <4> HIDE DEF c
      <4> QED BY <1>5, <1>12, <3>2, <4>1, <4>2, <4>3
    <3>3. CASE q # p /\ q # a
      <4>1. q \in DOMAIN ds /\ fs[q] = ds[q] /\ G[q] = H[q]
        BY <1>5, <3>3
      <4> DEFINE i == j - 1
      <4>2. i \in 0 .. Len(ds[q].keys) /\ i + 1 = j
        <5>1. Len(ds[q].keys) \in Nat /\ j \in 1 .. Len(ds[q].keys) + 1
          BY <2>1, <4>1, DirTypes DEF Tree, Dirs
        <5> QED BY <5>1
      <4> HIDE DEF i
      <4> DEFINE c == ds[q].children[i + 1]
      <4>3. c \in Int /\ Exists(ds, ls, c) /\ H[q] = Above(H, c)
        BY <4>1, <4>2, ChildFacts
      <4>4. fs[q].children[j] = c
        BY <4>1, <4>2
      <4> HIDE DEF c
      <4> QED BY <1>12, <4>1, <4>3, <4>4
    <3> QED BY <3>1, <3>2, <3>3
  <2>2. ASSUME NEW q \in DOMAIN fs, q # 0 PROVE G[q] < G[0]
    <3>1. \A c \in DOMAIN ds : c # 0 => H[c] < H[0]
      BY DEF Tree, Levels
    <3>2. CASE q = a
      BY <1>1, <1>5, <3>1, <3>2
    <3>3. CASE q # a
      BY <1>1, <1>5, <2>2, <3>1, <3>3
    <3> QED BY <3>2, <3>3
  <2> QED BY <2>1, <2>2 DEF Levels
<1>18. Apart(fs, ls, E, L, G)
  <2>0. \A q, z \in DOMAIN ds : H[q] = H[z] /\ D[q] \cap D[z] # {} => q = z
    BY DEF Tree, Apart
  <2>1. \A q \in DOMAIN ds : G[q] = G[a] /\ E[q] \cap E[a] # {} => FALSE
    <3> SUFFICES ASSUME NEW q \in DOMAIN ds, G[q] = G[a], NEW x \in E[q], x \in E[a] PROVE FALSE
      OBVIOUS
    <3>1. x \in D[p] /\ key <= x /\ x \in D[q] /\ H[q] = H[p] /\ x \in Nat
      BY <1>4, <1>5, <1>11
    <3>2. q = p
      BY <2>0, <3>1
    <3>3. x < key
      BY <1>4, <3>2
    <3> QED BY <1>3, <3>1, <3>3
  <2>2. ASSUME NEW q \in DOMAIN fs, NEW z \in DOMAIN fs, G[q] = G[z], E[q] \cap E[z] # {}
        PROVE  q = z
    <3>1. CASE q = a \/ z = a
      BY <2>1, <2>2, <3>1
    <3>2. CASE q # a /\ z # a
      <4>1. q \in DOMAIN ds /\ z \in DOMAIN ds /\ H[q] = H[z] /\ D[q] \cap D[z] # {}
        BY <1>5, <1>11, <2>2, <3>2
      <4> QED BY <2>0, <4>1
    <3> QED BY <3>1, <3>2
  <2> QED BY <2>2 DEF Tree, Apart
<1>19. Owned(fs, ls, E, L, G, w)
  <2>1. /\ o \in DOMAIN fs /\ fs[o] = ds[o] /\ E[o] = D[o] /\ G[o] = H[o]
        /\ Under(E, L, -a) = E[a] /\ Above(G, -a) = G[a] + 1 /\ Exists(fs, ls, -a)
    BY <1>4, <1>5, <1>8, <1>9 DEF Under, Above, Exists
  <2>2. \A r \in D[p] : r \in D[o] /\ Between(ds[o].keys, t, r)
    <3>1. Under(D, L, ds[o].children[t + 1]) = D[p]
      BY <1>8 DEF Under
    <3> QED BY <1>8, <3>1 DEF Tree, Exact
  <2>3. key \in E[a]
    BY <1>3, <1>4
  <2>4. \A r \in E[a] : r \in D[p] /\ key <= r
    BY <1>4
  <2>5. \A r \in Under(E, L, fs[o].children[t + 1]) : r < key
    <3>1. Under(E, L, -p) = E[p]
      BY <1>8 DEF Under
    <3> QED BY <1>4, <1>8, <2>1, <3>1
  <2>6. \E r \in D[p] : r < key
    <3>1. 1 \in 1 .. m /\ 1 \in 1 .. n
      BY <1>1, <1>2
    <3>2. e.keys[1] = d.keys[1] /\ e.keys[1] < key /\ d.keys[1] \in D[p]
      BY <1>1, <1>2, <1>6, <3>1
    <3> QED BY <3>2
  <2> QED BY <1>8, <1>9, <1>10, <1>5, <2>1, <2>2, <2>3, <2>4, <2>5, <2>6 DEF Owned
<1>20. Reached(fs, ls, w)
  <2> SUFFICES ASSUME NEW c \in DOMAIN ls
               PROVE  \E q \in DOMAIN fs : \E i \in 1 .. Len(fs[q].keys) + 1 :
                        fs[q].children[i] = c
    BY DEF Reached
  <2>1. PICK q \in DOMAIN ds : \E i \in 1 .. Len(ds[q].keys) + 1 : ds[q].children[i] = c
    BY DEF Tree, Reached, NoOwner
  <2>2. PICK i \in 1 .. Len(ds[q].keys) + 1 : ds[q].children[i] = c
    BY <2>1
  <2>3. CASE q # p
    BY <2>2, <2>3
  <2>4. CASE q = p
    <3>1. i \in 1 .. n + 1 /\ d.children[i] = c
      BY <2>2, <2>4 DEF d, n
    <3>2. CASE i <= m + 1
      <4>1. i \in 1 .. m + 1
        BY <3>1, <3>2
      <4>2. p \in DOMAIN fs /\ fs[p] = e /\ e.children[i] = c /\ i \in 1 .. Len(e.keys) + 1
        BY <1>2, <3>1, <4>1
      <4> QED BY <4>2
    <3>3. CASE i > m + 1
      <4> DEFINE j == i - (m + 1)
      <4>1. j \in 1 .. n - m /\ m + 1 + j = i /\ j \in 1 .. (n - m - 1) + 1
        BY <1>1, <1>2, <3>1, <3>3
      <4> HIDE DEF j
      <4>2. a \in DOMAIN fs /\ fs[a] = f /\ f.children[j] = c /\ j \in 1 .. Len(f.keys) + 1
        BY <1>2, <3>1, <4>1
      <4> QED BY <4>2
    <3> QED BY <1>1, <1>2, <3>1, <3>2, <3>3
  <2> QED BY <2>3, <2>4
<1>21. LeavesOf(ls, L)
  BY DEF Tree
<1>22. Tree(fs, ls, E, L, G, w)
  BY <1>13, <1>14, <1>15, <1>16, <1>17, <1>18, <1>19, <1>20, <1>21 DEF Tree
<1> QED BY <1>22 DEF E, G, w, key, d

\* A leaf is cut in two: its parent is the owner of the split.
LEMMA CutLeaf ==
  ASSUME NEW ds, NEW ls, NEW D, NEW L, NEW H, Tree(ds, ls, D, L, H, NoOwner),
         NEW p \in DOMAIN ls, NEW o, NEW t, Parent(ds, o, t, p),
         NEW key \in L[p], \E x \in L[p] : x < key,
         NEW a \in Nat, a \notin DOMAIN ls,
         NEW ms, DOMAIN ms = DOMAIN ls \cup {a},
         \A c \in DOMAIN ls : c # p => ms[c] = ls[c],
         ms[p] \in Leaf, InOrder(ms[p]), ms[a] \in Leaf, InOrder(ms[a]),
         \A i \in 0 .. ms[p].value_count - 1 : ms[p].records[i] \in {x \in L[p] : x < key},
         \A i \in 0 .. ms[a].value_count - 1 : ms[a].records[i] \in {x \in L[p] : key <= x}
  PROVE  Tree(ds, ms, D, Divided(L, p, a, key), H,
              [own |-> o, slot |-> t, key |-> key, page |-> a])
<1> DEFINE M == Divided(L, p, a, key)
           w == [own |-> o, slot |-> t, key |-> key, page |-> a]
<1>1. /\ DOMAIN ds \subseteq Nat /\ DOMAIN ls \subseteq Nat
      /\ D \in [DOMAIN ds -> SUBSET Records] /\ L \in [DOMAIN ls -> SUBSET Records]
      /\ H \in [DOMAIN ds -> Nat] /\ p \in Nat
  BY DEF Tree, Ranges
<1>2. /\ DOMAIN M = DOMAIN ls \cup {a}
      /\ M[a] = {x \in L[p] : key <= x} /\ M[p] = {x \in L[p] : x < key}
      /\ \A c \in DOMAIN ls : c # p => M[c] = L[c]
  <2>1. DOMAIN L = DOMAIN ls
    BY <1>1
  <2> QED BY <2>1 DEF Divided
<1>3. w.own = o /\ w.slot = t /\ w.key = key /\ w.page = a
  OBVIOUS
<1>4. L[p] \subseteq Records /\ L[p] \subseteq Nat /\ key \in Nat
  <2>1. L[p] \subseteq Records
    BY <1>1
  <2> QED BY <2>1, RecordsAreNumbers
<1>5. /\ o \in DOMAIN ds /\ t \in 0 .. Len(ds[o].keys) /\ ds[o].children[t + 1] = p
      /\ o \in Nat /\ H[o] = 0
  <2>1. o \in DOMAIN ds /\ t \in 0 .. Len(ds[o].keys) /\ ds[o].children[t + 1] = p
    BY DEF Parent
  <2>2. H[o] = Above(H, p)
    BY <2>1, ChildFacts
  <2>3. ~(p < 0)
    BY <1>1
  <2> QED BY <1>1, <2>1, <2>2, <2>3 DEF Above
<1> HIDE DEF M, w
<1>6. ASSUME NEW c \in Int, Exists(ds, ls, c)
      PROVE  /\ c = p => Under(D, M, c) = M[p] /\ Under(D, L, c) = L[p]
             /\ c # p => Under(D, M, c) = Under(D, L, c)
             /\ Under(D, M, c) \subseteq Under(D, L, c)
             /\ Exists(ds, ms, c)
  <2>1. CASE c < 0
    <3>1. c # p
      BY <1>1, <2>1
    <3> QED BY <1>6, <2>1, <3>1 DEF Under, Exists
  <2>2. CASE ~(c < 0)
    <3>1. c \in DOMAIN ls /\ Under(D, M, c) = M[c] /\ Under(D, L, c) = L[c] /\ Exists(ds, ms, c)
      BY <1>6, <2>2 DEF Under, Exists
    <3> QED BY <1>2, <3>1
  <2> QED BY <2>1, <2>2
<1>7. LeavesOf(ms, M)
  <2> SUFFICES ASSUME NEW c \in DOMAIN ms
               PROVE  /\ ms[c] \in Leaf /\ InOrder(ms[c])
                      /\ \A i \in 0 .. ms[c].value_count - 1 : ms[c].records[i] \in M[c]
    BY DEF LeavesOf
  <2>1. CASE c = p
    BY <1>2, <2>1
  <2>2. CASE c = a
    BY <1>2, <2>2
  <2>3. CASE c # p /\ c # a
    <3>1. c \in DOMAIN ls /\ ms[c] = ls[c] /\ M[c] = L[c]
      BY <1>2, <2>3
    <3> QED BY <3>1 DEF Tree, LeavesOf
  <2> QED BY <2>1, <2>2, <2>3
<1>8. Ranges(ds, ms, D, M, H)
  <2>1. M \in [DOMAIN ms -> SUBSET Records]
    <3>1. M = [c \in DOMAIN M |-> M[c]]
      BY DEF M, Divided
    <3>2. M[a] \subseteq Records /\ M[p] \subseteq Records
      BY <1>2, <1>4
    <3>3. \A c \in DOMAIN ls : L[c] \in SUBSET Records
      BY <1>1
    <3>4. \A c \in DOMAIN ms : M[c] \in SUBSET Records
      BY <1>2, <3>2, <3>3
    <3> QED BY <1>2, <3>1, <3>4
  <2> QED BY <1>1, <2>1 DEF Ranges, Tree
<1>9. Routes(ds, D, M, w)
  <2> SUFFICES ASSUME NEW q \in DOMAIN ds, NEW r \in D[q], NEW i \in 0 .. Len(ds[q].keys),
                      Between(ds[q].keys, i, r)
               PROVE  r \in Under(D, M, Goes(w, q, i, r, ds[q].children[i + 1]))
    BY DEF Routes
  <2> DEFINE c == ds[q].children[i + 1]
  <2>1. r \in Under(D, L, c)
    BY Routed
  <2>2. c \in Int /\ Exists(ds, ls, c) /\ r \in Nat
    BY <2>1, ChildFacts
  <2>3. c = p => q = o /\ i = t
    BY <2>1, OnlyParent
  <2>4. q = o /\ i = t => c = p
    BY <1>5
  <2> HIDE DEF c
  <2>5. CASE q = o /\ i = t /\ key <= r
    <3>1. Goes(w, q, i, r, c) = a
      BY <1>3, <2>5 DEF Goes
    <3>2. r \in L[p]
      BY <1>6, <2>1, <2>2, <2>4, <2>5
    <3>3. r \in M[a]
      BY <1>2, <2>5, <3>2
    <3>4. Under(D, M, a) = M[a]
      BY DEF Under
    <3> QED BY <3>1, <3>3, <3>4 DEF c
  <2>6. CASE q = o /\ i = t /\ ~(key <= r)
    <3>1. Goes(w, q, i, r, c) = c
      BY <1>3, <2>6 DEF Goes
    <3>2. r \in L[p]
      BY <1>6, <2>1, <2>2, <2>4, <2>6
    <3>3. r < key
      BY <1>4, <2>2, <2>6
    <3>4. r \in M[p]
      BY <1>2, <3>2, <3>3
    <3> QED BY <1>6, <2>2, <2>4, <2>6, <3>1, <3>4 DEF c
  <2>7. CASE ~(q = o /\ i = t)
    <3>1. Goes(w, q, i, r, c) = c
      BY <1>3, <2>7 DEF Goes
    <3> QED BY <1>6, <2>1, <2>2, <2>3, <2>7, <3>1 DEF c
  <2> QED BY <2>5, <2>6, <2>7
<1>10. Exact(ds, D, M)
  <2> SUFFICES ASSUME NEW q \in DOMAIN ds, NEW i \in 0 .. Len(ds[q].keys),
                      NEW r \in Under(D, M, ds[q].children[i + 1])
               PROVE  r \in D[q] /\ Between(ds[q].keys, i, r)
    BY DEF Exact
  <2> DEFINE c == ds[q].children[i + 1]
  <2>1. /\ c \in Int /\ Exists(ds, ls, c)
        /\ \A x \in Under(D, L, c) : x \in D[q] /\ Between(ds[q].keys, i, x)
    BY ChildFacts
  <2>2. r \in Under(D, M, c)
    OBVIOUS
  <2> HIDE DEF c
  <2>3. r \in Under(D, L, c)
    BY <1>6, <2>1, <2>2
  <2> QED BY <2>1, <2>3
<1>11. Levels(ds, ms, H)
  <2>1. \A c : Exists(ds, ls, c) => Exists(ds, ms, c)
    BY DEF Exists
  <2> QED BY <2>1 DEF Tree, Levels
<1>12. Apart(ds, ms, D, M, H)
  <2>0. \A q, z \in DOMAIN ls : L[q] \cap L[z] # {} => q = z
    BY DEF Tree, Apart
  <2>1. \A c \in DOMAIN ls : M[c] \subseteq L[c]
    BY <1>2
  <2>2. \A q \in DOMAIN ls : M[q] \cap M[a] # {} => FALSE
    <3> SUFFICES ASSUME NEW q \in DOMAIN ls, NEW x \in M[q], x \in M[a] PROVE FALSE
      OBVIOUS
    <3>1. x \in L[p] /\ key <= x /\ x \in L[q] /\ x \in Nat
      BY <1>2, <1>4, <2>1
    <3>2. q = p
      BY <2>0, <3>1
    <3>3. x < key
      BY <1>2, <3>2
    <3> QED BY <1>4, <3>1, <3>3
  <2>3. ASSUME NEW q \in DOMAIN ms, NEW z \in DOMAIN ms, M[q] \cap M[z] # {}
        PROVE  q = z
    <3>1. CASE q = a \/ z = a
      BY <2>2, <2>3, <3>1
    <3>2. CASE q # a /\ z # a
      <4>1. q \in DOMAIN ls /\ z \in DOMAIN ls /\ L[q] \cap L[z] # {}
        BY <2>1, <2>3, <3>2
      <4> QED BY <2>0, <4>1
    <3> QED BY <3>1, <3>2
  <2> QED BY <2>3 DEF Tree, Apart
<1>13. Owned(ds, ms, D, M, H, w)
  <2>1. Under(D, M, a) = M[a] /\ Above(H, a) = 0 /\ Exists(ds, ms, a) /\ a \in Int
    BY DEF Under, Above, Exists
  <2>2. \A r \in L[p] : r \in D[o] /\ Between(ds[o].keys, t, r)
    <3>1. Under(D, L, ds[o].children[t + 1]) = L[p]
      BY <1>1, <1>5 DEF Under
    <3> QED BY <1>5, <3>1 DEF Tree, Exact
  <2>3. key \in M[a] /\ \A r \in M[a] : r \in L[p] /\ key <= r
    BY <1>2, <1>4
  <2>4. \A r \in Under(D, M, ds[o].children[t + 1]) : r < key
    <3>1. Under(D, M, p) = M[p]
      BY <1>1 DEF Under
    <3> QED BY <1>2, <1>5, <3>1
  <2> QED BY <1>3, <1>5, <2>1, <2>2, <2>3, <2>4 DEF Owned
<1>14. Reached(ds, ms, w)
  <2>0. w.own # -1
    BY <1>3, <1>5
  <2>1. \A c \in DOMAIN ls : \E q \in DOMAIN ds : \E i \in 1 .. Len(ds[q].keys) + 1 :
                               ds[q].children[i] = c
    BY DEF Tree, Reached, NoOwner
  <2> QED BY <1>3, <2>0, <2>1 DEF Reached
<1>15. Dirs(ds, D)
  BY DEF Tree
<1>16. Tree(ds, ms, D, M, H, w)
  BY <1>7, <1>8, <1>9, <1>10, <1>11, <1>12, <1>13, <1>14, <1>15 DEF Tree
<1> QED BY <1>16 DEF M, w

\* A leaf changes and keeps to its range.
LEMMA ChangeLeaf ==
  ASSUME NEW ds, NEW ls, NEW D, NEW L, NEW H, NEW w, Tree(ds, ls, D, L, H, w),
         NEW ms, DOMAIN ms = DOMAIN ls, NEW p \in DOMAIN ls,
         \A c \in DOMAIN ls : c # p => ms[c] = ls[c],
         ms[p] \in Leaf, InOrder(ms[p]),
         \A i \in 0 .. ms[p].value_count - 1 : ms[p].records[i] \in L[p]
  PROVE  Tree(ds, ms, D, L, H, w)
<1>1. LeavesOf(ms, L)
  BY DEF Tree, LeavesOf
<1>2. \A c : Exists(ds, ls, c) <=> Exists(ds, ms, c)
  BY DEF Exists
<1>3. Ranges(ds, ms, D, L, H) /\ Levels(ds, ms, H) /\ Apart(ds, ms, D, L, H)
  BY <1>2 DEF Tree, Ranges, Levels, Apart
<1>4. Owned(ds, ms, D, L, H, w) /\ Reached(ds, ms, w)
  BY <1>2 DEF Tree, Owned, Reached
<1> QED BY <1>1, <1>3, <1>4 DEF Tree

\* A page of one more level between the root and its children.
Raised(ds, a) ==
  [c \in DOMAIN ds \cup {a} |->
     IF c = 0 THEN [keys |-> << >>, children |-> <<-a>>]
     ELSE IF c = a THEN ds[0] ELSE ds[c]]

RaisedRanges(D, a) == [c \in DOMAIN D \cup {a} |-> IF c = a THEN Records ELSE D[c]]

RaisedHeights(H, a) ==
  [c \in DOMAIN H \cup {a} |-> IF c = 0 THEN H[0] + 1 ELSE IF c = a THEN H[0] ELSE H[c]]

\* Copying the root to a new page and leaving it with that one child is still a
\* tree.
LEMMA RaiseRoot ==
  ASSUME NEW ds, NEW ls, NEW D, NEW L, NEW H, Tree(ds, ls, D, L, H, NoOwner),
         NEW a \in Nat, a \notin DOMAIN ds
  PROVE  /\ Tree(Raised(ds, a), ls, RaisedRanges(D, a), L, RaisedHeights(H, a), NoOwner)
         /\ Parent(Raised(ds, a), 0, 0, -a)
<1> DEFINE fs == Raised(ds, a)
           E == RaisedRanges(D, a)
           G == RaisedHeights(H, a)
<1>1. /\ DOMAIN ds \subseteq Nat /\ DOMAIN ls \subseteq Nat /\ 0 \in DOMAIN ds
      /\ D \in [DOMAIN ds -> SUBSET Records] /\ L \in [DOMAIN ls -> SUBSET Records]
      /\ H \in [DOMAIN ds -> Nat] /\ D[0] = Records
  BY DEF Tree, Ranges
<1>2. a # 0 /\ -a < 0 /\ -(-a) = a /\ -a \in Int
  BY <1>1
<1>3. /\ DOMAIN fs = DOMAIN ds \cup {a} /\ fs[a] = ds[0]
      /\ fs[0] = [keys |-> << >>, children |-> <<-a>>]
      /\ \A c \in DOMAIN ds : c # 0 => fs[c] = ds[c]
  BY <1>1, <1>2 DEF Raised
<1>4. DOMAIN E = DOMAIN ds \cup {a} /\ E[a] = Records /\ \A c \in DOMAIN ds : E[c] = D[c]
  <2>1. DOMAIN D = DOMAIN ds
    BY <1>1
  <2> QED BY <2>1 DEF RaisedRanges
<1>5. /\ DOMAIN G = DOMAIN ds \cup {a} /\ G[a] = H[0] /\ G[0] = H[0] + 1
      /\ \A c \in DOMAIN ds : c # 0 => G[c] = H[c]
  <2>1. DOMAIN H = DOMAIN ds
    BY <1>1
  <2> QED BY <1>1, <1>2, <2>1 DEF RaisedHeights
<1>6. \A c \in DOMAIN ds : H[c] \in Nat
  BY <1>1
<1> HIDE DEF fs, E, G
<1>7. /\ fs[0] \in Dir /\ Len(fs[0].keys) = 0 /\ Len(fs[0].children) = 1
      /\ fs[0].children[1] = -a /\ Sorted(fs[0].keys)
  <2>1. << >> \in Seq(Records) /\ <<-a>> \in Seq(Int)
    BY <1>2
  <2>2. fs[0].keys = << >> /\ fs[0].children = <<-a>>
    BY <1>3
  <2>3. fs[0] \in Dir
    BY <1>3, <2>1 DEF Dir
  <2>4. Len(<< >>) = 0 /\ Len(<<-a>>) = 1 /\ <<-a>>[1] = -a
    OBVIOUS
  <2>5. Sorted(<< >>)
    BY <2>4 DEF Sorted
  <2> QED BY <2>2, <2>3, <2>4, <2>5
<1>8. ASSUME NEW c \in Int, Exists(ds, ls, c)
      PROVE  Under(E, L, c) = Under(D, L, c) /\ Above(G, c) = Above(H, c) /\ Exists(fs, ls, c)
  <2>1. CASE c < 0
    <3>1. -c \in DOMAIN ds /\ -c # 0
      BY <1>8, <2>1 DEF Exists
    <3> QED BY <1>3, <1>4, <1>5, <2>1, <3>1 DEF Under, Above, Exists
  <2>2. CASE ~(c < 0)
    BY <1>8, <2>2 DEF Under, Above, Exists
  <2> QED BY <2>1, <2>2
\* The page below the root, and every other, is an old one.
<1>9. ASSUME NEW q \in DOMAIN fs, q # 0
      PROVE  \E z \in DOMAIN ds : fs[q] = ds[z] /\ E[q] = D[z] /\ G[q] = H[z]
  <2>1. CASE q = a
    BY <1>1, <1>3, <1>4, <1>5, <2>1
  <2>2. CASE q # a
    BY <1>3, <1>4, <1>5, <1>9, <2>2
  <2> QED BY <2>1, <2>2
<1>10. Dirs(fs, E)
  <2> SUFFICES ASSUME NEW q \in DOMAIN fs
               PROVE  /\ fs[q] \in Dir /\ Len(fs[q].children) = Len(fs[q].keys) + 1
                      /\ Sorted(fs[q].keys)
                      /\ \A i \in 1 .. Len(fs[q].keys) : fs[q].keys[i] \in E[q]
    BY DEF Dirs
  <2>1. CASE q = 0
    <3>1. Len(fs[0].children) = Len(fs[0].keys) + 1
      BY <1>7
    <3>2. \A i \in 1 .. Len(fs[0].keys) : fs[0].keys[i] \in E[0]
      <4>1. \A i \in 1 .. Len(fs[0].keys) : FALSE
        BY <1>7
      <4> QED BY <4>1
    <3> QED BY <1>7, <2>1, <3>1, <3>2
  <2>2. CASE q # 0
    BY <1>9, <2>2 DEF Tree, Dirs
  <2> QED BY <2>1, <2>2
<1>11. Ranges(fs, ls, E, L, G)
  <2>1. E \in [DOMAIN fs -> SUBSET Records]
    <3>1. E = [c \in DOMAIN E |-> E[c]]
      BY DEF E, RaisedRanges
    <3>2. \A c \in DOMAIN fs : E[c] \in SUBSET Records
      BY <1>1, <1>3, <1>4
    <3> QED BY <1>3, <1>4, <3>1, <3>2
  <2>2. G \in [DOMAIN fs -> Nat]
    <3>1. G = [c \in DOMAIN G |-> G[c]]
      BY DEF G, RaisedHeights
    <3>2. \A c \in DOMAIN fs : G[c] \in Nat
      BY <1>1, <1>3, <1>5, <1>6
    <3> QED BY <1>3, <1>5, <3>1, <3>2
  <2> QED BY <1>1, <1>3, <1>4, <2>1, <2>2 DEF Ranges
<1>12. Routes(fs, E, L, NoOwner)
  <2> SUFFICES ASSUME NEW q \in DOMAIN fs, NEW r \in E[q], NEW i \in 0 .. Len(fs[q].keys),
                      Between(fs[q].keys, i, r)
               PROVE  r \in Under(E, L, fs[q].children[i + 1])
    <3>1. \A q \in DOMAIN fs : q # NoOwner.own
      BY <1>1, <1>3 DEF NoOwner
    <3> QED BY <3>1 DEF Routes, Goes
  <2>1. CASE q = 0
    <3>1. i = 0 /\ i + 1 = 1 /\ r \in Records
      BY <1>1, <1>4, <1>7, <2>1
    <3>2. Under(E, L, -a) = Records
      BY <1>2, <1>4 DEF Under
    <3> QED BY <1>7, <2>1, <3>1, <3>2
  <2>2. CASE q # 0
    <3>1. PICK z \in DOMAIN ds : fs[q] = ds[z] /\ E[q] = D[z]
      BY <1>9, <2>2
    <3> DEFINE c == ds[z].children[i + 1]
    <3>2. r \in Under(D, L, c)
      BY <3>1, Routed
    <3>3. c \in Int /\ Exists(ds, ls, c)
      BY <3>1, ChildFacts
    <3> HIDE DEF c
    <3>4. r \in Under(E, L, c)
      BY <1>8, <3>2, <3>3
    <3> QED BY <3>1, <3>4 DEF c
  <2> QED BY <2>1, <2>2
<1>13. Exact(fs, E, L)
  <2> SUFFICES ASSUME NEW q \in DOMAIN fs, NEW i \in 0 .. Len(fs[q].keys),
                      NEW r \in Under(E, L, fs[q].children[i + 1])
               PROVE  r \in E[q] /\ Between(fs[q].keys, i, r)
    BY DEF Exact
  <2>1. CASE q = 0
    <3>1. i = 0 /\ i + 1 = 1
      BY <1>7, <2>1
    <3>2. Under(E, L, -a) = Records
      BY <1>2, <1>4 DEF Under
    <3>3. r \in Records
      BY <1>7, <2>1, <3>1, <3>2
    <3>4. Between(fs[q].keys, i, r)
      BY <1>7, <2>1, <3>1 DEF Between
    <3> QED BY <1>1, <1>4, <2>1, <3>3, <3>4
  <2>2. CASE q # 0
    <3>1. PICK z \in DOMAIN ds : fs[q] = ds[z] /\ E[q] = D[z]
      BY <1>9, <2>2
    <3> DEFINE c == ds[z].children[i + 1]
    <3>2. /\ c \in Int /\ Exists(ds, ls, c)
          /\ \A x \in Under(D, L, c) : x \in D[z] /\ Between(ds[z].keys, i, x)
      BY <3>1, ChildFacts
    <3>3. r \in Under(E, L, c)
      BY <3>1
    <3> HIDE DEF c
    <3>4. r \in Under(D, L, c)
      BY <1>8, <3>2, <3>3
    <3> QED BY <3>1, <3>2, <3>4
  <2> QED BY <2>1, <2>2
<1>14. Levels(fs, ls, G)
  <2>1. ASSUME NEW q \in DOMAIN fs, NEW j \in 1 .. Len(fs[q].keys) + 1
        PROVE  Exists(fs, ls, fs[q].children[j]) /\ G[q] = Above(G, fs[q].children[j])
    <3>1. CASE q = 0
      <4>1. j = 1
        BY <1>7, <2>1, <3>1
      <4>2. Exists(fs, ls, -a) /\ Above(G, -a) = H[0] + 1
        BY <1>2, <1>3, <1>5 DEF Exists, Above
      <4> QED BY <1>5, <1>7, <3>1, <4>1, <4>2
    <3>2. CASE q # 0
      <4>1. PICK z \in DOMAIN ds : fs[q] = ds[z] /\ G[q] = H[z]
        BY <1>9, <3>2
      <4> DEFINE i == j - 1
      <4>2. i \in 0 .. Len(ds[z].keys) /\ i + 1 = j
        <5>1. Len(ds[z].keys) \in Nat /\ j \in 1 .. Len(ds[z].keys) + 1
          BY <2>1, <4>1, DirTypes DEF Tree, Dirs
        <5> QED BY <5>1
      <4> HIDE DEF i
      <4> DEFINE c == ds[z].children[i + 1]
      <4>3. c \in Int /\ Exists(ds, ls, c) /\ H[z] = Above(H, c)
        BY <4>1, <4>2, ChildFacts
      <4>4. fs[q].children[j] = c
        BY <4>1, <4>2
      <4> HIDE DEF c
      <4> QED BY <1>8, <4>1, <4>3, <4>4
    <3> QED BY <3>1, <3>2
  <2>2. ASSUME NEW q \in DOMAIN fs, q # 0 PROVE G[q] < G[0]
    <3>1. \A c \in DOMAIN ds : c # 0 => H[c] < H[0]
      BY DEF Tree, Levels
    <3>2. PICK z \in DOMAIN ds : G[q] = H[z]
      BY <1>9, <2>2
    <3>3. H[z] <= H[0] /\ H[z] \in Nat /\ H[0] \in Nat
      BY <1>1, <1>6, <3>1
    <3> QED BY <1>5, <3>2, <3>3
  <2> QED BY <2>1, <2>2 DEF Levels
<1>15. Apart(fs, ls, E, L, G)
  <2>0. /\ \A q, z \in DOMAIN ds : H[q] = H[z] /\ D[q] \cap D[z] # {} => q = z
        /\ \A c \in DOMAIN ds : c # 0 => H[c] < H[0]
    BY DEF Tree, Apart, Levels
  <2>1. \A q \in DOMAIN fs : q # 0 => G[q] < G[0] /\ G[q] \in Nat
    <3>1. \A q \in DOMAIN fs : q # 0 => G[q] < G[0]
      BY <1>14 DEF Levels
    <3>2. \A q \in DOMAIN fs : q # 0 => G[q] \in Nat
      BY <1>6, <1>9
    <3> QED BY <3>1, <3>2
  <2>2. \A q \in DOMAIN ds : q # 0 => G[q] < G[a] /\ G[q] \in Nat
    BY <1>1, <1>5, <1>6, <2>0
  <2>3. ASSUME NEW q \in DOMAIN fs, NEW z \in DOMAIN fs, G[q] = G[z], E[q] \cap E[z] # {}
        PROVE  q = z
    <3>1. CASE q = 0 \/ z = 0
      <4>1. G[0] \in Nat
        BY <1>1, <1>5, <1>6
      <4> QED BY <2>1, <2>3, <3>1, <4>1
    <3>2. CASE q # 0 /\ z # 0 /\ (q = a \/ z = a)
      <4>1. G[a] \in Nat
        BY <1>1, <1>5, <1>6
      <4> QED BY <1>3, <2>2, <2>3, <3>2, <4>1
    <3>3. CASE q # 0 /\ z # 0 /\ q # a /\ z # a
      BY <1>3, <1>4, <1>5, <2>0, <2>3, <3>3
    <3> QED BY <3>1, <3>2, <3>3
  <2> QED BY <2>3 DEF Tree, Apart
<1>16. Owned(fs, ls, E, L, G, NoOwner)
  BY DEF Owned, NoOwner
<1>17. Reached(fs, ls, NoOwner)
  <2> SUFFICES ASSUME NEW c \in DOMAIN ls
               PROVE  \E q \in DOMAIN fs : \E i \in 1 .. Len(fs[q].keys) + 1 :
                        fs[q].children[i] = c
    BY DEF Reached
  <2>1. PICK q \in DOMAIN ds : \E i \in 1 .. Len(ds[q].keys) + 1 : ds[q].children[i] = c
    BY DEF Tree, Reached, NoOwner
  <2>2. \E z \in DOMAIN fs : fs[z] = ds[q]
    BY <1>3
  <2> QED BY <2>1, <2>2
<1>18. LeavesOf(ls, L)
  BY DEF Tree
<1>19. Tree(fs, ls, E, L, G, NoOwner)
  BY <1>10, <1>11, <1>12, <1>13, <1>14, <1>15, <1>16, <1>17, <1>18 DEF Tree
<1>20. Parent(fs, 0, 0, -a)
  <2>1. 0 \in 0 .. Len(fs[0].keys) /\ fs[0].children[0 + 1] = -a
    BY <1>7
  <2> QED BY <1>1, <1>3, <2>1 DEF Parent
<1> QED BY <1>19, <1>20 DEF fs, E, G

\* SubSeq of a sequence, from one to another of its positions or from beyond them.
LEMMA PartOf ==
  ASSUME NEW T, NEW s \in Seq(T), NEW a \in 1 .. Len(s) + 1, NEW b \in 0 .. Len(s), a <= b + 1
  PROVE  /\ SubSeq(s, a, b) \in Seq(T) /\ Len(SubSeq(s, a, b)) = b - a + 1
         /\ \A j \in 1 .. b - a + 1 : SubSeq(s, a, b)[j] = s[a + j - 1]
<1>1. Len(s) \in Nat /\ a \in Int /\ b \in Int
  OBVIOUS
<1>2. \A j \in a .. b : s[j] \in T
  <2>1. \A j \in a .. b : j \in 1 .. Len(s)
    BY <1>1
  <2> QED BY <2>1
<1>3. /\ SubSeq(s, a, b) \in Seq(T)
      /\ Len(SubSeq(s, a, b)) = IF a <= b THEN b - a + 1 ELSE 0
      /\ \A j \in 1 .. b - a + 1 : SubSeq(s, a, b)[j] = s[a + j - 1]
  BY <1>1, <1>2, SubSeqProperties
<1> DEFINE x == SubSeq(s, a, b)
<1> HIDE DEF x
<1>4. x \in Seq(T) /\ Len(x) = (IF a <= b THEN b - a + 1 ELSE 0) /\ \A j \in 1 .. b - a + 1 : x[j] = s[a + j - 1]
  BY <1>3 DEF x
<1>5. Len(x) = b - a + 1
  BY <1>1, <1>4
<1> QED BY <1>4, <1>5 DEF x

\* The two halves that a directory is cut into.
LEMMA CutHalves ==
  ASSUME NEW d \in Dir, Len(d.children) = Len(d.keys) + 1, NEW m \in 1 .. Len(d.keys) - 1
  PROVE  Halves(d, [keys |-> SubSeq(d.keys, 1, m), children |-> SubSeq(d.children, 1, m + 1)],
                   [keys |-> SubSeq(d.keys, m + 2, Len(d.keys)),
                    children |-> SubSeq(d.children, m + 2, Len(d.children))], m)
<1> DEFINE k == d.keys
           c == d.children
           n == Len(k)
           ka == SubSeq(k, 1, m)
           ca == SubSeq(c, 1, m + 1)
           kb == SubSeq(k, m + 2, n)
           cb == SubSeq(c, m + 2, Len(c))
<1>1. k \in Seq(Records) /\ c \in Seq(Int) /\ n \in Nat /\ Len(c) = n + 1 /\ m \in 1 .. n - 1
  BY DirTypes
<1>2. ka \in Seq(Records) /\ Len(ka) = m /\ \A j \in 1 .. m : ka[j] = k[j]
  <2> HIDE DEF k, n
  <2>0. 1 \in 1 .. Len(k) + 1 /\ m \in 0 .. Len(k) /\ 1 <= m + 1
    BY <1>1 DEF n
  <2>1. ka \in Seq(Records) /\ Len(ka) = m - 1 + 1 /\ \A j \in 1 .. m - 1 + 1 : ka[j] = k[1 + j - 1]
    BY <1>1, <2>0, PartOf
  <2> HIDE DEF ka
  <2>2. m - 1 + 1 = m /\ \A j \in 1 .. m : 1 + j - 1 = j
    BY <1>1
  <2> QED BY <2>1, <2>2
<1>3. ca \in Seq(Int) /\ Len(ca) = m + 1 /\ \A j \in 1 .. m + 1 : ca[j] = c[j]
  <2> HIDE DEF k, n, c
  <2>0. 1 \in 1 .. Len(c) + 1 /\ m + 1 \in 0 .. Len(c) /\ 1 <= (m + 1) + 1
    BY <1>1
  <2>1. ca \in Seq(Int) /\ Len(ca) = (m + 1) - 1 + 1 /\ \A j \in 1 .. (m + 1) - 1 + 1 : ca[j] = c[1 + j - 1]
    BY <1>1, <2>0, PartOf
  <2> HIDE DEF ca
  <2>2. (m + 1) - 1 + 1 = m + 1 /\ \A j \in 1 .. m + 1 : 1 + j - 1 = j
    BY <1>1
  <2> QED BY <2>1, <2>2
<1>4. kb \in Seq(Records) /\ Len(kb) = n - m - 1 /\ \A j \in 1 .. n - m - 1 : kb[j] = k[m + 1 + j]
  <2> HIDE DEF k, n
  <2>0. m + 2 \in 1 .. Len(k) + 1 /\ n \in 0 .. Len(k) /\ m + 2 <= n + 1
    BY <1>1 DEF n
  <2>1. kb \in Seq(Records) /\ Len(kb) = n - (m + 2) + 1 /\ \A j \in 1 .. n - (m + 2) + 1 : kb[j] = k[(m + 2) + j - 1]
    BY <1>1, <2>0, PartOf
  <2> HIDE DEF kb
  <2>2. n - (m + 2) + 1 = n - m - 1 /\ \A j \in 1 .. n - m - 1 : (m + 2) + j - 1 = m + 1 + j
    BY <1>1
  <2> QED BY <2>1, <2>2
<1>5. cb \in Seq(Int) /\ Len(cb) = n - m /\ \A j \in 1 .. n - m : cb[j] = c[m + 1 + j]
  <2> HIDE DEF k, n, c
  <2>0. m + 2 \in 1 .. Len(c) + 1 /\ Len(c) \in 0 .. Len(c) /\ m + 2 <= Len(c) + 1
    BY <1>1
  <2>1. cb \in Seq(Int) /\ Len(cb) = Len(c) - (m + 2) + 1 /\ \A j \in 1 .. Len(c) - (m + 2) + 1 : cb[j] = c[(m + 2) + j - 1]
    BY <1>1, <2>0, PartOf
  <2> HIDE DEF cb
  <2>2. Len(c) - (m + 2) + 1 = n - m /\ \A j \in 1 .. n - m : (m + 2) + j - 1 = m + 1 + j
    BY <1>1
  <2> QED BY <2>1, <2>2
<1> DEFINE e == [keys |-> ka, children |-> ca]
           f == [keys |-> kb, children |-> cb]
<1> HIDE DEF ka, ca, kb, cb
<1>6. e \in Dir /\ f \in Dir /\ e.keys = ka /\ e.children = ca /\ f.keys = kb /\ f.children = cb
  BY <1>2, <1>3, <1>4, <1>5 DEF Dir
<1> HIDE DEF e, f
<1>7. Halves(d, e, f, m)
  BY <1>1, <1>2, <1>3, <1>4, <1>5, <1>6 DEF Halves
<1> QED BY <1>7 DEF e, f, ka, ca, kb, cb

\* A directory with the split of one of its children in place.
LEMMA GrownWith ==
  ASSUME NEW d \in Dir, Len(d.children) = Len(d.keys) + 1, NEW s \in 0 .. Len(d.keys),
         NEW key \in Records, NEW page \in Int
  PROVE  Grown(d, [keys |-> With(d.keys, s, key), children |-> With(d.children, s + 1, page)],
               s, key, page)
<1> DEFINE k == d.keys
           c == d.children
           n == Len(k)
           ek == With(k, s, key)
           ec == With(c, s + 1, page)
           e == [keys |-> ek, children |-> ec]
<1>1. k \in Seq(Records) /\ c \in Seq(Int) /\ n \in Nat /\ Len(c) = n + 1 /\ s \in 0 .. n
  BY DirTypes
<1> HIDE DEF k, c
<1>2. /\ ek \in Seq(Records) /\ Len(ek) = n + 1
      /\ \A j \in 1 .. s : ek[j] = k[j]
      /\ ek[s + 1] = key
      /\ \A j \in s + 2 .. n + 1 : ek[j] = k[j - 1]
  <2>1. k \in Seq(Records) /\ s \in 0 .. Len(k)
    BY <1>1
  <2>2. IsWith(Records, k, s, key, With(k, s, key))
    BY <2>1, WithFacts
  <2> QED BY <2>2 DEF IsWith
<1>3. s + 1 \in 0 .. Len(c)
  BY <1>1
<1>4. /\ ec \in Seq(Int) /\ Len(ec) = Len(c) + 1
      /\ \A j \in 1 .. s + 1 : ec[j] = c[j]
      /\ ec[(s + 1) + 1] = page
      /\ \A j \in (s + 1) + 2 .. Len(c) + 1 : ec[j] = c[j - 1]
  <2> DEFINE t == s + 1
  <2>1. t \in 0 .. Len(c)
    BY <1>3
  <2> HIDE DEF t
  <2>2. c \in Seq(Int)
    BY <1>1
  <2>3. IsWith(Int, c, t, page, With(c, t, page))
    BY <2>1, <2>2, WithFacts
  <2> QED BY <2>3 DEF IsWith, t
<1> HIDE DEF ek, ec, n
<1>5. /\ Len(ec) = n + 2 /\ ec[s + 2] = page
      /\ \A j \in s + 3 .. n + 2 : ec[j] = c[j - 1]
  <2>1. (s + 1) + 1 = s + 2 /\ (s + 1) + 2 = s + 3 /\ Len(c) + 1 = n + 2
    BY <1>1
  <2> QED BY <1>4, <2>1
<1>6. e \in Dir /\ e.keys = ek /\ e.children = ec
  BY <1>2, <1>4 DEF Dir
<1> HIDE DEF e
<1>7. Len(e.children) = Len(e.keys) + 1
  BY <1>1, <1>2, <1>5, <1>6
<1>8. Grown(d, e, s, key, page)
  BY <1>2, <1>4, <1>5, <1>6, <1>7 DEF Grown, k, c, n
<1> QED BY <1>8 DEF e, ek, ec, k, c
\* Page p of the file is cut in g and the new page f.
DirPages(ds, fs, p, g, f, a) ==
  /\ a \in Nat /\ a \notin DOMAIN ds
  /\ DOMAIN fs = DOMAIN ds \cup {a} /\ fs[p] = g /\ fs[a] = f
  /\ \A c \in DOMAIN ds : c # p => fs[c] = ds[c]

\* The root is cut in the new pages g and f.
RootPages(ds, fs, key, g, f, a) ==
  /\ a \in Nat /\ a \notin DOMAIN ds /\ a + 1 \notin DOMAIN ds
  /\ DOMAIN fs = DOMAIN ds \cup {a, a + 1} /\ fs[0] = NewRoot(key, a)
  /\ fs[a] = g /\ fs[a + 1] = f
  /\ \A c \in DOMAIN ds : c # 0 => fs[c] = ds[c]

\* The tree of fs, in which the directory o waits for the new page a.
Lifted(ds, fs, ls, L, H, o, t, key, a) ==
  \E E, G : /\ Tree(fs, ls, E, L, G, [own |-> o, slot |-> t, key |-> key, page |-> -a])
            /\ \A c \in DOMAIN ds : G[c] = H[c]

\* A full directory takes the split of its child and is cut in two itself.
LEMMA CutGrown ==
  ASSUME NEW ds, NEW ls, NEW D, NEW L, NEW H, NEW w, Tree(ds, ls, D, L, H, w),
         w.own # -1, w.own # 0,
         NEW e, Grown(ds[w.own], e, w.slot, w.key, w.page),
         NEW g, NEW f, NEW m, Halves(e, g, f, m),
         NEW o, NEW t, Parent(ds, o, t, -w.own), o # w.own,
         NEW fs, NEW a, DirPages(ds, fs, w.own, g, f, a)
  PROVE  Lifted(ds, fs, ls, L, H, o, t, e.keys[m + 1], a)
<1> DEFINE p == w.own
           es == [ds EXCEPT ![p] = e]
           E == Divided(D, p, a, e.keys[m + 1])
           G == SameLevel(H, p, a)
<1>0. /\ a \in Nat /\ a \notin DOMAIN ds
      /\ DOMAIN fs = DOMAIN ds \cup {a} /\ fs[p] = g /\ fs[a] = f
      /\ \A c \in DOMAIN ds : c # p => fs[c] = ds[c]
  BY DEF DirPages
<1>1. p \in DOMAIN ds
  BY OwnerFacts
<1>2. DOMAIN es = DOMAIN ds /\ es[p] = e /\ \A c \in DOMAIN ds : c # p => es[c] = ds[c]
  BY <1>1
<1> HIDE DEF es
<1>3. Tree(es, ls, D, L, H, NoOwner)
  BY <1>2, Fitted
<1>4. Parent(es, o, t, -p)
  BY <1>2 DEF Parent
<1>5. p \in DOMAIN es /\ p # 0 /\ Halves(es[p], g, f, m) /\ a \notin DOMAIN es
  BY <1>0, <1>1, <1>2
<1>6. DOMAIN fs = DOMAIN es \cup {a} /\ \A c \in DOMAIN es : c # p => fs[c] = es[c]
  BY <1>0, <1>2
<1>7. Tree(fs, ls, Divided(D, p, a, es[p].keys[m + 1]), L, SameLevel(H, p, a),
           [own |-> o, slot |-> t, key |-> es[p].keys[m + 1], page |-> -a])
  BY <1>0, <1>3, <1>4, <1>5, <1>6, CutDir
<1>8. \A c \in DOMAIN ds : G[c] = H[c]
  <2>1. DOMAIN H = DOMAIN ds
    BY DEF Tree, Ranges
  <2> QED BY <1>0, <2>1 DEF SameLevel
<1>9. Tree(fs, ls, E, L, G, [own |-> o, slot |-> t, key |-> e.keys[m + 1], page |-> -a])
  BY <1>2, <1>7
<1> QED BY <1>8, <1>9 DEF Lifted

\* The same for the root, which gets a new page above the two halves.
LEMMA CutRoot ==
  ASSUME NEW ds, NEW ls, NEW D, NEW L, NEW H, NEW w, Tree(ds, ls, D, L, H, w), w.own = 0,
         NEW e, Grown(ds[0], e, w.slot, w.key, w.page),
         NEW g, NEW f, NEW m, Halves(e, g, f, m),
         NEW fs, NEW a, RootPages(ds, fs, e.keys[m + 1], g, f, a)
  PROVE  \E E, G : Tree(fs, ls, E, L, G, NoOwner)
<1> DEFINE es == [ds EXCEPT ![0] = e]
           rs == Raised(es, a)
           ED == RaisedRanges(D, a)
           EH == RaisedHeights(H, a)
           hs == [c \in DOMAIN ds \cup {a, a + 1} |-> IF c = 0 THEN rs[0] ELSE fs[c]]
           key == e.keys[m + 1]
           v == [own |-> 0, slot |-> 0, key |-> key, page |-> -(a + 1)]
           FD == Divided(ED, a, a + 1, key)
           FH == SameLevel(EH, a, a + 1)
<1>0. /\ a \in Nat /\ a \notin DOMAIN ds /\ a + 1 \notin DOMAIN ds
      /\ DOMAIN fs = DOMAIN ds \cup {a, a + 1} /\ fs[0] = NewRoot(key, a)
      /\ fs[a] = g /\ fs[a + 1] = f
      /\ \A c \in DOMAIN ds : c # 0 => fs[c] = ds[c]
  BY DEF RootPages
<1>1. 0 \in DOMAIN ds /\ w.own # -1 /\ a # 0 /\ a + 1 \in Nat /\ a + 1 # a /\ a + 1 # 0 /\ -(a + 1) \in Int
  <2>1. 0 \in DOMAIN ds
    BY DEF Tree, Ranges
  <2> QED BY <1>0, <2>1
<1>2. DOMAIN es = DOMAIN ds /\ es[0] = e /\ \A c \in DOMAIN ds : c # 0 => es[c] = ds[c]
  BY <1>1
<1> HIDE DEF es
<1>3. Tree(es, ls, D, L, H, NoOwner)
  <2>1. Grown(ds[w.own], e, w.slot, w.key, w.page) /\ es[w.own] = e
        /\ \A c \in DOMAIN ds : c # w.own => es[c] = ds[c]
    BY <1>2
  <2> QED BY <1>1, <1>2, <2>1, Fitted
<1>4. Tree(rs, ls, ED, L, EH, NoOwner) /\ Parent(rs, 0, 0, -a)
  BY <1>0, <1>2, <1>3, RaiseRoot
<1>5. /\ DOMAIN rs = DOMAIN ds \cup {a} /\ rs[a] = e
      /\ rs[0] = [keys |-> << >>, children |-> <<-a>>]
      /\ \A c \in DOMAIN ds : c # 0 => rs[c] = ds[c]
  BY <1>0, <1>1, <1>2 DEF Raised
<1> HIDE DEF rs, ED, EH
<1>6. /\ DOMAIN hs = DOMAIN rs \cup {a + 1} /\ hs[a] = g /\ hs[a + 1] = f /\ hs[0] = rs[0]
      /\ \A c \in DOMAIN rs : c # a => hs[c] = rs[c]
      /\ \A c \in DOMAIN fs : c # 0 => fs[c] = hs[c]
      /\ DOMAIN hs = DOMAIN fs
  BY <1>0, <1>1, <1>5
<1> HIDE DEF hs
<1>7. a \in DOMAIN rs /\ a + 1 \notin DOMAIN rs /\ Halves(rs[a], g, f, m)
  BY <1>0, <1>1, <1>5
<1>8. Tree(hs, ls, FD, L, FH, v)
  <2>1. Tree(hs, ls, Divided(ED, a, a + 1, rs[a].keys[m + 1]), L, SameLevel(EH, a, a + 1),
             [own |-> 0, slot |-> 0, key |-> rs[a].keys[m + 1], page |-> -(a + 1)])
    BY <1>1, <1>4, <1>6, <1>7, CutDir
  <2> QED BY <1>5, <2>1
<1>9. v.own = 0 /\ v.slot = 0 /\ v.key = key /\ v.page = -(a + 1)
  OBVIOUS
<1> HIDE DEF v, FD, FH
<1>10. key \in Records
  BY <1>8, <1>9, OwnerFacts
<1>11. Grown(hs[0], fs[0], 0, key, -(a + 1))
  <2> DEFINE q == NewRoot(key, a)
             d == [keys |-> << >>, children |-> <<-a>>]
  <2>1. q.keys = <<key>> /\ q.children = <<-a, -(a + 1)>> /\ d.keys = << >> /\ d.children = <<-a>>
    BY DEF NewRoot
  <2>2. <<key>> \in Seq(Records) /\ <<-a, -(a + 1)>> \in Seq(Int)
    <3>1. -a \in Int /\ -(a + 1) \in Int
      BY <1>0, <1>1
    <3> HIDE DEF key
    <3> QED BY <1>10, <3>1
  <2>3. q \in Dir
    BY <2>2 DEF NewRoot, Dir
  <2> HIDE DEF q, d
  <2>4. /\ Len(q.keys) = 1 /\ Len(d.keys) = 0 /\ Len(q.children) = 2 /\ q.keys[1] = key
        /\ q.children[1] = -a /\ q.children[2] = -(a + 1) /\ d.children[1] = -a
    BY <2>1
  <2>5. /\ \A j \in 1 .. 0 : q.keys[j] = d.keys[j]
        /\ q.keys[0 + 1] = key
        /\ \A j \in 0 + 2 .. Len(d.keys) + 1 : q.keys[j] = d.keys[j - 1]
        /\ \A j \in 1 .. 0 + 1 : q.children[j] = d.children[j]
        /\ q.children[0 + 2] = -(a + 1)
        /\ \A j \in 0 + 3 .. Len(d.keys) + 2 : q.children[j] = d.children[j - 1]
    BY <2>4
  <2>6. Grown(d, q, 0, key, -(a + 1))
    BY <2>3, <2>4, <2>5 DEF Grown
  <2> QED BY <1>0, <1>5, <1>6, <2>6 DEF q, d
<1>12. Tree(fs, ls, FD, L, FH, NoOwner)
  <2>1. /\ v.own # -1 /\ Grown(hs[v.own], fs[0], v.slot, v.key, v.page) /\ fs[v.own] = fs[0]
        /\ \A c \in DOMAIN hs : c # v.own => fs[c] = hs[c]
    BY <1>6, <1>9, <1>11
  <2> QED BY <1>6, <1>8, <2>1, Fitted
<1> QED BY <1>12

\* The directories on the stack, from the root down, each a child of the one before.
Way(ds, H, s) ==
  /\ s \in Seq(Nat) /\ Len(s) > 0 /\ s[1] = 0
  /\ \A i \in 1 .. Len(s) : s[i] \in DOMAIN ds /\ H[s[i]] = H[0] - (i - 1)
  /\ \A i \in 1 .. Len(s) - 1 : \E t : Parent(ds, s[i], t, -s[i + 1])

\* Every operation starts at the root.
LEMMA WayStarts ==
  ASSUME NEW ds, NEW ls, NEW D, NEW L, NEW H, NEW w, Tree(ds, ls, D, L, H, w)
  PROVE  Way(ds, H, <<0>>)
<1> DEFINE s == <<0>>
<1>1. 0 \in DOMAIN ds /\ H[0] \in Nat
  BY DEF Tree, Ranges
<1>2. s \in Seq(Nat) /\ Len(s) = 1 /\ s[1] = 0
  OBVIOUS
<1> HIDE DEF s
<1>3. \A i \in 1 .. Len(s) : s[i] \in DOMAIN ds /\ H[s[i]] = H[0] - (i - 1)
  <2>1. \A i \in 1 .. Len(s) : i = 1
    BY <1>2
  <2>2. H[0] = H[0] - (1 - 1)
    BY <1>1
  <2> QED BY <1>1, <1>2, <2>1, <2>2
<1>4. \A i \in 1 .. Len(s) - 1 : FALSE
  BY <1>2
<1>5. Way(ds, H, s)
  BY <1>2, <1>3, <1>4 DEF Way
<1> QED BY <1>5 DEF s

\* Going down to a child that is a directory extends the way.
LEMMA WayDown ==
  ASSUME NEW ds, NEW ls, NEW D, NEW L, NEW H, NEW w, Tree(ds, ls, D, L, H, w),
         NEW s, Way(ds, H, s), NEW t \in 0 .. Len(ds[s[Len(s)]].keys),
         ds[s[Len(s)]].children[t + 1] < 0
  PROVE  LET q == Append(s, -ds[s[Len(s)]].children[t + 1])
         IN  /\ Way(ds, H, q) /\ Len(q) = Len(s) + 1
             /\ q[Len(q)] = -ds[s[Len(s)]].children[t + 1]
<1> DEFINE n == Len(s)
           p == s[n]
           c == ds[p].children[t + 1]
           q == Append(s, -c)
<1>1. /\ s \in Seq(Nat) /\ n \in Nat /\ n > 0 /\ s[1] = 0
      /\ \A i \in 1 .. n : s[i] \in DOMAIN ds /\ H[s[i]] = H[0] - (i - 1)
      /\ \A i \in 1 .. n - 1 : \E x : Parent(ds, s[i], x, -s[i + 1])
  <2>1. s \in Seq(Nat) /\ n > 0 /\ s[1] = 0
    BY DEF Way
  <2>2. n \in Nat
    BY <2>1
  <2>3. \A i \in 1 .. n : s[i] \in DOMAIN ds /\ H[s[i]] = H[0] - (i - 1)
    BY DEF Way
  <2>4. \A i \in 1 .. n - 1 : \E x : Parent(ds, s[i], x, -s[i + 1])
    BY Zenon DEF Way
  <2> QED BY <2>1, <2>2, <2>3, <2>4
<1>2. n \in 1 .. n /\ p \in DOMAIN ds /\ H[p] = H[0] - (n - 1)
  BY <1>1
<1>3. c \in Int /\ Exists(ds, ls, c) /\ H[p] = Above(H, c)
  BY <1>2, ChildFacts
<1>4. Parent(ds, p, t, c)
  BY <1>2 DEF Parent
<1>5. H \in [DOMAIN ds -> Nat] /\ 0 \in DOMAIN ds
  BY DEF Tree, Ranges
<1> HIDE DEF c
<1>6. c < 0 /\ -c \in DOMAIN ds /\ -c \in Nat /\ H[-c] = H[0] - n /\ c = -(-c)
  <2>1. c < 0
    BY DEF c
  <2>2. -c \in DOMAIN ds /\ H[p] = H[-c] + 1
    BY <1>3, <2>1 DEF Exists, Above
  <2>3. H[-c] \in Nat /\ H[0] \in Nat
    BY <1>5, <2>2
  <2>4. -c \in Nat /\ c = -(-c)
    BY <1>3, <2>1
  <2>5. \A h, g \in Nat : h + 1 = g - (n - 1) => h = g - n
    BY <1>1
  <2>6. H[-c] + 1 = H[0] - (n - 1)
    BY <1>2, <2>2
  <2>7. H[-c] = H[0] - n
    BY <2>3, <2>5, <2>6
  <2> QED BY <2>1, <2>2, <2>4, <2>7
<1>7. /\ q \in Seq(Nat) /\ Len(q) = n + 1 /\ q[n + 1] = -c /\ \A i \in 1 .. n : q[i] = s[i]
  BY <1>1, <1>6, AppendProperties
<1> HIDE DEF q, n
<1>8. \A i \in 1 .. n + 1 : q[i] \in DOMAIN ds /\ H[q[i]] = H[0] - (i - 1)
  <2> SUFFICES ASSUME NEW i \in 1 .. n + 1 PROVE q[i] \in DOMAIN ds /\ H[q[i]] = H[0] - (i - 1)
    OBVIOUS
  <2>1. CASE i = n + 1
    <3>1. i - 1 = n
      BY <1>1, <2>1
    <3> QED BY <1>6, <1>7, <2>1, <3>1
  <2>2. CASE i # n + 1
    <3>1. i \in 1 .. n
      BY <1>1, <2>2
    <3> QED BY <1>1, <1>7, <3>1
  <2> QED BY <2>1, <2>2
<1>9. \A i \in 1 .. n : \E x : Parent(ds, q[i], x, -q[i + 1])
  <2> SUFFICES ASSUME NEW i \in 1 .. n PROVE \E x : Parent(ds, q[i], x, -q[i + 1])
    OBVIOUS
  <2>1. CASE i = n
    <3>1. q[i] = p /\ -q[i + 1] = c
      BY <1>6, <1>7, <2>1 DEF p
    <3> QED BY <1>4, <3>1
  <2>2. CASE i # n
    <3>1. i \in 1 .. n - 1 /\ i + 1 \in 1 .. n
      BY <1>1, <2>2
    <3> QED BY <1>1, <1>7, <3>1
  <2> QED BY <2>1, <2>2
<1>10. Way(ds, H, q)
  <2>1. q[1] = 0 /\ n + 1 > 0 /\ (n + 1) - 1 = n
    BY <1>1, <1>7
  <2> QED BY <1>7, <1>8, <1>9, <2>1 DEF Way
<1> QED BY <1>7, <1>10 DEF q, c, p, n

\* Going back to the caller: the directory before on the way is the parent.
LEMMA WayUp ==
  ASSUME NEW ds, NEW H \in [DOMAIN ds -> Nat], NEW s, Way(ds, H, s), s[Len(s)] # 0
  PROVE  LET p == s[Len(s)]
             q == SubSeq(s, 1, Len(s) - 1)
         IN  /\ Way(ds, H, q) /\ Len(q) = Len(s) - 1
             /\ \A i \in 1 .. Len(q) : q[i] # p
             /\ \E t : Parent(ds, q[Len(q)], t, -p)
<1> DEFINE n == Len(s)
           p == s[n]
           q == SubSeq(s, 1, n - 1)
<1>1. /\ s \in Seq(Nat) /\ n \in Nat /\ n > 0 /\ s[1] = 0
      /\ \A i \in 1 .. n : s[i] \in DOMAIN ds /\ H[s[i]] = H[0] - (i - 1)
      /\ \A i \in 1 .. n - 1 : \E x : Parent(ds, s[i], x, -s[i + 1])
  BY DEF Way
<1>2. n > 1
  BY <1>1
<1>3. /\ q \in Seq(Nat) /\ Len(q) = n - 1 /\ \A i \in 1 .. n - 1 : q[i] = s[i]
  <2> DEFINE b == n - 1
  <2>1. 1 \in 1 .. Len(s) + 1 /\ b \in 0 .. Len(s) /\ 1 <= b + 1 /\ b - 1 + 1 = b
    BY <1>1, <1>2
  <2> HIDE DEF b
  <2>2. /\ SubSeq(s, 1, b) \in Seq(Nat) /\ Len(SubSeq(s, 1, b)) = b - 1 + 1
        /\ \A j \in 1 .. b - 1 + 1 : SubSeq(s, 1, b)[j] = s[1 + j - 1]
    BY <1>1, <2>1, PartOf
  <2>3. \A j \in 1 .. b : 1 + j - 1 = j
    BY <2>1
  <2> QED BY <2>1, <2>2, <2>3 DEF b
<1> HIDE DEF q, n
<1>4. 0 \in DOMAIN ds /\ H[0] \in Int
  <2>1. s[1] \in DOMAIN ds
    BY <1>1, <1>2
  <2> QED BY <1>1, <2>1
<1>5. \A i \in 1 .. n - 1 : q[i] # p
  <2> SUFFICES ASSUME NEW i \in 1 .. n - 1, q[i] = p PROVE FALSE
    OBVIOUS
  <2>1. i \in 1 .. n /\ n \in 1 .. n
    BY <1>1
  <2>2. H[s[i]] = H[0] - (i - 1) /\ H[s[n]] = H[0] - (n - 1) /\ s[i] = s[n]
    BY <1>1, <1>3, <2>1 DEF p
  <2> QED BY <1>1, <1>4, <2>2
<1>6. Way(ds, H, q)
  <2>1. \A i \in 1 .. Len(q) : q[i] \in DOMAIN ds /\ H[q[i]] = H[0] - (i - 1)
    <3>1. \A i \in 1 .. n - 1 : i \in 1 .. n
      BY <1>1
    <3> QED BY <1>1, <1>3, <3>1
  <2>2. \A i \in 1 .. Len(q) - 1 : \E x : Parent(ds, q[i], x, -q[i + 1])
    <3>1. \A i \in 1 .. (n - 1) - 1 : i \in 1 .. n - 1 /\ i + 1 \in 1 .. n - 1
      BY <1>1
    <3> QED BY <1>1, <1>3, <3>1
  <2>3. Len(q) > 0 /\ q[1] = 0
    <3>1. n - 1 > 0 /\ 1 \in 1 .. n - 1
      BY <1>1, <1>2
    <3> QED BY <1>1, <1>3, <3>1
  <2> QED BY <1>3, <2>1, <2>2, <2>3 DEF Way
<1>7. \E t : Parent(ds, q[Len(q)], t, -p)
  <2>1. n - 1 \in 1 .. n - 1 /\ (n - 1) + 1 = n
    BY <1>1, <1>2
  <2>2. \E x : Parent(ds, s[n - 1], x, -s[(n - 1) + 1])
    BY <1>1, <2>1
  <2>3. q[Len(q)] = s[n - 1] /\ s[(n - 1) + 1] = p
    BY <1>3, <2>1 DEF p
  <2> QED BY <2>2, <2>3
<1> QED BY <1>3, <1>5, <1>6, <1>7 DEF q, p, n

\* A way does not notice what happens to other directories.
LEMMA WayStays ==
  ASSUME NEW ds, NEW H, NEW s, Way(ds, H, s), 
         NEW fs, DOMAIN ds \subseteq DOMAIN fs, \A i \in 1 .. Len(s) : fs[s[i]] = ds[s[i]],
         NEW G, \A c \in DOMAIN ds : G[c] = H[c]
  PROVE  Way(fs, G, s)
<1>1. /\ s \in Seq(Nat) /\ Len(s) > 0 /\ s[1] = 0 /\ Len(s) \in Nat
      /\ \A i \in 1 .. Len(s) : s[i] \in DOMAIN ds /\ H[s[i]] = H[0] - (i - 1)
      /\ \A i \in 1 .. Len(s) - 1 : \E x : Parent(ds, s[i], x, -s[i + 1])
  BY DEF Way
<1>2. 0 \in DOMAIN ds
  <2>1. 1 \in 1 .. Len(s)
    BY <1>1
  <2> QED BY <1>1, <2>1
<1>3. \A i \in 1 .. Len(s) : s[i] \in DOMAIN fs /\ G[s[i]] = G[0] - (i - 1)
  BY <1>1, <1>2
<1>4. \A i \in 1 .. Len(s) - 1 : \E x : Parent(fs, s[i], x, -s[i + 1])
  <2> SUFFICES ASSUME NEW i \in 1 .. Len(s) - 1 PROVE \E x : Parent(fs, s[i], x, -s[i + 1])
    OBVIOUS
  <2>1. i \in 1 .. Len(s)
    BY <1>1
  <2>2. PICK x : Parent(ds, s[i], x, -s[i + 1])
    BY <1>1
  <2>3. Parent(fs, s[i], x, -s[i + 1])
    BY <1>3, <2>1, <2>2 DEF Parent
  <2> QED BY <2>3
<1> QED BY <1>1, <1>3, <1>4 DEF Way

-----------------------------------------------------------------------------
(* Leaves.                                                                 *)

\* Ranks number a finite set of numbers in increasing order.
LEMMA RankFacts ==
  ASSUME NEW S, S \subseteq Nat, IsFiniteSet(S)
  PROVE  /\ Cardinality(S) \in Nat
         /\ \A r \in S : Rank(S, r) \in 0 .. Cardinality(S) - 1
         /\ \A q, r \in S : q < r <=> Rank(S, q) < Rank(S, r)
<1> DEFINE B(r) == {q \in S : q < r}
<1>1. \A r : IsFiniteSet(B(r)) /\ Cardinality(B(r)) \in Nat
  <2>1. \A r : B(r) \in SUBSET S
    OBVIOUS
  <2> QED BY <2>1, FS_Subset, FS_CardinalityType
<1>2. Cardinality(S) \in Nat
  BY FS_CardinalityType
<1>3. ASSUME NEW T, IsFiniteSet(T), NEW U \in SUBSET T, NEW x \in T, x \notin U
      PROVE  Cardinality(U) < Cardinality(T)
  <2>1. Cardinality(U) <= Cardinality(T) /\ Cardinality(U) # Cardinality(T) /\ IsFiniteSet(U)
    BY <1>3, FS_Subset
  <2>2. Cardinality(U) \in Nat /\ Cardinality(T) \in Nat
    BY <1>3, <2>1, FS_CardinalityType
  <2> QED BY <2>1, <2>2
<1>4. \A r : Rank(S, r) = Cardinality(B(r))
  BY DEF Rank
<1>5. ASSUME NEW r \in S PROVE Rank(S, r) < Cardinality(S)
  <2>1. B(r) \in SUBSET S /\ r \notin B(r)
    OBVIOUS
  <2>2. Cardinality(B(r)) < Cardinality(S)
    BY <1>3, <2>1
  <2> QED BY <1>4, <2>2
<1>6. ASSUME NEW q \in S, NEW r \in S, q < r PROVE Rank(S, q) < Rank(S, r)
  <2>1. B(q) \in SUBSET B(r) /\ q \in B(r) /\ q \notin B(q)
    <3>1. \A x \in S : x < q => x < r
      BY <1>6
    <3>2. ~(q < q)
      <4>1. q \in Nat
        OBVIOUS
      <4> QED BY <4>1
    <3>3. \A x : x \in B(q) => x \in B(r)
      BY <3>1
    <3>4. q \in B(r) /\ q \notin B(q)
      BY <1>6, <3>2
    <3> HIDE DEF B
    <3> QED BY <3>3, <3>4
  <2> HIDE DEF B
  <2>2. Cardinality(B(q)) < Cardinality(B(r))
    BY <1>1, <1>3, <2>1
  <2> QED BY <1>4, <2>2
<1>7. \A r \in S : Rank(S, r) \in Nat
  BY <1>1, <1>4
<1> HIDE DEF B
<1>8. ASSUME NEW q \in S, NEW r \in S, Rank(S, q) < Rank(S, r) PROVE q < r
  <2>1. q \in Nat /\ r \in Nat /\ Rank(S, q) \in Nat /\ Rank(S, r) \in Nat
    BY <1>7
  <2>2. q # r
    BY <1>8, <2>1
  <2>3. ~(r < q)
    <3>1. SUFFICES ASSUME r < q PROVE FALSE
      OBVIOUS
    <3>2. Rank(S, r) < Rank(S, q)
      BY <1>6, <3>1
    <3> QED BY <1>8, <2>1, <3>2
  <2> QED BY <2>1, <2>2, <2>3
<1>9. \A r \in S : Rank(S, r) \in 0 .. Cardinality(S) - 1
  BY <1>2, <1>5, <1>7
<1> QED BY <1>2, <1>6, <1>8, <1>9

\* Each rank is that of one element.
LEMMA RankOnto ==
  ASSUME NEW S, S \subseteq Nat, IsFiniteSet(S), NEW i \in 0 .. Cardinality(S) - 1
  PROVE  \E r \in S : Rank(S, r) = i
<1> DEFINE n == Cardinality(S)
           T == 0 .. n - 1
           f == [r \in S |-> Rank(S, r)]
<1>1. n \in Nat /\ (\A r \in S : Rank(S, r) \in T) /\ \A q, r \in S : q < r <=> Rank(S, q) < Rank(S, r)
  BY RankFacts
<1>2. IsFiniteSet(T) /\ Cardinality(T) = n
  <2>1. 0 \in Int /\ n - 1 \in Int
    BY <1>1
  <2>2. IsFiniteSet(0 .. n - 1) /\ Cardinality(0 .. n - 1) = IF 0 > n - 1 THEN 0 ELSE n - 1 - 0 + 1
    BY <2>1, FS_Interval
  <2> HIDE DEF n
  <2> QED BY <1>1, <2>2
<1> HIDE DEF n
<1>3. f \in Injection(S, T)
  <2>1. f \in [S -> T]
    BY <1>1
  <2>2. \A q, r \in S : f[q] = f[r] => q = r
    <3> SUFFICES ASSUME NEW q \in S, NEW r \in S, f[q] = f[r] PROVE q = r
      OBVIOUS
    <3>1. Rank(S, q) = Rank(S, r) /\ Rank(S, q) \in Int /\ q \in Int /\ r \in Int
      BY <1>1
    <3>2. ~(q < r) /\ ~(r < q)
      BY <1>1, <3>1
    <3> QED BY <3>1, <3>2
  <2> HIDE DEF f, T
  <2> QED BY <2>1, <2>2 DEF Injection, IsInjective
<1> HIDE DEF f
<1>4. f \in Surjection(S, T)
  <2> HIDE DEF T
  <2>1. Cardinality(S) = Cardinality(T)
    BY <1>2 DEF n
  <2> QED BY <1>2, <1>3, <2>1, FS_Injection
<1>5. \A t \in T : \E r \in S : f[r] = t
  BY <1>4 DEF Surjection
<1>6. i \in T
  BY DEF n
<1>7. PICK r \in S : f[r] = i
  BY <1>5, <1>6
<1> QED BY <1>7 DEF f

\* The records in use of a leaf.
Recs(l) == {l.records[i] : i \in 0 .. l.value_count - 1}

\* An imported leaf: its records in order, all smaller than those still to
\* come.
LEMMA BlockFacts ==
  ASSUME rest \in SUBSET Records, NewPage(leaves) \in Nat
  PROVE  /\ BlockLeaf \in Leaf /\ InOrder(BlockLeaf) /\ Filled(BlockLeaf)
         /\ Recs(BlockLeaf) = Block /\ Block \subseteq rest
         /\ \A q \in Block, r \in rest \ Block : q < r
         /\ rest # {} => BlockLeaf.value_count > 0
<1> DEFINE n == Cardinality(Block)
           f == [i \in Slots |-> IF i < n THEN CHOOSE r \in Block : Rank(Block, r) = i
                                 ELSE NoRecord]
           nx == IF Block = rest THEN 0 ELSE NewPage(leaves) + 1
<1>1. Records \subseteq Nat /\ IsFiniteSet(Records) /\ LeafMax \in Nat /\ LeafMax > 0
  BY ConstantsAssumption
<1>2. rest \subseteq Nat /\ IsFiniteSet(rest)
  BY <1>1, FS_Subset
<1>3. Block \subseteq rest /\ IsFiniteSet(Block) /\ Block \subseteq Nat
  <2>1. Block \in SUBSET rest
    BY DEF Block
  <2> QED BY <1>2, <2>1, FS_Subset
<1>4. /\ \A r \in rest : Rank(rest, r) \in Nat
      /\ \A q, r \in rest : q < r <=> Rank(rest, q) < Rank(rest, r)
  <2>1. /\ Cardinality(rest) \in Nat
        /\ \A r \in rest : Rank(rest, r) \in 0 .. Cardinality(rest) - 1
        /\ \A q, r \in rest : q < r <=> Rank(rest, q) < Rank(rest, r)
    BY <1>2, RankFacts
  <2> QED BY <2>1
<1>5. /\ n \in Nat
      /\ \A r \in Block : Rank(Block, r) \in 0 .. n - 1
      /\ \A q, r \in Block : q < r <=> Rank(Block, q) < Rank(Block, r)
  BY <1>3, RankFacts
<1>6. n <= LeafMax
  <2> DEFINE T == 0 .. LeafMax - 1
             g == [r \in Block |-> Rank(rest, r)]
  <2>1. IsFiniteSet(T) /\ Cardinality(T) = LeafMax
    <3>1. 0 \in Int /\ LeafMax - 1 \in Int
      BY <1>1
    <3>2. IsFiniteSet(0 .. LeafMax - 1)
          /\ Cardinality(0 .. LeafMax - 1) = IF 0 > LeafMax - 1 THEN 0 ELSE LeafMax - 1 - 0 + 1
      BY <3>1, FS_Interval
    <3> QED BY <1>1, <3>2
  <2>2. g \in Injection(Block, T)
    <3>1. g \in [Block -> T]
      <4>1. \A r \in Block : Rank(rest, r) \in T
        <5>1. \A r \in Block : Rank(rest, r) < LeafMax /\ r \in rest
          BY DEF Block
        <5>2. \A x \in Nat : x < LeafMax => x \in T
          BY <1>1
        <5> HIDE DEF T
        <5> QED BY <1>4, <5>1, <5>2
      <4> QED BY <4>1
    <3>2. \A q, r \in Block : g[q] = g[r] => q = r
      <4> SUFFICES ASSUME NEW q \in Block, NEW r \in Block, g[q] = g[r] PROVE q = r
        OBVIOUS
      <4>1. Rank(rest, q) = Rank(rest, r) /\ q \in rest /\ r \in rest
        BY <1>3
      <4>2. q \in Int /\ r \in Int /\ Rank(rest, q) \in Int /\ Rank(rest, r) \in Int
        BY <1>2, <1>4, <4>1
      <4>3. ~(q < r) /\ ~(r < q)
        BY <1>4, <4>1, <4>2
      <4> QED BY <4>2, <4>3
    <3> HIDE DEF g, T
    <3> QED BY <3>1, <3>2 DEF Injection, IsInjective
  <2> HIDE DEF g, T
  <2>3. Cardinality(Block) <= Cardinality(T)
    BY <2>1, <2>2, FS_Injection
  <2> QED BY <2>1, <2>3
<1> HIDE DEF n
<1>7. \A i \in 0 .. n - 1 : f[i] \in Block /\ Rank(Block, f[i]) = i
  <2> SUFFICES ASSUME NEW i \in 0 .. n - 1 PROVE f[i] \in Block /\ Rank(Block, f[i]) = i
    OBVIOUS
  <2>1. i \in Slots /\ i < n
    BY <1>1, <1>5, <1>6 DEF Slots
  <2>2. \E r \in Block : Rank(Block, r) = i
    BY <1>3, RankOnto DEF n
  <2>3. f[i] = CHOOSE r \in Block : Rank(Block, r) = i
    BY <2>1
  <2> HIDE DEF f
  <2> QED BY <2>2, <2>3
<1>8. \A i \in Slots : i < n \/ f[i] = NoRecord
  OBVIOUS
<1>9. f = [i \in Slots |-> f[i]]
  OBVIOUS
<1>10. nx \in Nat
  OBVIOUS
<1>11. BlockLeaf.records = f /\ BlockLeaf.value_count = n /\ BlockLeaf.next_leaf = nx
       /\ BlockLeaf = [records |-> f, value_count |-> n, next_leaf |-> nx]
  BY DEF BlockLeaf, n
<1> HIDE DEF f, nx
<1>12. BlockLeaf \in Leaf
  <2>1. \A i \in Slots : f[i] \in Records \cup {NoRecord}
    <3>1. \A i \in Slots : i < n => i \in 0 .. n - 1
      BY <1>1, <1>5 DEF Slots
    <3> QED BY <1>3, <1>7, <1>8, <3>1
  <2>2. f \in [Slots -> Records \cup {NoRecord}]
    BY <1>9, <2>1
  <2>3. n \in 0 .. LeafMax
    BY <1>1, <1>5, <1>6
  <2> QED BY <1>10, <1>11, <2>2, <2>3 DEF Leaf
<1>13. \A i, j \in 0 .. n - 1 : i < j => f[i] < f[j]
  BY <1>5, <1>7
<1>14. \A r \in Block : \E i \in 0 .. n - 1 : f[i] = r
  <2> SUFFICES ASSUME NEW r \in Block PROVE \E i \in 0 .. n - 1 : f[i] = r
    OBVIOUS
  <2> DEFINE i == Rank(Block, r)
  <2>1. i \in 0 .. n - 1
    BY <1>5
  <2>2. f[i] \in Block /\ Rank(Block, f[i]) = i
    BY <1>7, <2>1
  <2>3. ~(f[i] < r) /\ ~(r < f[i]) /\ f[i] \in Int /\ r \in Int
    <3> HIDE DEF i
    <3>0. f[i] \in Block
      BY <2>2
    <3>1. f[i] \in Int /\ r \in Int
      <4>1. \A x \in Block : x \in Int
        BY <1>3
      <4> QED BY <3>0, <4>1
    <3>2. ~(i < i)
      BY <1>5, <2>1
    <3>3. Rank(Block, r) = i
      BY DEF i
    <3> QED BY <1>5, <2>2, <3>1, <3>2, <3>3
  <2>4. f[i] = r
    <3> HIDE DEF i
    <3> QED BY <2>3
  <2> QED BY <2>1, <2>4
<1>15. Recs(BlockLeaf) = Block
  BY <1>7, <1>11, <1>14 DEF Recs
<1>16. Filled(BlockLeaf) /\ InOrder(BlockLeaf)
  BY <1>3, <1>7, <1>11, <1>13 DEF Filled, InOrder
<1>17. ASSUME NEW q \in Block, NEW r \in rest \ Block PROVE q < r
  <2>1. q \in rest /\ r \in rest /\ Rank(rest, q) < LeafMax /\ ~(Rank(rest, r) < LeafMax)
    BY DEF Block
  <2>2. Rank(rest, q) \in Int /\ Rank(rest, r) \in Int
    BY <1>4, <2>1
  <2>3. Rank(rest, q) < Rank(rest, r)
    BY <1>1, <2>1, <2>2
  <2> QED BY <1>4, <2>1, <2>3
<1>18. ASSUME rest # {} PROVE n > 0
  <2>1. 0 \in 0 .. Cardinality(rest) - 1
    <3>1. Cardinality(rest) \in Nat
      BY <1>2, FS_CardinalityType
    <3>2. Cardinality(rest) # 0
      BY <1>2, <1>18, FS_EmptySet
    <3> QED BY <3>1, <3>2
  <2>2. PICK r \in rest : Rank(rest, r) = 0
    BY <1>2, <2>1, RankOnto
  <2>3. r \in Block
    BY <1>1, <2>2 DEF Block
  <2>4. Rank(Block, r) \in 0 .. n - 1
    BY <1>5, <2>3
  <2> QED BY <1>5, <2>4
<1> QED BY <1>3, <1>11, <1>12, <1>15, <1>16, <1>17, <1>18

\* A record in use is where search_index finds it.
LEMMA Found ==
  ASSUME NEW l \in Leaf, Filled(l), InOrder(l), NEW k \in 0 .. l.value_count - 1
  PROVE  SearchIndex(l, l.records[k]) = k
<1> DEFINE n == l.value_count
           r == l.records[k]
           i == SearchIndex(l, r)
<1>1. n \in Nat /\ n # 0 /\ \A j \in 0 .. n - 1 : l.records[j] \in Nat
  <2>1. n \in 0 .. LeafMax
    BY DEF Leaf
  <2>2. n \in Nat
    BY <2>1, RecordsAreNumbers
  <2>3. n # 0
    BY <2>2
  <2>4. \A j \in 0 .. n - 1 : l.records[j] \in Records
    BY DEF Filled
  <2> QED BY <2>2, <2>3, <2>4, RecordsAreNumbers
<1>2. r \in Nat
  BY <1>1
<1>3. i \in 0 .. n
  BY <1>1, SearchIndexRange
<1>4. \A j \in 0 .. n - 1 : l.records[j] < r <=> j < i
  BY <1>1, <1>2, SearchIndexExact
<1> HIDE DEF i
<1>5. ~(k < i)
  <2>1. ~(r < r)
    BY <1>2
  <2> QED BY <1>4, <2>1
<1>6. ~(i < k)
  <2> SUFFICES ASSUME i < k PROVE FALSE
    OBVIOUS
  <2>1. i \in 0 .. n - 1
    BY <1>1, <1>3
  <2>2. l.records[i] < r
    BY <2>1 DEF InOrder
  <2>3. i < i
    BY <1>4, <2>1, <2>2
  <2> QED BY <1>3, <2>3
<1> QED BY <1>1, <1>3, <1>5, <1>6 DEF i, r

Good(l) == l \in Leaf /\ InOrder(l) /\ Filled(l)

\* What a good leaf is made of.
LEMMA GoodFacts ==
  ASSUME NEW l, Good(l)
  PROVE  /\ l \in Leaf /\ InOrder(l) /\ Filled(l)
         /\ l.value_count \in 0 .. LeafMax /\ l.value_count \in Nat /\ l.next_leaf \in Nat
         /\ l.records \in [Slots -> Records \cup {NoRecord}]
         /\ l = [records |-> l.records, value_count |-> l.value_count, next_leaf |-> l.next_leaf]
         /\ Recs(l) \subseteq Records /\ Recs(l) \subseteq Nat
<1>1. l.value_count \in 0 .. LeafMax /\ l.next_leaf \in Nat /\ l.records \in [Slots -> Records \cup {NoRecord}]
  BY DEF Good, Leaf
<1>2. l = [records |-> l.records, value_count |-> l.value_count, next_leaf |-> l.next_leaf]
  BY DEF Good, Leaf
<1>3. Recs(l) \subseteq Records
  BY DEF Good, Filled, Recs
<1>4. l.value_count \in Nat
  BY <1>1, RecordsAreNumbers
<1> QED BY <1>1, <1>2, <1>3, <1>4, RecordsAreNumbers DEF Good

\* equal_record fails only on a record that is not in the leaf.
LEMMA Missed ==
  ASSUME NEW l, Good(l), NEW r, ~(SearchIndex(l, r) < LeafMax /\ l.records[SearchIndex(l, r)] = r)
  PROVE  r \notin Recs(l)
<1> SUFFICES ASSUME NEW k \in 0 .. l.value_count - 1, l.records[k] = r PROVE FALSE
  BY DEF Recs
<1>1. SearchIndex(l, r) = k
  BY Found DEF Good
<1>2. k < LeafMax
  <2>1. l.value_count \in 0 .. LeafMax /\ LeafMax \in Nat
    BY GoodFacts, RecordsAreNumbers
  <2> QED BY <2>1
<1> QED BY <1>1, <1>2

\* The records with one more at the position that search_index returns are in
\* order.
LEMMA InsertedFacts ==
  ASSUME NEW l, Good(l), l.value_count # 0, NEW r \in Records, r \notin Recs(l)
  PROVE  LET all == Inserted(l, SearchIndex(l, r), r)
             n == l.value_count
         IN  /\ \A s \in 0 .. LeafMax : all[s] \in Records \cup {NoRecord}
             /\ \A s \in 0 .. n : all[s] \in Recs(l) \cup {r}
             /\ \A s, t \in 0 .. n : s < t => all[s] < all[t]
             /\ \A x \in Recs(l) \cup {r} : \E s \in 0 .. n : all[s] = x
<1> DEFINE i == SearchIndex(l, r)
           n == l.value_count
           all == Inserted(l, i, r)
           rec == l.records
<1>1. /\ n \in 1 .. LeafMax /\ LeafMax \in Nat /\ r \in Nat
      /\ \A s \in 0 .. n - 1 : rec[s] \in Recs(l)
      /\ \A x \in Recs(l) : \E s \in 0 .. n - 1 : rec[s] = x
      /\ \A s \in Slots : rec[s] \in Records \cup {NoRecord}
      /\ \A s, t \in 0 .. n - 1 : s < t => rec[s] < rec[t]
  <2>1. n \in 1 .. LeafMax /\ LeafMax \in Nat /\ r \in Nat
    BY GoodFacts, RecordsAreNumbers
  <2>2. /\ \A s \in 0 .. n - 1 : rec[s] \in Recs(l)
        /\ \A x \in Recs(l) : \E s \in 0 .. n - 1 : rec[s] = x
    BY DEF Recs
  <2>3. \A s, t \in 0 .. n - 1 : s < t => rec[s] < rec[t]
    BY GoodFacts DEF InOrder
  <2>4. rec \in [Slots -> Records \cup {NoRecord}]
    BY GoodFacts
  <2> QED BY <2>1, <2>2, <2>3, <2>4
<1>2. i \in 0 .. n
  BY GoodFacts, SearchIndexRange
<1>3. \A s \in 0 .. n - 1 : (rec[s] < r <=> s < i) /\ rec[s] # r /\ rec[s] \in Nat
  <2>1. \A s \in 0 .. n - 1 : rec[s] < r <=> s < i
    <3>1. r \in Nat /\ l \in Leaf /\ Filled(l) /\ InOrder(l)
      BY GoodFacts, RecordsAreNumbers
    <3> QED BY <3>1, SearchIndexExact
  <2>2. Recs(l) \subseteq Nat
    BY GoodFacts
  <2> QED BY <1>1, <2>1, <2>2
<1>4. all = [s \in 0 .. LeafMax |-> IF s < i \/ (s > i /\ s > n)
                                      THEN IF s < LeafMax THEN rec[s] ELSE NoRecord
                                    ELSE IF s = i THEN r ELSE rec[s - 1]]
  BY DEF Inserted
<1> HIDE DEF i, n, rec, all
<1>5. ASSUME NEW s \in 0 .. n
      PROVE  /\ s < i => s \in 0 .. n - 1 /\ all[s] = rec[s]
             /\ s = i => all[s] = r
             /\ s > i => s - 1 \in 0 .. n - 1 /\ all[s] = rec[s - 1]
  <2>1. s \in 0 .. LeafMax /\ ~(s > n)
    BY <1>1
  <2>2. CASE s < i
    <3>1. s < LeafMax /\ s \in 0 .. n - 1 /\ s # i /\ ~(s > i)
      BY <1>1, <1>2, <2>2
    <3> QED BY <1>4, <2>1, <2>2, <3>1
  <2>3. CASE s = i
    <3>1. ~(s < i) /\ ~(s > i)
      BY <1>2, <2>3
    <3> QED BY <1>4, <2>1, <2>3, <3>1
  <2>4. CASE s > i
    <3>1. s # i /\ ~(s < i) /\ s - 1 \in 0 .. n - 1
      BY <1>1, <1>2, <2>4
    <3> QED BY <1>4, <2>1, <2>4, <3>1
  <2>5. s < i \/ s = i \/ s > i
    BY <1>2
  <2> QED BY <2>2, <2>3, <2>4, <2>5
<1>6. \A s \in 0 .. n : all[s] \in Recs(l) \cup {r}
  <2>1. \A s \in 0 .. n : s < i \/ s = i \/ s > i
    BY <1>2
  <2> QED BY <1>1, <1>5, <2>1
<1>7. \A s \in 0 .. LeafMax : all[s] \in Records \cup {NoRecord}
  <2> SUFFICES ASSUME NEW s \in 0 .. LeafMax PROVE all[s] \in Records \cup {NoRecord}
    OBVIOUS
  <2>1. CASE s \in 0 .. n
    BY <1>6, <2>1, GoodFacts
  <2>2. CASE s \notin 0 .. n
    <3>1. s > i /\ s > n
      BY <1>1, <1>2, <2>2
    <3>2. all[s] = IF s < LeafMax THEN rec[s] ELSE NoRecord
      BY <1>4, <3>1
    <3>3. s < LeafMax => s \in Slots
      BY <1>1 DEF Slots
    <3> QED BY <1>1, <3>2, <3>3
  <2> QED BY <2>1, <2>2
<1>8. \A s, t \in 0 .. n : s < t => all[s] < all[t]
  <2> SUFFICES ASSUME NEW s \in 0 .. n, NEW t \in 0 .. n, s < t PROVE all[s] < all[t]
    OBVIOUS
  <2>1. CASE t < i
    <3>1. s < i
      BY <1>2, <2>1
    <3> QED BY <1>1, <1>5, <2>1, <3>1
  <2>2. CASE t = i
    BY <1>3, <1>5, <2>2
  <2>3. CASE t > i /\ s < i
    <3>1. t - 1 \in 0 .. n - 1 /\ ~(t - 1 < i) /\ all[t] = rec[t - 1] /\ all[s] = rec[s] /\ s \in 0 .. n - 1
      BY <1>2, <1>5, <2>3
    <3>2. rec[s] < r /\ ~(rec[t - 1] < r) /\ rec[s] \in Nat /\ rec[t - 1] \in Nat
      BY <1>3, <2>3, <3>1
    <3> QED BY <1>1, <3>1, <3>2
  <2>4. CASE t > i /\ s = i
    <3>1. t - 1 \in 0 .. n - 1 /\ ~(t - 1 < i) /\ all[t] = rec[t - 1] /\ all[s] = r
      BY <1>2, <1>5, <2>4
    <3>2. ~(rec[t - 1] < r) /\ rec[t - 1] \in Nat /\ rec[t - 1] # r
      BY <1>3, <3>1
    <3> QED BY <1>1, <3>1, <3>2
  <2>5. CASE t > i /\ s > i
    <3>1. t - 1 \in 0 .. n - 1 /\ s - 1 \in 0 .. n - 1 /\ s - 1 < t - 1 /\ all[t] = rec[t - 1] /\ all[s] = rec[s - 1]
      BY <1>5, <2>5
    <3> QED BY <1>1, <3>1
  <2>6. t \in Int /\ s \in Int /\ i \in Int
    BY <1>2
  <2> QED BY <2>1, <2>2, <2>3, <2>4, <2>5, <2>6
<1>9. \A x \in Recs(l) \cup {r} : \E s \in 0 .. n : all[s] = x
  <2> SUFFICES ASSUME NEW x \in Recs(l) \cup {r} PROVE \E s \in 0 .. n : all[s] = x
    OBVIOUS
  <2>1. CASE x = r
    BY <1>2, <1>5, <2>1
  <2>2. CASE x # r
    <3>1. PICK k \in 0 .. n - 1 : rec[k] = x
      BY <1>1, <2>2
    <3>2. CASE k < i
      <4>1. k \in 0 .. n
        BY <1>1
      <4>2. all[k] = x
        BY <1>5, <3>1, <3>2, <4>1
      <4> QED BY <4>1, <4>2
    <3>3. CASE ~(k < i)
      <4> DEFINE t == k + 1
      <4>1. t \in 0 .. n /\ t > i /\ t - 1 = k
        BY <1>1, <1>2, <3>3
      <4> HIDE DEF t
      <4>2. all[t] = rec[t - 1]
        BY <1>5, <4>1
      <4>3. all[t] = x
        BY <3>1, <4>1, <4>2
      <4> QED BY <4>1, <4>3
    <3> QED BY <3>2, <3>3
  <2> QED BY <2>1, <2>2
<1> QED BY <1>6, <1>7, <1>8, <1>9 DEF all, i, n

\* The leaf with the first n of all as its records.
Runs(all, n) ==
  /\ n \in 0 .. LeafMax
  /\ \A s \in Slots : all[s] \in Records \cup {NoRecord}
  /\ \A s \in 0 .. n - 1 : all[s] \in Records
  /\ \A s, t \in 0 .. n - 1 : s < t => all[s] < all[t]

LeafOf(all, n, nx) == [records |-> [s \in Slots |-> all[s]], value_count |-> n, next_leaf |-> nx]

\* A leaf made of a run of increasing records is good.
LEMMA Composed ==
  ASSUME NEW all, NEW n, Runs(all, n), NEW nx \in Nat
  PROVE  Good(LeafOf(all, n, nx)) /\ Recs(LeafOf(all, n, nx)) = {all[s] : s \in 0 .. n - 1}
<1> DEFINE f == [s \in Slots |-> all[s]]
           m == LeafOf(all, n, nx)
<1>0. /\ n \in 0 .. LeafMax
      /\ \A s \in Slots : all[s] \in Records \cup {NoRecord}
      /\ \A s \in 0 .. n - 1 : all[s] \in Records
      /\ \A s, t \in 0 .. n - 1 : s < t => all[s] < all[t]
  BY DEF Runs
<1>1. n \in Nat /\ n <= LeafMax /\ \A s \in 0 .. n - 1 : s \in Slots
  BY <1>0, RecordsAreNumbers DEF Slots
<1>2. f \in [Slots -> Records \cup {NoRecord}] /\ \A s \in Slots : f[s] = all[s]
  BY <1>0
<1>3. m.records = f /\ m.value_count = n /\ m.next_leaf = nx
      /\ m = [records |-> f, value_count |-> n, next_leaf |-> nx]
  BY DEF LeafOf
<1> HIDE DEF f, m
<1>4. m \in Leaf
  BY <1>0, <1>2, <1>3 DEF Leaf
<1>5. \A s \in 0 .. n - 1 : m.records[s] = all[s]
  BY <1>1, <1>2, <1>3
<1>6. InOrder(m) /\ Filled(m)
  BY <1>0, <1>3, <1>5 DEF InOrder, Filled
<1>7. Recs(m) = {all[s] : s \in 0 .. n - 1}
  BY <1>3, <1>5 DEF Recs
<1>8. Good(m)
  BY <1>4, <1>6 DEF Good
<1> QED BY <1>7, <1>8 DEF m

\* Inserting into an empty leaf.
LEMMA FirstLeaf ==
  ASSUME NEW l, Good(l), l.value_count = 0, NEW r \in Records, NEW m,
         m = [records |-> [l.records EXCEPT ![0] = r], value_count |-> 1, next_leaf |-> l.next_leaf]
  PROVE  Good(m) /\ Recs(m) = Recs(l) \cup {r}
<1> DEFINE all == [l.records EXCEPT ![0] = r]
<1>1. l.records \in [Slots -> Records \cup {NoRecord}] /\ l.next_leaf \in Nat
  BY GoodFacts
<1>2. 0 \in Slots /\ 1 \in 0 .. LeafMax
  BY RecordsAreNumbers DEF Slots
<1>3. all[0] = r /\ (\A s \in Slots : all[s] \in Records \cup {NoRecord}) /\ all = [s \in Slots |-> all[s]]
  BY <1>1, <1>2
<1> HIDE DEF all
<1>4. 0 .. 1 - 1 = {0}
  OBVIOUS
<1>5. \A s \in 0 .. 1 - 1 : all[s] \in Records
  BY <1>3, <1>4
<1>6. \A s, t \in 0 .. 1 - 1 : s < t => all[s] < all[t]
  OBVIOUS
<1>7. m = LeafOf(all, 1, l.next_leaf)
  BY <1>3 DEF all, LeafOf
<1>8. Good(m) /\ Recs(m) = {all[s] : s \in 0 .. 1 - 1}
  <2>1. Runs(all, 1)
    BY <1>2, <1>3, <1>5, <1>6 DEF Runs
  <2> QED BY <1>1, <1>7, <2>1, Composed
<1>9. Recs(l) = {}
  <2>1. \A s \in 0 .. l.value_count - 1 : FALSE
    OBVIOUS
  <2> QED BY <2>1 DEF Recs
<1> QED BY <1>3, <1>4, <1>8, <1>9

\* Inserting into a leaf with room.
LEMMA FullerLeaf ==
  ASSUME NEW l, Good(l), l.value_count # 0, l.value_count < LeafMax,
         NEW r \in Records, r \notin Recs(l), NEW m,
         m = [records |-> [s \in Slots |-> Inserted(l, SearchIndex(l, r), r)[s]],
              value_count |-> l.value_count + 1, next_leaf |-> l.next_leaf]
  PROVE  Good(m) /\ Recs(m) = Recs(l) \cup {r}
<1> DEFINE all == Inserted(l, SearchIndex(l, r), r)
           n == l.value_count
<1>1. /\ \A s \in 0 .. LeafMax : all[s] \in Records \cup {NoRecord}
      /\ \A s \in 0 .. n : all[s] \in Recs(l) \cup {r}
      /\ \A s, t \in 0 .. n : s < t => all[s] < all[t]
      /\ \A x \in Recs(l) \cup {r} : \E s \in 0 .. n : all[s] = x
  BY InsertedFacts
<1>2. n \in Nat /\ l.next_leaf \in Nat /\ LeafMax \in Nat /\ n < LeafMax /\ Recs(l) \subseteq Records
  BY GoodFacts, RecordsAreNumbers
<1>3. m = LeafOf(all, n + 1, l.next_leaf)
  BY DEF LeafOf
<1> HIDE DEF all, n
<1>4. n + 1 \in 0 .. LeafMax /\ (n + 1) - 1 = n /\ \A s \in Slots : s \in 0 .. LeafMax
  BY <1>2 DEF Slots
<1>5. \A s \in Slots : all[s] \in Records \cup {NoRecord}
  BY <1>1, <1>4
<1>6. \A s \in 0 .. (n + 1) - 1 : all[s] \in Records
  BY <1>1, <1>2, <1>4
<1>7. \A s, t \in 0 .. (n + 1) - 1 : s < t => all[s] < all[t]
  BY <1>1, <1>4
<1>8. Good(m) /\ Recs(m) = {all[s] : s \in 0 .. (n + 1) - 1}
  <2>1. Runs(all, n + 1)
    BY <1>4, <1>5, <1>6, <1>7 DEF Runs
  <2> QED BY <1>2, <1>3, <2>1, Composed
<1> QED BY <1>1, <1>4, <1>8

\* The leaves m and q share the records of l and the record r.
Shared(l, r, all, m, q) ==
  /\ Good(m) /\ Good(q) /\ Recs(m) \cup Recs(q) = Recs(l) \cup {r}
  /\ all[Middle] \in Recs(q) /\ Recs(m) # {}
  /\ \A x \in Recs(m) : x < all[Middle]
  /\ \A x \in Recs(q) : all[Middle] <= x

RightOf(all, nx) ==
  [records |-> [s \in Slots |-> IF Middle + s <= LeafMax THEN all[Middle + s] ELSE NoRecord],
   value_count |-> LeafMax \div 2 + 1, next_leaf |-> nx]

\* Inserting into a full leaf: the two leaves share what there was and the new
\* record.
LEMMA SplitLeaf ==
  ASSUME NEW l, Good(l), l.value_count = LeafMax, NEW r \in Records, r \notin Recs(l),
         NEW nl \in Nat, NEW nr \in Nat, NEW all, all = Inserted(l, SearchIndex(l, r), r)
  PROVE  Shared(l, r, all, LeafOf(all, Middle, nl), RightOf(all, nr))
<1>1. /\ \A s \in 0 .. LeafMax : all[s] \in Records \cup {NoRecord}
      /\ \A s \in 0 .. LeafMax : all[s] \in Recs(l) \cup {r}
      /\ \A s, t \in 0 .. LeafMax : s < t => all[s] < all[t]
      /\ \A x \in Recs(l) \cup {r} : \E s \in 0 .. LeafMax : all[s] = x
  <2>1. l.value_count # 0
    BY RecordsAreNumbers
  <2> DEFINE al == Inserted(l, SearchIndex(l, r), r)
             n == l.value_count
  <2>2. /\ \A s \in 0 .. LeafMax : al[s] \in Records \cup {NoRecord}
        /\ \A s \in 0 .. n : al[s] \in Recs(l) \cup {r}
        /\ \A s, t \in 0 .. n : s < t => al[s] < al[t]
        /\ \A x \in Recs(l) \cup {r} : \E s \in 0 .. n : al[s] = x
    BY <2>1, InsertedFacts
  <2> QED BY <2>2
<1> DEFINE h == Middle
           c == LeafMax \div 2 + 1
           m == LeafOf(all, Middle, nl)
           q == RightOf(all, nr)
           rest2 == [s \in Slots |-> IF h + s <= LeafMax THEN all[h + s] ELSE NoRecord]
<1>2. LeafMax \in Nat /\ LeafMax > 0 /\ Recs(l) \subseteq Records
  BY GoodFacts, RecordsAreNumbers
<1>3. h \in 1 .. LeafMax /\ c \in 1 .. LeafMax /\ h + c = LeafMax + 1
  BY <1>2 DEF Middle
<1>4. \A s \in 0 .. LeafMax : all[s] \in Records /\ all[s] \in Nat
  <2>1. Recs(l) \cup {r} \subseteq Records
    BY <1>2
  <2>2. \A s \in 0 .. LeafMax : all[s] \in Recs(l) \cup {r}
    BY <1>1
  <2>3. \A s \in 0 .. LeafMax : all[s] \in Records
    BY <2>1, <2>2
  <2> QED BY <2>3, RecordsAreNumbers
<1> HIDE DEF h, c, m, q
<1>5. Good(m) /\ Recs(m) = {all[s] : s \in 0 .. h - 1}
  <2>1. /\ \A s \in Slots : s \in 0 .. LeafMax
        /\ \A s \in 0 .. h - 1 : s \in 0 .. LeafMax
        /\ h \in 0 .. LeafMax
    BY <1>2, <1>3 DEF Slots
  <2>2. /\ \A s \in Slots : all[s] \in Records \cup {NoRecord}
        /\ \A s \in 0 .. h - 1 : all[s] \in Records
        /\ \A s, t \in 0 .. h - 1 : s < t => all[s] < all[t]
    BY <1>1, <1>4, <2>1
  <2>3. m = LeafOf(all, h, nl)
    BY DEF h, m
  <2>4. Runs(all, h)
    BY <2>1, <2>2 DEF Runs
  <2> QED BY <2>3, <2>4, Composed
<1>6. Good(q) /\ Recs(q) = {rest2[s] : s \in 0 .. c - 1} /\ \A s \in 0 .. c - 1 : rest2[s] = all[h + s]
  <2>1. /\ \A s \in Slots : h + s <= LeafMax => h + s \in 0 .. LeafMax
        /\ \A s \in 0 .. c - 1 : s \in Slots /\ h + s <= LeafMax /\ h + s \in 0 .. LeafMax
        /\ c \in 0 .. LeafMax
    BY <1>2, <1>3 DEF Slots
  <2>2. \A s \in Slots : rest2[s] \in Records \cup {NoRecord}
    BY <1>1, <2>1
  <2>3. \A s \in 0 .. c - 1 : rest2[s] = all[h + s] /\ rest2[s] \in Records
    BY <1>4, <2>1
  <2>4. \A s, t \in 0 .. c - 1 : s < t => rest2[s] < rest2[t]
    <3> SUFFICES ASSUME NEW s \in 0 .. c - 1, NEW t \in 0 .. c - 1, s < t PROVE rest2[s] < rest2[t]
      OBVIOUS
    <3>1. h + s < h + t
      BY <1>3
    <3> HIDE DEF rest2
    <3> QED BY <1>1, <2>1, <2>3, <3>1
  <2>5. q = LeafOf(rest2, c, nr)
    BY DEF h, c, q, RightOf, LeafOf
  <2> HIDE DEF rest2
  <2>6. Good(q) /\ Recs(q) = {rest2[s] : s \in 0 .. c - 1}
    <3>1. Runs(rest2, c)
      BY <2>1, <2>2, <2>3, <2>4 DEF Runs
    <3> QED BY <2>5, <3>1, Composed
  <2> QED BY <2>3, <2>6
<1> HIDE DEF rest2
<1>7. Recs(m) \cup Recs(q) = Recs(l) \cup {r}
  <2>1. \A x \in Recs(m) \cup Recs(q) : x \in Recs(l) \cup {r}
    <3>1. /\ \A s \in 0 .. h - 1 : s \in 0 .. LeafMax
          /\ \A s \in 0 .. c - 1 : h + s \in 0 .. LeafMax
      BY <1>2, <1>3
    <3> QED BY <1>1, <1>5, <1>6, <3>1
  <2>2. ASSUME NEW x \in Recs(l) \cup {r} PROVE x \in Recs(m) \cup Recs(q)
    <3>1. PICK s \in 0 .. LeafMax : all[s] = x
      BY <1>1
    <3>2. CASE s < h
      <4>1. s \in 0 .. h - 1
        BY <1>3, <3>2
      <4> QED BY <1>5, <3>1, <4>1
    <3>3. CASE ~(s < h)
      <4> DEFINE t == s - h
      <4>1. t \in 0 .. c - 1 /\ h + t = s
        <5>1. s \in Nat /\ s <= LeafMax /\ h <= s
          BY <1>2, <1>3, <3>3
        <5> QED BY <1>2, <1>3, <5>1
      <4> HIDE DEF t
      <4>2. rest2[t] = x
        BY <1>6, <3>1, <4>1
      <4> QED BY <1>6, <4>1, <4>2
    <3> QED BY <3>2, <3>3
  <2> QED BY <2>1, <2>2
<1>8. all[h] \in Recs(q) /\ Recs(m) # {}
  <2>1. 0 \in 0 .. c - 1 /\ 0 \in 0 .. h - 1 /\ h + 0 = h
    BY <1>3
  <2>2. rest2[0] = all[h]
    BY <1>6, <2>1
  <2> QED BY <1>5, <1>6, <2>1, <2>2
<1>9. \A x \in Recs(m) : x < all[h]
  <2>1. \A s \in 0 .. h - 1 : s \in 0 .. LeafMax /\ h \in 0 .. LeafMax /\ s < h
    BY <1>2, <1>3
  <2> QED BY <1>1, <1>5, <2>1
<1>10. \A x \in Recs(q) : all[h] <= x
  <2> SUFFICES ASSUME NEW s \in 0 .. c - 1 PROVE all[h] <= rest2[s]
    BY <1>6
  <2>1. h \in 0 .. LeafMax /\ h + s \in 0 .. LeafMax /\ rest2[s] = all[h + s]
    BY <1>2, <1>3, <1>6
  <2>2. CASE s = 0
    <3>1. h + s = h
      BY <1>3, <2>2
    <3>2. all[h] \in Nat
      BY <1>4, <2>1
    <3> QED BY <2>1, <3>1, <3>2
  <2>3. CASE s # 0
    <3>1. h < h + s
      BY <1>3, <2>3
    <3>2. all[h] < all[h + s] /\ all[h] \in Nat /\ all[h + s] \in Nat
      BY <1>1, <1>4, <2>1, <3>1
    <3> QED BY <2>1, <3>2
  <2> QED BY <2>2, <2>3
<1>11. Shared(l, r, all, m, q)
  BY <1>5, <1>6, <1>7, <1>8, <1>9, <1>10 DEF h, Shared
<1> QED BY <1>11 DEF m, q

\* Deleting a record of a leaf.
LEMMA LighterLeaf ==
  ASSUME NEW l, Good(l), NEW k \in 0 .. l.value_count - 1, NEW m,
         m = [records |-> Removed(l, k), value_count |-> l.value_count - 1, next_leaf |-> l.next_leaf]
  PROVE  Good(m) /\ Recs(m) = Recs(l) \ {l.records[k]}
<1> DEFINE all == Removed(l, k)
           n == l.value_count
           rec == l.records
           r == rec[k]
<1>1. /\ n \in 1 .. LeafMax /\ LeafMax \in Nat /\ l.next_leaf \in Nat
      /\ rec \in [Slots -> Records \cup {NoRecord}]
      /\ \A s \in 0 .. n - 1 : rec[s] \in Records /\ rec[s] \in Nat
      /\ \A s, t \in 0 .. n - 1 : s < t => rec[s] < rec[t]
      /\ Recs(l) = {rec[s] : s \in 0 .. n - 1}
  <2>1. n \in 1 .. LeafMax /\ LeafMax \in Nat /\ l.next_leaf \in Nat /\ rec \in [Slots -> Records \cup {NoRecord}]
    BY GoodFacts, RecordsAreNumbers
  <2>2. /\ \A s \in 0 .. n - 1 : rec[s] \in Records /\ rec[s] \in Nat
        /\ \A s, t \in 0 .. n - 1 : s < t => rec[s] < rec[t]
    BY GoodFacts, RecordsAreNumbers DEF Filled, InOrder
  <2> QED BY <2>1, <2>2 DEF Recs
<1>2. all = [s \in Slots |-> IF s >= k /\ s < n - 1 THEN rec[s + 1] ELSE rec[s]]
  BY DEF Removed
<1>3. m = LeafOf(all, n - 1, l.next_leaf)
  BY <1>2 DEF LeafOf
<1> HIDE DEF all, n, rec
<1>4. k \in 0 .. n - 1
  BY DEF n
<1>5. ASSUME NEW s \in 0 .. n - 2
      PROVE  /\ s < k => all[s] = rec[s]
             /\ s >= k => all[s] = rec[s + 1]
             /\ s \in 0 .. n - 1 /\ s + 1 \in 0 .. n - 1
  <2>1. s \in Slots /\ s < n - 1 /\ s \in 0 .. n - 1 /\ s + 1 \in 0 .. n - 1
    BY <1>1 DEF Slots
  <2>2. all[s] = IF s >= k /\ s < n - 1 THEN rec[s + 1] ELSE rec[s]
    BY <1>2, <2>1
  <2>3. s < k => ~(s >= k)
    BY <1>4
  <2> QED BY <2>1, <2>2, <2>3
<1>6. \A s \in Slots : all[s] \in Records \cup {NoRecord}
  <2> SUFFICES ASSUME NEW s \in Slots PROVE all[s] \in Records \cup {NoRecord}
    OBVIOUS
  <2>1. s < n - 1 => s + 1 \in Slots
    BY <1>1 DEF Slots
  <2> QED BY <1>1, <1>2, <2>1
<1>7. \A s \in 0 .. (n - 1) - 1 : all[s] \in Records
  <2>1. \A s \in 0 .. (n - 1) - 1 : s \in 0 .. n - 2 /\ (s < k \/ s >= k)
    BY <1>1, <1>4
  <2> QED BY <1>1, <1>5, <2>1
<1>8. \A s, t \in 0 .. (n - 1) - 1 : s < t => all[s] < all[t]
  <2> SUFFICES ASSUME NEW s \in 0 .. n - 2, NEW t \in 0 .. n - 2, s < t PROVE all[s] < all[t]
    <3>1. 0 .. (n - 1) - 1 = 0 .. n - 2
      BY <1>1
    <3> QED BY <3>1
  <2>1. s \in 0 .. n - 1 /\ s + 1 \in 0 .. n - 1 /\ t \in 0 .. n - 1 /\ t + 1 \in 0 .. n - 1
    BY <1>5
  <2>2. CASE t < k
    <3>1. s < k
      BY <1>4, <2>2
    <3> QED BY <1>1, <1>5, <2>1, <2>2, <3>1
  <2>3. CASE t >= k /\ s < k
    <3>1. s < t + 1
      BY <1>4, <2>3
    <3> QED BY <1>1, <1>5, <2>1, <2>3, <3>1
  <2>4. CASE s >= k
    <3>1. t >= k /\ s + 1 < t + 1
      BY <1>4, <2>4
    <3> QED BY <1>1, <1>5, <2>1, <2>4, <3>1
  <2>5. t \in Int /\ s \in Int /\ k \in Int
    BY <1>4
  <2> QED BY <2>2, <2>3, <2>4, <2>5
<1>9. Good(m) /\ Recs(m) = {all[s] : s \in 0 .. (n - 1) - 1}
  <2>1. n - 1 \in 0 .. LeafMax
    BY <1>1
  <2>2. Runs(all, n - 1)
    BY <1>6, <1>7, <1>8, <2>1 DEF Runs
  <2> QED BY <1>1, <1>3, <2>2, Composed
<1>10. Recs(m) = Recs(l) \ {r}
  <2>1. ASSUME NEW x \in Recs(m) PROVE x \in Recs(l) \ {r}
    <3>1. PICK s \in 0 .. n - 2 : all[s] = x
      <4>1. 0 .. (n - 1) - 1 = 0 .. n - 2
        BY <1>1
      <4> QED BY <1>9, <4>1
    <3>2. CASE s < k
      <4>1. x = rec[s] /\ s \in 0 .. n - 1 /\ rec[s] < rec[k] /\ rec[s] \in Nat
        BY <1>1, <1>4, <1>5, <3>1, <3>2
      <4>2. rec[s] # rec[k]
        <5>1. rec[k] \in Nat
          BY <1>1, <1>4
        <5> QED BY <4>1, <5>1
      <4> QED BY <1>1, <4>1, <4>2
    <3>3. CASE s >= k
      <4>0. k < s + 1
        BY <1>4, <3>3
      <4>1. x = rec[s + 1] /\ s + 1 \in 0 .. n - 1 /\ rec[k] < rec[s + 1] /\ rec[s + 1] \in Nat
        BY <1>1, <1>4, <1>5, <3>1, <3>3, <4>0
      <4>2. rec[s + 1] # rec[k]
        <5>1. rec[k] \in Nat
          BY <1>1, <1>4
        <5> QED BY <4>1, <5>1
      <4> QED BY <1>1, <4>1, <4>2
    <3> QED BY <1>4, <3>2, <3>3
  <2>2. ASSUME NEW x \in Recs(l), x # r PROVE x \in Recs(m)
    <3>1. PICK s \in 0 .. n - 1 : rec[s] = x
      BY <1>1
    <3>2. CASE s < k
      <4>1. s \in 0 .. n - 2 /\ s \in 0 .. (n - 1) - 1
        BY <1>1, <1>4, <3>2
      <4>2. all[s] = x
        BY <1>5, <3>1, <3>2, <4>1
      <4> QED BY <1>9, <4>1, <4>2
    <3>3. CASE s > k
      <4> DEFINE t == s - 1
      <4>1. t \in 0 .. n - 2 /\ t \in 0 .. (n - 1) - 1 /\ t >= k /\ t + 1 = s
        BY <1>1, <1>4, <3>3
      <4> HIDE DEF t
      <4>2. all[t] = x
        BY <1>5, <3>1, <4>1
      <4> QED BY <1>9, <4>1, <4>2
    <3>4. s # k
      BY <2>2, <3>1
    <3> QED BY <1>4, <3>2, <3>3, <3>4
  <2> HIDE DEF r
  <2> QED BY <2>1, <2>2
<1> QED BY <1>9, <1>10 DEF r, rec

-----------------------------------------------------------------------------
(* The inductive invariant.                                                *)

Scalars ==
  /\ rest \in SUBSET Records
  /\ pc \in {"import", "bulk", "idle", "descend", "leaf", "split"}
  /\ op \in {"none", "insert", "delete"}
  /\ record \in Records \cup {NoRecord}
  /\ leaf \in Nat
  /\ split \in Split
  /\ answer \in BOOLEAN /\ misread \in BOOLEAN
  /\ updates \in 0 .. MaxUpdates

Files ==
  /\ IsFile(dirs) /\ IsFile(leaves)
  /\ \A p \in DOMAIN dirs : Len(dirs[p].keys) <= DirMax

FirstDirs == [p \in {0} |-> [keys |-> << >>, children |-> <<0>>]]

Fresh == leaves = EmptyFile => pc = "import" /\ path = << >> /\ dirs = FirstDirs

\* What is still to be imported is greater than everything that was.
KeysBelow(ds, r) == \A p \in DOMAIN ds : \A i \in 1 .. Len(ds[p].keys) : ds[p].keys[i] < r

LastLeaf == leaves[NewPage(leaves) - 1]

Importing ==
  /\ pc \notin {"import", "bulk"} => rest = {}
  /\ \A r \in rest : KeysBelow(dirs, r)
  /\ rest # {} /\ leaves # EmptyFile =>
       /\ Recs(LastLeaf) # {} /\ LastLeaf.next_leaf = NewPage(leaves)
       /\ \A r \in rest : \A x \in Recs(LastLeaf) : x < r
  /\ pc = "bulk" => KeysBelow(dirs, split.record) /\ \A r \in rest : split.record < r

Below(A, B) == \A x \in A, y \in B : x < y

\* The leaves in the order of their ranges: next_leaf is the next one, and end
\* in the last one.
Chained(ls, L, end) ==
  /\ \A p \in DOMAIN ls : L[p] # {} \/ Records = {}
  /\ \A p, q \in DOMAIN ls : p # q => Below(L[p], L[q]) \/ Below(L[q], L[p])
  /\ \A p \in DOMAIN ls : ls[p].next_leaf = end =>
       \A q \in DOMAIN ls : q # p => Below(L[q], L[p])
  /\ \A p \in DOMAIN ls : ls[p].next_leaf # end =>
       /\ ls[p].next_leaf # 0 /\ ls[p].next_leaf \in DOMAIN ls /\ ls[p].next_leaf # p
       /\ Below(L[p], L[ls[p].next_leaf])
       /\ \A q \in DOMAIN ls : q # p /\ q # ls[p].next_leaf =>
            Below(L[q], L[p]) \/ Below(L[ls[p].next_leaf], L[q])

\* During the import the last leaf already has the page of the next one.
End == IF rest = {} THEN 0 ELSE NewPage(leaves)

\* Where the running operation is in the tree.
Place(D, L, H, w) ==
  /\ Chained(leaves, L, End)
  /\ \A r \in rest : r \in L[NewPage(leaves) - 1]
  /\ pc \in {"import", "idle"} => w = NoOwner /\ path = << >>
  /\ pc \notin {"import", "idle"} => Way(dirs, H, path)
  /\ pc = "bulk" => /\ w.own # -1 /\ w.key = split.record /\ w.page = split.page
                    /\ split.record \in D[Top]
                    /\ split.page < 0 => w.own = Top
  /\ pc \in {"descend", "leaf"} => w = NoOwner /\ record \in D[Top]
  /\ pc = "leaf" => /\ leaf \in DOMAIN leaves /\ record \in L[leaf]
                    /\ \E t : Parent(dirs, Top, t, leaf)
  /\ pc = "split" => w.own = Top /\ w.key = split.record /\ w.page = split.page

Grows == leaves # EmptyFile =>
           \E D, L, H, w : Tree(dirs, leaves, D, L, H, w) /\ Place(D, L, H, w)

IInv == Scalars /\ Files /\ Fresh /\ Importing /\ Grows

\* A leaf changes within its range and keeps the next one.
LEMMA ChainStays ==
  ASSUME NEW ls, NEW L, NEW end, Chained(ls, L, end),
         NEW ms, DOMAIN ms = DOMAIN ls, \A c \in DOMAIN ls : ms[c].next_leaf = ls[c].next_leaf
  PROVE  Chained(ms, L, end)
BY DEF Chained

\* A leaf is cut and the new one is put behind it.
LEMMA CutChain ==
  ASSUME NEW ls, NEW L, DOMAIN L = DOMAIN ls, NEW end, Chained(ls, L, end),
         end = 0 \/ end \notin DOMAIN ls,
         \A c \in DOMAIN ls : L[c] \subseteq Records,
         NEW p \in DOMAIN ls, NEW key \in L[p], \E x \in L[p] : x < key,
         NEW a \in Nat, a \notin DOMAIN ls, a # 0,
         NEW ms, DOMAIN ms = DOMAIN ls \cup {a},
         \A c \in DOMAIN ls : c # p => ms[c].next_leaf = ls[c].next_leaf,
         ms[p].next_leaf = a,
         NEW last, last = 0 \/ last \notin DOMAIN ms,
         ms[a].next_leaf = IF ls[p].next_leaf = end THEN last ELSE ls[p].next_leaf,
         end # last => ls[p].next_leaf = end
  PROVE  Chained(ms, Divided(L, p, a, key), last)
<1> DEFINE M == Divided(L, p, a, key)
<1>1. /\ M[p] = {x \in L[p] : x < key} /\ M[a] = {x \in L[p] : key <= x}
      /\ \A c \in DOMAIN ls : c # p => M[c] = L[c]
  BY DEF Divided
<1>2. /\ \A q \in DOMAIN ls : L[q] # {} \/ Records = {}
      /\ \A q, o \in DOMAIN ls : q # o => Below(L[q], L[o]) \/ Below(L[o], L[q])
      /\ \A q \in DOMAIN ls : ls[q].next_leaf = end =>
           \A o \in DOMAIN ls : o # q => Below(L[o], L[q])
      /\ \A q \in DOMAIN ls : ls[q].next_leaf # end =>
           /\ ls[q].next_leaf # 0 /\ ls[q].next_leaf \in DOMAIN ls /\ ls[q].next_leaf # q
           /\ Below(L[q], L[ls[q].next_leaf])
           /\ \A o \in DOMAIN ls : o # q /\ o # ls[q].next_leaf =>
                Below(L[o], L[q]) \/ Below(L[ls[q].next_leaf], L[o])
  BY DEF Chained
<1> HIDE DEF M
<1>3. M[p] # {} /\ M[a] # {} /\ M[p] \subseteq L[p] /\ M[a] \subseteq L[p]
  <2>1. key \in Nat
    BY RecordsAreNumbers
  <2>2. key <= key
    BY <2>1
  <2> QED BY <1>1, <2>2
<1>4. Below(M[p], M[a])
  <2>1. key \in Nat /\ L[p] \subseteq Nat
    BY RecordsAreNumbers
  <2>2. \A x, y \in Nat : x < key /\ key <= y => x < y
    BY <2>1
  <2> QED BY <1>1, <2>1, <2>2 DEF Below
<1>5. ASSUME NEW q \in DOMAIN ls, q # p
      PROVE  /\ Below(L[q], L[p]) => Below(M[q], M[p]) /\ Below(M[q], M[a])
             /\ Below(L[p], L[q]) => Below(M[p], M[q]) /\ Below(M[a], M[q])
  BY <1>1, <1>3, <1>5 DEF Below
<1>6. \A q, o \in DOMAIN ls : q # p /\ o # p => (Below(L[q], L[o]) <=> Below(M[q], M[o]))
  BY <1>1
\* The last one is the only one with end.
<1>7. ASSUME NEW q \in DOMAIN ls, q # p, ls[q].next_leaf = end, ls[p].next_leaf = end
      PROVE  FALSE
  <2>1. Below(L[p], L[q]) /\ Below(L[q], L[p])
    BY <1>2, <1>7
  <2>2. PICK x \in L[q] : TRUE
    BY <1>2
  <2>3. key < x /\ x < key /\ key \in Nat /\ x \in Nat
    BY <2>1, <2>2, RecordsAreNumbers DEF Below
  <2> QED BY <2>3
<1>8. a # last /\ a # p
  OBVIOUS
<1>9. \A c \in DOMAIN ms : M[c] # {} \/ Records = {}
  BY <1>1, <1>2, <1>3
<1>10. \A c, o \in DOMAIN ms : c # o => Below(M[c], M[o]) \/ Below(M[o], M[c])
  BY <1>2, <1>4, <1>5, <1>6
<1>11. ASSUME NEW c \in DOMAIN ms, ms[c].next_leaf = last, NEW o \in DOMAIN ms, o # c
       PROVE  Below(M[o], M[c])
  <2>1. CASE c = p
    BY <1>8, <1>11, <2>1
  <2>2. CASE c = a
    <3>1. ls[p].next_leaf = end
      BY <1>11, <2>2
    <3>2. o = p \/ (o \in DOMAIN ls /\ o # p /\ Below(L[o], L[p]))
      BY <1>2, <1>11, <2>2, <3>1
    <3> QED BY <1>4, <1>5, <2>2, <3>2
  <2>3. CASE c # p /\ c # a
    <3>1. c \in DOMAIN ls /\ ls[c].next_leaf = last
      BY <1>11, <2>3
    <3>2. end = last
      BY <1>2, <1>7, <2>3, <3>1
    <3>3. \A q \in DOMAIN ls : q # c => Below(L[q], L[c])
      BY <1>2, <3>1, <3>2
    <3>4. CASE o = a
      BY <1>5, <2>3, <3>1, <3>3, <3>4
    <3>5. CASE o = p
      BY <1>5, <2>3, <3>1, <3>3, <3>5
    <3>6. CASE o # a /\ o # p
      BY <1>6, <1>11, <2>3, <3>1, <3>3, <3>6
    <3> QED BY <3>4, <3>5, <3>6
  <2> QED BY <2>1, <2>2, <2>3
<1>12. ASSUME NEW c \in DOMAIN ms, ms[c].next_leaf # last
       PROVE  /\ ms[c].next_leaf # 0 /\ ms[c].next_leaf \in DOMAIN ms /\ ms[c].next_leaf # c
              /\ Below(M[c], M[ms[c].next_leaf])
              /\ \A o \in DOMAIN ms : o # c /\ o # ms[c].next_leaf =>
                   Below(M[o], M[c]) \/ Below(M[ms[c].next_leaf], M[o])
  <2>1. CASE c = p
    <3>1. \A o \in DOMAIN ms : o # p /\ o # a => Below(M[o], M[p]) \/ Below(M[a], M[o])
      BY <1>2, <1>5
    <3> QED BY <1>4, <1>8, <2>1, <3>1
  <2>2. CASE c = a
    <3> DEFINE n == ls[p].next_leaf
    <3>1. n # end /\ ms[a].next_leaf = n
      BY <1>12, <2>2
    <3>2. /\ n # 0 /\ n \in DOMAIN ls /\ n # p /\ Below(L[p], L[n])
          /\ \A o \in DOMAIN ls : o # p /\ o # n => Below(L[o], L[p]) \/ Below(L[n], L[o])
      BY <1>2, <3>1
    <3> HIDE DEF n
    <3>3. Below(M[a], M[n]) /\ n # a
      BY <1>5, <3>2
    <3>4. \A o \in DOMAIN ms : o # a /\ o # n => Below(M[o], M[a]) \/ Below(M[n], M[o])
      BY <1>4, <1>5, <1>6, <3>2
    <3> QED BY <2>2, <3>1, <3>2, <3>3, <3>4
  <2>3. CASE c # p /\ c # a
    <3> DEFINE n == ls[c].next_leaf
    <3>1. c \in DOMAIN ls /\ ms[c].next_leaf = n /\ n # last
      BY <1>12, <2>3
    <3>2. n # end
      BY <1>7, <2>3, <3>1
    <3>3. /\ n # 0 /\ n \in DOMAIN ls /\ n # c /\ Below(L[c], L[n])
          /\ \A o \in DOMAIN ls : o # c /\ o # n => Below(L[o], L[c]) \/ Below(L[n], L[o])
      BY <1>2, <3>1, <3>2
    <3> HIDE DEF n
    <3>4. CASE n = p
      <4>1. Below(M[c], M[n])
        BY <1>5, <2>3, <3>1, <3>3, <3>4
      <4>2. \A o \in DOMAIN ms : o # c /\ o # n => Below(M[o], M[c]) \/ Below(M[n], M[o])
        BY <1>4, <1>5, <1>6, <2>3, <3>1, <3>3, <3>4
      <4> QED BY <3>1, <3>3, <4>1, <4>2
    <3>5. CASE n # p
      <4>1. Below(M[c], M[n])
        BY <1>6, <2>3, <3>1, <3>3, <3>5
      <4>2. (Below(M[p], M[c]) /\ Below(M[a], M[c])) \/ (Below(M[n], M[p]) /\ Below(M[n], M[a]))
        BY <1>5, <2>3, <3>1, <3>3, <3>5
      <4>3. \A o \in DOMAIN ms : o # c /\ o # n => Below(M[o], M[c]) \/ Below(M[n], M[o])
        BY <1>6, <2>3, <3>1, <3>3, <3>5, <4>2
      <4> QED BY <3>1, <3>3, <4>1, <4>3
    <3> QED BY <3>4, <3>5
  <2> QED BY <2>1, <2>2, <2>3
<1>13. Chained(ms, M, last)
  BY <1>9, <1>10, <1>11, <1>12 DEF Chained
<1> QED BY <1>13 DEF M

\* The leaves of the tree are good and hold only records of their range.
LEMMA TreeLeaves ==
  ASSUME NEW ds, NEW ls, NEW D, NEW L, NEW H, NEW w, Tree(ds, ls, D, L, H, w), NEW p \in DOMAIN ls
  PROVE  Good(ls[p]) /\ Recs(ls[p]) \subseteq L[p] /\ L[p] \subseteq Records /\ p \in Nat
<1>1. ls[p] \in Leaf /\ InOrder(ls[p]) /\ \A i \in 0 .. ls[p].value_count - 1 : ls[p].records[i] \in L[p]
  BY DEF Tree, LeavesOf
<1>2. L[p] \subseteq Records /\ p \in Nat
  BY DEF Tree, Ranges
<1> QED BY <1>1, <1>2 DEF Good, Filled, Recs

\* The directory that a way leads to.
LEMMA WayTop ==
  ASSUME NEW ds, NEW H, NEW s, Way(ds, H, s)
  PROVE  s[Len(s)] \in DOMAIN ds /\ s[Len(s)] \in Nat /\ Len(s) \in Nat \ {0}
<1>1. s \in Seq(Nat) /\ Len(s) > 0 /\ \A i \in 1 .. Len(s) : s[i] \in DOMAIN ds
  BY DEF Way
<1>2. Len(s) \in Nat /\ Len(s) \in 1 .. Len(s)
  BY <1>1
<1> QED BY <1>1, <1>2

\* The last of a path of one page.
LEMMA TopOfOne == Len(<<0>>) = 1 /\ <<0>>[Len(<<0>>)] = 0
OBVIOUS

\* The invariant holds at first: an empty root and nothing imported.
LEMMA InitIInv ==
  ASSUME Init
  PROVE  IInv
<1>1. Scalars
  <2>1. rest \in SUBSET Records /\ MaxUpdates \in Nat
    BY ConstantsAssumption DEF Init
  <2>2. NoSplit \in Split
    BY DEF NoSplit, Split
  <2>3. 0 \in 0 .. MaxUpdates
    BY <2>1
  <2>4. /\ pc = "import" /\ op = "none" /\ record = NoRecord /\ leaf = 0 /\ split = NoSplit
        /\ answer = TRUE /\ misread = FALSE /\ updates = 0
    BY DEF Init
  <2> QED BY <2>1, <2>2, <2>3, <2>4 DEF Scalars
<1>2. dirs = FirstDirs /\ DOMAIN dirs = {0} /\ Len(dirs[0].keys) = 0
  <2>1. Len(<< >>) = 0
    OBVIOUS
  <2> QED BY <2>1 DEF Init, FirstDirs
<1>3. Files
  <2>1. IsFile(dirs)
    <3>1. {0} = 0 .. 1 - 1 /\ 1 \in Nat
      OBVIOUS
    <3>2. dirs = [p \in DOMAIN dirs |-> dirs[p]]
      BY <1>2 DEF FirstDirs
    <3> QED BY <1>2, <3>1, <3>2 DEF IsFile
  <2>2. IsFile(leaves)
    <3>1. leaves = [p \in DOMAIN leaves |-> leaves[p]] /\ DOMAIN leaves = {}
      BY DEF Init, EmptyFile
    <3>2. {} = 0 .. 0 - 1
      OBVIOUS
    <3> QED BY <3>1, <3>2 DEF IsFile
  <2>3. \A p \in DOMAIN dirs : Len(dirs[p].keys) <= DirMax
    BY <1>2, RecordsAreNumbers
  <2> QED BY <2>1, <2>2, <2>3 DEF Files
<1>4. Fresh
  BY <1>2 DEF Init, Fresh
<1>5. Importing
  <2>1. \A r : KeysBelow(dirs, r)
    <3>1. \A p \in DOMAIN dirs : \A i \in 1 .. Len(dirs[p].keys) : FALSE
      BY <1>2
    <3> QED BY <3>1 DEF KeysBelow
  <2> QED BY <2>1 DEF Init, Importing
<1>6. Grows
  BY DEF Init, Grows
<1> QED BY <1>1, <1>3, <1>4, <1>5, <1>6 DEF IInv

\* The call of insert or delete_record keeps the invariant.
LEMMA CallIInv ==
  ASSUME IInv, NEW o \in {"insert", "delete"}, NEW r \in Records, Call(o, r)
  PROVE  IInv'
<1>1. Scalars'
  <2>1. updates' \in 0 .. MaxUpdates
    BY ConstantsAssumption DEF IInv, Scalars, Call
  <2> QED BY <2>1 DEF IInv, Scalars, Call, treeVars
<1>2. Files' /\ Fresh'
  BY DEF IInv, Files, Fresh, Call, treeVars
<1>3. Importing'
  <2>1. rest = {}
    BY DEF IInv, Importing, Call
  <2> QED BY <2>1 DEF Importing, Call, treeVars
<1>4. Grows'
  <2>1. leaves # EmptyFile
    BY DEF IInv, Fresh, Call
  <2>2. PICK D, L, H, w : Tree(dirs, leaves, D, L, H, w) /\ Place(D, L, H, w)
    BY <2>1 DEF IInv, Grows
  <2>3. w = NoOwner /\ rest = {}
    BY <2>2 DEF Place, IInv, Importing, Call
  <2>4. Tree(dirs', leaves', D, L, H, w) /\ dirs' = dirs /\ path' = <<0>> /\ rest' = {}
        /\ pc' = "descend" /\ record' = r
    BY <2>2, <2>3 DEF Call, treeVars
  <2>5. Way(dirs', H, path')
    BY <2>4, WayStarts
  <2>6. r \in D[0]
    BY <2>2 DEF Tree, Ranges
  <2>7. Top' = 0
    BY <2>4, TopOfOne DEF Top
  <2>8. Place(D, L, H, w)'
    <3>1. Chained(leaves', L, End')
      BY <2>2 DEF Place, Call, treeVars, End
    <3> QED BY <2>3, <2>4, <2>5, <2>6, <2>7, <3>1 DEF Place
  <2> QED BY <2>4, <2>8 DEF Grows
<1> QED BY <1>1, <1>2, <1>3, <1>4 DEF IInv

\* The end of the import keeps the invariant: every leaf is in the tree.
LEMMA EndImportIInv ==
  ASSUME IInv, EndImport
  PROVE  IInv'
<1>1. Scalars'
  BY DEF IInv, Scalars, EndImport, treeVars, callVars
<1>2. Files' /\ Fresh'
  BY DEF IInv, Files, Fresh, EndImport, treeVars, callVars
<1>3. Importing'
  BY DEF IInv, Importing, EndImport, treeVars, callVars
<1>4. Grows'
  <2>1. PICK D, L, H, w : Tree(dirs, leaves, D, L, H, w) /\ Place(D, L, H, w)
    BY DEF IInv, Grows, EndImport
  <2>2. w = NoOwner /\ path = << >>
    BY <2>1 DEF Place, EndImport
  <2>3. Tree(dirs', leaves', D, L, H, w) /\ path' = << >> /\ rest' = {} /\ pc' = "idle"
    BY <2>1, <2>2 DEF EndImport, treeVars, callVars
  <2>4. Place(D, L, H, w)'
    <3>1. Chained(leaves', L, End')
      BY <2>1 DEF Place, EndImport, treeVars, callVars, End
    <3> QED BY <2>2, <2>3, <3>1 DEF Place
  <2> QED BY <2>3, <2>4 DEF Grows
<1> QED BY <1>1, <1>2, <1>3, <1>4 DEF IInv

\* search_child_index returns the child a record is under.
LEMMA ChildIs ==
  ASSUME NEW d \in Dir, Len(d.keys) <= DirMax, NEW r \in Nat
  PROVE  /\ SearchChildIndex(d, r) \in 0 .. Len(d.keys)
         /\ Between(d.keys, SearchChildIndex(d, r), r)
<1>1. d.keys \in Seq(Nat)
  <2>1. d.keys \in Seq(Records)
    BY DirTypes
  <2> QED BY <2>1, RecordsAreNumbers, SeqMonotonic
<1> DEFINE i == SearchChildIndex(d, r)
<1>2. i \in 0 .. Len(d.keys) /\ (i > 0 => d.keys[i] <= r) /\ (i < Len(d.keys) => r < d.keys[i + 1])
  BY <1>1, SearchChildIndexExact
<1> HIDE DEF i
<1>3. Between(d.keys, i, r)
  BY <1>2 DEF Between
<1> QED BY <1>2, <1>3 DEF i

\* Going down one level keeps the invariant: the record stays in the range.
LEMMA DescendIInv ==
  ASSUME IInv, Descend
  PROVE  IInv'
<1>1. PICK D, L, H, w : Tree(dirs, leaves, D, L, H, w) /\ Place(D, L, H, w)
  BY DEF IInv, Grows, Descend, Fresh
<1>2. /\ w = NoOwner /\ record \in D[Top] /\ Way(dirs, H, path) /\ rest = {} /\ pc = "descend"
      /\ leaves # EmptyFile
  BY <1>1 DEF Place, Descend, IInv, Importing, Fresh
<1> DEFINE p == Top
           i == SearchChildIndex(dirs[p], record)
           c == dirs[p].children[i + 1]
<1>3. p \in DOMAIN dirs /\ p = path[Len(path)]
  BY <1>2, WayTop DEF Top
<1>4. dirs[p] \in Dir /\ Len(dirs[p].keys) <= DirMax /\ record \in Nat /\ record \in Records
  <2>1. D[p] \subseteq Records
    BY <1>1, <1>3 DEF Tree, Ranges
  <2> QED BY <1>1, <1>2, <1>3, <2>1, RecordsAreNumbers DEF Tree, Dirs, IInv, Files
<1>5. i \in 0 .. Len(dirs[p].keys) /\ Between(dirs[p].keys, i, record)
  BY <1>4, ChildIs
<1>6. record \in Under(D, L, c)
  <2> HIDE DEF i, p
  <2> QED BY <1>1, <1>2, <1>3, <1>5, Routed DEF p
<1>7. c \in Int /\ Exists(dirs, leaves, c)
  <2> HIDE DEF i, p
  <2> QED BY <1>1, <1>3, <1>5, ChildFacts
<1>8. /\ Child(dirs[Top], record) = c
      /\ UNCHANGED <<treeVars, op, record, split, rest, answer, misread, updates>>
      /\ IF c < 0 THEN path' = Append(path, -c) /\ UNCHANGED <<leaf, pc>>
                  ELSE leaf' = c /\ pc' = "leaf" /\ UNCHANGED path
  BY DEF Descend, Child
<1>9. DOMAIN leaves \subseteq Nat
  BY <1>1 DEF Tree, Ranges
<1>10. Parent(dirs, p, i, c)
  BY <1>3, <1>5 DEF Parent
<1>11. c < 0 => Way(dirs, H, Append(path, -c)) /\ Append(path, -c)[Len(Append(path, -c))] = -c
  <2> HIDE DEF i
  <2>1. i \in 0 .. Len(dirs[path[Len(path)]].keys) /\ c = dirs[path[Len(path)]].children[i + 1]
    BY <1>3, <1>5
  <2> QED BY <1>1, <1>2, <2>1, WayDown
<1> HIDE DEF c, i
<1>12. Scalars'
  BY <1>2, <1>7, <1>8, <1>9 DEF IInv, Scalars, Exists, treeVars
<1>13. Files' /\ Fresh'
  BY <1>2, <1>8 DEF IInv, Files, Fresh, treeVars
<1>14. Importing'
  BY <1>2, <1>8 DEF Importing, IInv, treeVars
<1>15. Grows'
  <2>1. Tree(dirs', leaves', D, L, H, w) /\ rest' = {} /\ record' = record /\ dirs' = dirs /\ leaves' = leaves
    BY <1>1, <1>2, <1>8 DEF treeVars
  <2>a. Chained(leaves', L, End')
    BY <1>1, <1>8 DEF Place, treeVars, End
  <2>2. CASE c < 0
    <3>1. path' = Append(path, -c) /\ pc' = "descend"
      BY <1>2, <1>8, <2>2
    <3>2. Top' = -c /\ Way(dirs', H, path')
      BY <1>11, <2>1, <2>2, <3>1 DEF Top
    <3>3. record \in D[-c]
      BY <1>6, <2>2 DEF Under
    <3>4. Place(D, L, H, w)'
      BY <1>2, <2>1, <2>a, <3>1, <3>2, <3>3 DEF Place
    <3> QED BY <2>1, <3>4 DEF Grows
  <2>3. CASE ~(c < 0)
    <3>1. path' = path /\ pc' = "leaf" /\ leaf' = c
      BY <1>8, <2>3
    <3>2. Top' = Top
      BY <3>1 DEF Top
    <3>3. c \in DOMAIN leaves /\ record \in L[c]
      BY <1>6, <1>7, <2>3 DEF Under, Exists
    <3>4. Parent(dirs', Top', i, leaf')
      BY <1>10, <2>1, <3>1, <3>2 
    <3>5. Place(D, L, H, w)'
      BY <1>2, <2>1, <2>a, <3>1, <3>2, <3>3, <3>4 DEF Place
    <3> QED BY <2>1, <3>5 DEF Grows
  <2> QED BY <2>2, <2>3
<1> QED BY <1>12, <1>13, <1>14, <1>15 DEF IInv

\* At the end of an operation the leaf may have changed within its range.
LEMMA ReturnIInv ==
  ASSUME IInv, pc = "leaf", NEW result \in BOOLEAN, Return(result), misread' \in BOOLEAN,
         NEW m, Good(m), Recs(m) \subseteq Recs(leaves[leaf]) \cup {record},
         m.next_leaf = leaves[leaf].next_leaf,
         leaves' = leaves \/ leaves' = [leaves EXCEPT ![leaf] = m]
  PROVE  IInv'
<1>1. PICK D, L, H, w : Tree(dirs, leaves, D, L, H, w) /\ Place(D, L, H, w)
  BY DEF IInv, Grows, Fresh
<1>2. w = NoOwner /\ leaf \in DOMAIN leaves /\ record \in L[leaf] /\ rest = {} /\ leaves # EmptyFile
  BY <1>1 DEF Place, IInv, Importing, Fresh
<1>3. /\ dirs' = dirs /\ rest' = {} /\ updates' = updates /\ answer' = result /\ pc' = "idle"
      /\ op' = "none" /\ record' = NoRecord /\ path' = << >> /\ leaf' = 0 /\ split' = NoSplit
  BY <1>2 DEF Return, Leave
<1>4. IsFile(leaves') /\ DOMAIN leaves' = DOMAIN leaves /\ leaves' # EmptyFile
  <2>1. IsFile(leaves)
    BY DEF IInv, Files
  <2>2. CASE leaves' = leaves
    BY <1>2, <2>1, <2>2
  <2>3. CASE leaves' = [leaves EXCEPT ![leaf] = m]
    <3>1. IsFile(leaves') /\ DOMAIN leaves' = DOMAIN leaves
      BY <1>2, <2>1, <2>3, ChangedFile
    <3>2. DOMAIN leaves' # {}
      BY <1>2, <3>1
    <3>3. DOMAIN EmptyFile = {}
      BY DEF EmptyFile
    <3> QED BY <3>1, <3>2, <3>3
  <2> QED BY <2>2, <2>3
<1>5. Tree(dirs', leaves', D, L, H, w)
  <2>1. CASE leaves' = leaves
    BY <1>1, <1>3, <2>1
  <2>2. CASE leaves' = [leaves EXCEPT ![leaf] = m]
    <3>1. leaves'[leaf] = m /\ \A c \in DOMAIN leaves : c # leaf => leaves'[c] = leaves[c]
      BY <1>2, <2>2
    <3>2. Recs(m) \subseteq L[leaf]
      BY <1>1, <1>2, TreeLeaves
    <3>3. m \in Leaf /\ InOrder(m) /\ \A i \in 0 .. m.value_count - 1 : m.records[i] \in L[leaf]
      BY <3>2 DEF Good, Recs
    <3>4. Tree(dirs, leaves', D, L, H, w)
      BY <1>1, <1>2, <1>4, <3>1, <3>3, ChangeLeaf
    <3> QED BY <1>3, <3>4
  <2> QED BY <2>1, <2>2
<1>6. Scalars'
  <2>1. NoSplit \in Split
    BY DEF NoSplit, Split
  <2> QED BY <1>3, <2>1 DEF IInv, Scalars
<1>7. Files' /\ Fresh'
  BY <1>3, <1>4 DEF IInv, Files, Fresh
<1>8. Importing'
  BY <1>3 DEF Importing
<1>9. Place(D, L, H, w)'
  <2>1. \A c \in DOMAIN leaves : leaves'[c].next_leaf = leaves[c].next_leaf
    BY <1>2
  <2>2. Chained(leaves, L, 0) /\ End' = 0
    BY <1>1, <1>2, <1>3 DEF Place, End
  <2>3. Chained(leaves', L, 0)
    BY <1>4, <2>1, <2>2, ChainStays
  <2> QED BY <1>2, <1>3, <2>2, <2>3 DEF Place
<1> QED BY <1>5, <1>6, <1>7, <1>8, <1>9 DEF IInv, Grows

\* At a leaf: the record is in no other leaf.
LEMMA AtLeaf ==
  ASSUME IInv, pc = "leaf"
  PROVE  /\ leaf \in DOMAIN leaves /\ Good(This) /\ record \in Records /\ rest = {}
         /\ \A c \in DOMAIN leaves : c # leaf => record \notin Recs(leaves[c])
         /\ This = [records |-> This.records, value_count |-> This.value_count, next_leaf |-> This.next_leaf]
         /\ IsFile(leaves) /\ op \in {"none", "insert", "delete"} /\ misread \in BOOLEAN
<1>1. PICK D, L, H, w : Tree(dirs, leaves, D, L, H, w) /\ Place(D, L, H, w)
  BY DEF IInv, Grows, Fresh
<1>2. leaf \in DOMAIN leaves /\ record \in L[leaf] /\ rest = {}
  BY <1>1 DEF Place, IInv, Importing
<1>3. \A c \in DOMAIN leaves : Good(leaves[c]) /\ Recs(leaves[c]) \subseteq L[c] /\ L[c] \subseteq Records
  BY <1>1, TreeLeaves
<1>4. \A c \in DOMAIN leaves : c # leaf => record \notin L[c]
  BY <1>1, <1>2 DEF Tree, Apart
<1>5. This = [records |-> This.records, value_count |-> This.value_count, next_leaf |-> This.next_leaf]
  BY <1>2, <1>3, GoodFacts DEF This
<1> QED BY <1>2, <1>3, <1>4, <1>5 DEF This, IInv, Files, Scalars

\* A file with a leaf in which the records and their number are others.
TwoSet(f, p, X, Y) == [f EXCEPT ![p].records = X, ![p].value_count = Y]
Refilled(l, X, Y) == [records |-> X, value_count |-> Y, next_leaf |-> l.next_leaf]
OneSet(f, p, l) == [f EXCEPT ![p] = l]

\* Setting two fields of a leaf in a file is setting the leaf.
LEMMA TwoFields ==
  ASSUME NEW f, f = [q \in DOMAIN f |-> f[q]], NEW p \in DOMAIN f, f[p] \in Leaf, NEW X, NEW Y
  PROVE  TwoSet(f, p, X, Y) = OneSet(f, p, Refilled(f[p], X, Y))
<1> DEFINE g == [f EXCEPT ![p].records = X, ![p].value_count = Y]
           l == [records |-> X, value_count |-> Y, next_leaf |-> f[p].next_leaf]
           h == [f EXCEPT ![p] = l]
<1>1. g[p] = l
  BY DEF Leaf
<1>2. DOMAIN g = DOMAIN f /\ g = [q \in DOMAIN f |-> g[q]] /\ \A q \in DOMAIN f : q # p => g[q] = f[q]
  OBVIOUS
<1>3. h[p] = l /\ DOMAIN h = DOMAIN f /\ h = [q \in DOMAIN f |-> h[q]]
      /\ \A q \in DOMAIN f : q # p => h[q] = f[q]
  OBVIOUS
<1> HIDE DEF g, h, l
<1>4. \A q \in DOMAIN f : g[q] = h[q]
  BY <1>1, <1>2, <1>3
<1>5. g = h
  BY <1>2, <1>3, <1>4
<1> QED BY <1>5 DEF g, h, l, TwoSet, OneSet, Refilled

\* The leaf that an insert into an empty leaf makes.
LEMMA InsertFirstLeaf ==
  ASSUME IInv, InsertFirst
  PROVE  \E m : /\ Good(m) /\ Recs(m) = Recs(This) \cup {record} /\ record \notin Recs(This)
                /\ m.next_leaf = This.next_leaf
                /\ leaves' = [leaves EXCEPT ![leaf] = m] /\ Return(TRUE) /\ misread' = misread
<1>1. leaf \in DOMAIN leaves /\ Good(This) /\ record \in Records /\ This.value_count = 0
  BY AtLeaf DEF InsertFirst, At, Empty
<1> DEFINE m == [records |-> [This.records EXCEPT ![0] = record], value_count |-> 1,
                 next_leaf |-> This.next_leaf]
<1>2. leaves' = [leaves EXCEPT ![leaf] = m]
  <2> DEFINE f == [This.records EXCEPT ![0] = record]
  <2>1. leaves' = [leaves EXCEPT ![leaf].records = f, ![leaf].value_count = 1]
    BY DEF InsertFirst, This
  <2> HIDE DEF f
  <2>2. leaves = [q \in DOMAIN leaves |-> leaves[q]] /\ leaves[leaf] \in Leaf
    BY <1>1 DEF IInv, Files, IsFile, Good, This
  <2>3. TwoSet(leaves, leaf, f, 1) = OneSet(leaves, leaf, Refilled(leaves[leaf], f, 1))
    BY <1>1, <2>2, TwoFields
  <2> QED BY <2>1, <2>3 DEF This, TwoSet, OneSet, Refilled, f
<1>3. Good(m) /\ Recs(m) = Recs(This) \cup {record}
  BY <1>1, FirstLeaf
<1>4. record \notin Recs(This)
  <2>1. \A i \in 0 .. This.value_count - 1 : FALSE
    BY <1>1
  <2> QED BY <2>1 DEF Recs
<1>5. m.next_leaf = This.next_leaf
  OBVIOUS
<1> HIDE DEF m
<1> QED BY <1>2, <1>3, <1>4, <1>5 DEF InsertFirst

\* The leaf that an insert into a leaf with room makes.
LEMMA InsertFitsLeaf ==
  ASSUME IInv, InsertFits
  PROVE  \E m : /\ Good(m) /\ Recs(m) = Recs(This) \cup {record} /\ record \notin Recs(This)
                /\ m.next_leaf = This.next_leaf
                /\ leaves' = [leaves EXCEPT ![leaf] = m] /\ Return(TRUE) /\ misread' = misread
<1>1. leaf \in DOMAIN leaves /\ Good(This) /\ record \in Records /\ This.value_count # 0 /\ This.value_count < LeafMax
  BY AtLeaf DEF InsertFits, At, Empty, Fits
<1>2. record \notin Recs(This)
  BY <1>1, Missed DEF InsertFits, EqualRecord, Index
<1> DEFINE f == [s \in Slots |-> Inserted(This, SearchIndex(This, record), record)[s]]
           m == [records |-> f, value_count |-> This.value_count + 1, next_leaf |-> This.next_leaf]
<1>3. Good(m) /\ Recs(m) = Recs(This) \cup {record}
  BY <1>1, <1>2, FullerLeaf
<1> HIDE DEF f
<1>4. leaves' = [leaves EXCEPT ![leaf] = m]
  <2>1. leaves' = [leaves EXCEPT ![leaf].records = f, ![leaf].value_count = This.value_count + 1]
    BY DEF InsertFits, f, Index, This
  <2>2. leaves = [q \in DOMAIN leaves |-> leaves[q]] /\ leaves[leaf] \in Leaf
    BY <1>1 DEF IInv, Files, IsFile, Good, This
  <2>3. TwoSet(leaves, leaf, f, This.value_count + 1) = OneSet(leaves, leaf, Refilled(leaves[leaf], f, This.value_count + 1))
    BY <1>1, <2>2, TwoFields
  <2> QED BY <2>1, <2>3 DEF This, TwoSet, OneSet, Refilled
<1>5. m.next_leaf = This.next_leaf
  OBVIOUS
<1> HIDE DEF m
<1> QED BY <1>2, <1>3, <1>4, <1>5 DEF InsertFits

\* The leaf that delete_record makes, when it read a slot in use and when not.
LEMMA DeleteFoundLeaf ==
  ASSUME IInv, DeleteFound
  PROVE  \E m : /\ Good(m) /\ Recs(m) \subseteq Recs(This) /\ m.next_leaf = This.next_leaf
                /\ leaves' = [leaves EXCEPT ![leaf] = m] /\ Return(TRUE) /\ misread' = Unused
                /\ ~Unused => Recs(m) = Recs(This) \ {record} /\ record \in Recs(This)
<1>1. leaf \in DOMAIN leaves /\ Good(This) /\ record \in Records /\ This.value_count # 0
  BY AtLeaf DEF DeleteFound, At, Empty
<1> DEFINE f == Removed(This, Index)
           n == This.value_count
           m == [records |-> f, value_count |-> n - 1, next_leaf |-> This.next_leaf]
<1>2. n \in 1 .. LeafMax /\ LeafMax \in Nat /\ This.next_leaf \in Nat
      /\ This.records \in [Slots -> Records \cup {NoRecord}]
  BY <1>1, GoodFacts, RecordsAreNumbers
<1>3. Index \in 0 .. n
  BY <1>1, SearchIndexRange DEF Good, Index
<1>4. leaves' = [leaves EXCEPT ![leaf] = m]
  <2> HIDE DEF f
  <2>1. leaves' = [leaves EXCEPT ![leaf].records = f, ![leaf].value_count = This.value_count - 1]
    BY DEF DeleteFound, f, This
  <2>2. leaves = [q \in DOMAIN leaves |-> leaves[q]] /\ leaves[leaf] \in Leaf
    BY <1>1 DEF IInv, Files, IsFile, Good, This
  <2>3. TwoSet(leaves, leaf, f, This.value_count - 1) = OneSet(leaves, leaf, Refilled(leaves[leaf], f, This.value_count - 1))
    BY <1>1, <2>2, TwoFields
  <2> QED BY <2>1, <2>3 DEF This, TwoSet, OneSet, Refilled
<1>5. Return(TRUE) /\ misread' = Unused /\ This.records[Index] = record
  BY DEF DeleteFound, EqualRecord
<1>6. CASE ~Unused
  <2>1. Index \in 0 .. n - 1
    BY <1>2, <1>3, <1>6 DEF Unused
  <2>2. Good(m) /\ Recs(m) = Recs(This) \ {This.records[Index]}
    <3> DEFINE k == Index
    <3>1. k \in 0 .. This.value_count - 1
      BY <2>1
    <3>2. m = [records |-> Removed(This, k), value_count |-> This.value_count - 1, next_leaf |-> This.next_leaf]
      OBVIOUS
    <3> HIDE DEF k, m
    <3>3. Good(m) /\ Recs(m) = Recs(This) \ {This.records[k]}
      BY <1>1, <3>1, <3>2, LighterLeaf
    <3> QED BY <3>3 DEF k
  <2>3. record \in Recs(This)
    BY <1>5, <2>1 DEF Recs
  <2>4. m.next_leaf = This.next_leaf
    OBVIOUS
  <2> HIDE DEF m
  <2> QED BY <1>4, <1>5, <1>6, <2>2, <2>3, <2>4
\* Taken for a record: the last one is lost.
<1>7. CASE Unused
  <2>1. Index = n
    BY <1>2, <1>3, <1>7 DEF Unused
  <2> DEFINE all == This.records
  <2>2. f = [s \in Slots |-> all[s]]
    <3>1. \A s \in Slots : ~(s >= Index /\ s < n - 1)
      BY <1>2, <2>1 DEF Slots
    <3> QED BY <3>1 DEF Removed
  <2>3. m = LeafOf(all, n - 1, This.next_leaf) /\ m.next_leaf = This.next_leaf
    BY <2>2 DEF LeafOf
  <2>4. (\A s \in 0 .. n - 1 : all[s] \in Records) /\ \A s, t \in 0 .. n - 1 : s < t => all[s] < all[t]
    BY <1>1 DEF Good, Filled, InOrder
  <2>5. Recs(This) = {all[s] : s \in 0 .. n - 1}
    BY DEF Recs
  <2> HIDE DEF m, f, all, n
  <2>6. n - 1 \in 0 .. LeafMax /\ \A s \in 0 .. (n - 1) - 1 : s \in 0 .. n - 1
    BY <1>2
  <2>7. Runs(all, n - 1)
    <3>1. \A s \in Slots : all[s] \in Records \cup {NoRecord}
      BY <1>2 DEF all
    <3> QED BY <2>4, <2>6, <3>1 DEF Runs
  <2>8. Good(m) /\ Recs(m) = {all[s] : s \in 0 .. (n - 1) - 1}
    BY <1>2, <2>3, <2>7, Composed
  <2>9. Recs(m) \subseteq Recs(This)
    BY <2>5, <2>6, <2>8
  <2> QED BY <1>4, <1>5, <1>7, <2>3, <2>8, <2>9
<1> QED BY <1>6, <1>7

ThreeSet(f, p, X, Y, Z) ==
  [f EXCEPT ![p].records = X, ![p].value_count = Y, ![p].next_leaf = Z]

\* Setting three fields of a leaf in a file is setting the leaf.
LEMMA ThreeFields ==
  ASSUME NEW f, f = [q \in DOMAIN f |-> f[q]], NEW p \in DOMAIN f, f[p] \in Leaf,
         NEW X, NEW Y, NEW Z
  PROVE  ThreeSet(f, p, X, Y, Z) =
           OneSet(f, p, [records |-> X, value_count |-> Y, next_leaf |-> Z])
<1> DEFINE g == [f EXCEPT ![p].records = X, ![p].value_count = Y, ![p].next_leaf = Z]
           l == [records |-> X, value_count |-> Y, next_leaf |-> Z]
           h == [f EXCEPT ![p] = l]
<1>1. g[p] = l
  BY DEF Leaf
<1>2. DOMAIN g = DOMAIN f /\ g = [q \in DOMAIN f |-> g[q]] /\ \A q \in DOMAIN f : q # p => g[q] = f[q]
  OBVIOUS
<1>3. h[p] = l /\ DOMAIN h = DOMAIN f /\ h = [q \in DOMAIN f |-> h[q]]
      /\ \A q \in DOMAIN f : q # p => h[q] = f[q]
  OBVIOUS
<1> HIDE DEF g, h, l
<1>4. \A q \in DOMAIN f : g[q] = h[q]
  BY <1>1, <1>2, <1>3
<1>5. g = h
  BY <1>2, <1>3, <1>4
<1> QED BY <1>5 DEF g, h, l, ThreeSet, OneSet

\* The two leaves that a full one becomes.
LEMMA InsertSplitsLeaves ==
  ASSUME IInv, InsertSplits
  PROVE  \E m, q, key :
           /\ Good(m) /\ Good(q) /\ Recs(m) \cup Recs(q) = Recs(This) \cup {record}
           /\ key \in Recs(q) /\ Recs(m) # {}
           /\ (\A x \in Recs(m) : x < key) /\ \A x \in Recs(q) : key <= x
           /\ record \notin Recs(This)
           /\ m.next_leaf = NewPage(leaves) /\ q.next_leaf = This.next_leaf
           /\ leaves' = Appended(OneSet(leaves, leaf, m), q)
           /\ split' = [record |-> key, page |-> NewPage(leaves)]
<1> DEFINE all == Inserted(This, Index, record)
           f == [s \in Slots |-> all[s]]
           nl == NewPage(leaves)
           m == [records |-> f, value_count |-> Middle, next_leaf |-> nl]
           q == RightLeaf(all)
<1>1. leaf \in DOMAIN leaves /\ Good(This) /\ record \in Records /\ ~(This.value_count < LeafMax)
  BY AtLeaf DEF InsertSplits, At, Fits
<1>2. /\ This.value_count \in 0 .. LeafMax /\ LeafMax \in Nat /\ LeafMax > 0 /\ This.next_leaf \in Nat
      /\ nl \in Nat
  BY <1>1, GoodFacts, RecordsAreNumbers, FileFacts DEF IInv, Files
<1>3. This.value_count = LeafMax
  BY <1>1, <1>2
<1>4. record \notin Recs(This)
  BY <1>1, Missed DEF InsertSplits, EqualRecord, Index
<1>5. q = [records |-> [s \in Slots |-> IF Middle + s <= LeafMax THEN all[Middle + s] ELSE NoRecord],
           value_count |-> LeafMax \div 2 + 1, next_leaf |-> This.next_leaf]
  BY DEF RightLeaf, NextOfSplit
<1> HIDE DEF all, q
<1>6. /\ Good(m) /\ Good(q) /\ Recs(m) \cup Recs(q) = Recs(This) \cup {record}
      /\ all[Middle] \in Recs(q) /\ Recs(m) # {}
      /\ (\A x \in Recs(m) : x < all[Middle]) /\ \A x \in Recs(q) : all[Middle] <= x
  <2>1. all = Inserted(This, SearchIndex(This, record), record)
    BY DEF all, Index
  <2>2. m = LeafOf(all, Middle, nl) /\ q = RightOf(all, This.next_leaf)
    BY <1>5 DEF LeafOf, RightOf
  <2> HIDE DEF m, nl
  <2>3. Shared(This, record, all, LeafOf(all, Middle, nl), RightOf(all, This.next_leaf))
    BY <1>1, <1>2, <1>3, <1>4, <2>1, SplitLeaf
  <2> QED BY <2>2, <2>3 DEF Shared
<1>7. leaves' = Appended(OneSet(leaves, leaf, m), q) /\ split' = [record |-> all[Middle], page |-> nl]
  <2>1. /\ leaves' = Appended(ThreeSet(leaves, leaf, f, Middle, nl), q)
        /\ split' = [record |-> all[Middle], page |-> nl]
    BY DEF InsertSplits, all, q, ThreeSet, LeftCount
  <2>2. leaves = [x \in DOMAIN leaves |-> leaves[x]] /\ leaves[leaf] \in Leaf
    BY <1>1 DEF IInv, Files, IsFile, Good, This
  <2> HIDE DEF f, nl
  <2>3. ThreeSet(leaves, leaf, f, Middle, nl) = OneSet(leaves, leaf, m)
    BY <1>1, <2>2, ThreeFields
  <2> QED BY <2>1, <2>3
<1>8. m.next_leaf = nl /\ q.next_leaf = This.next_leaf
  BY <1>5
<1> HIDE DEF m, f, nl
<1> QED BY <1>4, <1>6, <1>7, <1>8 DEF nl

\* The split of a leaf keeps the invariant: the new leaf waits for its
\* directory.
LEMMA InsertSplitsIInv ==
  ASSUME IInv, InsertSplits
  PROVE  IInv'
<1>1. PICK D, L, H, w : Tree(dirs, leaves, D, L, H, w) /\ Place(D, L, H, w)
  BY DEF IInv, Grows, Fresh, InsertSplits, At
<1>2. /\ w = NoOwner /\ leaf \in DOMAIN leaves /\ record \in L[leaf] /\ rest = {}
      /\ Way(dirs, H, path) /\ \E t : Parent(dirs, Top, t, leaf)
  BY <1>1 DEF Place, IInv, Importing, InsertSplits, At
<1>3. PICK t : Parent(dirs, Top, t, leaf)
  BY <1>2
<1>4. PICK m, q, key :
           /\ Good(m) /\ Good(q) /\ Recs(m) \cup Recs(q) = Recs(This) \cup {record}
           /\ key \in Recs(q) /\ Recs(m) # {}
           /\ (\A x \in Recs(m) : x < key) /\ \A x \in Recs(q) : key <= x
           /\ record \notin Recs(This)
           /\ m.next_leaf = NewPage(leaves) /\ q.next_leaf = This.next_leaf
           /\ leaves' = Appended(OneSet(leaves, leaf, m), q)
           /\ split' = [record |-> key, page |-> NewPage(leaves)]
  BY InsertSplitsLeaves
<1> DEFINE a == NewPage(leaves)
           g == OneSet(leaves, leaf, m)
<1>5. IsFile(g) /\ NewPage(g) = a /\ DOMAIN g = DOMAIN leaves
      /\ g[leaf] = m /\ \A c \in DOMAIN leaves : c # leaf => g[c] = leaves[c]
  BY <1>2, ChangedFile DEF IInv, Files, OneSet
<1> HIDE DEF g
<1>6. /\ IsFile(leaves') /\ leaves' # EmptyFile /\ DOMAIN leaves' = DOMAIN leaves \cup {a}
      /\ leaves'[a] = q /\ leaves'[leaf] = m /\ \A c \in DOMAIN leaves : c # leaf => leaves'[c] = leaves[c]
  <2>1. leaves' = Appended(g, q)
    BY <1>4 DEF g
  <2>2. IsAppended(g, q, Appended(g, q))
    BY <1>5, AppendedFile
  <2> QED BY <1>2, <1>5, <2>1, <2>2 DEF IsAppended
<1>7. a \in Nat /\ a \notin DOMAIN leaves
  BY FileFacts DEF IInv, Files
<1>8. Recs(This) \cup {record} \subseteq L[leaf]
  BY <1>1, <1>2, TreeLeaves DEF This
<1>9. /\ key \in L[leaf] /\ (\E x \in L[leaf] : x < key)
      /\ leaves'[leaf] \in Leaf /\ InOrder(leaves'[leaf]) /\ leaves'[a] \in Leaf /\ InOrder(leaves'[a])
      /\ \A i \in 0 .. leaves'[leaf].value_count - 1 : leaves'[leaf].records[i] \in {x \in L[leaf] : x < key}
      /\ \A i \in 0 .. leaves'[a].value_count - 1 : leaves'[a].records[i] \in {x \in L[leaf] : key <= x}
  <2>1. Recs(m) \subseteq L[leaf] /\ Recs(q) \subseteq L[leaf]
    BY <1>4, <1>8
  <2>2. \A i \in 0 .. m.value_count - 1 : m.records[i] \in Recs(m)
    BY DEF Recs
  <2>3. \A i \in 0 .. q.value_count - 1 : q.records[i] \in Recs(q)
    BY DEF Recs
  <2> QED BY <1>4, <1>6, <2>1, <2>2, <2>3 DEF Good
<1> DEFINE v == [own |-> Top, slot |-> t, key |-> key, page |-> a]
           M == Divided(L, leaf, a, key)
<1>10. Tree(dirs, leaves', D, M, H, v)
  <2> HIDE DEF a
  <2> QED BY <1>1, <1>2, <1>3, <1>6, <1>7, <1>9, CutLeaf
<1>11. /\ dirs' = dirs /\ path' = path /\ rest' = {} /\ pc' = "split" /\ op' = op /\ record' = record
       /\ leaf' = leaf /\ misread' = misread /\ updates' = updates /\ answer' = TRUE
       /\ split' = [record |-> key, page |-> a] /\ Top' = Top
  BY <1>2, <1>4 DEF InsertSplits, Top
<1>12a. Chained(leaves', M, 0)
  <2>1. DOMAIN L = DOMAIN leaves /\ \A c \in DOMAIN leaves : L[c] \subseteq Records
    BY <1>1 DEF Tree, Ranges
  <2>2. Chained(leaves, L, 0)
    BY <1>1, <1>2 DEF Place, End
  <2>3. a # 0
    BY <1>2, <1>7, FileFacts DEF IInv, Files
  <2>4. /\ \A c \in DOMAIN leaves : c # leaf => leaves'[c].next_leaf = leaves[c].next_leaf
        /\ leaves'[leaf].next_leaf = a /\ leaves'[a].next_leaf = leaves[leaf].next_leaf
    BY <1>4, <1>6 DEF This
  <2>5. leaves'[a].next_leaf = IF leaves[leaf].next_leaf = 0 THEN 0 ELSE leaves[leaf].next_leaf
    BY <2>4
  <2> HIDE DEF a
  <2> QED BY <1>2, <1>6, <1>7, <1>9, <2>1, <2>2, <2>3, <2>4, <2>5, CutChain
<1>12. \E N, u : /\ Tree(dirs, leaves', D, N, H, u) /\ Chained(leaves', N, 0)
                 /\ u.own = Top /\ u.key = split'.record /\ u.page = split'.page
  <2>1. v.own = Top /\ v.key = split'.record /\ v.page = split'.page
    BY <1>11
  <2> HIDE DEF v, M, a
  <2> QED BY <1>10, <1>12a, <2>1
<1> HIDE DEF a
<1>13. Scalars'
  <2>1. L[leaf] \subseteq Records
    BY <1>1, <1>2, TreeLeaves
  <2>2. split' \in Split
    BY <1>7, <1>9, <1>11, <2>1 DEF Split
  <2> QED BY <1>11, <2>2 DEF IInv, Scalars
<1>14. Files' /\ Fresh' /\ Importing'
  BY <1>6, <1>11 DEF IInv, Files, Fresh, Importing
<1>15. PICK N, u : /\ Tree(dirs, leaves', D, N, H, u) /\ Chained(leaves', N, 0)
                   /\ u.own = Top /\ u.key = split'.record /\ u.page = split'.page
  BY <1>12
<1>16. Grows'
  <2>1. Place(D, N, H, u)'
    <3>1. End' = 0
      BY <1>11 DEF End
    <3> QED BY <1>2, <1>11, <1>15, <3>1 DEF Place
  <2>2. Tree(dirs', leaves', D, N, H, u)
    BY <1>11, <1>15
  <2> QED BY <2>1, <2>2 DEF Grows
<1> QED BY <1>13, <1>14, <1>16 DEF IInv

-----------------------------------------------------------------------------
(* Splits of directories.                                                  *)

TwoPages(f, p, x, y) == Appended([f EXCEPT ![p] = x], y)

\* The files after a directory is cut in two.
LEMMA TwoPagesFacts ==
  ASSUME NEW f, IsFile(f), NEW p \in DOMAIN f, NEW x, NEW y
  PROVE  /\ IsFile(TwoPages(f, p, x, y))
         /\ DirPages(f, TwoPages(f, p, x, y), p, x, y, NewPage(f))
<1> DEFINE h == [f EXCEPT ![p] = x]
           n == NewPage(f)
           g == Appended(h, y)
<1>1. IsFile(h) /\ NewPage(h) = n /\ DOMAIN h = DOMAIN f /\ h[p] = x /\ \A c \in DOMAIN f : c # p => h[c] = f[c]
  BY ChangedFile
<1> HIDE DEF h
<1>2. n \in Nat /\ n \notin DOMAIN f
  BY FileFacts
<1>3. /\ IsFile(g) /\ DOMAIN g = DOMAIN h \cup {n} /\ g[n] = y /\ \A c \in DOMAIN h : g[c] = h[c]
  <2> HIDE DEF n
  <2>1. IsAppended(h, y, Appended(h, y))
    BY <1>1, AppendedFile
  <2> QED BY <1>1, <2>1 DEF IsAppended
<1> HIDE DEF g, n
<1>4. /\ IsFile(g) /\ n \in Nat /\ n \notin DOMAIN f /\ DOMAIN g = DOMAIN f \cup {n}
      /\ g[p] = x /\ g[n] = y /\ \A c \in DOMAIN f : c # p => g[c] = f[c]
  BY <1>1, <1>2, <1>3
<1>5. DirPages(f, g, p, x, y, n)
  BY <1>4 DEF DirPages
<1> QED BY <1>4, <1>5 DEF TwoPages, g, h, n

ThreePages(f, x, y, z) == [Appended(Appended(f, x), y) EXCEPT ![0] = z]

\* The files after the root is cut in two.
LEMMA ThreePagesFacts ==
  ASSUME NEW f, IsFile(f), 0 \in DOMAIN f, NEW x, NEW y, NEW key
  PROVE  /\ IsFile(ThreePages(f, x, y, NewRoot(key, NewPage(f))))
         /\ RootPages(f, ThreePages(f, x, y, NewRoot(key, NewPage(f))), key, x, y, NewPage(f))
<1> DEFINE n == NewPage(f)
           h == Appended(f, x)
           k == Appended(h, y)
           z == NewRoot(key, n)
           g == [k EXCEPT ![0] = z]
<1>1. n \in Nat /\ DOMAIN f = 0 .. n - 1
  BY FileFacts
<1>2. n \notin DOMAIN f /\ n + 1 \notin DOMAIN f /\ n # 0 /\ n + 1 # 0 /\ n + 1 # n
  BY <1>1
<1>3. IsFile(h) /\ NewPage(h) = n + 1 /\ DOMAIN h = DOMAIN f \cup {n} /\ h[n] = x /\ \A c \in DOMAIN f : h[c] = f[c]
  <2>1. IsAppended(f, x, Appended(f, x))
    BY AppendedFile
  <2> QED BY <2>1 DEF IsAppended
<1> HIDE DEF h, n, z
<1>4. IsFile(k) /\ DOMAIN k = DOMAIN h \cup {n + 1} /\ k[n + 1] = y /\ \A c \in DOMAIN h : k[c] = h[c]
  <2>1. IsAppended(h, y, Appended(h, y))
    BY <1>3, AppendedFile
  <2> QED BY <1>3, <2>1 DEF IsAppended
<1> HIDE DEF k
<1>5. 0 \in DOMAIN k
  BY <1>3, <1>4
<1>6. IsFile(g) /\ DOMAIN g = DOMAIN k /\ g[0] = z /\ \A c \in DOMAIN k : c # 0 => g[c] = k[c]
  BY <1>4, <1>5, ChangedFile
<1> HIDE DEF g
<1>7. /\ IsFile(g) /\ n \in Nat /\ n \notin DOMAIN f /\ n + 1 \notin DOMAIN f
      /\ DOMAIN g = DOMAIN f \cup {n, n + 1}
      /\ g[0] = z /\ g[n] = x /\ g[n + 1] = y /\ \A c \in DOMAIN f : c # 0 => g[c] = f[c]
  BY <1>1, <1>2, <1>3, <1>4, <1>6
<1>8. RootPages(f, g, key, x, y, n)
  BY <1>7 DEF RootPages, z
<1> QED BY <1>7, <1>8 DEF ThreePages, g, k, h, n, z

\* The directory with the split in place, too wide perhaps.
Wider == [keys |-> Keys, children |-> Children]

\* On the way back from a split: the directory at the top owns it, and grows by
\* it.
LEMMA AtSplit ==
  ASSUME IInv, pc = "split"
  PROVE  /\ rest = {} /\ leaves # EmptyFile /\ IsFile(dirs) /\ IsFile(leaves)
         /\ Top \in DOMAIN dirs /\ Len(dirs[Top].keys) \in Nat /\ Len(dirs[Top].keys) <= DirMax
         /\ \E D, L, H, w : /\ Tree(dirs, leaves, D, L, H, w) /\ Way(dirs, H, path) /\ w.own = Top
                            /\ Grown(dirs[Top], Wider, w.slot, w.key, w.page)
                            /\ Chained(leaves, L, End)
<1>1. PICK D, L, H, w : Tree(dirs, leaves, D, L, H, w) /\ Place(D, L, H, w)
  BY DEF IInv, Grows, Fresh
<1>2. /\ w.own = Top /\ w.key = split.record /\ w.page = split.page /\ Way(dirs, H, path)
      /\ rest = {} /\ leaves # EmptyFile /\ IsFile(dirs) /\ IsFile(leaves)
  BY <1>1 DEF Place, IInv, Importing, Fresh, Files
<1>3. Top \in DOMAIN dirs /\ Top \in Nat /\ w.own # -1
  BY <1>2, WayTop DEF Top
<1>4. /\ dirs[Top] \in Dir /\ w.slot \in 0 .. Len(dirs[Top].keys)
      /\ Len(dirs[Top].children) = Len(dirs[Top].keys) + 1 /\ Sorted(dirs[Top].keys)
      /\ w.key \in Records /\ w.page \in Int
      /\ Between(dirs[Top].keys, w.slot, w.key)
  BY <1>1, <1>2, <1>3, OwnerFacts
<1>5. Len(dirs[Top].keys) <= DirMax /\ Len(dirs[Top].keys) \in Nat /\ dirs[Top].keys \in Seq(Records)
  BY <1>3, <1>4, DirTypes DEF IInv, Files
<1>6. w.key \in Nat
  BY <1>4, RecordsAreNumbers
<1>7. Between(dirs[Top].keys, Position, w.key)
  <2> DEFINE d == dirs[Top]
  <2> HIDE DEF d
  <2>1. d \in Dir /\ Len(d.keys) <= DirMax
    BY <1>4, <1>5 DEF d
  <2>2. Between(d.keys, SearchChildIndex(d, w.key), w.key)
    BY <1>6, <2>1, ChildIs
  <2> QED BY <1>2, <2>2 DEF Position, d
<1>8. Position = w.slot
  BY <1>4, <1>5, <1>6, <1>7, BetweenUnique
<1>9. Grown(dirs[Top], Wider, w.slot, w.key, w.page)
  <2>1. Wider = [keys |-> With(dirs[Top].keys, w.slot, w.key),
                 children |-> With(dirs[Top].children, w.slot + 1, w.page)]
    BY <1>2, <1>8 DEF Wider, Keys, Children
  <2> QED BY <1>4, <2>1, GrownWith
<1>10. Chained(leaves, L, End)
  BY <1>1 DEF Place
<1> QED BY <1>1, <1>2, <1>3, <1>5, <1>9, <1>10

\* What an operation leaves behind.
LEMMA LeaveIInv ==
  ASSUME IInv, Leave, pc' \in {"import", "idle"}, leaves' = leaves, leaves # EmptyFile, rest' = rest,
         pc' = "idle" => rest = {},
         answer' = answer, misread' = misread, updates' = updates,
         IsFile(dirs'), \A p \in DOMAIN dirs' : Len(dirs'[p].keys) <= DirMax,
         \A r \in rest : KeysBelow(dirs', r),
         NEW D, NEW L, NEW H, Tree(dirs', leaves', D, L, H, NoOwner),
         \A r \in rest : r \in L[NewPage(leaves) - 1], Chained(leaves, L, End)
  PROVE  IInv'
<1>1. Scalars'
  <2>1. NoSplit \in Split
    BY DEF NoSplit, Split
  <2> QED BY <2>1 DEF IInv, Scalars, Leave
<1>2. Files' /\ Fresh'
  BY DEF IInv, Files, Fresh
<1>3. Importing'
  <2>1. LastLeaf' = LastLeaf
    BY DEF LastLeaf
  <2> QED BY <2>1 DEF IInv, Importing
<1>4. Place(D, L, H, NoOwner)'
  <2>1. Chained(leaves', L, End')
    BY DEF End
  <2> QED BY <2>1 DEF Place, Leave
<1>5. Grows'
  BY <1>4 DEF Grows
<1> QED BY <1>1, <1>2, <1>3, <1>5 DEF IInv

\* Taking the returned split in a directory with room keeps the invariant.
LEMMA DirFitsIInv ==
  ASSUME IInv, DirFits
  PROVE  IInv'
<1>1. pc = "split" /\ Len(dirs[Top].keys) < DirMax /\ dirs' = [dirs EXCEPT ![Top] = Wider]
      /\ pc' = "idle" /\ Leave /\ UNCHANGED <<leaves, rest, answer, misread, updates>>
  BY DEF DirFits, HasRoom, Wider
<1>2. /\ rest = {} /\ leaves # EmptyFile /\ IsFile(dirs) /\ IsFile(leaves)
      /\ Top \in DOMAIN dirs /\ Len(dirs[Top].keys) \in Nat /\ Len(dirs[Top].keys) <= DirMax
      /\ \E D, L, H, w : /\ Tree(dirs, leaves, D, L, H, w) /\ Way(dirs, H, path) /\ w.own = Top
                         /\ Grown(dirs[Top], Wider, w.slot, w.key, w.page)
                         /\ Chained(leaves, L, End)
  BY <1>1, AtSplit
<1>3. PICK D, L, H, w : /\ Tree(dirs, leaves, D, L, H, w) /\ w.own = Top
                        /\ Grown(dirs[Top], Wider, w.slot, w.key, w.page)
                        /\ Chained(leaves, L, End)
  BY <1>2
<1>4. /\ IsFile(dirs') /\ DOMAIN dirs' = DOMAIN dirs /\ dirs'[Top] = Wider
      /\ \A c \in DOMAIN dirs : c # Top => dirs'[c] = dirs[c]
  BY <1>1, <1>2, ChangedFile
<1>5. w.own # -1
  BY <1>2, <1>3 DEF Tree, Ranges
<1>6. Tree(dirs', leaves', D, L, H, NoOwner)
  <2>1. Tree(dirs', leaves, D, L, H, NoOwner)
    BY <1>3, <1>4, <1>5, Fitted
  <2> QED BY <1>1, <2>1
<1>7. \A p \in DOMAIN dirs' : Len(dirs'[p].keys) <= DirMax
  <2>1. Len(Wider.keys) = Len(dirs[Top].keys) + 1
    BY <1>3 DEF Grown
  <2>2. Len(Wider.keys) <= DirMax
    BY <1>1, <1>2, <2>1, RecordsAreNumbers
  <2> QED BY <1>4, <2>2 DEF IInv, Files
<1>8. (\A r \in rest : KeysBelow(dirs', r)) /\ (\A r \in rest : r \in L[NewPage(leaves) - 1])
  BY <1>2
<1>9. IsFile(dirs') /\ Chained(leaves, L, End) /\ leaves # EmptyFile
  BY <1>2, <1>3, <1>4
<1>10. /\ Leave /\ pc' \in {"import", "idle"} /\ leaves' = leaves /\ rest' = rest
        /\ (pc' = "idle" => rest = {})
        /\ answer' = answer /\ misread' = misread /\ updates' = updates
  BY <1>1, <1>2
<1> QED BY <1>10, <1>6, <1>7, <1>8, <1>9, LeaveIInv

\* A directory that is too wide has two halves.
LEMMA WiderHalves ==
  ASSUME IInv, pc = "split", ~HasRoom(dirs[Top])
  PROVE  /\ Halves(Wider, LeftDir, RightDir, DirMiddle) /\ MiddleKey = Wider.keys[DirMiddle + 1]
         /\ Len(LeftDir.keys) <= DirMax /\ Len(RightDir.keys) <= DirMax
<1>1. /\ Len(dirs[Top].keys) \in Nat /\ Len(dirs[Top].keys) <= DirMax
      /\ \E D, L, H, w : Grown(dirs[Top], Wider, w.slot, w.key, w.page)
  BY AtSplit
<1>2. Len(dirs[Top].keys) = DirMax
  BY <1>1, RecordsAreNumbers DEF HasRoom
<1>3. Wider \in Dir /\ Len(Wider.keys) = DirMax + 1 /\ Len(Wider.children) = Len(Wider.keys) + 1
  BY <1>1, <1>2 DEF Grown
<1>4. DirMiddle \in 1 .. DirMax /\ DirMiddle + 1 <= DirMax + 1
  BY RecordsAreNumbers DEF DirMiddle
<1>5. DirMiddle \in 1 .. Len(Wider.keys) - 1
  BY <1>3, <1>4, RecordsAreNumbers
<1>6. Wider.keys = Keys /\ Wider.children = Children
  BY DEF Wider
<1>7. Halves(Wider, LeftDir, RightDir, DirMiddle)
  <2> DEFINE m == DirMiddle
             d == Wider
  <2>1. d \in Dir /\ Len(d.children) = Len(d.keys) + 1 /\ m \in 1 .. Len(d.keys) - 1
    BY <1>3, <1>5
  <2> HIDE DEF d, m
  <2>2. Halves(d, [keys |-> SubSeq(d.keys, 1, m), children |-> SubSeq(d.children, 1, m + 1)],
                  [keys |-> SubSeq(d.keys, m + 2, Len(d.keys)),
                   children |-> SubSeq(d.children, m + 2, Len(d.children))], m)
    BY <2>1, CutHalves
  <2> QED BY <1>6, <2>2 DEF d, m, LeftDir, RightDir
<1>8. Len(LeftDir.keys) <= DirMax /\ Len(RightDir.keys) <= DirMax
  <2>1. Len(LeftDir.keys) = DirMiddle /\ Len(RightDir.keys) = DirMax + 1 - DirMiddle - 1
    BY <1>3, <1>7, RecordsAreNumbers DEF Halves
  <2> QED BY <1>4, <2>1, RecordsAreNumbers
<1> QED BY <1>6, <1>7, <1>8 DEF MiddleKey

\* The new root has one key.
LEMMA NewRootKeys ==
  ASSUME NEW key, NEW a
  PROVE  NewRoot(key, a).keys = <<key>> /\ Len(NewRoot(key, a).keys) = 1 /\ Len(NewRoot(key, a).keys) <= DirMax
<1>1. NewRoot(key, a).keys = <<key>> /\ Len(<<key>>) = 1
  BY DEF NewRoot
<1> QED BY <1>1, RecordsAreNumbers

\* The split of the root keeps the invariant.
LEMMA RootSplitsIInv ==
  ASSUME IInv, RootSplits
  PROVE  IInv'
<1> DEFINE n == NewPage(dirs)
           z == NewRoot(MiddleKey, n)
<1>1. /\ pc = "split" /\ ~HasRoom(dirs[Top]) /\ Top = 0
      /\ dirs' = ThreePages(dirs, LeftDir, RightDir, z)
      /\ pc' = "idle" /\ Leave /\ UNCHANGED <<leaves, rest, answer, misread, updates>>
  BY DEF RootSplits, ThreePages
<1>2. /\ rest = {} /\ leaves # EmptyFile /\ IsFile(dirs) /\ 0 \in DOMAIN dirs
      /\ \E D, L, H, w : /\ Tree(dirs, leaves, D, L, H, w) /\ Way(dirs, H, path) /\ w.own = Top
                         /\ Grown(dirs[Top], Wider, w.slot, w.key, w.page)
                         /\ Chained(leaves, L, End)
  BY <1>1, AtSplit
<1>3. PICK D, L, H, w : /\ Tree(dirs, leaves, D, L, H, w) /\ w.own = 0
                        /\ Grown(dirs[0], Wider, w.slot, w.key, w.page)
                        /\ Chained(leaves, L, End)
  BY <1>1, <1>2
<1>4. /\ Halves(Wider, LeftDir, RightDir, DirMiddle) /\ MiddleKey = Wider.keys[DirMiddle + 1]
      /\ Len(LeftDir.keys) <= DirMax /\ Len(RightDir.keys) <= DirMax
  BY <1>1, WiderHalves
<1>5. IsFile(dirs') /\ RootPages(dirs, dirs', MiddleKey, LeftDir, RightDir, n)
  BY <1>1, <1>2, ThreePagesFacts
<1> HIDE DEF n
<1>6. \E E, G : Tree(dirs', leaves, E, L, G, NoOwner)
  <2>1. RootPages(dirs, dirs', Wider.keys[DirMiddle + 1], LeftDir, RightDir, n)
    BY <1>4, <1>5
  <2> QED BY <1>3, <1>4, <2>1, CutRoot
<1>7. PICK E, G : Tree(dirs', leaves', E, L, G, NoOwner)
  BY <1>1, <1>6
<1>8. \A p \in DOMAIN dirs' : Len(dirs'[p].keys) <= DirMax
  <2>1. \A p \in DOMAIN dirs : Len(dirs[p].keys) <= DirMax
    BY DEF IInv, Files
  <2>2. Len(z.keys) <= DirMax
    BY NewRootKeys
  <2> HIDE DEF z
  <2> QED BY <1>4, <1>5, <2>1, <2>2 DEF RootPages, z
<1>9. (\A r \in rest : KeysBelow(dirs', r)) /\ (\A r \in rest : r \in L[NewPage(leaves) - 1])
  BY <1>2
<1>10. IsFile(dirs') /\ Chained(leaves, L, End) /\ leaves # EmptyFile
  BY <1>2, <1>3, <1>5
<1>11. /\ Leave /\ pc' \in {"import", "idle"} /\ leaves' = leaves /\ rest' = rest
        /\ (pc' = "idle" => rest = {})
        /\ answer' = answer /\ misread' = misread /\ updates' = updates
  BY <1>1, <1>2
<1> QED BY <1>11, <1>7, <1>8, <1>9, <1>10, LeaveIInv

\* The split of another directory keeps the invariant: its parent owns the next
\* split.
LEMMA DirSplitsIInv ==
  ASSUME IInv, DirSplits
  PROVE  IInv'
<1> DEFINE n == NewPage(dirs)
<1>1. /\ pc = "split" /\ ~HasRoom(dirs[Top]) /\ Top # 0
      /\ dirs' = TwoPages(dirs, Top, LeftDir, RightDir)
      /\ split' = [record |-> MiddleKey, page |-> -n] /\ path' = Pop
      /\ UNCHANGED <<leaves, op, record, leaf, rest, pc, answer, misread, updates>>
  BY DEF DirSplits, TwoPages, SplitPage
<1>2. /\ rest = {} /\ leaves # EmptyFile /\ IsFile(dirs) /\ IsFile(leaves) /\ Top \in DOMAIN dirs
      /\ \E D, L, H, w : /\ Tree(dirs, leaves, D, L, H, w) /\ Way(dirs, H, path) /\ w.own = Top
                         /\ Grown(dirs[Top], Wider, w.slot, w.key, w.page)
                         /\ Chained(leaves, L, End)
  BY <1>1, AtSplit
<1>3. PICK D, L, H, w : /\ Tree(dirs, leaves, D, L, H, w) /\ Way(dirs, H, path) /\ w.own = Top
                        /\ Grown(dirs[Top], Wider, w.slot, w.key, w.page)
                        /\ Chained(leaves, L, End)
  BY <1>2
<1>4. /\ Halves(Wider, LeftDir, RightDir, DirMiddle) /\ MiddleKey = Wider.keys[DirMiddle + 1]
      /\ Len(LeftDir.keys) <= DirMax /\ Len(RightDir.keys) <= DirMax
  BY <1>1, WiderHalves
<1>5. IsFile(dirs') /\ DirPages(dirs, dirs', Top, LeftDir, RightDir, n)
  BY <1>1, <1>2, TwoPagesFacts
<1>5a. /\ n \in Nat /\ DOMAIN dirs' = DOMAIN dirs \cup {n}
       /\ dirs'[Top] = LeftDir /\ dirs'[n] = RightDir /\ \A c \in DOMAIN dirs : c # Top => dirs'[c] = dirs[c]
  BY <1>5 DEF DirPages
<1> HIDE DEF n
<1>6. /\ Way(dirs, H, Pop) /\ (\A i \in 1 .. Len(Pop) : Pop[i] # Top)
      /\ \E t : Parent(dirs, Pop[Len(Pop)], t, -Top)
  <2>1. H \in [DOMAIN dirs -> Nat]
    BY <1>3 DEF Tree, Ranges
  <2> QED BY <1>1, <1>3, <2>1, WayUp DEF Top, Pop
<1> DEFINE o == Pop[Len(Pop)]
<1>7. o # Top
  <2>1. Len(Pop) \in 1 .. Len(Pop)
    BY <1>6, WayTop
  <2> QED BY <1>6, <2>1
<1>8. PICK t : Parent(dirs, o, t, -Top)
  BY <1>6
<1>9. w.own # -1
  BY <1>2, <1>3 DEF Tree, Ranges
<1>10. Lifted(dirs, dirs', leaves, L, H, o, t, Wider.keys[DirMiddle + 1], n)
  <2> HIDE DEF o
  <2>1. DirPages(dirs, dirs', w.own, LeftDir, RightDir, n) /\ w.own # 0
    BY <1>1, <1>3, <1>5
  <2>2. Grown(dirs[w.own], Wider, w.slot, w.key, w.page) /\ Parent(dirs, o, t, -w.own) /\ o # w.own
    BY <1>3, <1>7, <1>8
  <2> QED BY <1>3, <1>4, <1>9, <2>1, <2>2, CutGrown
<1>11. PICK E, G, u : /\ Tree(dirs', leaves', E, L, G, u) /\ u.own = o /\ u.key = MiddleKey /\ u.page = -n
                      /\ \A c \in DOMAIN dirs : G[c] = H[c]
  <2>1. PICK E, G : /\ Tree(dirs', leaves, E, L, G, [own |-> o, slot |-> t, key |-> Wider.keys[DirMiddle + 1], page |-> -n])
                    /\ \A c \in DOMAIN dirs : G[c] = H[c]
    BY <1>10 DEF Lifted
  <2> DEFINE u == [own |-> o, slot |-> t, key |-> Wider.keys[DirMiddle + 1], page |-> -n]
  <2>2. u.own = o /\ u.key = MiddleKey /\ u.page = -n
    BY <1>4
  <2>3. Tree(dirs', leaves', E, L, G, u)
    BY <1>1, <2>1
  <2> HIDE DEF u
  <2> QED BY <2>1, <2>2, <2>3
<1>12. Way(dirs', G, Pop)
  <2>1. DOMAIN dirs \subseteq DOMAIN dirs' /\ \A i \in 1 .. Len(Pop) : dirs'[Pop[i]] = dirs[Pop[i]]
    BY <1>5a, <1>6 DEF Way
  <2> QED BY <1>6, <1>11, <2>1, WayStays
<1>13. Top' = o /\ path' = Pop
  BY <1>1 DEF Top
<1>14. MiddleKey \in Records
  <2>1. u.own # -1
    <3>1. o \in DOMAIN dirs /\ DOMAIN dirs \subseteq Nat
      BY <1>3, <1>6, WayTop DEF Tree, Ranges
    <3> HIDE DEF o
    <3> QED BY <1>11, <3>1
  <2> QED BY <1>11, <2>1, OwnerFacts
<1> HIDE DEF o
<1>15. Scalars'
  <2>1. split' \in Split
    BY <1>1, <1>5a, <1>14 DEF Split
  <2> QED BY <1>1, <2>1 DEF IInv, Scalars
<1>16. Files' /\ Fresh' /\ Importing'
  <2>1. \A p \in DOMAIN dirs' : Len(dirs'[p].keys) <= DirMax
    <3>1. \A p \in DOMAIN dirs : Len(dirs[p].keys) <= DirMax
      BY DEF IInv, Files
    <3> QED BY <1>4, <1>5a, <3>1
  <2> QED BY <1>1, <1>2, <1>5, <2>1 DEF Files, Fresh, Importing
<1>17. Place(E, L, G, u)'
  <2>1. pc' = "split" /\ split'.record = MiddleKey /\ split'.page = -n /\ rest' = {}
    BY <1>1, <1>2
  <2>2. Way(dirs', G, path') /\ u.own = Top'
    BY <1>11, <1>12, <1>13
  <2>3. Chained(leaves', L, End')
    BY <1>1, <1>3 DEF End
  <2>4. \A r \in rest' : r \in L[NewPage(leaves') - 1]
    BY <2>1
  <2> QED BY <1>11, <2>1, <2>2, <2>3, <2>4 DEF Place
<1>18. Grows'
  BY <1>11, <1>17 DEF Grows
<1> QED BY <1>15, <1>16, <1>18 DEF IInv

-----------------------------------------------------------------------------
(* The operations that end at a leaf.                                      *)

\* An insert into an empty leaf keeps the invariant.
LEMMA InsertFirstIInv ==
  ASSUME IInv, InsertFirst
  PROVE  IInv'
<1>1. pc = "leaf" /\ misread' \in BOOLEAN
  BY DEF InsertFirst, At, IInv, Scalars
<1>2. PICK m : /\ Good(m) /\ Recs(m) = Recs(This) \cup {record} /\ m.next_leaf = This.next_leaf
               /\ leaves' = [leaves EXCEPT ![leaf] = m] /\ Return(TRUE)
  BY InsertFirstLeaf
<1>3. Recs(m) \subseteq Recs(leaves[leaf]) \cup {record} /\ m.next_leaf = leaves[leaf].next_leaf
  BY <1>2 DEF This
<1> QED BY <1>1, <1>2, <1>3, ReturnIInv

\* An insert into a leaf with room keeps the invariant.
LEMMA InsertFitsIInv ==
  ASSUME IInv, InsertFits
  PROVE  IInv'
<1>1. pc = "leaf" /\ misread' \in BOOLEAN
  BY DEF InsertFits, At, IInv, Scalars
<1>2. PICK m : /\ Good(m) /\ Recs(m) = Recs(This) \cup {record} /\ m.next_leaf = This.next_leaf
               /\ leaves' = [leaves EXCEPT ![leaf] = m] /\ Return(TRUE)
  BY InsertFitsLeaf
<1>3. Recs(m) \subseteq Recs(leaves[leaf]) \cup {record} /\ m.next_leaf = leaves[leaf].next_leaf
  BY <1>2 DEF This
<1> QED BY <1>1, <1>2, <1>3, ReturnIInv

\* delete_record keeps the invariant.
LEMMA DeleteFoundIInv ==
  ASSUME IInv, DeleteFound
  PROVE  IInv'
<1>1. pc = "leaf" /\ misread' \in BOOLEAN
  BY DEF DeleteFound, At, Unused
<1>2. PICK m : /\ Good(m) /\ Recs(m) \subseteq Recs(This) /\ m.next_leaf = This.next_leaf
               /\ leaves' = [leaves EXCEPT ![leaf] = m] /\ Return(TRUE)
  BY DeleteFoundLeaf
<1>3. Recs(m) \subseteq Recs(leaves[leaf]) \cup {record} /\ m.next_leaf = leaves[leaf].next_leaf
  BY <1>2 DEF This
<1> QED BY <1>1, <1>2, <1>3, ReturnIInv

\* The two that leave the leaf alone.
LEMMA UnchangedLeafIInv ==
  ASSUME IInv, InsertDuplicate \/ DeleteMissing
  PROVE  IInv'
<1>1. pc = "leaf" /\ misread' \in BOOLEAN /\ Return(FALSE) /\ leaves' = leaves
  <2>1. CASE InsertDuplicate
    <3>1. misread' = Unused /\ pc = "leaf" /\ Return(FALSE) /\ leaves' = leaves
      BY <2>1 DEF InsertDuplicate, At
    <3>2. Unused \in BOOLEAN
      BY DEF Unused
    <3> QED BY <3>1, <3>2
  <2>2. CASE DeleteMissing
    BY <2>2 DEF DeleteMissing, At, IInv, Scalars
  <2> QED BY <2>1, <2>2
<1>2. Good(leaves[leaf]) /\ Recs(leaves[leaf]) \subseteq Recs(leaves[leaf]) \cup {record}
  BY <1>1, AtLeaf DEF This
<1> QED BY <1>1, <1>2, ReturnIInv

-----------------------------------------------------------------------------
(* The bulk import.                                                        *)

\* During bulk_insert: the new key is greater than every key, and belongs at
\* the right end.
LEMMA AtBulk ==
  ASSUME IInv, pc = "bulk"
  PROVE  /\ leaves # EmptyFile /\ IsFile(dirs) /\ IsFile(leaves) /\ split.record \in Records
         /\ KeysBelow(dirs, split.record) /\ (\A r \in rest : split.record < r)
         /\ Top \in DOMAIN dirs /\ dirs[Top] \in Dir /\ Len(dirs[Top].keys) <= DirMax
         /\ Len(dirs[Top].children) = Len(dirs[Top].keys) + 1
         /\ LastChild(dirs[Top]) = dirs[Top].children[Len(dirs[Top].keys) + 1]
         /\ Between(dirs[Top].keys, Len(dirs[Top].keys), split.record)
<1>1. PICK D, L, H, w : Tree(dirs, leaves, D, L, H, w) /\ Place(D, L, H, w)
  BY DEF IInv, Grows, Fresh
<1>2. Way(dirs, H, path) /\ split.record \in D[Top] /\ KeysBelow(dirs, split.record)
      /\ \A r \in rest : split.record < r
  BY <1>1 DEF Place, IInv, Importing
<1>3. Top \in DOMAIN dirs
  BY <1>2, WayTop DEF Top
<1>4. /\ dirs[Top] \in Dir /\ Len(dirs[Top].children) = Len(dirs[Top].keys) + 1
      /\ split.record \in Records
  BY <1>1, <1>2, <1>3 DEF Tree, Dirs, Ranges
<1>5. Between(dirs[Top].keys, Len(dirs[Top].keys), split.record)
  <2> DEFINE n == Len(dirs[Top].keys)
  <2>1. n \in Nat /\ split.record \in Nat /\ \A j \in 1 .. n : dirs[Top].keys[j] \in Nat
    BY <1>4, DirTypes, RecordsAreNumbers
  <2>2. \A i \in 1 .. n : dirs[Top].keys[i] < split.record
    BY <1>2, <1>3 DEF KeysBelow
  <2> HIDE DEF n
  <2>3. n > 0 => dirs[Top].keys[n] <= split.record
    BY <2>1, <2>2
  <2>4. n = Len(dirs[Top].keys)
    BY DEF n
  <2> QED BY <2>1, <2>3, <2>4 DEF Between
<1>6. LastChild(dirs[Top]) = dirs[Top].children[Len(dirs[Top].keys) + 1]
  BY <1>4 DEF LastChild
<1> QED BY <1>1, <1>2, <1>3, <1>4, <1>5, <1>6 DEF IInv, Files, Fresh

\* Going down the right-most branch keeps the invariant.
LEMMA BulkDescendIInv ==
  ASSUME IInv, BulkDescend
  PROVE  IInv'
<1> DEFINE p == Top
           n == Len(dirs[p].keys)
           c == dirs[p].children[n + 1]
<1>1. /\ pc = "bulk" /\ split.page >= 0 /\ LastChild(dirs[Top]) < 0
      /\ path' = Append(path, -LastChild(dirs[Top])) /\ dirs' = dirs /\ leaves' = leaves
      /\ UNCHANGED <<op, record, leaf, split, rest, pc, answer, misread, updates>>
  BY DEF BulkDescend, treeVars
<1>2. PICK D, L, H, w : Tree(dirs, leaves, D, L, H, w) /\ Place(D, L, H, w)
  BY <1>1 DEF IInv, Grows, Fresh
<1>3. /\ Way(dirs, H, path) /\ split.record \in D[p] /\ w.own # -1 /\ w.page = split.page
      /\ w.key = split.record
  BY <1>1, <1>2 DEF Place
<1>4. /\ leaves # EmptyFile /\ p \in DOMAIN dirs /\ dirs[p] \in Dir /\ n \in Nat /\ n \in 0 .. n
      /\ LastChild(dirs[p]) = c /\ Between(dirs[p].keys, n, split.record)
  BY <1>1, AtBulk, DirTypes
<1>5. c \in Int /\ c < 0 /\ H[p] = Above(H, c) /\ Exists(dirs, leaves, c)
  <2>1. n \in 0 .. Len(dirs[p].keys) /\ c < 0
    BY <1>1, <1>4
  <2> HIDE DEF n, p
  <2> QED BY <1>2, <1>4, <2>1, ChildFacts
<1>6. p # w.own
  <2>1. H[w.own] = 0
    BY <1>1, <1>2, <1>3 DEF Tree, Owned, Above
  <2>2. H[p] = H[-c] + 1 /\ -c \in DOMAIN dirs /\ H[-c] \in Nat
    BY <1>2, <1>5 DEF Above, Exists, Tree, Ranges
  <2> HIDE DEF c, p
  <2> QED BY <2>1, <2>2
<1>7. split.record \in D[-c]
  <2>0. n \in 0 .. Len(dirs[p].keys)
    BY <1>4
  <2> HIDE DEF n, p
  <2>1. split.record \in Under(D, L, Goes(w, p, n, split.record, dirs[p].children[n + 1]))
    BY <1>2, <1>3, <1>4, <2>0 DEF Tree, Routes
  <2> QED BY <1>5, <1>6, <2>1 DEF Goes, Under
<1>8. Way(dirs, H, Append(path, -c)) /\ Append(path, -c)[Len(Append(path, -c))] = -c
  <2> HIDE DEF n
  <2>1. n \in 0 .. Len(dirs[path[Len(path)]].keys) /\ c = dirs[path[Len(path)]].children[n + 1]
    BY <1>4 DEF n, Top
  <2> QED BY <1>2, <1>3, <1>5, <2>1, WayDown
<1> HIDE DEF c, n, p
<1>9. path' = Append(path, -c) /\ Top' = -c
  BY <1>1, <1>4, <1>8 DEF p, Top
<1>10. Scalars'
  BY <1>1 DEF IInv, Scalars
<1>11. Files' /\ Fresh'
  BY <1>1, <1>4 DEF IInv, Files, Fresh
<1>12. Importing'
  <2>1. LastLeaf' = LastLeaf
    BY <1>1 DEF LastLeaf
  <2> QED BY <1>1, <2>1 DEF IInv, Importing
<1>13. Place(D, L, H, w)'
  <2>0. Chained(leaves', L, End')
    BY <1>1, <1>2 DEF Place, End
  <2>1. Way(dirs', H, path') /\ split'.record \in D[Top'] /\ ~(split'.page < 0)
    <3>1. split.page \in Int
      BY DEF IInv, Scalars, Split
    <3> QED BY <1>1, <1>7, <1>8, <1>9, <3>1
  <2> QED BY <1>1, <1>2, <2>0, <2>1 DEF Place
<1>14. Grows'
  BY <1>1, <1>2, <1>13 DEF Grows
<1> QED BY <1>10, <1>11, <1>12, <1>14 DEF IInv

\* Where the bulk import changes a directory, that one waits for the page, at
\* its end.
LEMMA AtBulking ==
  ASSUME IInv, Bulking
  PROVE  \E D, L, H, w :
           /\ Tree(dirs, leaves, D, L, H, w) /\ Way(dirs, H, path) /\ w.own = Top
           /\ w.key = split.record
           /\ Grown(dirs[Top], Pushed(dirs[Top]), w.slot, w.key, w.page)
           /\ Chained(leaves, L, End)
           /\ \A r \in rest : r \in L[NewPage(leaves) - 1]
<1>1. pc = "bulk" /\ (split.page < 0 \/ LastChild(dirs[Top]) >= 0)
  BY DEF Bulking
<1>2. PICK D, L, H, w : Tree(dirs, leaves, D, L, H, w) /\ Place(D, L, H, w)
  BY <1>1 DEF IInv, Grows, Fresh
<1>3. /\ Way(dirs, H, path) /\ split.record \in D[Top] /\ w.own # -1 /\ w.page = split.page
      /\ w.key = split.record /\ (split.page < 0 => w.own = Top)
      /\ Chained(leaves, L, End)
      /\ \A r \in rest : r \in L[NewPage(leaves) - 1]
  BY <1>1, <1>2 DEF Place
<1> DEFINE p == Top
           d == dirs[Top]
           n == Len(d.keys)
<1>4. /\ p \in DOMAIN dirs /\ d \in Dir /\ n \in Nat /\ Len(d.children) = n + 1
      /\ LastChild(d) = d.children[n + 1] /\ Between(d.keys, n, split.record)
      /\ split.record \in Nat
  BY <1>1, AtBulk, DirTypes, RecordsAreNumbers
<1>5. w.own = p
  <2>0. split.page \in Int
    BY DEF IInv, Scalars, Split
  <2>1. CASE split.page >= 0
    <3>1. LastChild(d) >= 0 /\ ~(split.page < 0)
      BY <1>1, <2>0, <2>1
    <3>2. H[w.own] = 0 /\ w.own \in DOMAIN dirs
      BY <1>2, <1>3, <3>1 DEF Tree, Owned, Above
    <3>3. H[p] = 0
      <4>1. d.children[n + 1] \in Int /\ H[p] = Above(H, d.children[n + 1])
        <5> HIDE DEF p
        <5>1. n \in 0 .. Len(dirs[p].keys)
          BY <1>4 DEF p
        <5> HIDE DEF n
        <5> QED BY <1>2, <1>4, <5>1, ChildFacts DEF p
      <4> QED BY <1>4, <3>1, <4>1 DEF Above
    <3>4. split.record \in D[w.own]
      BY <1>2, <1>3, OwnerFacts
    <3>5. D[p] \cap D[w.own] # {}
      BY <1>3, <3>4
    <3> QED BY <1>2, <1>4, <3>2, <3>3, <3>5 DEF Tree, Apart
  <2> QED BY <1>3, <2>0, <2>1
<1>6. /\ w.slot \in 0 .. n /\ Sorted(d.keys) /\ w.key \in Records /\ w.page \in Int
      /\ Between(d.keys, w.slot, w.key)
  BY <1>2, <1>3, <1>5, OwnerFacts
<1>7. w.slot = n
  <2> HIDE DEF n, d
  <2>1. d.keys \in Seq(Records)
    BY <1>4, DirTypes
  <2> QED BY <1>3, <1>4, <1>6, <2>1, BetweenUnique
<1>8. Grown(d, Pushed(d), n, w.key, w.page)
  <2> DEFINE e == [keys |-> Append(d.keys, w.key), children |-> Append(d.children, w.page)]
  <2>1. Pushed(d) = e
    BY <1>3 DEF Pushed
  <2> HIDE DEF d
  <2>2. d.keys \in Seq(Records) /\ d.children \in Seq(Int)
    BY <1>4, DirTypes
  <2>3. e.keys \in Seq(Records) /\ e.children \in Seq(Int) /\ Len(e.keys) = n + 1 /\ Len(e.children) = n + 2
        /\ e.keys[n + 1] = w.key /\ e.children[n + 2] = w.page
        /\ (\A j \in 1 .. n : e.keys[j] = d.keys[j]) /\ \A j \in 1 .. n + 1 : e.children[j] = d.children[j]
    <3> DEFINE x == w.key
               y == w.page
    <3> HIDE DEF x, y
    <3>1. /\ Append(d.keys, x) \in Seq(Records) /\ Len(Append(d.keys, x)) = n + 1
          /\ Append(d.keys, x)[n + 1] = x /\ \A j \in 1 .. n : Append(d.keys, x)[j] = d.keys[j]
      BY <1>4, <1>6, <2>2, AppendProperties DEF x
    <3>2. /\ Append(d.children, y) \in Seq(Int) /\ Len(Append(d.children, y)) = n + 2
          /\ Append(d.children, y)[n + 2] = y
          /\ \A j \in 1 .. n + 1 : Append(d.children, y)[j] = d.children[j]
      <4> DEFINE kids == d.children
      <4>1. kids \in Seq(Int) /\ Len(kids) = n + 1 /\ y \in Int /\ n \in Nat
        BY <1>4, <1>6, <2>2 DEF y
      <4> HIDE DEF kids, n
      <4>2. /\ Append(kids, y) \in Seq(Int) /\ Len(Append(kids, y)) = Len(kids) + 1
            /\ (\A j \in 1 .. Len(kids) : Append(kids, y)[j] = kids[j]) /\ Append(kids, y)[Len(kids) + 1] = y
        BY <4>1, AppendProperties
      <4>3. (n + 1) + 1 = n + 2
        BY <4>1
      <4> QED BY <4>1, <4>2, <4>3 DEF kids
    <3> QED BY <3>1, <3>2 DEF x, y
  <2>4. e \in Dir
    BY <2>3 DEF Dir
  <2> HIDE DEF e
  <2>5. n = Len(d.keys)
    OBVIOUS
  <2> HIDE DEF n
  <2>6. (\A j \in n + 2 .. n + 1 : FALSE) /\ \A j \in n + 3 .. n + 2 : FALSE
    BY <1>4
  <2>7. Len(e.children) = Len(e.keys) + 1
    BY <1>4, <2>3
  <2>8. Grown(d, e, n, w.key, w.page)
    BY <2>3, <2>4, <2>5, <2>6, <2>7 DEF Grown
  <2> QED BY <2>1, <2>8
<1>9. Grown(dirs[Top], Pushed(dirs[Top]), w.slot, w.key, w.page)
  BY <1>7, <1>8
<1> QED BY <1>2, <1>3, <1>5, <1>9

\* A directory with the new key and child pushed at its end.
LEMMA PushedKeys ==
  ASSUME NEW d \in Dir, Len(d.children) = Len(d.keys) + 1, split.record \in Records, split.page \in Int
  PROVE  /\ Pushed(d) \in Dir /\ Len(Pushed(d).keys) = Len(d.keys) + 1
         /\ Len(Pushed(d).children) = Len(Pushed(d).keys) + 1
         /\ \A j \in 1 .. Len(d.keys) : Pushed(d).keys[j] = d.keys[j]
         /\ Pushed(d).keys[Len(d.keys) + 1] = split.record
         /\ \A j \in 1 .. Len(d.children) : Pushed(d).children[j] = d.children[j]
         /\ Pushed(d).children[Len(d.children) + 1] = split.page
<1> DEFINE x == split.record
           y == split.page
           k == Append(d.keys, x)
           c == Append(d.children, y)
<1>1. d.keys \in Seq(Records) /\ d.children \in Seq(Int) /\ Len(d.keys) \in Nat
  BY DirTypes
<1>2. Pushed(d).keys = k /\ Pushed(d).children = c /\ Pushed(d) = [keys |-> k, children |-> c]
  BY DEF Pushed
<1> HIDE DEF x, y
<1>3. k \in Seq(Records) /\ Len(k) = Len(d.keys) + 1 /\ k[Len(d.keys) + 1] = x
      /\ \A j \in 1 .. Len(d.keys) : k[j] = d.keys[j]
  BY <1>1, AppendProperties DEF x
<1>4. c \in Seq(Int) /\ Len(c) = Len(d.children) + 1 /\ c[Len(d.children) + 1] = y
      /\ \A j \in 1 .. Len(d.children) : c[j] = d.children[j]
  BY <1>1, AppendProperties DEF y
<1> HIDE DEF k, c
<1>5. Pushed(d) \in Dir
  BY <1>2, <1>3, <1>4 DEF Dir
<1>6. Len(c) = Len(k) + 1
  BY <1>1, <1>3, <1>4
<1> QED BY <1>2, <1>3, <1>4, <1>5, <1>6 DEF x, y

\* Pushing a key on a directory with room keeps the invariant.
LEMMA BulkFitsIInv ==
  ASSUME IInv, BulkFits
  PROVE  IInv'
<1> DEFINE d == dirs[Top]
           e == Pushed(dirs[Top])
<1>1. /\ pc = "bulk" /\ Bulking /\ Len(d.keys) < DirMax /\ dirs' = [dirs EXCEPT ![Top] = e]
      /\ pc' = "import" /\ Leave /\ UNCHANGED <<leaves, rest, answer, misread, updates>>
  BY DEF BulkFits, HasRoom, Bulking
<1>2. /\ leaves # EmptyFile /\ IsFile(dirs) /\ Top \in DOMAIN dirs /\ split.record \in Records
      /\ (\A r \in rest : split.record < r)
      /\ d \in Dir /\ Len(d.children) = Len(d.keys) + 1
  BY <1>1, AtBulk
<1>3. PICK D, L, H, w : /\ Tree(dirs, leaves, D, L, H, w) /\ w.own = Top
                        /\ Grown(dirs[Top], e, w.slot, w.key, w.page)
                        /\ Chained(leaves, L, End)
                        /\ \A r \in rest : r \in L[NewPage(leaves) - 1]
  BY <1>1, AtBulking
<1>4. /\ IsFile(dirs') /\ DOMAIN dirs' = DOMAIN dirs /\ dirs'[Top] = e
      /\ \A c \in DOMAIN dirs : c # Top => dirs'[c] = dirs[c]
  <2> HIDE DEF e
  <2> QED BY <1>1, <1>2, ChangedFile
<1>5. w.own # -1
  BY <1>2, <1>3 DEF Tree, Ranges
<1>6. Tree(dirs', leaves', D, L, H, NoOwner)
  <2>1. Tree(dirs', leaves, D, L, H, NoOwner)
    BY <1>3, <1>4, <1>5, Fitted
  <2> QED BY <1>1, <2>1
<1>7. /\ Len(e.keys) = Len(d.keys) + 1 /\ Len(d.keys) \in Nat
      /\ \A j \in 1 .. Len(d.keys) : e.keys[j] = d.keys[j]
      /\ e.keys[Len(d.keys) + 1] = split.record
  <2>1. split.page \in Int
    BY DEF IInv, Scalars, Split
  <2> HIDE DEF d
  <2> QED BY <1>2, <2>1, PushedKeys, DirTypes DEF d
<1> HIDE DEF e, d
<1>8. \A p \in DOMAIN dirs' : Len(dirs'[p].keys) <= DirMax
  <2>1. Len(e.keys) <= DirMax
    BY <1>1, <1>7, RecordsAreNumbers
  <2> QED BY <1>4, <2>1 DEF IInv, Files
<1>9. ASSUME NEW r \in rest
      PROVE  KeysBelow(dirs', r)
  <2>1. KeysBelow(dirs, r)
    BY DEF IInv, Importing
  <2>2. \A i \in 1 .. Len(e.keys) : e.keys[i] < r
    <3>1. \A i \in 1 .. Len(d.keys) : d.keys[i] < r
      BY <1>2, <2>1 DEF KeysBelow, d
    <3>2. \A i \in 1 .. Len(e.keys) : i \in 1 .. Len(d.keys) \/ i = Len(d.keys) + 1
      BY <1>7
    <3>3. split.record < r
      BY <1>2
    <3> QED BY <1>7, <3>1, <3>2, <3>3
  <2> QED BY <1>4, <2>1, <2>2 DEF KeysBelow
<1>10. /\ Leave /\ pc' \in {"import", "idle"} /\ leaves' = leaves /\ rest' = rest
       /\ (pc' = "idle" => rest = {})
       /\ answer' = answer /\ misread' = misread /\ updates' = updates
  BY <1>1
<1>11. IsFile(dirs') /\ Chained(leaves, L, End) /\ leaves # EmptyFile
       /\ \A r \in rest : r \in L[NewPage(leaves) - 1]
  BY <1>2, <1>3, <1>4
<1> QED BY <1>6, <1>8, <1>9, <1>10, <1>11, LeaveIInv

\* The full directory and the branch that is put beside it, as the halves of
\* the directory with everything in it.
LEMMA PushedHalves ==
  ASSUME IInv, Bulking, ~HasRoom(dirs[Top])
  PROVE  /\ Halves(Pushed(dirs[Top]), dirs[Top], NewBranch, DirMax)
         /\ split.record = Pushed(dirs[Top]).keys[DirMax + 1]
         /\ NewBranch \in Dir /\ Len(NewBranch.keys) = 0
<1> DEFINE d == dirs[Top]
<1>1. d \in Dir /\ Len(d.keys) <= DirMax /\ Len(d.children) = Len(d.keys) + 1 /\ split.record \in Records
  BY AtBulk DEF Bulking
<1>2. split.page \in Int
  BY DEF IInv, Scalars, Split
<1>3. Len(d.keys) \in Nat /\ DirMax \in Nat \ {0, 1} /\ ~(Len(d.keys) < DirMax)
  BY <1>1, DirTypes, RecordsAreNumbers DEF HasRoom
<1>4. Len(d.keys) = DirMax
  BY <1>1, <1>3
<1> HIDE DEF d
<1> DEFINE e == Pushed(d)
           f == NewBranch
<1>5. /\ e \in Dir /\ Len(e.keys) = DirMax + 1
      /\ (\A j \in 1 .. DirMax : e.keys[j] = d.keys[j]) /\ e.keys[DirMax + 1] = split.record
      /\ (\A j \in 1 .. DirMax + 1 : e.children[j] = d.children[j]) /\ e.children[DirMax + 2] = split.page
  <2>1. Len(d.children) + 1 = DirMax + 2
    BY <1>1, <1>3, <1>4
  <2> QED BY <1>1, <1>2, <1>4, <2>1, PushedKeys
<1>6. f.keys = << >> /\ f.children = <<split.page>> /\ f = [keys |-> f.keys, children |-> f.children]
  BY DEF NewBranch
<1>7. f \in Dir /\ Len(f.keys) = 0 /\ Len(f.children) = 1 /\ f.children[1] = split.page
  <2> DEFINE x == split.page
  <2> HIDE DEF x
  <2>1. << >> \in Seq(Records) /\ <<x>> \in Seq(Int) /\ Len(<<x>>) = 1 /\ <<x>>[1] = x
    BY <1>2 DEF x
  <2>2. Len(<< >>) = 0
    OBVIOUS
  <2>3. f = [keys |-> << >>, children |-> <<x>>]
    BY DEF NewBranch, x
  <2>4. f \in Dir
    BY <2>1, <2>3 DEF Dir
  <2> HIDE DEF f
  <2>5. f.keys = << >> /\ f.children = <<x>>
    BY <1>6 DEF x
  <2> QED BY <2>1, <2>2, <2>4, <2>5 DEF x
<1> HIDE DEF e, f
<1>8. Halves(e, d, f, DirMax)
  <2>1. DirMax \in 1 .. Len(e.keys) - 1 /\ Len(e.keys) - DirMax - 1 = 0 /\ Len(e.keys) - DirMax = 1
    BY <1>3, <1>5
  <2>2. \A j \in 1 .. 1 : f.children[j] = e.children[DirMax + 1 + j]
    <3>1. \A j \in 1 .. 1 : j = 1 /\ DirMax + 1 + j = DirMax + 2
      BY <1>3
    <3> QED BY <1>5, <1>7, <3>1
  <2>3. \A j \in 1 .. 0 : f.keys[j] = e.keys[DirMax + 1 + j]
    OBVIOUS
  <2> QED BY <1>1, <1>4, <1>5, <1>7, <2>1, <2>2, <2>3 DEF Halves
<1> QED BY <1>5, <1>7, <1>8 DEF d, e, f

\* bulk_insert into a full root keeps the invariant.
LEMMA BulkSplitRootIInv ==
  ASSUME IInv, BulkSplitRoot
  PROVE  IInv'
<1> DEFINE n == NewPage(dirs)
           e == Pushed(dirs[Top])
           z == NewRoot(split.record, n)
<1>1. /\ pc = "bulk" /\ Bulking /\ ~HasRoom(dirs[Top]) /\ Top = 0
      /\ dirs' = ThreePages(dirs, dirs[0], NewBranch, z)
      /\ pc' = "import" /\ Leave /\ UNCHANGED <<leaves, rest, answer, misread, updates>>
  BY DEF BulkSplitRoot, ThreePages, Bulking
<1>2. /\ leaves # EmptyFile /\ IsFile(dirs) /\ 0 \in DOMAIN dirs /\ \A r \in rest : split.record < r
  BY <1>1, AtBulk
<1>3. PICK D, L, H, w : /\ Tree(dirs, leaves, D, L, H, w) /\ w.own = 0
                        /\ Grown(dirs[0], e, w.slot, w.key, w.page)
                        /\ Chained(leaves, L, End)
                        /\ \A r \in rest : r \in L[NewPage(leaves) - 1]
  BY <1>1, AtBulking
<1>4. /\ Halves(e, dirs[0], NewBranch, DirMax) /\ split.record = e.keys[DirMax + 1]
      /\ Len(NewBranch.keys) = 0
  BY <1>1, PushedHalves
<1>5. IsFile(dirs') /\ RootPages(dirs, dirs', split.record, dirs[0], NewBranch, n)
  BY <1>1, <1>2, ThreePagesFacts
<1> HIDE DEF n, e
<1>6. \E E, G : Tree(dirs', leaves, E, L, G, NoOwner)
  <2>1. RootPages(dirs, dirs', e.keys[DirMax + 1], dirs[0], NewBranch, n)
    BY <1>4, <1>5
  <2> QED BY <1>3, <1>4, <2>1, CutRoot
<1>7. PICK E, G : Tree(dirs', leaves', E, L, G, NoOwner)
  BY <1>1, <1>6
<1>8. /\ DOMAIN dirs' = DOMAIN dirs \cup {n, n + 1} /\ dirs'[0] = z /\ dirs'[n] = dirs[0]
      /\ dirs'[n + 1] = NewBranch /\ \A c \in DOMAIN dirs : c # 0 => dirs'[c] = dirs[c]
  BY <1>5 DEF RootPages, z
<1>9. z.keys = <<split.record>> /\ Len(z.keys) = 1 /\ Len(z.keys) <= DirMax
  BY NewRootKeys
<1> HIDE DEF z
<1>10. \A p \in DOMAIN dirs' : Len(dirs'[p].keys) <= DirMax
  <2>1. \A p \in DOMAIN dirs : Len(dirs[p].keys) <= DirMax
    BY DEF IInv, Files
  <2>2. 0 <= DirMax
    BY RecordsAreNumbers
  <2>3. Len(NewBranch.keys) <= DirMax
    BY <1>4, <2>2
  <2> QED BY <1>2, <1>8, <1>9, <2>1, <2>3
<1>11. ASSUME NEW r \in rest
       PROVE  KeysBelow(dirs', r)
  <2>1. \A p \in DOMAIN dirs : \A i \in 1 .. Len(dirs[p].keys) : dirs[p].keys[i] < r
    BY DEF IInv, Importing, KeysBelow
  <2>2. \A i \in 1 .. Len(z.keys) : z.keys[i] < r
    <3>1. \A i \in 1 .. Len(z.keys) : i = 1
      BY <1>9
    <3> QED BY <1>2, <1>9, <3>1
  <2>3. \A i \in 1 .. Len(NewBranch.keys) : FALSE
    BY <1>4
  <2> QED BY <1>2, <1>8, <2>1, <2>2, <2>3 DEF KeysBelow
<1>12. /\ Leave /\ pc' \in {"import", "idle"} /\ leaves' = leaves /\ rest' = rest
       /\ (pc' = "idle" => rest = {})
       /\ answer' = answer /\ misread' = misread /\ updates' = updates
  BY <1>1
<1>13. IsFile(dirs') /\ Chained(leaves, L, End) /\ leaves # EmptyFile
       /\ \A r \in rest : r \in L[NewPage(leaves) - 1]
  BY <1>2, <1>3, <1>5
<1> QED BY <1>7, <1>10, <1>11, <1>12, <1>13, LeaveIInv

\* bulk_insert into another full directory keeps the invariant.
LEMMA BulkSplitDirIInv ==
  ASSUME IInv, BulkSplitDir
  PROVE  IInv'
<1> DEFINE n == NewPage(dirs)
           e == Pushed(dirs[Top])
           key == split.record
<1>1. /\ pc = "bulk" /\ Bulking /\ ~HasRoom(dirs[Top]) /\ Top # 0
      /\ dirs' = Appended(dirs, NewBranch)
      /\ split' = [split EXCEPT !.page = -n] /\ path' = Pop
      /\ UNCHANGED <<leaves, op, record, leaf, rest, pc, answer, misread, updates>>
  BY DEF BulkSplitDir, Bulking
<1>2. /\ leaves # EmptyFile /\ IsFile(dirs) /\ IsFile(leaves) /\ Top \in DOMAIN dirs
      /\ key \in Records /\ KeysBelow(dirs, key) /\ \A r \in rest : key < r
  BY <1>1, AtBulk
<1>3. PICK D, L, H, w : /\ Tree(dirs, leaves, D, L, H, w) /\ Way(dirs, H, path) /\ w.own = Top
                        /\ Grown(dirs[Top], e, w.slot, w.key, w.page)
                        /\ Chained(leaves, L, End)
                        /\ \A r \in rest : r \in L[NewPage(leaves) - 1]
  BY <1>1, AtBulking
<1>4. /\ Halves(e, dirs[Top], NewBranch, DirMax) /\ key = e.keys[DirMax + 1]
      /\ Len(NewBranch.keys) = 0
  BY <1>1, PushedHalves
<1>5. split' = [record |-> key, page |-> -n]
  BY <1>1 DEF IInv, Scalars, Split
<1> HIDE DEF n, e, key
<1>6. /\ IsFile(dirs') /\ n \in Nat /\ n \notin DOMAIN dirs /\ DOMAIN dirs' = DOMAIN dirs \cup {n}
      /\ dirs'[n] = NewBranch /\ \A c \in DOMAIN dirs : dirs'[c] = dirs[c]
  <2>1. IsAppended(dirs, NewBranch, dirs')
    BY <1>1, <1>2, AppendedFile
  <2> QED BY <1>2, <2>1, FileFacts DEF IsAppended, n
<1>7. DirPages(dirs, dirs', Top, dirs[Top], NewBranch, n)
  BY <1>2, <1>6 DEF DirPages
<1>8. /\ Way(dirs, H, Pop) /\ (\A i \in 1 .. Len(Pop) : Pop[i] # Top)
      /\ \E t : Parent(dirs, Pop[Len(Pop)], t, -Top)
  <2>1. H \in [DOMAIN dirs -> Nat]
    BY <1>3 DEF Tree, Ranges
  <2> QED BY <1>1, <1>3, <2>1, WayUp DEF Top, Pop
<1> DEFINE o == Pop[Len(Pop)]
<1>9. o # Top /\ o \in DOMAIN dirs /\ o \in Nat
  <2>1. Len(Pop) \in 1 .. Len(Pop)
    BY <1>8, WayTop
  <2> QED BY <1>8, <2>1, WayTop
<1>10. PICK t : Parent(dirs, o, t, -Top)
  BY <1>8
<1>11. w.own # -1
  BY <1>2, <1>3 DEF Tree, Ranges
<1>12. Lifted(dirs, dirs', leaves, L, H, o, t, e.keys[DirMax + 1], n)
  <2> HIDE DEF o
  <2>1. DirPages(dirs, dirs', w.own, dirs[Top], NewBranch, n) /\ w.own # 0
    BY <1>1, <1>3, <1>7
  <2>2. Grown(dirs[w.own], e, w.slot, w.key, w.page) /\ Parent(dirs, o, t, -w.own) /\ o # w.own
    BY <1>3, <1>9, <1>10
  <2> QED BY <1>3, <1>4, <1>11, <2>1, <2>2, CutGrown
<1>13. PICK E, G, u : /\ Tree(dirs', leaves', E, L, G, u) /\ u.own = o /\ u.key = key /\ u.page = -n
                      /\ \A c \in DOMAIN dirs : G[c] = H[c]
  <2>1. PICK E, G : /\ Tree(dirs', leaves, E, L, G, [own |-> o, slot |-> t, key |-> e.keys[DirMax + 1], page |-> -n])
                    /\ \A c \in DOMAIN dirs : G[c] = H[c]
    BY <1>12 DEF Lifted
  <2> DEFINE u == [own |-> o, slot |-> t, key |-> e.keys[DirMax + 1], page |-> -n]
  <2>2. u.own = o /\ u.key = key /\ u.page = -n
    BY <1>4
  <2>3. Tree(dirs', leaves', E, L, G, u)
    BY <1>1, <2>1
  <2> HIDE DEF u
  <2> QED BY <2>1, <2>2, <2>3
<1>14. Way(dirs', G, Pop)
  <2>1. DOMAIN dirs \subseteq DOMAIN dirs' /\ \A i \in 1 .. Len(Pop) : dirs'[Pop[i]] = dirs[Pop[i]]
    BY <1>6, <1>8 DEF Way
  <2> QED BY <1>8, <1>13, <2>1, WayStays
<1>15. Top' = o /\ path' = Pop
  BY <1>1 DEF Top
<1> HIDE DEF o
<1>16. key \in E[o] /\ u.own # -1
  <2>1. u.own # -1
    BY <1>9, <1>13
  <2> QED BY <1>13, <2>1, OwnerFacts
<1>17. Scalars'
  <2>1. split' \in Split
    BY <1>2, <1>5, <1>6 DEF Split
  <2> QED BY <1>1, <2>1 DEF IInv, Scalars
<1>18. Files' /\ Fresh'
  <2>1. \A p \in DOMAIN dirs' : Len(dirs'[p].keys) <= DirMax
    <3>1. \A p \in DOMAIN dirs : Len(dirs[p].keys) <= DirMax
      BY DEF IInv, Files
    <3>2. 0 <= DirMax
      BY RecordsAreNumbers
    <3> QED BY <1>4, <1>6, <3>1, <3>2
  <2> QED BY <1>1, <1>2, <1>6, <2>1 DEF Files, Fresh
<1>19. \A r : KeysBelow(dirs, r) => KeysBelow(dirs', r)
  <2>1. \A i \in 1 .. Len(NewBranch.keys) : FALSE
    BY <1>4
  <2> QED BY <1>6, <2>1 DEF KeysBelow
<1>20. Importing'
  <2>1. LastLeaf' = LastLeaf
    BY <1>1 DEF LastLeaf
  <2>2. split'.record = key
    BY <1>5
  <2>3. \A r \in rest : KeysBelow(dirs', r)
    BY <1>19 DEF IInv, Importing
  <2> QED BY <1>1, <1>2, <1>19, <2>1, <2>2, <2>3 DEF IInv, Importing
<1>21. Place(E, L, G, u)'
  <2>1. pc' = "bulk" /\ split'.record = key /\ split'.page = -n /\ rest' = rest /\ leaves' = leaves
    BY <1>1, <1>5
  <2>2. Way(dirs', G, path') /\ u.own = Top' /\ key \in E[Top']
    BY <1>13, <1>14, <1>15, <1>16
  <2>3. \A r \in rest' : r \in L[NewPage(leaves') - 1]
    BY <1>3, <2>1
  <2>4. Chained(leaves', L, End')
    BY <1>1, <1>3 DEF End
  <2> QED BY <1>13, <1>16, <2>1, <2>2, <2>3, <2>4 DEF Place
<1>22. Grows'
  BY <1>13, <1>21 DEF Grows
<1> QED BY <1>17, <1>18, <1>20, <1>22 DEF IInv

\* The tree with one leaf, in which everything may be.
LEMMA FirstTree ==
  ASSUME NEW l, Good(l), NEW ls, DOMAIN ls = {0}, ls[0] = l
  PROVE  Tree(FirstDirs, ls, [p \in {0} |-> Records], [p \in {0} |-> Records], [p \in {0} |-> 0], NoOwner)
<1> DEFINE ds == FirstDirs
           D == [p \in {0} |-> Records]
           L == [p \in {0} |-> Records]
           H == [p \in {0} |-> 0]
           w == NoOwner
           d == [keys |-> << >>, children |-> <<0>>]
<1>1. d.keys = << >> /\ d.children = <<0>> /\ d \in Dir
  <2>1. << >> \in Seq(Records) /\ <<0>> \in Seq(Int)
    OBVIOUS
  <2> QED BY <2>1 DEF Dir
<1>2. Len(<< >>) = 0 /\ Len(<<0>>) = 1 /\ <<0>>[1] = 0
  OBVIOUS
<1>3. DOMAIN ds = {0} /\ ds[0] = d
  BY DEF FirstDirs
<1> HIDE DEF d, ds
<1>4. /\ D[0] = Records /\ L[0] = Records /\ H[0] = 0 /\ DOMAIN D = {0} /\ w.own = -1
      /\ D \in [{0} -> SUBSET Records] /\ L \in [{0} -> SUBSET Records] /\ H \in [{0} -> Nat]
  BY DEF NoOwner
<1> HIDE DEF D, L, H, w
<1>5. Len(d.keys) = 0 /\ Len(d.children) = 1 /\ d.children[1] = 0
  BY <1>1, <1>2
<1>6. Dirs(ds, D)
  <2>1. \A i \in 1 .. Len(d.keys) : FALSE
    BY <1>5
  <2>2. \A p \in DOMAIN ds : ds[p] = d
    BY <1>3
  <2>3. Sorted(d.keys) /\ \A i \in 1 .. Len(d.keys) : d.keys[i] \in Records
    BY <2>1 DEF Sorted
  <2>4. Len(d.children) = Len(d.keys) + 1
    BY <1>5
  <2>5. \A p \in DOMAIN ds : D[p] = Records
    BY <1>3, <1>4
  <2> SUFFICES ASSUME NEW p \in DOMAIN ds
               PROVE  /\ ds[p] \in Dir /\ Len(ds[p].children) = Len(ds[p].keys) + 1
                      /\ Sorted(ds[p].keys)
                      /\ \A i \in 1 .. Len(ds[p].keys) : ds[p].keys[i] \in D[p]
    BY DEF Dirs
  <2>6. ds[p] = d /\ D[p] = Records
    BY <2>2, <2>5
  <2> HIDE DEF d
  <2>7. Len(ds[p].children) = Len(ds[p].keys) + 1 /\ ds[p] \in Dir
    BY <1>1, <2>4, <2>6
  <2>8. Sorted(ds[p].keys) /\ \A i \in 1 .. Len(ds[p].keys) : ds[p].keys[i] \in D[p]
    BY <2>3, <2>6
  <2> QED BY <2>7, <2>8
<1>7. LeavesOf(ls, L)
  <2>1. \A p \in DOMAIN ls : p = 0
    OBVIOUS
  <2> QED BY <1>4, <2>1 DEF LeavesOf, Good, Filled
<1>8. Ranges(ds, ls, D, L, H)
  <2>1. {0} \subseteq Nat
    OBVIOUS
  <2> QED BY <1>3, <1>4, <2>1 DEF Ranges
<1>9. \A i \in 0 .. Len(d.keys) : i = 0
  BY <1>5
<1>10. Routes(ds, D, L, w)
  <2> SUFFICES ASSUME NEW p \in DOMAIN ds, NEW r \in D[p], NEW i \in 0 .. Len(ds[p].keys)
               PROVE  r \in Under(D, L, Goes(w, p, i, r, ds[p].children[i + 1]))
    BY DEF Routes
  <2>1. p = 0 /\ i = 0 /\ ds[p].children[i + 1] = 0 /\ r \in Records
    BY <1>3, <1>4, <1>5, <1>9
  <2>2. Goes(w, p, i, r, ds[p].children[i + 1]) = 0
    BY <1>4, <2>1 DEF Goes
  <2>3. ~(0 < 0)
    OBVIOUS
  <2> QED BY <1>4, <2>1, <2>2, <2>3 DEF Under
<1>11. Exact(ds, D, L)
  <2> SUFFICES ASSUME NEW p \in DOMAIN ds, NEW i \in 0 .. Len(ds[p].keys),
                      NEW r \in Under(D, L, ds[p].children[i + 1])
               PROVE  r \in D[p] /\ Between(ds[p].keys, i, r)
    BY DEF Exact
  <2>1. p = 0 /\ i = 0 /\ ds[p].children[i + 1] = 0
    BY <1>3, <1>5, <1>9
  <2>2. Under(D, L, 0) = Records
    BY <1>4 DEF Under
  <2>3. Between(d.keys, 0, r)
    BY <1>5 DEF Between
  <2> QED BY <1>3, <1>4, <2>1, <2>2, <2>3
<1>12. Levels(ds, ls, H)
  <2> SUFFICES ASSUME NEW p \in DOMAIN ds
               PROVE  /\ \A i \in 1 .. Len(ds[p].keys) + 1 :
                           Exists(ds, ls, ds[p].children[i]) /\ H[p] = Above(H, ds[p].children[i])
                      /\ p # 0 => H[p] < H[0]
    BY DEF Levels
  <2>1. p = 0 /\ \A i \in 1 .. Len(ds[p].keys) + 1 : i = 1 /\ ds[p].children[i] = 0
    BY <1>3, <1>5
  <2>2. Exists(ds, ls, 0) /\ Above(H, 0) = 0
    BY DEF Exists, Above
  <2> QED BY <1>4, <2>1, <2>2
<1>13. Apart(ds, ls, D, L, H)
  BY <1>3 DEF Apart
<1>14. Owned(ds, ls, D, L, H, w)
  BY <1>4 DEF Owned
<1>15. Reached(ds, ls, w)
  <2>1. 1 \in 1 .. Len(ds[0].keys) + 1 /\ ds[0].children[1] = 0 /\ 0 \in DOMAIN ds
    BY <1>3, <1>5
  <2>2. \A c \in DOMAIN ls : c = 0
    OBVIOUS
  <2> QED BY <2>1, <2>2 DEF Reached
<1>16. Tree(ds, ls, D, L, H, w)
  BY <1>6, <1>7, <1>8, <1>10, <1>11, <1>12, <1>13, <1>14, <1>15 DEF Tree
<1> QED BY <1>16 DEF ds, D, L, H, w

\* Writing the first leaf of the import keeps the invariant.
LEMMA ImportFirstIInv ==
  ASSUME IInv, ImportLeaf, leaves = EmptyFile
  PROVE  IInv'
<1>1. /\ pc = "import" /\ leaves' = Appended(leaves, BlockLeaf) /\ rest' = rest \ Block
      /\ UNCHANGED <<pc, path, split, dirs, op, record, leaf, answer, misread, updates>>
  BY DEF ImportLeaf
<1>2. dirs = FirstDirs /\ path = << >> /\ IsFile(leaves) /\ IsFile(dirs)
  BY DEF IInv, Fresh, Files
<1>3. NewPage(leaves) = 0 /\ DOMAIN leaves = {}
  <2>1. NewPage(leaves) = 0
    BY <1>2, FileFacts
  <2> QED BY <2>1 DEF EmptyFile
<1>4. /\ Good(BlockLeaf) /\ Recs(BlockLeaf) = Block /\ Block \subseteq rest
      /\ (\A q \in Block, r \in rest \ Block : q < r) /\ rest \subseteq Records
      /\ rest # {} => BlockLeaf.value_count > 0
  BY <1>3, BlockFacts DEF IInv, Scalars, Good
<1>5. IsFile(leaves') /\ NewPage(leaves') = 1 /\ leaves' # EmptyFile /\ DOMAIN leaves' = {0}
      /\ leaves'[0] = BlockLeaf
  <2> DEFINE b == BlockLeaf
  <2>1. leaves' = Appended(leaves, b)
    BY <1>1
  <2> HIDE DEF b
  <2>2. IsAppended(leaves, b, leaves')
    BY <1>2, <2>1, AppendedFile
  <2>3. 0 + 1 = 1 /\ {} \cup {0} = {0}
    OBVIOUS
  <2> QED BY <1>3, <2>2, <2>3 DEF IsAppended, b
<1>6. Scalars'
  BY <1>1, <1>4 DEF IInv, Scalars
<1>7. Files' /\ Fresh'
  BY <1>1, <1>5 DEF IInv, Files, Fresh
<1>8. Importing'
  <2>0. rest' # {} => BlockLeaf.next_leaf = NewPage(leaves')
    <3>1. BlockLeaf.next_leaf = IF Block = rest THEN 0 ELSE 1
      BY <1>3 DEF BlockLeaf
    <3> QED BY <1>1, <1>5, <3>1
  <2>1. LastLeaf' = BlockLeaf
    <3>1. NewPage(leaves') - 1 = 0
      BY <1>5
    <3> QED BY <1>5, <3>1 DEF LastLeaf
  <2>2. rest' # {} => Block # {}
    <3>1. ASSUME rest # {} PROVE BlockLeaf.records[0] \in Recs(BlockLeaf)
      <4> DEFINE n == BlockLeaf.value_count
      <4>1. n \in Nat /\ n > 0
        BY <1>4, <3>1, GoodFacts
      <4> HIDE DEF n
      <4>2. 0 \in 0 .. n - 1
        BY <4>1
      <4> QED BY <4>2 DEF Recs, n
    <3> QED BY <1>1, <1>4, <3>1
  <2>3. \A r \in rest' : KeysBelow(dirs', r)
    BY <1>1, <1>4 DEF IInv, Importing
  <2>4. \A r \in rest' : \A x \in Block : x < r
    BY <1>1, <1>4
  <2> QED BY <1>1, <1>4, <2>0, <2>1, <2>2, <2>3, <2>4 DEF Importing
<1>9. Grows'
  <2> DEFINE D == [p \in {0} |-> Records]
             L == [p \in {0} |-> Records]
             H == [p \in {0} |-> 0]
  <2>1. Tree(FirstDirs, leaves', D, L, H, NoOwner)
    BY <1>4, <1>5, FirstTree
  <2>2. Tree(dirs', leaves', D, L, H, NoOwner)
    BY <1>1, <1>2, <2>1
  <2>3. \A r \in rest' : r \in L[NewPage(leaves') - 1]
    <3>1. NewPage(leaves') - 1 = 0
      BY <1>5
    <3> QED BY <1>1, <1>4, <3>1
  <2> HIDE DEF D, L, H
  <2>a. Chained(leaves', L, End')
    <3>1. BlockLeaf.next_leaf = IF Block = rest THEN 0 ELSE 1
      BY <1>3 DEF BlockLeaf
    <3>2. leaves'[0].next_leaf = End'
      BY <1>1, <1>4, <1>5, <3>1 DEF End
    <3>3. L[0] = Records
      BY DEF L
    <3>4. \A c \in DOMAIN leaves' : c = 0
      BY <1>5
    <3> QED BY <3>2, <3>3, <3>4 DEF Chained
  <2>4. PICK A, B, C, w : /\ Tree(dirs', leaves', A, B, C, w) /\ w = NoOwner
                          /\ Chained(leaves', B, End')
                          /\ \A r \in rest' : r \in B[NewPage(leaves') - 1]
    BY <2>2, <2>3, <2>a
  <2>5. Place(A, B, C, w)'
    BY <1>1, <1>2, <2>4 DEF Place
  <2> QED BY <2>4, <2>5 DEF Grows
<1> QED BY <1>6, <1>7, <1>8, <1>9 DEF IInv

\* Writing another leaf keeps the invariant: it waits for bulk_insert.
LEMMA ImportNextIInv ==
  ASSUME IInv, ImportLeaf, leaves # EmptyFile
  PROVE  IInv'
<1> DEFINE a == NewPage(leaves)
           p == a - 1
           b == BlockLeaf
           key == BlockLeaf.records[0]
<1>1. /\ pc = "import" /\ leaves' = Appended(leaves, b) /\ rest' = rest \ Block /\ rest # {}
      /\ split' = [record |-> key, page |-> a] /\ path' = <<0>> /\ pc' = "bulk"
      /\ UNCHANGED <<dirs, op, record, leaf, answer, misread, updates>>
  BY DEF ImportLeaf
<1>2. PICK D, L, H, w : Tree(dirs, leaves, D, L, H, w) /\ Place(D, L, H, w)
  BY DEF IInv, Grows
<1>3. w = NoOwner /\ \A r \in rest : r \in L[p]
  BY <1>1, <1>2 DEF Place
<1>4. /\ IsFile(leaves) /\ IsFile(dirs) /\ a \in Nat /\ a > 0 /\ a \notin DOMAIN leaves /\ DOMAIN leaves = 0 .. a - 1
  BY FileFacts DEF IInv, Files
<1>5. p \in DOMAIN leaves
  BY <1>4
<1>6. /\ Good(b) /\ Recs(b) = Block /\ Block \subseteq rest /\ rest \subseteq Records
      /\ (\A q \in Block, r \in rest \ Block : q < r) /\ b.value_count > 0
  BY <1>1, <1>4, BlockFacts DEF IInv, Scalars, Good
<1>7. key \in Block /\ \A x \in Block : key <= x
  <2> DEFINE n == b.value_count
  <2>1. n \in Nat /\ n > 0 /\ InOrder(b) /\ Recs(b) \subseteq Nat
    BY <1>6, GoodFacts
  <2>2. \A i, j \in 0 .. n - 1 : i < j => b.records[i] < b.records[j]
    BY <2>1 DEF InOrder
  <2>3. Recs(b) = {b.records[i] : i \in 0 .. n - 1}
    BY DEF Recs
  <2> HIDE DEF n, b
  <2>4. 0 \in 0 .. n - 1
    BY <2>1
  <2>5. b.records[0] \in Recs(b)
    BY <2>3, <2>4
  <2>6. \A x \in Recs(b) : b.records[0] <= x
    <3> TAKE x \in Recs(b)
    <3>1. PICK i \in 0 .. n - 1 : x = b.records[i]
      BY <2>3
    <3>2. i = 0 \/ 0 < i
      OBVIOUS
    <3> QED BY <2>1, <2>2, <2>4, <2>5, <3>1, <3>2
  <2> QED BY <1>6, <2>5, <2>6 DEF b
<1>8. /\ Recs(leaves[p]) # {} /\ leaves[p].next_leaf = a /\ \A r \in rest : \A x \in Recs(leaves[p]) : x < r
  BY <1>1 DEF IInv, Importing, LastLeaf
<1>9. /\ Good(leaves[p]) /\ Recs(leaves[p]) \subseteq L[p] /\ L[p] \subseteq Records
  BY <1>2, <1>5, TreeLeaves
<1>9a. b.next_leaf = IF rest' = {} THEN 0 ELSE a + 1
  <2>1. b.next_leaf = IF Block = rest THEN 0 ELSE a + 1
    BY DEF BlockLeaf
  <2> QED BY <1>1, <1>6, <2>1
<1> HIDE DEF b, key, p
<1>10. /\ IsFile(leaves') /\ NewPage(leaves') = a + 1 /\ leaves' # EmptyFile
       /\ DOMAIN leaves' = DOMAIN leaves \cup {a} /\ leaves'[a] = b
       /\ \A c \in DOMAIN leaves : leaves'[c] = leaves[c]
  <2>1. IsAppended(leaves, b, leaves')
    BY <1>1, <1>4, AppendedFile
  <2> QED BY <2>1 DEF IsAppended
<1>11. PICK o, t : Parent(dirs, o, t, p)
  <2>0. PICK o \in DOMAIN dirs : \E i \in 1 .. Len(dirs[o].keys) + 1 : dirs[o].children[i] = p
    BY <1>2, <1>3, <1>5 DEF Tree, Reached, NoOwner
  <2>1. PICK i \in 1 .. Len(dirs[o].keys) + 1 : dirs[o].children[i] = p
    BY <2>0
  <2>2. Len(dirs[o].keys) \in Nat
    BY <1>2, DirTypes DEF Tree, Dirs
  <2>3. i - 1 \in 0 .. Len(dirs[o].keys) /\ (i - 1) + 1 = i
    BY <2>2
  <2>4. Parent(dirs, o, i - 1, p)
    BY <2>1, <2>3 DEF Parent
  <2> QED BY <2>4
<1> HIDE DEF a
<1>12. /\ key \in L[p] /\ (\E x \in L[p] : x < key)
       /\ leaves'[p] \in Leaf /\ InOrder(leaves'[p]) /\ leaves'[a] \in Leaf /\ InOrder(leaves'[a])
       /\ \A i \in 0 .. leaves'[p].value_count - 1 : leaves'[p].records[i] \in {x \in L[p] : x < key}
       /\ \A i \in 0 .. leaves'[a].value_count - 1 : leaves'[a].records[i] \in {x \in L[p] : key <= x}
  <2>1. \A i \in 0 .. leaves[p].value_count - 1 : leaves[p].records[i] \in Recs(leaves[p])
    BY DEF Recs
  <2>2. \A i \in 0 .. b.value_count - 1 : b.records[i] \in Recs(b)
    BY DEF Recs
  <2> QED BY <1>3, <1>5, <1>6, <1>7, <1>8, <1>9, <1>10, <2>1, <2>2 DEF Good
<1> DEFINE v == [own |-> o, slot |-> t, key |-> key, page |-> a]
           M == Divided(L, p, a, key)
<1>13. Tree(dirs, leaves', D, M, H, v)
  BY <1>2, <1>3, <1>4, <1>5, <1>10, <1>11, <1>12, CutLeaf
<1>14. v.own # -1 /\ v.key = key /\ v.page = a
  BY <1>2, <1>11 DEF Parent, Tree, Ranges
<1>15. M[a] = {x \in L[p] : key <= x}
  BY DEF Divided
<1> HIDE DEF v, M
<1>16. \A r \in rest' : r \in M[a] /\ key < r
  <2> SUFFICES ASSUME NEW r \in rest'
               PROVE  r \in M[a] /\ key < r
    OBVIOUS
  <2>1. r \in rest \ Block /\ r \in L[p] /\ r \in Nat /\ key \in Nat
    BY <1>1, <1>3, <1>6, <1>7, RecordsAreNumbers
  <2>2. key < r
    BY <1>6, <1>7, <2>1
  <2> QED BY <1>15, <2>1, <2>2
<1>16a. Chained(leaves', Divided(L, p, a, key), End')
  <2> DEFINE last == IF rest' = {} THEN 0 ELSE a + 1
  <2>1. DOMAIN L = DOMAIN leaves /\ \A c \in DOMAIN leaves : L[c] \subseteq Records
    BY <1>2 DEF Tree, Ranges
  <2>2. Chained(leaves, L, a)
    BY <1>1, <1>2 DEF Place, End, a
  <2>3. a # 0 /\ last # a /\ (last = 0 \/ last \notin DOMAIN leaves')
    BY <1>4, <1>10
  <2>4. /\ \A c \in DOMAIN leaves : c # p => leaves'[c].next_leaf = leaves[c].next_leaf
        /\ leaves'[p].next_leaf = a /\ leaves[p].next_leaf = a
    BY <1>5, <1>8, <1>10
  <2>5. leaves'[a].next_leaf = last
    BY <1>9a, <1>10
  <2>6. End' = last
    BY <1>10 DEF End
  <2> HIDE DEF last
  <2>7. leaves'[a].next_leaf = IF leaves[p].next_leaf = a THEN last ELSE leaves[p].next_leaf
    BY <2>4, <2>5
  <2>8. Chained(leaves', Divided(L, p, a, key), last)
    BY <1>4, <1>5, <1>10, <1>12, <2>1, <2>2, <2>3, <2>4, <2>7, CutChain
  <2> QED BY <2>6, <2>8
<1>17. Scalars'
  <2>1. split' \in Split
    BY <1>1, <1>4, <1>6, <1>7 DEF Split
  <2> QED BY <1>1, <2>1 DEF IInv, Scalars
<1>18. Files' /\ Fresh'
  BY <1>1, <1>10 DEF IInv, Files, Fresh
<1>19. (NewPage(leaves') - 1) = a
  BY <1>4, <1>10
<1>20. Importing'
  <2>1. LastLeaf' = b
    BY <1>10, <1>19 DEF LastLeaf
  <2>2. \A r \in rest : KeysBelow(dirs', r)
    BY <1>1 DEF IInv, Importing
  <2>3. split'.record = key
    BY <1>1
  <2>4. rest' # {} => b.next_leaf = NewPage(leaves')
    BY <1>9a, <1>10
  <2> QED BY <1>1, <1>6, <1>7, <1>16, <2>4, <2>1, <2>2, <2>3 DEF Importing
<1>21. Grows'
  <2>1. Tree(dirs', leaves', D, M, H, v) /\ Way(dirs', H, path') /\ Top' = 0
    BY <1>1, <1>13, WayStarts, TopOfOne DEF Top
  <2>2. split'.record = key /\ split'.page = a /\ ~(a < 0) /\ key \in D[0]
    BY <1>1, <1>2, <1>4, <1>6, <1>7 DEF Tree, Ranges
  <2>3. \A r \in rest' : r \in M[NewPage(leaves') - 1]
    BY <1>16, <1>19
  <2>4. PICK A, B, C, x : /\ Tree(dirs', leaves', A, B, C, x) /\ Way(dirs', C, path')
                          /\ x.own # -1 /\ x.key = key /\ x.page = a /\ key \in A[0]
                          /\ \A r \in rest' : r \in B[NewPage(leaves') - 1]
                          /\ Chained(leaves', B, End')
    BY <1>14, <1>16a, <2>1, <2>2, <2>3 DEF M
  <2>5. Place(A, B, C, x)'
    BY <1>1, <2>1, <2>2, <2>4 DEF Place
  <2> QED BY <2>4, <2>5 DEF Grows
<1> QED BY <1>17, <1>18, <1>20, <1>21 DEF IInv

\* The invariant.
LEMMA NextIInv ==
  ASSUME IInv, [Next]_vars
  PROVE  IInv'
<1>1. CASE UNCHANGED vars
  <2>1. UNCHANGED <<dirs, leaves, rest, pc, op, record, path, leaf, split, answer, misread, updates>>
    BY <1>1 DEF vars, treeVars, callVars
  <2>2. Scalars' /\ Files' /\ Fresh'
    BY <2>1 DEF IInv, Scalars, Files, Fresh
  <2>3. Importing' /\ Grows'
    BY <2>1 DEF IInv, Importing, Grows, Place, LastLeaf, Top, End
  <2> QED BY <2>2, <2>3 DEF IInv
<1>2. CASE ImportLeaf
  BY <1>2, ImportFirstIInv, ImportNextIInv
<1>3. CASE BulkDescend \/ BulkFits \/ BulkSplitDir \/ BulkSplitRoot \/ EndImport
  BY <1>3, BulkDescendIInv, BulkFitsIInv, BulkSplitDirIInv, BulkSplitRootIInv, EndImportIInv
<1>4. CASE (\E o \in {"insert", "delete"}, r \in Records : Call(o, r)) \/ Descend
  BY <1>4, CallIInv, DescendIInv
<1>5. CASE InsertFirst \/ InsertDuplicate \/ InsertFits \/ InsertSplits \/ DeleteFound \/ DeleteMissing
  BY <1>5, InsertFirstIInv, UnchangedLeafIInv, InsertFitsIInv, InsertSplitsIInv, DeleteFoundIInv
<1>6. CASE DirFits \/ RootSplits \/ DirSplits
  BY <1>6, DirFitsIInv, RootSplitsIInv, DirSplitsIInv
<1> QED BY <1>1, <1>2, <1>3, <1>4, <1>5, <1>6 DEF Next

\* The tree that import, inserts and deletes make is a search tree at
\* every step.
THEOREM Invariance == Spec => []IInv
<1>1. Init => IInv
  BY InitIInv
<1>2. IInv /\ [Next]_vars => IInv'
  BY NextIInv
<1> QED BY <1>1, <1>2, PTL DEF Spec

-----------------------------------------------------------------------------
(* Types.                                                                  *)

\* Pages of a file, as TypeOK has them.
LEMMA PagesAreNumbered ==
  ASSUME NEW f, IsFile(f)
  PROVE  Pages(f) = 0 .. NewPage(f) - 1
BY FileFacts DEF Pages

\* The invariant implies the type invariant.
LEMMA IInvImpliesTypeOK ==
  ASSUME IInv
  PROVE  TypeOK
<1>1. Pages(dirs) = 0 .. NewPage(dirs) - 1 /\ Pages(leaves) = 0 .. NewPage(leaves) - 1
  BY PagesAreNumbered DEF IInv, Files
<1>2. CASE leaves = EmptyFile
  <2>1. dirs = FirstDirs /\ path = << >> /\ DOMAIN leaves = {}
    BY <1>2 DEF IInv, Fresh, EmptyFile
  <2>2. DOMAIN dirs = {0} /\ dirs[0] = [keys |-> << >>, children |-> <<0>>]
    BY <2>1 DEF FirstDirs
  <2> DEFINE d == dirs[0]
  <2>3. d.keys = << >> /\ d.children = <<0>> /\ d \in Dir
    <3>1. << >> \in Seq(Records) /\ <<0>> \in Seq(Int)
      OBVIOUS
    <3> QED BY <2>2, <3>1 DEF Dir
  <2>4. Len(<< >>) = 0 /\ Len(<<0>>) = 1 /\ <<0>>[1] = 0 /\ DOMAIN <<0>> = {1}
    OBVIOUS
  <2>5. 0 <= DirMax
    BY RecordsAreNumbers
  <2> HIDE DEF d
  <2>6. /\ d \in Dir /\ Len(d.keys) <= DirMax /\ Len(d.children) = Len(d.keys) + 1
        /\ DOMAIN d.children = {1} /\ d.children[1] = 0
    BY <2>3, <2>4, <2>5
  <2>7. << >> \in Seq(Pages(dirs))
    OBVIOUS
  <2>8. ASSUME NEW p \in Pages(dirs)
        PROVE  /\ dirs[p] \in Dir /\ Len(dirs[p].keys) <= DirMax
               /\ Len(dirs[p].children) = Len(dirs[p].keys) + 1
               /\ \A i \in DOMAIN dirs[p].children :
                    LET c == dirs[p].children[i]
                    IN  IF c < 0 THEN -c \in Pages(dirs)
                        ELSE c \in Pages(leaves) \/ leaves = EmptyFile
    <3>1. p = 0 /\ dirs[p] = d
      BY <2>2, <2>8 DEF Pages, d
    <3>2. ~(0 < 0)
      OBVIOUS
    <3> QED BY <1>2, <2>6, <3>1, <3>2
  <2>9. 0 \in Pages(dirs) /\ \A p \in Pages(leaves) : leaves[p] \in Leaf
    BY <2>1, <2>2 DEF Pages
  <2> QED BY <1>1, <2>1, <2>7, <2>8, <2>9 DEF TypeOK, IInv, Scalars
<1>3. CASE leaves # EmptyFile
  <2>1. PICK D, L, H, w : Tree(dirs, leaves, D, L, H, w) /\ Place(D, L, H, w)
    BY <1>3 DEF IInv, Grows
  <2>2. 0 \in Pages(dirs) /\ \A p \in Pages(leaves) : leaves[p] \in Leaf
    BY <2>1 DEF Tree, Ranges, LeavesOf, Pages
  <2>3. ASSUME NEW p \in Pages(dirs)
        PROVE  /\ dirs[p] \in Dir /\ Len(dirs[p].keys) <= DirMax
               /\ Len(dirs[p].children) = Len(dirs[p].keys) + 1
               /\ \A i \in DOMAIN dirs[p].children :
                    LET c == dirs[p].children[i]
                    IN  IF c < 0 THEN -c \in Pages(dirs)
                        ELSE c \in Pages(leaves) \/ leaves = EmptyFile
    <3>1. dirs[p] \in Dir /\ Len(dirs[p].children) = Len(dirs[p].keys) + 1 /\ Len(dirs[p].keys) <= DirMax
      BY <2>1, <2>3 DEF Tree, Dirs, IInv, Files, Pages
    <3>2. DOMAIN dirs[p].children = 1 .. Len(dirs[p].keys) + 1
      <4>1. dirs[p].children \in Seq(Int)
        BY <3>1, DirTypes
      <4> QED BY <3>1, <4>1
    <3>3. \A i \in 1 .. Len(dirs[p].keys) + 1 : Exists(dirs, leaves, dirs[p].children[i])
      BY <2>1, <2>3 DEF Tree, Levels, Pages
    <3> QED BY <3>1, <3>2, <3>3 DEF Exists, Pages
  <2>4. path \in Seq(Pages(dirs))
    <3>1. CASE path = << >>
      BY <3>1
    <3>2. CASE Way(dirs, H, path)
      <4>1. path \in Seq(Nat) /\ \A i \in 1 .. Len(path) : path[i] \in DOMAIN dirs
        BY <3>2 DEF Way
      <4> QED BY <4>1 DEF Pages
    <3> QED BY <2>1, <3>1, <3>2 DEF Place
  <2> QED BY <1>1, <2>2, <2>3, <2>4 DEF TypeOK, IInv, Scalars
<1> QED BY <1>2, <1>3

\* The type invariant holds always, for every size of page and every
\* set of records.
THEOREM TypeCorrect == Spec => []TypeOK
<1>1. IInv => TypeOK
  BY IInvImpliesTypeOK
<1> QED BY <1>1, Invariance, PTL

-----------------------------------------------------------------------------
(* Searches from the root.                                                 *)

\* The recursion of Branch.
DownStep(ds, r, f, p) ==
  LET c == Child(ds[p], r)
  IN  IF c < 0 THEN <<p>> \o f[-c] ELSE <<p>>
DownOf(ds, r) == CHOOSE f : f = [p \in Pages(ds) |-> DownStep(ds, r, f, p)]

\* Branch is the recursive function of the descent from the root.
LEMMA BranchGoesDown ==
  ASSUME NEW r
  PROVE  Branch(r) = DownOf(dirs, r)[0]
BY DEF Branch, DownOf, DownStep

\* The child that a search goes to.
LEMMA ChildOfSearch ==
  ASSUME NEW ds, NEW ls, NEW D, NEW L, NEW H, Tree(ds, ls, D, L, H, NoOwner),
         \A q \in DOMAIN ds : Len(ds[q].keys) <= DirMax,
         NEW p \in DOMAIN ds, NEW r \in Records
  PROVE  LET c == Child(ds[p], r)
         IN  /\ c \in Int /\ Exists(ds, ls, c) /\ H[p] = Above(H, c) /\ H[p] \in Nat
             /\ r \in D[p] => r \in Under(D, L, c)
<1> DEFINE i == SearchChildIndex(ds[p], r)
<1>1. ds[p] \in Dir /\ r \in Nat
  BY RecordsAreNumbers DEF Tree, Dirs
<1>2. i \in 0 .. Len(ds[p].keys) /\ Between(ds[p].keys, i, r)
  BY <1>1, ChildIs
<1> HIDE DEF i
<1> DEFINE c == ds[p].children[i + 1]
<1>3. c \in Int /\ Exists(ds, ls, c) /\ H[p] = Above(H, c) /\ H[p] \in Nat
  BY <1>2, ChildFacts
<1>4. r \in D[p] => r \in Under(D, L, c)
  BY <1>2, Routed
<1> QED BY <1>3, <1>4 DEF Child, i

\* That function solves its recursive equation: the height falls.
LEMMA DownStepOf ==
  ASSUME NEW ds, NEW ls, NEW D, NEW L, NEW H, Tree(ds, ls, D, L, H, NoOwner),
         \A q \in DOMAIN ds : Len(ds[q].keys) <= DirMax,
         NEW r \in Records, NEW p \in DOMAIN ds
  PROVE  DownOf(ds, r)[p] = DownStep(ds, r, DownOf(ds, r), p)
<1> DEFINE Solves(f, n) == \A q \in DOMAIN ds : H[q] < n => f[q] = DownStep(ds, r, f, q)
           K == {n \in Nat : \E f : Solves(f, n)}
<1>1. ASSUME NEW f, NEW g, NEW q \in DOMAIN ds,
             \A o \in DOMAIN ds : H[o] < H[q] => f[o] = g[o]
      PROVE  DownStep(ds, r, f, q) = DownStep(ds, r, g, q)
  <2> DEFINE c == Child(ds[q], r)
  <2>1. c \in Int /\ Exists(ds, ls, c) /\ H[q] = Above(H, c) /\ H[q] \in Nat
    BY ChildOfSearch
  <2> HIDE DEF c
  <2>2. c < 0 => -c \in DOMAIN ds /\ H[-c] < H[q]
    <3>1. H \in [DOMAIN ds -> Nat]
      BY DEF Tree, Ranges
    <3> QED BY <2>1, <3>1 DEF Exists, Above
  <2>3. c < 0 => f[-c] = g[-c]
    BY <1>1, <2>2
  <2> QED BY <2>3 DEF DownStep, c
<1>2. \A q \in DOMAIN ds : H[q] \in Nat /\ H[q] <= H[0] /\ H[0] \in Nat
  <2>1. H \in [DOMAIN ds -> Nat] /\ 0 \in DOMAIN ds /\ \A q \in DOMAIN ds : q # 0 => H[q] < H[0]
    BY DEF Tree, Ranges, Levels
  <2> QED BY <2>1
<1>3. 0 \in K
  <2>1. Solves(0, 0)
    BY <1>2
  <2> QED BY <2>1
<1>4. ASSUME NEW n \in Nat, n \in K PROVE n + 1 \in K
  <2>1. PICK f : Solves(f, n)
    BY <1>4
  <2> DEFINE g == [q \in DOMAIN ds |-> IF H[q] < n THEN f[q] ELSE DownStep(ds, r, f, q)]
  <2>2. \A q \in DOMAIN ds : H[q] < n => g[q] = f[q]
    OBVIOUS
  <2>3. \A q \in DOMAIN ds : ~(H[q] < n) => g[q] = DownStep(ds, r, f, q)
    OBVIOUS
  <2> HIDE DEF g
  <2>4. ASSUME NEW q \in DOMAIN ds, H[q] < n + 1 PROVE g[q] = DownStep(ds, r, g, q)
    <3>1. \A o \in DOMAIN ds : H[o] < H[q] => f[o] = g[o]
      BY <1>2, <2>2, <2>4
    <3>2. DownStep(ds, r, f, q) = DownStep(ds, r, g, q)
      BY <1>1, <3>1
    <3>3. CASE H[q] < n
      <4>1. g[q] = f[q] /\ f[q] = DownStep(ds, r, f, q)
        BY <2>1, <2>2, <3>3
      <4> QED BY <3>2, <4>1
    <3>4. CASE ~(H[q] < n)
      <4>1. g[q] = DownStep(ds, r, f, q)
        BY <2>3, <3>4
      <4> QED BY <3>2, <4>1
    <3> QED BY <3>3, <3>4
  <2>5. Solves(g, n + 1)
    BY <2>4
  <2> HIDE DEF Solves
  <2>6. \E h : Solves(h, n + 1)
    BY <2>5
  <2> QED BY <2>6
<1>5. PICK f : Solves(f, H[0] + 1)
  <2> HIDE DEF K
  <2>1. \A n \in Nat : n \in K
    BY <1>3, <1>4, AllNumbers
  <2>2. H[0] + 1 \in Nat
    BY <1>2
  <2> QED BY <2>1, <2>2 DEF K
<1> DEFINE g == [q \in DOMAIN ds |-> f[q]]
<1>6. ASSUME NEW q \in DOMAIN ds PROVE g[q] = DownStep(ds, r, g, q)
  <2>1. H[q] < H[0] + 1
    BY <1>2
  <2>2. DownStep(ds, r, f, q) = DownStep(ds, r, g, q)
    BY <1>1
  <2> QED BY <1>5, <2>1, <2>2
<1>7. g = [q \in DOMAIN ds |-> DownStep(ds, r, g, q)]
  BY <1>6
<1> HIDE DEF g
<1>8. DownOf(ds, r) = [q \in DOMAIN ds |-> DownStep(ds, r, DownOf(ds, r), q)]
  BY <1>7 DEF DownOf, Pages
<1> QED BY <1>8

\* Where the branch from a directory ends.
Ends(ds, L, H, r, b, p) ==
  /\ b \in Seq(Nat) /\ Len(b) = H[p] + 1
  /\ b[Len(b)] \in DOMAIN ds
  /\ Child(ds[b[Len(b)]], r) >= 0 /\ r \in L[Child(ds[b[Len(b)]], r)]

\* From a directory whose range has the record the descent ends above its leaf,
\* as many levels down as the height.
LEMMA DownEnds ==
  ASSUME NEW ds, NEW ls, NEW D, NEW L, NEW H, Tree(ds, ls, D, L, H, NoOwner),
         \A q \in DOMAIN ds : Len(ds[q].keys) <= DirMax, NEW r \in Records
  PROVE  \A p \in DOMAIN ds : r \in D[p] => Ends(ds, L, H, r, DownOf(ds, r)[p], p)
<1> DEFINE f == DownOf(ds, r)
           Done(n) == \A p \in DOMAIN ds : r \in D[p] /\ H[p] < n => Ends(ds, L, H, r, f[p], p)
           K == {n \in Nat : Done(n)}
<1>1. H \in [DOMAIN ds -> Nat] /\ DOMAIN ds \subseteq Nat
  BY DEF Tree, Ranges
<1>2. 0 \in K
  BY <1>1
<1>3. ASSUME NEW n \in Nat, n \in K PROVE n + 1 \in K
  <2>1. ASSUME NEW p \in DOMAIN ds, r \in D[p], H[p] < n + 1
        PROVE  Ends(ds, L, H, r, f[p], p)
    <3> DEFINE c == Child(ds[p], r)
    <3>1. c \in Int /\ Exists(ds, ls, c) /\ H[p] = Above(H, c) /\ H[p] \in Nat /\ r \in Under(D, L, c)
      BY <2>1, ChildOfSearch
    <3>2. f[p] = DownStep(ds, r, f, p)
      BY DownStepOf
    <3> HIDE DEF f, c
    <3>3. CASE c < 0
      <4> DEFINE b == f[-c]
      <4>1. -c \in DOMAIN ds /\ H[p] = H[-c] + 1 /\ H[-c] \in Nat /\ r \in D[-c]
        BY <1>1, <3>1, <3>3 DEF Exists, Above, Under
      <4>2. H[-c] < n
        BY <2>1, <4>1
      <4>3. Ends(ds, L, H, r, b, -c)
        BY <1>3, <4>1, <4>2
      <4>4. f[p] = <<p>> \o b
        BY <3>2, <3>3 DEF DownStep, c
      <4> HIDE DEF b
      <4>5. b \in Seq(Nat) /\ Len(b) = H[-c] + 1 /\ p \in Nat
        BY <1>1, <4>3 DEF Ends
      <4>6. f[p] \in Seq(Nat) /\ Len(f[p]) = Len(b) + 1 /\ f[p][Len(f[p])] = b[Len(b)]
        <5>1. <<p>> \in Seq(Nat) /\ Len(<<p>>) = 1
          BY <4>5
        <5>2. Len(b) \in Nat \ {0}
          BY <4>1, <4>5
        <5> QED BY <4>4, <4>5, <5>1, <5>2, ConcatProperties
      <4> QED BY <4>1, <4>3, <4>5, <4>6 DEF Ends
    <3>4. CASE ~(c < 0)
      <4>1. f[p] = <<p>>
        BY <3>2, <3>4 DEF DownStep, c
      <4>2. H[p] = 0 /\ r \in L[c] /\ c >= 0
        BY <3>1, <3>4 DEF Above, Under
      <4>3. <<p>> \in Seq(Nat) /\ Len(<<p>>) = 1 /\ <<p>>[1] = p
        BY <1>1
      <4> QED BY <4>1, <4>2, <4>3 DEF Ends, c
    <3> QED BY <3>3, <3>4
  <2>2. Done(n + 1)
    BY <2>1
  <2> QED BY <2>2
<1>4. ASSUME NEW p \in DOMAIN ds, r \in D[p]
      PROVE  Ends(ds, L, H, r, f[p], p)
  <2>1. \A n \in Nat : n \in K
    <3> HIDE DEF K
    <3> QED BY <1>2, <1>3, AllNumbers
  <2>2. H[p] + 1 \in Nat /\ H[p] < H[p] + 1
    BY <1>1
  <2>3. Done(H[p] + 1)
    BY <2>1, <2>2
  <2> QED BY <1>4, <2>2, <2>3
<1> QED BY <1>4

\* A search for a record ends in the leaf of its range.
LEMMA SearchEnds ==
  ASSUME NEW D, NEW L, NEW H, Tree(dirs, leaves, D, L, H, NoOwner), IInv, NEW r \in Records
  PROVE  /\ Len(Branch(r)) = H[0] + 1
         /\ SearchLeaf(r) \in DOMAIN leaves /\ r \in L[SearchLeaf(r)]
<1> DEFINE b == Branch(r)
           e == b[Len(b)]
<1>1. \A q \in DOMAIN dirs : Len(dirs[q].keys) <= DirMax
  BY DEF IInv, Files
<1>2. 0 \in DOMAIN dirs /\ r \in D[0]
  BY DEF Tree, Ranges
<1>3. Ends(dirs, L, H, r, b, 0)
  BY <1>1, <1>2, DownEnds, BranchGoesDown
<1> HIDE DEF b
<1>4. Len(b) = H[0] + 1 /\ e \in DOMAIN dirs /\ Child(dirs[e], r) >= 0 /\ r \in L[Child(dirs[e], r)]
  BY <1>3 DEF Ends
<1> HIDE DEF e
<1>5. Child(dirs[e], r) \in Int /\ Exists(dirs, leaves, Child(dirs[e], r))
  BY <1>1, <1>4, ChildOfSearch
<1>6. Child(dirs[e], r) \in DOMAIN leaves
  BY <1>4, <1>5 DEF Exists
<1> QED BY <1>4, <1>6 DEF SearchLeaf, b, e

\* The invariant implies that every record is where a search for it ends.
LEMMA IInvImpliesSearchable ==
  ASSUME IInv
  PROVE  TreeIsSearchable
<1> SUFFICES ASSUME pc = "idle"
             PROVE  /\ \A p \in Pages(leaves) : \A i \in Used(p) :
                         SearchLeaf(leaves[p].records[i]) = p
                         /\ SearchIndex(leaves[p], leaves[p].records[i]) = i
                    /\ \A r, q \in Records : Len(Branch(r)) = Len(Branch(q))
  BY DEF TreeIsSearchable
<1>1. PICK D, L, H, w : Tree(dirs, leaves, D, L, H, w) /\ Place(D, L, H, w)
  BY DEF IInv, Grows, Fresh
<1>2. Tree(dirs, leaves, D, L, H, NoOwner)
  BY <1>1 DEF Place
<1>3. \A r, q \in Records : Len(Branch(r)) = Len(Branch(q))
  BY <1>2, SearchEnds
<1>4. ASSUME NEW p \in DOMAIN leaves, NEW i \in 0 .. leaves[p].value_count - 1
      PROVE  /\ SearchLeaf(leaves[p].records[i]) = p
             /\ SearchIndex(leaves[p], leaves[p].records[i]) = i
  <2> DEFINE r == leaves[p].records[i]
  <2>1. Good(leaves[p]) /\ Recs(leaves[p]) \subseteq L[p] /\ L[p] \subseteq Records
    BY <1>2, TreeLeaves
  <2>2. r \in L[p] /\ r \in Records
    BY <2>1 DEF Recs
  <2>3. SearchIndex(leaves[p], r) = i
    BY <2>1, Found DEF Good
  <2> HIDE DEF r
  <2>4. SearchLeaf(r) \in DOMAIN leaves /\ r \in L[SearchLeaf(r)]
    BY <1>2, <2>2, SearchEnds
  <2>5. SearchLeaf(r) = p
    BY <1>2, <2>2, <2>4 DEF Tree, Apart
  <2> QED BY <2>3, <2>5 DEF r
<1> QED BY <1>3, <1>4 DEF Pages, Used

\* Between operations a search for a stored record ends at it
\* (bplus_tree_dir.cc and bplus_tree_leaf.cc split without losing any).
THEOREM Searchable == Spec => []TreeIsSearchable
<1>1. IInv => TreeIsSearchable
  BY IInvImpliesSearchable
<1> QED BY <1>1, Invariance, PTL

-----------------------------------------------------------------------------
(* What is stored.                                                         *)

\* What is stored is what is in a leaf.
LEMMA StoredIs ==
  /\ \A x : x \in Stored <=> \E p \in DOMAIN leaves : x \in Recs(leaves[p])
  /\ \A x : x \in Contents <=> x \in Stored \/ x \in rest
BY DEF Stored, Used, Recs, Pages, Contents

\* The same of the next state.
LEMMA StoredIsNext ==
  /\ \A x : x \in Stored' <=> \E p \in DOMAIN leaves' : x \in Recs(leaves'[p])
  /\ \A x : x \in Contents' <=> x \in Stored' \/ x \in rest'
BY DEF Stored, Used, Recs, Pages, Contents

\* At a leaf the record is there or nowhere.
LEMMA StoredHere ==
  ASSUME IInv, pc = "leaf"
  PROVE  record \in Contents <=> record \in Recs(This)
<1>1. leaf \in DOMAIN leaves /\ rest = {} /\ \A c \in DOMAIN leaves : c # leaf => record \notin Recs(leaves[c])
  BY AtLeaf
<1> QED BY <1>1, StoredIs DEF This

\* The leaf becomes m.
LEMMA StoredBy ==
  ASSUME IInv, pc = "leaf", NEW m, leaves' = [leaves EXCEPT ![leaf] = m], rest' = rest
  PROVE  /\ Recs(m) = Recs(This) \cup {record} => Contents' = Contents \cup {record}
         /\ Recs(m) = Recs(This) \ {record} => Contents' = Contents \ {record}
<1>1. leaf \in DOMAIN leaves /\ rest = {} /\ \A c \in DOMAIN leaves : c # leaf => record \notin Recs(leaves[c])
  BY AtLeaf
<1>2. DOMAIN leaves' = DOMAIN leaves /\ leaves'[leaf] = m /\ \A c \in DOMAIN leaves : c # leaf => leaves'[c] = leaves[c]
  BY <1>1
<1>3. \A x : x \in Contents' <=> x \in Recs(m) \/ \E c \in DOMAIN leaves : c # leaf /\ x \in Recs(leaves[c])
  BY <1>1, <1>2, StoredIsNext
<1>4. \A x : x \in Contents <=> x \in Recs(This) \/ \E c \in DOMAIN leaves : c # leaf /\ x \in Recs(leaves[c])
  BY <1>1, StoredIs DEF This
<1>5. ASSUME Recs(m) = Recs(This) \cup {record}
      PROVE  \A x : x \in Contents' <=> x \in Contents \cup {record}
  BY <1>3, <1>4, <1>5
<1>6. ASSUME Recs(m) = Recs(This) \ {record}
      PROVE  \A x : x \in Contents' <=> x \in Contents \ {record}
  BY <1>1, <1>3, <1>4, <1>6
<1> QED BY <1>5, <1>6

\* An insert that found no equal record adds its record and says so.
LEMMA InsertIsExact ==
  ASSUME IInv, InsertFirst \/ InsertFits \/ InsertSplits
  PROVE  At("insert") /\ Contents' = Contents \cup {record} /\ answer' = (record \notin Contents)
<1>1. At("insert") /\ pc = "leaf" /\ rest' = rest /\ answer' = TRUE
  BY DEF InsertFirst, InsertFits, InsertSplits, At, Return
<1>2. CASE InsertFirst \/ InsertFits
  <2>1. PICK m : /\ Recs(m) = Recs(This) \cup {record} /\ record \notin Recs(This)
                 /\ leaves' = [leaves EXCEPT ![leaf] = m]
    BY <1>2, InsertFirstLeaf, InsertFitsLeaf
  <2>2. record \notin Contents
    BY <1>1, <2>1, StoredHere
  <2> QED BY <1>1, <2>1, <2>2, StoredBy
<1>3. CASE InsertSplits
  <2>1. PICK m, q : /\ Recs(m) \cup Recs(q) = Recs(This) \cup {record} /\ record \notin Recs(This)
                    /\ leaves' = Appended(OneSet(leaves, leaf, m), q)
    BY <1>3, InsertSplitsLeaves
  <2>2. record \notin Contents
    BY <1>1, <2>1, StoredHere
  <2>3. leaf \in DOMAIN leaves /\ rest = {} /\ IsFile(leaves)
    BY <1>1, AtLeaf
  <2> DEFINE g == OneSet(leaves, leaf, m)
             a == NewPage(leaves)
  <2>4. IsFile(g) /\ NewPage(g) = a /\ DOMAIN g = DOMAIN leaves /\ g[leaf] = m
        /\ \A c \in DOMAIN leaves : c # leaf => g[c] = leaves[c]
    BY <2>3, ChangedFile DEF OneSet
  <2>5. a \notin DOMAIN leaves
    BY <2>3, FileFacts
  <2> HIDE DEF g, a
  <2>6. DOMAIN leaves' = DOMAIN leaves \cup {a} /\ leaves'[a] = q /\ \A c \in DOMAIN leaves : leaves'[c] = g[c]
    <3>1. leaves' = Appended(g, q)
      BY <2>1 DEF g
    <3>2. IsAppended(g, q, leaves')
      BY <2>4, <3>1, AppendedFile
    <3> QED BY <2>4, <3>2 DEF IsAppended
  <2>7. \A x : x \in Contents' <=> \/ x \in Recs(m) \cup Recs(q)
                                   \/ \E c \in DOMAIN leaves : c # leaf /\ x \in Recs(leaves[c])
    BY <1>1, <2>3, <2>4, <2>5, <2>6, StoredIsNext
  <2>8. \A x : x \in Contents <=> x \in Recs(This) \/ \E c \in DOMAIN leaves : c # leaf /\ x \in Recs(leaves[c])
    BY <2>3, StoredIs DEF This
  <2>9. \A x : x \in Contents' <=> x \in Contents \cup {record}
    BY <2>1, <2>7, <2>8
  <2>10. Contents' = Contents \cup {record}
    BY <2>9
  <2> QED BY <1>1, <2>2, <2>10
<1> QED BY <1>2, <1>3

\* An insert of what is there and a delete of what is not change nothing and
\* say so.
LEMMA UnchangedIsExact ==
  ASSUME IInv, InsertDuplicate \/ DeleteMissing, ~misread'
  PROVE  /\ Contents' = Contents /\ answer' = FALSE /\ answer' \in BOOLEAN
         /\ InsertDuplicate => At("insert") /\ record \in Contents
         /\ DeleteMissing => At("delete") /\ record \notin Contents
<1>1. pc = "leaf" /\ leaves' = leaves /\ rest' = rest /\ answer' = FALSE
  BY DEF InsertDuplicate, DeleteMissing, At, Return
<1>2. Contents' = Contents
  BY <1>1 DEF Contents, Stored, Used, Pages
<1>3. leaf \in DOMAIN leaves /\ Good(This)
  BY <1>1, AtLeaf
<1>4. ASSUME InsertDuplicate
      PROVE  At("insert") /\ record \in Contents
  <2>1. At("insert") /\ This.value_count # 0 /\ This.records[Index] = record /\ misread' = Unused
    BY <1>4 DEF InsertDuplicate, Empty, EqualRecord
  <2>2. ~(Index >= This.value_count)
    BY <2>1 DEF Unused
  <2>3. Index \in 0 .. This.value_count /\ This.value_count \in Nat
    BY <1>3, <2>1, GoodFacts, SearchIndexRange DEF Index
  <2>4. Index \in 0 .. This.value_count - 1
    BY <2>2, <2>3
  <2>5. record \in Recs(This)
    BY <2>1, <2>4 DEF Recs
  <2> QED BY <1>1, <2>1, <2>5, StoredHere
<1>5. ASSUME DeleteMissing
      PROVE  At("delete") /\ record \notin Contents
  <2>1. At("delete") /\ (This.value_count = 0 \/ ~EqualRecord)
    BY <1>5 DEF DeleteMissing, Empty
  <2>2. record \notin Recs(This)
    <3>1. CASE This.value_count = 0
      <4>1. \A i \in 0 .. This.value_count - 1 : FALSE
        BY <3>1
      <4> QED BY <4>1 DEF Recs
    <3>2. CASE ~EqualRecord
      BY <1>3, <3>2, Missed DEF EqualRecord, Index
    <3> QED BY <2>1, <3>1, <3>2
  <2> QED BY <1>1, <2>1, <2>2, StoredHere
<1> QED BY <1>1, <1>2, <1>4, <1>5

\* A delete of a record in use removes it and no other.
LEMMA DeleteIsExact ==
  ASSUME IInv, DeleteFound, ~misread'
  PROVE  At("delete") /\ Contents' = Contents \ {record} /\ answer' = (record \in Contents)
<1>1. At("delete") /\ pc = "leaf" /\ rest' = rest /\ answer' = TRUE /\ misread' = Unused
  BY DEF DeleteFound, At, Return
<1>2. ~Unused
  BY <1>1 DEF Unused
<1>3. PICK m : /\ Recs(m) = Recs(This) \ {record} /\ record \in Recs(This)
               /\ leaves' = [leaves EXCEPT ![leaf] = m]
  BY <1>2, DeleteFoundLeaf
<1>4. record \in Contents
  BY <1>1, <1>3, StoredHere
<1> QED BY <1>1, <1>3, <1>4, StoredBy

\* The other steps move records at most.
LEMMA ImportIsExact ==
  ASSUME IInv, ImportLeaf
  PROVE  Contents' = Contents /\ answer' = answer
<1>1. leaves' = Appended(leaves, BlockLeaf) /\ rest' = rest \ Block /\ answer' = answer
  BY DEF ImportLeaf
<1> DEFINE a == NewPage(leaves)
           b == BlockLeaf
<1>2. IsFile(leaves) /\ a \in Nat /\ a \notin DOMAIN leaves
  BY FileFacts DEF IInv, Files
<1>3. Recs(b) = Block /\ Block \subseteq rest
  BY <1>2, BlockFacts DEF IInv, Scalars
<1> HIDE DEF b
<1>4. DOMAIN leaves' = DOMAIN leaves \cup {a} /\ leaves'[a] = b /\ \A c \in DOMAIN leaves : leaves'[c] = leaves[c]
  <2>1. IsAppended(leaves, b, leaves')
    BY <1>1, <1>2, AppendedFile DEF b
  <2> QED BY <2>1 DEF IsAppended
<1> HIDE DEF a
<1>5. \A x : x \in Contents' <=> (\E c \in DOMAIN leaves : x \in Recs(leaves[c])) \/ x \in Block \/ x \in rest \ Block
  BY <1>1, <1>2, <1>3, <1>4, StoredIsNext
<1>6. \A x : x \in Contents' <=> x \in Contents
  BY <1>3, <1>5, StoredIs
<1> QED BY <1>1, <1>6

\* Steps that leave the leaves alone change no contents.
LEMMA OthersKeepContents ==
  ASSUME leaves' = leaves, rest' = rest
  PROVE  Contents' = Contents
BY DEF Contents, Stored, Used, Pages

\* Insert and delete_record answer and change what they say, and
\* reorganising changes nothing, unless a slot not in use was read.
THEOREM ExactSteps == Spec => StepsAreExact
<1>1. ASSUME IInv, Next, ~misread'
      PROVE  IsExact
  <2>1. CASE InsertFirst \/ InsertFits \/ InsertSplits
    BY <1>1, <2>1, InsertIsExact DEF IsExact, At
  <2>2. CASE InsertDuplicate
    <3>1. /\ At("insert") /\ Contents' = Contents /\ answer' = FALSE /\ record \in Contents
      BY <1>1, <2>2, UnchangedIsExact
    <3>2. (record \notin Contents) = FALSE /\ Contents \cup {record} = Contents
      BY <3>1
    <3>3. Contents' = Contents \cup {record} /\ answer' = (record \notin Contents)
      BY <3>1, <3>2
    <3> QED BY <3>1, <3>3 DEF IsExact, At
  <2>3. CASE DeleteMissing
    <3>1. /\ At("delete") /\ Contents' = Contents /\ answer' = FALSE /\ record \notin Contents
      BY <1>1, <2>3, UnchangedIsExact
    <3>2. ~At("insert")
      BY <3>1 DEF At
    <3>3. (record \in Contents) = FALSE /\ Contents \ {record} = Contents
      BY <3>1
    <3>4. Contents' = Contents \ {record} /\ answer' = (record \in Contents)
      BY <3>1, <3>3
    <3> QED BY <3>1, <3>2, <3>4 DEF IsExact
  <2>4. CASE DeleteFound
    <3>1. At("delete") /\ Contents' = Contents \ {record} /\ answer' = (record \in Contents)
      BY <1>1, <2>4, DeleteIsExact
    <3>2. ~At("insert")
      BY <3>1 DEF At
    <3> QED BY <3>1, <3>2 DEF IsExact
  <2>5. CASE ImportLeaf
    <3>1. ~At("insert") /\ ~At("delete")
      BY <2>5 DEF ImportLeaf, At
    <3> QED BY <1>1, <2>5, <3>1, ImportIsExact DEF IsExact
  <2>6. CASE \/ BulkDescend \/ BulkFits \/ BulkSplitDir \/ BulkSplitRoot \/ EndImport
             \/ \E o \in {"insert", "delete"}, r \in Records : Call(o, r)
             \/ Descend \/ DirFits \/ RootSplits \/ DirSplits
    <3>1. ~At("insert") /\ ~At("delete") /\ leaves' = leaves /\ rest' = rest /\ answer' = answer
      BY <2>6 DEF BulkDescend, BulkFits, BulkSplitDir, BulkSplitRoot, EndImport, Call, Descend, DirFits,
                  RootSplits, DirSplits, Bulking, At, treeVars
    <3>2. Contents' = Contents
      BY <3>1, OthersKeepContents
    <3>3. UNCHANGED <<Contents, answer>>
      BY <3>1, <3>2
    <3> QED BY <3>1, <3>3 DEF IsExact
  <2> QED BY <1>1, <2>1, <2>2, <2>3, <2>4, <2>5, <2>6 DEF Next
<1>2. IInv /\ [Next]_vars => [misread' \/ IsExact]_vars
  BY <1>1 DEF StepsAreExact
<1> QED BY <1>2, Invariance, PTL DEF Spec, StepsAreExact

-----------------------------------------------------------------------------
(* Range scans.                                                            *)

\* A sequence has the members of a set in increasing order.
Lists(s, S) ==
  /\ s \in Seq(Nat) /\ {s[i] : i \in DOMAIN s} = S
  /\ \A i, j \in DOMAIN s : i < j => s[i] < s[j]

\* The empty sequence lists the empty set.
LEMMA ListsNone == Lists(<< >>, {})
<1>1. << >> \in Seq(Nat) /\ DOMAIN << >> = {}
  OBVIOUS
<1> QED BY <1>1 DEF Lists

\* A smaller number put before a list.
LEMMA ListsCons ==
  ASSUME NEW s, NEW S, Lists(s, S), NEW x \in Nat, \A y \in S : x < y
  PROVE  Lists(<<x>> \o s, S \cup {x})
<1> DEFINE t == <<x>> \o s
           n == Len(s)
<1>1. s \in Seq(Nat) /\ n \in Nat /\ DOMAIN s = 1 .. n /\ (\A i \in 1 .. n : s[i] \in S)
      /\ (\A y \in S : \E i \in 1 .. n : y = s[i]) /\ \A i, j \in 1 .. n : i < j => s[i] < s[j]
  BY DEF Lists
<1>2. <<x>> \in Seq(Nat) /\ Len(<<x>>) = 1 /\ <<x>>[1] = x
  OBVIOUS
<1>3. t \in Seq(Nat) /\ Len(t) = 1 + n /\ \A i \in 1 .. 1 + n : t[i] = IF i <= 1 THEN x ELSE s[i - 1]
  <2>1. /\ t \in Seq(Nat) /\ Len(t) = Len(<<x>>) + Len(s)
        /\ \A i \in 1 .. Len(<<x>>) + Len(s) : t[i] = IF i <= Len(<<x>>) THEN <<x>>[i] ELSE s[i - Len(<<x>>)]
    BY <1>1, <1>2, ConcatProperties
  <2> QED BY <1>1, <1>2, <2>1
<1>4. DOMAIN t = 1 .. 1 + n
  BY <1>1, <1>3
<1> HIDE DEF t, n
<1>5. t[1] = x /\ \A i \in 2 .. 1 + n : t[i] = s[i - 1] /\ i - 1 \in 1 .. n
  BY <1>1, <1>3
<1>6. \A y : y \in S \cup {x} <=> \E i \in 1 .. 1 + n : y = t[i]
  <2>1. ASSUME NEW y \in S PROVE \E i \in 1 .. 1 + n : y = t[i]
    <3>1. PICK i \in 1 .. n : y = s[i]
      BY <1>1
    <3>2. i + 1 \in 2 .. 1 + n /\ (i + 1) - 1 = i
      BY <1>1
    <3>3. y = t[i + 1]
      BY <1>5, <3>1, <3>2
    <3> QED BY <1>1, <3>2, <3>3
  <2>2. 1 \in 1 .. 1 + n /\ \A i \in 1 .. 1 + n : i = 1 \/ i \in 2 .. 1 + n
    BY <1>1
  <2>3. ASSUME NEW i \in 1 .. 1 + n PROVE t[i] \in S \cup {x}
    <3>1. i = 1 \/ (t[i] = s[i - 1] /\ i - 1 \in 1 .. n)
      BY <1>5, <2>2
    <3> QED BY <1>1, <1>5, <3>1
  <2> QED BY <1>5, <2>1, <2>2, <2>3
<1>7. \A i, j \in 1 .. 1 + n : i < j => t[i] < t[j]
  <2> SUFFICES ASSUME NEW i \in 1 .. 1 + n, NEW j \in 1 .. 1 + n, i < j
               PROVE  t[i] < t[j]
    OBVIOUS
  <2>1. j \in 2 .. 1 + n /\ (i = 1 \/ i \in 2 .. 1 + n) /\ i - 1 < j - 1
    BY <1>1
  <2>2. t[j] = s[j - 1] /\ j - 1 \in 1 .. n
    BY <1>5, <2>1
  <2>3. CASE i = 1
    <3>1. t[i] = x /\ s[j - 1] \in S
      BY <1>1, <1>5, <2>2, <2>3
    <3> QED BY <2>2, <3>1
  <2>4. CASE i \in 2 .. 1 + n
    <3>1. t[i] = s[i - 1] /\ i - 1 \in 1 .. n
      BY <1>5, <2>4
    <3>2. s[i - 1] < s[j - 1]
      BY <1>1, <2>1, <2>2, <3>1
    <3> QED BY <2>2, <3>1, <3>2
  <2> QED BY <2>1, <2>3, <2>4
<1>8. Lists(t, S \cup {x})
  <2>1. {t[i] : i \in 1 .. 1 + n} = S \cup {x}
    BY <1>6
  <2>2. {t[i] : i \in DOMAIN t} = S \cup {x}
    BY <1>4, <2>1
  <2>3. \A i, j \in DOMAIN t : i < j => t[i] < t[j]
    BY <1>4, <1>7
  <2>4. t \in Seq(Nat)
    BY <1>3
  <2> QED BY <2>2, <2>3, <2>4 DEF Lists
<1> QED BY <1>8 DEF t

\* The leaves as a scan meets them.
Chain(ls, L) ==
  /\ IsFile(ls) /\ Chained(ls, L, 0)
  /\ \A p \in DOMAIN ls : /\ Good(ls[p]) /\ Recs(ls[p]) \subseteq L[p]
                          /\ L[p] \subseteq Nat /\ L[p] # {}

Spots(ls) == (DOMAIN ls) \X (0 .. LeafMax)
After(ls, L, p) == {q \in DOMAIN ls : q # p /\ Below(L[p], L[q])}
Ahead(ls, L, at) ==
  {b \in Spots(ls) : b[1] \in After(ls, L, at[1]) \/ (b[1] = at[1] /\ b[2] > at[2])}

\* The recursion of GetRange.
IterStep(ls, max, f, at) ==
  LET l == ls[at[1]]
      pos == at[2]
  IN  IF pos < l.value_count
        THEN IF l.records[pos] > max THEN << >>
             ELSE <<l.records[pos]>> \o f[<<at[1], pos + 1>>]
        ELSE IF l.next_leaf # 0 THEN f[<<l.next_leaf, 0>>]
        ELSE << >>
IterOf(ls, max) == CHOOSE f : f = [at \in Pages(ls) \X (0 .. LeafMax) |-> IterStep(ls, max, f, at)]

\* GetRange is the recursive function of the iterator from where the search
\* ends.
LEMMA GetRangeIterates ==
  ASSUME NEW min, NEW max
  PROVE  GetRange(min, max) =
           IterOf(leaves, max)[<<SearchLeaf(min), SearchIndex(leaves[SearchLeaf(min)], min)>>]
BY DEF GetRange, IterOf, IterStep

\* There are finitely many positions to scan.
LEMMA SpotsFinite ==
  ASSUME NEW ls, IsFile(ls)
  PROVE  IsFiniteSet(Spots(ls))
<1>1. PICK n \in Nat : DOMAIN ls = 0 .. n - 1
  BY DEF IsFile
<1>2. IsFiniteSet(0 .. n - 1) /\ IsFiniteSet(0 .. LeafMax)
  BY FS_Interval, RecordsAreNumbers
<1> QED BY <1>1, <1>2, FS_Product DEF Spots

\* A smaller set of spots.
LEMMA FewerSpots ==
  ASSUME NEW ls, IsFile(ls), NEW S \in SUBSET Spots(ls), NEW T \in SUBSET S, NEW b \in S, b \notin T
  PROVE  Cardinality(T) < Cardinality(S) /\ Cardinality(T) \in Nat /\ Cardinality(S) \in Nat
<1>1. IsFiniteSet(S)
  BY SpotsFinite, FS_Subset
<1>2. IsFiniteSet(T) /\ Cardinality(T) <= Cardinality(S) /\ (Cardinality(S) = Cardinality(T) => S = T)
  BY <1>1, FS_Subset
<1>3. S # T
  OBVIOUS
<1>4. Cardinality(T) \in Nat /\ Cardinality(S) \in Nat
  BY <1>1, <1>2, FS_CardinalityType
<1> QED BY <1>2, <1>3, <1>4

\* The order of ranges is transitive.
LEMMA BelowTransitive ==
  ASSUME NEW A \in SUBSET Nat, NEW B \in SUBSET Nat, NEW C \in SUBSET Nat, B # {}, Below(A, B), Below(B, C)
  PROVE  Below(A, C)
<1> SUFFICES ASSUME NEW x \in A, NEW y \in C PROVE x < y
  BY DEF Below
<1>1. PICK b \in B : TRUE
  OBVIOUS
<1> QED BY <1>1 DEF Below

\* Ranges with records are in one order only.
LEMMA BelowOneWay ==
  ASSUME NEW A \in SUBSET Nat, NEW B \in SUBSET Nat, A # {}, B # {}, Below(A, B)
  PROVE  ~Below(B, A)
<1>1. PICK a \in A, b \in B : TRUE
  OBVIOUS
<1> QED BY <1>1 DEF Below

\* The next leaf is the first of those after a leaf.
LEMMA NextLeaf ==
  ASSUME NEW ls, NEW L, Chain(ls, L), NEW p \in DOMAIN ls
  PROVE  /\ ls[p].next_leaf = 0 => After(ls, L, p) = {}
         /\ ls[p].next_leaf # 0 =>
              /\ ls[p].next_leaf \in After(ls, L, p)
              /\ After(ls, L, ls[p].next_leaf) \subseteq After(ls, L, p)
              /\ \A q \in After(ls, L, p) : q = ls[p].next_leaf \/ q \in After(ls, L, ls[p].next_leaf)
         /\ p \notin After(ls, L, p)
<1>1. \A q \in DOMAIN ls : L[q] \in SUBSET Nat /\ L[q] # {}
  BY DEF Chain
<1>2. CASE ls[p].next_leaf = 0
  <2>1. \A q \in DOMAIN ls : q # p => Below(L[q], L[p])
    BY <1>2 DEF Chain, Chained
  <2>2. \A q \in DOMAIN ls : q # p => ~Below(L[p], L[q])
    BY <1>1, <2>1, BelowOneWay
  <2> QED BY <1>2, <2>2 DEF After
<1>3. CASE ls[p].next_leaf # 0
  <2> DEFINE n == ls[p].next_leaf
  <2>1. /\ n \in DOMAIN ls /\ n # p /\ Below(L[p], L[n])
        /\ \A q \in DOMAIN ls : q # p /\ q # n => Below(L[q], L[p]) \/ Below(L[n], L[q])
    BY <1>3 DEF Chain, Chained
  <2> HIDE DEF n
  <2>2. n \in After(ls, L, p)
    BY <2>1 DEF After
  <2>3. ASSUME NEW q \in After(ls, L, n) PROVE q \in After(ls, L, p)
    <3>1. q \in DOMAIN ls /\ q # n /\ Below(L[n], L[q])
      BY <2>3 DEF After
    <3>2. Below(L[p], L[q])
      BY <1>1, <2>1, <3>1, BelowTransitive
    <3>3. q # p
      BY <1>1, <2>1, <3>1, BelowOneWay
    <3> QED BY <3>1, <3>2, <3>3 DEF After
  <2>4. ASSUME NEW q \in After(ls, L, p), q # n PROVE q \in After(ls, L, n)
    <3>1. q \in DOMAIN ls /\ q # p /\ Below(L[p], L[q])
      BY <2>4 DEF After
    <3>2. ~Below(L[q], L[p])
      BY <1>1, <3>1, BelowOneWay
    <3>3. Below(L[n], L[q])
      BY <2>1, <2>4, <3>1, <3>2
    <3> QED BY <2>4, <3>1, <3>3 DEF After
  <2>5. p \notin After(ls, L, p)
    BY DEF After
  <2> QED BY <1>3, <2>2, <2>3, <2>4, <2>5 DEF n
<1> QED BY <1>2, <1>3

\* Each call of the recursion has fewer spots ahead.
LEMMA FewerAhead ==
  ASSUME NEW ls, NEW L, Chain(ls, L), NEW at \in Spots(ls)
  PROVE  /\ at[2] < ls[at[1]].value_count =>
              /\ <<at[1], at[2] + 1>> \in Spots(ls)
              /\ Cardinality(Ahead(ls, L, <<at[1], at[2] + 1>>)) < Cardinality(Ahead(ls, L, at))
         /\ ls[at[1]].next_leaf # 0 =>
              /\ <<ls[at[1]].next_leaf, 0>> \in Spots(ls)
              /\ Cardinality(Ahead(ls, L, <<ls[at[1]].next_leaf, 0>>)) < Cardinality(Ahead(ls, L, at))
         /\ Cardinality(Ahead(ls, L, at)) \in Nat
<1> DEFINE p == at[1]
           i == at[2]
<1>1. p \in DOMAIN ls /\ i \in 0 .. LeafMax /\ at = <<p, i>> /\ LeafMax \in Nat
  BY RecordsAreNumbers DEF Spots
<1>2. ls[p].value_count \in 0 .. LeafMax
  BY <1>1, GoodFacts DEF Chain
<1> HIDE DEF p, i
<1>3. IsFile(ls) /\ \A b : Ahead(ls, L, b) \in SUBSET Spots(ls)
  BY DEF Chain, Ahead
<1>4. Cardinality(Ahead(ls, L, at)) \in Nat
  BY <1>3, SpotsFinite, FS_Subset, FS_CardinalityType
<1>5. ASSUME i < ls[p].value_count
      PROVE  /\ <<p, i + 1>> \in Spots(ls)
             /\ Cardinality(Ahead(ls, L, <<p, i + 1>>)) < Cardinality(Ahead(ls, L, at))
  <2> DEFINE b == <<p, i + 1>>
  <2>1. i + 1 \in 0 .. LeafMax /\ i + 1 > i /\ ~(i + 1 > i + 1) /\ \A k \in 0 .. LeafMax : k > i + 1 => k > i
    BY <1>1, <1>2, <1>5
  <2>2. b \in Spots(ls) /\ b[1] = p /\ b[2] = i + 1
    BY <1>1, <2>1 DEF Spots
  <2> HIDE DEF b
  <2>3. b \in Ahead(ls, L, at)
    BY <1>1, <2>1, <2>2 DEF Ahead
  <2>4. b \notin Ahead(ls, L, b)
    BY <2>1, <2>2 DEF Ahead, After
  <2>5. \A c \in Spots(ls) : c[2] \in 0 .. LeafMax
    BY DEF Spots
  <2>6. Ahead(ls, L, b) \subseteq Ahead(ls, L, at)
    BY <1>1, <2>1, <2>2, <2>5 DEF Ahead
  <2>7. Cardinality(Ahead(ls, L, b)) < Cardinality(Ahead(ls, L, at))
    BY <1>3, <2>3, <2>4, <2>6, FewerSpots
  <2> QED BY <2>2, <2>7 DEF b
<1>6. ASSUME ls[p].next_leaf # 0
      PROVE  /\ <<ls[p].next_leaf, 0>> \in Spots(ls)
             /\ Cardinality(Ahead(ls, L, <<ls[p].next_leaf, 0>>)) < Cardinality(Ahead(ls, L, at))
  <2> DEFINE n == ls[p].next_leaf
             b == <<n, 0>>
  <2>1. n \in After(ls, L, p) /\ After(ls, L, n) \subseteq After(ls, L, p)
    BY <1>1, <1>6, NextLeaf
  <2>2. n \in DOMAIN ls /\ n \notin After(ls, L, n)
    BY <2>1 DEF After
  <2>3. 0 \in 0 .. LeafMax /\ ~(0 > 0)
    BY <1>1
  <2> HIDE DEF n
  <2>4. b \in Spots(ls) /\ b[1] = n /\ b[2] = 0
    BY <2>2, <2>3 DEF Spots
  <2> HIDE DEF b
  <2>5. b \in Ahead(ls, L, at)
    BY <1>1, <2>1, <2>4 DEF Ahead
  <2>6. b \notin Ahead(ls, L, b)
    BY <2>2, <2>3, <2>4 DEF Ahead
  <2>7. Ahead(ls, L, b) \subseteq Ahead(ls, L, at)
    BY <1>1, <2>1, <2>4 DEF Ahead
  <2>8. Cardinality(Ahead(ls, L, b)) < Cardinality(Ahead(ls, L, at))
    BY <1>3, <2>5, <2>6, <2>7, FewerSpots
  <2> QED BY <2>4, <2>8 DEF b, n
<1> QED BY <1>4, <1>5, <1>6 DEF p, i

\* The function of the iterator solves its recursive equation: fewer positions
\* are ahead.
LEMMA IterStepOf ==
  ASSUME NEW ls, NEW L, Chain(ls, L), NEW max, NEW at \in Spots(ls)
  PROVE  IterOf(ls, max)[at] = IterStep(ls, max, IterOf(ls, max), at)
<1> DEFINE M(b) == Cardinality(Ahead(ls, L, b))
           Solves(f, n) == \A b \in Spots(ls) : M(b) < n => f[b] = IterStep(ls, max, f, b)
           K == {n \in Nat : \E f : Solves(f, n)}
           top == Cardinality(Spots(ls)) + 1
<1>1. ASSUME NEW f, NEW g, NEW b \in Spots(ls),
             \A c \in Spots(ls) : M(c) < M(b) => f[c] = g[c]
      PROVE  IterStep(ls, max, f, b) = IterStep(ls, max, g, b)
  <2>1. b[2] < ls[b[1]].value_count => f[<<b[1], b[2] + 1>>] = g[<<b[1], b[2] + 1>>]
    BY <1>1, FewerAhead
  <2>2. ls[b[1]].next_leaf # 0 => f[<<ls[b[1]].next_leaf, 0>>] = g[<<ls[b[1]].next_leaf, 0>>]
    BY <1>1, FewerAhead
  <2> QED BY <2>1, <2>2 DEF IterStep
<1>2. \A b \in Spots(ls) : M(b) \in Nat
  BY FewerAhead
<1>3. top \in Nat /\ \A b \in Spots(ls) : M(b) < top
  <2>1. IsFiniteSet(Spots(ls)) /\ Cardinality(Spots(ls)) \in Nat
    BY SpotsFinite, FS_CardinalityType DEF Chain
  <2>2. \A b \in Spots(ls) : M(b) <= Cardinality(Spots(ls))
    <3>1. \A b \in Spots(ls) : Ahead(ls, L, b) \in SUBSET Spots(ls)
      BY DEF Ahead
    <3> QED BY <2>1, <3>1, FS_Subset
  <2> HIDE DEF M
  <2> QED BY <1>2, <2>1, <2>2
<1> HIDE DEF M, top
<1>4. 0 \in K
  <2>1. Solves(0, 0)
    BY <1>2
  <2> QED BY <2>1
<1>5. ASSUME NEW n \in Nat, n \in K PROVE n + 1 \in K
  <2>1. PICK f : Solves(f, n)
    BY <1>5
  <2> DEFINE g == [b \in Spots(ls) |-> IF M(b) < n THEN f[b] ELSE IterStep(ls, max, f, b)]
  <2>2. \A b \in Spots(ls) : M(b) < n => g[b] = f[b]
    OBVIOUS
  <2>3. \A b \in Spots(ls) : ~(M(b) < n) => g[b] = IterStep(ls, max, f, b)
    OBVIOUS
  <2> HIDE DEF g
  <2>4. ASSUME NEW b \in Spots(ls), M(b) < n + 1 PROVE g[b] = IterStep(ls, max, g, b)
    <3>1. \A c \in Spots(ls) : M(c) < M(b) => f[c] = g[c]
      BY <1>2, <2>2, <2>4
    <3>2. IterStep(ls, max, f, b) = IterStep(ls, max, g, b)
      BY <1>1, <3>1
    <3> QED BY <2>1, <2>2, <2>3, <2>4, <3>2
  <2>5. Solves(g, n + 1)
    BY <2>4
  <2> QED BY <2>5
<1>6. PICK f : Solves(f, top)
  <2> HIDE DEF K
  <2>1. \A n \in Nat : n \in K
    BY <1>4, <1>5, AllNumbers
  <2> QED BY <1>3, <2>1 DEF K
<1> DEFINE g == [b \in Spots(ls) |-> f[b]]
<1>7. ASSUME NEW b \in Spots(ls) PROVE g[b] = IterStep(ls, max, g, b)
  <2>1. M(b) < top
    BY <1>3
  <2>2. IterStep(ls, max, f, b) = IterStep(ls, max, g, b)
    BY <1>1
  <2> QED BY <1>6, <2>1, <2>2
<1>8. g = [b \in Spots(ls) |-> IterStep(ls, max, g, b)]
  BY <1>7
<1> HIDE DEF g
<1>9. IterOf(ls, max) = [b \in Spots(ls) |-> IterStep(ls, max, IterOf(ls, max), b)]
  BY <1>8 DEF IterOf, Spots, Pages
<1> QED BY <1>9

\* What a scan has not read yet.
Unread(ls, L, at) ==
  {ls[at[1]].records[i] : i \in at[2] .. ls[at[1]].value_count - 1}
  \cup UNION {Recs(ls[q]) : q \in After(ls, L, at[1])}

UpTo(S, max) == {x \in S : x <= max}

\* One step of the iterator, against what is left after it.
LEMMA UnreadStep ==
  ASSUME NEW ls, NEW L, Chain(ls, L), NEW p \in DOMAIN ls, NEW i \in 0 .. LeafMax
  PROVE  /\ i < ls[p].value_count =>
              LET x == ls[p].records[i]
              IN  /\ x \in Nat
                  /\ Unread(ls, L, <<p, i>>) = Unread(ls, L, <<p, i + 1>>) \cup {x}
                  /\ \A y \in Unread(ls, L, <<p, i + 1>>) : x < y /\ y \in Nat
         /\ ~(i < ls[p].value_count) =>
              Unread(ls, L, <<p, i>>) =
                IF ls[p].next_leaf # 0 THEN Unread(ls, L, <<ls[p].next_leaf, 0>>) ELSE {}
<1> DEFINE l == ls[p]
           n == l.value_count
           later == UNION {Recs(ls[q]) : q \in After(ls, L, p)}
<1>1. /\ n \in Nat /\ i \in Nat /\ (\A j \in 0 .. n - 1 : l.records[j] \in L[p]) /\ L[p] \subseteq Nat
      /\ \A j, k \in 0 .. n - 1 : j < k => l.records[j] < l.records[k]
  <2>1. Good(l) /\ Recs(l) \subseteq L[p] /\ L[p] \subseteq Nat
    BY DEF Chain
  <2> QED BY <2>1, GoodFacts, RecordsAreNumbers DEF Recs, InOrder
<1>2. \A y \in later : y \in Nat /\ \A x \in L[p] : x < y
  <2> SUFFICES ASSUME NEW q \in After(ls, L, p), NEW y \in Recs(ls[q])
               PROVE  y \in Nat /\ \A x \in L[p] : x < y
    OBVIOUS
  <2>1. q \in DOMAIN ls /\ Below(L[p], L[q])
    BY DEF After
  <2>2. y \in L[q] /\ L[q] \subseteq Nat
    BY <2>1 DEF Chain
  <2> QED BY <2>1, <2>2 DEF Below
<1>3. \A k : Unread(ls, L, <<p, k>>) = {l.records[j] : j \in k .. n - 1} \cup later
  BY DEF Unread
<1> HIDE DEF l, n, later
<1>4. ASSUME i < n
      PROVE  LET x == l.records[i]
             IN  /\ x \in Nat
                 /\ Unread(ls, L, <<p, i>>) = Unread(ls, L, <<p, i + 1>>) \cup {x}
                 /\ \A y \in Unread(ls, L, <<p, i + 1>>) : x < y /\ y \in Nat
  <2> DEFINE x == l.records[i]
             here(k) == {l.records[j] : j \in k .. n - 1}
  <2>1. i \in 0 .. n - 1 /\ x \in L[p] /\ x \in Nat
    BY <1>1, <1>4
  <2>2. \A j \in i .. n - 1 : j = i \/ j \in i + 1 .. n - 1
    BY <1>1
  <2>3. \A j \in i + 1 .. n - 1 : j \in i .. n - 1 /\ j \in 0 .. n - 1 /\ i < j
    BY <1>1
  <2>4. i \in i .. n - 1
    BY <1>1, <1>4
  <2>5. here(i) = here(i + 1) \cup {x}
    BY <2>2, <2>3, <2>4
  <2>6. \A y \in here(i + 1) : x < y /\ y \in Nat
    BY <1>1, <2>1, <2>3
  <2>7. \A y \in later : x < y /\ y \in Nat
    BY <1>2, <2>1
  <2> HIDE DEF here, x
  <2>8. Unread(ls, L, <<p, i>>) = here(i) \cup later /\ Unread(ls, L, <<p, i + 1>>) = here(i + 1) \cup later
    BY <1>3 DEF here
  <2> QED BY <2>1, <2>5, <2>6, <2>7, <2>8 DEF x
<1>5. ASSUME ~(i < n)
      PROVE  Unread(ls, L, <<p, i>>) = IF l.next_leaf # 0 THEN Unread(ls, L, <<l.next_leaf, 0>>) ELSE {}
  <2>1. \A j \in i .. n - 1 : FALSE
    BY <1>1, <1>5
  <2>2. Unread(ls, L, <<p, i>>) = later
    BY <1>3, <2>1
  <2>3. CASE l.next_leaf = 0
    <3>1. After(ls, L, p) = {}
      BY <2>3, NextLeaf DEF l
    <3> QED BY <2>2, <2>3, <3>1 DEF later
  <2>4. CASE l.next_leaf # 0
    <3> DEFINE m == l.next_leaf
    <3>1. /\ m \in After(ls, L, p) /\ After(ls, L, m) \subseteq After(ls, L, p)
          /\ \A q \in After(ls, L, p) : q = m \/ q \in After(ls, L, m)
      BY <2>4, NextLeaf DEF l
    <3> HIDE DEF m
    <3>2. later = Recs(ls[m]) \cup UNION {Recs(ls[q]) : q \in After(ls, L, m)}
      BY <3>1 DEF later
    <3>3. Unread(ls, L, <<m, 0>>) = Recs(ls[m]) \cup UNION {Recs(ls[q]) : q \in After(ls, L, m)}
      BY DEF Unread, Recs
    <3> QED BY <2>2, <2>4, <3>2, <3>3 DEF m
  <2> QED BY <2>3, <2>4
<1> QED BY <1>4, <1>5 DEF l, n

\* The iterator lists what is unread up to the upper bound.
LEMMA IterLists ==
  ASSUME NEW ls, NEW L, Chain(ls, L), NEW max \in Nat
  PROVE  \A at \in Spots(ls) : Lists(IterOf(ls, max)[at], UpTo(Unread(ls, L, at), max))
<1> DEFINE f == IterOf(ls, max)
           M(b) == Cardinality(Ahead(ls, L, b))
           Done(n) == \A at \in Spots(ls) : M(at) < n => Lists(f[at], UpTo(Unread(ls, L, at), max))
           K == {n \in Nat : Done(n)}
<1>1. \A at \in Spots(ls) : f[at] = IterStep(ls, max, f, at) /\ M(at) \in Nat
  BY IterStepOf, FewerAhead
<1>2. ASSUME NEW at \in Spots(ls), \A b \in Spots(ls) : M(b) < M(at) => Lists(f[b], UpTo(Unread(ls, L, b), max))
      PROVE  Lists(f[at], UpTo(Unread(ls, L, at), max))
  <2> DEFINE p == at[1]
             i == at[2]
             x == ls[p].records[i]
             U == Unread(ls, L, at)
  <2>1. p \in DOMAIN ls /\ i \in 0 .. LeafMax /\ at = <<p, i>>
    BY DEF Spots
  <2>2. f[at] = IF i < ls[p].value_count
                  THEN IF x > max THEN << >> ELSE <<x>> \o f[<<p, i + 1>>]
                ELSE IF ls[p].next_leaf # 0 THEN f[<<ls[p].next_leaf, 0>>]
                ELSE << >>
    BY <1>1 DEF IterStep
  <2>3. i < ls[p].value_count => Lists(f[<<p, i + 1>>], UpTo(Unread(ls, L, <<p, i + 1>>), max))
    BY <1>2, FewerAhead
  <2>4. ls[p].next_leaf # 0 => Lists(f[<<ls[p].next_leaf, 0>>], UpTo(Unread(ls, L, <<ls[p].next_leaf, 0>>), max))
    BY <1>2, FewerAhead
  <2>5. /\ i < ls[p].value_count =>
             /\ x \in Nat /\ U = Unread(ls, L, <<p, i + 1>>) \cup {x}
             /\ \A y \in Unread(ls, L, <<p, i + 1>>) : x < y /\ y \in Nat
        /\ ~(i < ls[p].value_count) =>
             U = IF ls[p].next_leaf # 0 THEN Unread(ls, L, <<ls[p].next_leaf, 0>>) ELSE {}
    <3> HIDE DEF p, i
    <3> QED BY <2>1, UnreadStep
  <2> HIDE DEF f, M, p, i, x, U
  <2>6. CASE i < ls[p].value_count
    <3> DEFINE V == Unread(ls, L, <<p, i + 1>>)
    <3>1. x \in Nat /\ U = V \cup {x} /\ (\A y \in V : x < y /\ y \in Nat) /\ Lists(f[<<p, i + 1>>], UpTo(V, max))
      BY <2>3, <2>5, <2>6
    <3> HIDE DEF V
    <3>2. CASE x > max
      <4>1. \A y \in U : ~(y <= max)
        BY <3>1, <3>2
      <4>2. UpTo(U, max) = {}
        BY <4>1 DEF UpTo
      <4> QED BY <2>2, <2>6, <3>2, <4>2, ListsNone DEF U
    <3>3. CASE ~(x > max)
      <4>1. UpTo(U, max) = UpTo(V, max) \cup {x}
        BY <3>1, <3>3 DEF UpTo
      <4>2. \A y \in UpTo(V, max) : x < y
        BY <3>1 DEF UpTo
      <4>3. Lists(<<x>> \o f[<<p, i + 1>>], UpTo(V, max) \cup {x})
        BY <3>1, <4>2, ListsCons
      <4> QED BY <2>2, <2>6, <3>3, <4>1, <4>3 DEF U
    <3> QED BY <3>2, <3>3
  <2>7. CASE ~(i < ls[p].value_count) /\ ls[p].next_leaf # 0
    BY <2>2, <2>4, <2>5, <2>7 DEF U
  <2>8. CASE ~(i < ls[p].value_count) /\ ls[p].next_leaf = 0
    <3>1. UpTo(U, max) = {}
      BY <2>5, <2>8 DEF UpTo
    <3> QED BY <2>2, <2>8, <3>1, ListsNone DEF U
  <2> QED BY <2>6, <2>7, <2>8
<1> HIDE DEF f, M
<1>3. 0 \in K
  BY <1>1
<1>4. ASSUME NEW n \in Nat, n \in K PROVE n + 1 \in K
  <2>1. ASSUME NEW at \in Spots(ls), M(at) < n + 1
        PROVE  Lists(f[at], UpTo(Unread(ls, L, at), max))
    <3>1. \A b \in Spots(ls) : M(b) < M(at) => M(b) < n
      BY <1>1, <2>1
    <3>2. \A b \in Spots(ls) : M(b) < M(at) => Lists(f[b], UpTo(Unread(ls, L, b), max))
      BY <1>4, <3>1
    <3> QED BY <1>2, <3>2
  <2> QED BY <2>1
<1>5. ASSUME NEW at \in Spots(ls)
      PROVE  Lists(f[at], UpTo(Unread(ls, L, at), max))
  <2>1. M(at) + 1 \in Nat /\ M(at) < M(at) + 1
    BY <1>1
  <2>2. \A n \in Nat : n \in K
    <3> HIDE DEF K
    <3> QED BY <1>3, <1>4, AllNumbers
  <2> QED BY <2>1, <2>2
<1> QED BY <1>5 DEF f

\* Where a scan starts: a slot of the leaf, after which are the records not smaller.
LEMMA StartOfScan ==
  ASSUME NEW l, Good(l), NEW r \in Nat
  PROVE  /\ SearchIndex(l, r) \in 0 .. LeafMax
         /\ {l.records[i] : i \in SearchIndex(l, r) .. l.value_count - 1} = {x \in Recs(l) : r <= x}
<1> DEFINE n == l.value_count
           k == SearchIndex(l, r)
<1>1. /\ n \in 0 .. LeafMax /\ n \in Nat /\ LeafMax \in Nat \ {0} /\ l \in Leaf /\ InOrder(l) /\ Filled(l)
      /\ Recs(l) \subseteq Nat
  BY GoodFacts, RecordsAreNumbers
<1>2. CASE n = 0
  <2>1. <<0, -1>> \in Bounds /\ l.value_count - 1 = -1
    BY <1>1, <1>2 DEF Bounds
  <2>2. LeafBisect(l, r)[<<0, -1>>] = LeafStep(l, r, LeafBisect(l, r), <<0, -1>>)
    BY <2>1, LeafBisectStep
  <2>3. LeafStep(l, r, LeafBisect(l, r), <<0, -1>>) \in {0, 1}
    BY DEF LeafStep
  <2>4. k = LeafBisect(l, r)[<<0, -1>>]
    BY <2>1, SearchIndexBisects
  <2>5. k \in {0, 1}
    BY <2>2, <2>3, <2>4
  <2> HIDE DEF k
  <2>6. k \in 0 .. LeafMax /\ (\A i \in k .. n - 1 : FALSE) /\ \A i \in 0 .. n - 1 : FALSE
    BY <1>1, <1>2, <2>5
  <2>7. Recs(l) = {} /\ {l.records[i] : i \in k .. n - 1} = {}
    BY <2>6 DEF Recs
  <2> QED BY <2>6, <2>7 DEF k
<1>3. CASE n # 0
  <2>1. k \in 0 .. n
    BY <1>1, <1>3, SearchIndexRange
  <2>2. \A i \in 0 .. n - 1 : l.records[i] < r <=> i < k
    BY <1>1, <1>3, SearchIndexExact
  <2>3. \A i \in 0 .. n - 1 : l.records[i] \in Recs(l) /\ l.records[i] \in Nat
    BY <1>1 DEF Recs
  <2>4. Recs(l) = {l.records[i] : i \in 0 .. n - 1}
    BY DEF Recs
  <2> HIDE DEF k, n
  <2>5. \A i \in 0 .. n - 1 : r <= l.records[i] <=> i \in k .. n - 1
    BY <1>1, <2>1, <2>2, <2>3
  <2>6. \A i \in k .. n - 1 : i \in 0 .. n - 1
    BY <1>1, <2>1
  <2>7. {l.records[i] : i \in k .. n - 1} = {x \in Recs(l) : r <= x}
    BY <2>4, <2>5, <2>6
  <2>8. k \in 0 .. LeafMax
    BY <1>1, <2>1
  <2> QED BY <2>7, <2>8 DEF k, n
<1> QED BY <1>2, <1>3

\* Of all leaves, those after the one of the first record, and of that one the rest.
LEMMA UnreadAtStart ==
  ASSUME NEW ls, NEW L, Chain(ls, L), NEW p \in DOMAIN ls, NEW r \in L[p]
  PROVE  \A x : x \in Unread(ls, L, <<p, SearchIndex(ls[p], r)>>) <=>
                  (\E q \in DOMAIN ls : x \in Recs(ls[q])) /\ r <= x
<1> DEFINE here == {ls[p].records[i] : i \in SearchIndex(ls[p], r) .. ls[p].value_count - 1}
<1>1. \A q \in DOMAIN ls : Good(ls[q]) /\ Recs(ls[q]) \subseteq L[q] /\ L[q] \subseteq Nat /\ L[q] # {}
  BY DEF Chain
<1>2. here = {x \in Recs(ls[p]) : r <= x}
  BY <1>1, StartOfScan
<1>3. \A x : x \in Unread(ls, L, <<p, SearchIndex(ls[p], r)>>) <=>
               x \in here \/ \E q \in After(ls, L, p) : x \in Recs(ls[q])
  BY DEF Unread
<1> HIDE DEF here
<1>4. ASSUME NEW q \in DOMAIN ls, q # p, NEW x \in Recs(ls[q])
      PROVE  r <= x <=> q \in After(ls, L, p)
  <2>1. Below(L[p], L[q]) \/ Below(L[q], L[p])
    BY <1>4 DEF Chain, Chained
  <2>2. x \in L[q] /\ x \in Nat /\ r \in Nat /\ L[p] \in SUBSET Nat /\ L[q] \in SUBSET Nat /\ L[p] # {} /\ L[q] # {}
    BY <1>1
  <2>3. CASE Below(L[p], L[q])
    <3>1. r < x
      BY <2>2, <2>3 DEF Below
    <3>2. q \in After(ls, L, p)
      BY <1>4, <2>3 DEF After
    <3> QED BY <2>2, <3>1, <3>2
  <2>4. CASE Below(L[q], L[p])
    <3>1. x < r
      BY <2>2, <2>4 DEF Below
    <3>2. ~Below(L[p], L[q])
      BY <2>2, <2>4, BelowOneWay
    <3>3. q \notin After(ls, L, p)
      BY <3>2 DEF After
    <3> QED BY <2>2, <3>1, <3>3
  <2> QED BY <2>1, <2>3, <2>4
<1>5. \A q \in After(ls, L, p) : q \in DOMAIN ls /\ q # p
  BY DEF After
<1> QED BY <1>2, <1>3, <1>4, <1>5

\* The invariant implies that a range scan is exact.
LEMMA IInvImpliesRange ==
  ASSUME IInv
  PROVE  RangeIsExact
<1> SUFFICES ASSUME pc = "idle", NEW min \in Records, NEW max \in Records, min <= max
             PROVE  Lists(GetRange(min, max), {x \in Stored : min <= x /\ x <= max})
  BY DEF RangeIsExact, Lists
<1>1. PICK D, L, H, w : Tree(dirs, leaves, D, L, H, w) /\ Place(D, L, H, w)
  BY DEF IInv, Grows, Fresh
<1>2. Tree(dirs, leaves, D, L, H, NoOwner) /\ rest = {} /\ Chained(leaves, L, 0)
  BY <1>1 DEF Place, End, IInv, Importing
<1>3. Chain(leaves, L)
  <2>1. IsFile(leaves) /\ Records \subseteq Nat /\ Records # {}
    BY RecordsAreNumbers DEF IInv, Files
  <2>2. \A q \in DOMAIN leaves : /\ Good(leaves[q]) /\ Recs(leaves[q]) \subseteq L[q]
                                 /\ L[q] \subseteq Nat /\ L[q] # {}
    BY <1>2, <2>1, TreeLeaves DEF Chained
  <2> QED BY <1>2, <2>1, <2>2 DEF Chain
<1> DEFINE p == SearchLeaf(min)
           k == SearchIndex(leaves[p], min)
           U == Unread(leaves, L, <<p, k>>)
<1>4. p \in DOMAIN leaves /\ min \in L[p]
  BY <1>2, SearchEnds
<1>5. min \in Nat /\ max \in Nat /\ Good(leaves[p])
  BY <1>3, <1>4, RecordsAreNumbers DEF Chain
<1>6. k \in 0 .. LeafMax
  BY <1>5, StartOfScan
<1>7. \A x : x \in U <=> x \in Stored /\ min <= x
  BY <1>3, <1>4, UnreadAtStart, StoredIs
<1>8. GetRange(min, max) = IterOf(leaves, max)[<<p, k>>]
  BY GetRangeIterates
<1> HIDE DEF p, k, U
<1>9. <<p, k>> \in Spots(leaves)
  BY <1>4, <1>6 DEF Spots
<1>10. Lists(GetRange(min, max), UpTo(U, max))
  BY <1>3, <1>5, <1>8, <1>9, IterLists DEF U
<1>11. UpTo(U, max) = {x \in Stored : min <= x /\ x <= max}
  BY <1>7 DEF UpTo
<1> QED BY <1>10, <1>11

\* A range scan returns the stored records between its bounds, in order and once each.
THEOREM RangeExact == Spec => []RangeIsExact
<1>1. IInv => RangeIsExact
  BY IInvImpliesRange
<1> QED BY <1>1, Invariance, PTL

=============================================================================
