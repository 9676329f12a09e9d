----------------------------- MODULE BPlusTree -----------------------------
(***************************************************************************)
(* One index of the graph: the B+tree of storage/index/bplus_tree, from    *)
(* its bulk import (bpt_mem_import.h, called by import/disk_vector.h) to   *)
(* the inserts and deletes of updates.                                     *)
(*                                                                         *)
(* Pages are those of one version: the update that changes them is alone,  *)
(* and VersionedPages is about the others.  A record is a number; the code *)
(* compares arrays of N object ids lexicographically, and no object id is  *)
(* zero.  Directory pages are sequences of keys and of children; of a leaf *)
(* the model keeps the whole array, because the code reads beyond the      *)
(* records in use.  A definition Mut<Name> is a deliberately wrong form of *)
(* <Name> that shows which property notices it.                            *)
(***************************************************************************)
EXTENDS Integers, Sequences, FiniteSets

CONSTANTS
  Records,      \* the records that may be stored
  Imports,      \* the sets of records that may be imported
  LeafMax,      \* leaf_max_records
  DirMax,       \* dir_max_records
  MaxUpdates    \* bound on the inserts and deletes after the import

NoRecord == 0   \* append_page and the import fill pages with zeros

ASSUME ConstantsAssumption ==
  /\ Records \subseteq Nat \ {NoRecord} /\ IsFiniteSet(Records)
  /\ Imports \subseteq SUBSET Records
  /\ LeafMax \in Nat \ {0}
  /\ DirMax \in Nat \ {0, 1}
  /\ MaxUpdates \in Nat

VARIABLES
  dirs,         \* the file <name>.dir: page 0 is the root
  leaves,       \* the file <name>.leaf
  rest,         \* records that are still to be imported
  pc,
  op, record,   \* the running operation and its argument
  path,         \* pages of the directories on the C++ stack, root first
  leaf,         \* the leaf the operation is at
  split,        \* the BPlusTreeSplit or SplitData being returned
  answer,       \* what the last insert or delete_record returned
  misread,      \* history: the last step took an unused slot for a record
  updates

treeVars == <<dirs, leaves>>
callVars == <<op, record, path, leaf, split>>
vars == <<treeVars, callVars, rest, pc, answer, misread, updates>>

Slots == 0 .. LeafMax - 1
Leaf == [records : [Slots -> Records \cup {NoRecord}],
         value_count : 0 .. LeafMax,
         next_leaf : Nat]
Dir == [keys : Seq(Records), children : Seq(Int)]
Split == [record : Records \cup {NoRecord}, page : Int]
NoSplit == [record |-> NoRecord, page |-> 0]

Pages(file) == DOMAIN file
NewPage(file) == Cardinality(DOMAIN file)

\* file with one page more.
Appended(file, page) ==
  [p \in 0 .. NewPage(file) |-> IF p = NewPage(file) THEN page ELSE file[p]]

EmptyFile == << >>

TypeOK ==
  /\ Pages(dirs) = 0 .. NewPage(dirs) - 1 /\ 0 \in Pages(dirs)
  /\ Pages(leaves) = 0 .. NewPage(leaves) - 1
  /\ \A p \in Pages(leaves) : leaves[p] \in Leaf
  /\ \A p \in Pages(dirs) :
       /\ dirs[p] \in Dir
       /\ Len(dirs[p].keys) <= DirMax
       /\ Len(dirs[p].children) = Len(dirs[p].keys) + 1
       /\ \A i \in DOMAIN dirs[p].children :
            LET c == dirs[p].children[i]
            IN  IF c < 0 THEN -c \in Pages(dirs)
                ELSE c \in Pages(leaves) \/ leaves = EmptyFile
  /\ rest \in SUBSET Records
  /\ pc \in {"import", "bulk", "idle", "descend", "leaf", "split"}
  /\ op \in {"none", "insert", "delete"}
  /\ record \in Records \cup {NoRecord}
  /\ path \in Seq(Pages(dirs))
  /\ leaf \in Nat
  /\ split \in Split
  /\ answer \in BOOLEAN /\ misread \in BOOLEAN
  /\ updates \in 0 .. MaxUpdates

Init ==
  /\ dirs = [p \in {0} |-> [keys |-> << >>, children |-> <<0>>]]
  /\ leaves = EmptyFile
  /\ rest \in Imports
  /\ pc = "import"
  /\ op = "none" /\ record = NoRecord
  /\ path = << >> /\ leaf = 0 /\ split = NoSplit
  /\ answer = TRUE /\ misread = FALSE
  /\ updates = 0

\* The locals of an operation end with it.
Leave ==
  /\ op' = "none" /\ record' = NoRecord
  /\ path' = << >> /\ leaf' = 0 /\ split' = NoSplit

-----------------------------------------------------------------------------
(* Import: merge_sort writes sorted, distinct records leaf by leaf.        *)

Rank(S, r) == Cardinality({q \in S : q < r})

Block == {r \in rest : Rank(rest, r) < LeafMax}

BlockLeaf ==
  [records |-> [i \in Slots |-> IF i < Cardinality(Block)
                                  THEN CHOOSE r \in Block : Rank(Block, r) = i
                                  ELSE NoRecord],
   value_count |-> Cardinality(Block),
   next_leaf |-> IF Block = rest THEN 0 ELSE NewPage(leaves) + 1]

\* The first leaf, empty if there is nothing to import, is already the child
\* of the root; bulk_insert gives any other one to the right-most branch.
ImportLeaf ==
  /\ pc = "import"
  /\ leaves = EmptyFile \/ rest # {}
  /\ leaves' = Appended(leaves, BlockLeaf)
  /\ rest' = rest \ Block
  /\ IF leaves = EmptyFile
       THEN UNCHANGED <<pc, path, split>>
       ELSE /\ split' = [record |-> BlockLeaf.records[0], page |-> NewPage(leaves)]
            /\ path' = <<0>>
            /\ pc' = "bulk"
  /\ UNCHANGED <<dirs, op, record, leaf, answer, misread, updates>>

Top == path[Len(path)]
Pop == SubSeq(path, 1, Len(path) - 1)
LastChild(d) == d.children[Len(d.children)]

\* bulk_insert calls itself for the last child while that is a directory.
BulkDescend ==
  /\ pc = "bulk" /\ split.page >= 0
  /\ LastChild(dirs[Top]) < 0
  /\ path' = Append(path, -LastChild(dirs[Top]))
  /\ UNCHANGED <<treeVars, op, record, leaf, split, rest, pc, answer, misread, updates>>

\* At the bottom, and on the way back.
Bulking == pc = "bulk" /\ (split.page < 0 \/ LastChild(dirs[Top]) >= 0)

MutHasRoom(d) == Len(d.keys) <= DirMax
HasRoom(d) == Len(d.keys) < DirMax

Pushed(d) == [keys |-> Append(d.keys, split.record),
              children |-> Append(d.children, split.page)]
NewBranch == [keys |-> << >>, children |-> <<split.page>>]

BulkFits ==
  /\ Bulking /\ HasRoom(dirs[Top])
  /\ dirs' = [dirs EXCEPT ![Top] = Pushed(@)]
  /\ pc' = "import" /\ Leave
  /\ UNCHANGED <<leaves, rest, answer, misread, updates>>

BulkSplitDir ==
  /\ Bulking /\ ~HasRoom(dirs[Top]) /\ Top # 0
  /\ dirs' = Appended(dirs, NewBranch)
  /\ split' = [split EXCEPT !.page = -NewPage(dirs)]
  /\ path' = Pop
  /\ UNCHANGED <<leaves, op, record, leaf, rest, pc, answer, misread, updates>>

NewRoot(key, lhs) == [keys |-> <<key>>, children |-> <<-lhs, -(lhs + 1)>>]

BulkSplitRoot ==
  /\ Bulking /\ ~HasRoom(dirs[Top]) /\ Top = 0
  /\ dirs' = [Appended(Appended(dirs, dirs[0]), NewBranch)
                EXCEPT ![0] = NewRoot(split.record, NewPage(dirs))]
  /\ pc' = "import" /\ Leave
  /\ UNCHANGED <<leaves, rest, answer, misread, updates>>

EndImport ==
  /\ pc = "import" /\ rest = {} /\ leaves # EmptyFile
  /\ pc' = "idle"
  /\ UNCHANGED <<treeVars, callVars, rest, answer, misread, updates>>

-----------------------------------------------------------------------------
(* Searches.                                                               *)

\* search_index of a leaf: the position of the first record >= r.  With no
\* records it looks at slot 0 all the same.
SearchIndex(l, r) ==
  LET Bisect[b \in (0 .. LeafMax) \X (-1 .. LeafMax)] ==
        LET from == b[1]
            to == b[2]
            middle == (from + to) \div 2
        IN  IF from < to
              THEN IF r < l.records[middle] THEN Bisect[<<from, middle - 1>>]
                   ELSE IF r > l.records[middle] THEN Bisect[<<middle + 1, to>>]
                   ELSE middle
              ELSE IF r <= l.records[from] THEN from ELSE from + 1
  IN  Bisect[<<0, l.value_count - 1>>]

\* search_child_index of a directory: the number of keys <= r.
SearchChildIndex(d, r) ==
  LET Bisect[b \in (0 .. DirMax) \X (0 .. DirMax)] ==
        LET from == b[1]
            to == b[2]
            middle == (from + to + 1) \div 2
        IN  IF from = to THEN from
            ELSE IF r < d.keys[middle] THEN Bisect[<<from, middle - 1>>]
            ELSE Bisect[<<middle, to>>]
  IN  Bisect[<<0, Len(d.keys)>>]

Child(d, r) == d.children[SearchChildIndex(d, r) + 1]

-----------------------------------------------------------------------------
(* insert and delete_record.                                               *)

Call(o, r) ==
  /\ pc = "idle" /\ updates < MaxUpdates
  /\ op' = o /\ record' = r
  /\ path' = <<0>>
  /\ pc' = "descend"
  /\ updates' = updates + 1
  /\ misread' = FALSE
  /\ UNCHANGED <<treeVars, leaf, split, rest, answer>>

Descend ==
  /\ pc = "descend"
  /\ LET c == Child(dirs[Top], record)
     IN  IF c < 0
           THEN path' = Append(path, -c) /\ UNCHANGED <<leaf, pc>>
           ELSE leaf' = c /\ pc' = "leaf" /\ UNCHANGED path
  /\ UNCHANGED <<treeVars, op, record, split, rest, answer, misread, updates>>

This == leaves[leaf]
Index == SearchIndex(This, record)

\* equal_record reads the slot that search_index returns, in use or not.  The
\* one after the last is the unused end of the page, which is never a record
\* (for N > 1; see the README).
EqualRecord == Index < LeafMax /\ This.records[Index] = record
Unused == Index >= This.value_count

Return(result) ==
  /\ answer' = result
  /\ pc' = "idle" /\ Leave
  /\ UNCHANGED <<dirs, rest, updates>>

At(o) == pc = "leaf" /\ op = o
Empty == This.value_count = 0

InsertFirst ==
  /\ At("insert") /\ Empty
  /\ leaves' = [leaves EXCEPT ![leaf].records[0] = record, ![leaf].value_count = 1]
  /\ UNCHANGED misread
  /\ Return(TRUE)

InsertDuplicate ==
  /\ At("insert") /\ ~Empty /\ EqualRecord
  /\ misread' = Unused
  /\ UNCHANGED leaves
  /\ Return(FALSE)

\* The records with one more at position i; slot LeafMax, if any, is what
\* does not fit.
Inserted(l, i, r) ==
  [s \in 0 .. LeafMax |-> IF s < i \/ (s > i /\ s > l.value_count)
                            THEN IF s < LeafMax THEN l.records[s] ELSE NoRecord
                          ELSE IF s = i THEN r ELSE l.records[s - 1]]

Fits == This.value_count < LeafMax

InsertFits ==
  /\ At("insert") /\ ~Empty /\ ~EqualRecord /\ Fits
  /\ leaves' = [leaves EXCEPT ![leaf].records = [s \in Slots |-> Inserted(This, Index, record)[s]],
                              ![leaf].value_count = @ + 1]
  /\ UNCHANGED misread
  /\ Return(TRUE)

Middle == (LeafMax + 1) \div 2

\* The new leaf takes the records from the middle on.
MutNextOfSplit == 0
NextOfSplit == This.next_leaf

RightLeaf(all) ==
  [records |-> [s \in Slots |-> IF Middle + s <= LeafMax THEN all[Middle + s] ELSE NoRecord],
   value_count |-> LeafMax \div 2 + 1,
   next_leaf |-> NextOfSplit]

LeftCount == Middle

InsertSplits ==
  /\ At("insert") /\ ~Empty /\ ~EqualRecord /\ ~Fits
  /\ LET all == Inserted(This, Index, record)
     IN  /\ leaves' = Appended([leaves EXCEPT ![leaf].records = [s \in Slots |-> all[s]],
                                              ![leaf].value_count = LeftCount,
                                              ![leaf].next_leaf = NewPage(leaves)],
                               RightLeaf(all))
         /\ split' = [record |-> all[Middle], page |-> NewPage(leaves)]
  /\ answer' = TRUE
  /\ pc' = "split"
  /\ UNCHANGED <<dirs, op, record, path, leaf, rest, misread, updates>>

\* The keys and children of the directory with the returned split in place.
Position == SearchChildIndex(dirs[Top], split.record)
With(s, i, x) == SubSeq(s, 1, i) \o <<x>> \o SubSeq(s, i + 1, Len(s))
Keys == With(dirs[Top].keys, Position, split.record)
Children == With(dirs[Top].children, Position + 1, split.page)

DirFits ==
  /\ pc = "split" /\ HasRoom(dirs[Top])
  /\ dirs' = [dirs EXCEPT ![Top] = [keys |-> Keys, children |-> Children]]
  /\ pc' = "idle" /\ Leave
  /\ UNCHANGED <<leaves, rest, answer, misread, updates>>

\* Of DirMax + 1 keys the one at DirMiddle moves up.
DirMiddle == (DirMax + 1) \div 2
LeftDir == [keys |-> SubSeq(Keys, 1, DirMiddle),
            children |-> SubSeq(Children, 1, DirMiddle + 1)]
MutRightDir == [keys |-> SubSeq(Keys, DirMiddle + 1, Len(Keys) - 1),
                children |-> SubSeq(Children, DirMiddle + 2, Len(Children))]
RightDir == [keys |-> SubSeq(Keys, DirMiddle + 2, Len(Keys)),
             children |-> SubSeq(Children, DirMiddle + 2, Len(Children))]
MiddleKey == Keys[DirMiddle + 1]

RootSplits ==
  /\ pc = "split" /\ ~HasRoom(dirs[Top]) /\ Top = 0
  /\ dirs' = [Appended(Appended(dirs, LeftDir), RightDir)
                EXCEPT ![0] = NewRoot(MiddleKey, NewPage(dirs))]
  /\ pc' = "idle" /\ Leave
  /\ UNCHANGED <<leaves, rest, answer, misread, updates>>

SplitPage == -NewPage(dirs)

DirSplits ==
  /\ pc = "split" /\ ~HasRoom(dirs[Top]) /\ Top # 0
  /\ dirs' = Appended([dirs EXCEPT ![Top] = LeftDir], RightDir)
  /\ split' = [record |-> MiddleKey, page |-> SplitPage]
  /\ path' = Pop
  /\ UNCHANGED <<leaves, op, record, leaf, rest, pc, answer, misread, updates>>

\* The slot after the last record keeps what was there.
MutRemoved(l, i) ==
  [s \in Slots |-> IF s > i /\ s < l.value_count - 1 THEN l.records[s + 1] ELSE l.records[s]]
Removed(l, i) ==
  [s \in Slots |-> IF s >= i /\ s < l.value_count - 1 THEN l.records[s + 1] ELSE l.records[s]]

DeleteFound ==
  /\ At("delete") /\ ~Empty /\ EqualRecord
  /\ leaves' = [leaves EXCEPT ![leaf].records = Removed(This, Index),
                              ![leaf].value_count = @ - 1]
  /\ misread' = Unused
  /\ Return(TRUE)

DeleteMissing ==
  /\ At("delete") /\ (Empty \/ ~EqualRecord)
  /\ UNCHANGED <<leaves, misread>>
  /\ Return(FALSE)

Next ==
  \/ ImportLeaf \/ BulkDescend \/ BulkFits \/ BulkSplitDir \/ BulkSplitRoot \/ EndImport
  \/ \E o \in {"insert", "delete"}, r \in Records : Call(o, r)
  \/ Descend
  \/ InsertFirst \/ InsertDuplicate \/ InsertFits \/ InsertSplits
  \/ DirFits \/ RootSplits \/ DirSplits
  \/ DeleteFound \/ DeleteMissing

Spec == Init /\ [][Next]_vars

-----------------------------------------------------------------------------
(* Reading: search_leaf and the iterator that get_range returns.           *)

\* The directories from the root to the leaf that a search for r reaches.
Branch(r) ==
  LET Down[p \in Pages(dirs)] ==
        LET c == Child(dirs[p], r)
        IN  IF c < 0 THEN <<p>> \o Down[-c] ELSE <<p>>
  IN  Down[0]

SearchLeaf(r) == LET b == Branch(r) IN Child(dirs[b[Len(b)]], r)

\* The records that get_range(min, max) returns one after the other.
GetRange(min, max) ==
  LET Iter[at \in Pages(leaves) \X (0 .. LeafMax)] ==
        LET l == leaves[at[1]]
            pos == at[2]
        IN  IF pos < l.value_count
              THEN IF l.records[pos] > max THEN << >>
                   ELSE <<l.records[pos]>> \o Iter[<<at[1], pos + 1>>]
              ELSE IF l.next_leaf # 0 THEN Iter[<<l.next_leaf, 0>>]
              ELSE << >>
  IN  Iter[<<SearchLeaf(min), SearchIndex(leaves[SearchLeaf(min)], min)>>]

-----------------------------------------------------------------------------
(* Properties.                                                             *)

Used(p) == 0 .. leaves[p].value_count - 1
Stored == UNION {{leaves[p].records[i] : i \in Used(p)} : p \in Pages(leaves)}

\* Between operations every stored record is where a search for it ends,
\* whatever splits, imports and deletes (which never merge) made of the tree, and
\* all branches have the same length (the assertion of estimate_records).
TreeIsSearchable ==
  pc = "idle" =>
    /\ \A p \in Pages(leaves) : \A i \in Used(p) :
         LET r == leaves[p].records[i]
         IN  SearchLeaf(r) = p /\ SearchIndex(leaves[p], r) = i
    /\ \A r, q \in Records : Len(Branch(r)) = Len(Branch(q))

\* A range scan returns the stored records between its bounds, in order and
\* once each, across empty leaves and leaves that were split.
RangeIsExact ==
  pc = "idle" =>
    \A min \in Records : \A max \in {r \in Records : min <= r} :
      LET s == GetRange(min, max)
      IN  /\ {s[i] : i \in DOMAIN s} = {r \in Stored : min <= r /\ r <= max}
          /\ \A i, j \in DOMAIN s : i < j => s[i] < s[j]

Contents == Stored \cup rest

IsExact ==
  CASE At("insert") -> /\ Contents' = Contents \cup {record}
                       /\ answer' = (record \notin Contents)
    [] At("delete") -> /\ Contents' = Contents \ {record}
                       /\ answer' = (record \in Contents)
    [] OTHER -> UNCHANGED <<Contents, answer>>

\* insert "returns true if record was inserted, false if record was already
\* there", delete_record "true if record was deleted, false if record did not
\* exists", each changes no other record, and the steps that reorganise the
\* tree change none, unless equal_record takes an unused slot for a record.
StepsAreExact == [][misread' \/ IsExact]_vars

\* ... and without that exception, which bplus_tree.h does not make.
EveryStepIsExact == [][IsExact]_vars
=============================================================================
