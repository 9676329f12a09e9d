---------------------------- MODULE DistinctHash ----------------------------
(***************************************************************************)
(* DistinctBindingHash (storage/index/hash/distinct_binding_hash): the     *)
(* extendible hash with which a query finds out whether it has seen a      *)
(* tuple.  A directory of 2^global_depth entries leads to buckets, each a  *)
(* private page of one temporary file; a full bucket is split, and the     *)
(* directory is doubled when only one of its entries leads to the bucket.  *)
(*                                                                         *)
(* A number is the set of the positions of its bits: `hash & mask` is an   *)
(* intersection and `number | 1 << depth` a union.  Bits is at most 31,    *)
(* the largest depth that the shifts of an int in the code can make.       *)
(*                                                                         *)
(* Pages are used as TmpFiles promises, except for the flag that says that *)
(* they must be written: the buffer manager takes away any page that is    *)
(* not pinned, and what was not marked is lost.  A turn of the loop is one *)
(* step: the pages it changes are pinned all along.                        *)
(* A definition Mut<Name> is a deliberately wrong form of <Name>.          *)
(***************************************************************************)
EXTENDS Integers, FiniteSets

CONSTANTS
  Tuples,       \* tuples of the size the hash was made for
  Hash,         \* HashFunctionWrapper
  NBits,        \* bits of a hash that a depth can reach
  DEFAULT_GLOBAL_DEPTH,
  MaxTuples,    \* max_tuples of a bucket
  NoTuple,
  NoAnswer

Bits == 0 .. NBits - 1
Numbers == SUBSET Bits

\* The last part is the supposition of redistribute: "at least one suffix is
\* different (otherwise it will split forever)".
ASSUME HashAssumption ==
  /\ IsFiniteSet(Tuples) /\ NoTuple \notin Tuples
  /\ NBits \in Nat /\ DEFAULT_GLOBAL_DEPTH \in 0 .. NBits
  /\ MaxTuples \in Nat \ {0}
  /\ Hash \in [Tuples -> Numbers]
  /\ \A S \in SUBSET Tuples :
       Cardinality(S) > MaxTuples => \E t, u \in S : Hash[t] # Hash[u]

VARIABLES
  global_depth,
  dir,        \* numbers of global_depth bits -> bucket numbers
  pages,      \* bucket numbers -> what get_ppage finds
  file,       \* bucket numbers -> what the temporary file has
  dirty,      \* the buckets whose pages are marked
  tuple,      \* argument of the is_in_or_insert under way, or NoTuple
  answer      \* what the last call returned, or NoAnswer

pageVars == <<pages, file, dirty>>
vars == <<global_depth, dir, pageVars, tuple, answer>>

Bucket == [tuples : SUBSET Tuples, local_depth : 0 .. NBits]

\* number & mask, for the mask of depth bits
Suffix(number, depth) == number \cap (0 .. depth - 1)
Suffixes(depth) == SUBSET (0 .. depth - 1)

TypeOK ==
  /\ global_depth \in 0 .. NBits
  /\ dir \in [Suffixes(global_depth) -> Numbers]
  /\ pages \in [Numbers -> Bucket]
  /\ file \in [Numbers -> Bucket]
  /\ dirty \in SUBSET Numbers
  /\ tuple \in Tuples \cup {NoTuple}

ZeroPage == [tuples |-> {}, local_depth |-> 0]

\* The constructor has made a bucket for each entry.
Init ==
  /\ global_depth = DEFAULT_GLOBAL_DEPTH
  /\ dir = [s \in Suffixes(DEFAULT_GLOBAL_DEPTH) |-> s]
  /\ pages = [b \in Numbers |-> IF b \in Suffixes(DEFAULT_GLOBAL_DEPTH)
                                THEN [ZeroPage EXCEPT !.local_depth = DEFAULT_GLOBAL_DEPTH]
                                ELSE ZeroPage]
  /\ file = [b \in Numbers |-> ZeroPage]
  /\ dirty = Suffixes(DEFAULT_GLOBAL_DEPTH)
  /\ tuple = NoTuple
  /\ answer = NoAnswer

BucketOf(t) == dir[Suffix(Hash[t], global_depth)]

-----------------------------------------------------------------------------
(* Operations.                                                             *)

Idle == tuple = NoTuple

IsIn(t) ==
  /\ Idle
  /\ answer' = (t \in pages[BucketOf(t)].tuples)
  /\ UNCHANGED <<global_depth, dir, pageVars, tuple>>

IsInOrInsert(t) ==
  /\ Idle
  /\ tuple' = t /\ answer' = NoAnswer
  /\ UNCHANGED <<global_depth, dir, pageVars>>

\* The bucket that a turn of the loop looks at.
Here == BucketOf(tuple)
IsHere == tuple \in pages[Here].tuples

IsFull == Cardinality(pages[Here].tuples) = MaxTuples

Found ==
  /\ ~Idle /\ IsHere
  /\ tuple' = NoTuple /\ answer' = TRUE
  /\ UNCHANGED <<global_depth, dir, pageVars>>

Insert ==
  /\ ~Idle /\ ~IsHere /\ ~IsFull
  /\ pages' = [pages EXCEPT ![Here].tuples = @ \cup {tuple}]
  /\ dirty' = dirty \cup {Here}
  /\ tuple' = NoTuple /\ answer' = FALSE
  /\ UNCHANGED <<global_depth, dir, file>>

HasSuffix(t, depth, number) == Suffix(Hash[t], depth) = number

\* Both local depths grow by one; the tuples with the suffix of the new bucket
\* under the mask of maskDepth bits go there.
Split(bucket, new, maskDepth) ==
  LET moved == {t \in pages[bucket].tuples : HasSuffix(t, maskDepth, new)}
      depth == pages[bucket].local_depth + 1
  IN [pages EXCEPT
        ![bucket] = [tuples |-> @.tuples \ moved, local_depth |-> depth],
        ![new]    = [tuples |-> moved, local_depth |-> depth]]

\* The entries that a new bucket takes from the one that was split.
MutRedirected(new, depth) == [dir EXCEPT ![new] = new]
Redirected(new, depth) ==
  [s \in DOMAIN dir |-> IF Suffix(s, depth) = new THEN new ELSE dir[s]]

NeedSplit == ~Idle /\ ~IsHere /\ IsFull

SplitBucket ==
  LET depth == pages[Here].local_depth
      new == Here \cup {depth}
  IN /\ NeedSplit /\ depth < global_depth
     /\ pages' = Split(Here, new, depth + 1)
     /\ dirty' = dirty \cup {Here, new}
     /\ dir' = Redirected(new, depth + 1)
     /\ UNCHANGED <<global_depth, file, tuple, answer>>

\* duplicate_dirs: the new half leads to the old buckets.
MutDuplicated == dir
Duplicated == [s \in Suffixes(global_depth + 1) |-> dir[Suffix(s, global_depth)]]

SplitDirectory ==
  LET new == Here \cup {global_depth}
  IN /\ NeedSplit /\ pages[Here].local_depth >= global_depth
     /\ global_depth' = global_depth + 1
     /\ pages' = Split(Here, new, global_depth + 1)
     /\ dirty' = dirty \cup {Here, new}
     /\ dir' = [Duplicated EXCEPT ![new] = new]
     /\ UNCHANGED <<file, tuple, answer>>

InUse == {dir[s] : s \in DOMAIN dir}

MutMarkedByReset == dirty
MarkedByReset == dirty \cup InUse

Reset ==
  /\ Idle
  /\ pages' = [b \in Numbers |-> IF b \in InUse THEN [pages[b] EXCEPT !.tuples = {}]
                                 ELSE pages[b]]
  /\ dirty' = MarkedByReset
  /\ answer' = NoAnswer
  /\ UNCHANGED <<global_depth, dir, file, tuple>>

\* The buffer manager takes the frame of a bucket for another page.
Evict(b) ==
  /\ pages' = IF b \in dirty THEN pages ELSE [pages EXCEPT ![b] = file[b]]
  /\ file'  = IF b \in dirty THEN [file EXCEPT ![b] = pages[b]] ELSE file
  /\ dirty' = dirty \ {b}
  /\ UNCHANGED <<global_depth, dir, tuple, answer>>

-----------------------------------------------------------------------------
Turn == Found \/ Insert \/ SplitBucket \/ SplitDirectory

Next ==
  \/ \E t \in Tuples : IsIn(t) \/ IsInOrInsert(t)
  \/ Turn \/ Reset
  \/ \E b \in Numbers : Evict(b)

Spec == Init /\ [][Next]_vars

-----------------------------------------------------------------------------
(* Properties.                                                             *)

\* An entry leads to a bucket exactly when it ends in the number of the bucket,
\* as many bits of it as the bucket says: the directory, which is in memory, and
\* the depths, which are in pages, tell the same tree.  In particular only one
\* entry leads to a bucket as deep as the directory, as is_in_or_insert asserts.
\* assert(suffix == bucket_number && "EXTENDIBLE HASH INCONSISTENCY: ...")
DirectoryIsExact ==
  \A s \in DOMAIN dir :
    LET depth == pages[dir[s]].local_depth
    IN /\ depth <= global_depth
       /\ \A r \in DOMAIN dir : dir[r] = dir[s] <=> Suffix(r, depth) = dir[s]

\* The tuples that is_in would find.
Stored == {t \in Tuples : t \in pages[BucketOf(t)].tuples}

Abstract == INSTANCE DistinctSet WITH set <- Stored

\* The hash is a set: splits, doublings and evictions lose no tuple and bring
\* none back, and a tuple is new exactly once between two resets.
ImplementsDistinctSet == Abstract!Spec
=============================================================================
