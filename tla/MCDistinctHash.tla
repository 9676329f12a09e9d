--------------------------- MODULE MCDistinctHash ---------------------------
(* A small instance of DistinctHash.                                        *)
EXTENDS DistinctHash, TLC

CONSTANTS a, b, c, d   \* tuples

\* Two hashes differ in the last bit that a depth can reach, and two in an
\* earlier one, in a bucket to which several entries lead by then.
LateHash == a :> {0, 1} @@ b :> {0, 1, 2} @@ c :> {} @@ d :> {1}
=============================================================================
