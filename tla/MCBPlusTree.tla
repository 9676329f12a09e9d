----------------------------- MODULE MCBPlusTree -----------------------------
(* Small instances of BPlusTree.                                           *)
EXTENDS BPlusTree

Evens(n) == {2 * i : i \in 1 .. n}

\* With two records to a leaf and two keys to a directory: an empty tree,
\* a full root, a root above a full directory, and a
\* right-most branch that the import splits twice.
SomeImports == {{}, Evens(6), Evens(6) \cup {13}, 1 .. 13}
=============================================================================
