------------------------- MODULE MCVersionedPages -------------------------
(* Small instances of VersionedPages.                                      *)
EXTENDS VersionedPages

CONSTANTS w1, w2   \* workers
=============================================================================
