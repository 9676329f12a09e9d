------------------------- MODULE MCPrivatePages -------------------------
(* A small instance of PrivatePages.                                       *)
EXTENDS PrivatePages

CONSTANTS u1, u2   \* users
=============================================================================
