--------------------------- MODULE MCQueryServer ---------------------------
(***************************************************************************)
(* Instances of QueryServer.                                               *)
(***************************************************************************)
EXTENDS QueryServer
CONSTANTS w1, w2, c1, c2, h1
=============================================================================
