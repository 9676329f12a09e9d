--------------------------- MODULE MCBrowserSession ---------------------------
(***************************************************************************)
(* Instances of BrowserSession.                                            *)
(***************************************************************************)
EXTENDS BrowserSession
CONSTANTS s1, s2
=============================================================================
