------------------------- MODULE MCRuntimeRegistry -------------------------
(* Instances of RuntimeRegistry for TLC.                                   *)
EXTENDS RuntimeRegistry
=============================================================================
