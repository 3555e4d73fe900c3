------------------------- MODULE MCControllerConnection -------------------------
(* Instances of ControllerConnection for TLC.                              *)
EXTENDS ControllerConnection
=============================================================================
