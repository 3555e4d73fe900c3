------------------------- MODULE MCControllerTelemetry -------------------------
(* Instances of ControllerTelemetry for TLC.                               *)
EXTENDS ControllerTelemetry
=============================================================================
