-------------------------- MODULE MCPairingOperator --------------------------
(* An instance of PairingOperator for TLC.                                  *)
EXTENDS PairingOperator
=============================================================================
