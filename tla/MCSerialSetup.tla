----------------------------- MODULE MCSerialSetup -----------------------------
(* Instances of SerialSetup for TLC.                                       *)
EXTENDS SerialSetup, TLC

\* Usable configurations are interchangeable.
Symmetry == Permutations(Good)
=============================================================================
