----------------------------- MODULE MCUsbPairing -----------------------------
(* Instances of UsbPairing for TLC.                                        *)
EXTENDS UsbPairing, TLC

\* Child processes are interchangeable, and so are connections.
Symmetry == Permutations(Scripts) \cup Permutations(Sockets)
=============================================================================
