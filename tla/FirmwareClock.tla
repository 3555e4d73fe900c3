----------------------------- MODULE FirmwareClock -----------------------------
(* The clock of the firmware's loop: millis(), a 32-bit counter, modulo     *)
(* Word here, as an iteration of loop() (src/main.cpp) reads it.            *)
EXTENDS Naturals

CONSTANTS
  Word,    \* the counter's range, 2^32
  MaxStep  \* bound: the longest iteration of the loop

ASSUME ClockAssumption == Word \in Nat \ {0} /\ MaxStep \in Nat \ {0}

VARIABLE nowMs

Instants == 0..Word - 1

\* Unsigned: nowMs + d and t - u.
Later(d) == (nowMs + d) % Word
Minus(t, u) == (t + Word - u) % Word
================================================================================
