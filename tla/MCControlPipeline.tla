--------------------------- MODULE MCControlPipeline ---------------------------
(* Instances of ControlPipeline for TLC: axes in tenths.                   *)
EXTENDS ControlPipeline

MCRestRoll == -8

Frame(pitch, roll) == [pitch |-> pitch, roll |-> roll, live |-> TRUE, button |-> "none"]

\* Level, the rest pose, and poses at the limits.
Poses == {Frame(0, 0), Frame(0, -8), Frame(3, 10), Frame(-10, -2)}

\* With an opposite roll at a button edge, a frame of quality 0 and a stale frame.
MCFrames ==
  Poses \cup {[pitch |-> 0, roll |-> -8, live |-> FALSE, button |-> "held"],
              [pitch |-> 0, roll |-> 7, live |-> TRUE, button |-> "down"], Neutral}

\* All fields, or one field and failing writes of one setting.
MCScenarios ==
  {[fields |-> Fields, failing |-> {}]}
  \cup {[fields |-> {"swapPitchRoll"}, failing |-> {x}] : x \in Settings}
=============================================================================
