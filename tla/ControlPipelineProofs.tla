------------------------- MODULE ControlPipelineProofs -------------------------
(***************************************************************************)
(* Proofs about ControlPipeline, for every set of frames, every map and    *)
(* all thresholds that satisfy the module's assumptions.                   *)
(*                                                                         *)
(* The argument: each stage of the pipeline keeps a control a control      *)
(* (the lemmas of the first section).  The freshness of a live control is  *)
(* not inductive by itself: FreshUntilCheck bounds the age of the frame by *)
(* the time since the stale timer last looked.  That frames move the pose  *)
(* calmly needs UnusableIsLevel, because protection compares a frame with  *)
(* the pose only if the last control was live, smoothing starts at level   *)
(* otherwise.                                                              *)
(***************************************************************************)
EXTENDS ControlPipeline, TLAPS

FreshUntilCheck == frameAge # Never => frameAge =< StaleAfter + sinceCheck

UnusableIsLevel == ~lastControl.live => lastControl.pitch = 0 /\ lastControl.roll = 0

IInv ==
  /\ TypeOK
  /\ NeutralWithoutFrames
  /\ FreshUntilCheck
  /\ LivePoseIsCurrent
  /\ UnusableIsLevel

\* Only a failed write makes a file differ from the setting.
FilesAreCurrent ==
  /\ "calibration" \notin unsaved => calibrationFile = calibration
  /\ "map" \notin unsaved => mapFile = map

-----------------------------------------------------------------------------
(* The stages.                                                             *)

\* A control is given by its four fields.
LEMMA ControlFields ==
  ASSUME NEW c \in Control
  PROVE  /\ c.pitch \in Axis /\ c.pitch \in Int /\ c.roll \in Axis /\ c.roll \in Int
         /\ c.live \in BOOLEAN /\ c.button \in Buttons
  BY UnitAssumption DEF Control, Axis

LEMMA NeutralControl == Neutral \in Control /\ ~Neutral.live /\ Neutral.pitch = 0 /\ Neutral.roll = 0
  BY UnitAssumption DEF Neutral, Control, Axis, Buttons

\* The orientation map only swaps and inverts axes.
LEMMA RemappedControl ==
  ASSUME NEW c \in Control, NEW m
  PROVE  Remapped(c, m) \in Control /\ Remapped(c, m).live = c.live
<1>1. \A v \in Axis : -v \in Axis
  BY UnitAssumption DEF Axis
<1>2. c.pitch \in Axis /\ c.roll \in Axis /\ c.live \in BOOLEAN /\ c.button \in Buttons
  BY ControlFields
<1> DEFINE pitch == IF "swapPitchRoll" \in m THEN c.roll ELSE c.pitch
           roll  == IF "swapPitchRoll" \in m THEN c.pitch ELSE c.roll
           p == IF "invertPitch" \in m THEN -pitch ELSE pitch
           r == IF "invertRoll" \in m THEN -roll ELSE roll
<1>3. pitch \in Axis /\ roll \in Axis
  BY <1>2
<1> HIDE DEF pitch, roll
<1>4. p \in Axis /\ r \in Axis
  BY <1>1, <1>3
<1> HIDE DEF p, r
<1>5. [pitch |-> p, roll |-> r, live |-> c.live, button |-> c.button] \in Control
  BY <1>2, <1>4 DEF Control
<1>6. Remapped(c, m) = [pitch |-> p, roll |-> r, live |-> c.live, button |-> c.button]
  BY DEF Remapped, pitch, roll, p, r
<1> QED
  BY <1>5, <1>6

\* The offset cannot take an axis out of its range.
LEMMA CalibratedControl ==
  ASSUME NEW c \in Control, NEW offset \in [pitch: Axis, roll: Axis]
  PROVE  Calibrated(c, offset) \in Control
<1>1. \A v \in Int : ClampUnit(v) \in Axis
  BY UnitAssumption DEF ClampUnit, Axis
<1>2. offset.pitch \in Int /\ offset.roll \in Int
  BY UnitAssumption DEF Axis
<1>3. ClampUnit(c.pitch - offset.pitch) \in Axis /\ ClampUnit(c.roll - offset.roll) \in Axis
  BY <1>1, <1>2, ControlFields
<1> DEFINE p == ClampUnit(c.pitch - offset.pitch)
           r == ClampUnit(c.roll - offset.roll)
<1> HIDE DEF p, r
<1>4. [pitch |-> p, roll |-> r, live |-> TRUE, button |-> c.button] \in Control
  BY <1>3, ControlFields DEF Control, p, r
<1> QED
  BY <1>4, NeutralControl DEF Calibrated, p, r

\* Protection passes a control on or levels it.  What it passes on from an
\* unusable previous control is not extreme, from a usable one not abrupt.
LEMMA ProtectedControl ==
  ASSUME NEW previous \in Control, NEW c \in Control
  PROVE  LET s == Protected(previous, c)
         IN  /\ s \in Control
             /\ ~s.live => s.pitch = 0 /\ s.roll = 0
             /\ s.live => s = c
             /\ s.live /\ ~previous.live => ~IsExtreme(s)
             /\ s.live /\ previous.live => ~HasAbruptStep(previous, s)
<1>1. /\ NeutralWithButton(c) \in Control /\ ~NeutralWithButton(c).live
      /\ NeutralWithButton(c).pitch = 0 /\ NeutralWithButton(c).roll = 0
  BY ControlFields, UnitAssumption DEF NeutralWithButton, Control, Axis
<1>2. CASE Protected(previous, c) = NeutralWithButton(c)
  BY <1>1, <1>2
<1>3. CASE Protected(previous, c) # NeutralWithButton(c)
  <2>1. /\ c.live /\ ~(~previous.live /\ IsExtreme(c))
        /\ ~(previous.live /\ HasAbruptStep(previous, c))
        /\ Protected(previous, c) = c
    BY <1>3 DEF Protected
  <2> QED
    BY <2>1
<1> QED
  BY <1>2, <1>3

\* A quarter of the way stays between the two poses, and is a small step
\* unless they are abruptly apart.
LEMMA LerpBetween ==
  ASSUME NEW from \in Axis, NEW to \in Axis
  PROVE  /\ Lerp(from, to) \in Axis
         /\ Abs(to - from) < ExtremeStep => Abs(Lerp(from, to) - from) =< CalmStep
<1>1. /\ Unit \in Int /\ ExtremeStep \in Int /\ from \in Int /\ to \in Int
      /\ -Unit =< from /\ from =< Unit /\ -Unit =< to /\ to =< Unit
  BY UnitAssumption DEF Axis
<1> DEFINE q == (to - from) \div 4
<1>2. q \in Int /\ 4 * q =< to - from /\ to - from < 4 * q + 4
  BY <1>1
<1>3. CalmStep \in Int /\ 4 * CalmStep =< ExtremeStep + 2 /\ ExtremeStep + 2 < 4 * CalmStep + 4
  BY <1>1 DEF CalmStep
<1> HIDE DEF q
<1>4. from + q \in Axis
  BY <1>1, <1>2 DEF Axis
<1>5. Abs(to - from) < ExtremeStep => Abs((from + q) - from) =< CalmStep
  BY <1>1, <1>2, <1>3 DEF Abs
<1> QED
  BY <1>4, <1>5 DEF Lerp, q

LEMMA SmoothedControl ==
  ASSUME NEW previous \in Control, NEW c \in Control
  PROVE  LET s == Smoothed(previous, c)
         IN  /\ s \in Control
             /\ ~c.live => s = c
             /\ c.live => /\ s.live
                          /\ s.pitch = Lerp(IF previous.live THEN previous.pitch ELSE 0, c.pitch)
                          /\ s.roll = Lerp(IF previous.live THEN previous.roll ELSE 0, c.roll)
<1> DEFINE p == Lerp(IF previous.live THEN previous.pitch ELSE 0, c.pitch)
           r == Lerp(IF previous.live THEN previous.roll ELSE 0, c.roll)
<1>1. 0 \in Axis
  BY UnitAssumption DEF Axis
<1>2. p \in Axis /\ r \in Axis
  BY <1>1, LerpBetween, ControlFields
<1> HIDE DEF p, r
<1>3. [pitch |-> p, roll |-> r, live |-> TRUE, button |-> c.button] \in Control
  BY <1>2, ControlFields DEF Control
<1>4. CASE c.live
  <2>1. Smoothed(previous, c) = [pitch |-> p, roll |-> r, live |-> TRUE, button |-> c.button]
    BY <1>4 DEF Smoothed, p, r
  <2> QED
    BY <1>3, <1>4, <2>1 DEF p, r
<1>5. CASE ~c.live
  BY <1>5 DEF Smoothed
<1> QED
  BY <1>4, <1>5

LEMMA LevelledControl ==
  ASSUME NEW c \in Control
  PROVE  /\ Levelled(c) \in Control
         /\ Levelled(c).pitch = 0 /\ Levelled(c).roll = 0
<1>1. 0 \in Axis /\ c.live \in BOOLEAN /\ c.button \in Buttons
  BY UnitAssumption, ControlFields DEF Axis
<1> QED
  BY <1>1 DEF Levelled, Control

LEMMA WindowType ==
  ASSUME NEW c \in Control, TypeOK
  PROVE  WindowAfter(c) \in [since: Never..StableFor, last: Never..(MaxFrameGap + 1)]
<1>1. window.since \in Never..StableFor /\ Never \in Never..StableFor /\ 0 \in Never..StableFor
  BY TimeAssumption DEF TypeOK, Never
<1>2. Never \in Never..(MaxFrameGap + 1) /\ 0 \in Never..(MaxFrameGap + 1)
  BY TimeAssumption DEF Never
<1> DEFINE since == IF window.last > MaxFrameGap THEN Never ELSE window.since
           s == IF ~NearRest(c) THEN Never ELSE IF since = Never THEN 0 ELSE since
<1>3. s \in Never..StableFor
  BY <1>1
<1>4. CASE c.live
  <2>1. WindowAfter(c) = [since |-> s, last |-> 0]
    BY <1>4 DEF WindowAfter
  <2> HIDE DEF s
  <2> QED
    BY <1>2, <1>3, <2>1
<1>5. CASE ~c.live
  BY <1>1, <1>2, <1>5 DEF WindowAfter, NoWindow
<1> QED
  BY <1>4, <1>5

\* What a frame publishes: a control; level if it is unusable or levelled,
\* else a quarter of a step towards a pose that is not abruptly away.
LEMMA FramePublishes ==
  ASSUME TypeOK, NEW n \in Frames, DeviceFrame(n)
  PROVE  /\ lastControl' \in Control
         /\ window' \in [since: Never..StableFor, last: Never..(MaxFrameGap + 1)]
         /\ UnusableIsLevel'
         /\ UnusableIsLevel => Calm
<1> DEFINE s == Protected(lastControl, Calibrated(Remapped(n, map), calibration))
           last == lastControl
<1>1. n \in Control /\ last \in Control /\ calibration \in [pitch: Axis, roll: Axis]
  BY InputAssumption DEF TypeOK
<1>2. /\ s \in Control
      /\ ~s.live => s.pitch = 0 /\ s.roll = 0
      /\ s.live /\ ~last.live => ~IsExtreme(s)
      /\ s.live /\ last.live => ~HasAbruptStep(last, s)
  BY <1>1, RemappedControl, CalibratedControl, ProtectedControl
<1>3. /\ window' = WindowAfter(s)
      /\ lastControl' = IF IsLevelled(s) THEN Levelled(s) ELSE Smoothed(last, s)
  BY DEF DeviceFrame
<1> HIDE DEF s, last
<1>4. window' \in [since: Never..StableFor, last: Never..(MaxFrameGap + 1)]
  BY <1>2, <1>3, WindowType
<1>5. CASE IsLevelled(s)
  BY <1>2, <1>3, <1>4, <1>5, LevelledControl DEF Calm, UnusableIsLevel
<1>6. CASE ~IsLevelled(s) /\ ~s.live
  BY <1>1, <1>2, <1>3, <1>4, <1>6, SmoothedControl DEF Calm, UnusableIsLevel
<1>7. CASE ~IsLevelled(s) /\ s.live
  <2>1. /\ lastControl' \in Control /\ lastControl'.live
        /\ lastControl'.pitch = Lerp(IF last.live THEN last.pitch ELSE 0, s.pitch)
        /\ lastControl'.roll = Lerp(IF last.live THEN last.roll ELSE 0, s.roll)
    BY <1>1, <1>2, <1>3, <1>7, SmoothedControl
  <2>2. /\ last.pitch \in Axis /\ last.roll \in Axis /\ s.pitch \in Axis /\ s.roll \in Axis
        /\ 0 \in Axis
    BY <1>1, <1>2, ControlFields, UnitAssumption DEF Axis
  <2>3. UnusableIsLevel => Calm
    <3> SUFFICES ASSUME UnusableIsLevel PROVE Calm
      OBVIOUS
    <3>1. /\ lastControl'.pitch = Lerp(last.pitch, s.pitch)
          /\ lastControl'.roll = Lerp(last.roll, s.roll)
      BY <2>1 DEF UnusableIsLevel, last
    <3>2. Abs(s.pitch - last.pitch) < ExtremeStep /\ Abs(s.roll - last.roll) < ExtremeStep
      <4>1. CASE last.live
        BY <1>2, <1>7, <2>2, <4>1, UnitAssumption DEF HasAbruptStep, Abs, Axis
      <4>2. CASE ~last.live
        <5>1. last.pitch = 0 /\ last.roll = 0
          BY <4>2 DEF UnusableIsLevel, last
        <5> QED
          BY <1>2, <1>7, <2>2, <4>2, <5>1, UnitAssumption DEF IsExtreme, Abs, Axis
      <4> QED
        BY <4>1, <4>2
    <3>3. /\ Abs(lastControl'.pitch - last.pitch) =< CalmStep
          /\ Abs(lastControl'.roll - last.roll) =< CalmStep
      BY <2>2, <3>1, <3>2, LerpBetween
    <3> QED
      BY <3>3 DEF Calm, last
  <2> QED
    BY <1>4, <2>1, <2>3 DEF UnusableIsLevel
<1> QED
  BY <1>5, <1>6, <1>7

\* Publishing again after the operator changed the calibration or the map:
\* a control, level if unusable, and nothing at all without a current frame.
LEMMA RepublishedControl ==
  ASSUME TypeOK, UnusableIsLevel, calibration' \in [pitch: Axis, roll: Axis],
         PublishCurrentCalibratedControl
  PROVE  /\ lastControl' \in Control
         /\ UnusableIsLevel'
         /\ lastNormalized = None => UNCHANGED lastControl
<1>1. CASE lastNormalized = None
  BY <1>1 DEF PublishCurrentCalibratedControl, TypeOK, UnusableIsLevel
<1>2. CASE lastNormalized # None
  <2>1. lastNormalized \in Control
    BY <1>2 DEF TypeOK
  <2> DEFINE c == Calibrated(Remapped(lastNormalized, map'), calibration')
  <2>2. c \in Control
    BY <2>1, RemappedControl, CalibratedControl
  <2>3. lastControl' = Protected(Neutral, c)
    BY <1>2 DEF PublishCurrentCalibratedControl
  <2> HIDE DEF c
  <2> QED
    BY <1>2, <2>2, <2>3, NeutralControl, ProtectedControl DEF UnusableIsLevel
<1> QED
  BY <1>1, <1>2

\* What is published when the device is lost.
LEMMA LostPose ==
  ASSUME TypeOK, ClearCurrentDevicePose, NeutralPublished
  PROVE  /\ lastControl' \in Control /\ lastNormalized' \in Control \cup {None}
         /\ frameAge' \in Never..AgeCap /\ lastLive' \in Control \cup {None}
         /\ window' \in [since: Never..StableFor, last: Never..(MaxFrameGap + 1)]
         /\ NeutralWithoutFrames' /\ FreshUntilCheck' /\ LivePoseIsCurrent' /\ UnusableIsLevel'
<1>1. Never \in Never..AgeCap /\ Never \in Never..StableFor /\ Never \in Never..(MaxFrameGap + 1)
  BY TimeAssumption DEF Never, AgeCap
<1>2. lastControl' = Neutral /\ lastNormalized' = None /\ frameAge' = Never
      /\ lastLive' = None /\ window' = NoWindow
  BY DEF ClearCurrentDevicePose, LivePoseCleared, NeutralPublished
<1>3. NoWindow \in [since: Never..StableFor, last: Never..(MaxFrameGap + 1)]
  BY <1>1 DEF NoWindow
<1> QED
  BY <1>1, <1>2, <1>3, NeutralControl
     DEF NeutralWithoutFrames, FreshUntilCheck, LivePoseIsCurrent, UnusableIsLevel

-----------------------------------------------------------------------------
(* The invariant.                                                          *)

LEMMA InitIInv == Init => IInv
<1> SUFFICES ASSUME Init PROVE IInv
  OBVIOUS
<1>1. lastControl \in Control /\ UnusableIsLevel
  BY NeutralControl DEF Init, UnusableIsLevel
<1>2. 0 \in Axis
  BY UnitAssumption DEF Axis
<1>3. calibration \in [pitch: Axis, roll: Axis] /\ map \in SUBSET Fields
  BY <1>2 DEF Init, DefaultCalibration, DefaultMap
<1>4. /\ Never \in Never..AgeCap
      /\ Never \in Never..StableFor /\ Never \in Never..(MaxFrameGap + 1)
      /\ sinceCheck \in 0..CheckEvery
  BY TimeAssumption DEF Init, Never, AgeCap
<1>5. window \in [since: Never..StableFor, last: Never..(MaxFrameGap + 1)]
  BY <1>4 DEF Init, NoWindow
<1>6. TypeOK
  BY <1>1, <1>3, <1>4, <1>5 DEF Init, TypeOK
<1> QED
  BY <1>1, <1>6 DEF Init, IInv, NeutralWithoutFrames, FreshUntilCheck, LivePoseIsCurrent

LEMMA FrameStep ==
  ASSUME IInv, NEW n \in Frames, DeviceFrame(n)
  PROVE  IInv'
<1> USE DEF IInv
<1>1. /\ lastControl' \in Control /\ UnusableIsLevel'
      /\ window' \in [since: Never..StableFor, last: Never..(MaxFrameGap + 1)]
  BY FramePublishes
<1>2. n \in Control
  BY InputAssumption
<1>3. Remapped(n, map) \in Control /\ Remapped(n, map).live = n.live
  BY <1>2, RemappedControl
<1>4. frameAge' = 0 /\ frameAge' \in Never..AgeCap /\ frameAge' # Never
  BY TimeAssumption DEF DeviceFrame, Never, AgeCap
<1>5. lastNormalized' = n /\ lastNormalized' \in Control \cup {None} /\ n # None
  BY <1>2, InputAssumption DEF DeviceFrame
<1>6. lastLive' = IF n.live THEN Remapped(n, map) ELSE None
  BY <1>3 DEF DeviceFrame
<1>7. UNCHANGED <<settings, sinceCheck, files, scenario>>
  BY DEF DeviceFrame
<1>8. TypeOK'
  BY <1>1, <1>3, <1>4, <1>5, <1>6, <1>7 DEF TypeOK, settings, files
<1>9. FreshUntilCheck'
  BY <1>4, <1>7, TimeAssumption DEF FreshUntilCheck, TypeOK
<1>10. NeutralWithoutFrames' /\ LivePoseIsCurrent'
  BY <1>4, <1>5, <1>6 DEF NeutralWithoutFrames, LivePoseIsCurrent
<1> QED
  BY <1>1, <1>8, <1>9, <1>10

LEMMA LostStep ==
  ASSUME IInv, DeviceLost
  PROVE  IInv'
<1>1. ClearCurrentDevicePose /\ NeutralPublished /\ UNCHANGED <<settings, sinceCheck, files, scenario>>
  BY DEF DeviceLost
<1> QED
  BY <1>1, LostPose DEF IInv, TypeOK, settings, files

\* A frame that is not stale when the timer looks is young enough for the
\* whole next period.
LEMMA CheckStep ==
  ASSUME IInv, StaleCheck
  PROVE  IInv'
<1> USE DEF IInv
<1>1. sinceCheck' = 0 /\ sinceCheck' \in 0..CheckEvery /\ UNCHANGED <<settings, files, scenario>>
  BY TimeAssumption DEF StaleCheck
<1>2. CASE IsStale
  <2>1. ClearCurrentDevicePose /\ NeutralPublished
    BY <1>2 DEF StaleCheck
  <2> QED
    BY <1>1, <2>1, LostPose DEF TypeOK, settings, files
<1>3. CASE ~IsStale
  <2>1. UNCHANGED <<frameAge, lastNormalized, window, lastLive, lastControl>>
    BY <1>3 DEF StaleCheck
  <2>2. TypeOK'
    BY <1>1, <2>1 DEF TypeOK, settings, files
  <2>3. FreshUntilCheck'
    BY <1>1, <1>3, <2>1, TimeAssumption DEF FreshUntilCheck, IsStale, TypeOK, Never
  <2> QED
    BY <2>1, <2>2, <2>3 DEF NeutralWithoutFrames, LivePoseIsCurrent, UnusableIsLevel
<1> QED
  BY <1>2, <1>3

\* An operator's action changes the calibration or the map, with its file,
\* and publishes unless the file could not be written.
LEMMA OperatorStep ==
  ASSUME IInv, calibration' \in [pitch: Axis, roll: Axis], map' \in SUBSET Fields,
         calibrationFile' \in [pitch: Axis, roll: Axis], mapFile' \in SUBSET Fields,
         unsaved' \in SUBSET Settings,
         UNCHANGED <<lastNormalized, frameAge, lastLive, window, sinceCheck, scenario>>,
         PublishCurrentCalibratedControl \/ UNCHANGED lastControl
  PROVE  IInv'
<1> USE DEF IInv
<1>1. /\ lastControl' \in Control /\ UnusableIsLevel'
      /\ lastNormalized = None => UNCHANGED lastControl
  BY RepublishedControl DEF TypeOK, UnusableIsLevel
<1>2. TypeOK'
  BY <1>1 DEF TypeOK
<1>3. NeutralWithoutFrames'
  BY <1>1 DEF NeutralWithoutFrames
<1>4. FreshUntilCheck' /\ LivePoseIsCurrent'
  BY DEF FreshUntilCheck, LivePoseIsCurrent
<1> QED
  BY <1>1, <1>2, <1>3, <1>4

LEMMA DefaultsAreSettings ==
  DefaultCalibration \in [pitch: Axis, roll: Axis] /\ DefaultMap \in SUBSET Fields
<1>1. 0 \in Axis
  BY UnitAssumption DEF Axis
<1> QED
  BY <1>1 DEF DefaultCalibration, DefaultMap

LEMMA CalibrationStep ==
  ASSUME IInv, calibration' \in [pitch: Axis, roll: Axis], SetCalibration
  PROVE  IInv'
<1>1. UNCHANGED <<lastNormalized, frameAge, lastLive, map, mapFile, window, sinceCheck, scenario>>
  BY DEF SetCalibration
<1>2. /\ PublishCurrentCalibratedControl \/ UNCHANGED lastControl
      /\ CalibrationSaved \/ CalibrationNotSaved
  BY DEF SetCalibration
<1>3. calibrationFile' \in [pitch: Axis, roll: Axis] /\ unsaved' \in SUBSET Settings
  BY <1>2, DefaultsAreSettings
     DEF CalibrationSaved, CalibrationNotSaved, Persisted, Settings, IInv, TypeOK
<1>4. map' \in SUBSET Fields /\ mapFile' \in SUBSET Fields
  BY <1>1 DEF IInv, TypeOK
<1> QED
  BY <1>1, <1>2, <1>3, <1>4, OperatorStep

LEMMA FieldStep ==
  ASSUME IInv, NEW field \in Fields, NEW enabled \in BOOLEAN, SetField(field, enabled)
  PROVE  IInv'
<1>1. UNCHANGED <<calibration, calibrationFile, lastNormalized, frameAge, lastLive, window,
                  sinceCheck, scenario>>
  BY DEF SetField
<1>2. map' \in SUBSET Fields
  BY DEF SetField, IInv, TypeOK
<1>3. /\ PublishCurrentCalibratedControl \/ UNCHANGED lastControl
      /\ MapSaved \/ MapNotSaved
  BY DEF SetField
<1>4. mapFile' \in SUBSET Fields /\ unsaved' \in SUBSET Settings
  BY <1>2, <1>3, DefaultsAreSettings DEF MapSaved, MapNotSaved, Settings, IInv, TypeOK
<1>5. calibration' \in [pitch: Axis, roll: Axis] /\ calibrationFile' \in [pitch: Axis, roll: Axis]
  BY <1>1 DEF IInv, TypeOK
<1> QED
  BY <1>1, <1>2, <1>3, <1>4, <1>5, OperatorStep

\* A restarted Host is neutral and has no pose.
LEMMA RestartStep ==
  ASSUME IInv, HostRestart
  PROVE  IInv'
<1>1. Never \in Never..AgeCap /\ Never \in Never..StableFor /\ Never \in Never..(MaxFrameGap + 1)
      /\ 0 \in 0..CheckEvery
  BY TimeAssumption DEF Never, AgeCap
<1>2. NoWindow \in [since: Never..StableFor, last: Never..(MaxFrameGap + 1)]
  BY <1>1 DEF NoWindow
<1>3. /\ lastControl' = Neutral /\ lastNormalized' = None /\ frameAge' = Never
      /\ lastLive' = None /\ window' = NoWindow /\ sinceCheck' = 0
      /\ calibration' = calibrationFile /\ map' = mapFile /\ unsaved' = {}
      /\ calibrationFile' = calibrationFile /\ mapFile' = mapFile /\ scenario' = scenario
  BY DEF HostRestart
<1>4. TypeOK'
  BY <1>1, <1>2, <1>3, NeutralControl DEF IInv, TypeOK
<1> QED
  BY <1>3, <1>4, NeutralControl
     DEF IInv, NeutralWithoutFrames, FreshUntilCheck, LivePoseIsCurrent, UnusableIsLevel

LEMMA TickStep ==
  ASSUME IInv, Tick
  PROVE  IInv'
<1> USE DEF IInv
<1>1. \A cap \in Nat, age \in Int : age \in Never..cap => Older(age, cap) \in Never..cap
  BY DEF Older, Never
<1>2. AgeCap \in Nat /\ StableFor \in Nat /\ MaxFrameGap + 1 \in Nat
  BY TimeAssumption DEF AgeCap
<1>3. /\ frameAge \in Never..AgeCap /\ frameAge \in Int
      /\ window.since \in Never..StableFor /\ window.since \in Int
      /\ window.last \in Never..(MaxFrameGap + 1) /\ window.last \in Int
  BY <1>2 DEF TypeOK, Never
<1>4. frameAge' \in Never..AgeCap
  BY <1>1, <1>2, <1>3 DEF Tick
<1> DEFINE since == Older(window.since, StableFor)
           last == Older(window.last, MaxFrameGap + 1)
<1>5. since \in Never..StableFor /\ last \in Never..(MaxFrameGap + 1)
  BY <1>1, <1>2, <1>3
<1>6. window' = [since |-> since, last |-> last]
  BY DEF Tick
<1> HIDE DEF since, last
<1>7. window' \in [since: Never..StableFor, last: Never..(MaxFrameGap + 1)]
  BY <1>5, <1>6
<1>8. /\ sinceCheck < CheckEvery /\ sinceCheck' = sinceCheck + 1
      /\ UNCHANGED <<lastControl, lastNormalized, lastLive, settings, files, scenario>>
  BY DEF Tick
<1>9. sinceCheck' \in 0..CheckEvery
  BY <1>8, TimeAssumption DEF TypeOK
<1>10. TypeOK'
  BY <1>4, <1>7, <1>8, <1>9 DEF TypeOK, settings, files
<1>11. frameAge' = Older(frameAge, AgeCap)
  BY DEF Tick
<1>12. (frameAge' = Never) <=> (frameAge = Never)
  BY <1>3, <1>11 DEF Older, Never
<1>13. FreshUntilCheck'
  BY <1>3, <1>8, <1>11, TimeAssumption DEF FreshUntilCheck, Older, Never, TypeOK
<1> QED
  BY <1>8, <1>10, <1>12, <1>13 DEF NeutralWithoutFrames, LivePoseIsCurrent, UnusableIsLevel

LEMMA NextIInv == IInv /\ [Next]_vars => IInv'
<1> SUFFICES ASSUME IInv, [Next]_vars PROVE IInv'
  OBVIOUS
<1>1. CASE \E n \in Frames : DeviceFrame(n)
  BY <1>1, FrameStep
<1>2. CASE DeviceLost
  BY <1>2, LostStep
<1>3. CASE StaleCheck
  BY <1>3, CheckStep
<1>4. CASE CalibrateCurrentPoseAsNeutral
  <2>1. lastLive \in Control
    BY <1>4 DEF CalibrateCurrentPoseAsNeutral, IInv, TypeOK
  <2>2. calibration' = [pitch |-> lastLive.pitch, roll |-> lastLive.roll] /\ SetCalibration
    BY <1>4 DEF CalibrateCurrentPoseAsNeutral
  <2>3. calibration' \in [pitch: Axis, roll: Axis]
    BY <2>1, <2>2, ControlFields
  <2> QED
    BY <2>2, <2>3, CalibrationStep
<1>5. CASE ResetCalibration
  BY <1>5, DefaultsAreSettings, CalibrationStep DEF ResetCalibration
<1>6. CASE \E field \in Fields, enabled \in BOOLEAN : SetField(field, enabled)
  BY <1>6, FieldStep
<1>7. CASE HostRestart
  BY <1>7, RestartStep
<1>8. CASE Tick
  BY <1>8, TickStep
<1>9. CASE UNCHANGED vars
  BY <1>9 DEF vars, settings, files, IInv, TypeOK, NeutralWithoutFrames, FreshUntilCheck, LivePoseIsCurrent,
              UnusableIsLevel
<1> QED
  BY <1>1, <1>2, <1>3, <1>4, <1>5, <1>6, <1>7, <1>8, <1>9 DEF Next

LEMMA Invariance == Spec => []IInv
BY InitIInv, NextIInv, PTL DEF Spec

-----------------------------------------------------------------------------
(* The theorems.                                                           *)

\* Every published control has its axes within the unit range, whatever the
\* offsets, the map and the order of frames (control/calibration.ts clamps).
THEOREM TypeCorrect == Spec => []TypeOK
<1>1. IInv => TypeOK
  BY DEF IInv
<1> QED
  BY <1>1, Invariance, PTL

\* Without a current device pose the last control sent was the neutral one,
\* and no change of calibration or map sends another (gateway.ts,
\* #clearCurrentDevicePose and #publishCurrentCalibratedControl).
THEOREM NeutralWhenLost == Spec => []NeutralWithoutFrames
<1>1. IInv => NeutralWithoutFrames
  BY DEF IInv
<1> QED
  BY <1>1, Invariance, PTL

\* A live control rests on a frame of the last STALE_AFTER_MS plus one period
\* of the stale timer (gateway.ts, #publishStaleControlIfNeeded).
THEOREM LiveControlIsFresh == Spec => []LiveIsFresh
<1>1. IInv => LiveIsFresh
  <2> SUFFICES ASSUME IInv, lastControl.live
               PROVE  frameAge \in 0..(StaleAfter + CheckEvery)
    BY DEF LiveIsFresh
  <2>1. frameAge # Never
    BY NeutralControl DEF IInv, NeutralWithoutFrames
  <2> QED
    BY <2>1, TimeAssumption DEF IInv, TypeOK, FreshUntilCheck, Never, AgeCap
<1> QED
  BY <1>1, Invariance, PTL

\* A calibration never takes a pose from before a disconnect, a stale or an
\* unusable frame (calibration.ts, clearLivePose).
THEOREM CalibratedPoseIsCurrent == Spec => []LivePoseIsCurrent
<1>1. IInv => LivePoseIsCurrent
  BY DEF IInv
<1> QED
  BY <1>1, Invariance, PTL

\* A frame never moves the published pose further than a quarter of
\* EXTREME_STEP_UNIT, unless it levels it (safety.ts and normalizer.ts).
THEOREM FramesMoveCalmly == Spec => FrameStepsAreCalm
<1>1. IInv /\ [Next]_vars => [(\E n \in Frames : DeviceFrame(n)) => Calm]_vars
  <2> SUFFICES ASSUME IInv, NEW n \in Frames, DeviceFrame(n) PROVE Calm
    OBVIOUS
  <2> QED
    BY FramePublishes DEF IInv
<1> QED
  BY <1>1, Invariance, PTL DEF Spec, FrameStepsAreCalm

\* The button passes the stages of the pipeline, unless the control is unusable.
LEMMA CalibratedButton ==
  ASSUME NEW c, NEW m, NEW offset
  PROVE  Calibrated(Remapped(c, m), offset).button = IF c.live THEN c.button ELSE "none"
<1>1. Remapped(c, m).live = c.live /\ Remapped(c, m).button = c.button
  BY DEF Remapped
<1> QED
  BY <1>1 DEF Calibrated, Neutral

LEMMA ProtectedButton ==
  ASSUME NEW previous, NEW c
  PROVE  Protected(previous, c).button = c.button
BY DEF Protected, NeutralWithButton

\* Subscribers see the button of the current device's last frame: protection
\* keeps it (safety.ts), losing the device releases it (gateway.ts).
THEOREM ButtonFollowsFrame == Spec => []ButtonIsCurrent
<1>1. Init => ButtonIsCurrent
  BY DEF Init, ButtonIsCurrent, Neutral
<1>2. IInv /\ ButtonIsCurrent /\ [Next]_vars => ButtonIsCurrent'
  <2> SUFFICES ASSUME IInv, ButtonIsCurrent, [Next]_vars PROVE ButtonIsCurrent'
    OBVIOUS
  <2>1. ASSUME NEW n \in Frames, DeviceFrame(n) PROVE ButtonIsCurrent'
    <3> DEFINE c == Calibrated(Remapped(n, map), calibration)
               s == Protected(lastControl, c)
    <3>1. s.button = IF n.live THEN n.button ELSE "none"
      BY CalibratedButton, ProtectedButton
    <3>2. /\ lastNormalized' = n /\ n # None
          /\ lastControl' = IF IsLevelled(s) THEN Levelled(s) ELSE Smoothed(lastControl, s)
      BY <2>1, InputAssumption DEF DeviceFrame
    <3> HIDE DEF s
    <3>3. lastControl'.button = s.button
      BY <3>2 DEF Levelled, Smoothed
    <3> QED
      BY <3>1, <3>2, <3>3 DEF ButtonIsCurrent
  <2>2. ASSUME ClearCurrentDevicePose, NeutralPublished PROVE ButtonIsCurrent'
    BY <2>2 DEF ClearCurrentDevicePose, NeutralPublished, ButtonIsCurrent, Neutral
  <2>3. ASSUME PublishCurrentCalibratedControl, UNCHANGED lastNormalized
        PROVE  ButtonIsCurrent'
    <3>1. CASE lastNormalized = None
      BY <2>3, <3>1 DEF PublishCurrentCalibratedControl, ButtonIsCurrent
    <3>2. CASE lastNormalized # None
      <4> DEFINE c == Calibrated(Remapped(lastNormalized, map'), calibration')
      <4>1. lastControl' = Protected(Neutral, c)
        BY <2>3, <3>2 DEF PublishCurrentCalibratedControl
      <4>2. c.button = IF lastNormalized.live THEN lastNormalized.button ELSE "none"
        BY CalibratedButton
      <4> HIDE DEF c
      <4>3. lastControl'.button = c.button
        BY <4>1, ProtectedButton
      <4> QED
        BY <2>3, <3>2, <4>2, <4>3 DEF ButtonIsCurrent
    <3> QED
      BY <3>1, <3>2
  <2>4. ASSUME UNCHANGED <<lastControl, lastNormalized>> PROVE ButtonIsCurrent'
    BY <2>4 DEF ButtonIsCurrent
  <2>5. CASE DeviceLost
    BY <2>2, <2>5 DEF DeviceLost
  <2>6. CASE StaleCheck
    BY <2>2, <2>4, <2>6 DEF StaleCheck
  <2>7. ASSUME SetCalibration PROVE ButtonIsCurrent'
    <3>1. UNCHANGED lastNormalized /\ (PublishCurrentCalibratedControl \/ UNCHANGED lastControl)
      BY <2>7 DEF SetCalibration
    <3> QED
      BY <2>3, <2>4, <3>1
  <2>8. CASE CalibrateCurrentPoseAsNeutral \/ ResetCalibration
    BY <2>7, <2>8 DEF CalibrateCurrentPoseAsNeutral, ResetCalibration
  <2>9. ASSUME NEW field \in Fields, NEW enabled \in BOOLEAN, SetField(field, enabled)
        PROVE  ButtonIsCurrent'
    <3>1. UNCHANGED lastNormalized /\ (PublishCurrentCalibratedControl \/ UNCHANGED lastControl)
      BY <2>9 DEF SetField
    <3> QED
      BY <2>3, <2>4, <3>1
  <2>10. CASE HostRestart
    BY <2>10 DEF HostRestart, ButtonIsCurrent, Neutral
  <2>11. CASE Tick
    BY <2>4, <2>11 DEF Tick
  <2>12. CASE UNCHANGED vars
    BY <2>4, <2>12 DEF vars
  <2> QED
    BY <2>1, <2>5, <2>6, <2>8, <2>9, <2>10, <2>11, <2>12 DEF Next
<1> QED
  BY <1>1, <1>2, Invariance, PTL DEF Spec

\* With a frame since the last change of the map, calibrating levels the
\* published pose and keeps it live (calibration.ts, gateway.ts).
THEOREM CalibratingLevels == Spec => CalibrationLevels
<1>1. IInv /\ [Next]_vars =>
        [PoseIsCalibrated =>
           lastControl'.live /\ lastControl'.pitch = 0 /\ lastControl'.roll = 0]_vars
  <2> SUFFICES ASSUME IInv, PoseIsCalibrated
               PROVE  lastControl'.live /\ lastControl'.pitch = 0 /\ lastControl'.roll = 0
    OBVIOUS
  <2>1. /\ lastLive # None /\ calibration' = [pitch |-> lastLive.pitch, roll |-> lastLive.roll]
        /\ map' = map /\ PublishCurrentCalibratedControl
        /\ lastLive = Remapped(lastNormalized, map)
    BY DEF PoseIsCalibrated, CalibrateCurrentPoseAsNeutral, SetCalibration, CalibrationNotSaved
  <2>2. lastNormalized # None /\ lastNormalized.live
    BY <2>1 DEF IInv, LivePoseIsCurrent
  <2>3. lastNormalized \in Control /\ lastLive \in Control /\ lastLive.live
    BY <2>1, <2>2, RemappedControl DEF IInv, TypeOK
  <2>4. lastControl' = Protected(Neutral, Calibrated(lastLive, calibration'))
    BY <2>1, <2>2 DEF PublishCurrentCalibratedControl
  <2>5. ClampUnit(lastLive.pitch - lastLive.pitch) = 0 /\ ClampUnit(lastLive.roll - lastLive.roll) = 0
    BY <2>3, ControlFields, UnitAssumption DEF ClampUnit
  <2> DEFINE c == [pitch |-> 0, roll |-> 0, live |-> TRUE, button |-> lastLive.button]
  <2>6. Calibrated(lastLive, calibration') = c
    BY <2>1, <2>3, <2>5 DEF Calibrated
  <2>7. ~IsExtreme(c) /\ c.live /\ ~Neutral.live
    BY UnitAssumption DEF IsExtreme, Abs, Neutral
  <2> HIDE DEF c
  <2>8. Protected(Neutral, c) = c
    BY <2>7 DEF Protected
  <2> QED
    BY <2>4, <2>6, <2>8 DEF c
<1> QED
  BY <1>1, Invariance, PTL DEF Spec, CalibrationLevels

LEMMA FilesInvariance == Spec => []FilesAreCurrent
<1>1. Init => FilesAreCurrent
  BY DEF Init, FilesAreCurrent
<1>2. FilesAreCurrent /\ [Next]_vars => FilesAreCurrent'
  <2> SUFFICES ASSUME FilesAreCurrent, [Next]_vars PROVE FilesAreCurrent'
    OBVIOUS
  <2>1. ASSUME UNCHANGED <<settings, files>> PROVE FilesAreCurrent'
    BY <2>1 DEF FilesAreCurrent, settings, files
  <2>2. CASE \E n \in Frames : DeviceFrame(n)
    BY <2>1, <2>2 DEF DeviceFrame
  <2>3. CASE DeviceLost
    BY <2>1, <2>3 DEF DeviceLost
  <2>4. CASE StaleCheck
    BY <2>1, <2>4 DEF StaleCheck
  <2>5. CASE CalibrateCurrentPoseAsNeutral \/ ResetCalibration
    BY <2>5 DEF CalibrateCurrentPoseAsNeutral, ResetCalibration, SetCalibration,
       CalibrationSaved, CalibrationNotSaved, Persisted, FilesAreCurrent
  <2>6. CASE \E field \in Fields, enabled \in BOOLEAN : SetField(field, enabled)
    BY <2>6 DEF SetField, MapSaved, MapNotSaved, FilesAreCurrent
  <2>7. CASE HostRestart
    BY <2>7 DEF HostRestart, FilesAreCurrent
  <2>8. CASE Tick
    BY <2>1, <2>8 DEF Tick
  <2>9. CASE UNCHANGED vars
    BY <2>1, <2>9 DEF vars
  <2> QED
    BY <2>2, <2>3, <2>4, <2>5, <2>6, <2>7, <2>8, <2>9 DEF Next
<1> QED
  BY <1>1, <1>2, PTL DEF Spec

\* Calibration and map survive a restart, a failed write of the other one and
\* one of their own that was made good (calibration.ts, orientation-map.ts).
THEOREM SettingsSurviveRestart == Spec => SettingsSurvive
<1>1. FilesAreCurrent /\ [Next]_vars =>
        [HostRestart => /\ "calibration" \notin unsaved => calibration' = calibration
                        /\ "map" \notin unsaved => map' = map]_vars
  BY DEF FilesAreCurrent, HostRestart
<1> QED
  BY <1>1, FilesInvariance, PTL DEF Spec, SettingsSurvive
=============================================================================
