---------------------------- MODULE ControlPipeline ----------------------------
(***************************************************************************)
(* From device frames to the control stream: the /ws/device handlers, the  *)
(* stale timer and the publishing of ws/gateway.ts with the modules it     *)
(* calls under control/ (normalizer, orientation map, calibration, safety, *)
(* auto-neutralizer).                                                      *)
(*                                                                         *)
(* An axis is an integer, Unit standing for 1.0, so the quarter step of    *)
(* the smoothing is rounded down.  Of the quality only its sign is kept.   *)
(* Instants are ages, counted in clock ticks up to the first value at      *)
(* which every comparison has settled; Never stands for null.              *)
(***************************************************************************)
EXTENDS Integers

CONSTANTS
  Unit,           \* 1.0 of a normalized axis
  ExtremeResume,  \* EXTREME_RESUME_UNIT
  ExtremeStep,    \* EXTREME_STEP_UNIT
  RestPitch, RestRoll, Tolerance,  \* the rest pose of the auto-neutralizer
  StableFor,      \* DEFAULT_STABLE_DURATION_MS
  MaxFrameGap,    \* DEFAULT_MAX_FRAME_GAP_MS
  StaleAfter,     \* STALE_AFTER_MS
  CheckEvery,     \* STALE_CHECK_INTERVAL_MS
  Frames,         \* the normalized orientation frames that devices send
  Scenarios,      \* bound: fields the operator uses, settings whose writes may fail
  None            \* null

Axis == (-Unit)..Unit
\* buttonPressed, buttonDown and buttonUp: pressed now, held, released now.
Buttons == {"none", "down", "held", "up"}
Fields == {"swapPitchRoll", "invertPitch", "invertRoll"}
Settings == {"calibration", "map"}
Control == [pitch: Axis, roll: Axis, live: BOOLEAN, button: Buttons]

ASSUME UnitAssumption ==
  /\ Unit \in Nat \ {0}
  /\ ExtremeStep \in 1..Unit /\ ExtremeResume \in 1..ExtremeStep
  /\ RestPitch \in Int /\ RestRoll \in Int /\ Tolerance \in Nat
ASSUME TimeAssumption ==
  /\ StableFor \in Nat \ {0} /\ MaxFrameGap \in Nat
  /\ StaleAfter \in Nat /\ CheckEvery \in Nat \ {0}
ASSUME InputAssumption ==
  /\ Frames \subseteq Control
  /\ Scenarios \subseteq [fields: SUBSET Fields, failing: SUBSET Settings]
  /\ None \notin Control

VARIABLES
  lastControl,     \* #lastControl, the last control published
  lastNormalized,  \* #lastNormalizedControl
  frameAge,        \* #lastDeviceFrameAt
  lastLive,        \* M5ControlCalibrator.#lastLiveInput
  calibration,     \* M5ControlCalibrator.#calibration
  map,             \* M5OrientationMapper.#map: the fields that are true
  window,          \* the auto-neutralizer's stableSinceMs and lastFrameAtMs
  sinceCheck,      \* time since the stale timer fired
  calibrationFile, \* what a start would read from .icaros/m5-calibration.json
  mapFile,         \* ... and from .icaros/m5-orientation-map.json
  unsaved,         \* the settings whose last write has failed (history)
  scenario         \* which of the Scenarios this is

settings == <<calibration, map>>
files == <<calibrationFile, mapFile, unsaved>>
vars == <<lastControl, lastNormalized, frameAge, lastLive, settings, window,
          sinceCheck, files, scenario>>

Never == -1
AgeCap == StaleAfter + CheckEvery + 1
NoWindow == [since |-> Never, last |-> Never]
DefaultCalibration == [pitch |-> 0, roll |-> 0]
DefaultMap == {}

TypeOK ==
  /\ lastControl \in Control
  /\ lastNormalized \in Control \cup {None}
  /\ frameAge \in Never..AgeCap
  /\ lastLive \in Control \cup {None}
  /\ calibration \in [pitch: Axis, roll: Axis]
  /\ map \in SUBSET Fields
  /\ window \in [since: Never..StableFor, last: Never..(MaxFrameGap + 1)]
  /\ sinceCheck \in 0..CheckEvery
  /\ calibrationFile \in [pitch: Axis, roll: Axis]
  /\ mapFile \in SUBSET Fields
  /\ unsaved \in SUBSET Settings
  /\ scenario \in Scenarios

-----------------------------------------------------------------------------
(* The stages of the pipeline.                                             *)

Abs(v) == IF v < 0 THEN -v ELSE v

\* createNeutralControl and createNeutralControlWithButton
Neutral == [pitch |-> 0, roll |-> 0, live |-> FALSE, button |-> "none"]
NeutralNoButton(c) == Neutral   \* MUTANT
NeutralWithButton(c) == [pitch |-> 0, roll |-> 0, live |-> FALSE, button |-> c.button]

\* applyM5OrientationMap
Remapped(c, m) ==
  LET pitch == IF "swapPitchRoll" \in m THEN c.roll ELSE c.pitch
      roll  == IF "swapPitchRoll" \in m THEN c.pitch ELSE c.roll
  IN  [pitch |-> IF "invertPitch" \in m THEN -pitch ELSE pitch,
       roll |-> IF "invertRoll" \in m THEN -roll ELSE roll,
       live |-> c.live, button |-> c.button]

ClampUnit(v) == IF v > Unit THEN Unit ELSE IF v < -Unit THEN -Unit ELSE v

\* MUTANT: pitch and roll of the offset are swapped.
CalibratedCrosswise(c, offset) ==
  IF c.live
  THEN [pitch |-> ClampUnit(c.pitch - offset.roll), roll |-> ClampUnit(c.roll - offset.pitch),
        live |-> TRUE, button |-> c.button]
  ELSE Neutral
\* applyM5ControlCalibration
Calibrated(c, offset) ==
  IF c.live
  THEN [pitch |-> ClampUnit(c.pitch - offset.pitch), roll |-> ClampUnit(c.roll - offset.roll),
        live |-> TRUE, button |-> c.button]
  ELSE Neutral

IsExtreme(c) == Abs(c.pitch) >= ExtremeResume \/ Abs(c.roll) >= ExtremeResume

AbruptPitch(p, c) == Abs(c.pitch - p.pitch) >= ExtremeStep   \* MUTANT: roll forgotten
HasAbruptStep(p, c) ==
  Abs(c.pitch - p.pitch) >= ExtremeStep \/ Abs(c.roll - p.roll) >= ExtremeStep

\* protectControlOrientation
Protected(previous, c) ==
  IF \/ ~c.live
     \/ ~previous.live /\ IsExtreme(c)
     \/ previous.live /\ HasAbruptStep(previous, c)
  THEN NeutralWithButton(c) ELSE c

\* smoothControlOrientation, a quarter of the way
Lerp(from, to) == from + ((to - from) \div 4)
Smoothed(previous, c) ==
  IF ~c.live THEN c
  ELSE [pitch |-> Lerp(IF previous.live THEN previous.pitch ELSE 0, c.pitch),
        roll |-> Lerp(IF previous.live THEN previous.roll ELSE 0, c.roll),
        live |-> TRUE, button |-> c.button]

NearRest(c) == Abs(c.pitch - RestPitch) =< Tolerance /\ Abs(c.roll - RestRoll) =< Tolerance

\* AutoNeutralizer.process: the window after control c, and whether c is levelled.
WindowAfter(c) ==
  IF ~c.live THEN NoWindow
  ELSE LET since == IF window.last > MaxFrameGap THEN Never ELSE window.since
       IN  [since |-> IF ~NearRest(c) THEN Never ELSE IF since = Never THEN 0 ELSE since,
            last |-> 0]
IsLevelled(c) == WindowAfter(c).since = StableFor
Levelled(c) == [pitch |-> 0, roll |-> 0, live |-> c.live, button |-> c.button]

-----------------------------------------------------------------------------
Init ==
  /\ lastControl = Neutral
  /\ lastNormalized = None /\ frameAge = Never /\ lastLive = None
  /\ calibration = DefaultCalibration /\ map = DefaultMap
  /\ window = NoWindow
  /\ sinceCheck = 0
  /\ calibrationFile = calibration /\ mapFile = map /\ unsaved = {}
  /\ scenario \in Scenarios

\* An orientation frame arrives; n is what normalizeM5Frame makes of it.
DeviceFrame(n) ==
  LET remapped == Remapped(n, map)
      safe == Protected(lastControl, Calibrated(remapped, calibration))
  IN  /\ frameAge' = 0
      /\ lastNormalized' = n
      /\ lastLive' = IF remapped.live THEN remapped ELSE None
      /\ window' = WindowAfter(safe)
      /\ lastControl' = IF IsLevelled(safe) THEN Levelled(safe) ELSE Smoothed(lastControl, safe)
      /\ UNCHANGED <<settings, sinceCheck, files, scenario>>

LivePoseCleared == lastLive' = None

\* #clearCurrentDevicePose
ClearCurrentDevicePose ==
  /\ frameAge' = Never /\ lastNormalized' = None
  /\ window' = NoWindow
  /\ LivePoseCleared

NothingPublished == UNCHANGED lastControl   \* MUTANT
NeutralPublished == lastControl' = Neutral

\* An unreadable frame arrives, or a device connection closes - any device
\* connection, also an old one while another one delivers frames.
DeviceLost ==
  /\ ClearCurrentDevicePose
  /\ NeutralPublished
  /\ UNCHANGED <<settings, sinceCheck, files, scenario>>

StaleLater == frameAge > StaleAfter + 1   \* MUTANT: off by one
IsStale == frameAge > StaleAfter

\* The stale timer.
StaleCheck ==
  /\ sinceCheck = CheckEvery
  /\ sinceCheck' = 0
  /\ IF IsStale
     THEN ClearCurrentDevicePose /\ NeutralPublished
     ELSE UNCHANGED <<frameAge, lastNormalized, window, lastLive, lastControl>>
  /\ UNCHANGED <<settings, files, scenario>>

\* #publishCurrentCalibratedControl, on any change of calibration or map:
\* the last frame again, checked as if nothing had been published before.
PublishCurrentCalibratedControl ==
  IF lastNormalized = None THEN UNCHANGED lastControl
  ELSE lastControl' =
         Protected(Neutral, Calibrated(Remapped(lastNormalized, map'), calibration'))

\* What writePersistedM5ControlCalibration puts into the file.
\* MUTANT of Persisted: the calibrator is created without "persist".
NotPersisted == calibrationFile
Persisted == calibration'

\* #setCalibration and #setMap write the file before they tell the listeners.
\* If that throws, the file is as it was, or empty or cut off, which reads as
\* the default; the setting is changed all the same, and nothing is published.
CalibrationSaved ==
  /\ calibrationFile' = Persisted
  /\ unsaved' = unsaved \ {"calibration"}
CalibrationNotSaved ==
  /\ "calibration" \in scenario.failing
  /\ calibrationFile' \in {calibrationFile, DefaultCalibration}
  /\ unsaved' = unsaved \cup {"calibration"}

SetCalibration ==
  /\ UNCHANGED <<lastNormalized, frameAge, lastLive, map, mapFile, window, sinceCheck,
                 scenario>>
  /\ \/ CalibrationSaved /\ PublishCurrentCalibratedControl
     \/ CalibrationNotSaved /\ UNCHANGED lastControl

MapSaved ==
  /\ mapFile' = map'
  /\ unsaved' = unsaved \ {"map"}
MapNotSaved ==
  /\ "map" \in scenario.failing
  /\ mapFile' \in {mapFile, DefaultMap}
  /\ unsaved' = unsaved \cup {"map"}

\* The operator calibrates the pose of the last live frame, as it was mapped
\* when it arrived; resets the calibration; or sets a field of the map to
\* another value than it has.  A repeated click on such a field does nothing,
\* also if its write has failed.
CalibrateCurrentPoseAsNeutral ==
  /\ lastLive # None
  /\ calibration' = [pitch |-> lastLive.pitch, roll |-> lastLive.roll]
  /\ SetCalibration

ResetCalibration ==
  /\ calibration' = DefaultCalibration
  /\ SetCalibration

SetField(field, enabled) ==
  /\ field \in scenario.fields /\ (field \in map) # enabled
  /\ map' = IF enabled THEN map \cup {field} ELSE map \ {field}
  /\ UNCHANGED <<calibration, calibrationFile, lastNormalized, frameAge, lastLive, window,
                 sinceCheck, scenario>>
  /\ \/ MapSaved /\ PublishCurrentCalibratedControl
     \/ MapNotSaved /\ UNCHANGED lastControl

\* The Host ends, in whatever way, and is started again.  A write that it cuts
\* off is one that fails before.
HostRestart ==
  /\ lastControl' = Neutral
  /\ lastNormalized' = None /\ frameAge' = Never /\ lastLive' = None
  /\ window' = NoWindow /\ sinceCheck' = 0
  /\ calibration' = calibrationFile /\ map' = mapFile
  /\ unsaved' = {}
  /\ UNCHANGED <<calibrationFile, mapFile, scenario>>

Older(age, cap) == IF age = Never \/ age = cap THEN age ELSE age + 1

\* A tick of the clock.  The timer fires when it is due, not later.
Tick ==
  /\ sinceCheck < CheckEvery
  /\ sinceCheck' = sinceCheck + 1
  /\ frameAge' = Older(frameAge, AgeCap)
  /\ window' = [since |-> Older(window.since, StableFor),
                last |-> Older(window.last, MaxFrameGap + 1)]
  /\ UNCHANGED <<lastControl, lastNormalized, lastLive, settings, files, scenario>>

Next ==
  \/ \E n \in Frames : DeviceFrame(n)
  \/ DeviceLost
  \/ StaleCheck
  \/ CalibrateCurrentPoseAsNeutral
  \/ ResetCalibration
  \/ \E field \in Fields, enabled \in BOOLEAN : SetField(field, enabled)
  \/ HostRestart
  \/ Tick

Spec == Init /\ [][Next]_vars
-----------------------------------------------------------------------------
(* Properties.                                                             *)

\* docs/client-api.md: missing or stale input is published as neutral.
\* Whenever the Host has no current device pose - it went stale, its
\* connection closed, a frame was unreadable - subscribers were last sent the
\* neutral control, whatever the operator changed meanwhile.
NeutralWithoutFrames == frameAge = Never => lastControl = Neutral /\ lastNormalized = None

\* A live control rests on a frame no older than the stale threshold plus
\* one period of the timer; changing map or calibration does not prolong it.
LiveIsFresh ==
  lastControl.live => frameAge \in 0..(StaleAfter + CheckEvery)

\* The pose that a calibration would take is that of the current device: it
\* is not left over from before a disconnect, a stale or an unusable frame.
LivePoseIsCurrent ==
  lastLive # None => frameAge # Never /\ lastNormalized # None /\ lastNormalized.live

\* The published pose is level, or nearly where it was: a quarter of a step
\* that is not abrupt.
CalmStep == (ExtremeStep + 2) \div 4
Calm ==
  \/ lastControl'.pitch = 0 /\ lastControl'.roll = 0
  \/ /\ Abs(lastControl'.pitch - lastControl.pitch) =< CalmStep
     /\ Abs(lastControl'.roll - lastControl.roll) =< CalmStep

\* control/safety.ts: a reconnected or glitching controller does not make the
\* experience dive.  No sequence of frames, disconnects and timers moves the
\* published pose further than that at once.
FrameStepsAreCalm == [][(\E n \in Frames : DeviceFrame(n)) => Calm]_vars

PoseIsCalibrated ==
  /\ CalibrateCurrentPoseAsNeutral /\ "calibration" \notin unsaved'
  /\ lastLive = Remapped(lastNormalized, map)
\* The console's button: the current pose becomes neutral, and the control
\* stays live.  This needs a frame since the last change of the map: the
\* calibrator keeps the pose as an earlier map showed it, and then the new
\* offsets do not level the current one.  And the calibration has to be
\* saved: otherwise the Host publishes nothing until the next frame.
CalibrationLevels ==
  [][PoseIsCalibrated => lastControl'.live /\ lastControl'.pitch = 0 /\ lastControl'.roll = 0]_vars

\* A restarted Host works with the settings that its predecessor had, whichever
\* writes have failed before and were made good, or failed for the other
\* setting: all that is lost is a change whose own write was the last to fail.
SettingsSurvive ==
  [][HostRestart => /\ "calibration" \notin unsaved => calibration' = calibration
                    /\ "map" \notin unsaved => map' = map]_vars

\* The button that subscribers see is that of the current device's last frame:
\* protection does not swallow a press, and no button stays pressed after a
\* disconnect, a stale or an unusable frame.
ButtonIsCurrent ==
  lastControl.button =
    IF lastNormalized # None /\ lastNormalized.live THEN lastNormalized.button ELSE "none"
=============================================================================
