-------------------------- MODULE ControllerTelemetry --------------------------
(***************************************************************************)
(* What the controller sends and when: sendTelemetry and the quiet period  *)
(* after a serial command in firmware/m5-controller/src/main.cpp.          *)
(*                                                                         *)
(* One step is one iteration of loop().  It reads the time first; a serial *)
(* command that it then handles reads the time again, later, while the     *)
(* telemetry that follows still uses the first one.                        *)
(*                                                                         *)
(* Beside the clock the model knows how long things really are ago, up to  *)
(* a cap.  Angles are left out.                                            *)
(***************************************************************************)
EXTENDS FirmwareClock

CONSTANTS
  OrientationInterval, HeartbeatInterval, MirrorInterval, Quiet,
  AgeCap      \* bound: real ages are counted up to this

ASSUME IntervalAssumption ==
  /\ OrientationInterval \in Nat \ {0} /\ HeartbeatInterval \in Nat \ {0}
  /\ MirrorInterval \in Nat \ {0} /\ Quiet \in Nat \ {0}
  /\ AgeCap \in Nat
  /\ OrientationInterval + MaxStep < Word /\ HeartbeatInterval + MaxStep < Word
  /\ OrientationInterval + MaxStep < AgeCap /\ HeartbeatInterval + MaxStep < AgeCap
  /\ Quiet + MaxStep <= AgeCap

VARIABLES
  lastHeartbeatMs, lastOrientationMs, lastSerialOrientationMirrorMs,
  serialQuietUntilMs,
  lastButtonPressed,
  connected,       \* webSocketConnected
  sent,            \* the last orientation frame on this connection, or NoFrame
  mirrored,        \* whether this iteration printed an orientation frame
  heartbeatAge, orientationAge,   \* how long they really are ago
  commandAge,   \* the same for the time that the last command's iteration read,
  commandLag    \* and how much later in that iteration the command came

timers == <<lastHeartbeatMs, lastOrientationMs, lastSerialOrientationMirrorMs,
            serialQuietUntilMs>>
ages == <<heartbeatAge, orientationAge, commandAge, commandLag>>
telemetry == <<nowMs, timers, lastButtonPressed, connected, sent, mirrored, ages>>

Frames == [pressed : BOOLEAN, down : BOOLEAN, up : BOOLEAN]
NoFrame == [pressed |-> FALSE, down |-> TRUE, up |-> TRUE]

Ages == 0..AgeCap

TelemetryTypeOK ==
  /\ nowMs \in Instants
  /\ lastHeartbeatMs \in Instants /\ lastOrientationMs \in Instants
  /\ lastSerialOrientationMirrorMs \in Instants /\ serialQuietUntilMs \in Instants
  /\ lastButtonPressed \in BOOLEAN /\ connected \in BOOLEAN /\ mirrored \in BOOLEAN
  /\ sent \in Frames
  /\ heartbeatAge \in Ages /\ orientationAge \in Ages /\ commandAge \in Ages
  /\ commandLag \in 0..MaxStep

\* The counter starts with 0; setup() ends with the answer to a diagnose.
TelemetryInit ==
  /\ nowMs = 0
  /\ lastHeartbeatMs = 0 /\ lastOrientationMs = 0 /\ lastSerialOrientationMirrorMs = 0
  /\ serialQuietUntilMs = Quiet % Word
  /\ lastButtonPressed = FALSE /\ connected = FALSE /\ sent = NoFrame /\ mirrored = FALSE
  /\ heartbeatAge = 0 /\ orientationAge = 0 /\ commandAge = 0 /\ commandLag = 0

\* MUTANT: compares instants, as the quiet period does.
ElapsedByInstants(now, last, interval) == now >= last + interval
Elapsed(now, last, interval) == Minus(now, last) >= interval

Older(age, d) == IF age + d < AgeCap THEN age + d ELSE AgeCap

-----------------------------------------------------------------------------
PressedForgotten(pressed) == lastButtonPressed   \* MUTANT
PressedNow(pressed) == pressed

Frame(pressed) == [pressed |-> pressed,
                   down |-> pressed /\ ~lastButtonPressed,
                   up |-> ~pressed /\ lastButtonPressed]

\* The heartbeat of one iteration, d after the last one.
SendHeartbeat(now, d) ==
  IF Elapsed(now, lastHeartbeatMs, HeartbeatInterval)
  THEN lastHeartbeatMs' = now /\ heartbeatAge' = 0
  ELSE UNCHANGED lastHeartbeatMs /\ heartbeatAge' = Older(heartbeatAge, d)

\* MUTANT: only the interval is looked at.
MirrorEveryInterval(now) == Elapsed(now, lastSerialOrientationMirrorMs, MirrorInterval)
MirrorDue(now) ==
  /\ ~(now < serialQuietUntilMs')
  /\ \/ lastSerialOrientationMirrorMs = 0
     \/ Elapsed(now, lastSerialOrientationMirrorMs, MirrorInterval)

\* The orientation frame: sent if connected, printed now and then.
SendOrientation(now, pressed) ==
  /\ lastOrientationMs' = now /\ orientationAge' = 0
  /\ lastButtonPressed' = PressedNow(pressed)
  /\ mirrored' = MirrorDue(now)
  /\ lastSerialOrientationMirrorMs' =
       IF MirrorDue(now) THEN now ELSE lastSerialOrientationMirrorMs
  /\ sent' = IF connected THEN Frame(pressed) ELSE sent

NoOrientation(d) ==
  /\ orientationAge' = Older(orientationAge, d) /\ mirrored' = FALSE
  /\ UNCHANGED <<lastOrientationMs, lastButtonPressed, lastSerialOrientationMirrorMs, sent>>

SendTelemetry(now, d, pressed) ==
  /\ SendHeartbeat(now, d)
  /\ IF Elapsed(now, lastOrientationMs, OrientationInterval)
     THEN SendOrientation(now, pressed)
     ELSE NoOrientation(d)

\* handleSerialLine, sendDiagnoseResult: quiet for a while.  The last command
\* of an iteration came lag after the iteration has read the time now.
SerialCommand(now, lag) ==
  /\ serialQuietUntilMs' = (now + lag + Quiet) % Word
  /\ commandAge' = 0 /\ commandLag' = lag

NoCommand(d) ==
  /\ commandAge' = Older(commandAge, d)
  /\ UNCHANGED <<serialQuietUntilMs, commandLag>>

\* loop(): an iteration that reads the time d after the last one, at least as
\* late as the command that the last one handled.
Loop(d, pressed) ==
  /\ commandAge = 0 => d >= commandLag
  /\ nowMs' = Later(d)
  /\ NoCommand(d) \/ \E lag \in 0..MaxStep : SerialCommand(Later(d), lag)
  /\ SendTelemetry(Later(d), d, pressed)
  /\ UNCHANGED connected

\* The connection comes or goes; a new one has brought no frame.
ConnectionChanges ==
  /\ connected' = ~connected /\ sent' = NoFrame
  /\ mirrored' = FALSE
  /\ UNCHANGED <<nowMs, timers, lastButtonPressed, ages>>

TelemetryNext ==
  \/ \E d \in 1..MaxStep, pressed \in BOOLEAN : Loop(d, pressed)
  \/ ConnectionChanges

TelemetrySpec == TelemetryInit /\ [][TelemetryNext]_telemetry
-----------------------------------------------------------------------------
\* The Host takes a controller for lost without frames.  However often the
\* counter wraps, the last frame and the last heartbeat are never older than
\* their interval after an iteration, whatever length the iterations have.
FramesKeepComing ==
  orientationAge < OrientationInterval /\ heartbeatAge < HeartbeatInterval

\* On one connection every change of the button comes with its edge, and every
\* edge with a change, with frames in between that are not due yet.
EdgesMatchChanges ==
  [][nowMs' # nowMs /\ orientationAge' = 0 /\ connected /\ sent # NoFrame =>
       /\ sent'.down <=> sent'.pressed /\ ~sent.pressed
       /\ sent'.up <=> ~sent'.pressed /\ sent.pressed]_telemetry

\* SerialCommandQuietMs: frames are not mirrored to serial that long after a
\* command, so that they do not come between a command and its answer.  The
\* code compares instants here: if the counter wraps after the command's
\* iteration has read the time and before the period ends, the end is a small
\* number, and the period is cut short; at once, if it wraps before the
\* command is handled.
QuietAfterCommand ==
  mirrored /\ serialQuietUntilMs >= commandLag + Quiet => commandAge >= commandLag + Quiet
=============================================================================
