---------------------------- MODULE ControllerProofs ----------------------------
(* Theorems about the two models of the firmware's loop, which share its    *)
(* clock: ControllerTelemetry and ControllerConnection.                     *)
EXTENDS ControllerConnection, ControllerTelemetry, TLAPS

\* The remainder of a sum of two instants.
LEMMA Wrap ==
  ASSUME NEW x \in Nat, x < Word + Word
  PROVE  /\ x < Word => x % Word = x
         /\ x >= Word => x % Word = x - Word
<1>1. ASSUME x < Word PROVE x % Word = x
  BY <1>1, ClockAssumption
<1>2. ASSUME x >= Word PROVE x % Word = x - Word
  BY <1>2, ClockAssumption
<1>3. QED BY <1>1, <1>2

\* The unsigned difference of two instants, as the counter has wrapped between
\* them or not.
LEMMA MinusIs ==
  ASSUME NEW t \in Instants, NEW u \in Instants
  PROVE  /\ t >= u => Minus(t, u) = t - u
         /\ t < u => Minus(t, u) = t + (Word - u)
         /\ Minus(t, u) \in Instants
<1>1. Word \in Nat \ {0} /\ t \in Nat /\ u \in Nat /\ t < Word /\ u < Word
  BY ClockAssumption DEF Instants
<1>2. PICK x \in Nat : x = t + Word - u
  BY <1>1
<1>3. x < Word + Word
  BY <1>1, <1>2
<1>4. Minus(t, u) = x % Word
  BY <1>2, Zenon DEF Minus
<1>5. /\ x < Word => Minus(t, u) = x
      /\ x >= Word => Minus(t, u) = x - Word
  BY <1>3, <1>4, Wrap
<1>6. QED
  BY <1>1, <1>2, <1>5 DEF Instants

\* Differences grow with time by what time has passed, if that is less than
\* one round of the counter.
LEMMA MinusAdvances ==
  ASSUME NEW n \in Instants, NEW u \in Instants, NEW d \in Nat,
         Minus(n, u) + d < Word
  PROVE  /\ (n + d) % Word \in Instants
         /\ Minus((n + d) % Word, u) = Minus(n, u) + d
<1>1. Word \in Nat \ {0} /\ n \in Nat /\ u \in Nat /\ n < Word /\ u < Word
  BY ClockAssumption DEF Instants
<1>2. /\ n >= u => Minus(n, u) = n - u
      /\ n < u => Minus(n, u) = n + (Word - u)
  BY MinusIs
<1>3. PICK x \in Nat : x = n + d
  BY <1>1
<1>4. x < Word + Word
  BY <1>1, <1>2, <1>3
<1>5. PICK y : y = (n + d) % Word
  OBVIOUS
<1>6. y = x % Word
  BY <1>3, <1>5, Zenon
<1>7. /\ x < Word => y = x
      /\ x >= Word => y = x - Word
  BY <1>4, <1>6, Wrap
<1>8. y \in Instants
  BY <1>1, <1>4, <1>7 DEF Instants
<1>9. /\ y >= u => Minus(y, u) = y - u
      /\ y < u => Minus(y, u) = y + (Word - u)
  BY <1>8, MinusIs
<1>10. Minus(y, u) = Minus(n, u) + d
  BY <1>1, <1>2, <1>3, <1>4, <1>7, <1>9
<1>11. QED BY <1>5, <1>8, <1>10

LEMMA OlderIsAge == ASSUME NEW a \in Ages, NEW d \in Nat PROVE Older(a, d) \in Ages
BY IntervalAssumption DEF Ages, Older

-----------------------------------------------------------------------------
\* Types are kept: every time stamp is an instant of the counter.
THEOREM TelemetryTypeCorrect == TelemetrySpec => []TelemetryTypeOK
<1>1. 0 \in Instants /\ 0 \in Ages /\ 0 \in 0..MaxStep /\ NoFrame \in Frames
  BY ClockAssumption, IntervalAssumption DEF Instants, Ages, NoFrame, Frames
<1>2. \A x \in Nat : x % Word \in Instants
  BY ClockAssumption, IntervalAssumption DEF Instants
<1>3. TelemetryInit => TelemetryTypeOK
  BY <1>1, <1>2, ClockAssumption, IntervalAssumption DEF TelemetryInit, TelemetryTypeOK
<1>4. TelemetryTypeOK /\ [TelemetryNext]_telemetry => TelemetryTypeOK'
  <2> SUFFICES ASSUME TelemetryTypeOK, [TelemetryNext]_telemetry PROVE TelemetryTypeOK'
    OBVIOUS
  <2>1. ASSUME NEW d \in 1..MaxStep, NEW pressed \in BOOLEAN, Loop(d, pressed)
        PROVE  TelemetryTypeOK'
    <3> DEFINE now == (nowMs + d) % Word
    <3>1. d \in Nat /\ nowMs + d \in Nat
      BY ClockAssumption, IntervalAssumption DEF TelemetryTypeOK, Instants
    <3>2. now \in Instants
      BY <1>2, <3>1
    <3>3. /\ nowMs' = now /\ SendHeartbeat(now, d)
          /\ SendOrientation(now, pressed) \/ NoOrientation(d)
          /\ NoCommand(d) \/ \E lag \in 0..MaxStep : SerialCommand(now, lag)
          /\ UNCHANGED connected
      BY <2>1 DEF Loop, SendTelemetry, Later
    <3> HIDE DEF now
    <3>4. lastHeartbeatMs' \in Instants /\ heartbeatAge' \in Ages
      BY <1>1, <3>1, <3>2, <3>3, OlderIsAge DEF SendHeartbeat, TelemetryTypeOK
    <3>5. lastOrientationMs' \in Instants /\ orientationAge' \in Ages
      BY <1>1, <3>1, <3>2, <3>3, OlderIsAge DEF SendOrientation, NoOrientation, TelemetryTypeOK
    <3>6. lastSerialOrientationMirrorMs' \in Instants /\ mirrored' \in BOOLEAN
      BY <3>2, <3>3 DEF SendOrientation, NoOrientation, MirrorDue, TelemetryTypeOK
    <3>7. Frame(pressed) \in Frames
      BY DEF Frame, Frames, TelemetryTypeOK
    <3>8. lastButtonPressed' \in BOOLEAN /\ sent' \in Frames
      BY <3>3, <3>7 DEF SendOrientation, NoOrientation, PressedNow, TelemetryTypeOK
    <3>9. commandAge' \in Ages /\ commandLag' \in 0..MaxStep /\ serialQuietUntilMs' \in Instants
      <4>1. CASE NoCommand(d)
        BY <3>1, <4>1, OlderIsAge DEF NoCommand, TelemetryTypeOK
      <4>2. ASSUME NEW lag \in 0..MaxStep, SerialCommand(now, lag)
            PROVE  commandAge' \in Ages /\ commandLag' \in 0..MaxStep /\ serialQuietUntilMs' \in Instants
        <5>1. now + lag + Quiet \in Nat
          BY <3>2, ClockAssumption, IntervalAssumption DEF Instants
        <5> QED BY <1>1, <1>2, <4>2, <5>1 DEF SerialCommand
      <4> QED BY <3>3, <4>1, <4>2
    <3>10. QED
      BY <3>2, <3>3, <3>4, <3>5, <3>6, <3>8, <3>9 DEF TelemetryTypeOK
  <2>2. CASE ConnectionChanges
    BY <1>1, <2>2 DEF ConnectionChanges, TelemetryTypeOK, timers, ages
  <2>3. CASE UNCHANGED telemetry
    BY <2>3 DEF telemetry, timers, ages, TelemetryTypeOK
  <2>4. QED BY <2>1, <2>2, <2>3 DEF TelemetryNext
<1>5. QED
  BY <1>3, <1>4, PTL DEF TelemetrySpec

-----------------------------------------------------------------------------
\* What the firmware computes from its counter is how long ago it really was.
Measured ==
  /\ orientationAge = Minus(nowMs, lastOrientationMs)
  /\ heartbeatAge = Minus(nowMs, lastHeartbeatMs)

\* The step of one such time stamp: renewed if it is due, else measured right.
LEMMA StampStep ==
  ASSUME NEW n \in Instants, NEW u \in Instants, NEW d \in 1..MaxStep,
         NEW interval \in Nat \ {0}, interval + MaxStep < Word, interval + MaxStep < AgeCap,
         Minus(n, u) < interval
  PROVE  LET now == (n + d) % Word
         IN  /\ now \in Instants
             /\ Minus(now, now) = 0
             /\ ~Elapsed(now, u, interval) =>
                  /\ Older(Minus(n, u), d) = Minus(now, u)
                  /\ Minus(now, u) < interval
<1>1. /\ d \in Nat /\ d <= MaxStep /\ MaxStep \in Nat /\ Word \in Nat /\ AgeCap \in Nat
      /\ Minus(n, u) \in Nat
  BY ClockAssumption, IntervalAssumption, MinusIs DEF Instants
<1>2. Minus(n, u) + d < Word /\ Minus(n, u) + d < AgeCap
  BY <1>1
<1>3. (n + d) % Word \in Instants /\ Minus((n + d) % Word, u) = Minus(n, u) + d
  BY <1>1, <1>2, MinusAdvances
<1>4. Minus((n + d) % Word, (n + d) % Word) = 0
  BY <1>3, MinusIs DEF Instants
<1>5. Older(Minus(n, u), d) = Minus(n, u) + d
  BY <1>2 DEF Older
<1>6. ~Elapsed((n + d) % Word, u, interval) => Minus((n + d) % Word, u) < interval
  BY <1>1, <1>3 DEF Elapsed
<1>7. QED BY <1>3, <1>4, <1>5, <1>6

\* Frames and heartbeats keep coming, however often the counter wraps.
THEOREM FramesNeverStop == TelemetrySpec => []FramesKeepComing
<1> DEFINE Inv == Measured /\ FramesKeepComing
<1>1. TelemetryInit => Inv
  <2>1. 0 \in Instants
    BY ClockAssumption, IntervalAssumption DEF Instants
  <2>2. Minus(0, 0) = 0
    BY <2>1, MinusIs
  <2>3. QED BY <2>2, ClockAssumption, IntervalAssumption DEF TelemetryInit, Measured, FramesKeepComing
<1>2. TelemetryTypeOK /\ Inv /\ [TelemetryNext]_telemetry => Inv'
  <2> SUFFICES ASSUME TelemetryTypeOK, Inv, [TelemetryNext]_telemetry PROVE Inv'
    OBVIOUS
  <2>1. ASSUME NEW d \in 1..MaxStep, NEW pressed \in BOOLEAN, Loop(d, pressed)
        PROVE  Inv'
    <3> DEFINE now == (nowMs + d) % Word
    <3>1. /\ nowMs \in Instants /\ lastOrientationMs \in Instants
          /\ lastHeartbeatMs \in Instants
      BY DEF TelemetryTypeOK
    <3>2. /\ Minus(nowMs, lastOrientationMs) < OrientationInterval
          /\ Minus(nowMs, lastHeartbeatMs) < HeartbeatInterval
      BY DEF Measured, FramesKeepComing
    <3>3. /\ Minus(now, now) = 0
          /\ ~Elapsed(now, lastOrientationMs, OrientationInterval) =>
               /\ Older(Minus(nowMs, lastOrientationMs), d) = Minus(now, lastOrientationMs)
               /\ Minus(now, lastOrientationMs) < OrientationInterval
      BY <3>1, <3>2, StampStep, ClockAssumption, IntervalAssumption
    <3>4. ~Elapsed(now, lastHeartbeatMs, HeartbeatInterval) =>
            /\ Older(Minus(nowMs, lastHeartbeatMs), d) = Minus(now, lastHeartbeatMs)
            /\ Minus(now, lastHeartbeatMs) < HeartbeatInterval
      BY <3>1, <3>2, StampStep, ClockAssumption, IntervalAssumption
    <3>5. /\ nowMs' = now /\ SendHeartbeat(now, d)
          /\ IF Elapsed(now, lastOrientationMs, OrientationInterval)
             THEN SendOrientation(now, pressed) ELSE NoOrientation(d)
      BY <2>1 DEF Loop, SendTelemetry, Later
    <3> HIDE DEF now
    <3>6. /\ orientationAge' = Minus(now, lastOrientationMs')
          /\ orientationAge' < OrientationInterval
      BY <3>3, <3>5, ClockAssumption, IntervalAssumption DEF SendOrientation, NoOrientation, Measured
    <3>7. heartbeatAge' = Minus(now, lastHeartbeatMs') /\ heartbeatAge' < HeartbeatInterval
      BY <3>3, <3>4, <3>5, ClockAssumption, IntervalAssumption DEF SendHeartbeat, Measured
    <3>8. Minus(nowMs', lastOrientationMs') = Minus(now, lastOrientationMs')
      BY <3>5
    <3>9. Minus(nowMs', lastHeartbeatMs') = Minus(now, lastHeartbeatMs')
      BY <3>5
    <3>10. QED
      BY <3>6, <3>7, <3>8, <3>9 DEF Measured, FramesKeepComing, Minus
  <2>2. CASE ConnectionChanges
    BY <2>2 DEF ConnectionChanges, Measured, FramesKeepComing, Minus, timers, ages
  <2>3. CASE UNCHANGED telemetry
    BY <2>3 DEF telemetry, timers, ages, Measured, FramesKeepComing, Minus
  <2>4. QED BY <2>1, <2>2, <2>3 DEF TelemetryNext
<1>3. QED
  BY <1>1, <1>2, TelemetryTypeCorrect, PTL DEF TelemetrySpec

-----------------------------------------------------------------------------
\* While a quiet period runs before whose end the counter does not wrap, the
\* counter tells its rest right.
QuietMeasured ==
  serialQuietUntilMs >= commandLag + Quiet /\ commandAge < commandLag + Quiet =>
    nowMs + commandLag + Quiet = serialQuietUntilMs + commandAge

\* A new period, at any time: its end wraps, or is as much later as it should.
LEMMA QuietStarts ==
  ASSUME NEW n \in Instants, NEW period \in Nat, (n + period) % Word >= period
  PROVE  (n + period) % Word = n + period
<1>1. /\ Word \in Nat \ {0} /\ n \in Nat /\ n < Word
  BY ClockAssumption DEF Instants
<1>2. PICK x \in Nat : x = n + period
  BY <1>1
<1>3. x % Word < Word
  BY <1>1
<1>4. x % Word >= period
  BY <1>2, Zenon
<1>5. period < Word
  BY <1>1, <1>3, <1>4
<1>6. x < Word => x % Word = x
  BY <1>1, <1>2, <1>5, Wrap
<1>7. x >= Word => x % Word = x - Word
  BY <1>1, <1>2, <1>5, Wrap
<1>8. x % Word = x
  BY <1>1, <1>2, <1>4, <1>6, <1>7
<1> QED
  BY <1>2, <1>8

\* A command starts a period that is measured right from the time that its
\* iteration has read before, and that time is before its end.
LEMMA CommandIsMeasured ==
  ASSUME NEW n \in Instants, NEW lag \in 0..MaxStep, SerialCommand(n, lag),
         serialQuietUntilMs' >= commandLag' + Quiet
  PROVE  /\ n + commandLag' + Quiet = serialQuietUntilMs' + commandAge'
         /\ n < serialQuietUntilMs'
<1>1. PICK period \in Nat : period = lag + Quiet
  BY ClockAssumption, IntervalAssumption
<1>2. n \in Nat /\ lag \in Nat /\ Quiet \in Nat \ {0}
  BY ClockAssumption, IntervalAssumption DEF Instants
<1>3. n + lag + Quiet = n + period
  BY <1>1, <1>2
<1>4. serialQuietUntilMs' = (n + period) % Word
  BY <1>3, Zenon DEF SerialCommand
<1>5. serialQuietUntilMs' >= period
  BY <1>1 DEF SerialCommand
<1>6. serialQuietUntilMs' = n + period
  BY <1>4, <1>5, QuietStarts
<1> QED
  BY <1>1, <1>2, <1>6 DEF SerialCommand

\* An iteration without a command: the rest of the period shrinks as the
\* counter grows, which does not wrap meanwhile.
LEMMA QuietGoesOn ==
  ASSUME TelemetryTypeOK, QuietMeasured, NEW d \in 1..MaxStep, NoCommand(d),
         nowMs' = (nowMs + d) % Word,
         serialQuietUntilMs' >= commandLag' + Quiet, commandAge' < commandLag' + Quiet
  PROVE  /\ nowMs' + commandLag' + Quiet = serialQuietUntilMs' + commandAge'
         /\ nowMs' < serialQuietUntilMs'
<1>1. /\ d \in Nat /\ nowMs \in Nat /\ serialQuietUntilMs \in Nat /\ commandAge \in Nat
      /\ commandLag \in Nat /\ commandLag <= MaxStep /\ MaxStep \in Nat
      /\ serialQuietUntilMs < Word /\ Quiet \in Nat /\ Word \in Nat \ {0}
      /\ AgeCap \in Nat /\ Quiet + MaxStep <= AgeCap
  BY ClockAssumption, IntervalAssumption DEF TelemetryTypeOK, Instants, Ages
<1>2. /\ commandAge' = Older(commandAge, d)
      /\ commandLag' = commandLag /\ serialQuietUntilMs' = serialQuietUntilMs
  BY DEF NoCommand
<1>3. commandAge' = commandAge + d /\ commandAge < commandLag + Quiet
  BY <1>1, <1>2 DEF Older
<1>4. nowMs + commandLag + Quiet = serialQuietUntilMs + commandAge
  BY <1>2, <1>3 DEF QuietMeasured
<1>5. PICK x \in Nat : x = nowMs + d
  BY <1>1
<1>6. /\ x + commandLag + Quiet = serialQuietUntilMs + commandAge'
      /\ x < serialQuietUntilMs /\ x < Word
  BY <1>1, <1>2, <1>3, <1>4, <1>5
<1>7. nowMs' = x % Word
  BY <1>5, Zenon
<1>8. nowMs' = x
  BY <1>1, <1>6, <1>7, Wrap
<1> QED
  BY <1>2, <1>6, <1>8

LEMMA NotBelow ==
  ASSUME NEW a \in Nat, NEW b \in Nat, NEW q \in Nat, ~(a < b + q) PROVE a >= b + q
OBVIOUS

\* No frame is mirrored in a quiet period, unless the counter wraps between the
\* time that the command's iteration read before the command and its end.
THEOREM QuietIsKept == TelemetrySpec => []QuietAfterCommand
<1> DEFINE Inv == QuietMeasured /\ QuietAfterCommand
<1>1. TelemetryInit => Inv
  <2> SUFFICES ASSUME TelemetryInit, serialQuietUntilMs >= Quiet PROVE Quiet = serialQuietUntilMs
    BY ClockAssumption, IntervalAssumption DEF TelemetryInit, QuietMeasured, QuietAfterCommand
  <2>1. 0 \in Instants /\ 0 + Quiet = Quiet /\ Quiet \in Nat
    BY ClockAssumption, IntervalAssumption DEF Instants
  <2>2. (0 + Quiet) % Word = serialQuietUntilMs
    BY <2>1 DEF TelemetryInit
  <2> QED
    BY <2>1, <2>2, QuietStarts
<1>2. TelemetryTypeOK /\ Inv /\ [TelemetryNext]_telemetry => Inv'
  <2> SUFFICES ASSUME TelemetryTypeOK, Inv, [TelemetryNext]_telemetry PROVE Inv'
    OBVIOUS
  <2>1. ASSUME NEW d \in 1..MaxStep, NEW pressed \in BOOLEAN, Loop(d, pressed)
        PROVE  Inv'
    <3>1. /\ nowMs' = (nowMs + d) % Word
          /\ NoCommand(d) \/ \E lag \in 0..MaxStep : SerialCommand(nowMs', lag)
          /\ mirrored' => ~(nowMs' < serialQuietUntilMs')
      BY <2>1 DEF Loop, SendTelemetry, Later, SendOrientation, NoOrientation, MirrorDue
    <3>2. nowMs' \in Instants
      BY <3>1, ClockAssumption DEF TelemetryTypeOK, Instants
    <3>3. /\ commandAge' \in Nat /\ commandLag' \in Nat
      <4>1. ASSUME NEW lag \in 0..MaxStep, SerialCommand(nowMs', lag)
            PROVE  commandAge' \in Nat /\ commandLag' \in Nat
        BY <4>1 DEF SerialCommand
      <4>2. CASE NoCommand(d)
        BY <4>2, OlderIsAge, IntervalAssumption DEF NoCommand, TelemetryTypeOK, Ages
      <4> QED BY <3>1, <4>1, <4>2
    <3>4. ASSUME serialQuietUntilMs' >= commandLag' + Quiet, commandAge' < commandLag' + Quiet
          PROVE  /\ nowMs' + commandLag' + Quiet = serialQuietUntilMs' + commandAge'
                 /\ nowMs' < serialQuietUntilMs'
      <4>1. CASE NoCommand(d)
        BY <3>1, <3>4, <4>1, QuietGoesOn
      <4>2. CASE \E lag \in 0..MaxStep : SerialCommand(nowMs', lag)
        BY <3>2, <3>4, <4>2, CommandIsMeasured
      <4> QED BY <3>1, <4>1, <4>2
    <3>5. QuietMeasured'
      BY <3>4 DEF QuietMeasured
    <3>6. ASSUME mirrored', serialQuietUntilMs' >= commandLag' + Quiet
          PROVE  commandAge' >= commandLag' + Quiet
      <4>1. ~(commandAge' < commandLag' + Quiet)
        BY <3>1, <3>4, <3>6
      <4>2. Quiet \in Nat
        BY IntervalAssumption
      <4> QED BY <3>3, <4>1, <4>2, NotBelow, Zenon
    <3> QED
      BY <3>5, <3>6 DEF QuietAfterCommand
  <2>2. CASE ConnectionChanges
    BY <2>2 DEF ConnectionChanges, QuietMeasured, QuietAfterCommand, timers, ages
  <2>3. CASE UNCHANGED telemetry
    BY <2>3 DEF telemetry, timers, ages, QuietMeasured, QuietAfterCommand
  <2> QED
    BY <2>1, <2>2, <2>3 DEF TelemetryNext
<1>3. QED
  BY <1>1, <1>2, TelemetryTypeCorrect, PTL DEF TelemetrySpec
-----------------------------------------------------------------------------
\* The memory the edges are computed from is the button of the last frame, and
\* a connection that is not there has brought none.
SentIsLast ==
  /\ sent # NoFrame => lastButtonPressed = sent.pressed
  /\ ~connected => sent = NoFrame

LEMMA SentStep == SentIsLast /\ TelemetryTypeOK /\ [TelemetryNext]_telemetry => SentIsLast'
<1> SUFFICES ASSUME SentIsLast, TelemetryTypeOK, [TelemetryNext]_telemetry PROVE SentIsLast'
  OBVIOUS
<1>1. ASSUME NEW d \in 1..MaxStep, NEW pressed \in BOOLEAN, Loop(d, pressed)
      PROVE  SentIsLast'
  <2>1. CASE SendOrientation(Later(d), pressed)
    <3>1. lastButtonPressed' = pressed /\ sent' = IF connected THEN Frame(pressed) ELSE sent
      BY <2>1 DEF SendOrientation, PressedNow
    <3>2. UNCHANGED connected
      BY <1>1 DEF Loop
    <3> QED BY <3>1, <3>2, Zenon DEF SentIsLast, Frame
  <2>2. CASE NoOrientation(d)
    BY <1>1, <2>2 DEF Loop, NoOrientation, SentIsLast
  <2> QED BY <1>1, <2>1, <2>2 DEF Loop, SendTelemetry
<1>2. CASE ConnectionChanges
  BY <1>2 DEF ConnectionChanges, SentIsLast
<1>3. CASE UNCHANGED telemetry
  BY <1>3 DEF telemetry, SentIsLast
<1> QED BY <1>1, <1>2, <1>3 DEF TelemetryNext

\* An iteration that sends no frame makes the last frame older.
LEMMA OlderIsPositive ==
  ASSUME NEW a \in Ages, NEW d \in 1..MaxStep PROVE Older(a, d) # 0
BY ClockAssumption, IntervalAssumption DEF Older, Ages

\* On one connection every change of the button comes with its edge and every
\* edge with a change, whatever the lengths of the iterations
\* (main.cpp: sendTelemetry, lastButtonPressed).
THEOREM EdgesAreExact == TelemetrySpec => EdgesMatchChanges
<1> DEFINE Exact ==
      nowMs' # nowMs /\ orientationAge' = 0 /\ connected /\ sent # NoFrame =>
        /\ sent'.down <=> sent'.pressed /\ ~sent.pressed
        /\ sent'.up <=> ~sent'.pressed /\ sent.pressed
<1>1. TelemetryInit => SentIsLast
  BY DEF TelemetryInit, SentIsLast
<1>2. SentIsLast /\ TelemetryTypeOK /\ [TelemetryNext]_telemetry => [Exact]_telemetry
  <2> SUFFICES ASSUME SentIsLast, TelemetryTypeOK, TelemetryNext, nowMs' # nowMs, orientationAge' = 0,
                      connected, sent # NoFrame
               PROVE  /\ sent'.down <=> sent'.pressed /\ ~sent.pressed
                      /\ sent'.up <=> ~sent'.pressed /\ sent.pressed
    OBVIOUS
  <2>1. PICK d \in 1..MaxStep, pressed \in BOOLEAN : Loop(d, pressed)
    BY DEF TelemetryNext, ConnectionChanges
  <2>2. ~NoOrientation(d)
    BY OlderIsPositive DEF NoOrientation, TelemetryTypeOK
  <2>3. SendOrientation(Later(d), pressed)
    BY <2>1, <2>2 DEF Loop, SendTelemetry
  <2>4. sent' = Frame(pressed)
    BY <2>3 DEF SendOrientation
  <2>5. lastButtonPressed = sent.pressed
    BY DEF SentIsLast
  <2>6. /\ sent'.pressed = pressed
        /\ sent'.down = (pressed /\ ~sent.pressed)
        /\ sent'.up = (~pressed /\ sent.pressed)
    BY <2>4, <2>5, Zenon DEF Frame
  <2> QED BY <2>6, Zenon
<1>3. TelemetrySpec => [][Exact]_telemetry
  <2> HIDE DEF Exact
  <2> QED BY <1>1, <1>2, SentStep, TelemetryTypeCorrect, PTL DEF TelemetrySpec
<1> QED BY <1>3 DEF EdgesMatchChanges
-----------------------------------------------------------------------------
(* The connection.                                                         *)

\* Types are kept, whatever the lengths of the iterations and the counter.
THEOREM ConnectionTypeCorrect == Spec => []TypeOK
<1> USE DEF vars, loop, attempts, socket, driver, world
<1>1. 0 \in Instants /\ 0 \in 0..JoinTime
  BY ClockAssumption, TimeAssumption DEF Instants
<1>2. Init => TypeOK
  BY <1>1 DEF Init, TypeOK
<1>3. TypeOK /\ [Next]_(vars) => TypeOK'
  <2> SUFFICES ASSUME TypeOK, [Next]_(vars) PROVE TypeOK'
    OBVIOUS
  <2>1. ASSUME NEW d \in 1..MaxStep, StartLoop(d) PROVE TypeOK'
    <3>1. nowMs + d \in Nat /\ joining + d \in Nat
      BY TimeAssumption DEF TypeOK, Instants
    <3>2. nowMs' \in Instants
      BY <2>1, <3>1, ClockAssumption DEF StartLoop, Later, Instants
    <3>3. joining' \in 0..JoinTime /\ wifi' \in {"off", "joining", "up", "leaving"}
      BY <2>1, <3>1, TimeAssumption DEF StartLoop, TypeOK
    <3>4. QED
      BY <2>1, <3>2, <3>3 DEF StartLoop, TypeOK
  <2>2. CASE MaintainConnections
    BY <2>2 DEF MaintainConnections, DisconnectWebSocket, TypeOK
  <2>3. CASE BeginWifiConnection
    BY <1>1, <2>3 DEF BeginWifiConnection, TypeOK
  <2>4. CASE BeginWebSocketConnection
    BY <2>4 DEF BeginWebSocketConnection, TypeOK
  <2>5. CASE Connected \/ Disconnected \/ NothingHappens
    BY <2>5 DEF Connected, Disconnected, NothingHappens,
       FlagsCleared, TypeOK
  <2>6. ASSUME NEW c \in Configs, ApplySavedConfig(c) PROVE TypeOK'
    BY <1>1, <2>6 DEF ApplySavedConfig, DisconnectWebSocket, TypeOK
  <2>7. CASE Joined \/ Left
    BY <2>7 DEF Joined, Left, TypeOK
  <2>8. CASE AccessChanges
    BY <2>8 DEF AccessChanges, TypeOK
  <2>9. CASE HostChanges
    BY <2>9 DEF HostChanges, TypeOK
  <2>10. CASE UNCHANGED vars
    BY <2>10 DEF TypeOK
  <2>11. QED
    BY <2>1, <2>2, <2>3, <2>4, <2>5, <2>6, <2>7, <2>8, <2>9, <2>10
    DEF Next, LoopStep
<1>4. QED
  BY <1>2, <1>3, PTL DEF Spec

-----------------------------------------------------------------------------
\* What the library was begun with is the configuration as long as it is
\* serviced, and it is begun only with one: the loop has looked for it.
BegunWithConfig ==
  /\ webSocketConfigured => endpoint = config /\ config # None
  /\ webSocketConnected => webSocketConfigured
  /\ at \in {"wifi", "websocket"} => config # None

\* An open connection goes to the configured Host, and the loop services it.
THEOREM FramesGoToConfiguredHost == Spec => []SendsToConfiguredHost
<1> USE DEF vars, loop, attempts, socket, driver, world
<1>1. Init => BegunWithConfig
  BY DEF Init, BegunWithConfig
<1>2. BegunWithConfig /\ [Next]_(vars) => BegunWithConfig'
  <2> SUFFICES ASSUME BegunWithConfig, [Next]_(vars) PROVE BegunWithConfig'
    OBVIOUS
  <2>1. ASSUME NEW d \in 1..MaxStep, StartLoop(d) PROVE BegunWithConfig'
    BY <2>1 DEF StartLoop, BegunWithConfig
  <2>2. CASE MaintainConnections
    BY <2>2 DEF MaintainConnections, DisconnectWebSocket, BegunWithConfig
  <2>3. CASE BeginWifiConnection
    BY <2>3 DEF BeginWifiConnection, BegunWithConfig
  <2>4. CASE BeginWebSocketConnection
    BY <2>4 DEF BeginWebSocketConnection, BegunWithConfig
  <2>5. CASE Connected
    BY <2>5 DEF Connected, Serviced, BegunWithConfig
  <2>6. CASE Disconnected
    BY <2>6 DEF Disconnected, FlagsCleared, BegunWithConfig
  <2>7. ASSUME NEW c \in Configs, ApplySavedConfig(c) PROVE BegunWithConfig'
    BY <2>7, NoneAssumption DEF ApplySavedConfig, DisconnectWebSocket, BegunWithConfig
  <2>8. CASE \/ NothingHappens \/ Joined \/ Left
             \/ AccessChanges \/ HostChanges
    BY <2>8 DEF NothingHappens, Joined, Left, AccessChanges,
       HostChanges, BegunWithConfig
  <2>9. CASE UNCHANGED vars
    BY <2>9 DEF BegunWithConfig
  <2>10. QED
    BY <2>1, <2>2, <2>3, <2>4, <2>5, <2>6, <2>7, <2>8, <2>9 DEF Next, LoopStep
<1>3. BegunWithConfig => SendsToConfiguredHost
  BY DEF BegunWithConfig, SendsToConfiguredHost
<1>4. QED
  BY <1>1, <1>2, <1>3, PTL DEF Spec
=================================================================================
