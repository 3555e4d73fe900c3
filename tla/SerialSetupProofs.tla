--------------------------- MODULE SerialSetupProofs ---------------------------
(* Proofs of the safety properties of SerialSetup.                         *)
EXTENDS SerialSetup, TLAPS

\* Line x is somewhere in s.
HasLine(s, x) == \E i \in DOMAIN s : s[i] = x

-----------------------------------------------------------------------------
(* Sequences.                                                              *)

\* What a tail holds, the sequence holds.
LEMMA TailHolds ==
  ASSUME NEW S, NEW s \in Seq(S), s # <<>>, NEW x, HasLine(Tail(s), x)
  PROVE  HasLine(s, x)
BY DEF HasLine

\* What a concatenation holds, one of its parts holds.
LEMMA ConcatHolds ==
  ASSUME NEW S, NEW s \in Seq(S), NEW t \in Seq(S), NEW x, HasLine(s \o t, x)
  PROVE  HasLine(s, x) \/ HasLine(t, x)
BY DEF HasLine

\* Joining a line to the input keeps it a sequence of lines, adds at most one,
\* and brings in nothing but the line, a cut one or a garbled one.
LEMMA JoinedLines ==
  ASSUME TypeOK, NEW line \in Lines
  PROVE  /\ Joined(line) \in Seq(Lines)
         /\ Len(Joined(line)) <= Len(rx) + 1
         /\ \A x : HasLine(Joined(line), x) =>
                     HasLine(rx, x) \/ x \in {line, "cut", "garbled"}
<1>1. rx \in Seq(Lines) /\ {"cut", "garbled"} \subseteq Lines
  BY DEF TypeOK, Lines
<1>2. CASE rx # <<>> /\ rx[Len(rx)] = "cut"
  <2>1. PICK y \in {"cut", "garbled"} : Joined(line) = [rx EXCEPT ![Len(rx)] = y]
    BY <1>2 DEF Joined
  <2>2. /\ Joined(line) \in Seq(Lines) /\ Len(Joined(line)) = Len(rx)
        /\ \A i \in DOMAIN rx : Joined(line)[i] \in {rx[i], y}
        /\ DOMAIN Joined(line) = DOMAIN rx
    BY <1>1, <1>2, <2>1
  <2>3. QED BY <1>1, <2>1, <2>2 DEF HasLine
<1>3. CASE ~(rx # <<>> /\ rx[Len(rx)] = "cut")
  <2>1. Joined(line) = Append(rx, line)
    BY <1>3 DEF Joined
  <2>2. QED BY <1>1, <2>1 DEF HasLine
<1>4. QED BY <1>2, <1>3

\* The same for a line that is written, in every way it can get lost.
LEMMA WrittenLines ==
  ASSUME TypeOK, NEW line \in Lines, Written(line)
  PROVE  /\ rx' \in Seq(Lines) /\ Len(rx') <= MaxInput
         /\ \A x : HasLine(rx', x) => HasLine(rx, x) \/ x \in {line, "cut", "garbled"}
<1>1. PICK y \in {line, "cut", "garbled"} : rx' = rx \/ rx' = Joined(y)
  BY DEF Written
<1>2. y \in Lines
  BY <1>1 DEF Lines
<1>3. CASE rx' = rx
  BY <1>3 DEF TypeOK, Written
<1>4. CASE rx' = Joined(y)
  <2>1. /\ Joined(y) \in Seq(Lines) /\ Len(Joined(y)) <= Len(rx) + 1
        /\ \A x : HasLine(Joined(y), x) => HasLine(rx, x) \/ x \in {y, "cut", "garbled"}
    BY <1>2, JoinedLines
  <2>2. Len(rx) \in Nat /\ Len(rx) < MaxInput /\ MaxInput \in Nat
    BY BoundsAssumption DEF TypeOK, Written
  <2>3. Len(Joined(y)) \in Nat
    BY <2>1
  <2>4. Len(rx') <= MaxInput
    BY <1>4, <2>1, <2>2, <2>3
  <2>5. QED BY <1>1, <1>4, <2>1, <2>4
<1>5. QED BY <1>1, <1>3, <1>4

\* What the controller prints are messages; nothing else comes in.
LEMMA PrintedMessages ==
  ASSUME TypeOK, NEW ms \in Seq(Messages)
  PROVE  /\ Printed(ms) \in Seq(Messages)
         /\ \A x : HasLine(Printed(ms), x) => HasLine(tx, x) \/ HasLine(ms, x)
<1>1. tx \in Seq(Messages)
  BY DEF TypeOK
<1>2. CASE phase = "off"
  BY <1>1, <1>2 DEF Printed
<1>3. CASE phase # "off"
  <2>1. Printed(ms) = tx \o ms
    BY <1>3 DEF Printed
  <2>2. QED BY <1>1, <2>1, ConcatHolds
<1>4. QED BY <1>2, <1>3

\* Usable configurations are whole and good for a connection.
LEMMA WholeIsUsable ==
  ASSUME NEW c \in Good
  PROVE  Whole(c) \in [DOMAIN Keys -> Good \cup {None}] /\ HasNetworkConfig(Whole(c))
BY ConfigsAssumption DEF Whole, HasNetworkConfig, Good

-----------------------------------------------------------------------------
(* Type correctness.                                                       *)

\* What a step of the exchange leaves of the types when it only writes a line.
LEMMA TypeHandle == TypeOK /\ HandleSerialLine => TypeOK'
<1> SUFFICES ASSUME TypeOK, HandleSerialLine PROVE TypeOK'
  OBVIOUS
<1>1. /\ rx \in Seq(Lines) /\ rx # <<>> /\ Len(rx) <= MaxInput
      /\ UNCHANGED script /\ MaxInput \in Nat
  BY BoundsAssumption DEF HandleSerialLine, TypeOK
<1>2. Tail(rx) \in Seq(Lines) /\ Len(Tail(rx)) <= MaxInput
  BY <1>1
<1>3. rx' \in Seq(Lines) /\ Len(rx') <= MaxInput
  <2>1. rx' = Tail(rx) \/ rx' = <<>>
    BY DEF HandleSerialLine
  <2>2. <<>> \in Seq(Lines) /\ Len(<<>>) = 0
    OBVIOUS
  <2>3. 0 <= MaxInput
    BY <1>1
  <2>4. QED BY <1>2, <2>1, <2>2, <2>3
<1>4. up' \in BOOLEAN
  BY DEF HandleSerialLine, controller, TypeOK
<1>5. \E ms \in {<<"ok">>, <<"rejected">>, <<"rejected", "rejected">>} : tx' = Printed(ms)
  BY DEF HandleSerialLine, HandleConfigure
<1>6. tx' \in Seq(Messages)
  <2>1. PICK ms \in {<<"ok">>, <<"rejected">>, <<"rejected", "rejected">>} : tx' = Printed(ms)
    BY <1>5
  <2>2. <<"ok">> \in Seq(Messages) /\ <<"rejected">> \in Seq(Messages)
    BY DEF Messages
  <2>3. <<"rejected", "rejected">> \in Seq(Messages)
    BY DEF Messages
  <2>4. ms \in Seq(Messages)
    BY <2>1, <2>2, <2>3
  <2>5. QED BY <2>1, <2>4, PrintedMessages
<1>7. \/ UNCHANGED <<stored, config>>
      \/ \E c \in Good : stored' = Whole(c) /\ config' = Whole(c)
  BY DEF HandleSerialLine, HandleConfigure, ApplySavedConfig, controller
<1>8. /\ stored' \in [DOMAIN Keys -> Good \cup {None}]
      /\ config' \in [DOMAIN Keys -> Good \cup {None}]
  BY <1>7, WholeIsUsable DEF TypeOK
<1>9. QED
  BY <1>1, <1>3, <1>4, <1>6, <1>8 DEF TypeOK, script

LEMMA TypeController ==
  TypeOK /\ (Boot \/ SendTelemetry \/ Reset \/ ResetWhileSaving) => TypeOK'
<1> SUFFICES ASSUME TypeOK, Boot \/ SendTelemetry \/ Reset \/ ResetWhileSaving
             PROVE  TypeOK'
  OBVIOUS
<1>1. CASE Boot
  <2>1. Greeting \in Messages /\ {"register", "diagnose"} \subseteq Messages
    BY DEF Greeting, Messages
  <2>2. <<Greeting, "register", "diagnose">> \in Seq(Messages)
    BY <2>1
  <2>3. tx' = Printed(<<Greeting, "register", "diagnose">>)
    BY <1>1 DEF Boot
  <2>4. tx' \in Seq(Messages)
    BY <2>2, <2>3, PrintedMessages
  <2>5. QED BY <1>1, <2>4 DEF TypeOK, Boot, script
<1>2. CASE SendTelemetry
  <2>1. tx' \in Seq(Messages)
    BY <1>2 DEF SendTelemetry, Messages
  <2>2. QED BY <1>2, <2>1 DEF TypeOK, SendTelemetry, controller, script
<1>3. CASE Reset
  <2>1. rx' \in Seq(Lines) /\ Len(rx') <= MaxInput
    BY <1>3, BoundsAssumption DEF Reset
  <2>2. QED BY <1>3, <2>1 DEF TypeOK, Reset, script
<1>4. CASE ResetWhileSaving
  <2>1. rx' \in Seq(Lines) /\ Len(rx') <= MaxInput
    BY <1>4, BoundsAssumption DEF ResetWhileSaving
  <2>2. stored' \in [DOMAIN Keys -> Good \cup {None}]
    BY <1>4 DEF ResetWhileSaving, TypeOK
  <2>3. QED BY <1>4, <2>1, <2>2 DEF TypeOK, ResetWhileSaving, script
<1>5. QED BY <1>1, <1>2, <1>3, <1>4

\* The script's steps leave the controller alone.
ScriptStep ==
  \/ \E c \in Configs \cup {None} : StartScript(c)
  \/ CheckFirmware \/ FirmwareChecked \/ SendConfigure \/ ReadConfigureResult
  \/ ConfigureTimeout \/ SendReboot \/ HandleLine \/ ProbeEnds \/ ScriptAborted

LEMMA TypeScript == TypeOK /\ ScriptStep => TypeOK'
<1> SUFFICES ASSUME TypeOK, ScriptStep PROVE TypeOK'
  OBVIOUS
<1>1. /\ UNCHANGED controller
      /\ tx' = <<>> \/ tx' = tx \/ (tx # <<>> /\ tx' = Tail(tx))
  BY DEF ScriptStep, StartScript, CheckFirmware, FirmwareChecked, SendConfigure,
     ReadConfigureResult, ConfigureTimeout, SendReboot, HandleLine, ProbeEnds,
     ScriptAborted
<1>2. tx \in Seq(Messages)
  BY DEF TypeOK
<1>3. tx' \in Seq(Messages)
  <2>1. CASE tx' = <<>>
    BY <2>1
  <2>2. CASE tx # <<>> /\ tx' = Tail(tx)
    BY <1>2, <2>2
  <2>3. QED BY <1>1, <1>2, <2>1, <2>2
<1>4. rx' \in Seq(Lines) /\ Len(rx') <= MaxInput
  <2>1. CASE SendConfigure
    <3>1. want \in Lines
      BY <2>1 DEF SendConfigure, Lines, TypeOK
    <3>2. QED BY <2>1, <3>1, WrittenLines DEF SendConfigure
  <2>2. CASE SendReboot
    BY <2>2, WrittenLines DEF SendReboot, Lines
  <2>3. CASE UNCHANGED rx
    BY <2>3 DEF TypeOK
  <2>4. QED
    BY <2>1, <2>2, <2>3 DEF ScriptStep, StartScript, CheckFirmware, FirmwareChecked,
       ReadConfigureResult, ConfigureTimeout, HandleLine, ProbeEnds, ScriptAborted
<1>5. /\ phase' \in {"off", "check", "configure", "reboot", "probe"}
      /\ phase' = "configure" => want' # None
      /\ want' \in Configs \cup {None}
      /\ outcome' \in {"none", "accepted", "rejected", "timeout", "data"}
  BY DEF TypeOK, ScriptStep, StartScript, CheckFirmware, FirmwareChecked, SendConfigure,
     ReadConfigureResult, ConfigureTimeout, SendReboot, HandleLine, ProbeEnds,
     ScriptAborted, script
<1>6. sends' \in 0..MaxSends
  <2>1. sends' = sends \/ sends' = 0 \/ (sends < MaxSends /\ sends' = sends + 1)
    BY DEF ScriptStep, StartScript, CheckFirmware, FirmwareChecked, SendConfigure,
       ReadConfigureResult, ConfigureTimeout, SendReboot, HandleLine, ProbeEnds,
       ScriptAborted, script
  <2>2. QED BY <2>1, BoundsAssumption DEF TypeOK
<1>7. QED
  BY <1>1, <1>3, <1>4, <1>5, <1>6 DEF TypeOK, controller

LEMMA TypeInit == Init => TypeOK
<1> SUFFICES ASSUME Init PROVE TypeOK
  OBVIOUS
<1>1. stored \in [DOMAIN Keys -> Good \cup {None}] /\ config = stored
  BY DEF Init, Whole
<1>2. QED
  BY <1>1, BoundsAssumption DEF Init, TypeOK

LEMMA TypeNext == TypeOK /\ [Next]_vars => TypeOK'
<1>1. ASSUME TypeOK, UNCHANGED vars PROVE TypeOK'
  BY <1>1 DEF TypeOK, vars, controller, script
<1>2. Next => HandleSerialLine \/ (Boot \/ SendTelemetry \/ Reset \/ ResetWhileSaving) \/ ScriptStep
  BY DEF Next, ScriptStep
<1>3. QED
  BY <1>1, <1>2, TypeHandle, TypeController, TypeScript

\* Types are kept: in particular only configurations that the firmware accepts
\* reach its memory and its flash, in whole or in part.
THEOREM TypeCorrect == Spec => []TypeOK
<1>1. QED
  BY TypeInit, TypeNext, PTL DEF Spec

-----------------------------------------------------------------------------
(* Memory and flash.                                                       *)

\* A running controller has in memory what it would load.
THEOREM RunningControllerIsSaved == Spec => []RunningIsSaved
<1>1. Init => RunningIsSaved
  BY DEF Init, RunningIsSaved
<1>2. RunningIsSaved /\ [Next]_vars => RunningIsSaved'
  <2> SUFFICES ASSUME RunningIsSaved, [Next]_vars PROVE RunningIsSaved'
    OBVIOUS
  <2>1. CASE HandleSerialLine
    BY <2>1 DEF RunningIsSaved, HandleSerialLine, HandleConfigure, ApplySavedConfig, controller
  <2>2. CASE Boot \/ SendTelemetry \/ Reset \/ ResetWhileSaving
    BY <2>2 DEF RunningIsSaved, Boot, SendTelemetry, Reset, ResetWhileSaving, controller
  <2>3. CASE ScriptStep
    BY <2>3 DEF RunningIsSaved, ScriptStep, StartScript, CheckFirmware, FirmwareChecked,
       SendConfigure, ReadConfigureResult, ConfigureTimeout, SendReboot, HandleLine,
       ProbeEnds, ScriptAborted, controller
  <2>4. CASE UNCHANGED vars
    BY <2>4 DEF RunningIsSaved, vars, controller
  <2>5. QED
    BY <2>1, <2>2, <2>3, <2>4 DEF Next, ScriptStep
<1>3. QED
  BY <1>1, <1>2, PTL DEF Spec

-----------------------------------------------------------------------------
(* Success means a usable configuration.  An "ok" can be the answer to a   *)
(* configuration, a greeting, or the answer to a reboot; reboots are sent  *)
(* only after an "ok".                                                     *)

OkAround ==
  \/ HasLine(tx, "ok") \/ HasLine(rx, "reboot")
  \/ phase = "reboot" \/ outcome = "accepted"

UsableInv == OkAround => HasNetworkConfig(stored)

\* Saving keeps a usable configuration usable, even if it is cut short.
LEMMA UsableStays ==
  ASSUME TypeOK, [Next]_vars, HasNetworkConfig(stored)
  PROVE  HasNetworkConfig(stored')
<1>1. CASE HandleSerialLine
  BY <1>1, WholeIsUsable DEF HandleSerialLine, HandleConfigure, ApplySavedConfig, controller
<1>2. CASE ResetWhileSaving
  <2>1. PICK n \in DOMAIN Keys :
          stored' = [k \in DOMAIN Keys |-> IF k <= n THEN Head(rx) ELSE stored[k]]
    BY <1>2 DEF ResetWhileSaving
  <2>2. Head(rx) # None
    BY <1>2, ConfigsAssumption DEF ResetWhileSaving, Good
  <2>3. QED BY <2>1, <2>2 DEF HasNetworkConfig
<1>3. CASE UNCHANGED stored
  BY <1>3
<1>4. QED
  BY <1>1, <1>2, <1>3 DEF Next, vars, controller, Boot, SendTelemetry, Reset,
     StartScript, CheckFirmware, FirmwareChecked, SendConfigure, ReadConfigureResult,
     ConfigureTimeout, SendReboot, HandleLine, ProbeEnds, ScriptAborted

\* An "ok" appears only where there was one, or with a usable configuration.
LEMMA OkAppears ==
  ASSUME TypeOK, UsableInv, Next, OkAround', ~OkAround
  PROVE  HasNetworkConfig(stored')
<1> USE DEF OkAround
<1>1. CASE HandleSerialLine
  <2>1. CASE Head(rx) \in Good /\ ApplySavedConfig(Head(rx))
    BY <2>1, WholeIsUsable DEF ApplySavedConfig
  <2>2. CASE Head(rx) = "reboot"
    <3>1. HasLine(rx, "reboot")
      BY <1>1, <2>2 DEF HandleSerialLine, HasLine, TypeOK
    <3>2. QED BY <3>1
  <2>3. CASE \E ms \in {<<"rejected">>, <<"rejected", "rejected">>} :
               tx' = Printed(ms) /\ rx' = Tail(rx)
    <3>1. PICK ms \in {<<"rejected">>, <<"rejected", "rejected">>} :
               tx' = Printed(ms) /\ rx' = Tail(rx)
      BY <2>3
    <3>2. <<"rejected">> \in Seq(Messages) /\ <<"rejected", "rejected">> \in Seq(Messages)
      BY DEF Messages
    <3>3. ~HasLine(<<"rejected">>, "ok") /\ ~HasLine(<<"rejected", "rejected">>, "ok")
      BY DEF HasLine
    <3>4. HasLine(tx', "ok") => HasLine(tx, "ok")
      BY <3>1, <3>2, <3>3, PrintedMessages
    <3>5. HasLine(rx', "reboot") => HasLine(rx, "reboot")
      BY <1>1, <3>1, TailHolds DEF HandleSerialLine, TypeOK
    <3>6. QED BY <1>1, <3>4, <3>5 DEF HandleSerialLine, script
  <2>4. QED BY <1>1, <2>1, <2>2, <2>3 DEF HandleSerialLine, HandleConfigure
<1>2. CASE Boot
  <2>1. CASE HasNetworkConfig(stored)
    BY <1>2, <2>1 DEF Boot
  <2>2. CASE ~HasNetworkConfig(stored)
    <3>1. tx' = Printed(<<"rejected", "register", "diagnose">>)
      BY <1>2, <2>2 DEF Boot, Greeting
    <3>2. /\ <<"rejected", "register", "diagnose">> \in Seq(Messages)
          /\ ~HasLine(<<"rejected", "register", "diagnose">>, "ok")
      BY DEF Messages, HasLine
    <3>3. HasLine(tx', "ok") => HasLine(tx, "ok")
      BY <3>1, <3>2, PrintedMessages
    <3>4. QED BY <1>2, <3>3 DEF Boot, script
  <2>3. QED BY <2>1, <2>2
<1>3. CASE SendTelemetry
  BY <1>3 DEF SendTelemetry, HasLine, script
<1>4. CASE Reset \/ ResetWhileSaving
  BY <1>4 DEF Reset, ResetWhileSaving, HasLine, script
<1>5. CASE ScriptStep
  <2>1. tx' = <<>> \/ tx' = tx \/ (tx # <<>> /\ tx' = Tail(tx))
    BY <1>5 DEF ScriptStep, StartScript, CheckFirmware, FirmwareChecked, SendConfigure,
       ReadConfigureResult, ConfigureTimeout, SendReboot, HandleLine, ProbeEnds,
       ScriptAborted
  <2>2. HasLine(tx', "ok") => HasLine(tx, "ok")
    <3>1. CASE tx' = <<>>
      BY <3>1 DEF HasLine
    <3>2. CASE tx # <<>> /\ tx' = Tail(tx)
      BY <3>2, TailHolds DEF TypeOK
    <3>3. QED BY <2>1, <3>1, <3>2
  <2>3. HasLine(rx', "reboot") => HasLine(rx, "reboot") \/ phase = "reboot"
    <3>1. CASE SendConfigure
      <4>1. want \in Lines /\ want # "reboot"
        BY <3>1, ConfigsAssumption DEF SendConfigure, TypeOK, Lines
      <4>2. QED BY <3>1, <4>1, WrittenLines DEF SendConfigure
    <3>2. CASE SendReboot
      BY <3>2 DEF SendReboot
    <3>3. CASE UNCHANGED rx
      BY <3>3
    <3>4. QED
      BY <1>5, <3>1, <3>2, <3>3 DEF ScriptStep, StartScript, CheckFirmware, FirmwareChecked,
         ReadConfigureResult, ConfigureTimeout, HandleLine, ProbeEnds, ScriptAborted
  <2>4. phase' = "reboot" \/ outcome' = "accepted" =>
          phase = "reboot" \/ outcome = "accepted" \/ (tx # <<>> /\ Head(tx) = "ok")
    BY <1>5 DEF ScriptStep, StartScript, CheckFirmware, FirmwareChecked, SendConfigure,
       ReadConfigureResult, ConfigureTimeout, SendReboot, HandleLine, ProbeEnds,
       ScriptAborted, script
  <2>5. tx # <<>> /\ Head(tx) = "ok" => HasLine(tx, "ok")
    BY DEF HasLine, TypeOK
  <2>6. QED BY <2>2, <2>3, <2>4, <2>5
<1>6. QED
  BY <1>1, <1>2, <1>3, <1>4, <1>5 DEF Next, ScriptStep

\* A script reports success only of a controller that has a configuration it
\* can connect with.
THEOREM AcceptedControllerIsUsable == Spec => []AcceptedIsUsable
<1>1. Init => UsableInv
  BY DEF Init, UsableInv, OkAround, HasLine
<1>2. TypeOK /\ UsableInv /\ [Next]_vars => UsableInv'
  <2> SUFFICES ASSUME TypeOK, UsableInv, [Next]_vars, OkAround'
               PROVE  HasNetworkConfig(stored')
    BY DEF UsableInv
  <2>1. CASE OkAround
    BY <2>1, UsableStays DEF UsableInv
  <2>2. CASE ~OkAround /\ Next
    BY <2>2, OkAppears
  <2>3. CASE ~OkAround /\ UNCHANGED vars
    BY <2>3 DEF OkAround, HasLine, vars, script
  <2>4. QED BY <2>1, <2>2, <2>3
<1>3. UsableInv => AcceptedIsUsable
  BY DEF UsableInv, OkAround, AcceptedIsUsable
<1>4. QED
  BY <1>1, <1>2, <1>3, TypeCorrect, PTL DEF Spec

-----------------------------------------------------------------------------
(* Nothing is lost without resets, reboots and losses.                     *)

Calm == ~Resets /\ ~RebootAfterConfigure /\ ~Lossy

\* Then only configurations come in.
CalmInv == up /\ phase # "reboot" /\ rx \in Seq(Configs)

\* The script's last line is the last one that waits, or nothing waits and it
\* has been stored: all that a script has sent and not a later one.
LastLine == IF rx = <<>> THEN stored = Whole(want) ELSE rx[Len(rx)] = want
SentInv ==
  /\ outcome = "accepted" => sends > 0
  /\ sends > 0 /\ want \in Good => LastLine

CalmSent == CalmInv /\ SentInv

LEMMA CalmWritten ==
  ASSUME Calm, CalmInv, NEW c \in Configs, Written(c)
  PROVE  rx' = Append(rx, c)
<1>1. rx # <<>> => rx[Len(rx)] \in Configs
  BY DEF CalmInv
<1>2. rx # <<>> => rx[Len(rx)] # "cut"
  BY <1>1, ConfigsAssumption
<1>3. QED
  BY <1>2 DEF Calm, CalmInv, Written, Joined

LEMMA CalmHandled ==
  ASSUME Calm, CalmSent, HandleSerialLine
  PROVE  CalmSent'
<1>1. Head(rx) \in Configs /\ rx # <<>> /\ rx \in Seq(Configs)
  BY DEF CalmSent, CalmInv, HandleSerialLine
<1>2. /\ Head(rx) \notin {"garbled", "reboot"}
      /\ rx' = Tail(rx) /\ UNCHANGED <<up, script>> /\ HandleConfigure(Head(rx))
  BY <1>1, ConfigsAssumption DEF HandleSerialLine
<1>3. CalmInv'
  BY <1>1, <1>2 DEF CalmSent, CalmInv, script
<1>4. ASSUME sends > 0, want \in Good PROVE LastLine'
  <2>1. rx[Len(rx)] = want
    BY <1>1, <1>4 DEF CalmSent, SentInv, LastLine
  <2>2. CASE Len(rx) = 1
    <3>1. Head(rx) = want /\ rx' = <<>>
      BY <1>1, <1>2, <2>1, <2>2
    <3>2. stored' = Whole(want)
      BY <1>2, <1>4, <3>1 DEF HandleConfigure, ApplySavedConfig, Good
    <3>3. QED BY <1>2, <3>1, <3>2 DEF LastLine, script
  <2>3. CASE Len(rx) # 1
    <3>1. Len(rx) \in Nat /\ Len(rx) > 1
      BY SMTT(30), <1>1, <2>3
    <3>2. rx' \in Seq(Configs) /\ Len(rx') = Len(rx) - 1
      BY <1>1, <1>2
    <3>3. \A i \in 1..Len(rx) - 1 : rx'[i] = rx[i + 1]
      BY <1>1, <1>2
    <3>4. rx'[Len(rx) - 1] = rx[Len(rx)]
      BY <3>1, <3>3
    <3>5. rx' # <<>>
      BY <3>1, <3>2
    <3>6. QED BY <1>2, <2>1, <3>2, <3>4, <3>5 DEF LastLine, script
  <2>4. QED BY <2>2, <2>3
<1>5. QED
  BY <1>2, <1>3, <1>4 DEF CalmSent, SentInv, script

LEMMA CalmSends ==
  ASSUME TypeOK, Calm, CalmSent, SendConfigure
  PROVE  CalmSent'
<1>1. want \in Configs /\ rx \in Seq(Configs)
  BY DEF SendConfigure, TypeOK, CalmSent, CalmInv
<1>2. rx' = Append(rx, want)
  BY <1>1, CalmWritten DEF SendConfigure, CalmSent
<1>3. rx' \in Seq(Configs) /\ rx' # <<>> /\ rx'[Len(rx')] = want
  BY <1>1, <1>2
<1>4. sends' > 0
  BY DEF SendConfigure, TypeOK
<1>5. QED
  BY <1>3, <1>4 DEF CalmSent, CalmInv, SentInv, LastLine, SendConfigure, controller

\* If the controller is not reset or rebooted and no bytes are lost, then a
\* usable configuration that was accepted is stored or still waits to be read.
THEOREM AcceptedConfigurationIsNotLost ==
  ASSUME Calm PROVE Spec => []AcceptedIsNotLost
<1>1. Init => CalmSent
  BY DEF Init, CalmSent, CalmInv, SentInv
<1>2. TypeOK /\ CalmSent /\ [Next]_vars => CalmSent'
  <2> SUFFICES ASSUME TypeOK, CalmSent, [Next]_vars PROVE CalmSent'
    OBVIOUS
  <2>1. CASE HandleSerialLine
    BY <2>1, CalmHandled
  <2>2. CASE SendConfigure
    BY <2>2, CalmSends
  <2>3. CASE SendTelemetry
    BY <2>3 DEF SendTelemetry, CalmSent, CalmInv, SentInv, LastLine, controller, script
  <2>4. CASE \E c \in Configs \cup {None} : StartScript(c)
    BY <2>4 DEF StartScript, CalmSent, CalmInv, SentInv, controller
  <2>5. CASE ReadConfigureResult
    BY <2>5 DEF ReadConfigureResult, Calm, CalmSent, CalmInv, SentInv, LastLine, controller
  <2>6. CASE CheckFirmware \/ FirmwareChecked \/ ConfigureTimeout \/ HandleLine
             \/ ProbeEnds \/ ScriptAborted
    BY <2>6 DEF CheckFirmware, FirmwareChecked, ConfigureTimeout, HandleLine, ProbeEnds,
       ScriptAborted, CalmSent, CalmInv, SentInv, LastLine, controller, script
  <2>7. CASE UNCHANGED vars
    BY <2>7 DEF vars, CalmSent, CalmInv, SentInv, LastLine, controller, script
  <2>8. ~Boot /\ ~Reset /\ ~ResetWhileSaving /\ ~SendReboot
    BY DEF Boot, Reset, ResetWhileSaving, SendReboot, Calm, CalmSent, CalmInv
  <2>9. QED
    BY <2>1, <2>2, <2>3, <2>4, <2>5, <2>6, <2>7, <2>8 DEF Next
<1>3. CalmSent => AcceptedIsNotLost
  <2> SUFFICES ASSUME CalmSent, outcome = "accepted", want \in Good, stored # Whole(want)
               PROVE  \E i \in DOMAIN rx : rx[i] = want
    BY DEF AcceptedIsNotLost
  <2>1. rx # <<>> /\ rx[Len(rx)] = want /\ rx \in Seq(Configs)
    BY DEF CalmSent, CalmInv, SentInv, LastLine
  <2>2. QED BY <2>1
<1>4. QED
  BY <1>1, <1>2, <1>3, TypeCorrect, PTL DEF Spec
=============================================================================
