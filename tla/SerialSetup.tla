------------------------------ MODULE SerialSetup ------------------------------
(***************************************************************************)
(* How a configuration gets into the controller: the configure exchange of *)
(* scripts/connect-m5-usb.py with the serial handler of the firmware       *)
(* (firmware/m5-controller/src/main.cpp) over one USB line.                *)
(*                                                                         *)
(* The controller answers every setup line, and greets with the same kind  *)
(* of answer when it boots; an answer does not say what it answers.  The   *)
(* script repeats its line until an answer comes and takes the first one.  *)
(* One script runs at a time.  Deadlines are not counted: a script's wait  *)
(* may end at any time the code allows.                                    *)
(***************************************************************************)
EXTENDS Naturals, Sequences

CONSTANTS
  Configs,       \* the configurations that scripts send
  Bad,           \* those the firmware rejects: a field missing, no ws:// URL
  Long,          \* those whose line does not fit into SerialBufferLimit
  None,          \* an empty string in the controller's preferences
  RebootAfterConfigure,  \* --reboot-after-configure, the Host's default
  Resets,        \* the controller may lose power or be reset
  Lossy,         \* bytes get lost when lines pile up or the controller boots
  MaxSends,      \* configure lines within the script's 8 s, one every 2 s
  MaxInput,      \* bound: lines waiting in the controller's serial input
  MaxOutput      \* bound: unread lines with which the controller is reset

ASSUME ConfigsAssumption ==
  /\ Long \subseteq Bad /\ Bad \subseteq Configs
  /\ None \notin Configs
  /\ {"reboot", "garbled", "cut"} \cap Configs = {}
ASSUME OptionsAssumption ==
  RebootAfterConfigure \in BOOLEAN /\ Resets \in BOOLEAN /\ Lossy \in BOOLEAN
ASSUME BoundsAssumption == MaxSends \in Nat \ {0} /\ MaxInput \in Nat \ {0} /\ MaxOutput \in Nat

VARIABLES
  stored,   \* the preferences in the controller's flash, by key
  config,   \* the configuration in its memory
  up,       \* it has booted
  rx,       \* lines waiting in its serial input
  tx,       \* lines it has printed and the script has not read
  phase,    \* where the script is; "off" if none runs
  want,     \* what the last script was to configure, None if only to probe
  sends,    \* how often it has sent its line
  outcome   \* what it has reported

controller == <<stored, config, up>>
script == <<phase, want, sends, outcome>>
vars == <<controller, rx, tx, script>>

Good == Configs \ Bad
Keys == <<"ssid", "password", "serverUrl", "deviceId">>
Whole(c) == [k \in DOMAIN Keys |-> c]
HasNetworkConfig(values) == \A k \in DOMAIN Keys : Keys[k] # "password" => values[k] # None

\* Lines to the controller; "garbled" is no JSON, "cut" has no end yet.
Lines == Configs \cup {"reboot", "garbled", "cut"}

\* Lines from it: configureResult with ok true or false, register or status,
\* diagnoseResult, and the heartbeat and orientation frames.
Messages == {"ok", "rejected", "register", "diagnose", "orientation"}
NamesVersion(m) == m # "orientation"
IsDataFrame(m) == m \in {"register", "orientation"}

TypeOK ==
  /\ stored \in [DOMAIN Keys -> Good \cup {None}]
  /\ config \in [DOMAIN Keys -> Good \cup {None}]
  /\ up \in BOOLEAN
  /\ rx \in Seq(Lines) /\ Len(rx) <= MaxInput
  /\ tx \in Seq(Messages)
  /\ phase \in {"off", "check", "configure", "reboot", "probe"}
  /\ want \in Configs \cup {None}
  /\ phase = "configure" => want # None
  /\ sends \in 0..MaxSends
  /\ outcome \in {"none", "accepted", "rejected", "timeout", "data"}

\* A controller that was configured before, or never was.
Init ==
  /\ \E c \in Good \cup {None} : stored = Whole(c)
  /\ config = stored /\ up = TRUE
  /\ rx = <<>> /\ tx = <<>>
  /\ phase = "off" /\ want = None /\ sends = 0 /\ outcome = "none"

-----------------------------------------------------------------------------
(* The line.                                                               *)

\* Nobody keeps what the controller prints while no script has the port open.
Printed(messages) == IF phase = "off" THEN tx ELSE tx \o messages

\* A line that follows a cut one becomes part of it.
Joined(line) ==
  IF rx # <<>> /\ rx[Len(rx)] = "cut"
  THEN [rx EXCEPT ![Len(rx)] = IF line = "cut" THEN "cut" ELSE "garbled"]
  ELSE Append(rx, line)

\* What the script writes while the controller boots is lost, but perhaps for
\* the end of it.  The input buffer may overflow while other lines wait.
Written(line) ==
  /\ Len(rx) < MaxInput
  /\ IF up
     THEN \/ rx' = Joined(line)
          \/ Lossy /\ rx # <<>> /\ rx' = Joined("cut")
     ELSE \/ UNCHANGED rx
          \/ Lossy /\ rx' = Joined("garbled")

-----------------------------------------------------------------------------
(* The controller.                                                         *)

\* MUTANT: the configuration in memory is not replaced.
AppliedToFlashOnly(c) == stored' = Whole(c) /\ UNCHANGED config
ApplySavedConfig(c) == stored' = Whole(c) /\ config' = Whole(c)

\* MUTANT: every configuration that arrives is stored.
ConfigureUnchecked(c) == ApplySavedConfig(c) /\ tx' = Printed(<<"ok">>)
\* MUTANT: answered, but stored only if the memory has no configuration.
ConfigureOnce(c) ==
  /\ IF HasNetworkConfig(config) THEN UNCHANGED <<stored, config>> ELSE ApplySavedConfig(c)
  /\ tx' = Printed(<<"ok">>)

\* The end of a line that is too long is a line of its own.
HandleConfigure(c) ==
  \/ c \in Good /\ ApplySavedConfig(c) /\ tx' = Printed(<<"ok">>)
  \/ /\ c \in Bad
     /\ tx' = Printed(IF c \in Long THEN <<"rejected", "rejected">> ELSE <<"rejected">>)
     /\ UNCHANGED <<stored, config>>

\* readSerialSetup, for one line.
HandleSerialLine ==
  /\ up /\ rx # <<>>
  /\ \/ /\ Head(rx) \in Configs /\ HandleConfigure(Head(rx))
        /\ rx' = Tail(rx) /\ UNCHANGED up
     \/ /\ Head(rx) = "garbled" /\ tx' = Printed(<<"rejected">>)
        /\ rx' = Tail(rx) /\ UNCHANGED controller
     \/ /\ Head(rx) = "reboot" /\ tx' = Printed(<<"ok">>)
        /\ rx' = <<>> /\ up' = FALSE /\ UNCHANGED <<stored, config>>
  /\ UNCHANGED script

\* loadConfig and the greeting of setup().
\* MUTANT: greets with ok whatever it has loaded.
GreetingOk == "ok"
Greeting == IF HasNetworkConfig(stored) THEN "ok" ELSE "rejected"
Boot ==
  /\ ~up
  /\ up' = TRUE /\ config' = stored
  /\ tx' = Printed(<<Greeting, "register", "diagnose">>)
  /\ UNCHANGED <<stored, rx, script>>

\* Heartbeats, orientation and status, printed now and then.  Bound: only if
\* the script has read everything else.
SendTelemetry ==
  /\ up /\ phase # "off" /\ tx = <<>>
  /\ \E m \in {"register", "orientation"} : tx' = <<m>>
  /\ UNCHANGED <<controller, rx, script>>

\* It is reset, or loses power.  What it has not read is lost.  Bound: not
\* while a script lags more than MaxOutput lines behind.
Reset ==
  /\ Resets /\ up /\ Len(tx) <= MaxOutput
  /\ up' = FALSE /\ rx' = <<>>
  /\ UNCHANGED <<stored, config, tx, script>>

\* The same while saveConfig writes the preferences one after the other: only
\* the first n are new.
ResetWhileSaving ==
  /\ Resets /\ up /\ Len(tx) <= MaxOutput /\ rx # <<>> /\ Head(rx) \in Good
  /\ \E n \in DOMAIN Keys :
       stored' = [k \in DOMAIN Keys |-> IF k <= n THEN Head(rx) ELSE stored[k]]
  /\ up' = FALSE /\ rx' = <<>>
  /\ UNCHANGED <<config, tx, script>>

-----------------------------------------------------------------------------
(* The script.                                                             *)

\* The operator starts it, to configure c or only to probe.
StartScript(c) ==
  /\ phase = "off"
  /\ phase' = "check" /\ want' = c /\ sends' = 0 /\ outcome' = "none" /\ tx' = <<>>
  /\ UNCHANGED <<controller, rx>>

\* check_firmware reads on.
CheckFirmware ==
  /\ phase = "check" /\ tx # <<>> /\ ~NamesVersion(Head(tx))
  /\ tx' = Tail(tx)
  /\ UNCHANGED <<controller, rx, script>>

\* It has read a version or waited for 3 s; probe_port opens the port again.
FirmwareChecked ==
  /\ phase = "check"
  /\ tx' = <<>>
  /\ phase' = IF want = None THEN "probe" ELSE "configure"
  /\ UNCHANGED <<controller, rx, want, sends, outcome>>

\* What was printed before is discarded; the line is sent at once and again
\* every 2 s.
SendConfigure ==
  /\ phase = "configure" /\ sends < MaxSends
  /\ tx' = <<>>
  /\ Written(want)
  /\ sends' = sends + 1
  /\ UNCHANGED <<controller, phase, want, outcome>>

ReadConfigureResult ==
  /\ phase = "configure" /\ sends > 0 /\ tx # <<>>
  /\ \/ /\ Head(tx) = "ok"
        /\ outcome' = "accepted" /\ tx' = Tail(tx)
        /\ phase' = IF RebootAfterConfigure THEN "reboot" ELSE "probe"
     \/ /\ Head(tx) = "rejected"
        /\ outcome' = "rejected" /\ tx' = <<>> /\ phase' = "off"
     \/ /\ Head(tx) \notin {"ok", "rejected"}
        /\ tx' = Tail(tx) /\ UNCHANGED <<phase, outcome>>
  /\ UNCHANGED <<controller, rx, want, sends>>

\* MUTANT: the wait has no deadline.
NeverTimesOut == FALSE /\ UNCHANGED vars
ConfigureTimeout ==
  /\ phase = "configure" /\ sends = MaxSends
  /\ outcome' = "timeout" /\ phase' = "off" /\ tx' = <<>>
  /\ UNCHANGED <<controller, rx, want, sends>>

SendReboot ==
  /\ phase = "reboot"
  /\ Written("reboot")
  /\ phase' = "probe"
  /\ UNCHANGED <<controller, tx, want, sends, outcome>>

\* A line that arrives in the rest of the 10 s.
HandleLine ==
  /\ phase = "probe" /\ tx # <<>>
  /\ outcome' = IF outcome = "none" /\ IsDataFrame(Head(tx)) THEN "data" ELSE outcome
  /\ tx' = Tail(tx)
  /\ UNCHANGED <<controller, rx, phase, want, sends>>

ProbeEnds ==
  /\ phase = "probe"
  /\ phase' = "off" /\ tx' = <<>>
  /\ UNCHANGED <<controller, rx, want, sends, outcome>>

\* It is aborted, or the serial port is gone.
ScriptAborted ==
  /\ phase # "off"
  /\ phase' = "off" /\ tx' = <<>>
  /\ UNCHANGED <<controller, rx, want, sends, outcome>>

Next ==
  \/ HandleSerialLine \/ Boot \/ SendTelemetry \/ Reset \/ ResetWhileSaving
  \/ \E c \in Configs \cup {None} : StartScript(c)
  \/ CheckFirmware \/ FirmwareChecked \/ SendConfigure \/ ReadConfigureResult
  \/ ConfigureTimeout \/ SendReboot \/ HandleLine \/ ProbeEnds \/ ScriptAborted

Spec == Init /\ [][Next]_vars

\* Every wait of the script has a deadline and its retries a period; the
\* controller's loop comes back to its serial input, and it boots.
Fairness ==
  /\ WF_vars(FirmwareChecked) /\ WF_vars(SendConfigure) /\ WF_vars(ConfigureTimeout)
  /\ WF_vars(SendReboot) /\ WF_vars(ProbeEnds)
  /\ WF_vars(HandleSerialLine) /\ WF_vars(Boot)

FairSpec == Spec /\ Fairness
-----------------------------------------------------------------------------
(* Safety.                                                                 *)

\* A running controller connects with what it would load after a restart,
\* across resets in the middle of saving.
RunningIsSaved == up => config = stored

\* However many answers are lost, late or of another line: a script reports
\* success of a configuration only if the controller has one that it can use
\* to connect, perhaps not this one.
AcceptedIsUsable == outcome = "accepted" => HasNetworkConfig(stored)

\* Without resets, reboots and losses an accepted configuration is stored, or
\* still waits to be read: retries, aborts and answers to earlier lines do
\* not make the script report what the controller never gets.
AcceptedIsNotLost ==
  outcome = "accepted" /\ want \in Good =>
    stored = Whole(want) \/ \E i \in DOMAIN rx : rx[i] = want

(* Liveness.                                                               *)

\* Every script ends, whatever the controller does or fails to do.  The
\* pairing workflow of the Host relies on it.
ScriptEnds == phase # "off" ~> phase = "off"

\* What was accepted gets stored, unless the next script comes first.
AcceptedBecomesStored ==
  \A c \in Good : outcome = "accepted" /\ want = c
                    ~> stored = Whole(c) \/ phase = "check"
=============================================================================
