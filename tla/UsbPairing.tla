------------------------------ MODULE UsbPairing ------------------------------
(***************************************************************************)
(* The controller pairing workflow of the Host (device/usb-setup.ts), the  *)
(* script it starts (scripts/connect-m5-usb.py) as far as its pipes and    *)
(* exit codes tell the Host about it, and the device connections of        *)
(* ws/gateway.ts as far as they drive the workflow.                        *)
(*                                                                         *)
(* The fields of the Host's status that steer it are variables of their    *)
(* own; texts, progress, time stamps, usbOk and exitCode steer nothing and *)
(* are left out.  The Host handles one callback at a time; scripts, the    *)
(* two pipes of each, sockets and the timer interleave freely.  Writing    *)
(* the controller file may fail; the debug snapshot is taken to be written.*)
(***************************************************************************)
EXTENDS Naturals, Sequences, FiniteSets

CONSTANTS
  Scripts,   \* identities of child processes
  Sockets,   \* identities of /ws/device connections
  None,      \* null
  StderrIsFinal  \* scripts write to stderr only to fail (not so under `uv run`)

ASSUME NoneAssumption == None \notin Scripts \cup Sockets
ASSUME StderrAssumption == StderrIsFinal \in BOOLEAN

VARIABLES
  state,           \* status.state
  startedAt,       \* status.startedAt !== null
  serverUrl,       \* status.serverUrl !== null
  firmwareStatus,  \* status.firmwareStatus; "outdated" stands for any that is not "current"
  usbConnected,    \* status.usbConnected
  wlanOk,          \* status.wlanOk
  flashState,      \* status.flashState
  wlanTimer,       \* whether the 90 s timeout is pending
  currentChild,    \* runtime.currentChild
  scripts,         \* the child processes whose close event is outstanding
  saved,           \* the controller file: has a pairedUrl, and for which token
  open,            \* the open device connections
  frameFrom,       \* history: the connection of the last accepted frame, until it closes
  startFailed      \* history: the last start has failed before its script was started

status == <<state, startedAt, serverUrl, firmwareStatus, usbConnected, wlanOk, flashState>>
runtime == <<wlanTimer, currentChild>>
beside == <<scripts, saved, open, frameFrom, startFailed>>
vars == <<status, runtime, beside>>

ScriptStates ==
  {"usb_connected", "usb_probe", "firmware_check", "firmware_update", "configure", "usb_test"}
BusyStates == ScriptStates \cup {"wlan_test"}
States == BusyStates \cup {"idle", "ready", "failed", "aborted"}

IsPairingBusy == state \in BusyStates

-----------------------------------------------------------------------------
(* The script: what it reports in each mode, in this order.  It reports    *)
(* some steps several times.  A failing script ends after any step; one    *)
(* that was killed or is failing is "ending".                              *)

Modes == {"configure", "probe", "flash"}

Steps == [configure |-> <<"usb_connected", "firmware_check", "configure", "usb_test">>,
          probe |-> <<"usb_connected", "firmware_check", "usb_test">>,
          flash |-> <<"usb_connected", "firmware_update", "flashed">>]

Repeated == {"firmware_check", "configure", "usb_test"}

NoScript == [mode |-> "none", at |-> 0, ending |-> FALSE]
Started(mode) == [mode |-> mode, at |-> 0, ending |-> FALSE]

Alive(c) == scripts[c].mode # "none"
LastStep(s) == s.at = Len(Steps[s.mode])

\* The step numbers that script s may report next.  A script that could not
\* be started reports nothing: its step is beyond the last one.
NextSteps(s) ==
  {k \in DOMAIN Steps[s.mode] :
     k = s.at + 1 \/ (k = s.at /\ Steps[s.mode][k] \in Repeated)}

\* An event line, with "keep" for a field it does not have.  Only a version
\* that was read is reported; the flash reports the one it has uploaded.
Event(step, version) ==
  [state |-> IF step = "flashed" THEN "firmware_update" ELSE step,
   firmwareVersion |-> IF step = "flashed" THEN "current"
                       ELSE IF step \in Repeated THEN version ELSE "keep",
   flashState |-> IF step = "flashed" THEN "succeeded"
                  ELSE IF step = "firmware_update" THEN "running" ELSE "keep"]

Versions == {"outdated", "current"}

TypeOK ==
  /\ state \in States
  /\ startedAt \in BOOLEAN /\ serverUrl \in BOOLEAN /\ usbConnected \in BOOLEAN
  /\ wlanOk \in BOOLEAN /\ wlanTimer \in BOOLEAN
  /\ firmwareStatus \in Versions
  /\ flashState \in {"idle", "running", "succeeded", "failed"}
  /\ currentChild \in Scripts \cup {None}
  /\ scripts \in [Scripts -> [mode: Modes \cup {"none"}, at: 0..5, ending: BOOLEAN]]
  /\ saved \in {"none", "paired", "foreign", "cut"}
  /\ open \in SUBSET Sockets
  /\ frameFrom \in Sockets \cup {None}
  /\ startFailed \in BOOLEAN

-----------------------------------------------------------------------------
Init ==
  /\ state = "idle" /\ startedAt = FALSE /\ serverUrl = FALSE
  /\ firmwareStatus = "outdated" /\ usbConnected = FALSE /\ wlanOk = FALSE
  /\ flashState = "idle" /\ wlanTimer = FALSE /\ currentChild = None
  /\ scripts = [c \in Scripts |-> NoScript]
  /\ saved = "none" /\ open = {} /\ frameFrom = None
  /\ startFailed = FALSE

\* writeControllerConfig rewrites the file in place.  A write that throws has
\* not opened the file, or leaves it cut: without the token's hash, its last
\* line, a start reads no pairing from it.
WriteFails == saved' \in {saved, "cut"}

\* startUsbScript: the new child becomes the current one.
StartUsbScript(c, mode) ==
  /\ ~Alive(c)
  /\ scripts' = [scripts EXCEPT ![c] = Started(mode)]
  /\ currentChild' = c
  /\ startFailed' = FALSE

\* The operator starts pairing.  The firmware has to be current; that is
\* checked in the same callback, which then makes the workflow busy.
CanStartSetup == ~IsPairingBusy /\ firmwareStatus = "current"
ResetStatus ==
  /\ state' = "usb_connected" /\ startedAt' = TRUE /\ serverUrl' = TRUE
  /\ wlanOk' = FALSE /\ usbConnected' = FALSE
  /\ wlanTimer' = FALSE
  /\ UNCHANGED <<firmwareStatus, flashState, open, frameFrom>>

StartUsbSetup(c) ==
  /\ CanStartSetup
  /\ ResetStatus
  /\ saved' = "paired"
  /\ StartUsbScript(c, "configure")

\* The file cannot be written: the request is answered with an error, before
\* any script was started and with the workflow busy.
SetupFails ==
  /\ CanStartSetup
  /\ ResetStatus
  /\ WriteFails
  /\ startFailed' = TRUE
  /\ UNCHANGED <<scripts, currentChild>>

StartUsbProbe(c) ==
  /\ ~IsPairingBusy
  /\ StartUsbScript(c, "probe")
  /\ state' = "usb_probe" /\ startedAt' = TRUE /\ usbConnected' = FALSE
  /\ flashState' = IF flashState = "running" THEN "idle" ELSE flashState
  /\ wlanTimer' = FALSE
  /\ UNCHANGED <<serverUrl, firmwareStatus, wlanOk, saved, open, frameFrom>>

StartFirmwareFlash(c) ==
  /\ ~IsPairingBusy
  /\ StartUsbScript(c, "flash")
  /\ state' = "firmware_update" /\ startedAt' = TRUE /\ flashState' = "running"
  /\ wlanTimer' = FALSE
  /\ UNCHANGED <<serverUrl, firmwareStatus, usbConnected, wlanOk, saved, open, frameFrom>>

\* The operator aborts.  SIGTERM goes to the current child only.
FlashKeptOnAbort == flashState   \* MUTANT: abort leaves flashState alone
FlashAfterAbort == IF flashState = "running" THEN "failed" ELSE flashState

AbortUsbSetup ==
  /\ IsPairingBusy
  /\ wlanTimer' = FALSE
  /\ currentChild' = None
  /\ scripts' = [c \in Scripts |->
       IF c = currentChild THEN [mode |-> scripts[c].mode, at |-> scripts[c].at, ending |-> TRUE]
       ELSE scripts[c]]
  /\ state' = "aborted" /\ startFailed' = FALSE
  /\ flashState' = FlashAfterAbort
  /\ UNCHANGED <<startedAt, serverUrl, firmwareStatus, usbConnected, wlanOk, saved, open, frameFrom>>

-----------------------------------------------------------------------------
(* Callbacks of a child process.  They do not look at which child is the   *)
(* current one.  A killed child's output that was already in the pipe is   *)
(* still read, so events of a killed script may still arrive.              *)

FailPairing(flash) ==
  /\ wlanTimer' = FALSE
  /\ currentChild' = None
  /\ flashState' = flash
  /\ state' = "failed"

FlashAfterFailure == IF state = "firmware_update" THEN "failed" ELSE flashState

\* MUTANT of Given: the event's missing fields are applied, too.
Applied(field, old) == field
Given(field, old) == IF field = "keep" THEN old ELSE field

\* applyPairingEvent for one line that the script printed.
ReadScriptChunk(c, version) ==
  /\ Alive(c)
  /\ \E k \in NextSteps(scripts[c]) :
       LET event == Event(Steps[scripts[c].mode][k], version)
       IN  /\ scripts' = [scripts EXCEPT ![c].at = k]
           /\ state' = event.state
           /\ firmwareStatus' = Given(event.firmwareVersion, firmwareStatus)
           /\ flashState' = Given(event.flashState, flashState)
           /\ usbConnected' = (usbConnected \/ event.state = "usb_connected")
  /\ UNCHANGED <<startedAt, serverUrl, wlanOk, runtime, saved, open, frameFrom, startFailed>>

\* The script printed to stderr: its last words, or what `uv run` prints
\* before it runs a script that may well succeed.
ReadScriptErrorChunk(c) ==
  /\ Alive(c)
  /\ \/ scripts' = [scripts EXCEPT ![c].ending = TRUE]
     \/ ~StderrIsFinal /\ UNCHANGED scripts
  /\ FailPairing(FlashAfterFailure)
  /\ UNCHANGED <<startedAt, serverUrl, firmwareStatus, usbConnected, wlanOk,
                 saved, open, frameFrom, startFailed>>

\* The child's error event: it could not be started and will only close.
ScriptError(c) ==
  /\ Alive(c) /\ scripts[c].at = 0
  /\ scripts' = [scripts EXCEPT ![c] = [mode |-> scripts[c].mode, at |-> 5, ending |-> TRUE]]
  /\ FailPairing(IF scripts[c].mode = "flash" THEN "failed" ELSE FlashAfterFailure)
  /\ UNCHANGED <<startedAt, serverUrl, firmwareStatus, usbConnected, wlanOk,
                 saved, open, frameFrom, startFailed>>

\* clearCurrentChild
CurrentChildKept(c) == UNCHANGED currentChild   \* MUTANT
ClearCurrentChild(c) == currentChild' = IF currentChild = c THEN None ELSE currentChild

\* Wait for a frame of the controller, for at most 90 s.
AwaitFrameForever == state' = "wlan_test" /\ UNCHANGED wlanTimer   \* MUTANT
AwaitFrame == state' = "wlan_test" /\ wlanTimer' = TRUE

Ended(c, mode) ==
  /\ scripts[c].mode = mode
  /\ scripts' = [scripts EXCEPT ![c] = NoScript]
  /\ UNCHANGED <<startedAt, serverUrl, usbConnected, wlanOk, saved, open, frameFrom, startFailed>>

\* The close event of a child, exited with code 0 or otherwise.
ClosedAfterAbort(c) ==
  /\ state = "aborted"
  /\ \E mode \in Modes : Ended(c, mode)
  /\ ClearCurrentChild(c)
  /\ UNCHANGED <<state, firmwareStatus, flashState, wlanTimer>>

SetupClosed(c) ==
  /\ state # "aborted"
  /\ Ended(c, "configure")
  /\ UNCHANGED firmwareStatus
  /\ \/ /\ state = "ready"
        /\ ClearCurrentChild(c)
        /\ UNCHANGED <<state, flashState, wlanTimer>>
     \/ /\ state # "ready"
        /\ FailPairing(FlashAfterFailure)
     \/ /\ state \notin {"ready", "failed"} /\ LastStep(scripts[c])
        /\ AwaitFrame
        /\ ClearCurrentChild(c)
        /\ UNCHANGED flashState

ProbeClosed(c) ==
  /\ state # "aborted"
  /\ Ended(c, "probe")
  /\ UNCHANGED firmwareStatus
  /\ \/ FailPairing(FlashAfterFailure)
     \/ /\ state # "failed" /\ LastStep(scripts[c])
        /\ IF usbConnected /\ serverUrl /\ firmwareStatus = "current"
           THEN AwaitFrame
           ELSE state' = "idle" /\ UNCHANGED wlanTimer
        /\ ClearCurrentChild(c)
        /\ UNCHANGED flashState

FlashClosed(c) ==
  /\ state # "aborted"
  /\ Ended(c, "flash")
  /\ \/ FailPairing("failed") /\ UNCHANGED firmwareStatus
     \/ /\ state # "failed" /\ LastStep(scripts[c])
        /\ AwaitFrame
        /\ flashState' = "succeeded" /\ firmwareStatus' = "current"
        /\ ClearCurrentChild(c)

ScriptClosed(c) == ClosedAfterAbort(c) \/ SetupClosed(c) \/ ProbeClosed(c) \/ FlashClosed(c)

\* The 90 s are over.
WlanTimeoutLost == wlanTimer /\ wlanTimer' = FALSE /\ UNCHANGED <<status, currentChild>>   \* MUTANT
WlanTimeout ==
  /\ wlanTimer
  /\ IF state = "wlan_test"
     THEN FailPairing(FlashAfterFailure)
     ELSE wlanTimer' = FALSE /\ UNCHANGED <<currentChild, flashState, state>>
  /\ UNCHANGED <<startedAt, serverUrl, firmwareStatus, usbConnected, wlanOk>>

-----------------------------------------------------------------------------
(* Device connections.                                                     *)

RecordPairedDeviceSocketOpen(s) ==
  /\ s \notin open
  /\ open' = open \cup {s}
  /\ UNCHANGED <<status, runtime, scripts, saved, frameFrom, startFailed>>

AnyFrame == state # "aborted"   \* MUTANT: frames are taken while a script runs
CanAcceptPairedDeviceFrame ==
  \/ state \in {"wlan_test", "ready"} /\ startedAt
  \/ state \in {"idle", "failed", "aborted"}

\* The controller's address, from the saved file if the status has none.
NotRestored == serverUrl   \* MUTANT: restoreSavedControllerMetadataForReconnect forgotten
Restored == serverUrl \/ saved = "paired"

\* A frame, with the firmware version it names or "keep".  A frame that
\* cannot be accepted changes nothing.  The file is rewritten last; if that
\* fails, the error ends the handler, and the process unless the JavaScript
\* runtime lets it go on.
RecordPairedDeviceFrame(s, version) ==
  /\ s \in open
  /\ CanAcceptPairedDeviceFrame
  /\ serverUrl' = Restored
  /\ firmwareStatus' = Given(version, firmwareStatus)
  /\ wlanOk' = TRUE /\ state' = "ready" /\ wlanTimer' = FALSE
  /\ \/ saved' = IF serverUrl' THEN "paired" ELSE "none"
     \/ WriteFails
  /\ frameFrom' = s
  /\ UNCHANGED <<startedAt, usbConnected, flashState, currentChild, scripts, open, startFailed>>

WlanKept == wlanOk   \* MUTANT: the close handler leaves wlanOk set
WlanAfterClose == FALSE

RecordPairedDeviceSocketClose(s) ==
  /\ s \in open
  /\ open' = open \ {s}
  /\ frameFrom' = IF frameFrom = s THEN None ELSE frameFrom
  /\ IF wlanOk \/ state = "ready"
     THEN wlanOk' = WlanAfterClose /\ AwaitFrame
     ELSE UNCHANGED <<wlanOk, state, wlanTimer>>
  /\ UNCHANGED <<startedAt, serverUrl, firmwareStatus, usbConnected, flashState,
                 currentChild, scripts, saved, startFailed>>

\* The memory of a new Host process.  Nobody listens to the old scripts.
NewProcess ==
  /\ state' = "idle" /\ startedAt' = FALSE /\ serverUrl' = FALSE
  /\ firmwareStatus' = "outdated" /\ usbConnected' = FALSE /\ wlanOk' = FALSE
  /\ flashState' = "idle" /\ wlanTimer' = FALSE /\ currentChild' = None
  /\ scripts' = [c \in Scripts |-> NoScript]
  /\ open' = {} /\ frameFrom' = None /\ startFailed' = FALSE

\* The Host ends and starts again, perhaps with a new pairing token.
HostRestart(newToken) ==
  /\ NewProcess
  /\ saved' = IF newToken /\ saved = "paired" THEN "foreign" ELSE saved

\* It ends while it writes the file, for a frame or for a setup.
CrashWhileWriting ==
  /\ (open # {} /\ CanAcceptPairedDeviceFrame) \/ CanStartSetup
  /\ NewProcess
  /\ saved' = "cut"

Next ==
  \/ \E c \in Scripts :
       \/ StartUsbSetup(c) \/ StartUsbProbe(c) \/ StartFirmwareFlash(c)
       \/ ReadScriptErrorChunk(c) \/ ScriptError(c) \/ ScriptClosed(c)
       \/ \E version \in Versions \cup {"keep"} : ReadScriptChunk(c, version)
  \/ SetupFails \/ AbortUsbSetup
  \/ WlanTimeout /\ UNCHANGED beside
  \/ \E s \in Sockets :
       \/ RecordPairedDeviceSocketOpen(s) \/ RecordPairedDeviceSocketClose(s)
       \/ \E version \in Versions \cup {"keep"} : RecordPairedDeviceFrame(s, version)
  \/ \E newToken \in BOOLEAN : HostRestart(newToken)
  \/ CrashWhileWriting

Spec == Init /\ [][Next]_vars

\* A script ends by itself, as every wait in it has a deadline, or because it
\* was killed; the timer fires.  Nothing is assumed of operator and controller.
Fairness ==
  /\ \A c \in Scripts : WF_vars(ScriptClosed(c))
  /\ WF_vars(WlanTimeout /\ UNCHANGED beside)

FairSpec == Spec /\ Fairness
-----------------------------------------------------------------------------
(* Safety.                                                                 *)

\* A setup that could not write the controller file leaves the workflow busy
\* with nothing that works on it.  An abort ends that, or the late callback of
\* an older script.
IsStranded == startFailed /\ state = "usb_connected"

\* The workflow blocks new workflows while it is busy.  Whatever old and new
\* scripts, aborts, frames and disconnects did to it, there is a script whose
\* end will end it, or the timeout is pending that ends the wait for a frame,
\* unless it is stranded.
BusyEndsSomehow ==
  /\ state \in ScriptStates => (\E c \in Scripts : Alive(c)) \/ IsStranded
  /\ state = "wlan_test" => wlanTimer

\* The Host says that WLAN is fine, and "ready" (docs/debugging.md: only when
\* WLAN is healthy), only as long as the connection that brought the last
\* frame is open, though the close of any connection arrives at any time.
ReadyIsConnected ==
  /\ state = "ready" => wlanOk
  /\ wlanOk => frameFrom \in open

\* "Upload aktiv" in the console means that a flash script has not ended,
\* across aborts whose close event is ignored, failures and second scripts.
UploadHasScript ==
  flashState = "running" => \E c \in Scripts : scripts[c].mode = "flash"

\* What is to be killed can be: the current child has not been closed.
CurrentChildAlive == currentChild # None => Alive(currentChild) /\ ~scripts[currentChild].ending

\* The controller that was paired survives restarts of the Host: the file
\* keeps its URL, as long as the token stays the same, although every frame
\* rewrites it from a status that a restart has emptied.  Only a write that
\* fails or that a crash cuts off loses it, which the code does not prevent.
PairingIsKept ==
  [][saved = "paired" => saved' \in {"paired", "cut"} \/ HostRestart(TRUE)]_vars

\* docs/host-lifecycle.md and the message of the close handler ("Warte auf
\* erneuten Frame"): a Host that waits for a frame takes the next one.
WaitingAcceptsFrames == state = "wlan_test" => CanAcceptPairedDeviceFrame

\* The CLI's help: abort aborts the running probe, flash or setup.  After an
\* abort of a busy workflow no script goes on as if nothing had happened.
AbortStopsScripts ==
  [][AbortUsbSetup => \A c \in Scripts : Alive(c) => scripts'[c].ending]_vars

(* Liveness.                                                               *)

\* Every workflow ends, so that the operator can start the next one, unless it
\* is stranded, and so does every upload that the console shows and the CLI
\* waits for.
WorkflowEnds ==
  /\ []<>(~IsPairingBusy \/ IsStranded)
  /\ []<>(flashState # "running")
=============================================================================
