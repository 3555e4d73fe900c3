-------------------------- MODULE UsbPairingProofs --------------------------
(***************************************************************************)
(* Proofs about UsbPairing, for any number of scripts and connections, and *)
(* about PairingOperator, for any number of runs of the tool besides.      *)
(*                                                                         *)
(* The invariants are nearly inductive together: only that an aborted      *)
(* workflow has no running upload has to be added, because a close event   *)
(* that finds the workflow aborted leaves flashState alone.                *)
(***************************************************************************)
EXTENDS PairingOperator, TLAPS

AbortedIsNotUploading == state = "aborted" => flashState # "running"

Inv ==
  /\ TypeOK
  /\ AbortedIsNotUploading
  /\ BusyEndsSomehow
  /\ ReadyIsConnected
  /\ UploadHasScript
  /\ CurrentChildAlive

-----------------------------------------------------------------------------
(* What an event may say.                                                  *)

\* The steps of a script are numbered from 1 to at most 4.
LEMMA StepNumbers ==
  ASSUME NEW mode \in Modes, NEW k \in DOMAIN Steps[mode]
  PROVE  k \in 1..4
BY DEF Modes, Steps

\* An event puts the workflow into one of the script's states, it names a
\* version or none, and it says that an upload runs only if the script flashes.
LEMMA EventFields ==
  ASSUME NEW mode \in Modes, NEW k \in DOMAIN Steps[mode],
         NEW version \in Versions \cup {"keep"}
  PROVE  LET event == Event(Steps[mode][k], version)
         IN  /\ event.state \in ScriptStates
             /\ event.firmwareVersion \in Versions \cup {"keep"}
             /\ event.flashState \in {"keep", "running", "succeeded"}
             /\ event.flashState = "running" => mode = "flash"
<1>1. CASE mode = "configure"
  <2>1. Steps[mode] = <<"usb_connected", "firmware_check", "configure", "usb_test">>
    BY <1>1 DEF Steps
  <2>2. k \in 1..4 BY <2>1
  <2>3. Steps[mode][k] \in {"usb_connected", "firmware_check", "configure", "usb_test"}
    BY <2>1, <2>2
  <2> QED BY <1>1, <2>3 DEF Event, Repeated, ScriptStates, Versions
<1>2. CASE mode = "probe"
  <2>1. Steps[mode] = <<"usb_connected", "firmware_check", "usb_test">>
    BY <1>2 DEF Steps
  <2>2. k \in 1..3 BY <2>1
  <2>3. Steps[mode][k] \in {"usb_connected", "firmware_check", "usb_test"}
    BY <2>1, <2>2
  <2> QED BY <1>2, <2>3 DEF Event, Repeated, ScriptStates, Versions
<1>3. CASE mode = "flash"
  <2>1. Steps[mode] = <<"usb_connected", "firmware_update", "flashed">>
    BY <1>3 DEF Steps
  <2>2. k \in 1..3 BY <2>1
  <2>3. Steps[mode][k] \in {"usb_connected", "firmware_update", "flashed"}
    BY <2>1, <2>2
  <2> QED BY <1>3, <2>3 DEF Event, Repeated, ScriptStates, Versions
<1> QED BY <1>1, <1>2, <1>3 DEF Modes
-----------------------------------------------------------------------------
(* The callbacks of the scripts, each by itself.                           *)

LEMMA ReadScriptChunkInv ==
  ASSUME Inv, NEW c \in Scripts, NEW version \in Versions \cup {"keep"},
         ReadScriptChunk(c, version)
  PROVE  Inv'
<1>1. PICK k \in NextSteps(scripts[c]) :
        LET event == Event(Steps[scripts[c].mode][k], version)
        IN  /\ scripts' = [scripts EXCEPT ![c].at = k]
            /\ state' = event.state
            /\ firmwareStatus' = Given(event.firmwareVersion, firmwareStatus)
            /\ flashState' = Given(event.flashState, flashState)
            /\ usbConnected' = (usbConnected \/ event.state = "usb_connected")
  BY DEF ReadScriptChunk
<1> DEFINE mode == scripts[c].mode
           event == Event(Steps[mode][k], version)
<1>2. mode \in Modes
  BY DEF ReadScriptChunk, Alive, Inv, TypeOK
<1>3. k \in DOMAIN Steps[mode] /\ k \in 1..4
  BY <1>2, StepNumbers DEF NextSteps
<1>4. /\ event.state \in ScriptStates
      /\ event.firmwareVersion \in Versions \cup {"keep"}
      /\ event.flashState \in {"keep", "running", "succeeded"}
      /\ event.flashState = "running" => mode = "flash"
  BY <1>2, <1>3, EventFields
<1>5. /\ state' = event.state
      /\ firmwareStatus' = Given(event.firmwareVersion, firmwareStatus)
      /\ flashState' = Given(event.flashState, flashState)
      /\ usbConnected' = (usbConnected \/ event.state = "usb_connected")
      /\ scripts' = [scripts EXCEPT ![c].at = k]
  BY <1>1
<1> HIDE DEF event
<1>6. \A d \in Scripts : /\ scripts'[d].mode = scripts[d].mode
                         /\ scripts'[d].ending = scripts[d].ending
  BY <1>5 DEF Inv, TypeOK
<1>7. TypeOK'
  <2>1. scripts' \in [Scripts -> [mode: Modes \cup {"none"}, at: 0..5, ending: BOOLEAN]]
    BY <1>3, <1>5 DEF Inv, TypeOK
  <2>2. usbConnected' \in BOOLEAN
    BY <1>5, Zenon DEF Inv, TypeOK
  <2>3. state' \in States /\ firmwareStatus' \in Versions
    BY <1>4, <1>5 DEF Inv, TypeOK, Given, States, BusyStates
  <2>4. flashState' \in {"idle", "running", "succeeded", "failed"}
    BY <1>4, <1>5 DEF Inv, TypeOK, Given
  <2> QED BY <2>1, <2>2, <2>3, <2>4 DEF Inv, TypeOK, ReadScriptChunk, runtime
<1>8. Alive(c)' /\ state' \notin {"aborted", "ready", "wlan_test"}
  BY <1>2, <1>4, <1>5, <1>6 DEF Alive, ScriptStates, Modes
<1>9. UploadHasScript'
  BY <1>4, <1>5, <1>6 DEF Inv, UploadHasScript, Given
<1>10. CurrentChildAlive'
  BY <1>6 DEF Inv, TypeOK, CurrentChildAlive, Alive, ReadScriptChunk, runtime
<1> QED
  BY <1>7, <1>8, <1>9, <1>10
  DEF Inv, AbortedIsNotUploading, BusyEndsSomehow, IsStranded, ReadyIsConnected, ReadScriptChunk

\* A failure leaves nothing running that the Host still waits for.
LEMMA FailPairingInv ==
  ASSUME Inv, NEW flash \in {"idle", "succeeded", "failed", flashState},
         FailPairing(flash),
         \A c \in Scripts : scripts'[c].mode = scripts[c].mode
           \/ (scripts[c].mode = "flash" => flash # "running"),
         scripts' \in [Scripts -> [mode: Modes \cup {"none"}, at: 0..5, ending: BOOLEAN]],
         firmwareStatus' \in Versions,
         UNCHANGED <<startedAt, serverUrl, usbConnected, wlanOk, saved, open, frameFrom, startFailed>>
  PROVE  Inv'
<1>1. TypeOK'
  <2>1. flashState' \in {"idle", "running", "succeeded", "failed"}
    BY DEF Inv, TypeOK, FailPairing
  <2>2. /\ state' \in States /\ wlanTimer' \in BOOLEAN
        /\ currentChild' \in Scripts \cup {None}
    BY DEF FailPairing, States
  <2> QED BY <2>1, <2>2 DEF Inv, TypeOK
<1>2. UploadHasScript'
  BY DEF Inv, TypeOK, UploadHasScript, FailPairing
<1> QED
  BY <1>1, <1>2 DEF Inv, AbortedIsNotUploading, BusyEndsSomehow, IsStranded, ScriptStates,
     ReadyIsConnected, CurrentChildAlive, FailPairing

\* Ending one script leaves the others as they are.
LEMMA EndedScripts ==
  ASSUME TypeOK, NEW c \in Scripts, NEW mode, Ended(c, mode)
  PROVE  /\ scripts' \in [Scripts -> [mode: Modes \cup {"none"}, at: 0..5, ending: BOOLEAN]]
         /\ scripts[c].mode = mode
         /\ \A d \in Scripts : d # c => scripts'[d] = scripts[d]
BY DEF Ended, TypeOK, NoScript

\* A close event leaves the current child alive or none, if it was so before.
LEMMA CloseKeepsChild ==
  ASSUME Inv, NEW c \in Scripts, ClearCurrentChild(c),
         \A d \in Scripts : d # c => scripts'[d] = scripts[d]
  PROVE  CurrentChildAlive' /\ currentChild' \in Scripts \cup {None}
BY NoneAssumption DEF Inv, TypeOK, CurrentChildAlive, ClearCurrentChild, Alive

\* FailPairing in a close handler.
LEMMA CloseFailureInv ==
  ASSUME Inv, NEW c \in Scripts, NEW mode \in Modes, Ended(c, mode),
         NEW flash \in {"idle", "succeeded", "failed", flashState}, FailPairing(flash),
         mode = "flash" => flash # "running",
         firmwareStatus' \in Versions
  PROVE  Inv'
<1>1. \A d \in Scripts : scripts'[d].mode = scripts[d].mode
        \/ (scripts[d].mode = "flash" => flash # "running")
  BY EndedScripts DEF Inv
<1>2. scripts' \in [Scripts -> [mode: Modes \cup {"none"}, at: 0..5, ending: BOOLEAN]]
  BY EndedScripts DEF Inv
<1> QED
  BY <1>1, <1>2, FailPairingInv DEF Ended

LEMMA FlashAfterFailureValue ==
  FlashAfterFailure \in {"idle", "succeeded", "failed", flashState}
BY DEF FlashAfterFailure

LEMMA ScriptClosedInv ==
  ASSUME Inv, NEW c \in Scripts, ScriptClosed(c)
  PROVE  Inv'
<1> USE DEF Inv
<1>1. CASE ClosedAfterAbort(c)
  <2>1. PICK mode \in Modes : Ended(c, mode)
    BY <1>1 DEF ClosedAfterAbort
  <2>2. scripts' \in [Scripts -> [mode: Modes \cup {"none"}, at: 0..5, ending: BOOLEAN]]
    BY <2>1, EndedScripts
  <2>3. CurrentChildAlive' /\ currentChild' \in Scripts \cup {None}
    BY <1>1, <2>1, EndedScripts, CloseKeepsChild DEF ClosedAfterAbort
  <2>4. TypeOK'
    BY <1>1, <2>1, <2>2, <2>3 DEF ClosedAfterAbort, TypeOK, Ended
  <2> QED
    BY <1>1, <2>1, <2>3, <2>4 DEF ClosedAfterAbort, Ended, AbortedIsNotUploading,
       BusyEndsSomehow, IsStranded, ScriptStates, ReadyIsConnected, UploadHasScript
<1>2. CASE SetupClosed(c)
  <2>1. Ended(c, "configure") /\ firmwareStatus' \in Versions
    BY <1>2 DEF SetupClosed, TypeOK
  <2>2. CASE FailPairing(FlashAfterFailure)
    BY <2>1, <2>2, CloseFailureInv, FlashAfterFailureValue DEF Modes
  <2>3. CASE /\ state' \in {"ready", "wlan_test"}
             /\ state' = "ready" => state = "ready"
             /\ state' = "wlan_test" => wlanTimer'
             /\ wlanTimer' \in BOOLEAN
             /\ ClearCurrentChild(c) /\ UNCHANGED flashState
    <3>1. CurrentChildAlive' /\ currentChild' \in Scripts \cup {None}
      BY <2>1, <2>3, EndedScripts, CloseKeepsChild
    <3>2. scripts' \in [Scripts -> [mode: Modes \cup {"none"}, at: 0..5, ending: BOOLEAN]]
      BY <2>1, EndedScripts
    <3>3. TypeOK'
      BY <2>1, <2>3, <3>1, <3>2 DEF TypeOK, Ended, States, BusyStates
    <3>4. UploadHasScript'
      BY <2>1, <2>3, EndedScripts DEF UploadHasScript
    <3> QED
      BY <2>1, <2>3, <3>1, <3>3, <3>4 DEF Ended, AbortedIsNotUploading, BusyEndsSomehow,
         ScriptStates, ReadyIsConnected
  <2> QED BY <1>2, <2>2, <2>3 DEF SetupClosed, AwaitFrame, TypeOK
<1>3. CASE ProbeClosed(c)
  <2>1. Ended(c, "probe") /\ firmwareStatus' \in Versions
    BY <1>3 DEF ProbeClosed, TypeOK
  <2>2. CASE FailPairing(FlashAfterFailure)
    BY <2>1, <2>2, CloseFailureInv, FlashAfterFailureValue DEF Modes
  <2>3. CASE /\ state' \in {"idle", "wlan_test"}
             /\ state' = "wlan_test" => wlanTimer'
             /\ wlanTimer' \in BOOLEAN
             /\ ClearCurrentChild(c) /\ UNCHANGED flashState
    <3>1. CurrentChildAlive' /\ currentChild' \in Scripts \cup {None}
      BY <2>1, <2>3, EndedScripts, CloseKeepsChild
    <3>2. scripts' \in [Scripts -> [mode: Modes \cup {"none"}, at: 0..5, ending: BOOLEAN]]
      BY <2>1, EndedScripts
    <3>3. TypeOK'
      BY <2>1, <2>3, <3>1, <3>2 DEF TypeOK, Ended, States, BusyStates
    <3>4. UploadHasScript'
      BY <2>1, <2>3, EndedScripts DEF UploadHasScript
    <3> QED
      BY <2>1, <2>3, <3>1, <3>3, <3>4 DEF Ended, AbortedIsNotUploading, BusyEndsSomehow,
         ScriptStates, ReadyIsConnected
  <2> QED BY <1>3, <2>2, <2>3 DEF ProbeClosed, AwaitFrame, TypeOK
<1>4. CASE FlashClosed(c)
  <2>1. Ended(c, "flash")
    BY <1>4 DEF FlashClosed
  <2>2. CASE FailPairing("failed") /\ UNCHANGED firmwareStatus
    BY <2>1, <2>2, CloseFailureInv DEF Modes, TypeOK
  <2>3. CASE /\ AwaitFrame
             /\ flashState' = "succeeded" /\ firmwareStatus' = "current"
             /\ ClearCurrentChild(c)
    <3>1. CurrentChildAlive' /\ currentChild' \in Scripts \cup {None}
      BY <2>1, <2>3, EndedScripts, CloseKeepsChild
    <3>2. scripts' \in [Scripts -> [mode: Modes \cup {"none"}, at: 0..5, ending: BOOLEAN]]
      BY <2>1, EndedScripts
    <3>3. TypeOK'
      BY <2>1, <2>3, <3>1, <3>2
      DEF TypeOK, Ended, States, BusyStates, AwaitFrame, Versions
    <3> QED
      BY <2>1, <2>3, <3>1, <3>3 DEF Ended, AbortedIsNotUploading, BusyEndsSomehow,
         ScriptStates, ReadyIsConnected, AwaitFrame, UploadHasScript
  <2> QED BY <1>4, <2>2, <2>3 DEF FlashClosed
<1> QED BY <1>1, <1>2, <1>3, <1>4 DEF ScriptClosed

-----------------------------------------------------------------------------
(* The operator starts and aborts.                                         *)

\* A new script is the only one that changes.
LEMMA StartedScripts ==
  ASSUME Inv, NEW c \in Scripts, NEW mode \in Modes, StartUsbScript(c, mode)
  PROVE  /\ scripts' \in [Scripts -> [mode: Modes \cup {"none"}, at: 0..5, ending: BOOLEAN]]
         /\ scripts'[c] = Started(mode)
         /\ \A d \in Scripts : Alive(d) => scripts'[d] = scripts[d]
         /\ Alive(c)' /\ CurrentChildAlive' /\ currentChild' = c /\ startFailed' = FALSE
<1>1. Started(mode) \in [mode: Modes \cup {"none"}, at: 0..5, ending: BOOLEAN]
  BY DEF Started
<1>2. /\ scripts' = [scripts EXCEPT ![c] = Started(mode)] /\ currentChild' = c /\ ~Alive(c)
      /\ startFailed' = FALSE
  BY DEF StartUsbScript
<1>3. scripts'[c] = Started(mode)
  BY <1>2 DEF Inv, TypeOK
<1>4. Started(mode).mode # "none" /\ ~Started(mode).ending
  BY DEF Started, Modes
<1> QED
  BY <1>1, <1>2, <1>3, <1>4 DEF Inv, TypeOK, Alive, CurrentChildAlive

LEMMA StartInv ==
  ASSUME Inv, NEW c \in Scripts,
         StartUsbSetup(c) \/ StartUsbProbe(c) \/ StartFirmwareFlash(c)
  PROVE  Inv'
<1> USE DEF Inv
<1>1. CASE StartUsbSetup(c)
  <2>1. StartUsbScript(c, "configure") BY <1>1 DEF StartUsbSetup
  <2>2. TypeOK'
    BY <1>1, <2>1, StartedScripts DEF StartUsbSetup, ResetStatus, TypeOK, States, BusyStates, ScriptStates, Modes
  <2>3. UploadHasScript'
    BY <1>1, <2>1, StartedScripts DEF StartUsbSetup, ResetStatus, UploadHasScript, Alive, Modes
  <2> QED
    BY <1>1, <2>1, <2>2, <2>3, StartedScripts
    DEF StartUsbSetup, ResetStatus, AbortedIsNotUploading, BusyEndsSomehow, IsStranded, ReadyIsConnected, Modes
<1>2. CASE StartUsbProbe(c)
  <2>1. StartUsbScript(c, "probe") BY <1>2 DEF StartUsbProbe
  <2>2. TypeOK'
    BY <1>2, <2>1, StartedScripts DEF StartUsbProbe, TypeOK, States, BusyStates, ScriptStates, Modes
  <2>3. UploadHasScript'
    BY <1>2 DEF StartUsbProbe, UploadHasScript
  <2> QED
    BY <1>2, <2>1, <2>2, <2>3, StartedScripts
    DEF StartUsbProbe, AbortedIsNotUploading, BusyEndsSomehow, IsStranded, ReadyIsConnected, Modes
<1>3. CASE StartFirmwareFlash(c)
  <2>1. StartUsbScript(c, "flash") BY <1>3 DEF StartFirmwareFlash
  <2>2. TypeOK'
    BY <1>3, <2>1, StartedScripts DEF StartFirmwareFlash, TypeOK, States, BusyStates, ScriptStates, Modes
  <2>3. scripts'[c].mode = "flash"
    <3>1. scripts'[c] = Started("flash")
      BY <2>1, StartedScripts DEF Modes
    <3> QED BY <3>1 DEF Started
  <2> QED
    BY <1>3, <2>1, <2>2, <2>3, StartedScripts
    DEF StartFirmwareFlash, AbortedIsNotUploading, BusyEndsSomehow, IsStranded, ReadyIsConnected,
        UploadHasScript, Modes
<1> QED BY <1>1, <1>2, <1>3

\* A setup that cannot write the file leaves the workflow stranded.
LEMMA SetupFailsInv ==
  ASSUME Inv, SetupFails
  PROVE  Inv'
<1> USE DEF Inv, SetupFails, CanStartSetup, ResetStatus
<1>1. TypeOK'
  BY DEF TypeOK, WriteFails, States, BusyStates, ScriptStates
<1> QED
  BY <1>1 DEF AbortedIsNotUploading, BusyEndsSomehow, IsStranded, ReadyIsConnected,
     UploadHasScript, CurrentChildAlive, Alive

LEMMA AbortInv ==
  ASSUME Inv, AbortUsbSetup
  PROVE  Inv'
<1> USE DEF Inv, AbortUsbSetup
<1>1. scripts' \in [Scripts -> [mode: Modes \cup {"none"}, at: 0..5, ending: BOOLEAN]]
  BY DEF TypeOK
<1>2. TypeOK'
  BY <1>1 DEF TypeOK, States, FlashAfterAbort
<1>3. flashState' # "running"
  BY DEF FlashAfterAbort
<1> QED
  BY <1>2, <1>3 DEF AbortedIsNotUploading, BusyEndsSomehow, IsStranded, ScriptStates,
     ReadyIsConnected, UploadHasScript, CurrentChildAlive

-----------------------------------------------------------------------------
(* Errors, the timeout and the device connections.                         *)

LEMMA ScriptFailureInv ==
  ASSUME Inv, NEW c \in Scripts, ReadScriptErrorChunk(c) \/ ScriptError(c)
  PROVE  Inv'
<1>1. /\ scripts' \in [Scripts -> [mode: Modes \cup {"none"}, at: 0..5, ending: BOOLEAN]]
      /\ \A d \in Scripts : scripts'[d].mode = scripts[d].mode
  <2>1. CASE scripts' = [scripts EXCEPT ![c].ending = TRUE]
    BY <2>1 DEF Inv, TypeOK
  <2>2. CASE scripts' = [scripts EXCEPT ![c] = [mode |-> scripts[c].mode, at |-> 5, ending |-> TRUE]]
    BY <2>2 DEF Inv, TypeOK
  <2>3. CASE UNCHANGED scripts
    BY <2>3 DEF Inv, TypeOK
  <2> QED BY <2>1, <2>2, <2>3 DEF ReadScriptErrorChunk, ScriptError
<1>2. PICK flash \in {"idle", "succeeded", "failed", flashState} : FailPairing(flash)
  BY FlashAfterFailureValue DEF ReadScriptErrorChunk, ScriptError
<1>3. /\ UNCHANGED <<startedAt, serverUrl, usbConnected, wlanOk, saved, open, frameFrom, startFailed>>
      /\ firmwareStatus' \in Versions
  BY DEF ReadScriptErrorChunk, ScriptError, Inv, TypeOK
<1> QED BY <1>1, <1>2, <1>3, FailPairingInv

LEMMA TimeoutInv ==
  ASSUME Inv, WlanTimeout, UNCHANGED beside
  PROVE  Inv'
<1>1. CASE state = "wlan_test"
  <2>1. FailPairing(FlashAfterFailure)
    BY <1>1 DEF WlanTimeout
  <2> QED BY <2>1, FlashAfterFailureValue, FailPairingInv DEF WlanTimeout, beside, Inv, TypeOK
<1>2. CASE state # "wlan_test"
  <2>1. /\ wlanTimer' = FALSE
        /\ UNCHANGED <<state, startedAt, serverUrl, firmwareStatus, usbConnected, wlanOk,
                       flashState, currentChild, scripts, saved, open, frameFrom, startFailed>>
    BY <1>2 DEF WlanTimeout, beside
  <2>2. TypeOK'
    BY <2>1 DEF Inv, TypeOK
  <2> QED
    BY <1>2, <2>1, <2>2 DEF Inv, AbortedIsNotUploading, BusyEndsSomehow, IsStranded, Alive,
       ReadyIsConnected, UploadHasScript, CurrentChildAlive
<1> QED BY <1>1, <1>2

LEMMA DeviceInv ==
  ASSUME Inv, NEW s \in Sockets
  PROVE  /\ RecordPairedDeviceSocketOpen(s) => Inv'
         /\ RecordPairedDeviceSocketClose(s) => Inv'
         /\ \A version \in Versions \cup {"keep"} : RecordPairedDeviceFrame(s, version) => Inv'
<1> USE DEF Inv
<1>1. ASSUME RecordPairedDeviceSocketOpen(s) PROVE Inv'
  BY <1>1 DEF RecordPairedDeviceSocketOpen, TypeOK, status, runtime, AbortedIsNotUploading,
     BusyEndsSomehow, IsStranded, Alive, ReadyIsConnected, UploadHasScript, CurrentChildAlive
<1>2. ASSUME RecordPairedDeviceSocketClose(s) PROVE Inv'
  <2>1. CASE wlanOk \/ state = "ready"
    <3>1. TypeOK'
      BY <1>2, <2>1 DEF RecordPairedDeviceSocketClose, TypeOK, AwaitFrame, WlanAfterClose,
         States, BusyStates
    <3> QED
      BY <1>2, <2>1, <3>1 DEF RecordPairedDeviceSocketClose, AwaitFrame, WlanAfterClose,
         AbortedIsNotUploading, BusyEndsSomehow, IsStranded, ScriptStates, Alive, ReadyIsConnected,
         UploadHasScript, CurrentChildAlive
  <2>2. CASE ~(wlanOk \/ state = "ready")
    BY <1>2, <2>2 DEF RecordPairedDeviceSocketClose, TypeOK, AbortedIsNotUploading,
       BusyEndsSomehow, IsStranded, Alive, ReadyIsConnected, UploadHasScript, CurrentChildAlive
  <2> QED BY <2>1, <2>2
<1>3. ASSUME NEW version \in Versions \cup {"keep"}, RecordPairedDeviceFrame(s, version)
      PROVE  Inv'
  <2>1. serverUrl' \in BOOLEAN
    BY <1>3, Zenon DEF RecordPairedDeviceFrame, Restored, TypeOK
  <2>2. TypeOK'
    <3>1. saved' \in {"none", "paired", "foreign", "cut"}
      BY <1>3 DEF RecordPairedDeviceFrame, WriteFails, TypeOK
    <3> QED BY <1>3, <2>1, <3>1 DEF RecordPairedDeviceFrame, TypeOK, Given, States
  <2> QED
    BY <1>3, <2>2 DEF RecordPairedDeviceFrame, AbortedIsNotUploading, BusyEndsSomehow,
       ScriptStates, Alive, ReadyIsConnected, UploadHasScript, CurrentChildAlive
<1> QED BY <1>1, <1>2, <1>3

\* A new process has forgotten everything, and the file names no pairing that
\* type correctness does not know.
LEMMA RestartInv ==
  ASSUME Inv, NewProcess, saved' \in {"none", "paired", "foreign", "cut"}
  PROVE  Inv'
<1>1. scripts' \in [Scripts -> [mode: Modes \cup {"none"}, at: 0..5, ending: BOOLEAN]]
  BY DEF NewProcess, NoScript
<1>2. TypeOK'
  BY <1>1 DEF Inv, TypeOK, NewProcess, States, Versions
<1> QED
  BY <1>2 DEF Inv, NewProcess, AbortedIsNotUploading, BusyEndsSomehow, ScriptStates,
     ReadyIsConnected, UploadHasScript, CurrentChildAlive

-----------------------------------------------------------------------------
(* The theorems.                                                           *)

LEMMA InitInv == Init => Inv
<1> SUFFICES ASSUME Init PROVE Inv
  OBVIOUS
<1>1. scripts \in [Scripts -> [mode: Modes \cup {"none"}, at: 0..5, ending: BOOLEAN]]
  BY DEF Init, NoScript
<1>2. TypeOK
  BY <1>1 DEF Init, TypeOK, States, Versions
<1> QED
  BY <1>2 DEF Inv, Init, AbortedIsNotUploading, BusyEndsSomehow, IsStranded, ScriptStates,
     ReadyIsConnected, UploadHasScript, CurrentChildAlive

LEMMA NextInv == Inv /\ [Next]_vars => Inv'
<1> SUFFICES ASSUME Inv, [Next]_vars PROVE Inv'
  OBVIOUS
<1>1. CASE UNCHANGED vars
  BY <1>1 DEF vars, status, runtime, beside, Inv, TypeOK, AbortedIsNotUploading, BusyEndsSomehow,
     IsStranded, Alive, ReadyIsConnected, UploadHasScript, CurrentChildAlive
<1>2. ASSUME NEW c \in Scripts,
             StartUsbSetup(c) \/ StartUsbProbe(c) \/ StartFirmwareFlash(c)
      PROVE  Inv'
  BY <1>2, StartInv
<1>3. ASSUME NEW c \in Scripts, ReadScriptErrorChunk(c) \/ ScriptError(c) PROVE Inv'
  BY <1>3, ScriptFailureInv
<1>4. ASSUME NEW c \in Scripts, ScriptClosed(c) PROVE Inv'
  BY <1>4, ScriptClosedInv
<1>5. ASSUME NEW c \in Scripts, NEW version \in Versions \cup {"keep"},
             ReadScriptChunk(c, version)
      PROVE  Inv'
  BY <1>5, ReadScriptChunkInv
<1>6. CASE AbortUsbSetup
  BY <1>6, AbortInv
<1>7. CASE WlanTimeout /\ UNCHANGED beside
  BY <1>7, TimeoutInv
<1>8. ASSUME NEW s \in Sockets,
             \/ RecordPairedDeviceSocketOpen(s) \/ RecordPairedDeviceSocketClose(s)
             \/ \E version \in Versions \cup {"keep"} : RecordPairedDeviceFrame(s, version)
      PROVE  Inv'
  BY <1>8, DeviceInv
<1>9. ASSUME (\E newToken \in BOOLEAN : HostRestart(newToken)) \/ CrashWhileWriting
      PROVE  Inv'
  BY <1>9, RestartInv DEF HostRestart, CrashWhileWriting, Inv, TypeOK
<1>10. CASE SetupFails
  BY <1>10, SetupFailsInv
<1> QED
  BY <1>1, <1>2, <1>3, <1>4, <1>5, <1>6, <1>7, <1>8, <1>9, <1>10 DEF Next

LEMMA InvHolds == Spec => []Inv
BY InitInv, NextInv, PTL DEF Spec

\* Type correctness of the pairing workflow (usb-setup.ts).
THEOREM TypeCorrect == Spec => []TypeOK
<1>1. Inv => TypeOK BY DEF Inv
<1> QED BY <1>1, InvHolds, PTL

\* A busy workflow has a script whose end will end it or a pending timeout, so
\* none of the callbacks can leave the Host busy with nobody to end it; only a
\* setup that cannot write the controller file does.
THEOREM BusyWorkflowsEnd == Spec => []BusyEndsSomehow
<1>1. Inv => BusyEndsSomehow BY DEF Inv
<1> QED BY <1>1, InvHolds, PTL

\* "ready" implies a healthy WLAN, and that the connection which brought the
\* last frame is open, for any number of device connections.
THEOREM ReadyControllerIsConnected == Spec => []ReadyIsConnected
<1>1. Inv => ReadyIsConnected BY DEF Inv
<1> QED BY <1>1, InvHolds, PTL

\* An upload that is shown as running belongs to a flash script that has not
\* ended, for any number of scripts.
THEOREM UploadsHaveScripts == Spec => []UploadHasScript
<1>1. Inv => UploadHasScript BY DEF Inv
<1> QED BY <1>1, InvHolds, PTL

\* The child an abort would kill has not been closed.
THEOREM CurrentChildIsAlive == Spec => []CurrentChildAlive
<1>1. Inv => CurrentChildAlive BY DEF Inv
<1> QED BY <1>1, InvHolds, PTL

\* The saved pairing is lost only to a restart with another token, or to a write
\* of the file that failed or was cut off.
THEOREM PairingSurvives == Spec => PairingIsKept
<1> DEFINE Kept == saved = "paired" => saved' \in {"paired", "cut"} \/ HostRestart(TRUE)
<1>1. [Next]_vars => [Kept]_vars
  <2> SUFFICES ASSUME Next PROVE Kept
    OBVIOUS
  <2>1. ASSUME NEW c \in Scripts, ScriptClosed(c) PROVE Kept
    BY <2>1 DEF ScriptClosed, ClosedAfterAbort, SetupClosed, ProbeClosed, FlashClosed, Ended
  <2>2. ASSUME NEW c \in Scripts,
               \/ StartUsbSetup(c) \/ StartUsbProbe(c) \/ StartFirmwareFlash(c)
               \/ ReadScriptErrorChunk(c) \/ ScriptError(c)
               \/ \E version \in Versions \cup {"keep"} : ReadScriptChunk(c, version)
        PROVE  Kept
    BY <2>2 DEF StartUsbSetup, ResetStatus, StartUsbProbe, StartFirmwareFlash, ReadScriptErrorChunk,
       ScriptError, ReadScriptChunk
  <2>3. ASSUME SetupFails \/ AbortUsbSetup \/ (WlanTimeout /\ UNCHANGED beside)
        PROVE  Kept
    BY <2>3 DEF SetupFails, WriteFails, AbortUsbSetup, beside
  <2>4. ASSUME NEW s \in Sockets,
               \/ RecordPairedDeviceSocketOpen(s) \/ RecordPairedDeviceSocketClose(s)
               \/ \E version \in Versions \cup {"keep"} : RecordPairedDeviceFrame(s, version)
        PROVE  Kept
    BY <2>4 DEF RecordPairedDeviceSocketOpen, RecordPairedDeviceSocketClose,
       RecordPairedDeviceFrame, Restored, WriteFails
  <2>5. ASSUME (\E newToken \in BOOLEAN : HostRestart(newToken)) \/ CrashWhileWriting
        PROVE  Kept
    BY <2>5 DEF HostRestart, CrashWhileWriting
  <2> QED BY <2>1, <2>2, <2>3, <2>4, <2>5 DEF Next
<1> QED BY <1>1, PTL DEF Spec, PairingIsKept
-----------------------------------------------------------------------------
(* The operators of the workflow: the Host below them takes the steps of   *)
(* UsbPairing and no others, so all of the above holds of it, too.         *)

LEMMA StartsSteps ==
  ASSUME NEW command, Starts(command) PROVE Next
BY DEF Starts, Next

\* A start, one that fails included, finds the workflow idle and makes it busy.
LEMMA StartsMakeBusy ==
  ASSUME NEW command, Starts(command) \/ SetupFails
  PROVE  ~IsPairingBusy /\ state' \in ScriptStates
BY DEF Starts, SetupFails, CanStartSetup, ResetStatus, StartUsbSetup, StartUsbProbe,
       StartFirmwareFlash, ScriptStates

LEMMA OperatorSteps == [OperatorNext]_allVars => [Next]_vars
<1> SUFFICES ASSUME [OperatorNext]_allVars PROVE [Next]_vars
  OBVIOUS
<1>1. CASE UNCHANGED allVars
  BY <1>1 DEF allVars
<1>2. CASE HostStep
  BY <1>2 DEF HostStep, DeviceCloses, Next
<1>3. CASE Restarts
  BY <1>3 DEF Restarts, Next
<1>4. CASE \E r \in Runs : RunPolls(r) \/ RunTimesOut(r)
  BY <1>4 DEF RunPolls, RunTimesOut
<1>5. ASSUME NEW r \in Runs, NEW command, RunPosts(r, command) PROVE [Next]_vars
  BY <1>5, StartsSteps DEF RunPosts, Refused, Ignored, Next
<1>6. CASE RunAborts
  BY <1>6 DEF RunAborts, Aborts, Next
<1>7. CASE ConsoleLoads \/ ConsoleRefreshes
  BY <1>7 DEF ConsoleRefreshes, ConsoleLoads
<1>8. CASE ConsoleClicks
  <2>1. CASE \E command : Refused(command) \/ Ignored(command) \/ Starts(command)
    BY <2>1, StartsSteps DEF Refused, Ignored
  <2>2. CASE Aborts \/ SetupFails
    BY <2>2 DEF Aborts, Next
  <2> QED BY <1>8, <2>1, <2>2 DEF ConsoleClicks
<1> QED
  BY <1>1, <1>2, <1>3, <1>4, <1>5, <1>6, <1>7, <1>8 DEF OperatorNext

\* Whatever the command line tool and the console do, the pairing workflow
\* behaves as UsbPairing says (device/pairing-service.ts only relays).
THEOREM OperatorsDriveTheWorkflow == OperatorSpec => Spec
<1>1. OperatorInit => Init
  BY DEF OperatorInit
<1> QED BY <1>1, OperatorSteps, PTL DEF OperatorSpec, Spec

\* What the advice rests on: a controller on USB, like a script, is known of
\* only after a workflow was started in this life of the Host.
KnownIsStarted ==
  (usbConnected \/ \E c \in Scripts : Alive(c)) => startedAt

\* What the end of a pairing rests on: a run whose own workflow was neither
\* ended nor lost has its script still at work.
OwnScriptRuns == \A r \in Runs : cli[r] = "started" => state \in ScriptStates

OperatorInv == Inv /\ OperatorTypeOK /\ KnownIsStarted /\ OwnScriptRuns

LEMMA KnownStep ==
  ASSUME Inv, KnownIsStarted, [Next]_vars PROVE KnownIsStarted'
<1> SUFFICES ASSUME Next PROVE KnownIsStarted'
  BY DEF vars, status, beside, KnownIsStarted, Alive
<1>1. ASSUME NEW c \in Scripts,
             StartUsbSetup(c) \/ StartUsbProbe(c) \/ StartFirmwareFlash(c)
      PROVE  KnownIsStarted'
  BY <1>1 DEF StartUsbSetup, ResetStatus, StartUsbProbe, StartFirmwareFlash, KnownIsStarted
<1>2. ASSUME NEW c \in Scripts, NEW version \in Versions \cup {"keep"},
             ReadScriptChunk(c, version)
      PROVE  KnownIsStarted'
  BY <1>2 DEF ReadScriptChunk, KnownIsStarted
<1>3. ASSUME NEW c \in Scripts, ReadScriptErrorChunk(c) \/ ScriptError(c)
      PROVE  KnownIsStarted'
  BY <1>3 DEF ReadScriptErrorChunk, ScriptError, KnownIsStarted
<1>4. ASSUME NEW c \in Scripts, ScriptClosed(c) PROVE KnownIsStarted'
  <2>1. /\ UNCHANGED <<startedAt, usbConnected>>
        /\ scripts' = [scripts EXCEPT ![c] = NoScript]
    BY <1>4 DEF ScriptClosed, ClosedAfterAbort, SetupClosed, ProbeClosed, FlashClosed, Ended
  <2>2. \A d \in Scripts : Alive(d)' => Alive(d)
    BY <2>1 DEF Inv, TypeOK, Alive, NoScript
  <2> QED BY <2>1, <2>2 DEF KnownIsStarted
<1>5. CASE AbortUsbSetup
  <2>1. \A d \in Scripts : Alive(d)' => Alive(d)
    BY <1>5 DEF Inv, TypeOK, Alive, AbortUsbSetup
  <2> QED BY <1>5, <2>1 DEF AbortUsbSetup, KnownIsStarted
<1>6. CASE WlanTimeout /\ UNCHANGED beside
  BY <1>6 DEF WlanTimeout, beside, KnownIsStarted, Alive
<1>7. ASSUME NEW s \in Sockets,
             \/ RecordPairedDeviceSocketOpen(s) \/ RecordPairedDeviceSocketClose(s)
             \/ \E version \in Versions \cup {"keep"} : RecordPairedDeviceFrame(s, version)
      PROVE  KnownIsStarted'
  BY <1>7 DEF RecordPairedDeviceSocketOpen, RecordPairedDeviceSocketClose,
     RecordPairedDeviceFrame, KnownIsStarted, Alive, status
<1>8. ASSUME (\E newToken \in BOOLEAN : HostRestart(newToken)) \/ CrashWhileWriting
      PROVE  KnownIsStarted'
  BY <1>8 DEF HostRestart, CrashWhileWriting, NewProcess, KnownIsStarted, Alive, NoScript
<1>9. CASE SetupFails
  BY <1>9 DEF SetupFails, ResetStatus, KnownIsStarted
<1> QED BY <1>1, <1>2, <1>3, <1>4, <1>5, <1>6, <1>7, <1>8, <1>9 DEF Next

\* While a script is at work no frame makes the workflow ready.
LEMMA ScriptsAreNotReady ==
  ASSUME Inv, [Next]_vars, state \in ScriptStates PROVE state' # "ready"
<1> USE DEF ScriptStates
<1>1. CASE UNCHANGED vars
  BY <1>1 DEF vars, status
<1>2. ASSUME NEW c \in Scripts,
             StartUsbSetup(c) \/ StartUsbProbe(c) \/ StartFirmwareFlash(c)
      PROVE  state' # "ready"
  BY <1>2 DEF StartUsbSetup, ResetStatus, StartUsbProbe, StartFirmwareFlash
<1>3. ASSUME NEW c \in Scripts, NEW version \in Versions \cup {"keep"},
             ReadScriptChunk(c, version)
      PROVE  state' # "ready"
  <2>1. PICK k \in NextSteps(scripts[c]) :
          state' = Event(Steps[scripts[c].mode][k], version).state
    BY <1>3 DEF ReadScriptChunk
  <2>2. scripts[c].mode \in Modes
    BY <1>3 DEF ReadScriptChunk, Alive, Inv, TypeOK
  <2>3. k \in DOMAIN Steps[scripts[c].mode]
    BY <2>1 DEF NextSteps
  <2> QED BY <2>1, <2>2, <2>3, EventFields
<1>4. ASSUME NEW c \in Scripts, ReadScriptErrorChunk(c) \/ ScriptError(c)
      PROVE  state' # "ready"
  BY <1>4 DEF ReadScriptErrorChunk, ScriptError, FailPairing
<1>5. ASSUME NEW c \in Scripts, ScriptClosed(c) PROVE state' # "ready"
  BY <1>5 DEF ScriptClosed, ClosedAfterAbort, SetupClosed, ProbeClosed, FlashClosed,
     FailPairing, AwaitFrame
<1>6. CASE AbortUsbSetup
  BY <1>6 DEF AbortUsbSetup
<1>7. CASE WlanTimeout
  BY <1>7 DEF WlanTimeout
<1>8. ASSUME NEW s \in Sockets,
             \/ RecordPairedDeviceSocketOpen(s) \/ RecordPairedDeviceSocketClose(s)
             \/ \E version \in Versions \cup {"keep"} : RecordPairedDeviceFrame(s, version)
      PROVE  state' # "ready"
  BY <1>8 DEF RecordPairedDeviceSocketOpen, RecordPairedDeviceSocketClose, AwaitFrame,
     RecordPairedDeviceFrame, CanAcceptPairedDeviceFrame, status
<1>9. ASSUME \/ \E newToken \in BOOLEAN : HostRestart(newToken)
             \/ CrashWhileWriting \/ SetupFails
      PROVE  state' # "ready"
  BY <1>9 DEF HostRestart, CrashWhileWriting, NewProcess, SetupFails, ResetStatus
<1> QED
  BY <1>1, <1>2, <1>3, <1>4, <1>5, <1>6, <1>7, <1>8, <1>9 DEF Next

LEMMA FollowedFacts ==
  ASSUME NEW own \in RunStates
  PROVE  /\ Followed(own) \in RunStates
         /\ Followed(own) = "started" => own = "started" /\ state' \in ScriptStates \cup {"ready"}
BY DEF Followed, RunStates, Pairings

LEMMA SnapshotType ==
  /\ Snapshot \in Views
  /\ Snapshot' \in Views
BY DEF Views, Snapshot, Shown, CanConfigure

\* What a step does to the runs: their own workflows are followed, or one
\* run starts or ends.
LEMMA OperatorRuns ==
  ASSUME OperatorInv, [OperatorNext]_allVars
  PROVE  \/ cli' = [r \in Runs |-> Followed(cli[r])]
         \/ \E off \in SUBSET Runs :
              cli' = [r \in Runs |-> IF r \in off THEN "off" ELSE Followed(cli[r])]
         \/ /\ UNCHANGED state
            /\ \A r \in Runs : cli'[r] # cli[r] => cli'[r] \in {"off", "waiting", "checking"}
            /\ cli' \in [Runs -> RunStates]
         \/ /\ ~IsPairingBusy /\ state' \in ScriptStates
            /\ cli' \in [Runs -> RunStates]
<1> USE DEF OperatorInv, OperatorTypeOK
<1>1. CASE UNCHANGED allVars
  BY <1>1 DEF allVars, operators, vars, status
<1>2. CASE HostStep \/ RunAborts \/ ConsoleClicks
  BY <1>2 DEF HostStep, RunAborts, ConsoleClicks, RunsFollow
<1>3. CASE Restarts
  BY <1>3 DEF Restarts
<1>4. ASSUME NEW r \in Runs, RunPolls(r) \/ RunTimesOut(r)
      PROVE  /\ UNCHANGED state
             /\ \A q \in Runs : cli'[q] # cli[q] => cli'[q] \in {"off", "waiting", "checking"}
             /\ cli' \in [Runs -> RunStates]
  BY <1>4 DEF RunPolls, RunTimesOut, vars, status, RunStates
<1>5. ASSUME NEW r \in Runs, NEW command, RunPosts(r, command),
             Refused(command) \/ Ignored(command)
      PROVE  /\ UNCHANGED state
             /\ \A q \in Runs : cli'[q] # cli[q] => cli'[q] \in {"off", "waiting", "checking"}
             /\ cli' \in [Runs -> RunStates]
  <2>1. UNCHANGED state
    BY <1>5 DEF Refused, Ignored, vars, status
  <2>4. ~Starts(command) /\ ~SetupFails
    BY <2>1, StartsMakeBusy DEF IsPairingBusy, BusyStates
  <2>5. cli' = cli \/ cli' = [cli EXCEPT ![r] = Follows(command, "waiting")]
    BY <1>5, <2>4 DEF RunPosts
  <2>6. Follows(command, "waiting") \in {"waiting", "checking"}
    BY DEF Follows
  <2> QED BY <2>1, <2>5, <2>6 DEF RunStates, Pairings
<1>6. ASSUME NEW r \in Runs, NEW command, RunPosts(r, command), Starts(command) \/ SetupFails
      PROVE  ~IsPairingBusy /\ state' \in ScriptStates /\ cli' \in [Runs -> RunStates]
  <2>1. ~IsPairingBusy /\ state' \in ScriptStates
    BY <1>6, StartsMakeBusy
  <2>2. cli' \in [Runs -> RunStates]
    BY <1>6 DEF RunPosts, Follows, RunStates, Pairings
  <2> QED BY <2>1, <2>2
<1>7. CASE ConsoleLoads \/ ConsoleRefreshes
  BY <1>7 DEF ConsoleRefreshes, ConsoleLoads, vars, status
<1>8. ASSUME NEW r \in Runs, NEW command, RunPosts(r, command)
      PROVE  Refused(command) \/ Ignored(command) \/ Starts(command) \/ SetupFails
  BY <1>8 DEF RunPosts
<1> QED
  BY <1>1, <1>2, <1>3, <1>4, <1>5, <1>6, <1>7, <1>8 DEF OperatorNext

LEMMA OperatorViews ==
  ASSUME OperatorTypeOK, [OperatorNext]_allVars
  PROVE  view' \in Views
<1>1. view' \in {view, Snapshot, Snapshot', ErrorPage}
  BY DEF OperatorNext, allVars, operators, HostStep, Restarts, RunPolls, RunTimesOut,
     RunPosts, RunAborts, ConsoleRefreshes, ConsoleLoads, ConsoleClicks
<1>2. ErrorPage \in Views
  BY DEF ErrorPage, Views
<1> QED BY <1>1, <1>2, SnapshotType DEF OperatorTypeOK

LEMMA OperatorInvStep == OperatorInv /\ [OperatorNext]_allVars => OperatorInv'
<1> SUFFICES ASSUME OperatorInv, [OperatorNext]_allVars PROVE OperatorInv'
  OBVIOUS
<1>1. [Next]_vars
  BY OperatorSteps
<1>2. Inv' /\ KnownIsStarted'
  BY <1>1, NextInv, KnownStep DEF OperatorInv
<1>3. \A r \in Runs : /\ cli[r] \in RunStates
                      /\ cli[r] = "started" => state \in ScriptStates
  BY DEF OperatorInv, OperatorTypeOK, OwnScriptRuns
<1>4. state \in ScriptStates => state' # "ready"
  BY <1>1, ScriptsAreNotReady DEF OperatorInv
<1>5. \A r \in Runs : /\ Followed(cli[r]) \in RunStates
                      /\ Followed(cli[r]) = "started" => state' \in ScriptStates
  BY <1>3, <1>4, FollowedFacts
<1>6. cli' \in [Runs -> RunStates] /\ OwnScriptRuns'
  <2>1. CASE \E off \in SUBSET Runs :
               cli' = [r \in Runs |-> IF r \in off THEN "off" ELSE Followed(cli[r])]
    BY <1>5, <2>1 DEF OwnScriptRuns, RunStates
  <2>2. CASE cli' = [r \in Runs |-> Followed(cli[r])]
    BY <1>5, <2>2 DEF OwnScriptRuns
  <2>3. CASE /\ UNCHANGED state
             /\ \A r \in Runs : cli'[r] # cli[r] => cli'[r] \in {"off", "waiting", "checking"}
             /\ cli' \in [Runs -> RunStates]
    BY <1>3, <2>3 DEF OwnScriptRuns
  <2>4. CASE ~IsPairingBusy /\ state' \in ScriptStates /\ cli' \in [Runs -> RunStates]
    BY <2>4 DEF OwnScriptRuns
  <2> QED BY <2>1, <2>2, <2>3, <2>4, OperatorRuns
<1> QED BY <1>2, <1>6, OperatorViews DEF OperatorInv, OperatorTypeOK

LEMMA OperatorInvStart == OperatorInit => OperatorInv
<1> SUFFICES ASSUME OperatorInit PROVE OperatorInv
  OBVIOUS
<1>1. Inv /\ KnownIsStarted
  BY InitInv DEF OperatorInit, Init, KnownIsStarted, Alive, NoScript
<1> QED
  BY <1>1, SnapshotType DEF OperatorInit, OperatorInv, OperatorTypeOK, OwnScriptRuns, RunStates

LEMMA SuccessFollows == OperatorInv => SuccessIsEarned
BY DEF OperatorInv, OwnScriptRuns, SuccessIsEarned, EndsPolling, WaitForReady, Pairings,
       ScriptStates

LEMMA AdviceFollows == OperatorInv => AdviceIsUseful
<1> SUFFICES ASSUME OperatorInv, NEW usbOk \in BOOLEAN, NEW fresh \in BOOLEAN
             PROVE  LET advice == NextAction(usbOk, fresh) IN
                    /\ advice \in {"probe", "flash", "pair"} => ~IsPairingBusy
                    /\ advice = "pair" => CanConfigure
                    /\ advice \in {"wait-for-wlan-or-debug", "wait-for-fresh-frame"}
                         => CanAcceptPairedDeviceFrame
                    /\ advice = "ready" => frameFrom \in open /\ CanConfigure
  BY DEF AdviceIsUseful
<1>1. CASE IsPairingBusy
  BY <1>1 DEF NextAction, IsPairingBusy, BusyStates, ScriptStates
<1>2. CASE ~IsPairingBusy
  <2>1. state \in {"idle", "ready", "failed", "aborted"}
    BY <1>2 DEF OperatorInv, Inv, TypeOK, States, IsPairingBusy
  <2>2. usbConnected => startedAt
    BY DEF OperatorInv, KnownIsStarted
  <2>3. wlanOk => frameFrom \in open
    BY DEF OperatorInv, Inv, ReadyIsConnected
  <2>4. usbConnected => CanAcceptPairedDeviceFrame
    BY <2>1, <2>2 DEF CanAcceptPairedDeviceFrame
  <2>5. CASE state = "ready" /\ wlanOk /\ fresh /\ CanConfigure
    BY <1>2, <2>3, <2>5 DEF NextAction
  <2>6. CASE ~(state = "ready" /\ wlanOk /\ fresh /\ CanConfigure)
    <3>1. CASE ~usbConnected
      BY <1>2, <2>6, <3>1 DEF NextAction
    <3>2. CASE usbConnected /\ ~CanConfigure
      BY <1>2, <2>6, <3>2 DEF NextAction
    <3>3. CASE usbConnected /\ CanConfigure
      BY <1>2, <2>3, <2>4, <2>6, <3>3 DEF NextAction
    <3> QED BY <3>1, <3>2, <3>3
  <2> QED BY <2>5, <2>6
<1> QED BY <1>1, <1>2

\* What the command line tool says is true, for any number of tools that run
\* at the same time beside the console: it reports a pairing as done only if
\* the script it has started is over, and advises only what can be followed
\* (scripts/m5-pairing-cli.ts: pollPairing; pairing-service.ts: readNextAction).
THEOREM ReportsHold == OperatorSpec => []ReportsAreTrue
<1>1. OperatorInv => ReportsAreTrue
  BY SuccessFollows, AdviceFollows DEF ReportsAreTrue
<1> QED BY OperatorInvStart, OperatorInvStep, <1>1, PTL DEF OperatorSpec
=============================================================================
