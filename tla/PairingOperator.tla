--------------------------- MODULE PairingOperator ---------------------------
(***************************************************************************)
(* Those who operate the pairing workflow of UsbPairing: runs of the       *)
(* command line tool (scripts/m5-pairing-cli.ts) and the console           *)
(* (_console/page-state.svelte.ts, _console/server/page-server.ts), both   *)
(* through device/pairing-service.ts.                                      *)
(*                                                                         *)
(* Neither is told of anything: a run of the tool starts a workflow and    *)
(* then polls the Host's status, which others change meanwhile, and the    *)
(* console shows the status it has loaded last.                            *)
(***************************************************************************)
EXTENDS UsbPairing

CONSTANTS Runs   \* runs of the command line tool

VARIABLES
  cli,    \* what each run waits for
  view    \* the status the console shows

operators == <<cli, view>>
allVars == <<vars, operators>>

\* A run is "off", before it and after its end; or it polls: the end of a
\* probe or an upload, "checking", or a pairing to become ready.  Of a pairing
\* the rest is history: it is "started" as long as the script that the run has
\* started is at work, and "waiting" once that script has ended or the workflow
\* was lost, or if the Host was busy with another workflow from the beginning.
Pairings == {"started", "waiting"}
RunStates == {"off", "checking"} \cup Pairings
IsPolling(r) == cli[r] # "off"
WaitForReady(r) == cli[r] \in Pairings
Follows(command, own) == IF command = "pair" THEN own ELSE "checking"

CanConfigure == firmwareStatus = "current"
IsUsbSetupBusy(s) == s \in BusyStates

\* Of the state the console tells apart what enables its buttons and keeps it
\* loading the data again.  A form that the Host answers with an error puts
\* the error page in its place.
Shown(s) == CASE IsUsbSetupBusy(s) -> "busy" [] s = "ready" -> "ready" [] OTHER -> "over"
ErrorPage == [shown |-> "error", canPair |-> FALSE]
Snapshot == [shown |-> Shown(state), canPair |-> CanConfigure /\ ~IsPairingBusy]

Views == [shown: {"busy", "ready", "over", "error"}, canPair: BOOLEAN]

OperatorTypeOK ==
  /\ cli \in [Runs -> RunStates]
  /\ view \in Views

OperatorInit ==
  /\ Init
  /\ cli = [r \in Runs |-> "off"]
  /\ view = Snapshot

-----------------------------------------------------------------------------
(* The Host, through runM5PairingCommand.                                  *)

\* A start while the Host is busy is answered with its status, like one that
\* has started a script.
Starts(command) ==
  \E c \in Scripts :
    \/ command = "pair" /\ StartUsbSetup(c)
    \/ command = "probe" /\ StartUsbProbe(c)
    \/ command = "flash" /\ StartFirmwareFlash(c)
Refuses(command) == command = "pair" /\ ~CanConfigure
Refused(command) == Refuses(command) /\ UNCHANGED vars
Ignored(command) == ~Refuses(command) /\ IsPairingBusy /\ UNCHANGED vars
Aborts == AbortUsbSetup \/ (~IsPairingBusy /\ UNCHANGED vars)

\* What becomes of a run's own workflow in a step of the Host.
Followed(own) ==
  IF own = "started" /\ state' \notin ScriptStates \cup {"ready"} THEN "waiting" ELSE own
RunsFollow == cli' = [r \in Runs |-> Followed(cli[r])]

\* Scripts, timer and controller go on by themselves.
DeviceCloses == \E s \in Sockets : RecordPairedDeviceSocketClose(s)
HostStep ==
  /\ \/ \E c \in Scripts :
          \/ ReadScriptErrorChunk(c) \/ ScriptError(c) \/ ScriptClosed(c)
          \/ \E version \in Versions \cup {"keep"} : ReadScriptChunk(c, version)
     \/ WlanTimeout /\ UNCHANGED beside
     \/ DeviceCloses
     \/ \E s \in Sockets :
          \/ RecordPairedDeviceSocketOpen(s)
          \/ \E version \in Versions \cup {"keep"} : RecordPairedDeviceFrame(s, version)
  /\ RunsFollow
  /\ UNCHANGED view

\* A request the Host does not answer ends the run it belongs to.  Bound: the
\* token stays; a new one is UsbPairing's subject (PairingIsKept).
Restarts ==
  /\ HostRestart(FALSE) \/ CrashWhileWriting
  /\ \E unanswered \in SUBSET Runs :
       cli' = [r \in Runs |->
         IF r \in unanswered THEN "off" ELSE Followed(cli[r])]
  /\ UNCHANGED view

-----------------------------------------------------------------------------
(* The command line tool.                                                  *)

\* runPairing, runProbe, runFlash up to the answer of postPairingCommand, which
\* ends the run if it is an error.
RunPosts(r, command) ==
  /\ ~IsPolling(r)
  /\ \/ Refused(command) /\ UNCHANGED cli
     \/ command = "pair" /\ SetupFails /\ UNCHANGED cli
     \/ Ignored(command) /\ cli' = [cli EXCEPT ![r] = Follows(command, "waiting")]
     \/ Starts(command) /\ cli' = [cli EXCEPT ![r] = Follows(command, "started")]
  /\ UNCHANGED view

RunAborts == Aborts /\ RunsFollow /\ UNCHANGED view

\* pollPairing: how a run judges the status it reads.  The end of a probe or
\* an upload is no failure, whatever the state.
EndsPolling(r) ==
  /\ flashState # "running"
  /\ state = "ready" \/ (~WaitForReady(r) /\ ~IsPairingBusy)
\* MUTANT of Fails: a failed workflow is waited for.
NeverFails(r) == FALSE
Fails(r) == ~EndsPolling(r) /\ state = "failed"

\* It ends either way, or polls again in a second.
RunPolls(r) ==
  /\ IsPolling(r) /\ (EndsPolling(r) \/ Fails(r))
  /\ cli' = [cli EXCEPT ![r] = "off"]
  /\ UNCHANGED <<vars, view>>

RunTimesOut(r) ==
  /\ IsPolling(r)
  /\ cli' = [cli EXCEPT ![r] = "off"]
  /\ UNCHANGED <<vars, view>>

\* readNextAction, for the fields that only the status text depends on: the
\* script has reported usbOk, and the last frame is at most 5 s old.
\* MUTANT of NextAction: the Host's workflow is not looked at first.
AdviceWhileBusy(usbOk, fresh) ==
  CASE ~usbConnected -> "probe"
    [] usbConnected /\ ~CanConfigure -> "flash"
    [] OTHER -> "pair"
NextAction(usbOk, fresh) ==
  CASE IsPairingBusy -> "wait-or-abort"
    [] state = "ready" /\ wlanOk /\ fresh /\ CanConfigure -> "ready"
    [] OTHER ->
       CASE ~usbConnected -> "probe"
         [] usbConnected /\ ~CanConfigure -> "flash"
         [] usbConnected /\ CanConfigure /\ ~(usbOk /\ serverUrl) -> "pair"
         [] OTHER -> IF ~wlanOk THEN "wait-for-wlan-or-debug"
                     ELSE IF ~fresh THEN "wait-for-fresh-frame" ELSE "ready"

-----------------------------------------------------------------------------
(* The console.                                                            *)

\* The user opens or reloads the page.
ConsoleLoads == view' = Snapshot /\ UNCHANGED <<vars, cli>>

\* The effect that loads the data again every second.
\* MUTANT of Refreshing: only while a workflow is busy.
RefreshingIfBusy == view.shown = "busy"
Refreshing == view.shown \in {"busy", "ready"}
ConsoleRefreshes ==
  /\ Refreshing /\ view # Snapshot
  /\ ConsoleLoads

\* A form is sent if its button is enabled in what is shown; the page that
\* answers it shows the Host's status after it, or the error.
Offered(command) ==
  /\ view.shown \in {"ready", "over"}
  /\ command = "pair" => view.canPair
ConsoleClicks ==
  /\ \/ /\ \E command \in {"pair", "probe", "flash"} :
             Offered(command) /\ (Refused(command) \/ Ignored(command) \/ Starts(command))
        /\ view' = Snapshot'
     \/ view.shown = "busy" /\ Aborts /\ view' = Snapshot'
     \/ Offered("pair") /\ SetupFails /\ view' = ErrorPage
  /\ RunsFollow

-----------------------------------------------------------------------------
Disturbance ==
  \/ \E r \in Runs, command \in {"pair", "probe", "flash"} : RunPosts(r, command)
  \/ RunAborts \/ ConsoleClicks \/ Restarts
  \/ DeviceCloses

OperatorNext ==
  \/ HostStep \/ Restarts
  \/ \E r \in Runs :
       \/ RunPolls(r) \/ RunTimesOut(r)
       \/ \E command \in {"pair", "probe", "flash"} : RunPosts(r, command)
  \/ RunAborts
  \/ ConsoleLoads \/ ConsoleRefreshes \/ ConsoleClicks

OperatorSpec == OperatorInit /\ [][OperatorNext]_allVars

\* Scripts end and the timer fires, as in UsbPairing; runs and the console
\* poll every second.  The deadline of a run is not assumed to come.
OperatorFairness ==
  /\ Fairness
  /\ \A r \in Runs : WF_allVars(RunPolls(r))
  /\ WF_allVars(ConsoleRefreshes)

OperatorFairSpec == OperatorSpec /\ OperatorFairness

-----------------------------------------------------------------------------
(* Properties.                                                             *)

\* A run takes a pairing as done only after the script it has started for it
\* has ended well, or after that workflow was lost: never because of the
\* frames of a controller that is still connected from before.
SuccessIsEarned == \A r \in Runs : EndsPolling(r) => cli[r] # "started"

\* The advice can be followed: the Host takes the command it names, a frame
\* that is to be waited for is accepted, and "ready" is said only of a
\* connected controller.
AdviceIsUseful ==
  \A usbOk, fresh \in BOOLEAN :
    LET advice == NextAction(usbOk, fresh) IN
    /\ advice \in {"probe", "flash", "pair"} => ~IsPairingBusy
    /\ advice = "pair" => CanConfigure
    /\ advice \in {"wait-for-wlan-or-debug", "wait-for-fresh-frame"} => CanAcceptPairedDeviceFrame
    /\ advice = "ready" => frameFrom \in open /\ CanConfigure

\* What the tool tells its user is true: the end of a pairing and the next
\* step it advises.
ReportsAreTrue == SuccessIsEarned /\ AdviceIsUseful

Calm == <>[][~Disturbance]_allVars

\* Once nobody starts, aborts and restarts anything and the controller is
\* not lost any more, every run ends by its own judgement, without its
\* deadline; except for a pairing that was aborted, or lost in a restart, and
\* for a workflow that is stranded, which are waited for in vain.
RunsEnd ==
  Calm => \A r \in Runs :
    []<>(\/ ~IsPolling(r) \/ IsStranded
         \/ WaitForReady(r) /\ state \in {"idle", "aborted"})

\* Then the console shows the Host's state, too, unless it shows the end of a
\* workflow already, or an error: then it does not load again.
ConsoleCatchesUp == Calm => <>[](view.shown \in {Shown(state), "over", "error"})
=============================================================================
