# Icaros Host: models, checks and proofs

The Icaros Host is the local server of a VR flight station. It receives the
orientation of an M5 controller over WebSocket, turns it into a calm, neutral
by default control stream for browser experiences, keeps a registry of the
browsers that can show an experience, redirects the headset (`/launch`) to the
one the operator selected, and pairs the controller over USB. This directory
holds TLA+ models of that program, TLC configurations that check them and
TLAPS proofs about them. Paths below are relative to the repository.

## The system

| component | state | operations | hard about it |
|---|---|---|---|
| runtime registry (`ws/runtime-clients.ts`, `/ws/runtime` handlers of `ws/gateway.ts`) | a Set of immutable client objects; one reference per connection closure | connect, `client.hello`, `client.heartbeat`, rejected hello, close, presence timer | closures hold references that other handlers make stale; two tabs with one client id; timer against heartbeat |
| launch selection (`station/*`, `launch/launch-routing.ts`, `routes/launch`) | `selectedLaunchClientId`, `selectedExperienceId` | operator selects or clears; default selection; GET `/launch` | has to follow the registry through re-registration, staleness and disconnects |
| USB pairing workflow (`device/usb-setup*.ts`, `pairing-service.ts`, `m5-firmware-version.ts`) | one shared status, the 90 s timer, the current child, the controller file | setup, probe, flash, abort; stdout, stderr, error, close of a child; timeout; device socket opens, frames, closes; restart | callbacks of old scripts reach new workflows; aborts with output in the pipes; reconnects with overlapping sockets |
| pairing script (`scripts/connect-m5-usb.py`) | serial port, probe statistics | configure, probe, flash | serial line protocol, retries, deadlines |
| control pipeline (`control/*`, `/ws/device` handlers and stale timer of `ws/gateway.ts`) | last published control, last normalized frame and its time, live pose, calibration and orientation map with their files, auto-neutralizer window | frame, disconnect, stale check, calibrate, reset, set field, restart | each frame is judged by what was published last; the operator's changes republish an old frame; a write fails after memory has changed |
| control stream (`ws/control-stream-clients.ts`, `/ws/control` of `ws/gateway.ts`) | subscribers per stream | join, leave, publish, close all | the first control on joining; a subscriber that leaves while a control is sent |
| pairing token and upgrades (`device/pairing.ts`) | the token, from environment, `globalThis` or file | read, create, persist, compare; hand out the device address | precedence, two copies of the module in one process, restarts, two Hosts in one directory |
| browser client library (`lib/client/*`) | two sockets per experience, heartbeat, the configured hello | start, dispose, socket events, messages, leaving for the console | start after dispose while the old socket closes; the page's view of a connection against the Host's |
| protocol (`lib/protocol`) | none | build and validate every message | one unreadable field drops a whole message; trimming on one side only |
| M5 firmware (`firmware/m5-controller`) | stored configuration, WiFi and WebSocket state, button | serial commands, reconnect, telemetry | 32-bit clock, buffer limits, edges without delivery |
| server lifecycle (`server/index.ts`) | two servers, their ports, the gateway | start, fallback ports, failure, stop, exit | probe-then-listen; what a failed start leaves behind; what keeps a stopped process alive |
| console (`routes/_console`) | what it has last loaded, its own two sockets | load, refresh, forms, messages | its view against the Host's state |
| pairing tool (`scripts/m5-pairing-cli.ts`) | what the run waits for | pair, probe, flash, abort, status; polling | several operators of one workflow; a status that belongs to another one |
| UI components, connection info | none of their own | | |

Interaction: the controller's frames reach `/ws/device`; every frame and every
open and close drive both the pairing workflow and the control pipeline. The
operator's clicks are HTTP form posts that call the workflow, the calibrator,
the mapper and the station store directly. The station store calls back into
the gateway, which broadcasts to `/ws/runtime`; the calibrator and the mapper
call back into the gateway, which publishes to `/ws/control`. The Host is one
Node process: a callback runs to its end, so a handler is one action of a
model; what interleaves are callbacks - of sockets, child processes, timers and
HTTP requests.

What makes each modelled component correct:

- registry: one entry per client id; the listed selection is online under the
  selected experience; open connections know the current state; a displaced tab
  is closed; an online client was heard of recently; only the operator takes a
  selection from an available client; a silent selection ends.
- pairing: a busy workflow ends; "ready" means a connected controller; an upload
  that is shown runs; what abort is to kill is alive; a pairing is not lost.
- control: neutral without frames; a live control is fresh; frames move the
  pose calmly; a calibration takes the current pose and levels it; the button is
  that of the last frame.
- serial setup: a reported success means a usable controller; an accepted
  configuration is not lost; every script ends; memory and flash agree.
- controller connection: an open connection goes to the configured Host; the
  controller gets connected and stays so.
- telemetry: frames and heartbeats come on time across wraps of the clock; button
  edges match changes; quiet after a command.
- browser clients: a page whose heartbeat runs is listed online; every hello is
  answered; a page gives up no open connection; it leaves for another selection;
  the console shows what `/launch` would open.
- control stream: who listens has the Host's control of this moment and never an
  older one after a newer.
- lifecycle: a failed start holds nothing; a stopped Host ends; controllers stay
  paired over restarts; the console hands out an address of its own Host.
- operators: a run reports success only of its own pairing, gives advice that can
  be followed and ends by its own judgement; the console catches up.

## Modules

### RuntimeRegistry, LaunchSelection

`RuntimeRegistry` models all handlers of `/ws/runtime`, the presence timer, the
station store and the operator's selection.

| model | code |
|---|---|
| `clients` | `RuntimeClientRegistry.#clients`, a set of records; the flag `held` says that the closure of the object's socket still refers to that object, so a replaced object is a stale reference |
| `station` | `StationStateStore.#state` |
| `socketState` | `readyState`; "closing" between the Host's `close()` and the close event |
| `told` | what a connection was last sent: its registration, the station state, the client list |
| `Connect`, `Hello`, `RejectHello`, `Heartbeat`, `SocketClosed` | `#handleRuntimeConnection`, `#registerRuntimeClient`, `#recordRuntimeHeartbeat` with everything they call, the default selection and the broadcasts included |
| `MarkStaleRuntimeClients` | `#markStaleRuntimeClients` |
| `SelectLaunchClient`, `ClearLaunchClient` | `selectLaunchClient` |
| `Tick` | time; ages count up to `AgeCap`, the first value at which every comparison has settled, so no behaviour is cut off |

Which client a hello names, and with which experience, is free; titles, urls
and user agents decide nothing and are left out, except that the url was
required to be https when the hello was validated. A socket's messages arrive
in its order and are dropped after `close()`.

`LaunchSelection` is the promise to the operator, without connections and time:
which clients are online, which one is selected. `RuntimeRegistry` is checked to
implement it (`ImplementsLaunchSelection`, an INSTANCE with a refinement
mapping that reads `online` off the registry).

### UsbPairing

The workflow with the scripts it starts, as far as their pipes and exit codes
tell the Host about them, and the device connections.

| model | code |
|---|---|
| `state` ... `flashState` | the fields of `status` that decide anything; `startedAt` and `serverUrl` as being set or not, `firmwareStatus` as being current or not |
| `wlanTimer`, `currentChild` | `runtime` |
| `scripts` | each child that has not closed: its mode, how far its output was read, whether it is ending |
| `saved` | `.icaros/m5-controller.toml`: no pairing, one with the Host's token, one with another token, or cut |
| `open`, `frameFrom` | device connections; the connection of the last accepted frame (history) |
| `SetupFails`, `startFailed` | a setup that could not write the file; that the last start was one (history) |
| `StartUsbSetup`, `StartUsbProbe`, `StartFirmwareFlash`, `AbortUsbSetup` | the operator's commands |
| `ReadScriptChunk`, `ReadScriptErrorChunk`, `ScriptError`, `ScriptClosed` | the four callbacks of a child; none looks at which child is the current one |
| `WlanTimeout` | the 90 s timer |
| `RecordPairedDevice...` | device connections and frames |
| `HostRestart` | a new Host process (`NewProcess`): only the file survives, perhaps with another token |
| `CrashWhileWriting` | the Host ends in the middle of `writeControllerConfig` |

The script reports `Steps` in order and may repeat some of them; it may fail
after any step. `StderrIsFinal` says whether text on stderr means that the
script has failed: not so if `uv run` prints progress there.

`writeControllerConfig` rewrites the file in place, for every accepted frame and
every setup. A write may fail, before it has opened the file or after, and a
crash may cut it off; from a cut file, whose last line is the token's hash, no
pairing is read. A failing write ends the handler: of a frame after everything
else it does, whether or not the process survives it, of a setup before its
script is started. The debug snapshot is taken to be written: in a callback its
failure ends the process, which is a restart; before a script is started, with
debugging on, it leaves what `SetupFails` leaves.

### ControlPipeline

The whole way of a frame: `Remapped` (orientation-map), `Calibrated`
(calibration), `Protected` (safety), `WindowAfter`/`IsLevelled`/`Levelled`
(auto-neutralizer), `Smoothed` (normalizer), and the gateway's handlers around
them. Axes are integers with `Unit` standing for 1.0; the quarter step of the
smoothing is rounded down. Of the quality only its sign decides anything. The
frames are what `normalizeM5Frame` returns, so a frame that is stale or unusable
on arrival is the neutral control. `DeviceLost` is an unreadable message and the
close of any device connection: the code does not distinguish whose. A frame for which the
pairing workflow cannot write its file gets no further than that, like one that
never came.

`calibrationFile` and `mapFile` are what a start would read from
`.icaros/m5-calibration.json` and `.icaros/m5-orientation-map.json`. A write that
fails, or that a crash cuts off, leaves the old file or one that reads as the
default, while memory has the new setting and nothing is published; `unsaved`
remembers whose last write has failed. `HostRestart` is a new process with the
settings of the files.

`Tick` waits for the stale timer when it is due: the timer is taken to fire on
time. On a loaded machine it fires later, and `LiveIsFresh` holds up to that
delay.

### SerialSetup

The configure exchange of `scripts/connect-m5-usb.py` with the serial handler of
`firmware/m5-controller/src/main.cpp`.

| model | code |
|---|---|
| `stored`, `config`, `up` | the four preferences in flash, `config` in memory, and whether `setup()` has run |
| `rx`, `tx` | lines in the controller's serial input; lines it printed that the script has not read |
| `phase`, `want`, `sends`, `outcome` | where `main()` is, the configuration it sends, its retries, what it reported |
| `HandleSerialLine` | `readSerialSetup` to the end of one line, with `handleConfigure` and `saveConfig` |
| `Boot` | `setup()`: `loadConfig`, then the greeting, a register frame and a diagnose result |
| `ResetWhileSaving` | power is lost between two of the four writes of `saveConfig` |
| `CheckFirmware`, `FirmwareChecked` | `check_firmware` |
| `SendConfigure`, `ReadConfigureResult`, `ConfigureTimeout`, `SendReboot` | `send_configure_request`, `send_reboot_request` |
| `HandleLine`, `ProbeEnds` | the rest of `probe_port` |

Deadlines are not counted: a wait may end whenever the code allows it. Opening
the port, and the script's flush before it sends, drop all that was printed so
far. One script runs at a time. `Lossy` stands for the Arduino core below the
firmware: a full input buffer cuts a line, and what arrives during a boot is
lost but for its end. A line longer than `SerialBufferLimit` is answered twice,
as the firmware takes its tail for a line of its own. Left out: `diagnose`,
which keeps no state, `--write-probes`, port discovery and the upload.

### ControllerConnection

`loop()` of the firmware, one action per step that reads the WiFi status or the
flags of the WebSocket. The WiFi driver and the world change between any two of
them; while the driver leaves a network it still reports a connection, so the
loop may begin a WebSocket over it. `nowMs` is read once per iteration and wraps
at `Word`. `endpoint` is the configuration that `webSocket.begin` was given; a
connection is `peer` as long as the Host's end of it lives. The library's events
`CONNECTED` and `DISCONNECTED` are `Connected` and `Disconnected`. Both halves of
the firmware's loop EXTEND `FirmwareClock`, the counter and the unsigned
differences that `Elapsed` compares.

### ControllerTelemetry

`sendTelemetry`: orientation frames, heartbeats, the mirror on the serial line
and the quiet period after a command, in time modulo `Word`. One step, `Loop`, is
one iteration of `loop()`: it reads the counter, handles commands or none, and
sends telemetry with what it has read. A command reads the counter again, `lag`
later, for the end of its quiet period (`SerialCommand`). Beside the counter
the model keeps how long the last frame, heartbeat and command's iteration
really are ago, up to `AgeCap`, and the last command's lag. The button is sampled when a frame is due; `sent` is the last
frame of this connection. Angles and the display are left out.

### RuntimeMessages, BrowserClients

`RuntimeMessages` holds what the validators make of the JSON of `/ws/runtime`: a
reader yields the set of the values it accepts, with at most one member, and a
payload is accepted if all of its fields are. A string is its trimmed text and
whether there were blanks around it, which is what the readers treat
differently: ids are trimmed, slugs with blanks are refused, URLs are trimmed by
the parser.

`BrowserClients` composes experience pages and the console with the Host of
`RuntimeRegistry` (`Host == INSTANCE RuntimeRegistry`), over connections that keep
their messages in order. Each handler of the Host is its action in
`RuntimeRegistry`; this module adds which messages it consumes and sends.

| model | code |
|---|---|
| `options` | what the page passed to `createIcarosExperienceClient`: the payload of its hello |
| `page` | `socket`, the heartbeat interval and the station listener of `launch-registration-client.ts`, the page's location |
| `ready`, `up`, `down` | a socket in its browser, and what is on its way in both directions; `accepted` is CONNECTING with the Host's answer on its way |
| `Start`, `Dispose`, `OpenEvent`, `PageMessage`, `CloseEvent`, `HeartbeatTimer` | the client's operations and handlers |
| `HostAccepts`, `HostReceives`, `HostCloses`, `PresenceTimer`, `OperatorChooses` | the Host's handlers with what they send |
| `console`, `LoadConsole`, `ConsoleMessage`, `ShownTarget` | `load()` of the console, `launch-registry-state.svelte.ts`, `resolveCurrentLaunchTargetUrl` |
| `UserLoads`, `UserLeaves`, `UnloadConsole` | the user, who opens and closes pages |

The close event of *any* of a page's sockets clears the reference to the current
one: a page that is started again before its old socket has closed may keep a
connection that it does not refer to. The flag `early` marks such a page, and
`OnlyEarlyRestartsLeak` shows that there is no other way to get there. Such a
page's heartbeat may have been started by the answer on the older connection, so
`BeatingPagesAreOnline` is about the others.

### ControlStream

The subscribers of the control stream, the experience's stream client and the
console's, over ordered connections. Controls are numbered as they are
published; what is in them is `ControlPipeline`'s subject. `Welcome` is the first
message of a subscriber; `CloseAll` is the disposal of the gateway. A page knows
the last control that its listener was called with (`heard`). Left out: the
backpressure of a slow subscriber, which the Host does not look at.

### HostLifecycle

Host processes on one machine and in one directory; a restart is a process of
its own. Each is started once, with an environment of its own (`Scenarios`).

| model | code |
|---|---|
| `stage`, `target`, `fallback` | where `start()` and `listenOnPreferredPort` of `server/index.ts` are, for which of the two servers, and the port the operator is asked about |
| `listening`, `foreign` | ports held by a Host (the probe of `findFreePort` is a server of its own) and by other programs |
| `tokenFile`, `token`, `handlerToken` | `.icaros/secrets/m5-device-pairing-token`; the token that the gateway compares with; the one that the bundle in `build/handler.js` has read for itself |
| `attached`, `connected` | the gateway's timers and upgrade handlers; the Host each WebSocket is connected to |
| `setup` | address and token each controller was configured with |
| `ReadPairingToken`, `OpenTokenFile`, `WritePersistedToken`, `LoadHandlerModule` | `readSharedPairingToken`, with the moment at which the file is empty |
| `Start` ... `PrintStartupSummary`, `Fail` | the steps of a start and its `catch` |
| `Stop`, `Exit`, `Killed` | `waitForShutdown`; a process ends by itself once nothing can call it back; crash, or a signal nobody handles |
| `Pair`, `AcceptsUpgrade`, `ControllerConnects`, `BrowserConnects` | `createPairedDeviceWebSocketUrl`; `#handleUpgrade` |

### PairingOperator

`PairingOperator` EXTENDS `UsbPairing` by those who operate it: runs of the
pairing tool and the console. Both start a workflow and then poll a status that
others change meanwhile. `cli` is what a run waits for; of a pairing it also
keeps, as history, whether the script that this run has started is still at work
(`started`) or not (`waiting`: the script has ended, the workflow was lost, or the
Host was busy with another one). `view` is what the console has last loaded; a
request that the Host answers with an error (`SetupFails`) ends a run and puts an
error page in the console's place. `NextAction` is
`readNextAction`, the advice the tool prints.

## Runs

| run | instance | what it shows |
|---|---|---|
| `registry` | 2 connections, 2 clients, 2 experiences, stale after 1 tick, timer period 2 | the selection follows the registry, displaced tabs are closed, open connections know the state; a silent selection ends, a sole default client is selected, `LaunchSelection` is implemented |
| `clients` | 2 pages with up to 2 sockets each, the console, 7 scenarios of 4 configurations (shared id, padded id, insecure URL, other experience); heartbeat every tick, stale after 2, timer period 1 | heartbeats keep pages listed, hellos are answered, pages leave for another selection, the console shows the launch target, only early restarts leak |
| `stream` | a page started three times, one with an unknown stream, the console; 2 controls | listeners are current and hear in order |
| `pairing_safety` | 2 scripts, 2 device connections; symmetric | with failing and cut writes: a busy workflow has something that ends it, "ready" means a connected controller, a pairing is kept |
| `pairing_reconnect` | 1 script, 1 connection | violation: waiting for a frame that is refused |
| `operator` | 1 script, 1 connection, a run of the tool, the console | reports and advice are true, runs end, the console catches up, workflows end |
| `control_safety` | 7 frames, every calibration they lead to, restarts; all map fields, or one field and failing writes of one setting | neutral without frames, fresh when live, the button of the last frame, calm frame steps, calibration levels, saved settings survive a restart |
| `serial_safety` | 2 usable configurations (symmetric), a bad and a too long one; resets, reboots, losses; 3 sends, 3 waiting lines | memory and flash agree, a reported success means a usable configuration |
| `serial_exchange` | the same configurations, without resets, reboots and losses; 3 sends, 4 waiting lines | an accepted configuration is not lost and gets stored, every script ends |
| `connection` | 2 configurations, counter of 9, intervals of 5 and 3, a join takes up to 3 | connections go to the configured Host, the controller gets connected |
| `telemetry` | counter of 12, intervals of 2, 5, 4 and 3, iterations of up to 3 | frames and heartbeats on time, edges match, the quiet period holds for commands at any time of an iteration |
| `lifecycle` | 2 processes in 12 scenarios, 3 ports of which other programs may take 2, a controller, a browser | failed starts hold nothing, stopped Hosts end, controllers stay paired, addresses are handed out rightly |

Why the bounds suffice: two runtime connections are an old and a new tab, or the
selected client and a rival; the theorems below have any number of them. Two
scripts are an aborted one and its successor; the callbacks of a third would meet
the same status. Two device connections are a reconnecting controller's old and
new one. The thresholds in ticks keep the order of the code's (check period,
stale threshold, frame gap, stable time), and each threshold is met, just missed
and exceeded. The frames of `MCFrames` contain level, the rest pose, opposite
poses further apart than the abrupt step, poses beyond the resume limit on one
axis or the other, a pressed edge, an unusable and a stale frame. Writes fail for
one setting at a time, with one field of the map in use: what a failed write
leaves behind does not depend on the other setting, and the theorem has both. Three sends and
three waiting lines let copies of one script's line meet those of the next. The
clocks wrap after two or three intervals, in `telemetry` with
iterations longer than the shortest interval.

In `clients` a tick is about 4 s: heartbeat 1, threshold 2 and presence timer 1
keep the code's 4 s, 8 s and (2 s) in their order; the timer is coarser than in
the code, which only shortens the margin. The scenarios are those that differ:
one page started twice under each of the four configurations, one page watched
by the console, two pages that share an id. Two sockets are an old and a new
one; in `stream` a third shows what an early restart does to a further one.
`MaxInFlight` holds back the operator and the Host's next control only, never a
reaction. In `operator`, one script and one connection suffice for what the
operators can tell apart; what the callbacks of an aborted script do to its
successor is `pairing_safety`'s. Further users of the Host are the tool's `abort`,
which any terminal may call, and the console, which may start anything. In `lifecycle` the second process is a restart, a rival on the same
ports, or both, and the scenarios reach every failure of a start.

All configurations check for deadlock but `stream`'s: there the sockets that may
be opened and the controls are bounded, so everything may have happened.

### Fairness

- Registry: time passes, the presence timer fires, and a connection that the
  Host closes gets its close event. Nothing is assumed of clients or operator.
- Pairing: a script ends, because every wait in `connect-m5-usb.py` has a
  deadline (the upload is `pio`'s, which ends when it finishes or loses the
  port), and the 90 s timer fires. Nothing is assumed of operator or controller.
- Clients: the event loops of the Host and of the browsers work on what has come,
  timers fire when they are due, a connection that one side closes ends for both
  (a TCP FIN or its timeout). Nothing is assumed of users and operator. The
  stream's properties are safety properties.
- Lifecycle: only that an idle process ends, which is what Node does. Nobody has
  to answer, to connect or to stop.
- Operators: scripts end and the 90 s timer fires as above; the tool and the
  console poll every second. The tool's deadline is not assumed to come: runs end
  without it once nobody disturbs the workflow any more (`Calm`).
- Serial: the script's deadlines pass and its retries come, the controller's loop
  returns to its input, and it boots. That the script reads what has come is not
  assumed: every loop of it ends by its deadline.
- Connection: the loop runs and a driver that was told to leave does. The
  WebSocket library tries again and again, so it is taken to reach a Host that
  can be reached repeatedly, and to notice a lost peer while 20 frames per second
  fail (strong fairness). A join takes less than `WifiReconnectIntervalMs`; with
  a slower network every attempt would break off the one before it.

### What the code does otherwise than it says

- `pairing_reconnect` (a run): frames are accepted while waiting only if
  `startedAt` is set, which a Host restart empties although the controller comes
  back by itself.

Further differences were found in the same way. Their statements stay in the
modules, with the code's behaviour in their comments, but have no run:

- `LaunchOnlyToConnected` (`RuntimeRegistry`): the close handler removes the
  object its closure holds. After a heartbeat that object is no longer in the
  registry, so a client that disconnects stays online, selected and a target of
  `/launch` until the timer; `docs/quest-https-launch-routing.md:130` promises 409
  for a selected client that is offline.
- `AbortStopsScripts` (`UsbPairing`): a late callback of an aborted script fails
  the workflow started after it and detaches that workflow's script, which abort
  then cannot stop.
- `SerialSetup`: the greeting at boot and the answer to a configuration are the
  same message. If the controller starts while the script waits, the line is
  lost, and the script takes the greeting for its answer.
- `StopClosesSockets` (`HostLifecycle`): a stop closes the connections of
  browsers, not those of controllers, so a stopped Host lives on as long as a
  controller stays connected; `docs/host-lifecycle.md:119` says that it cleans up
  sockets and servers. `StoppedHostEnds` is what does hold.

Two more are what the code does if the controller file cannot be written; the
properties say what holds all the same, with these as their exceptions:

- `IsStranded` (`UsbPairing`): a setup makes the workflow busy
  (`usb-setup.ts:291`) before it writes the controller file. If that throws, the
  workflow stays busy with nothing that works on it, and every start is ignored,
  until the operator aborts (or an older, aborted script's last callback comes).
- `PairingIsKept` (`UsbPairing`): the controller file is rewritten in place
  (`usb-setup-storage.ts:43`) twenty times a second. A crash or a full disk in
  such a write leaves a file without a pairing, though the token has not changed;
  the next frame after the restart then makes it a file without a URL. The
  property excepts these writes and says that nothing else loses the pairing.

Three properties hold only with the limits that they state, and the limits are
the code's. `FrameStepsAreCalm` is about frames: a click on reset, calibrate or
the map publishes the last frame again, unsmoothed and with its button edge.
`CalibrationLevels` needs a frame since the last change of the map, because the
calibrator keeps the pose as it was mapped on arrival, and a write that does not
fail, because the listeners are told after it. `QuietAfterCommand` needs a
counter that does not wrap from the moment at which the iteration has read it
(`main.cpp:650`) until the period ends, because only this time is compared as
an instant: after a wrap between that moment and the command's own reading
(`main.cpp:495`) a frame of the same iteration may be mirrored at once, after a
later one the period is cut short. After such a wrap the serial mirror may also
stay silent until the counter reaches the end of the last period again.

The properties of the browsers name their exceptions in the same way: early
restarts, a padded id (which comes back trimmed and is then not recognized as
the page's own), and a listener that was added after the socket. `RunsEnd`
excepts a pairing that was aborted or lost in a restart: the tool goes on waiting
for it until its deadline. Like `BusyEndsSomehow` and `WorkflowEnds` it also
excepts a stranded setup, and `ConsoleCatchesUp` an error page, which loads
nothing any more. `EdgesMatchChanges` says nothing of a connection's first frame:
an edge that falls between two connections is in no frame.
`FailedStartsHoldNothing` excepts a `HOST` that can be listened on but makes no
URL: the `catch` of a start does not know the device server yet when the summary
fails.

## Proofs

The theorems hold for every number of connections, pages, clients, scripts,
processes and frames and for all thresholds, under the named assumptions of the
modules (`None` is no element, thresholds are natural numbers, the heartbeat is
no slower than the stale threshold, the resume limit is at most the abrupt step,
frames are controls). Every safety invariant and every action property that a
run checks is stated by one of them. Each proof has the same form: an inductive
invariant, one lemma per action that preserves it, temporal logic at the end.

- `RuntimeRegistryProofs`: all six invariants and `OnlyOperatorDeselects`. The
  type invariant needs `PresenceShape` (an object has an id exactly when it has a
  status). `OneEntryPerClient` is inductive only together with
  `OneHeldPerSocket`, `HeldWhileConnected` and `UnregisteredIsHeld`: a closure
  refers to one object, and loses it only when another handler replaces a
  registered one. `RegisteredSocketIsListed` and `OpenSocketsUpToDate` need
  `OpenSocketIsListed`: broadcasts go over objects, so every open connection must
  have one. `OnlineIsRecent` needs `RecentInv`: an online client's age never
  exceeds the threshold plus the time since the timer looked.
  `RegistryImplementsPromise` is the refinement of `LaunchSelection` without its
  fairness: initial states map to an initial state, and every step, with these
  invariants, to a step of the promise or a stutter.
- `UsbPairingProofs`: all five invariants and `PairingIsKept`. Together they are
  inductive with one addition, `AbortedIsNotUploading`: after an abort the
  close event leaves `flashState` alone, so the abort has to have ended it.
  `BusyEndsSomehow` and `PairingIsKept` are proved with failing writes and
  crashes, and with the exceptions that these make necessary.
  `OperatorsDriveTheWorkflow` shows that `PairingOperator` takes the workflow
  through no other steps, so all of this holds there; `ReportsHold` is
  `ReportsAreTrue`, for any number of runs of the tool. It needs `OwnScriptRuns`,
  that a run whose workflow has neither ended nor was lost still has its script
  at work, and `KnownIsStarted`: a controller on USB is known of only after a
  workflow of this Host process.
- `BrowserClientsProofs`: all four invariants, for any pages, sockets and
  configurations. `RunsTheRegistry` shows that the Host takes the steps of
  `RuntimeRegistry` and no others, so its theorems apply (`RegistryHolds`): they
  are used through an INSTANCE, after its assumptions have been proved for the
  clients here. With them the operator's promise holds of the whole system
  (`PromiseIsKept`, `SelectionStays`). Messages belong to the page that sent them (`OwnMessages`).
  `OnlyEarlyRestartsLeak` needs `ReferencesInv`: a page that was never started
  too early has no living socket but the one it refers to.
  `OthersLeave` and `ConsoleShowsLaunchTarget` need to know what is on its way:
  the last `station.state` on a page's connection is the Host's current one, or
  there is none and the page is not beside the selection (`PagesKnow`); likewise
  for the console with its list (`ConsoleKnows`). What the console makes of
  these is the target of `/launch` because the selected client is in the registry
  (`SelectedIsListed`, as a page always says hello with the same clientId).
  `BeatingPagesAreOnline` needs `Registered`, that an answer to a hello finds the
  page's client just heard of, and `BeatInv`: the client was heard of since the
  page's last heartbeat, or within one interval while that heartbeat is on its
  way, whichever tab it was heard from.
- `ControlPipelineProofs`: all five invariants, `FrameStepsAreCalm`,
  `CalibrationLevels` and `SettingsSurvive`, the last one from `FilesAreCurrent`.
  Each stage is shown to keep a control a control. `FreshUntilCheck` bounds the
  age of the frame by the time since the timer looked; `UnusableIsLevel` is
  needed because protection compares with the last pose only if that was live,
  while smoothing starts at level otherwise. `LerpBetween` carries the arithmetic.
- `SerialSetupProofs`: all three invariants, and `AcceptedIsNotLost` assuming no
  resets, reboots or losses (`Calm`, an assumption of the theorem).
  `AcceptedIsUsable` needs `UsableInv`:
  wherever a positive answer, or a reboot that will be answered, is on its way,
  the controller has a usable configuration. `AcceptedIsNotLost` needs `CalmInv`
  (only configurations come in) and `SentInv`: the script's last line is the last
  one that waits, or nothing waits and it has been stored.
- `ControllerProofs`, about both halves of the firmware's loop, for a counter of
  any width. `SendsToConfiguredHost` is inductive with `BegunWithConfig`: what
  the library was begun with is the current configuration, because a new one
  clears both flags first. `FramesKeepComing` rests on `Measured`: the unsigned
  difference of two instants is the time really passed; `QuietAfterCommand` on
  `QuietMeasured`: as long as a period goes on and nothing wraps, what is left of
  it is what is missing to it, from the command (`CommandIsMeasured`) through every
  iteration without one (`QuietGoesOn`). `EdgesMatchChanges`, an action property, needs `SentIsLast`: the memory that
  edges are computed from is the button of the last frame of this connection. The lemmas `Wrap`, `MinusIs` and `MinusAdvances` are the arithmetic
  modulo `Word`.
- `HostLifecycleProofs`: all three invariants, for any number of processes,
  ports and environments. `ProcessInv` says what one process holds at each stage
  and where its device server listens; a step of one process leaves the others'
  alone (`UntouchedInv`). `PairingSurvivesRestart` needs `TokenInv`, which
  relates processes: at most one creates the token, the file is empty meanwhile,
  and nobody relies on it yet. `NamesAssumption` keeps the texts "unset", "empty", "none" and
  "other" apart from the ports: an empty port variable is no port to the Host and
  the default one in the address it hands out.
- `ControlStreamProofs`: `ListenersAreCurrent` and `HeardInOrder`, for any number
  of pages, sockets and controls. What is on its way is ordered and ends with the Host's
  control (`SocketInv`); a page that was not started again too early has one live
  socket, the one it refers to, and has heard nothing newer than what is on its
  way there (`PageInv`).

Proved only, and in no run: the type invariants, `OnlyOperatorDeselects`, `OneEntryPerClient`,
`OnlineIsRecent`, `UploadHasScript`, `CurrentChildAlive` and `LivePoseIsCurrent`.

Only model-checked: the liveness properties and the fairness of
`LaunchSelection`'s refinement, which are beyond the prover, and the
counterexample.

## Not modelled

The validation of `control.orientation` (the stream's model numbers controls),
texts, progress, debug lines, formatting and styling. UI components and
`connection-info` keep no state. The pairing tool's network diagnostics and
protocol checks only read; `smoke-runtime.ts` is a test, `run-host.ts` starts
processes. Of the scripts: port discovery, the upload by PlatformIO,
`--write-probes`.
`UsbPairing` and `SerialSetup` are not composed: the Host writes the controller
file when the setup script starts, before the controller has accepted, and an
abort ends the Python script but not the upload it has started. A console that
shows an old workflow may abort a new one; the Host does not ask which. The
control stream does not hold back for a slow subscriber, whose buffer grows.

## Plan

Done, in this order: `RuntimeRegistry` with `LaunchSelection`, `UsbPairing`,
`ControlPipeline`, `SerialSetup`, `ControllerConnection`, `ControllerTelemetry`,
each with its proofs; `RuntimeMessages` and `BrowserClients`, `ControlStream`,
`HostLifecycle`, `PairingOperator`; the proofs about the stream, the Host's life,
the refinement of `LaunchSelection`, the operators and the browsers. Next:

1. `DeviceStation`: composition of `UsbPairing` with `SerialSetup` and with
   `ControlPipeline` over the same device connections.
