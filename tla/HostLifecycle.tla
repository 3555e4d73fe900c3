---------------------------- MODULE HostLifecycle ----------------------------
(***************************************************************************)
(* Host processes from their start to their end (server/index.ts): the     *)
(* pairing token they load (device/pairing.ts), the ports they listen on,  *)
(* the gateway's connections (ws/gateway.ts) and what is left of them      *)
(* after a failed start, a stop and a crash.                               *)
(*                                                                         *)
(* Several processes are started on one machine and in one directory, the  *)
(* restart of a Host being a process of its own.  They share the ports,    *)
(* with other programs, and the token file.                                *)
(***************************************************************************)
EXTENDS Integers, FiniteSets

CONSTANTS
  Processes,          \* Host processes; each is started once
  Controllers,        \* M5 controllers
  Browsers,           \* WebSockets of experiences and consoles
  Ports,              \* TCP ports of the machine
  HostPort,           \* DEFAULT_HOST_PORT
  DevicePort,         \* DEFAULT_HTTPS_DEVICE_WS_PORT
  EphemeralPorts,     \* what listen(0) may choose from
  ForeignPorts,       \* bound: ports that other programs use at times
  ConfiguredTokens,   \* values of ICAROS_DEVICE_PAIRING_TOKEN
  Scenarios,          \* bound: the environment each process is started with
  Null                \* no port, no token, no process

ASSUME PortAssumption ==
  {HostPort, DevicePort} \cup EphemeralPorts \cup ForeignPorts \subseteq Ports
ASSUME NamesAssumption ==
  /\ Null \notin Ports \cup Processes \cup ConfiguredTokens
  /\ ConfiguredTokens \cap Processes = {} /\ Controllers \cap Browsers = {}
  /\ Ports \cap {"unset", "empty", "none", "other", "proxy"} = {}

\* The text of a port variable.  "other" stands for what is no port.
PortTexts == Ports \cup {"unset", "empty", "none", "other"}

\* installed: build and TLS files exist.  tty: started in a terminal.
\* origin: ICAROS_DEVICE_WS_ORIGIN is set; a proxy of the operator's then
\* forwards the controllers to the Host's own port.  host: whether HOST is an
\* address to listen on, and whether it makes a URL ("fe80::1%eth0" does not).
Environment ==
  [installed: BOOLEAN, tty: BOOLEAN, port: PortTexts, devicePort: PortTexts,
   origin: BOOLEAN, token: ConfiguredTokens \cup {Null},
   host: {"url", "noUrl", "notLocal"}]
ASSUME ScenarioAssumption == Scenarios \subseteq [Processes -> Environment]

VARIABLES
  env,         \* process.env of each process
  stage,       \* how far each process is
  target,      \* the server whose port is being opened
  fallback,    \* the port its operator is asked about
  listening,   \* the port each server of each process listens on
  foreign,     \* ports in use by other programs
  tokenFile,   \* .icaros/secrets/m5-device-pairing-token
  token,       \* the token in the process, of globalThis and of the gateway
  handlerToken,\* the token of the pairing module within build/handler.js
  overlapped,  \* two processes were creating the token at the same time
  attached,    \* the gateway has its timers and accepts connections
  connected,   \* the process each WebSocket is connected to
  setup        \* address and token each controller is configured with

starting == <<target, fallback>>
secrets == <<tokenFile, token, handlerToken, overlapped>>
peers == <<connected, setup>>
vars == <<env, stage, starting, listening, foreign, secrets, attached, peers>>

Servers == {"host", "device", "probe"}
Creating == {"generating", "writing"}
Opening == {"listening", "probing", "probed", "asking", "fallback", "summary"}
Stages == {"new", "loaded", "running", "failed", "stopped", "ended"} \cup Creating \cup Opening

Tokens == ConfiguredTokens \cup Processes   \* a generated token is its process
Proxy == "proxy"
NoSetup == [port |-> Null, token |-> Null]

Init ==
  /\ env \in Scenarios
  /\ stage = [p \in Processes |-> "new"]
  /\ target = [p \in Processes |-> "host"]
  /\ fallback = [p \in Processes |-> Null]
  /\ listening = [p \in Processes |-> [s \in Servers |-> Null]]
  /\ foreign = {}
  /\ tokenFile = Null
  /\ token = [p \in Processes |-> Null]
  /\ handlerToken = [p \in Processes |-> Null]
  /\ overlapped = FALSE
  /\ attached = [p \in Processes |-> FALSE]
  /\ connected = [x \in Controllers \cup Browsers |-> Null]
  /\ setup = [c \in Controllers |-> NoSetup]

-----------------------------------------------------------------------------
(* The pairing token: readSharedPairingToken.                              *)

Loaded(p, t) ==
  /\ token' = [token EXCEPT ![p] = t]
  /\ stage' = [stage EXCEPT ![p] = "loaded"]

\* MUTANT of PersistedToken: the file is written but never read.
NothingPersisted == Null
\* An empty file, as a writer just leaves it, counts as none.
PersistedToken == tokenFile

ReadPairingToken(p) ==
  /\ stage[p] = "new"
  /\ \/ /\ env[p].token # Null
        /\ Loaded(p, env[p].token)
        /\ UNCHANGED overlapped
     \/ /\ env[p].token = Null /\ PersistedToken # Null
        /\ Loaded(p, PersistedToken)
        /\ UNCHANGED overlapped
     \/ /\ env[p].token = Null /\ PersistedToken = Null
        /\ stage' = [stage EXCEPT ![p] = "generating"]
        /\ overlapped' = (overlapped \/ \E q \in Processes : stage[q] \in Creating)
        /\ UNCHANGED token
  /\ UNCHANGED <<env, starting, listening, foreign, tokenFile, handlerToken, attached, peers>>

\* writeFileSync opens the file, which empties it, and then writes it.
OpenTokenFile(p) ==
  /\ stage[p] = "generating"
  /\ tokenFile' = Null
  /\ stage' = [stage EXCEPT ![p] = "writing"]
  /\ UNCHANGED <<env, starting, listening, foreign, token, handlerToken, overlapped,
                 attached, peers>>
WritePersistedToken(p) ==
  /\ stage[p] = "writing"
  /\ tokenFile' = p
  /\ Loaded(p, p)
  /\ UNCHANGED <<env, starting, listening, foreign, handlerToken, overlapped, attached, peers>>

\* MUTANT of SharedToken: the bundled module does not look at globalThis.
UnsharedToken(p) == IF env[p].token # Null THEN env[p].token ELSE tokenFile
SharedToken(p) == IF env[p].token # Null THEN env[p].token ELSE token[p]

\* SvelteKit loads a route, and the pairing module in the bundle with it, at
\* the first request for it.
Serves(p) == attached[p] /\ listening[p]["host"] # Null
LoadHandlerModule(p) ==
  /\ Serves(p) /\ handlerToken[p] = Null
  /\ handlerToken' = [handlerToken EXCEPT ![p] = SharedToken(p)]
  /\ UNCHANGED <<env, stage, starting, listening, foreign, tokenFile, token, overlapped,
                 attached, peers>>

-----------------------------------------------------------------------------
(* Opening the ports.                                                      *)

Free(q) == q \notin foreign /\ \A p \in Processes, s \in Servers : listening[p][s] # q

ReadPort(text) == {text} \cap Ports

OrDefault(text, default) == IF text = "unset" THEN default ELSE text

RequestedPort(p) == ReadPort(OrDefault(env[p].port, HostPort))

PlainDeviceDisabled(p) == env[p].origin \/ env[p].devicePort = "none"
\* resolvePlainDeviceWsPort, for the port the Host listens on.
PlainDevicePort(p, hostPort) ==
  ReadPort(OrDefault(env[p].devicePort, DevicePort)) \ {hostPort}

Preferred(p) ==
  IF target[p] = "host" THEN RequestedPort(p) ELSE PlainDevicePort(p, listening[p]["host"])

\* gateway.dispose(): no timers, no new connections, and the connections of
\* browsers closed, not those of controllers.
\* MUTANT of ClosedByGateway: closeAll of the two registries is not called.
NothingClosed(p) == {}
ClosedByGateway(p) == {x \in Browsers : connected[x] = p}
DisposeGateway(p) ==
  /\ attached' = [attached EXCEPT ![p] = FALSE]
  /\ connected' = [x \in DOMAIN connected |->
       IF x \in ClosedByGateway(p) THEN Null ELSE connected[x]]

\* MUTANT of AfterFailure: closeServer is not called.
ServersKept(p) == listening
\* The catch of start() knows the device server only after its summary has
\* been printed, which is when nothing fails any more.  A probe is closed.
AfterFailure(p) ==
  [listening EXCEPT ![p] = [s \in Servers |-> IF s = "device" THEN listening[p][s] ELSE Null]]

Fail(p) ==
  /\ stage' = [stage EXCEPT ![p] = "failed"]
  /\ DisposeGateway(p)
  /\ listening' = AfterFailure(p)
  /\ UNCHANGED starting

Unaffected == UNCHANGED <<env, foreign, secrets, setup>>

\* readPort, ensureBuildHandler and loadTlsOptions throw before there is a
\* server; gateway.attach starts the gateway's timers.
Start(p) ==
  /\ stage[p] = "loaded"
  /\ IF env[p].installed /\ RequestedPort(p) # {}
     THEN /\ stage' = [stage EXCEPT ![p] = "listening"]
          /\ attached' = [attached EXCEPT ![p] = TRUE]
     ELSE /\ stage' = [stage EXCEPT ![p] = "failed"]
          /\ UNCHANGED attached
  /\ UNCHANGED <<starting, listening, connected>> /\ Unaffected

\* listenRuntimeServers goes on after a server has opened port q.
Listened(p, q) ==
  IF target[p] = "device" \/ PlainDeviceDisabled(p)
  THEN /\ listening' = [listening EXCEPT ![p][target[p]] = q]
       /\ stage' = [stage EXCEPT ![p] = "summary"]
       /\ UNCHANGED <<starting, attached, connected>>
  ELSE IF PlainDevicePort(p, q) = {} THEN Fail(p)
  ELSE /\ listening' = [listening EXCEPT ![p]["host"] = q]
       /\ stage' = [stage EXCEPT ![p] = "listening"]
       /\ target' = [target EXCEPT ![p] = "device"]
       /\ UNCHANGED <<fallback, attached, connected>>

ListenOnPreferredPort(p) ==
  /\ stage[p] = "listening"
  /\ \E q \in Preferred(p) :
       \/ env[p].host = "notLocal" /\ Fail(p)
       \/ env[p].host # "notLocal" /\ Free(q) /\ Listened(p, q)
       \/ /\ env[p].host # "notLocal" /\ ~Free(q)
          /\ stage' = [stage EXCEPT ![p] = "probing"]
          /\ UNCHANGED <<starting, listening, attached, connected>>
  /\ Unaffected

FindFreePort(p) ==
  /\ stage[p] = "probing"
  /\ \/ \E q \in EphemeralPorts :
          /\ Free(q)
          /\ listening' = [listening EXCEPT ![p]["probe"] = q]
          /\ stage' = [stage EXCEPT ![p] = "probed"]
          /\ UNCHANGED <<starting, attached, connected>>
     \/ (\A q \in EphemeralPorts : ~Free(q)) /\ Fail(p)
  /\ Unaffected

\* The probe is closed before the operator is asked.
AskUseFallbackPort(p) ==
  /\ stage[p] = "probed"
  /\ IF env[p].tty
     THEN /\ stage' = [stage EXCEPT ![p] = "asking"]
          /\ fallback' = [fallback EXCEPT ![p] = listening[p]["probe"]]
          /\ listening' = [listening EXCEPT ![p]["probe"] = Null]
          /\ UNCHANGED <<target, attached, connected>>
     ELSE Fail(p)
  /\ Unaffected

OperatorAnswers(p) ==
  /\ stage[p] = "asking"
  /\ \/ /\ stage' = [stage EXCEPT ![p] = "fallback"]
        /\ UNCHANGED <<starting, listening, attached, connected>>
     \/ Fail(p)
  /\ Unaffected

\* Somebody else may have taken the port meanwhile: that is not asked again.
ListenOnFallbackPort(p) ==
  /\ stage[p] = "fallback"
  /\ IF Free(fallback[p]) THEN Listened(p, fallback[p]) ELSE Fail(p)
  /\ Unaffected

PrintStartupSummary(p) ==
  /\ stage[p] = "summary"
  /\ \/ /\ env[p].host = "url"
        /\ stage' = [stage EXCEPT ![p] = "running"]
        /\ UNCHANGED <<starting, listening, attached, connected>>
     \/ env[p].host = "noUrl" /\ Fail(p)
  /\ Unaffected

-----------------------------------------------------------------------------
(* The end of a process.                                                   *)

NoServer(p) == [listening EXCEPT ![p] = [s \in Servers |-> Null]]

\* stop(), on the first SIGINT or SIGTERM of a running Host.
Stop(p) ==
  /\ stage[p] = "running"
  /\ stage' = [stage EXCEPT ![p] = "stopped"]
  /\ DisposeGateway(p)
  /\ listening' = NoServer(p)
  /\ UNCHANGED starting /\ Unaffected

\* A process ends by itself as soon as nothing can call it back any more.
IsIdle(p) ==
  /\ ~attached[p]
  /\ \A s \in Servers : listening[p][s] = Null
  /\ \A x \in DOMAIN connected : connected[x] # p
Exit(p) ==
  /\ stage[p] \in {"failed", "stopped"} /\ IsIdle(p)
  /\ stage' = [stage EXCEPT ![p] = "ended"]
  /\ UNCHANGED <<starting, listening, attached, connected>> /\ Unaffected

\* A crash, or a signal nobody handles: while the Host starts, or again.
Killed(p) ==
  /\ stage[p] \notin {"new", "ended"}
  /\ stage' = [stage EXCEPT ![p] = "ended"]
  /\ listening' = NoServer(p)
  /\ attached' = [attached EXCEPT ![p] = FALSE]
  /\ connected' = [x \in DOMAIN connected |-> IF connected[x] = p THEN Null ELSE connected[x]]
  /\ UNCHANGED starting /\ Unaffected

-----------------------------------------------------------------------------
(* Connections: the gateway's #handleUpgrade.                              *)

\* The server of p a request reaches, its path, and the token it carries.
\* "control" is the path of the one stream there is.
AcceptsUpgrade(p, s, path, t) ==
  /\ attached[p] /\ listening[p][s] # Null
  /\ \/ path = "device" /\ t = token[p]
     \/ s = "host" /\ path \in {"runtime", "control"}

\* The ports in createPairedDeviceWebSocketUrl: none if that throws.
\* MUTANT of PairingPort: the port of the Host's page instead of the device's.
PairingOnHostPort(p) == {OrDefault(env[p].port, HostPort)}
PairingPort(p) ==
  IF env[p].origin THEN {Proxy}
  ELSE IF env[p].devicePort \in {"unset", "empty"} THEN {DevicePort}
  ELSE {env[p].devicePort} \ {"none"}

\* The operator sets a controller up by USB through p's console or the CLI.
Pair(p, c) ==
  /\ Serves(p) /\ handlerToken[p] # Null
  /\ \E q \in PairingPort(p) :
       setup' = [setup EXCEPT ![c] = [port |-> q, token |-> handlerToken[p]]]
  /\ connected' = [connected EXCEPT ![c] = Null]
  /\ UNCHANGED <<env, stage, starting, listening, foreign, secrets, attached>>

ControllerConnects(c) ==
  /\ connected[c] = Null /\ setup[c] # NoSetup
  /\ \E p \in Processes :
       /\ \/ setup[c].port = Proxy /\ AcceptsUpgrade(p, "host", "device", setup[c].token)
          \/ /\ listening[p]["device"] = setup[c].port
             /\ AcceptsUpgrade(p, "device", "device", setup[c].token)
       /\ connected' = [connected EXCEPT ![c] = p]
  /\ UNCHANGED <<env, stage, starting, listening, foreign, secrets, attached, setup>>

BrowserConnects(b, path) ==
  /\ connected[b] = Null
  /\ \E p \in Processes, s \in Servers :
       AcceptsUpgrade(p, s, path, Null) /\ connected' = [connected EXCEPT ![b] = p]
  /\ UNCHANGED <<env, stage, starting, listening, foreign, secrets, attached, setup>>

ConnectionLost(x) ==
  /\ connected[x] # Null
  /\ connected' = [connected EXCEPT ![x] = Null]
  /\ UNCHANGED <<env, stage, starting, listening, foreign, secrets, attached, setup>>

\* Other programs on the machine.
ForeignChanges(q) ==
  /\ q \in foreign \/ Free(q)
  /\ foreign' = IF q \in foreign THEN foreign \ {q} ELSE foreign \cup {q}
  /\ UNCHANGED <<env, stage, starting, listening, secrets, attached, peers>>

-----------------------------------------------------------------------------
StartStep(p) ==
  \/ ReadPairingToken(p) \/ OpenTokenFile(p) \/ WritePersistedToken(p)
  \/ Start(p) \/ ListenOnPreferredPort(p) \/ FindFreePort(p) \/ AskUseFallbackPort(p)
  \/ OperatorAnswers(p) \/ ListenOnFallbackPort(p) \/ PrintStartupSummary(p)

Next ==
  \/ \E p \in Processes :
       \/ StartStep(p) \/ LoadHandlerModule(p) \/ Stop(p) \/ Exit(p) \/ Killed(p)
       \/ \E c \in Controllers : Pair(p, c)
  \/ \E c \in Controllers : ControllerConnects(c)
  \/ \E b \in Browsers, path \in {"runtime", "control", "device", "other"} :
       BrowserConnects(b, path)
  \/ \E x \in Controllers \cup Browsers : ConnectionLost(x)
  \/ \E q \in ForeignPorts : ForeignChanges(q)

Spec == Init /\ [][Next]_vars

\* Only the end of an idle process is assumed to happen.
FairSpec == Spec /\ \A p \in Processes : WF_vars(Exit(p))

-----------------------------------------------------------------------------
(* Properties.                                                             *)

TypeOK ==
  /\ env \in [Processes -> Environment]
  /\ stage \in [Processes -> Stages]
  /\ target \in [Processes -> {"host", "device"}]
  /\ fallback \in [Processes -> EphemeralPorts \cup {Null}]
  /\ listening \in [Processes -> [Servers -> Ports \cup {Null}]]
  /\ foreign \subseteq ForeignPorts
  /\ tokenFile \in Processes \cup {Null}
  /\ token \in [Processes -> Tokens \cup {Null}]
  /\ handlerToken \in [Processes -> Tokens \cup {Null}]
  /\ overlapped \in BOOLEAN
  /\ attached \in [Processes -> BOOLEAN]
  /\ connected \in [Controllers \cup Browsers -> Processes \cup {Null}]
  /\ setup \in [Controllers -> [port: Ports \cup {Proxy, Null, "other"}, token: Tokens \cup {Null}]]

\* A start that fails, wherever it fails and whoever takes and releases ports
\* meanwhile, keeps no port and no timer, but for one case: when the summary
\* cannot be printed, the catch does not know the device server yet.
FailedStartsHoldNothing ==
  \A p \in Processes :
    stage[p] = "failed" /\ env[p].host # "noUrl"
      => ~attached[p] /\ \A s \in Servers : listening[p][s] = Null

\* Controllers stay paired over restarts: every running Host without a token
\* of its own in the environment accepts the one in the file, unless two
\* processes were creating it at the same time.
PairingSurvivesRestart ==
  \A p \in Processes :
    stage[p] = "running" /\ env[p].token = Null /\ ~overlapped => token[p] = tokenFile

\* What the console hands to a controller fits the Host: the gateway accepts
\* the token, although bundle and gateway load it separately and at different
\* times, and the address is the one its device server listens on, although
\* index.ts and pairing.ts read the environment separately.  Not so if the
\* operator has accepted another port.
HandedOutAddressIsOwn ==
  \A p \in Processes :
    /\ handlerToken[p] \in {Null, token[p]}
    /\ stage[p] = "running" =>
         \A q \in PairingPort(p) : q # Proxy => listening[p]["device"] \in {q, fallback[p]}

\* A process that has failed or was stopped ends, once no controller is
\* connected to it; the exception is that of FailedStartsHoldNothing.
StoppedHostEnds ==
  \A p \in Processes :
    /\ stage[p] \in {"failed", "stopped"} /\ env[p].host # "noUrl"
    /\ \A c \in Controllers : connected[c] # p
    ~> stage[p] = "ended"

\* docs/host-lifecycle.md: at SIGINT or SIGTERM waitForShutdown() cleans up
\* sockets and servers.
StopClosesSockets ==
  \A p \in Processes : stage[p] = "stopped" => \A x \in DOMAIN connected : connected[x] # p
=============================================================================
