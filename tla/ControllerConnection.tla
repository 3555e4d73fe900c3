-------------------------- MODULE ControllerConnection --------------------------
(***************************************************************************)
(* How the controller gets and keeps its connection to the Host: the loop  *)
(* of the firmware (firmware/m5-controller/src/main.cpp) with its one-shot *)
(* WiFi and WebSocket attempts, new configurations that arrive over USB,   *)
(* and the events of the libraries below it.                               *)
(*                                                                         *)
(* The WiFi driver runs beside the loop, so its status changes between two *)
(* readings within one iteration.  Time is the 32-bit counter millis(),    *)
(* here modulo Word; it is read once per iteration.                        *)
(***************************************************************************)
EXTENDS FirmwareClock

CONSTANTS
  Configs,       \* complete configurations, with a ws:// URL that parses
  None,          \* no configuration saved
  WifiInterval,  \* WifiReconnectIntervalMs
  WsInterval,    \* WebSocketReconnectIntervalMs
  JoinTime       \* a reachable network is joined within this time

ASSUME NoneAssumption == None \notin Configs
ASSUME TimeAssumption ==
  WifiInterval \in Nat /\ WsInterval \in Nat /\ JoinTime \in Nat

VARIABLES
  at,         \* where the loop is
  config,     \* config, or None for ~hasConfig
  lastWifiAttemptMs, lastWebSocketAttemptMs,
  webSocketConfigured, webSocketConnected,
  endpoint,   \* the configuration the WebSocket library was begun with
  wifi,       \* the driver: "off", "joining", "up", or "leaving" (still connected)
  joining,    \* how long it has been joining while it could
  access,     \* whether the configured network can be joined
  host,       \* whether the Host can be reached over it
  peer        \* whether the Host's end of the connection is alive

loop == <<at, nowMs>>
attempts == <<lastWifiAttemptMs, lastWebSocketAttemptMs>>
socket == <<webSocketConfigured, webSocketConnected, endpoint, peer>>
driver == <<wifi, joining>>
world == <<access, host>>
vars == <<loop, config, attempts, socket, driver, world>>

TypeOK ==
  /\ at \in {"start", "maintain", "wifi", "websocket", "socket"}
  /\ nowMs \in Instants
  /\ config \in Configs \cup {None}
  /\ lastWifiAttemptMs \in Instants /\ lastWebSocketAttemptMs \in Instants
  /\ webSocketConfigured \in BOOLEAN /\ webSocketConnected \in BOOLEAN
  /\ endpoint \in Configs \cup {None}
  /\ wifi \in {"off", "joining", "up", "leaving"}
  /\ joining \in 0..JoinTime
  /\ access \in BOOLEAN /\ host \in BOOLEAN /\ peer \in BOOLEAN

\* setup() has loaded a configuration or none.
Init ==
  /\ at = "start" /\ nowMs = 0
  /\ config \in Configs \cup {None}
  /\ lastWifiAttemptMs = 0 /\ lastWebSocketAttemptMs = 0
  /\ webSocketConfigured = FALSE /\ webSocketConnected = FALSE
  /\ endpoint = None /\ peer = FALSE
  /\ wifi = "off" /\ joining = 0
  /\ access \in BOOLEAN /\ host \in BOOLEAN

WifiConnected == wifi \in {"up", "leaving"}   \* WiFi.status() == WL_CONNECTED

Since(t) == Minus(nowMs, t)

\* An attempt is due at once after a start or a new configuration, for which
\* 0 stands, and then once per interval.
DueAlways(last, interval) == TRUE   \* MUTANT: the interval is not looked at
Due(last, interval) == last = 0 \/ Since(last) >= interval

-----------------------------------------------------------------------------
(* One iteration of loop(), in the order of its steps.                     *)

\* millis(), d after the last iteration.  By then a network that could be
\* joined for long enough has been.
StartLoop(d) ==
  /\ at = "start" /\ at' = "maintain"
  /\ nowMs' = Later(d)
  /\ IF wifi = "joining" /\ access
     THEN /\ joining' = IF joining + d < JoinTime THEN joining + d ELSE JoinTime
          /\ wifi' = IF joining + d < JoinTime THEN "joining" ELSE "up"
     ELSE joining' = 0 /\ UNCHANGED wifi
  /\ UNCHANGED <<config, attempts, socket, world>>

\* disconnectWebSocket
SocketKept == UNCHANGED socket   \* MUTANT
DisconnectWebSocket ==
  /\ webSocketConfigured' = FALSE /\ webSocketConnected' = FALSE
  /\ peer' = FALSE
  /\ UNCHANGED endpoint

\* readSerialSetup has met a configuration: applySavedConfig.  The driver
\* leaves its network only after a while.
ApplySavedConfig(c) ==
  /\ at = "maintain"
  /\ DisconnectWebSocket
  /\ wifi' = IF WifiConnected THEN "leaving" ELSE "off"
  /\ joining' = 0
  /\ lastWifiAttemptMs' = 0 /\ lastWebSocketAttemptMs' = 0
  /\ config' = c
  /\ UNCHANGED <<loop, world>>

\* maintainConnections looks at the WiFi status for the first time.
MaintainConnections ==
  /\ at = "maintain"
  /\ \/ /\ config = None
        /\ at' = "socket" /\ UNCHANGED socket
     \/ /\ config # None /\ ~WifiConnected
        /\ DisconnectWebSocket
        /\ at' = "wifi"
     \/ /\ config # None /\ WifiConnected
        /\ at' = "websocket" /\ UNCHANGED socket
  /\ UNCHANGED <<nowMs, config, attempts, driver, world>>

BeginWifiConnection ==
  /\ at = "wifi" /\ at' = "socket"
  /\ IF ~WifiConnected /\ Due(lastWifiAttemptMs, WifiInterval)
     THEN lastWifiAttemptMs' = nowMs /\ wifi' = "joining" /\ joining' = 0
     ELSE UNCHANGED <<lastWifiAttemptMs, driver>>
  /\ UNCHANGED <<nowMs, config, lastWebSocketAttemptMs, socket, world>>

BeginWebSocketConnection ==
  /\ at = "websocket" /\ at' = "socket"
  /\ IF WifiConnected /\ ~webSocketConfigured /\ Due(lastWebSocketAttemptMs, WsInterval)
     THEN /\ lastWebSocketAttemptMs' = nowMs
          /\ endpoint' = config /\ webSocketConfigured' = TRUE
     ELSE UNCHANGED <<lastWebSocketAttemptMs, endpoint, webSocketConfigured>>
  /\ UNCHANGED <<nowMs, config, lastWifiAttemptMs, webSocketConnected, peer, driver, world>>

\* webSocket.loop() runs only while a connection is configured or open; it
\* may reach the Host, and calls handleWebSocketEvent.
Serviced == at = "socket" /\ (webSocketConfigured \/ webSocketConnected)

Connected ==
  /\ Serviced /\ ~webSocketConnected
  /\ wifi = "up" /\ host
  /\ webSocketConnected' = TRUE /\ webSocketConfigured' = TRUE /\ peer' = TRUE
  /\ at' = "start"
  /\ UNCHANGED <<nowMs, config, attempts, endpoint, driver, world>>

\* MUTANT: the DISCONNECTED event leaves the flags alone.
FlagsKept == UNCHANGED <<webSocketConfigured, webSocketConnected>>
FlagsCleared == webSocketConfigured' = FALSE /\ webSocketConnected' = FALSE

\* It has lost its peer, noticed by what it sends, or failed otherwise.
Disconnected ==
  /\ Serviced /\ webSocketConnected /\ ~peer
  /\ FlagsCleared
  /\ at' = "start"
  /\ UNCHANGED <<nowMs, config, attempts, endpoint, peer, driver, world>>

NothingHappens ==
  /\ at = "socket" /\ at' = "start"
  /\ UNCHANGED <<nowMs, config, attempts, socket, driver, world>>

-----------------------------------------------------------------------------
(* The driver and the world.                                               *)

Joined ==
  /\ wifi = "joining" /\ access
  /\ wifi' = "up"
  /\ UNCHANGED <<loop, config, attempts, socket, joining, world>>

Left ==
  /\ wifi = "leaving"
  /\ wifi' = "off"
  /\ UNCHANGED <<loop, config, attempts, socket, joining, world>>

\* The network goes away, and every connection over it; or it comes back.
AccessChanges ==
  /\ access' = ~access
  /\ IF access THEN wifi' = "off" /\ peer' = FALSE ELSE UNCHANGED <<wifi, peer>>
  /\ UNCHANGED <<loop, config, attempts, webSocketConfigured, webSocketConnected,
                 endpoint, joining, host>>

\* The Host ends or cannot be reached, or is back.
HostChanges ==
  /\ host' = ~host /\ peer' = FALSE
  /\ UNCHANGED <<loop, config, attempts, webSocketConfigured, webSocketConnected,
                 endpoint, driver, access>>

LoopStep ==
  \/ \E d \in 1..MaxStep : StartLoop(d)
  \/ MaintainConnections \/ BeginWifiConnection \/ BeginWebSocketConnection
  \/ Connected \/ Disconnected \/ NothingHappens

Next ==
  \/ LoopStep
  \/ \E c \in Configs : ApplySavedConfig(c)
  \/ Joined \/ Left \/ AccessChanges \/ HostChanges

Spec == Init /\ [][Next]_vars

\* The loop runs on.  The library tries again and again and reaches a Host
\* that can be reached; it notices a lost peer, as it sends 20 frames per s.
\* A driver that was told to leave leaves.
Fairness ==
  /\ WF_vars(LoopStep) /\ WF_vars(Left)
  /\ SF_vars(Connected) /\ SF_vars(Disconnected)

FairSpec == Spec /\ Fairness
-----------------------------------------------------------------------------
(* Safety.                                                                 *)

\* The controller sends its frames to the Host it is configured for, whenever
\* a new configuration, a lost network or an event of the library falls into
\* the loop; and the loop services every connection that is open.
SendsToConfiguredHost ==
  webSocketConnected => webSocketConfigured /\ config # None /\ endpoint = config

(* Liveness.                                                               *)

Reachable == access /\ host /\ config # None
Steady == <>[]Reachable /\ <>[][UNCHANGED config /\ ~\E c \in Configs : ApplySavedConfig(c)]_vars

\* If network and Host stay reachable from some time on and nobody configures
\* the controller, it gets connected and stays so: no retry breaks the attempt
\* before it, and no connection is lost track of, also as the time wraps.
GetsConnected == Steady => <>[](webSocketConnected /\ peer)
=============================================================================
