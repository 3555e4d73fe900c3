---------------------------- MODULE BrowserClients ----------------------------
(***************************************************************************)
(* The browsers around the runtime registry: experience pages with the     *)
(* launch registration client (lib/client/launch-registration-client.ts    *)
(* within experience-client.ts) and the console with its registry socket   *)
(* (_console/launch-registry-state.svelte.ts, page-state.svelte.ts),       *)
(* composed with the Host of RuntimeRegistry over ordered connections.     *)
(*                                                                         *)
(* A page opens one WebSocket after the other; <<p, i>> is its i-th.  The  *)
(* browser's view of a socket ("ready") and the Host's ("socketState") are *)
(* separate, and each side may find the connection gone at any time.       *)
(***************************************************************************)
EXTENDS RuntimeMessages, Sequences, FiniteSets

CONSTANTS
  Pages,              \* experience pages, two may share one clientId
  Console,            \* the console's page
  Sockets,            \* <<p, i>> is the i-th WebSocket page p opens
  Scenarios,          \* bound: how pages are configured, sockets they may open
  MaxInFlight,        \* bound: messages ahead of an operator's next choice
  Options,            \* client.hello payloads the pages may be configured for
  DefaultExperience,
  HeartbeatEvery,     \* the 4 s interval, in clock ticks
  StaleAfter,         \* RUNTIME_CLIENT_STALE_AFTER_MS
  CheckEvery          \* RUNTIME_PRESENCE_CHECK_INTERVAL_MS

Clients == UNION {ReadString(o.clientId) : o \in Options}

ASSUME PageAssumption == Console \notin Pages
ASSUME SocketAssumption == Sockets \subseteq (Pages \cup {Console}) \X Nat
ASSUME ScenarioAssumption ==
  \A x \in Scenarios : x.options \in [Pages -> Options] /\ x.opens \subseteq Sockets
ASSUME OptionAssumption ==
  Options \subseteq [clientId: JsonValues, experienceId: JsonValues, title: JsonValues,
                    url: JsonValues, userAgent: JsonValues]
ASSUME HostAssumption == DefaultExperience \in Slugs /\ Null \notin Sockets
\* 4 s, 8 s and 2 s in the code.
ASSUME IntervalAssumption ==
  /\ HeartbeatEvery \in Nat \ {0} /\ StaleAfter \in Nat /\ CheckEvery \in Nat \ {0}
  /\ HeartbeatEvery =< StaleAfter

VARIABLES
  clients, station, socketState, sinceCheck, told,   \* RuntimeRegistry
  options,   \* what each page passed to createIcarosExperienceClient
  page,      \* the variables of each page's clients
  ready,     \* readyState of each socket in its browser
  up,        \* messages on their way to the Host
  down,      \* messages on their way to the browser
  console    \* what the console shows

host == <<clients, station, socketState, sinceCheck, told>>
vars == <<host, options, page, ready, up, down, console>>

Host == INSTANCE RuntimeRegistry
          WITH Experiences <- Slugs, None <- Null

NoBeat == -1

\* readyState CONNECTING or OPEN.
IsLive(s) == ready[s] \in {"connecting", "accepted", "open"}

\* at: the experience itself or the console it has been sent to; early: the
\* page was started again before the socket of its last start had closed.
PageState ==
  [at: {"experience", "console"}, socket: Sockets \cup {Null},
   beat: NoBeat..HeartbeatEvery, listening: BOOLEAN, early: BOOLEAN]

\* "accepted" is CONNECTING, with the Host's answer on its way.
ReadyStates == {"unused", "connecting", "accepted", "open", "closing", "closed"}

Unloaded == [at |-> "console", socket |-> Null, beat |-> NoBeat,
             listening |-> FALSE, early |-> FALSE]
Loaded == [Unloaded EXCEPT !.at = "experience"]

SocketsOf(p) == {s \in Sockets : s[1] = p}
HelloOf(p) == options[p]
Init ==
  /\ Host!Init
  /\ page = [p \in Pages |-> Unloaded]
  /\ \E x \in Scenarios :
       /\ options = x.options
       /\ ready = [s \in Sockets |-> IF s \in x.opens THEN "unused" ELSE "closed"]
  /\ up = [s \in Sockets |-> <<>>]
  /\ down = [s \in Sockets |-> <<>>]
  /\ console = [selected |-> Null, list |-> {}, target |-> {}]

-----------------------------------------------------------------------------
(* The Host's steps, and what they send.                                   *)

Json(v) == IF v = Null THEN JsonNull ELSE Str(v)

\* A summary of the client list carries the rest of the client's hello.
Listed(e) ==
  LET v == CHOOSE v \in UNION {ValidateClientHello(o) : o \in Options} :
             v.clientId = e.clientId /\ v.experienceId = e.experienceId
  IN  [clientId |-> Str(v.clientId), experienceId |-> Str(v.experienceId),
       title |-> Str(v.title), url |-> Str(v.url),
       userAgent |-> IF v.userAgent = Empty THEN Absent ELSE Str(v.userAgent),
       status |-> e.status]

StationMessage(st) ==
  [type |-> "station.state",
   selectedExperienceId |-> Json(st.selectedExperienceId),
   selectedLaunchClientId |-> Json(st.selectedLaunchClientId)]
ClientsMessage(st, list) ==
  [type |-> "runtime.clients", clients |-> {Listed(e) : e \in list},
   selectedLaunchClientId |-> Json(st.selectedLaunchClientId)]
RegisteredMessage(c, st) ==
  [type |-> "client.registered", clientId |-> Str(c),
   selectedForLaunch |-> st.selectedLaunchClientId = c,
   selectedLaunchClientId |-> Json(st.selectedLaunchClientId)]

\* MUTANT of News: station.state is not sent along with the list.
ListOnly(s, st, list) == IF s[1] = Console THEN <<ClientsMessage(st, list)>> ELSE <<>>
\* The browser's parsers drop what is not for them: a page the client list,
\* the console client.registered.
News(s, st, list) ==
  IF s[1] = Console THEN <<StationMessage(st), ClientsMessage(st, list)>>
                    ELSE <<StationMessage(st)>>

\* Every connection whose last message is no longer the current state is
\* sent the new one.  "first" is sent on socket s ahead of it.  A browser
\* reads nothing any more from a socket it is closing.
HasNews(t) ==
  /\ socketState'[t] = "open" /\ socketState[t] = "open"
  /\ \/ told'[t].station # told[t].station
     \/ t[1] = Console /\ told'[t].list # told[t].list
HostSends(s, first) ==
  down' = [t \in Sockets |->
    IF ~IsLive(t) THEN <<>>
    ELSE down[t] \o (IF t = s THEN first ELSE <<>>)
                 \o (IF HasNews(t) THEN News(t, told'[t].station, told'[t].list) ELSE <<>>)]

\* The upgrade of a connecting socket, and the connection handler.
HostAccepts(s) ==
  /\ ready[s] = "connecting"
  /\ Host!Connect(s)
  /\ ready' = [ready EXCEPT ![s] = "accepted"]
  /\ HostSends(s, News(s, station, Host!ListRuntimeClients(clients)))
  /\ UNCHANGED <<options, page, up, console>>

HostReceives(s) ==
  /\ up[s] # <<>> /\ socketState[s] # "closed"
  /\ up' = [up EXCEPT ![s] = Tail(@)]
  /\ LET m == Head(up[s]) IN
       \/ /\ m.type = "client.hello"
          /\ \E v \in ValidateClientHello(m.payload) :
               /\ Host!Hello(s, v.clientId, v.experienceId)
               /\ HostSends(s, IF socketState'[s] = "open"
                               THEN <<RegisteredMessage(v.clientId, station')>> ELSE <<>>)
       \/ /\ m.type = "client.hello" /\ ValidateClientHello(m.payload) = {}
          /\ IF socketState[s] = "open"
             THEN Host!RejectHello(s) /\ HostSends(s, <<[type |-> "client.rejected"]>>)
             ELSE UNCHANGED <<host, down>>
       \/ /\ m.type = "client.heartbeat"
          /\ \E v \in ValidateClientHeartbeat(m.payload) :
               IF \E e \in clients : e.clientId = v.clientId
               THEN Host!Heartbeat(s, v.clientId) /\ HostSends(s, <<>>)
               ELSE UNCHANGED <<host, down>>
       \/ /\ m.type = "client.heartbeat" /\ ValidateClientHeartbeat(m.payload) = {}
          /\ UNCHANGED <<host, down>>
  /\ UNCHANGED <<options, page, ready, console>>

\* The Host finds the connection closed or lost.
HostCloses(s) ==
  /\ Host!SocketClosed(s)
  /\ up' = [up EXCEPT ![s] = <<>>]
  /\ HostSends(s, <<>>)
  /\ UNCHANGED <<options, page, ready, console>>

PresenceTimer ==
  /\ Host!MarkStaleRuntimeClients
  /\ HostSends(Null, <<>>)
  /\ UNCHANGED <<options, page, ready, up, console>>

OperatorChooses ==
  /\ \A s \in Sockets : Len(down[s]) < MaxInFlight
  /\ Host!ClearLaunchClient \/ \E c \in Clients : Host!SelectLaunchClient(c)
  /\ HostSends(Null, <<>>)
  /\ UNCHANGED <<options, page, ready, up, console>>

-----------------------------------------------------------------------------
(* An experience page: createIcarosLaunchRegistrationClient.               *)

Current(p) == {s \in SocketsOf(p) : s = page[p].socket}

\* MUTANT of ClosingCurrent: the reference is dropped without close().
NotClosing(p) == ready
\* close() on the socket the client refers to, if it refers to one.
ClosingCurrent(p) ==
  [s \in Sockets |-> IF s \in Current(p) /\ IsLive(s) THEN "closing" ELSE ready[s]]

\* What the client's variables are set to.
PageWith(p, socket, beat, listening, early) ==
  [at |-> page[p].at, socket |-> socket, beat |-> beat, listening |-> listening,
   early |-> early]

NextSocket(p) ==
  {s \in SocketsOf(p) : /\ ready[s] = "unused"
                        /\ \A t \in SocketsOf(p) : ready[t] = "unused" => s[2] =< t[2]}

\* start(): a second call opens nothing, but listens to station.state again.
Start(p) ==
  /\ page[p].at = "experience"
  /\ \/ /\ page[p].socket # Null
        /\ page' = [page EXCEPT ![p].listening = TRUE]
        /\ UNCHANGED ready
     \/ /\ page[p].socket = Null
        /\ \E s \in NextSocket(p) :
             /\ page' = [page EXCEPT ![p] = PageWith(p, s, page[p].beat, TRUE,
                  page[p].early \/ \E t \in SocketsOf(p) : ready[t] \notin {"unused", "closed"})]
             /\ ready' = [ready EXCEPT ![s] = "connecting"]
  /\ UNCHANGED <<host, options, up, down, console>>

Dispose(p) ==
  /\ page[p].at = "experience" /\ (page[p].socket # Null \/ page[p].listening)
  /\ ready' = ClosingCurrent(p)
  /\ down' = [s \in Sockets |-> IF s \in Current(p) THEN <<>> ELSE down[s]]
  /\ page' = [page EXCEPT ![p] = PageWith(p, Null, NoBeat, FALSE, page[p].early)]
  /\ UNCHANGED <<host, options, up, console>>

\* A connection that is over for the Host loses what is sent on it.
Sending(s, m) == IF socketState[s] = "closed" THEN up[s] ELSE Append(up[s], m)

\* The open event says hello on the socket the client refers to by now:
\* none after the close of an older one, a newer one after a restart, which
\* throws while that one is connecting.
OpenEvent(s) ==
  /\ ready[s] = "accepted"
  /\ ready' = [ready EXCEPT ![s] = "open"]
  /\ up' = [t \in Sockets |->
       IF s[1] # Console /\ t \in Current(s[1]) /\ ready'[t] = "open"
       THEN Sending(t, [type |-> "client.hello", payload |-> HelloOf(s[1])])
       ELSE up[t]]
  /\ UNCHANGED <<host, options, page, down, console>>

\* The page is left or closed: the browser closes all of its sockets.
Leave(p) ==
  /\ page' = [page EXCEPT ![p] = Unloaded]
  /\ ready' = [s \in Sockets |->
       IF s \in SocketsOf(p) /\ ready[s] # "unused" THEN "closed" ELSE ready[s]]
  /\ down' = [s \in Sockets |-> IF s \in SocketsOf(p) THEN <<>> ELSE down[s]]

\* handleStationState: the configured experience is compared as it is.
IsOther(p, st) ==
  st.selectedExperienceId # Null /\ Str(st.selectedExperienceId) # HelloOf(p).experienceId

PageMessage(s) ==
  LET p == s[1]  m == Head(down[s]) IN
  /\ p # Console /\ ready[s] = "open" /\ down[s] # <<>>
  /\ \/ /\ m.type = "client.registered"
        /\ page' = IF \E v \in ValidateClientRegistered(m) : Str(v.clientId) = HelloOf(p).clientId
                   THEN [page EXCEPT ![p].beat = 0] ELSE page
        /\ UNCHANGED ready
        /\ down' = [down EXCEPT ![s] = Tail(@)]
     \/ /\ m.type = "client.rejected"
        /\ ready' = ClosingCurrent(p)
        /\ down' = [t \in Sockets |->
             IF t \in Current(p) THEN <<>> ELSE IF t = s THEN Tail(down[t]) ELSE down[t]]
        /\ UNCHANGED page
     \/ /\ m.type = "station.state"
        /\ IF page[p].listening /\ \E st \in ValidateStationState(m) : IsOther(p, st)
           THEN Leave(p)
           ELSE down' = [down EXCEPT ![s] = Tail(@)] /\ UNCHANGED <<page, ready>>
  /\ UNCHANGED <<host, options, up, console>>

\* The close event of whichever socket: no heartbeat and no socket any more.
CloseEvent(s) ==
  /\ IsLive(s) \/ ready[s] = "closing"
  /\ ready' = [ready EXCEPT ![s] = "closed"]
  /\ down' = [down EXCEPT ![s] = <<>>]
  /\ page' = IF s[1] = Console THEN page
             ELSE LET p == s[1] IN
                  [page EXCEPT ![p] = PageWith(p, Null, NoBeat, page[p].listening, page[p].early)]
  /\ UNCHANGED <<host, options, up, console>>

HeartbeatTimer(p) ==
  /\ page[p].beat = HeartbeatEvery
  /\ page' = [page EXCEPT ![p].beat = 0]
  /\ up' = [s \in Sockets |->
       IF s \in Current(p) /\ ready[s] = "open"
       THEN Sending(s, [type |-> "client.heartbeat",
                        payload |-> [clientId |-> HelloOf(p).clientId]])
       ELSE up[s]]
  /\ UNCHANGED <<host, options, ready, down, console>>

\* The user opens the experience, by itself or through /launch, or closes it.
UserLoads(p) ==
  /\ page[p].at = "console" /\ NextSocket(p) # {}
  /\ page' = [page EXCEPT ![p] = Loaded]
  /\ UNCHANGED <<host, options, ready, up, down, console>>
UserLeaves(p) ==
  /\ page[p].at = "experience"
  /\ Leave(p)
  /\ UNCHANGED <<host, options, up, console>>

-----------------------------------------------------------------------------
(* The console page.                                                       *)

\* resolveLaunchClientUrl on the Host: the client /launch redirects to.
LaunchTarget ==
  {c \in Clients : c = station.selectedLaunchClientId /\ Host!IsSelectable(clients, c)}

\* load(), then mount() with the load's data until messages arrive.
LoadConsole ==
  /\ \A s \in SocketsOf(Console) : ready[s] \in {"unused", "closed"}
  /\ console' = [selected |-> station.selectedLaunchClientId, list |-> {},
                 target |-> LaunchTarget]
  /\ \E s \in NextSocket(Console) : ready' = [ready EXCEPT ![s] = "connecting"]
  /\ UNCHANGED <<host, options, page, up, down>>

UnloadConsole ==
  /\ \E s \in SocketsOf(Console) : IsLive(s)
  /\ ready' = [s \in Sockets |->
       IF s[1] = Console /\ ready[s] # "unused" THEN "closed" ELSE ready[s]]
  /\ down' = [s \in Sockets |-> IF s[1] = Console THEN <<>> ELSE down[s]]
  /\ UNCHANGED <<host, options, page, up, console>>

ConsoleMessage(s) ==
  LET m == Head(down[s]) IN
  /\ s[1] = Console /\ ready[s] = "open" /\ down[s] # <<>>
  /\ down' = [down EXCEPT ![s] = Tail(@)]
  /\ \/ \E st \in ParseStation(m) :
          console' = [console EXCEPT !.selected = st.selectedLaunchClientId]
     \/ \E r \in ParseClients(m) : console' = [console EXCEPT !.list = r.clients]
     \/ ParseStation(m) \cup ParseClients(m) = {} /\ UNCHANGED console
  /\ UNCHANGED <<host, options, page, ready, up>>

\* resolveCurrentLaunchTargetUrl
ShownTarget ==
  {c \in Clients : c = console.selected /\
     IF console.list = {} THEN c \in console.target
     ELSE \E e \in console.list : e.clientId = c /\ e.status = "online"}

-----------------------------------------------------------------------------
\* A message is delivered, or its connection over, before the clock ticks;
\* timers fire when they are due.
NothingOverdue ==
  /\ \A p \in Pages : page[p].beat < HeartbeatEvery
  /\ \A s \in Sockets :
       /\ up[s] = <<>> /\ ready[s] # "accepted"
       /\ ready[s] = "open" => down[s] = <<>>

Tick ==
  /\ NothingOverdue
  /\ Host!Tick
  /\ page' = [p \in Pages |->
       IF page[p].beat = NoBeat THEN page[p] ELSE [page[p] EXCEPT !.beat = @ + 1]]
  /\ UNCHANGED <<options, ready, up, down, console>>

Next ==
  \/ \E s \in Sockets :
       \/ HostAccepts(s) \/ HostReceives(s) \/ HostCloses(s)
       \/ OpenEvent(s) \/ PageMessage(s) \/ ConsoleMessage(s) \/ CloseEvent(s)
  \/ \E p \in Pages :
       Start(p) \/ Dispose(p) \/ HeartbeatTimer(p) \/ UserLoads(p) \/ UserLeaves(p)
  \/ LoadConsole \/ UnloadConsole
  \/ PresenceTimer \/ OperatorChooses \/ Tick

Spec == Init /\ [][Next]_vars

\* The event loops of the Host and of the browsers work on what is there for
\* them, and a connection that one side closes ends for both.  Nothing is
\* assumed of users and operator.
HostTurn(s) == HostAccepts(s) \/ HostReceives(s)
BrowserTurn(s) ==
  \/ OpenEvent(s) \/ PageMessage(s) \/ ConsoleMessage(s)
  \/ /\ ready[s] = "closing" \/ (ready[s] = "open" /\ socketState[s] = "closed")
     /\ CloseEvent(s)

Fairness ==
  /\ \A s \in Sockets :
       /\ WF_vars(HostTurn(s)) /\ WF_vars(BrowserTurn(s))
       /\ WF_vars(socketState[s] = "closing" /\ HostCloses(s))
  /\ \A p \in Pages : WF_vars(HeartbeatTimer(p))
  /\ WF_vars(PresenceTimer) /\ WF_vars(Tick)

FairSpec == Spec /\ Fairness

-----------------------------------------------------------------------------
(* Properties.                                                             *)

TypeOK ==
  /\ page \in [Pages -> PageState]
  /\ ready \in [Sockets -> ReadyStates]
  /\ \A e \in console.list : e.clientId \in Clients /\ e.experienceId \in Slugs

\* The page's 4 s timer, the Host's 8 s threshold and its 2 s timer work
\* together: a page whose heartbeat runs over an open connection is listed
\* online, whatever other tabs with its clientId and restarts do.  Not so
\* after an early restart, where the answer on an older socket may have
\* started the heartbeat.
BeatingPagesAreOnline ==
  \A p \in Pages : \A s \in Current(p) :
    /\ page[p].beat # NoBeat /\ ~page[p].early
    /\ ready[s] = "open" /\ socketState[s] = "open"
    => \E e \in clients : e.clientId \in ReadString(HelloOf(p).clientId) /\ e.status = "online"

\* A page drops its reference to a socket that is not closed only if it was
\* started again before the close event of its disposed socket, which then
\* clears the reference to the new one.
OnlyEarlyRestartsLeak ==
  \A p \in Pages : \A s \in SocketsOf(p) :
    IsLive(s) /\ ~page[p].early => s \in Current(p)

\* When nothing is on its way to the console, the launch target it shows is
\* the one the Host would redirect to.
ConsoleShowsLaunchTarget ==
  \A s \in SocketsOf(Console) :
    ready[s] = "open" /\ socketState[s] = "open" /\ down[s] = <<>>
      => ShownTarget = LaunchTarget

IsConnected(p) == \E s \in Current(p) : ready[s] = "open"

\* A page that is connected gets its heartbeat running or loses or closes
\* the connection: no hello stays without answer.  Not so for a clientId
\* with blanks around it, which comes back trimmed, and after an early
\* restart, whose open event may find no socket to say hello on.
ConnectedPagesRegister ==
  \A p \in Pages :
    IsConnected(p) /\ ~page[p].early /\ ~HelloOf(p).clientId.padded
      ~> ~IsConnected(p) \/ page[p].beat # NoBeat \/ page[p].early

\* When nothing is on its way to it, a connected page that listens is not
\* showing an experience beside the selected one: it has left for the
\* console, whatever was selected before, while and after it connected.
OthersLeave ==
  \A p \in Pages : \A s \in Current(p) :
    /\ ready[s] = "open" /\ socketState[s] = "open" /\ down[s] = <<>>
    /\ page[p].listening
    => ~IsOther(p, station)

=============================================================================
