--------------------------- MODULE RuntimeRegistry ---------------------------
(***************************************************************************)
(* The Host's runtime side: the registry of browser clients                *)
(* (ws/runtime-clients.ts), the station's launch selection                 *)
(* (station/state.ts), the /ws/runtime handlers and the presence timer of  *)
(* the gateway (ws/gateway.ts) and the operator's selection                *)
(* (launch/launch-routing.ts).                                             *)
(*                                                                         *)
(* The Host runs on one thread, so a handler is one action.  The registry  *)
(* is a Set of immutable objects that are replaced, never changed; each    *)
(* connection's closure keeps a reference to one of them, which goes stale *)
(* when somebody else replaces the object.  "held" says of an object that  *)
(* the closure of its socket still refers to it.                           *)
(*                                                                         *)
(* lastSeenAt is kept as an age, counted up to the first value at which    *)
(* every comparison with it has settled, so time itself is unbounded.      *)
(***************************************************************************)
EXTENDS Integers, FiniteSets

CONSTANTS
  Sockets,            \* identities of /ws/runtime connections
  Clients,            \* clientId values of hello and heartbeat payloads
  Experiences,        \* experienceId values of hello payloads
  DefaultExperience,  \* DEFAULT_EXPERIENCE_ID
  None,               \* null
  StaleAfter,         \* RUNTIME_CLIENT_STALE_AFTER_MS, in clock ticks
  CheckEvery          \* RUNTIME_PRESENCE_CHECK_INTERVAL_MS, in clock ticks

ASSUME ExperienceAssumption == DefaultExperience \in Experiences
ASSUME NoneAssumption == None \notin Clients \cup Experiences
ASSUME TimeAssumption == StaleAfter \in Nat /\ CheckEvery \in Nat \ {0}

VARIABLES
  clients,       \* RuntimeClientRegistry.#clients
  station,       \* StationStateStore.#state
  socketState,   \* readyState of each connection, "closed" before and after
  sinceCheck,    \* time since the presence timer fired
  told           \* what the Host last sent on each open connection

vars == <<clients, station, socketState, sinceCheck, told>>

AgeCap == StaleAfter + CheckEvery + 1

RuntimeClient ==
  [socket: Sockets, clientId: Clients \cup {None},
   experienceId: Experiences \cup {None},
   status: {"unregistered", "online", "stale"}, age: 0..AgeCap, held: BOOLEAN]

StationState ==
  [selectedLaunchClientId: Clients \cup {None},
   selectedExperienceId: Experiences \cup {None}]

NoSelection == [selectedLaunchClientId |-> None, selectedExperienceId |-> None]

\* MUTANT of Selection: the arguments of setLaunchSelection swapped.
SwappedSelection(e) ==
  [selectedLaunchClientId |-> e.experienceId, selectedExperienceId |-> e.clientId]

Selection(e) ==
  [selectedLaunchClientId |-> e.clientId, selectedExperienceId |-> e.experienceId]

RuntimeClientSummary ==
  [clientId: Clients, experienceId: Experiences, status: {"online", "stale"}]

NothingTold == [registered |-> None, station |-> NoSelection, list |-> {}]

TypeOK ==
  /\ clients \in SUBSET RuntimeClient
  /\ station \in StationState
  /\ socketState \in [Sockets -> {"closed", "open", "closing"}]
  /\ sinceCheck \in 0..CheckEvery
  /\ told \in [Sockets -> [registered: Clients \cup {None},
                           station: StationState,
                           list: SUBSET RuntimeClientSummary]]

-----------------------------------------------------------------------------
(* The registry's queries, over a registry S.                              *)

\* #findByClientId: at most one object, the first of the Set with that id.
\* OneEntryPerClient makes the choice of the first immaterial.
FindByClientId(S, c) ==
  LET matching == {e \in S : e.clientId = c}
  IN  IF matching = {} THEN {} ELSE {CHOOSE e \in matching : TRUE}

IsSelectable(S, c) == \E e \in FindByClientId(S, c) : e.status = "online"

ListRuntimeClients(S) ==
  {[clientId |-> e.clientId, experienceId |-> e.experienceId, status |-> e.status] :
      e \in {f \in S : f.clientId # None}}

\* The object a connection's closure refers to, if it is in the registry.
HeldBy(S, s) == {e \in S : e.socket = s /\ e.held}

OnlineDefaults(S) ==
  {e \in S : e.status = "online" /\ e.experienceId = DefaultExperience}

\* MUTANTS of SelectDefaultIfClear: never selects, selects although several
\* default clients are online.
DefaultNever(S, st) == {st}
DefaultAny(S, st) ==
  IF st.selectedLaunchClientId = None /\ OnlineDefaults(S) # {}
  THEN {Selection(e) : e \in OnlineDefaults(S)} ELSE {st}

\* #selectDefaultLaunchClientIfClear: the selections it may leave (always one).
SelectDefaultIfClear(S, st) ==
  IF st.selectedLaunchClientId = None /\ \E e \in S : OnlineDefaults(S) = {e}
  THEN {Selection(e) : e \in OnlineDefaults(S)}
  ELSE {st}

-----------------------------------------------------------------------------
(* The broadcasts that end a handler.  The station's listener sends the    *)
(* new station state and the client list when the selection changed; most  *)
(* handlers send the list in any case.  Only open sockets of the registry  *)
(* receive them; nothing more is sent on a connection that is not open.    *)

Reached(s) == socketState'[s] = "open" /\ \E e \in clients' : e.socket = s

\* MUTANT of Publish: the station's listener sends the list only.
PublishListOnly(listToo) ==
  told' = [s \in Sockets |->
    IF socketState'[s] # "open" THEN NothingTold
    ELSE IF Reached(s) /\ (listToo \/ station' # station)
         THEN [told[s] EXCEPT !.list = ListRuntimeClients(clients')] ELSE told[s]]

Publish(listToo) ==
  told' = [s \in Sockets |->
    IF socketState'[s] # "open" THEN NothingTold
    ELSE IF ~Reached(s) THEN told[s]
    ELSE [told[s] EXCEPT
            !.station = IF station' # station THEN station' ELSE @,
            !.list = IF listToo \/ station' # station
                     THEN ListRuntimeClients(clients') ELSE @]]

-----------------------------------------------------------------------------
Init ==
  /\ clients = {}
  /\ station = NoSelection
  /\ socketState = [s \in Sockets |-> "closed"]
  /\ sinceCheck = 0
  /\ told = [s \in Sockets |-> NothingTold]

\* A browser connects.  A socket that a leftover object still refers to is
\* not used again: a new connection is a new WebSocket.
Connect(s) ==
  /\ socketState[s] = "closed"
  /\ \A e \in clients : e.socket # s
  /\ socketState' = [socketState EXCEPT ![s] = "open"]
  /\ clients' = clients \cup
       {[socket |-> s, clientId |-> None, experienceId |-> None,
         status |-> "unregistered", age |-> 0, held |-> TRUE]}
  /\ told' = [told EXCEPT ![s] =
       [registered |-> None, station |-> station, list |-> ListRuntimeClients(clients)]]
  /\ UNCHANGED <<station, sinceCheck>>

\* The objects registerHello deletes as duplicates: an object of the same
\* client, unless the connection's closure refers to that very object.
NoDuplicates(s, c) == {}   \* MUTANT: hello without #closeDuplicateClient
Duplicates(s, c) == FindByClientId(clients, c) \ HeldBy(clients, s)

\* close() on the connections of the objects in S.
ClosingNone(S) == socketState   \* MUTANT: the duplicate's socket stays open
Closing(S) ==
  [t \in Sockets |-> IF socketState[t] = "open" /\ \E e \in S : e.socket = t
                     THEN "closing" ELSE socketState[t]]

\* A selected client takes the selection along to the experience it registers.
KeepExperience(new, st) == st   \* MUTANT: the selection keeps the old experience
FollowClient(new, st) ==
  IF st.selectedLaunchClientId = new.clientId THEN Selection(new) ELSE st

\* client.hello with a valid payload.  A connection that the Host is closing
\* may still deliver a hello or heartbeat that was on its way.
Hello(s, c, x) ==
  /\ socketState[s] # "closed"
  /\ LET new == [socket |-> s, clientId |-> c, experienceId |-> x,
                 status |-> "online", age |-> 0, held |-> TRUE]
     IN /\ clients' =
             (clients \ (Duplicates(s, c) \cup HeldBy(clients, s))) \cup {new}
        /\ \E st \in SelectDefaultIfClear(clients', station) :
             station' = FollowClient(new, st)
  /\ socketState' = Closing(Duplicates(s, c))
  /\ told' = [t \in Sockets |->
       IF socketState'[t] # "open" THEN NothingTold
       ELSE IF ~Reached(t) THEN told[t]
       ELSE [registered |-> IF t = s THEN c ELSE told[t].registered,
             station |-> IF station' # station THEN station' ELSE told[t].station,
             list |-> ListRuntimeClients(clients')]]
  /\ UNCHANGED sinceCheck

\* client.hello with an invalid payload: client.rejected, then close().
RejectHello(s) ==
  /\ socketState[s] = "open"
  /\ socketState' = [socketState EXCEPT ![s] = "closing"]
  /\ told' = [told EXCEPT ![s] = NothingTold]
  /\ UNCHANGED <<clients, station, sinceCheck>>

\* #replace for the sake of presence: a new object for the socket, which the
\* connection's closure does not refer to.
Replacement(e, status, age) ==
  [socket |-> e.socket, clientId |-> e.clientId, experienceId |-> e.experienceId,
   status |-> status, age |-> age, held |-> FALSE]

\* client.heartbeat.  recordHeartbeat looks the object up by clientId and
\* replaces it; no closure learns of the replacement.
Heartbeat(s, c) ==
  /\ socketState[s] # "closed"
  /\ UNCHANGED <<socketState, sinceCheck>>
  /\ \E e \in FindByClientId(clients, c) :
       /\ clients' = (clients \ {e}) \cup {Replacement(e, "online", 0)}
       /\ IF e.status # "online"
          THEN station' \in SelectDefaultIfClear(clients', station) /\ Publish(TRUE)
          ELSE UNCHANGED <<station, told>>

\* The connection is over: the browser closed it, it was lost, or a close()
\* of the Host completed.  remove() succeeds only for the object that the
\* closure refers to.
SocketClosed(s) ==
  /\ socketState[s] # "closed"
  /\ socketState' = [socketState EXCEPT ![s] = "closed"]
  /\ clients' = clients \ HeldBy(clients, s)
  /\ IF \E e \in HeldBy(clients, s) :
          e.clientId # None /\ e.clientId = station.selectedLaunchClientId
     THEN station' \in SelectDefaultIfClear(clients', NoSelection)
     ELSE UNCHANGED station
  /\ Publish(TRUE)
  /\ UNCHANGED sinceCheck

\* markStaleClients: an online object not heard of for longer than
\* StaleAfter is replaced by a stale one.
MarkedStaleLate(e) ==   \* MUTANT: off by one
  IF e.status = "online" /\ e.age > StaleAfter + 1
  THEN Replacement(e, "stale", e.age) ELSE e
NeverStale(e) == e      \* MUTANT: markStaleClients finds nobody stale
MarkedStale(e) ==
  IF e.status = "online" /\ e.age > StaleAfter
  THEN Replacement(e, "stale", e.age) ELSE e

\* The presence timer.
MarkStaleRuntimeClients ==
  /\ sinceCheck = CheckEvery
  /\ sinceCheck' = 0
  /\ clients' = {MarkedStale(e) : e \in clients}
  /\ IF /\ station.selectedLaunchClientId # None
        /\ ~IsSelectable(clients', station.selectedLaunchClientId)
     THEN station' \in SelectDefaultIfClear(clients', NoSelection)
     ELSE station' \in SelectDefaultIfClear(clients', station)
  /\ UNCHANGED socketState
  /\ Publish(clients' # clients)

\* The operator's choice in the console: an online client, or none.
SelectLaunchClient(c) ==
  /\ \E e \in FindByClientId(clients, c) :
       e.status = "online" /\ station' = Selection(e)
  /\ UNCHANGED <<clients, socketState, sinceCheck>>
  /\ Publish(FALSE)

ClearLaunchClient ==
  /\ station' = NoSelection
  /\ UNCHANGED <<clients, socketState, sinceCheck>>
  /\ Publish(FALSE)

Older(e) ==
  IF e.clientId # None /\ e.age < AgeCap THEN [e EXCEPT !.age = @ + 1] ELSE e

\* A tick of the clock.  The timer fires when it is due, not later.
Tick ==
  /\ sinceCheck < CheckEvery
  /\ sinceCheck' = sinceCheck + 1
  /\ clients' = {Older(e) : e \in clients}
  /\ UNCHANGED <<station, socketState, told>>

Operator == ClearLaunchClient \/ \E c \in Clients : SelectLaunchClient(c)

Next ==
  \/ \E s \in Sockets : Connect(s) \/ RejectHello(s) \/ SocketClosed(s)
  \/ \E s \in Sockets, c \in Clients, x \in Experiences : Hello(s, c, x)
  \/ \E s \in Sockets, c \in Clients : Heartbeat(s, c)
  \/ MarkStaleRuntimeClients
  \/ Operator
  \/ Tick

Spec == Init /\ [][Next]_vars

\* Time passes and the timer fires; a close() of the Host completes.  Nothing
\* is assumed of browsers and of the operator.
Fairness ==
  /\ WF_vars(Tick)
  /\ WF_vars(MarkStaleRuntimeClients)
  /\ \A s \in Sockets : WF_vars(socketState[s] = "closing" /\ SocketClosed(s))

FairSpec == Spec /\ Fairness
-----------------------------------------------------------------------------
(* Safety.                                                                 *)

\* registerHello, recordHeartbeat and markStaleClients delete and re-add
\* objects under references that may be stale; still the registry never
\* holds two objects for one client id, so #findByClientId is unambiguous.
OneEntryPerClient ==
  \A e, f \in clients : e.clientId # None /\ e.clientId = f.clientId => e = f

\* While the registry lists the selected client, it lists it online and with
\* the experience the station derived from it, across re-registrations
\* under another experience, staleness and displacement by another tab.
SelectionMatchesRegistry ==
  \A e \in clients :
    e.clientId # None /\ e.clientId = station.selectedLaunchClientId
      => e.status = "online" /\ e.experienceId = station.selectedExperienceId

\* Two tabs share one client id: an open connection that was told it is
\* registered is the connection that the registry lists for that client, so
\* a displaced tab is always on its way out.
RegisteredSocketIsListed ==
  \A s \in Sockets :
    socketState[s] = "open" /\ told[s].registered # None
      => \E e \in clients : e.clientId = told[s].registered /\ e.socket = s

\* Every open connection, registered or not, was last sent the station state
\* and the client list as they are now: no handler that changes them forgets
\* a broadcast, and none is cut off from broadcasts by a stale reference.
OpenSocketsUpToDate ==
  \A s \in Sockets :
    socketState[s] = "open" =>
      told[s].station = station /\ told[s].list = ListRuntimeClients(clients)

\* A client that is offered for selection was heard of within the stale
\* threshold plus one period of the presence timer.
OnlineIsRecent ==
  \A e \in clients : e.status = "online" => e.age =< StaleAfter + CheckEvery

\* Only the operator takes the selection away from a selectable client:
\* registrations, default selection, heartbeats, disconnects and the timer
\* never do.
OnlyOperatorDeselects ==
  [][\A c \in Clients :
       /\ station.selectedLaunchClientId = c
       /\ station'.selectedLaunchClientId # c
       => Operator \/ ~IsSelectable(clients', c)]_vars

\* GET /launch: the connection of the client it redirects to, if any
\* (the URL was required to be https when the hello was validated).
LaunchTargets ==
  {e.socket : e \in {f \in FindByClientId(clients, station.selectedLaunchClientId) :
                       f.status = "online" /\ f.clientId # None}}

\* docs/quest-https-launch-routing.md answers 409 for a selected client that
\* is offline, and says that the selection disappears when the client
\* disconnects: /launch redirects only to a client that is connected.
LaunchOnlyToConnected == \A s \in LaunchTargets : socketState[s] # "closed"

(* Liveness.                                                               *)

JustHeard(c) == \E e \in clients : e.clientId = c /\ e.age = 0

\* A selected client that is silent loses the selection or is heard again,
\* also when its connection is long gone and its object was left behind.
SilentSelectionEnds ==
  \A c \in Clients :
    station.selectedLaunchClientId = c /\ ~JustHeard(c)
      ~> station.selectedLaunchClientId # c \/ JustHeard(c)

SoleDefault(c) ==
  \E e \in clients : e.clientId = c /\ OnlineDefaults(clients) = {e}

\* With nothing selected, the only online client of the default experience
\* is selected, though its registration found another one in the way.
SoleDefaultIsSelected ==
  \A c \in Clients :
    station = NoSelection /\ SoleDefault(c)
      ~> station # NoSelection \/ ~SoleDefault(c)
-----------------------------------------------------------------------------
(* Registry and station together implement LaunchSelection.                *)

OnlineExperience(c) ==
  IF IsSelectable(clients, c)
  THEN (CHOOSE e \in clients : e.clientId = c).experienceId ELSE None

Promise ==
  INSTANCE LaunchSelection WITH
    online <- [c \in Clients |-> OnlineExperience(c)],
    selected <- station.selectedLaunchClientId,
    experience <- station.selectedExperienceId

\* The operator's view of handlers, timer and disconnects: the selection
\* passes on by itself only from a client that is not online to nobody or to
\* the only default client, and never stays with an offline client for good.
ImplementsLaunchSelection == Promise!FairSpec
=============================================================================
