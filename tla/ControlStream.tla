---------------------------- MODULE ControlStream ----------------------------
(***************************************************************************)
(* The public control stream: the Host's subscribers                       *)
(* (ws/control-stream-clients.ts, ws/gateway.ts), the experiences' stream  *)
(* client (lib/client/control-stream-client.ts) and the console's          *)
(* (_console/control-stream-state.svelte.ts) over ordered connections.     *)
(*                                                                         *)
(* Controls are numbered in the order the Host publishes them; 0 is the    *)
(* neutral control it starts with.  What they contain is ControlPipeline's *)
(* subject.                                                                *)
(***************************************************************************)
EXTENDS Integers, Sequences

CONSTANTS
  Pages,          \* experience pages
  Console,        \* the console's page
  Sockets,        \* <<p, i>> is the i-th WebSocket page p opens
  Scenarios,      \* bound: the sockets that may be opened
  StreamOf,       \* the stream id each page is configured with
  Streams,        \* the ids findControlStream knows
  MaxControls,    \* bound: controls published
  MaxInFlight     \* bound: messages a connection holds before the next control

Viewers == Pages \cup {Console}

ASSUME PageAssumption == Console \notin Pages
ASSUME SocketAssumption == Sockets \subseteq Viewers \X Nat
ASSUME ScenarioAssumption == Scenarios \subseteq SUBSET Sockets
ASSUME BoundAssumption == MaxControls \in Nat /\ MaxInFlight \in Nat

Nothing == -1
Null == <<>>

VARIABLES
  lastControl,   \* #lastControl
  subscribers,   \* the sockets in ControlStreamClientRegistry
  hostState,     \* each socket as the Host sees it
  disposed,      \* the gateway has been disposed of
  ready,         \* readyState of each socket in its browser
  down,          \* controls on their way to the browser
  page           \* the variables of each page

host == <<lastControl, subscribers, hostState, disposed>>
vars == <<host, ready, down, page>>

\* heard: the last control a listener of this start was called with.
\* prepared: the listener was there before the socket.  early: started again
\* before the socket of the last start had closed.
PageState ==
  [socket: Sockets \cup {Null}, listening: BOOLEAN, prepared: BOOLEAN,
   early: BOOLEAN, heard: {Nothing} \cup 0..MaxControls]

Loaded == [socket |-> Null, listening |-> FALSE, prepared |-> FALSE,
           early |-> FALSE, heard |-> Nothing]

SocketsOf(p) == {s \in Sockets : s[1] = p}
IsLive(s) == ready[s] \in {"connecting", "open"}

Init ==
  /\ lastControl = 0
  /\ subscribers = {}
  /\ hostState = [s \in Sockets |-> "none"]
  /\ disposed = FALSE
  /\ \E opens \in Scenarios :
       ready = [s \in Sockets |-> IF s \in opens THEN "unused" ELSE "closed"]
  /\ down = [s \in Sockets |-> <<>>]
  /\ page = [p \in Viewers |-> Loaded]

-----------------------------------------------------------------------------
(* The Host.                                                               *)

NoWelcome == <<>>   \* MUTANT of Welcome: a subscriber waits for the next control
Welcome == <<lastControl>>

IsKnownStream(p) == StreamOf[p] \in Streams

HostAccepts(s) ==
  /\ ready[s] = "connecting" /\ hostState[s] = "none"
  /\ IsKnownStream(s[1]) /\ ~disposed
  /\ hostState' = [hostState EXCEPT ![s] = "open"]
  /\ subscribers' = subscribers \cup {s}
  /\ down' = [down EXCEPT ![s] = Welcome]
  /\ UNCHANGED <<lastControl, disposed, ready, page>>

\* No such stream, or the WebSocket server is closed: the upgrade fails.
HostRefuses(s) ==
  /\ ready[s] = "connecting" /\ hostState[s] = "none"
  /\ ~IsKnownStream(s[1]) \/ disposed
  /\ hostState' = [hostState EXCEPT ![s] = "closed"]
  /\ UNCHANGED <<lastControl, subscribers, disposed, ready, down, page>>

Publish ==
  /\ lastControl < MaxControls
  /\ \A s \in subscribers : Len(down[s]) < MaxInFlight
  /\ lastControl' = lastControl + 1
  /\ down' = [s \in Sockets |->
       IF s \in subscribers /\ hostState[s] = "open" /\ IsLive(s)
       THEN Append(down[s], lastControl') ELSE down[s]]
  /\ UNCHANGED <<subscribers, hostState, disposed, ready, page>>

\* The browser closed the connection, or it is lost.
HostCloses(s) ==
  /\ hostState[s] \in {"open", "closing"}
  /\ hostState' = [hostState EXCEPT ![s] = "closed"]
  /\ subscribers' = subscribers \ {s}
  /\ UNCHANGED <<lastControl, disposed, ready, down, page>>

CloseAll ==
  /\ ~disposed
  /\ disposed' = TRUE
  /\ hostState' = [s \in Sockets |-> IF s \in subscribers THEN "closing" ELSE hostState[s]]
  /\ subscribers' = {}
  /\ UNCHANGED <<lastControl, ready, down, page>>

-----------------------------------------------------------------------------
(* The browser.                                                            *)

NextSocket(p) ==
  {s \in SocketsOf(p) : /\ ready[s] = "unused"
                        /\ \A t \in SocketsOf(p) : ready[t] = "unused" => s[2] =< t[2]}

\* start() while a socket is referred to does nothing.
Start(p) ==
  /\ p # Console /\ page[p].socket = Null
  /\ \E s \in NextSocket(p) :
       /\ ready' = [ready EXCEPT ![s] = "connecting"]
       /\ page' = [page EXCEPT ![p] =
            [socket |-> s, listening |-> @.listening, prepared |-> @.listening,
             early |-> @.early \/ \E t \in SocketsOf(p) : ready[t] = "closing",
             heard |-> @.heard]]
  /\ UNCHANGED <<host, down>>

Listener(p, listening, prepared, heard) ==
  [socket |-> page[p].socket, listening |-> listening, prepared |-> prepared,
   early |-> page[p].early, heard |-> heard]

OnOrientation(p) ==
  /\ p # Console /\ ~page[p].listening
  /\ page' = [page EXCEPT ![p] = Listener(p, TRUE, @.prepared, Nothing)]
  /\ UNCHANGED <<host, ready, down>>

\* The function that onOrientation has returned.
Unsubscribe(p) ==
  /\ p # Console /\ page[p].listening
  /\ page' = [page EXCEPT ![p] = Listener(p, FALSE, FALSE, Nothing)]
  /\ UNCHANGED <<host, ready, down>>

NoClose(p) == {}   \* MUTANT of Closed: dispose() forgets the socket only
\* The socket that dispose() closes, if the client still refers to one.
Closed(p) == {s \in SocketsOf(p) : s = page[p].socket /\ IsLive(s)}

\* A browser hands on nothing from a socket it is closing.
Dispose(p) ==
  /\ p # Console /\ (page[p].socket # Null \/ page[p].listening)
  /\ ready' = [s \in Sockets |-> IF s \in Closed(p) THEN "closing" ELSE ready[s]]
  /\ down' = [s \in Sockets |-> IF s \in Closed(p) THEN <<>> ELSE down[s]]
  /\ page' = [page EXCEPT ![p] = [Loaded EXCEPT !.early = page[p].early]]
  /\ UNCHANGED host

\* The console listens with its only socket, from the time it is mounted.
Mount ==
  /\ page[Console] = Loaded
  /\ \E s \in NextSocket(Console) :
       /\ ready' = [ready EXCEPT ![s] = "connecting"]
       /\ page' = [page EXCEPT ![Console] =
            [socket |-> s, listening |-> TRUE, prepared |-> TRUE, early |-> FALSE, heard |-> Nothing]]
  /\ UNCHANGED <<host, down>>

OpenEvent(s) ==
  /\ ready[s] = "connecting" /\ hostState[s] \in {"open", "closing"}
  /\ ready' = [ready EXCEPT ![s] = "open"]
  /\ UNCHANGED <<host, down, page>>

Message(s) ==
  /\ ready[s] = "open" /\ down[s] # <<>>
  /\ down' = [down EXCEPT ![s] = Tail(@)]
  /\ page' = IF page[s[1]].listening
             THEN [page EXCEPT ![s[1]] =
                     Listener(s[1], TRUE, @.prepared, Head(down[s]))]
             ELSE page
  /\ UNCHANGED <<host, ready>>

\* The close event of whichever socket.  Neither client tells its listeners,
\* connects again or takes back the last control.
Forgotten(p) ==
  [socket |-> Null, listening |-> page[p].listening, prepared |-> page[p].prepared,
   early |-> page[p].early, heard |-> page[p].heard]

CloseEvent(s) ==
  /\ IsLive(s) \/ ready[s] = "closing"
  /\ ready' = [ready EXCEPT ![s] = "closed"]
  /\ down' = [down EXCEPT ![s] = <<>>]
  /\ page' = [page EXCEPT ![s[1]] = Forgotten(s[1])]
  /\ UNCHANGED host

\* The page is closed or loaded anew: the browser closes all of its sockets.
Reload(p) ==
  /\ page[p] # Loaded
  /\ page' = [page EXCEPT ![p] = Loaded]
  /\ ready' = [s \in Sockets |->
       IF s \in SocketsOf(p) /\ ready[s] # "unused" THEN "closed" ELSE ready[s]]
  /\ down' = [s \in Sockets |-> IF s \in SocketsOf(p) THEN <<>> ELSE down[s]]
  /\ UNCHANGED host

-----------------------------------------------------------------------------
Next ==
  \/ Publish \/ CloseAll \/ Mount
  \/ \E s \in Sockets :
       \/ HostAccepts(s) \/ HostRefuses(s) \/ HostCloses(s)
       \/ OpenEvent(s) \/ Message(s) \/ CloseEvent(s)
  \/ \E p \in Viewers : Start(p) \/ OnOrientation(p) \/ Unsubscribe(p) \/ Dispose(p) \/ Reload(p)

Spec == Init /\ [][Next]_vars

-----------------------------------------------------------------------------
(* Properties.                                                             *)

TypeOK ==
  /\ lastControl \in 0..MaxControls
  /\ subscribers \subseteq Sockets
  /\ hostState \in [Sockets -> {"none", "open", "closing", "closed"}]
  /\ disposed \in BOOLEAN
  /\ ready \in [Sockets -> {"unused", "connecting", "open", "closing", "closed"}]
  /\ down \in [Sockets -> Seq(0..MaxControls)]
  /\ page \in [Viewers -> PageState]

\* Between two frames of the controller, which may be seconds apart, nothing
\* is on its way.  A page that is connected then has the Host's control of
\* this moment, also if it connected after the last one was published:
\* provided it listened before it started.  A later listener has none until
\* the next one, and after an early restart a socket may be open to which
\* the client does not refer.
ListenersAreCurrent ==
  \A p \in Viewers : \A s \in SocketsOf(p) :
    /\ ready[s] = "open" /\ hostState[s] = "open" /\ down[s] = <<>>
    /\ ~page[p].early
    /\ page[p].listening /\ (page[p].prepared \/ page[p].heard # Nothing)
    => page[p].heard = lastControl

\* A page never hears a control that is older than one it has heard, across
\* losses of the connection and restarts.  Not so after an early restart: the
\* close event of the disposed socket clears the reference to the new one,
\* and a further start adds a second connection with an order of its own.
HeardInOrder ==
  [][\A p \in Viewers :
       page[p].listening /\ page'[p].listening /\ ~page[p].early
         => page'[p].heard >= page[p].heard]_vars

=============================================================================
