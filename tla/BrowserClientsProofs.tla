------------------------- MODULE BrowserClientsProofs -------------------------
(* Theorems about BrowserClients, for every value of its constants.        *)
EXTENDS BrowserClients, TLAPS

\* The Host's own theorems, for the constants it has here.
HostProofs == INSTANCE RuntimeRegistryProofs WITH Experiences <- Slugs, None <- Null

-----------------------------------------------------------------------------
(* What a page sends.                                                      *)

\* A text is what is read from it, unless it is empty or no string.
LEMMA ReadStringIs ==
  ASSUME NEW v \in JsonValues
  PROVE  /\ ReadString(v) \subseteq Texts \ {Empty, Null}
         /\ \A c, d \in ReadString(v) : c = d
BY NullAssumption DEF ReadString, JsonValues, JsonString, Absent, JsonNull

\* Every page is configured with JSON values, and its clientId is a client.
LEMMA OptionFacts ==
  ASSUME NEW o \in Options
  PROVE  /\ o.clientId \in JsonValues
         /\ ReadString(o.clientId) \subseteq Clients
BY OptionAssumption DEF Clients

LEMMA ClientFacts == Clients \subseteq Texts \ {Empty, Null}
BY OptionFacts, ReadStringIs DEF Clients

\* The assumptions of RuntimeRegistry hold for the Host of this module.
LEMMA HostAssumptions ==
  /\ HostProofs!ExperienceAssumption /\ HostProofs!NoneAssumption /\ HostProofs!TimeAssumption
BY ClientFacts, HostAssumption, IntervalAssumption, NullAssumption, TextAssumption
DEF HostProofs!ExperienceAssumption, HostProofs!NoneAssumption, HostProofs!TimeAssumption

HelloMessage(p) == [type |-> "client.hello", payload |-> HelloOf(p)]
HeartbeatMessage(p) ==
  [type |-> "client.heartbeat", payload |-> [clientId |-> HelloOf(p).clientId]]

\* The Host of this module and the Host of the theorems are one.
LEMMA SameInit == Host!Init <=> HostProofs!Init
BY DEF Host!Init, HostProofs!Init, Host!NoSelection, HostProofs!NoSelection, Host!NothingTold,
       HostProofs!NothingTold

LEMMA SameNext == [Host!Next]_(Host!vars) <=> [HostProofs!Next]_(HostProofs!vars)
BY DEF Host!vars, HostProofs!vars, Host!Next, HostProofs!Next, Host!Connect,
       HostProofs!Connect, Host!RejectHello, HostProofs!RejectHello, Host!SocketClosed,
       HostProofs!SocketClosed, Host!Hello, HostProofs!Hello, Host!Heartbeat,
       HostProofs!Heartbeat, Host!MarkStaleRuntimeClients,
       HostProofs!MarkStaleRuntimeClients, Host!Operator, HostProofs!Operator,
       Host!ClearLaunchClient, HostProofs!ClearLaunchClient, Host!SelectLaunchClient,
       HostProofs!SelectLaunchClient, Host!Tick, HostProofs!Tick, Host!AgeCap,
       HostProofs!AgeCap, Host!FindByClientId, HostProofs!FindByClientId, Host!IsSelectable,
       HostProofs!IsSelectable, Host!ListRuntimeClients, HostProofs!ListRuntimeClients,
       Host!HeldBy, HostProofs!HeldBy, Host!OnlineDefaults, HostProofs!OnlineDefaults,
       Host!SelectDefaultIfClear, HostProofs!SelectDefaultIfClear, Host!Reached,
       HostProofs!Reached, Host!Publish, HostProofs!Publish, Host!NoSelection,
       HostProofs!NoSelection, Host!NothingTold, HostProofs!NothingTold, Host!Selection,
       HostProofs!Selection, Host!Duplicates, HostProofs!Duplicates, Host!Closing,
       HostProofs!Closing, Host!FollowClient, HostProofs!FollowClient, Host!Replacement,
       HostProofs!Replacement, Host!MarkedStale, HostProofs!MarkedStale, Host!Older,
       HostProofs!Older

LEMMA SameSpec == Host!Spec => HostProofs!Spec
BY SameInit, SameNext, PTL DEF Host!Spec, HostProofs!Spec

-----------------------------------------------------------------------------
(* Sequences of messages.                                                  *)

LEMMA SeqFacts ==
  ASSUME NEW S, NEW q \in Seq(S)
  PROVE  /\ Len(q) \in Nat
         /\ \A i \in 1..Len(q) : q[i] \in S
         /\ q # <<>> => /\ Len(q) > 0 /\ Head(q) \in S /\ Head(q) = q[1]
                        /\ Tail(q) \in Seq(S) /\ Len(Tail(q)) = Len(q) - 1
                        /\ \A i \in 1..Len(q) - 1 : Tail(q)[i] = q[i + 1]
OBVIOUS

LEMMA ConcatFacts ==
  ASSUME NEW S, NEW q \in Seq(S), NEW r \in Seq(S)
  PROVE  /\ q \o r \in Seq(S) /\ Len(q \o r) = Len(q) + Len(r)
         /\ \A i \in 1..Len(q) : (q \o r)[i] = q[i]
         /\ \A i \in 1..Len(r) : (q \o r)[Len(q) + i] = r[i]
OBVIOUS

LEMMA AppendFacts ==
  ASSUME NEW S, NEW q \in Seq(S), NEW m \in S
  PROVE  /\ Append(q, m) \in Seq(S) /\ Len(Append(q, m)) = Len(q) + 1
         /\ \A i \in 1..Len(q) : Append(q, m)[i] = q[i]
         /\ Append(q, m)[Len(q) + 1] = m
OBVIOUS

LEMMA EmptyIsSeq == ASSUME NEW S PROVE <<>> \in Seq(S)
OBVIOUS

LEMMA ConcatEmpty == ASSUME NEW S, NEW q \in Seq(S) PROVE q \o <<>> = q
OBVIOUS

-----------------------------------------------------------------------------
(* Types.                                                                  *)

UpMessage ==
  {[type |-> "client.hello", payload |-> o] : o \in Options}
  \cup {[type |-> "client.heartbeat", payload |-> [clientId |-> o.clientId]] : o \in Options}

PagesOK ==
  /\ page \in [Pages -> PageState] /\ ready \in [Sockets -> ReadyStates]
  /\ options \in [Pages -> Options]

\* A page sends hello and heartbeat with its own clientId, the console nothing.
OwnMessages ==
  /\ up \in [Sockets -> Seq(UpMessage)]
  /\ \A s \in Sockets : \A i \in 1..Len(up[s]) :
       s[1] \in Pages /\ up[s][i] \in {HelloMessage(s[1]), HeartbeatMessage(s[1])}

LEMMA SocketFacts ==
  ASSUME NEW s \in Sockets
  PROVE  s # Null /\ s[1] \in Pages \cup {Console} /\ (s[1] \in Pages <=> s[1] # Console)
BY SocketAssumption, PageAssumption, HostAssumption

LEMMA PagesInit == Init => PagesOK
BY ScenarioAssumption, IntervalAssumption
DEF Init, PagesOK, PageState, Unloaded, NoBeat, ReadyStates

LEMMA OptionsStay == [Next]_vars => UNCHANGED options
BY DEF Next, vars, HostAccepts, HostReceives, HostCloses, OpenEvent, PageMessage,
       ConsoleMessage, CloseEvent, Start, Dispose, HeartbeatTimer, UserLoads, UserLeaves,
       LoadConsole, UnloadConsole, PresenceTimer, OperatorChooses, Tick

LEMMA LeaveKeepsTypes ==
  ASSUME PagesOK, NEW p \in Pages, Leave(p)
  PROVE  page' \in [Pages -> PageState] /\ ready' \in [Sockets -> ReadyStates]
<1>1. Unloaded \in PageState
  BY IntervalAssumption DEF Unloaded, PageState, NoBeat
<1> QED BY <1>1 DEF Leave, PagesOK, ReadyStates

\* A start that opens a connection.
LEMMA StartFacts ==
  ASSUME PagesOK, NEW p \in Pages, Start(p), page[p].socket = Null
  PROVE  \E s \in SocketsOf(p) :
           /\ ready[s] = "unused" /\ ready' = [ready EXCEPT ![s] = "connecting"]
           /\ page' = [page EXCEPT ![p] = page'[p]] /\ page'[p] \in PageState
           /\ page'[p].at = "experience" /\ page'[p].listening
           /\ page'[p].socket = s /\ page'[p].beat = page[p].beat
           /\ ~page'[p].early =>
                ~page[p].early /\ \A t \in SocketsOf(p) : ready[t] \in {"unused", "closed"}
<1> DEFINE again == page[p].early \/ \E t \in SocketsOf(p) : ready[t] \notin {"unused", "closed"}
<1>1. PICK s \in NextSocket(p) :
        /\ page' = [page EXCEPT ![p] = PageWith(p, s, page[p].beat, TRUE, again)]
        /\ ready' = [ready EXCEPT ![s] = "connecting"]
  BY DEF Start
<1>2. s \in SocketsOf(p) /\ s \in Sockets /\ ready[s] = "unused"
  BY DEF NextSocket, SocketsOf
<1>3. page[p].at = "experience" /\ page[p] \in PageState
  BY DEF Start, PagesOK
<1>4. again \in BOOLEAN
  BY Zenon
<1>5. ~again =>
        ~page[p].early /\ \A t \in SocketsOf(p) : ready[t] \in {"unused", "closed"}
  OBVIOUS
<1> HIDE DEF again
<1>6. PageWith(p, s, page[p].beat, TRUE, again) \in PageState
  BY <1>2, <1>3, <1>4 DEF PageWith, PageState
<1>7. page'[p] = PageWith(p, s, page[p].beat, TRUE, again)
  BY <1>1 DEF PagesOK
<1>8. /\ page'[p].at = "experience" /\ page'[p].listening = TRUE
      /\ page'[p].socket = s /\ page'[p].beat = page[p].beat /\ page'[p].early = again
  BY <1>3, <1>7 DEF PageWith
<1> QED BY <1>1, <1>2, <1>5, <1>6, <1>7, <1>8

LEMMA PagesStep == PagesOK /\ [Next]_vars => PagesOK'
<1> SUFFICES ASSUME PagesOK, [Next]_vars PROVE PagesOK'
  OBVIOUS
<1>1. options' \in [Pages -> Options]
  BY OptionsStay DEF PagesOK
<1>2. 0 \in NoBeat..HeartbeatEvery /\ NoBeat \in NoBeat..HeartbeatEvery
  BY IntervalAssumption DEF NoBeat
<1>3. ASSUME NEW s \in Sockets, HostAccepts(s) PROVE PagesOK'
  BY <1>1, <1>3 DEF HostAccepts, PagesOK, ReadyStates
<1>4. ASSUME UNCHANGED <<page, ready>> PROVE PagesOK'
  BY <1>1, <1>4 DEF PagesOK
<1>5. ASSUME NEW s \in Sockets, OpenEvent(s) PROVE PagesOK'
  BY <1>1, <1>5 DEF OpenEvent, PagesOK, ReadyStates
<1>6. ASSUME NEW s \in Sockets, PageMessage(s) PROVE PagesOK'
  <2>1. s[1] \in Pages
    BY <1>6, SocketFacts DEF PageMessage
  <2>2. CASE Leave(s[1])
    BY <1>1, <2>1, <2>2, LeaveKeepsTypes DEF PagesOK
  <2>3. CASE page' = [page EXCEPT ![s[1]].beat = 0] /\ UNCHANGED ready
    BY <1>1, <1>2, <2>1, <2>3 DEF PagesOK, PageState
  <2>4. CASE UNCHANGED page /\ ready' = ClosingCurrent(s[1])
    BY <1>1, <2>4 DEF PagesOK, ClosingCurrent, ReadyStates
  <2> QED BY <1>4, <1>6, <2>2, <2>3, <2>4 DEF PageMessage
<1>7. ASSUME NEW s \in Sockets, CloseEvent(s) PROVE PagesOK'
  <2>1. ready' \in [Sockets -> ReadyStates]
    BY <1>7 DEF CloseEvent, PagesOK, ReadyStates
  <2>2. CASE s[1] = Console
    BY <1>1, <1>7, <2>1, <2>2 DEF CloseEvent, PagesOK
  <2>3. CASE s[1] \in Pages
    <3>1. PageWith(s[1], Null, NoBeat, page[s[1]].listening, page[s[1]].early) \in PageState
      BY <1>2, <2>3 DEF PageWith, PageState, PagesOK
    <3> QED BY <1>1, <1>7, <2>1, <2>3, <3>1, SocketFacts DEF CloseEvent, PagesOK
  <2> QED BY <2>2, <2>3, SocketFacts
<1>8. ASSUME NEW p \in Pages, Start(p) PROVE PagesOK'
  <2>1. CASE page[p].socket # Null
    <3>1. page' = [page EXCEPT ![p].listening = TRUE] /\ UNCHANGED <<ready, options>>
      BY <1>8, <2>1 DEF Start
    <3>2. [page[p] EXCEPT !.listening = TRUE] \in PageState
      BY DEF PagesOK, PageState
    <3> QED BY <3>1, <3>2 DEF PagesOK
  <2>2. CASE page[p].socket = Null
    <3>1. PICK s \in Sockets :
            /\ page' = [page EXCEPT ![p] = page'[p]]
            /\ ready' = [ready EXCEPT ![s] = "connecting"]
            /\ page'[p] \in PageState
      BY <1>8, <2>2, StartFacts DEF SocketsOf
    <3> QED BY <1>1, <3>1 DEF PagesOK, ReadyStates
  <2> QED BY <2>1, <2>2
<1>9. ASSUME NEW p \in Pages, Dispose(p) PROVE PagesOK'
  <2>1. PageWith(p, Null, NoBeat, FALSE, page[p].early) \in PageState
    BY <1>2 DEF PageWith, PageState, PagesOK
  <2> QED BY <1>1, <1>9, <2>1 DEF Dispose, ClosingCurrent, PagesOK, ReadyStates
<1>10. ASSUME NEW p \in Pages, HeartbeatTimer(p) PROVE PagesOK'
  BY <1>1, <1>2, <1>10 DEF HeartbeatTimer, PagesOK, PageState
<1>11. ASSUME NEW p \in Pages, UserLoads(p) PROVE PagesOK'
  <2>1. Loaded \in PageState
    BY <1>2 DEF Loaded, Unloaded, PageState
  <2> QED BY <1>1, <1>11, <2>1 DEF UserLoads, PagesOK
<1>12. ASSUME NEW p \in Pages, UserLeaves(p) PROVE PagesOK'
  BY <1>1, <1>12, LeaveKeepsTypes DEF UserLeaves, PagesOK
<1>13. CASE LoadConsole
  BY <1>1, <1>13 DEF LoadConsole, PagesOK, ReadyStates, NextSocket, SocketsOf
<1>14. CASE UnloadConsole
  BY <1>1, <1>14 DEF UnloadConsole, PagesOK, ReadyStates
<1>15. CASE Tick
  <2>1. ASSUME NEW p \in Pages, page[p].beat # NoBeat
        PROVE  [page[p] EXCEPT !.beat = @ + 1] \in PageState
    <3>1. page[p].beat \in Int /\ page[p].beat < HeartbeatEvery /\ page[p].beat >= NoBeat
      BY <1>15, IntervalAssumption DEF Tick, NothingOverdue, PagesOK, PageState, NoBeat
    <3>2. page[p].beat + 1 \in NoBeat..HeartbeatEvery
      BY <3>1, IntervalAssumption DEF NoBeat
    <3> QED BY <3>2 DEF PagesOK, PageState
  <2> QED BY <1>1, <1>15, <2>1 DEF Tick, PagesOK
<1> QED
  BY <1>3, <1>4, <1>5, <1>6, <1>7, <1>8, <1>9, <1>10, <1>11, <1>12, <1>13, <1>14, <1>15
  DEF Next, vars, HostReceives, HostCloses, ConsoleMessage, PresenceTimer, OperatorChooses

-----------------------------------------------------------------------------
(* What is on its way to the Host, and the Host's steps.                   *)

\* A connection that carries messages to the Host loses them, loses the first
\* of them to the Host, or gets one more of its page.
UpChanges(s) ==
  \/ up'[s] \in {up[s], <<>>}
  \/ up[s] # <<>> /\ up'[s] = Tail(up[s])
  \/ /\ s[1] \in Pages
     /\ \E m \in {HelloMessage(s[1]), HeartbeatMessage(s[1])} : up'[s] = Append(up[s], m)

LEMMA UpStep ==
  ASSUME OwnMessages, [Next]_vars
  PROVE  up' = [s \in Sockets |-> up'[s]] /\ \A s \in Sockets : UpChanges(s)
<1>1. CASE UNCHANGED up
  BY <1>1 DEF OwnMessages, UpChanges
<1>2. ASSUME NEW s \in Sockets, HostReceives(s)
      PROVE  up' = [t \in Sockets |-> up'[t]] /\ \A t \in Sockets : UpChanges(t)
  BY <1>2 DEF HostReceives, OwnMessages, UpChanges
<1>3. ASSUME NEW s \in Sockets, HostCloses(s)
      PROVE  up' = [t \in Sockets |-> up'[t]] /\ \A t \in Sockets : UpChanges(t)
  BY <1>3 DEF HostCloses, OwnMessages, UpChanges
<1>4. ASSUME NEW s \in Sockets, OpenEvent(s)
      PROVE  up' = [t \in Sockets |-> up'[t]] /\ \A t \in Sockets : UpChanges(t)
  <2>1. \A t \in Sockets : \/ up'[t] = up[t]
                           \/ /\ s[1] # Console /\ t[1] = s[1]
                              /\ up'[t] = Append(up[t], HelloMessage(s[1]))
    BY <1>4 DEF OpenEvent, Sending, HelloMessage, Current, SocketsOf
  <2> QED BY <1>4, <2>1, SocketFacts DEF OpenEvent, UpChanges
<1>5. ASSUME NEW p \in Pages, HeartbeatTimer(p)
      PROVE  up' = [t \in Sockets |-> up'[t]] /\ \A t \in Sockets : UpChanges(t)
  <2>1. \A t \in Sockets : \/ up'[t] = up[t]
                           \/ t[1] = p /\ up'[t] = Append(up[t], HeartbeatMessage(p))
    BY <1>5 DEF HeartbeatTimer, Sending, HeartbeatMessage, Current, SocketsOf
  <2> QED BY <1>5, <2>1 DEF HeartbeatTimer, UpChanges
<1> QED
  BY <1>1, <1>2, <1>3, <1>4, <1>5
  DEF Next, vars, HostAccepts, PageMessage, ConsoleMessage, CloseEvent, Start, Dispose,
      UserLoads, UserLeaves, LoadConsole, UnloadConsole, PresenceTimer, OperatorChooses, Tick

LEMMA MessageTypes ==
  ASSUME PagesOK, NEW p \in Pages
  PROVE  /\ HelloOf(p) \in Options
         /\ HelloMessage(p) \in UpMessage /\ HeartbeatMessage(p) \in UpMessage
BY DEF PagesOK, HelloOf, HelloMessage, HeartbeatMessage, UpMessage

LEMMA OwnStep == PagesOK /\ OwnMessages /\ [Next]_vars => OwnMessages'
<1> SUFFICES ASSUME PagesOK, OwnMessages, [Next]_vars PROVE OwnMessages'
  OBVIOUS
<1>1. \A p \in Pages : /\ HelloMessage(p)' = HelloMessage(p)
                       /\ HeartbeatMessage(p)' = HeartbeatMessage(p)
  BY OptionsStay DEF HelloMessage, HeartbeatMessage, HelloOf
<1>2. ASSUME NEW s \in Sockets
      PROVE  /\ up'[s] \in Seq(UpMessage)
             /\ \A i \in 1..Len(up'[s]) :
                  s[1] \in Pages /\ up'[s][i] \in {HelloMessage(s[1]), HeartbeatMessage(s[1])}
  <2>1. up[s] \in Seq(UpMessage) /\ UpChanges(s)
    BY UpStep DEF OwnMessages
  <2>2. CASE up'[s] = up[s]
    BY <2>1, <2>2 DEF OwnMessages
  <2>3. CASE up'[s] = <<>>
    BY <2>3, EmptyIsSeq
  <2>4. CASE up[s] # <<>> /\ up'[s] = Tail(up[s])
    BY <2>1, <2>4, SeqFacts DEF OwnMessages
  <2>5. ASSUME s[1] \in Pages, NEW m \in {HelloMessage(s[1]), HeartbeatMessage(s[1])},
               up'[s] = Append(up[s], m)
        PROVE  /\ up'[s] \in Seq(UpMessage)
               /\ \A i \in 1..Len(up'[s]) :
                    up'[s][i] \in {HelloMessage(s[1]), HeartbeatMessage(s[1])}
    <3>1. m \in UpMessage
      BY <2>5, MessageTypes
    <3>2. /\ up'[s] \in Seq(UpMessage) /\ Len(up'[s]) = Len(up[s]) + 1
          /\ \A i \in 1..Len(up[s]) : up'[s][i] = up[s][i]
          /\ up'[s][Len(up[s]) + 1] = m
      BY <2>1, <2>5, <3>1, AppendFacts
    <3>3. Len(up[s]) \in Nat
      BY <2>1, SeqFacts
    <3> QED BY <2>5, <3>2, <3>3 DEF OwnMessages
  <2> QED BY <2>1, <2>2, <2>3, <2>4, <2>5 DEF UpChanges
<1> QED BY <1>1, <1>2, UpStep DEF OwnMessages

\* What the Host reads next on a connection.
LEMMA HeadFacts ==
  ASSUME OwnMessages, NEW s \in Sockets, up[s] # <<>>
  PROVE  /\ s[1] \in Pages
         /\ \/ Head(up[s]) = HelloMessage(s[1])
            \/ Head(up[s]) = HeartbeatMessage(s[1])
BY SeqFacts DEF OwnMessages

\* What the Host does with it.
LEMMA ReceivedIs ==
  ASSUME PagesOK, OwnMessages, NEW s \in Sockets, HostReceives(s)
  PROVE  /\ s[1] \in Pages
         /\ \/ \E v \in ValidateClientHello(HelloOf(s[1])) :
                 /\ v.clientId \in Clients /\ v.experienceId \in Slugs
                 /\ Host!Hello(s, v.clientId, v.experienceId)
                 /\ HostSends(s, IF socketState'[s] = "open"
                                 THEN <<RegisteredMessage(v.clientId, station')>> ELSE <<>>)
            \/ Host!RejectHello(s) /\ HostSends(s, <<[type |-> "client.rejected"]>>)
            \/ \E c \in ReadString(HelloOf(s[1]).clientId) :
                 /\ c \in Clients
                 /\ Head(up[s]) = HeartbeatMessage(s[1])
                 /\ \/ Host!Heartbeat(s, c) /\ HostSends(s, <<>>)
                    \/ /\ ~\E e \in clients : e.clientId = c
                       /\ UNCHANGED <<host, down>>
            \/ /\ UNCHANGED <<host, down>>
               /\ Head(up[s]) = HeartbeatMessage(s[1]) => ReadString(HelloOf(s[1]).clientId) = {}
<1>1. up[s] # <<>>
  BY DEF HostReceives
<1>2. s[1] \in Pages /\ HelloOf(s[1]) \in Options
  BY <1>1, HeadFacts, MessageTypes
<1>3. CASE Head(up[s]) = HelloMessage(s[1])
  <2>1. Head(up[s]).type = "client.hello" /\ Head(up[s]).payload = HelloOf(s[1])
    BY <1>3 DEF HelloMessage
  <2>2. \A v \in ValidateClientHello(HelloOf(s[1])) :
          v.clientId \in Clients /\ v.experienceId \in Slugs
    BY <1>2, OptionFacts DEF ValidateClientHello, ReadSlug
  <2>3. Head(up[s]) # HeartbeatMessage(s[1])
    BY <2>1 DEF HeartbeatMessage
  <2> QED BY <1>2, <2>1, <2>2, <2>3 DEF HostReceives
<1>4. CASE Head(up[s]) = HeartbeatMessage(s[1])
  <2>1. /\ Head(up[s]).type = "client.heartbeat"
        /\ Head(up[s]).payload = [clientId |-> HelloOf(s[1]).clientId]
    BY <1>4 DEF HeartbeatMessage
  <2> DEFINE payload == Head(up[s]).payload
  <2>2. payload.clientId = HelloOf(s[1]).clientId
    BY <2>1
  <2> HIDE DEF payload
  <2>3. ValidateClientHeartbeat(payload) = [clientId: ReadString(HelloOf(s[1]).clientId)]
    BY <2>2, Zenon DEF ValidateClientHeartbeat
  <2>4. CASE \E v \in ValidateClientHeartbeat(payload) :
               IF \E e \in clients : e.clientId = v.clientId
               THEN Host!Heartbeat(s, v.clientId) /\ HostSends(s, <<>>)
               ELSE UNCHANGED <<host, down>>
    <3>1. PICK v \in ValidateClientHeartbeat(payload) :
            IF \E e \in clients : e.clientId = v.clientId
            THEN Host!Heartbeat(s, v.clientId) /\ HostSends(s, <<>>)
            ELSE UNCHANGED <<host, down>>
      BY <2>4
    <3>2. v.clientId \in ReadString(HelloOf(s[1]).clientId) /\ v.clientId \in Clients
      BY <1>2, <2>3, OptionFacts
    <3> QED BY <1>2, <1>4, <3>1, <3>2
  <2>5. CASE ValidateClientHeartbeat(payload) = {} /\ UNCHANGED <<host, down>>
    <3>1. ReadString(HelloOf(s[1]).clientId) = {}
      <4> SUFFICES ASSUME NEW c \in ReadString(HelloOf(s[1]).clientId) PROVE FALSE
        OBVIOUS
      <4>1. [clientId |-> c] \in [clientId: ReadString(HelloOf(s[1]).clientId)]
        OBVIOUS
      <4> QED BY <2>3, <2>5, <4>1
    <3> QED BY <1>2, <2>5, <3>1
  <2> QED BY <2>1, <2>4, <2>5 DEF HostReceives, payload
<1> QED BY <1>1, <1>3, <1>4, HeadFacts

\* Every step is a step of the Host, or none of its steps.
LEMMA HostStep == PagesOK /\ OwnMessages /\ [Next]_vars => [Host!Next]_(Host!vars)
<1> SUFFICES ASSUME PagesOK, OwnMessages, [Next]_vars PROVE [Host!Next]_(Host!vars)
  OBVIOUS
<1>1. ASSUME NEW s \in Sockets, HostAccepts(s) PROVE Host!Next
  BY <1>1 DEF HostAccepts, Host!Next
<1>2. ASSUME NEW s \in Sockets, HostReceives(s) PROVE [Host!Next]_(Host!vars)
  BY <1>2, ReceivedIs DEF Host!Next, Host!vars, host
<1>3. ASSUME NEW s \in Sockets, HostCloses(s) PROVE Host!Next
  BY <1>3 DEF HostCloses, Host!Next
<1>4. CASE PresenceTimer \/ OperatorChooses \/ Tick
  BY <1>4 DEF PresenceTimer, OperatorChooses, Tick, Host!Next, Host!Operator
<1>5. ASSUME UNCHANGED host PROVE UNCHANGED Host!vars
  BY <1>5 DEF host, Host!vars
<1> QED
  BY <1>1, <1>2, <1>3, <1>4, <1>5
  DEF Next, vars, OpenEvent, PageMessage, ConsoleMessage, CloseEvent, Start, Dispose,
      HeartbeatTimer, UserLoads, UserLeaves, LoadConsole, UnloadConsole

LEMMA OwnInit == Init => OwnMessages
BY EmptyIsSeq DEF Init, OwnMessages

\* Browsers, messages and the console run the Host as RuntimeRegistry has it:
\* whatever is proved of the registry holds with its clients around it.
THEOREM RunsTheRegistry == Spec => Host!Spec
<1>1. Init => Host!Init
  BY DEF Init
<1>2. PagesOK /\ OwnMessages /\ [Next]_vars => PagesOK' /\ OwnMessages'
  BY PagesStep, OwnStep
<1> QED BY <1>1, <1>2, PagesInit, OwnInit, HostStep, PTL DEF Spec, Host!Spec

-----------------------------------------------------------------------------
(* What the registry's theorems say of the Host here.                      *)

PresenceShape ==
  \A e \in clients :
    /\ e.clientId = Null <=> e.status = "unregistered"
    /\ e.clientId = Null <=> e.experienceId = Null

HostInv ==
  /\ Host!TypeOK /\ PresenceShape
  /\ Host!OneEntryPerClient /\ Host!RegisteredSocketIsListed /\ Host!OpenSocketsUpToDate

\* The registry's invariants hold with its clients around it.
THEOREM RegistryHolds == Spec => []HostInv
<1>1. Host!Spec => HostProofs!Spec
  BY SameSpec
<1>2. HostProofs!Spec => [](HostProofs!TypeOK /\ HostProofs!PresenceShape)
  BY HostProofs!TypeCorrect, HostAssumptions
<1>3. HostProofs!Spec => []HostProofs!OneEntryPerClient
  BY HostProofs!UniqueClients, HostAssumptions
<1>4. HostProofs!Spec => []HostProofs!RegisteredSocketIsListed
  BY HostProofs!DisplacedTabsAreClosed, HostAssumptions
<1>5. HostProofs!Spec => []HostProofs!OpenSocketsUpToDate
  BY HostProofs!BroadcastsComplete, HostAssumptions
<1>6. HostProofs!TypeOK <=> Host!TypeOK
  BY DEF HostProofs!TypeOK, Host!TypeOK, HostProofs!RuntimeClient, Host!RuntimeClient,
         HostProofs!StationState, Host!StationState, HostProofs!AgeCap, Host!AgeCap,
         HostProofs!RuntimeClientSummary, Host!RuntimeClientSummary
<1>7. HostProofs!PresenceShape <=> PresenceShape
  BY DEF HostProofs!PresenceShape, PresenceShape
<1>8. HostProofs!OneEntryPerClient <=> Host!OneEntryPerClient
  BY DEF HostProofs!OneEntryPerClient, Host!OneEntryPerClient
<1>9. HostProofs!RegisteredSocketIsListed <=> Host!RegisteredSocketIsListed
  BY DEF HostProofs!RegisteredSocketIsListed, Host!RegisteredSocketIsListed
<1>10. HostProofs!OpenSocketsUpToDate <=> Host!OpenSocketsUpToDate
  BY DEF HostProofs!OpenSocketsUpToDate, Host!OpenSocketsUpToDate,
         HostProofs!ListRuntimeClients, Host!ListRuntimeClients
<1>11. HostProofs!TypeOK /\ HostProofs!PresenceShape /\ HostProofs!OneEntryPerClient
         /\ HostProofs!RegisteredSocketIsListed /\ HostProofs!OpenSocketsUpToDate => HostInv
  BY <1>6, <1>7, <1>8, <1>9, <1>10 DEF HostInv
<1> QED BY RunsTheRegistry, <1>1, <1>2, <1>3, <1>4, <1>5, <1>11, PTL

\* With browsers that restart, lose connections and share clientIds, nobody but
\* the operator takes the selection from a client that may be selected
\* (ws/gateway.ts: setLaunchSelection and its callers).
THEOREM SelectionStays == Spec => HostProofs!OnlyOperatorDeselects
<1>1. HostProofs!Spec => HostProofs!OnlyOperatorDeselects
  BY HostProofs!SelectionIsNotStolen, HostAssumptions
<1> QED BY <1>1, SameSpec, RunsTheRegistry

\* What LaunchSelection promises the operator holds of the whole system of
\* Host, browsers, messages and console.
THEOREM PromiseIsKept == Spec => HostProofs!Promise!Spec
<1>1. HostProofs!Spec => HostProofs!Promise!Spec
  BY HostProofs!RegistryImplementsPromise, HostAssumptions
<1> QED BY <1>1, SameSpec, RunsTheRegistry

-----------------------------------------------------------------------------
(* Which sockets a page refers to.                                         *)

\* A page refers to a socket of its own that is not closed, and none when it
\* is unloaded.  Without an early restart it has no other live socket, and a
\* socket it has disposed of is closed before it refers to the next one.
RefersToOwn(p) ==
  /\ page[p].socket \in SocketsOf(p) \cup {Null}
  /\ page[p].socket # Null =>
       /\ page[p].at = "experience" /\ page[p].listening
       /\ ready[page[p].socket] \notin {"unused", "closed"}
  /\ page[p].at = "console" =>
       page[p] = Unloaded /\ \A t \in SocketsOf(p) : ready[t] \in {"unused", "closed"}
  /\ ~page[p].early => \A t \in SocketsOf(p) :
       IsLive(t) \/ (page[p].socket # Null /\ ready[t] = "closing") => t = page[p].socket

ReferencesInv == \A p \in Pages : RefersToOwn(p)

\* Steps that open no socket and end none.
LEMMA ReferencesKept ==
  ASSUME NEW p \in Pages, RefersToOwn(p),
         \/ page'[p] = page[p]
         \/ /\ page[p].at = "experience" /\ page'[p].at = "experience"
            /\ page'[p].socket = page[p].socket
            /\ page'[p].socket # Null => page'[p].listening
            /\ page'[p].early = page[p].early,
         \A t \in SocketsOf(p) :
           /\ ready'[t] \in {"unused", "closed"} <=> ready[t] \in {"unused", "closed"}
           /\ IsLive(t)' => IsLive(t)
           /\ ready'[t] = "closing" => IsLive(t) \/ ready[t] = "closing"
  PROVE  RefersToOwn(p)'
BY HostAssumption DEF RefersToOwn, SocketsOf

LEMMA ReferencesInit == Init => ReferencesInv
BY ScenarioAssumption DEF Init, ReferencesInv, RefersToOwn, Unloaded, IsLive, SocketsOf

\* A page that is left has only closed sockets.
LEMMA LeaveReferences ==
  ASSUME PagesOK, ReferencesInv, NEW p \in Pages, Leave(p) PROVE ReferencesInv'
<1>1. ASSUME NEW q \in Pages, q # p PROVE RefersToOwn(q)'
  BY <1>1, ReferencesKept DEF Leave, ReferencesInv, PagesOK, SocketsOf, IsLive
<1>2. RefersToOwn(p)'
  <2>1. page'[p] = Unloaded /\ \A t \in SocketsOf(p) : ready'[t] \in {"unused", "closed"}
    BY DEF Leave, PagesOK, SocketsOf
  <2> QED BY <2>1 DEF RefersToOwn, Unloaded, IsLive, SocketsOf
<1> QED BY <1>1, <1>2 DEF ReferencesInv

\* The close event of a page's socket leaves it without a live one, or it was
\* restarted early.
LEMMA CloseReferences ==
  ASSUME PagesOK, ReferencesInv, NEW s \in Sockets, CloseEvent(s) PROVE ReferencesInv'
<1>1. ASSUME NEW q \in Pages, q # s[1] PROVE RefersToOwn(q)'
  <2>1. page'[q] = page[q] /\ \A t \in SocketsOf(q) : ready'[t] = ready[t]
    BY <1>1, SocketFacts DEF CloseEvent, PagesOK, SocketsOf
  <2> QED BY <1>1, <2>1, ReferencesKept DEF ReferencesInv, IsLive
<1>2. ASSUME NEW p \in Pages, p = s[1] PROVE RefersToOwn(p)'
  <2>1. page'[p] = PageWith(p, Null, NoBeat, page[p].listening, page[p].early)
    BY <1>2, SocketFacts DEF CloseEvent, PagesOK
  <2>2. /\ page'[p].socket = Null /\ page'[p].early = page[p].early
        /\ page'[p].at = page[p].at
    BY <2>1 DEF PageWith
  <2>3. /\ ready'[s] = "closed" /\ s \in SocketsOf(p)
        /\ \A t \in SocketsOf(p) : t # s => ready'[t] = ready[t]
    BY <1>2 DEF CloseEvent, PagesOK, SocketsOf
  <2>4. RefersToOwn(p) /\ (IsLive(s) \/ ready[s] = "closing")
    BY DEF ReferencesInv, CloseEvent
  <2>5. page[p].at # "console"
    BY <2>3, <2>4 DEF RefersToOwn, IsLive
  <2>6. ~page[p].early => \A t \in SocketsOf(p) : ~IsLive(t)'
    <3> SUFFICES ASSUME ~page[p].early, NEW t \in SocketsOf(p), IsLive(t)' PROVE FALSE
      OBVIOUS
    <3>1. t # s /\ IsLive(t)
      BY <2>3 DEF IsLive
    <3>2. t = page[p].socket
      BY <2>4, <3>1 DEF RefersToOwn
    <3>3. t # Null
      BY HostAssumption DEF SocketsOf
    <3> QED BY <2>3, <2>4, <3>1, <3>2, <3>3 DEF RefersToOwn
  <2> QED BY <2>2, <2>5, <2>6 DEF RefersToOwn
<1> QED BY <1>1, <1>2 DEF ReferencesInv

LEMMA StartReferences ==
  ASSUME PagesOK, ReferencesInv, NEW p \in Pages, Start(p) PROVE ReferencesInv'
<1>1. CASE page[p].socket # Null
  <2>1. /\ page' = [page EXCEPT ![p].listening = TRUE] /\ UNCHANGED ready
        /\ page[p].at = "experience"
    BY <1>1 DEF Start
  <2>2. ASSUME NEW q \in Pages PROVE RefersToOwn(q)'
    <3>1. \/ page'[q] = page[q]
          \/ /\ page[q].at = "experience" /\ page'[q].at = page[q].at
             /\ page'[q].socket = page[q].socket /\ page'[q].early = page[q].early
             /\ page'[q].listening
      BY <2>1 DEF PagesOK, PageState
    <3> QED BY <2>1, <3>1, ReferencesKept DEF ReferencesInv, IsLive
  <2> QED BY <2>2 DEF ReferencesInv
<1>2. CASE page[p].socket = Null
  <2>1. PICK s \in SocketsOf(p) :
          /\ ready[s] = "unused" /\ ready' = [ready EXCEPT ![s] = "connecting"]
          /\ page' = [page EXCEPT ![p] = page'[p]]
          /\ page'[p].at = "experience" /\ page'[p].listening
          /\ page'[p].socket = s
          /\ ~page'[p].early => \A t \in SocketsOf(p) : ready[t] \in {"unused", "closed"}
    BY <1>2, StartFacts
  <2>2. ASSUME NEW q \in Pages, q # p PROVE RefersToOwn(q)'
    <3>1. page'[q] = page[q] /\ \A t \in SocketsOf(q) : ready'[t] = ready[t]
      BY <2>1, <2>2 DEF PagesOK, SocketsOf
    <3> QED BY <3>1, ReferencesKept DEF ReferencesInv, IsLive
  <2>3. ready'[s] = "connecting" /\ \A t \in SocketsOf(p) : t # s => ready'[t] = ready[t]
    BY <2>1 DEF PagesOK, SocketsOf
  <2>4. RefersToOwn(p)'
    BY <2>1, <2>3 DEF RefersToOwn, IsLive
  <2> QED BY <2>2, <2>4 DEF ReferencesInv
<1> QED BY <1>1, <1>2

LEMMA DisposeReferences ==
  ASSUME PagesOK, ReferencesInv, NEW p \in Pages, Dispose(p) PROVE ReferencesInv'
<1>1. ASSUME NEW q \in Pages, q # p PROVE RefersToOwn(q)'
  <2>1. page'[q] = page[q] /\ \A t \in SocketsOf(q) : ready'[t] = ready[t]
    BY <1>1 DEF Dispose, ClosingCurrent, Current, PagesOK, SocketsOf
  <2> QED BY <2>1, ReferencesKept DEF ReferencesInv, IsLive
<1>2. page'[p] = PageWith(p, Null, NoBeat, FALSE, page[p].early)
  BY DEF Dispose, PagesOK
<1>3. page'[p].socket = Null /\ page'[p].at = "experience" /\ page'[p].early = page[p].early
  BY <1>2 DEF PageWith, Dispose
<1>4. \A t \in SocketsOf(p) : IsLive(t)' => IsLive(t) /\ t # page[p].socket
  BY DEF Dispose, ClosingCurrent, Current, SocketsOf, IsLive
<1>5. RefersToOwn(p)'
  BY <1>3, <1>4 DEF RefersToOwn, ReferencesInv
<1> QED BY <1>1, <1>5 DEF ReferencesInv

LEMMA ReferencesStep == PagesOK /\ ReferencesInv /\ [Next]_vars => ReferencesInv'
<1> SUFFICES ASSUME PagesOK, ReferencesInv, [Next]_vars PROVE ReferencesInv'
  OBVIOUS
<1>1. ASSUME UNCHANGED <<page, ready>> PROVE ReferencesInv'
  BY <1>1 DEF ReferencesInv, RefersToOwn, SocketsOf, IsLive
<1>2. ASSUME NEW s \in Sockets, HostAccepts(s) \/ OpenEvent(s) PROVE ReferencesInv'
  <2>1. \A t \in Sockets : \/ ready'[t] = ready[t]
                           \/ IsLive(t) /\ IsLive(t)'
    BY <1>2 DEF HostAccepts, OpenEvent, PagesOK, IsLive
  <2>2. UNCHANGED page
    BY <1>2 DEF HostAccepts, OpenEvent
  <2> QED BY <2>1, <2>2, ReferencesKept DEF ReferencesInv, IsLive, SocketsOf
<1>3. ASSUME NEW s \in Sockets, PageMessage(s) PROVE ReferencesInv'
  <2>1. s[1] \in Pages /\ ready[s] = "open" /\ s \in SocketsOf(s[1])
    BY <1>3, SocketFacts DEF PageMessage, SocketsOf
  <2>2. page[s[1]].at = "experience"
    BY <2>1 DEF ReferencesInv, RefersToOwn, PagesOK, PageState
  <2>3. CASE Leave(s[1])
    BY <2>1, <2>3, LeaveReferences
  <2>4. CASE page' = [page EXCEPT ![s[1]].beat = 0] /\ UNCHANGED ready
    <3>1. \A q \in Pages :
            \/ page'[q] = page[q]
            \/ /\ page[q].at = "experience" /\ page'[q].at = page[q].at
               /\ page'[q].socket = page[q].socket /\ page'[q].early = page[q].early
               /\ page'[q].listening = page[q].listening
      BY <2>1, <2>2, <2>4 DEF PagesOK, PageState
    <3>2. ASSUME NEW q \in Pages PROVE RefersToOwn(q)'
      <4>1. RefersToOwn(q)
        BY DEF ReferencesInv
      <4>2. page'[q].socket # Null /\ page'[q].socket = page[q].socket => page[q].listening
        BY <4>1 DEF RefersToOwn
      <4> QED BY <2>4, <3>1, <4>1, <4>2, ReferencesKept DEF IsLive
    <3> QED BY <3>2 DEF ReferencesInv
  <2>5. CASE UNCHANGED page /\ ready' = ClosingCurrent(s[1])
    <3>1. \A t \in Sockets : ready'[t] = ready[t] \/ (IsLive(t) /\ ready'[t] = "closing")
      BY <2>5 DEF ClosingCurrent
    <3>2. ASSUME NEW q \in Pages PROVE RefersToOwn(q)'
      BY <2>5, <3>1, ReferencesKept DEF ReferencesInv, IsLive, SocketsOf
    <3> QED BY <3>2 DEF ReferencesInv
  <2> QED BY <1>1, <1>3, <2>3, <2>4, <2>5 DEF PageMessage
<1>4. ASSUME NEW p \in Pages, HeartbeatTimer(p) PROVE ReferencesInv'
  <2>1. page[p].at = "experience"
    BY <1>4, IntervalAssumption
    DEF HeartbeatTimer, ReferencesInv, RefersToOwn, Unloaded, PagesOK, PageState, NoBeat
  <2>2. \A q \in Pages :
          \/ page'[q] = page[q]
          \/ /\ page[q].at = "experience" /\ page'[q].at = page[q].at
             /\ page'[q].socket = page[q].socket /\ page'[q].early = page[q].early
             /\ page'[q].listening = page[q].listening
    BY <1>4, <2>1 DEF HeartbeatTimer, PagesOK, PageState
  <2>3. ASSUME NEW q \in Pages PROVE RefersToOwn(q)'
    <3>1. RefersToOwn(q)
      BY DEF ReferencesInv
    <3>2. page'[q].socket # Null /\ page'[q].socket = page[q].socket => page[q].listening
      BY <3>1 DEF RefersToOwn
    <3> QED BY <1>4, <2>2, <3>1, <3>2, ReferencesKept DEF HeartbeatTimer, IsLive
  <2> QED BY <2>3 DEF ReferencesInv
<1>5. ASSUME NEW p \in Pages, UserLoads(p) PROVE ReferencesInv'
  <2>1. page[p].at = "console" /\ page' = [page EXCEPT ![p] = Loaded] /\ UNCHANGED ready
    BY <1>5 DEF UserLoads
  <2>2. ASSUME NEW q \in Pages, q # p PROVE RefersToOwn(q)'
    BY <2>1, <2>2, ReferencesKept DEF ReferencesInv, PagesOK, IsLive
  <2>3. page'[p].socket = Null /\ page'[p].at = "experience" /\ page'[p].early = FALSE
    BY <2>1 DEF PagesOK, Loaded, Unloaded
  <2>4. RefersToOwn(p)'
    BY <2>1, <2>3 DEF ReferencesInv, RefersToOwn, IsLive
  <2> QED BY <2>2, <2>4 DEF ReferencesInv
<1>6. CASE LoadConsole \/ UnloadConsole
  <2>1. UNCHANGED page
    BY <1>6 DEF LoadConsole, UnloadConsole
  <2>2. \A p \in Pages : \A t \in SocketsOf(p) : ready'[t] = ready[t]
    BY <1>6, PageAssumption DEF LoadConsole, UnloadConsole, NextSocket, SocketsOf, PagesOK
  <2> QED BY <2>1, <2>2, ReferencesKept DEF ReferencesInv, IsLive
<1>7. CASE Tick
  <2>1. \A q \in Pages :
          \/ page'[q] = page[q]
          \/ /\ page[q].at = "experience" /\ page'[q].at = page[q].at
             /\ page'[q].socket = page[q].socket /\ page'[q].early = page[q].early
             /\ page'[q].listening = page[q].listening
    BY <1>7 DEF Tick, ReferencesInv, RefersToOwn, Unloaded, PagesOK, PageState
  <2>2. ASSUME NEW q \in Pages PROVE RefersToOwn(q)'
    <3>1. RefersToOwn(q)
      BY DEF ReferencesInv
    <3>2. page'[q].socket # Null /\ page'[q].socket = page[q].socket => page[q].listening
      BY <3>1 DEF RefersToOwn
    <3> QED BY <1>7, <2>1, <3>1, <3>2, ReferencesKept DEF Tick, IsLive
  <2> QED BY <2>2 DEF ReferencesInv
<1> QED
  BY <1>1, <1>2, <1>3, <1>4, <1>5, <1>6, <1>7, CloseReferences, StartReferences,
     DisposeReferences, LeaveReferences
  DEF Next, vars, HostReceives, HostCloses, ConsoleMessage, PresenceTimer, OperatorChooses,
      UserLeaves

\* A page drops its reference to a socket that is not closed only after an
\* early restart (launch-registration-client.ts: start, dispose and the close
\* event, which clears whichever reference there is).
THEOREM LeaksOnlyEarly == Spec => []OnlyEarlyRestartsLeak
<1>1. ReferencesInv => OnlyEarlyRestartsLeak
  BY DEF ReferencesInv, RefersToOwn, OnlyEarlyRestartsLeak, Current
<1> QED
  BY <1>1, PagesInit, PagesStep, ReferencesInit, ReferencesStep, PTL DEF Spec

-----------------------------------------------------------------------------
(* What is on its way to the browsers.                                     *)

DownMessage ==
  {StationMessage(st) : st \in Host!StationState}
  \cup {ClientsMessage(st, list) : st \in Host!StationState,
                                   list \in SUBSET Host!RuntimeClientSummary}
  \cup {RegisteredMessage(c, st) : c \in Clients, st \in Host!StationState}
  \cup {[type |-> "client.rejected"]}

DownOK == down \in [Sockets -> Seq(DownMessage)]

\* A browser that has not connected has no connection at the Host, and
\* messages are on their way only to a browser that will read them.
Sync ==
  \A s \in Sockets :
    /\ ready[s] \in {"unused", "connecting"} => socketState[s] = "closed"
    /\ down[s] # <<>> => ready[s] \in {"accepted", "open"}

Without(q, type) == \A i \in 1..Len(q) : q[i].type # type
\* The last message of this type is one of S.
Latest(q, type, S) ==
  \E i \in 1..Len(q) : q[i] \in S /\ \A j \in 1..Len(q) : j > i => q[j].type # type

LEMMA WithoutConcat ==
  ASSUME NEW S, NEW q \in Seq(S), NEW r \in Seq(S), NEW type,
         Without(q, type), Without(r, type)
  PROVE  Without(q \o r, type)
<1>1. \A i \in 1..Len(q \o r) : i \in 1..Len(q) \/ \E j \in 1..Len(r) : i = Len(q) + j
  <2> SUFFICES ASSUME NEW i \in 1..Len(q \o r), i \notin 1..Len(q)
               PROVE  \E j \in 1..Len(r) : i = Len(q) + j
    OBVIOUS
  <2>1. i - Len(q) \in 1..Len(r) /\ i = Len(q) + (i - Len(q))
    BY ConcatFacts, SeqFacts
  <2> QED BY <2>1
<1> QED BY SMTT(30), <1>1, ConcatFacts DEF Without

LEMMA LatestConcat ==
  ASSUME NEW S, NEW q \in Seq(S), NEW r \in Seq(S), NEW type, NEW M
  PROVE  /\ Latest(q, type, M) /\ Without(r, type) => Latest(q \o r, type, M)
         /\ Latest(r, type, M) => Latest(q \o r, type, M)
<1>1. /\ Len(q) \in Nat /\ Len(r) \in Nat /\ Len(q \o r) = Len(q) + Len(r)
      /\ \A i \in 1..Len(q) : (q \o r)[i] = q[i]
      /\ \A i \in 1..Len(r) : (q \o r)[Len(q) + i] = r[i]
  BY ConcatFacts, SeqFacts
<1>2. \A j \in 1..Len(q \o r) : j > Len(q) =>
        j - Len(q) \in 1..Len(r) /\ (q \o r)[j] = r[j - Len(q)]
  <2> SUFFICES ASSUME NEW j \in 1..Len(q \o r), j > Len(q)
               PROVE  j - Len(q) \in 1..Len(r) /\ (q \o r)[j] = r[j - Len(q)]
    OBVIOUS
  <2>1. j - Len(q) \in 1..Len(r) /\ j = Len(q) + (j - Len(q))
    BY <1>1
  <2> QED BY <1>1, <2>1
<1>3. ASSUME Latest(q, type, M), Without(r, type) PROVE Latest(q \o r, type, M)
  <2>1. PICK i \in 1..Len(q) : q[i] \in M /\ \A j \in 1..Len(q) : j > i => q[j].type # type
    BY <1>3 DEF Latest
  <2>2. i \in 1..Len(q \o r) /\ (q \o r)[i] \in M
    BY <1>1, <2>1
  <2>3. \A j \in 1..Len(q \o r) : j > i => (q \o r)[j].type # type
    BY <1>1, <1>2, <1>3, <2>1 DEF Without
  <2> QED BY <2>2, <2>3 DEF Latest
<1>4. ASSUME Latest(r, type, M) PROVE Latest(q \o r, type, M)
  <2>1. PICK i \in 1..Len(r) : r[i] \in M /\ \A j \in 1..Len(r) : j > i => r[j].type # type
    BY <1>4 DEF Latest
  <2>2. Len(q) + i \in 1..Len(q \o r) /\ (q \o r)[Len(q) + i] \in M
    BY <1>1, <2>1
  <2>3. \A j \in 1..Len(q \o r) : j > Len(q) + i => (q \o r)[j].type # type
    BY <1>1, <1>2, <2>1
  <2> QED BY <2>2, <2>3 DEF Latest
<1> QED BY <1>3, <1>4

LEMMA LatestTail ==
  ASSUME NEW S, NEW q \in Seq(S), q # <<>>, NEW type, NEW M
  PROVE  /\ Without(q, type) => Without(Tail(q), type)
         /\ Latest(q, type, M) =>
              Latest(Tail(q), type, M) \/ (Head(q) \in M /\ Without(Tail(q), type))
<1>1. /\ Len(q) \in Nat /\ Len(q) > 0 /\ Head(q) = q[1] /\ Len(Tail(q)) = Len(q) - 1
      /\ \A i \in 1..Len(q) - 1 : Tail(q)[i] = q[i + 1]
  BY SeqFacts
<1>2. Without(q, type) => Without(Tail(q), type)
  BY <1>1 DEF Without
<1>3. ASSUME NEW i \in 1..Len(q), q[i] \in M, \A j \in 1..Len(q) : j > i => q[j].type # type
      PROVE  Latest(Tail(q), type, M) \/ (Head(q) \in M /\ Without(Tail(q), type))
  <2>1. CASE i = 1
    BY <1>1, <1>3, <2>1 DEF Without
  <2>2. CASE i > 1
    <3>1. i - 1 \in 1..Len(Tail(q)) /\ Tail(q)[i - 1] = q[i]
      BY <1>1, <2>2
    <3>2. \A j \in 1..Len(Tail(q)) : j > i - 1 => Tail(q)[j].type # type
      BY <1>1, <1>3, <2>2
    <3> QED BY <1>3, <3>1, <3>2 DEF Latest
  <2> QED BY <2>1, <2>2
<1> QED BY <1>2, <1>3 DEF Latest

\* One message, and none.
LEMMA SingleFacts ==
  ASSUME NEW S, NEW m \in S, NEW type
  PROVE  /\ <<m>> \in Seq(S) /\ <<>> \in Seq(S) /\ Without(<<>>, type)
         /\ m.type # type => Without(<<m>>, type)
         /\ \A M : m \in M => Latest(<<m>>, type, M)
BY DEF Without, Latest

-----------------------------------------------------------------------------
(* How what is on its way to a browser changes.                            *)

StationList == Host!ListRuntimeClients(clients)

LEMMA NewsFacts ==
  ASSUME NEW s \in Sockets, NEW st \in Host!StationState,
         NEW list \in SUBSET Host!RuntimeClientSummary
  PROVE  /\ News(s, st, list) \in Seq(DownMessage)
         /\ Latest(News(s, st, list), "station.state", {StationMessage(st)})
         /\ s[1] = Console =>
              Latest(News(s, st, list), "runtime.clients", {ClientsMessage(st, list)})
<1> DEFINE first == StationMessage(st)
           second == ClientsMessage(st, list)
<1>1. first \in DownMessage /\ second \in DownMessage
  BY DEF DownMessage
<1>2. first.type = "station.state" /\ second.type = "runtime.clients"
  BY DEF StationMessage, ClientsMessage
<1>3. News(s, st, list) = IF s[1] = Console THEN <<first, second>> ELSE <<first>>
  BY DEF News
<1> HIDE DEF first, second
<1>4. /\ <<first, second>> \in Seq(DownMessage) /\ <<first>> \in Seq(DownMessage)
      /\ Latest(<<first>>, "station.state", {first})
      /\ Latest(<<first, second>>, "station.state", {first})
      /\ Latest(<<first, second>>, "runtime.clients", {second})
  BY <1>1, <1>2 DEF Latest
<1> QED BY <1>3, <1>4 DEF first, second

\* What the Host sends ahead of the news.
LEMMA AnswerFacts ==
  /\ \A c \in Clients, st \in Host!StationState :
       /\ RegisteredMessage(c, st) \in DownMessage
       /\ RegisteredMessage(c, st).type = "client.registered"
  /\ [type |-> "client.rejected"] \in DownMessage
BY DEF DownMessage, RegisteredMessage

LEMMA ToldTypes ==
  ASSUME HostInv, NEW s \in Sockets
  PROVE  /\ told[s].station \in Host!StationState /\ station \in Host!StationState
         /\ told[s].list \in SUBSET Host!RuntimeClientSummary
         /\ told[s].registered \in Clients \cup {Null}
         /\ socketState[s] \in {"closed", "open", "closing"}
BY DEF HostInv, Host!TypeOK

LEMMA HostSendsType ==
  ASSUME DownOK, HostInv', NEW s, NEW first \in Seq(DownMessage), HostSends(s, first)
  PROVE  DownOK'
<1>1. ASSUME NEW t \in Sockets
      PROVE  (IF ~IsLive(t) THEN <<>>
              ELSE down[t] \o (IF t = s THEN first ELSE <<>>)
                 \o (IF HasNews(t) THEN News(t, told'[t].station, told'[t].list) ELSE <<>>))
             \in Seq(DownMessage)
  <2> DEFINE news == IF HasNews(t) THEN News(t, told'[t].station, told'[t].list) ELSE <<>>
             answer == IF t = s THEN first ELSE <<>>
  <2>1. told'[t].station \in Host!StationState /\ told'[t].list \in SUBSET Host!RuntimeClientSummary
    BY DEF HostInv, Host!TypeOK
  <2>2. news \in Seq(DownMessage)
    BY <2>1, NewsFacts, EmptyIsSeq
  <2>3. answer \in Seq(DownMessage)
    BY EmptyIsSeq
  <2>4. down[t] \in Seq(DownMessage)
    BY DEF DownOK
  <2> HIDE DEF news, answer
  <2>5. (down[t] \o answer) \o news \in Seq(DownMessage)
    BY <2>2, <2>3, <2>4, ConcatFacts
  <2> QED BY <2>5, EmptyIsSeq DEF news, answer
<1> QED BY <1>1 DEF HostSends, DownOK

LEMMA AcceptedFacts ==
  ASSUME HostInv, HostInv', NEW s \in Sockets, HostAccepts(s)
  PROVE  /\ station' = station /\ socketState[s] = "closed" /\ socketState'[s] = "open"
         /\ \A t \in Sockets : t # s => socketState'[t] = socketState[t] /\ told'[t] = told[t]
         /\ told'[s].registered = Null
         /\ Host!ListRuntimeClients(clients) = StationList'
         /\ HostSends(s, News(s, station', StationList'))
<1>1. /\ Host!Connect(s) /\ HostSends(s, News(s, station, Host!ListRuntimeClients(clients)))
  BY DEF HostAccepts
<1>2. /\ station' = station /\ socketState[s] = "closed" /\ socketState'[s] = "open"
      /\ \A t \in Sockets : t # s => socketState'[t] = socketState[t] /\ told'[t] = told[t]
      /\ told'[s].list = Host!ListRuntimeClients(clients) /\ told'[s].registered = Null
  BY <1>1 DEF Host!Connect, HostInv, Host!TypeOK
<1>3. told'[s].list = StationList'
  BY <1>2 DEF HostInv, Host!OpenSocketsUpToDate, StationList
<1> QED BY <1>1, <1>2, <1>3

\* The Host's steps other than to accept a connection.
HostGoesOn ==
  \/ \E s \in Sockets : Host!RejectHello(s) \/ Host!SocketClosed(s)
  \/ \E s \in Sockets, c \in Clients, x \in Slugs : Host!Hello(s, c, x)
  \/ \E s \in Sockets, c \in Clients : Host!Heartbeat(s, c)
  \/ Host!MarkStaleRuntimeClients \/ Host!Operator \/ Host!Tick

\* What the Host sends on one connection while it handles a message.
LEMMA AnswersAre ==
  ASSUME PagesOK, OwnMessages, HostInv', NEW s \in Sockets, HostReceives(s)
  PROVE  \/ UNCHANGED <<host, down>>
         \/ /\ HostGoesOn
            /\ \E first \in Seq(DownMessage) :
                 /\ HostSends(s, first)
                 /\ Without(first, "station.state") /\ Without(first, "runtime.clients")
<1>1. station' \in Host!StationState
  BY DEF HostInv, Host!TypeOK
<1>2. /\ <<>> \in Seq(DownMessage)
      /\ Without(<<>>, "station.state") /\ Without(<<>>, "runtime.clients")
  BY EmptyIsSeq DEF Without
<1>3. ASSUME NEW m \in DownMessage, m.type \notin {"station.state", "runtime.clients"}
      PROVE  /\ <<m>> \in Seq(DownMessage)
             /\ Without(<<m>>, "station.state") /\ Without(<<m>>, "runtime.clients")
  BY <1>3, SingleFacts
<1>4. CASE \E v \in ValidateClientHello(HelloOf(s[1])) :
             /\ v.clientId \in Clients /\ HostGoesOn
             /\ HostSends(s, IF socketState'[s] = "open"
                             THEN <<RegisteredMessage(v.clientId, station')>> ELSE <<>>)
  BY <1>1, <1>2, <1>3, <1>4, AnswerFacts
<1>5. CASE HostGoesOn /\ HostSends(s, <<[type |-> "client.rejected"]>>)
  <2> DEFINE m == [type |-> "client.rejected"]
  <2>1. m \in DownMessage /\ m.type \notin {"station.state", "runtime.clients"}
    BY AnswerFacts
  <2> HIDE DEF m
  <2>2. /\ <<m>> \in Seq(DownMessage)
        /\ Without(<<m>>, "station.state") /\ Without(<<m>>, "runtime.clients")
    BY <2>1, <1>3
  <2>3. HostSends(s, <<m>>)
    BY <1>5 DEF m
  <2> QED BY <1>5, <2>2, <2>3
<1> QED BY <1>2, <1>4, <1>5, ReceivedIs DEF HostGoesOn

LEMMA DownStep == DownOK /\ PagesOK /\ OwnMessages /\ HostInv /\ HostInv' /\ [Next]_vars => DownOK'
<1> SUFFICES ASSUME DownOK, PagesOK, OwnMessages, HostInv, HostInv', [Next]_vars PROVE DownOK'
  OBVIOUS
<1>1. ASSUME UNCHANGED down PROVE DownOK'
  BY <1>1 DEF DownOK
<1>2. ASSUME NEW s, HostSends(s, <<>>) PROVE DownOK'
  BY <1>2, EmptyIsSeq, HostSendsType
<1>3. ASSUME NEW s \in Sockets, HostAccepts(s) PROVE DownOK'
  <2>1. station' \in Host!StationState /\ StationList' \in SUBSET Host!RuntimeClientSummary
    <3>1. told'[s].list = StationList'
      BY <1>3, AcceptedFacts DEF HostInv, Host!OpenSocketsUpToDate, StationList
    <3> QED BY <3>1 DEF HostInv, Host!TypeOK
  <2> QED BY <1>3, <2>1, AcceptedFacts, NewsFacts, HostSendsType
<1>4. ASSUME NEW s \in Sockets, HostReceives(s) PROVE DownOK'
  BY <1>1, <1>4, AnswersAre, HostSendsType
<1>5. ASSUME \A s \in Sockets :
               down'[s] \in {down[s], <<>>} \/ (down[s] # <<>> /\ down'[s] = Tail(down[s])),
             down' = [s \in Sockets |-> down'[s]]
      PROVE  DownOK'
  <2>1. \A s \in Sockets : down[s] \in Seq(DownMessage)
    BY DEF DownOK
  <2>2. \A s \in Sockets : down[s] # <<>> => Tail(down[s]) \in Seq(DownMessage)
    BY <2>1, SeqFacts
  <2>3. \A s \in Sockets : down'[s] \in Seq(DownMessage)
    BY <1>5, <2>1, <2>2, EmptyIsSeq
  <2> QED BY <1>5, <2>3 DEF DownOK
<1>6. ASSUME NEW p \in Pages, Leave(p) PROVE DownOK'
  BY <1>5, <1>6 DEF Leave
<1>7. ASSUME NEW s \in Sockets, PageMessage(s) PROVE DownOK'
  <2>1. CASE down' = [down EXCEPT ![s] = Tail(@)] /\ down[s] # <<>>
    BY <1>5, <2>1 DEF DownOK
  <2>2. CASE down[s] # <<>> /\ down' = [t \in Sockets |->
               IF t \in Current(s[1]) THEN <<>> ELSE IF t = s THEN Tail(down[t]) ELSE down[t]]
    BY <1>5, <2>2
  <2> QED BY <1>6, <1>7, <2>1, <2>2, SocketFacts DEF PageMessage
<1>8. ASSUME NEW s \in Sockets, ConsoleMessage(s) PROVE DownOK'
  BY <1>5, <1>8 DEF ConsoleMessage, DownOK
<1>9. ASSUME NEW s \in Sockets, CloseEvent(s) PROVE DownOK'
  BY <1>5, <1>9 DEF CloseEvent, DownOK
<1>10. ASSUME NEW p \in Pages, Dispose(p) PROVE DownOK'
  BY <1>5, <1>10 DEF Dispose
<1>11. CASE UnloadConsole
  BY <1>5, <1>11 DEF UnloadConsole
<1> QED
  BY <1>1, <1>2, <1>3, <1>4, <1>6, <1>7, <1>8, <1>9, <1>10, <1>11
  DEF Next, vars, HostCloses, PresenceTimer, OperatorChooses, Tick, OpenEvent, Start,
      HeartbeatTimer, UserLoads, UserLeaves, LoadConsole

-----------------------------------------------------------------------------
(* What a browser knows of the station.                                    *)

Connected(s) == ready[s] \in {"accepted", "open"}
Reading(s) == Connected(s) /\ socketState[s] = "open"

Plain(q) == Without(q, "station.state") /\ Without(q, "runtime.clients")

\* No connection opens in the Host's other steps.
LEMMA SocketsOnlyEnd ==
  ASSUME HostInv, HostGoesOn \/ UNCHANGED host
  PROVE  \A t \in Sockets :
           /\ socketState'[t] = "open" => socketState[t] = "open"
           /\ socketState[t] = "closed" => socketState'[t] = "closed"
<1>1. socketState \in [Sockets -> {"closed", "open", "closing"}]
  BY DEF HostInv, Host!TypeOK
<1>2. ASSUME NEW s \in Sockets, Host!RejectHello(s)
      PROVE  \A t \in Sockets : /\ socketState'[t] = "open" => socketState[t] = "open"
                                /\ socketState[t] = "closed" => socketState'[t] = "closed"
  BY <1>1, <1>2 DEF Host!RejectHello
<1>3. ASSUME NEW s \in Sockets, Host!SocketClosed(s)
      PROVE  \A t \in Sockets : /\ socketState'[t] = "open" => socketState[t] = "open"
                                /\ socketState[t] = "closed" => socketState'[t] = "closed"
  BY <1>1, <1>3 DEF Host!SocketClosed
<1>4. ASSUME NEW s \in Sockets, NEW c \in Clients, NEW x \in Slugs, Host!Hello(s, c, x)
      PROVE  \A t \in Sockets : /\ socketState'[t] = "open" => socketState[t] = "open"
                                /\ socketState[t] = "closed" => socketState'[t] = "closed"
  BY <1>1, <1>4 DEF Host!Hello, Host!Closing
<1>5. CASE UNCHANGED socketState
  BY <1>5
<1> QED
  BY <1>2, <1>3, <1>4, <1>5
  DEF HostGoesOn, host, Host!Heartbeat, Host!MarkStaleRuntimeClients, Host!Operator,
      Host!SelectLaunchClient, Host!ClearLaunchClient, Host!Tick

\* What kinds of steps there are, for what is on its way to the browsers.
HostSpeaks ==
  /\ HostGoesOn /\ UNCHANGED <<page, ready>>
  /\ \E x : \E first \in Seq(DownMessage) :
       /\ HostSends(x, first) /\ Plain(first)
       /\ first = <<>> \/ (x \in Sockets /\ socketState[x] # "closed")
ClockTicks ==
  HostGoesOn /\ told' = told /\ station' = station /\ socketState' = socketState
  /\ UNCHANGED <<ready, down>>
BrowsersAct ==
  /\ UNCHANGED host
  /\ \/ \E s \in Sockets :
          OpenEvent(s) \/ PageMessage(s) \/ ConsoleMessage(s) \/ CloseEvent(s)
     \/ \E p \in Pages : Start(p) \/ Dispose(p) \/ UserLeaves(p)
     \/ LoadConsole \/ UnloadConsole
     \/ UNCHANGED <<ready, down>>

LEMMA StepKinds ==
  ASSUME PagesOK, OwnMessages, HostInv, HostInv', [Next]_vars
  PROVE  (\E s \in Sockets : HostAccepts(s)) \/ HostSpeaks \/ ClockTicks \/ BrowsersAct
<1>1. <<>> \in Seq(DownMessage) /\ Plain(<<>>)
  BY EmptyIsSeq DEF Plain, Without
<1>2. ASSUME NEW s \in Sockets, HostReceives(s) PROVE HostSpeaks \/ BrowsersAct
  <2>1. UNCHANGED <<page, ready>> /\ socketState[s] # "closed"
    BY <1>2 DEF HostReceives
  <2> QED BY <1>2, <2>1, AnswersAre DEF HostSpeaks, BrowsersAct, Plain
<1>3. ASSUME NEW s \in Sockets, HostCloses(s) PROVE HostSpeaks
  BY <1>1, <1>3 DEF HostCloses, HostSpeaks, HostGoesOn
<1>4. CASE PresenceTimer \/ OperatorChooses
  BY <1>1, <1>4 DEF PresenceTimer, OperatorChooses, HostSpeaks, HostGoesOn, Host!Operator
<1>5. CASE Tick
  BY <1>5 DEF Tick, ClockTicks, HostGoesOn, Host!Tick
<1> QED
  BY <1>2, <1>3, <1>4, <1>5
  DEF Next, vars, BrowsersAct, OpenEvent, PageMessage, ConsoleMessage, CloseEvent, Start, Dispose,
      HeartbeatTimer, UserLoads, UserLeaves, LoadConsole, UnloadConsole

\* A message is read from connection s.
Takes(s) ==
  down[s] # <<>> /\ down'[s] = Tail(down[s]) /\ (PageMessage(s) \/ ConsoleMessage(s))

\* In steps of the browsers, a connection that goes on keeps its messages, or
\* its browser reads one; no other browser begins to read.
LEMMA BrowserKeeps ==
  ASSUME PagesOK, DownOK, BrowsersAct, NEW t \in Sockets, Connected(t)'
  PROVE  Connected(t) /\ (down'[t] = down[t] \/ Takes(t))
<1> USE DEF Connected
<1>1. ASSUME NEW p \in Pages, Leave(p) PROVE Connected(t) /\ down'[t] = down[t]
  BY <1>1 DEF Leave
<1>2. ASSUME NEW s \in Sockets, OpenEvent(s) PROVE Connected(t) /\ down'[t] = down[t]
  BY <1>2 DEF OpenEvent, PagesOK
<1>3. ASSUME NEW s \in Sockets, PageMessage(s)
      PROVE  Connected(t) /\ (down'[t] = down[t] \/ Takes(t))
  <2>1. s[1] \in Pages /\ down[s] # <<>>
    BY <1>3, SocketFacts DEF PageMessage
  <2>2. CASE Leave(s[1])
    BY <1>1, <2>1, <2>2
  <2>3. CASE down' = [down EXCEPT ![s] = Tail(@)] /\ UNCHANGED ready
    BY <1>3, <2>1, <2>3 DEF DownOK, Takes
  <2>4. CASE /\ ready' = ClosingCurrent(s[1])
             /\ down' = [u \in Sockets |->
                  IF u \in Current(s[1]) THEN <<>> ELSE IF u = s THEN Tail(down[u]) ELSE down[u]]
    <3>1. Connected(t) /\ t \notin Current(s[1])
      BY <2>4 DEF ClosingCurrent, IsLive
    <3> QED BY <1>3, <2>1, <2>4, <3>1 DEF Takes
  <2> QED BY <1>3, <2>2, <2>3, <2>4 DEF PageMessage
<1>4. ASSUME NEW s \in Sockets, ConsoleMessage(s)
      PROVE  Connected(t) /\ (down'[t] = down[t] \/ Takes(t))
  BY <1>4 DEF ConsoleMessage, DownOK, Takes
<1>5. ASSUME NEW s \in Sockets, CloseEvent(s) PROVE Connected(t) /\ down'[t] = down[t]
  BY <1>5 DEF CloseEvent, PagesOK, DownOK
<1>6. ASSUME NEW p \in Pages, Start(p) PROVE Connected(t) /\ down'[t] = down[t]
  <2>1. /\ UNCHANGED down
        /\ \/ UNCHANGED ready
           \/ \E s \in NextSocket(p) : ready' = [ready EXCEPT ![s] = "connecting"]
    BY <1>6 DEF Start
  <2> QED BY <2>1 DEF NextSocket, SocketsOf, PagesOK
<1>7. ASSUME NEW p \in Pages, Dispose(p) PROVE Connected(t) /\ down'[t] = down[t]
  BY <1>7 DEF Dispose, ClosingCurrent, IsLive
<1>8. CASE LoadConsole
  BY <1>8 DEF LoadConsole, NextSocket, SocketsOf, PagesOK
<1>9. CASE UnloadConsole
  BY <1>9 DEF UnloadConsole
<1>10. CASE UNCHANGED <<ready, down>>
  BY <1>10
<1> QED
  BY <1>1, <1>2, <1>3, <1>4, <1>5, <1>6, <1>7, <1>8, <1>9, <1>10
  DEF BrowsersAct, UserLeaves

LEMMA DownInit == Init => DownOK
BY EmptyIsSeq DEF Init, DownOK

LEMMA SyncInit == Init => Sync
BY DEF Init, Sync, Host!Init

\* What the Host sends on a connection that lives.
LEMMA SentIs ==
  ASSUME NEW s, NEW first, HostSends(s, first), NEW t \in Sockets
  PROVE  /\ ~IsLive(t) => down'[t] = <<>>
         /\ IsLive(t) => down'[t] = (down[t] \o (IF t = s THEN first ELSE <<>>))
              \o (IF HasNews(t) THEN News(t, told'[t].station, told'[t].list) ELSE <<>>)
BY DEF HostSends

LEMMA BrowserSync ==
  ASSUME PagesOK, DownOK, Sync, BrowsersAct PROVE Sync'
<1> USE DEF Sync
<1>1. UNCHANGED socketState
  BY DEF BrowsersAct, host
<1>2. ASSUME NEW p \in Pages, Leave(p) PROVE Sync'
  BY <1>1, <1>2 DEF Leave
<1>3. ASSUME NEW s \in Sockets, OpenEvent(s) PROVE Sync'
  BY <1>1, <1>3 DEF OpenEvent, PagesOK
<1>4. ASSUME NEW s \in Sockets, PageMessage(s) PROVE Sync'
  <2>1. s[1] \in Pages /\ down[s] # <<>> /\ ready[s] = "open"
    BY <1>4, SocketFacts DEF PageMessage
  <2>2. CASE down' = [down EXCEPT ![s] = Tail(@)] /\ UNCHANGED ready
    BY <1>1, <2>1, <2>2 DEF DownOK
  <2>3. CASE /\ ready' = ClosingCurrent(s[1])
             /\ down' = [u \in Sockets |->
                  IF u \in Current(s[1]) THEN <<>> ELSE IF u = s THEN Tail(down[u]) ELSE down[u]]
    BY <1>1, <2>1, <2>3 DEF ClosingCurrent, IsLive
  <2> QED BY <1>2, <1>4, <2>1, <2>2, <2>3 DEF PageMessage
<1>5. ASSUME NEW s \in Sockets, ConsoleMessage(s) PROVE Sync'
  BY <1>1, <1>5 DEF ConsoleMessage, DownOK
<1>6. ASSUME NEW s \in Sockets, CloseEvent(s) PROVE Sync'
  BY <1>1, <1>6 DEF CloseEvent, PagesOK, DownOK
<1>7. ASSUME NEW p \in Pages, Start(p) PROVE Sync'
  <2>1. /\ UNCHANGED down
        /\ UNCHANGED ready \/ \E s \in NextSocket(p) : ready' = [ready EXCEPT ![s] = "connecting"]
    BY <1>7 DEF Start
  <2> QED BY <1>1, <2>1 DEF NextSocket, SocketsOf, PagesOK
<1>8. ASSUME NEW p \in Pages, Dispose(p) PROVE Sync'
  BY <1>1, <1>8 DEF Dispose, ClosingCurrent, IsLive
<1>9. CASE LoadConsole
  BY <1>1, <1>9 DEF LoadConsole, NextSocket, SocketsOf, PagesOK
<1>10. CASE UnloadConsole
  BY <1>1, <1>10 DEF UnloadConsole
<1>11. CASE UNCHANGED <<ready, down>>
  BY <1>1, <1>11
<1> QED
  BY <1>2, <1>3, <1>4, <1>5, <1>6, <1>7, <1>8, <1>9, <1>10, <1>11 DEF BrowsersAct, UserLeaves

LEMMA SyncStep ==
  PagesOK /\ OwnMessages /\ DownOK /\ HostInv /\ HostInv' /\ Sync /\ [Next]_vars => Sync'
<1> SUFFICES ASSUME PagesOK, OwnMessages, DownOK, HostInv, HostInv', Sync, [Next]_vars
             PROVE  Sync'
  OBVIOUS
<1>1. ASSUME NEW s \in Sockets, HostAccepts(s) PROVE Sync'
  <2>1. ready'[s] = "accepted" /\ \A t \in Sockets : t # s => ready'[t] = ready[t]
    BY <1>1 DEF HostAccepts, PagesOK
  <2>2. \A t \in Sockets : t # s => socketState'[t] = socketState[t] /\ told'[t] = told[t]
    BY <1>1, AcceptedFacts
  <2>3. \A t \in Sockets : t # s => ~HasNews(t)
    BY <2>2 DEF HasNews
  <2>4. ASSUME NEW t \in Sockets, t # s PROVE down'[t] = <<>> \/ down'[t] = down[t]
    <3>1. down[t] \in Seq(DownMessage)
      BY DEF DownOK
    <3> QED BY <1>1, <2>3, <2>4, <3>1, ConcatEmpty, SentIs, AcceptedFacts
  <2> QED BY <2>1, <2>2, <2>4 DEF Sync
<1>2. CASE HostSpeaks
  <2>1. UNCHANGED ready
    BY <1>2 DEF HostSpeaks
  <2>2. \A t \in Sockets : socketState[t] = "closed" => socketState'[t] = "closed"
    BY <1>2, SocketsOnlyEnd DEF HostSpeaks
  <2>3. ASSUME NEW t \in Sockets, down'[t] # <<>>, ready[t] \notin {"accepted", "open"}
        PROVE  FALSE
    <3>1. PICK x : \E first \in Seq(DownMessage) :
            /\ HostSends(x, first)
            /\ first = <<>> \/ (x \in Sockets /\ socketState[x] # "closed")
      BY <1>2, Zenon DEF HostSpeaks
    <3>2. PICK first \in Seq(DownMessage) :
            /\ HostSends(x, first)
            /\ first = <<>> \/ (x \in Sockets /\ socketState[x] # "closed")
      BY <3>1
    <3>3. IsLive(t)
      BY <2>3, <3>2, SentIs
    <3>4. ready[t] = "connecting" /\ down[t] = <<>> /\ socketState[t] = "closed"
      BY <2>3, <3>3 DEF IsLive, Sync
    <3>5. ~HasNews(t)
      BY <3>4 DEF HasNews
    <3>6. down'[t] = (<<>> \o <<>>) \o <<>>
      BY <3>2, <3>3, <3>4, <3>5, SentIs
    <3> QED BY <2>3, <3>6
  <2> QED BY <2>1, <2>2, <2>3 DEF Sync
<1>3. CASE ClockTicks
  BY <1>3 DEF ClockTicks, Sync
<1>4. CASE BrowsersAct
  BY <1>4, BrowserSync
<1> QED BY <1>1, <1>2, <1>3, <1>4, StepKinds

-----------------------------------------------------------------------------
(* What a browser can know that reads what is on its way to it: the last   *)
(* message is news, or nothing changed.                                    *)

Learns(t) == \E q \in Seq(DownMessage) : down'[t] = q \o News(t, station', StationList')
NothingNew(t) == station' = station /\ (t[1] = Console => StationList' = StationList)
Gets(t) == \E f \in Seq(DownMessage) : Plain(f) /\ down'[t] = down[t] \o f

\* An open connection has been told the station and the list as they are.
LEMMA ToldIs ==
  ASSUME HostInv, NEW t \in Sockets, socketState[t] = "open"
  PROVE  told[t].station = station /\ told[t].list = StationList
BY DEF HostInv, Host!OpenSocketsUpToDate, StationList

LEMMA PlainEmpty == <<>> \in Seq(DownMessage) /\ Plain(<<>>)
BY EmptyIsSeq DEF Plain, Without

LEMMA KnowledgeStep ==
  ASSUME PagesOK, OwnMessages, DownOK, HostInv, HostInv', Sync, [Next]_vars,
         NEW t \in Sockets, Reading(t)'
  PROVE  Learns(t) \/ (Reading(t) /\ NothingNew(t) /\ (Gets(t) \/ Takes(t)))
<1>1. socketState'[t] = "open" /\ Connected(t)' /\ down[t] \in Seq(DownMessage)
  BY DEF Reading, DownOK
<1>2. told'[t].station = station' /\ told'[t].list = StationList'
  BY <1>1 DEF HostInv, Host!OpenSocketsUpToDate, StationList
<1>3. down'[t] = down[t] => Gets(t)
  BY <1>1, ConcatEmpty, PlainEmpty DEF Gets
<1>4. ASSUME NEW s \in Sockets, HostAccepts(s)
      PROVE  Learns(t) \/ (Reading(t) /\ NothingNew(t) /\ Gets(t))
  <2>1. HostSends(s, News(s, station', StationList')) /\ ready[s] = "connecting"
    BY <1>4, AcceptedFacts DEF HostAccepts
  <2>2. \A u \in Sockets : ~HasNews(u)
    BY <1>4, AcceptedFacts DEF HasNews
  <2>3. CASE t = s
    <3>1. IsLive(t) /\ down[t] = <<>>
      BY <2>1, <2>3 DEF IsLive, Sync
    <3>2. down'[t] = (<<>> \o News(t, station', StationList')) \o <<>>
      <4> DEFINE news == News(s, station', StationList')
      <4>1. HostSends(s, news)
        BY <2>1
      <4> HIDE DEF news
      <4>2. down'[t] = (down[t] \o news) \o <<>>
        BY <2>2, <2>3, <3>1, <4>1, SentIs
      <4> QED BY <2>3, <3>1, <4>2 DEF news
    <3>3. News(t, station', StationList') \in Seq(DownMessage)
      BY <1>2, NewsFacts, ToldTypes DEF HostInv, Host!TypeOK
    <3>4. <<>> \o News(t, station', StationList') \in Seq(DownMessage)
      BY <3>3, EmptyIsSeq, ConcatFacts
    <3> QED BY <3>2, <3>4, ConcatEmpty, EmptyIsSeq DEF Learns
  <2>4. CASE t # s
    <3>1. socketState[t] = "open" /\ told'[t] = told[t] /\ ready'[t] = ready[t]
      BY <1>1, <1>4, <2>4, AcceptedFacts DEF HostAccepts, PagesOK
    <3>2. Reading(t) /\ IsLive(t)
      BY <1>1, <3>1 DEF Reading, Connected, IsLive
    <3>3. station' = station /\ StationList' = StationList
      BY <1>2, <3>1, ToldIs
    <3>4. down'[t] = (down[t] \o <<>>) \o <<>>
      BY <2>1, <2>2, <2>4, <3>2, SentIs
    <3>5. down'[t] = down[t]
      BY <1>1, <3>4, ConcatEmpty
    <3> QED BY <1>3, <3>2, <3>3, <3>5 DEF NothingNew
  <2> QED BY <2>3, <2>4
<1>5. CASE HostSpeaks
  <2>1. UNCHANGED ready /\ socketState[t] = "open"
    BY <1>1, <1>5, SocketsOnlyEnd DEF HostSpeaks
  <2>2. Reading(t) /\ IsLive(t)
    BY <1>1, <2>1 DEF Reading, Connected, IsLive
  <2>3. PICK x : \E first \in Seq(DownMessage) : HostSends(x, first) /\ Plain(first)
    BY <1>5, Zenon DEF HostSpeaks
  <2>4. PICK first \in Seq(DownMessage) : HostSends(x, first) /\ Plain(first)
    BY <2>3
  <2> DEFINE answer == IF t = x THEN first ELSE <<>>
  <2>5. answer \in Seq(DownMessage) /\ Plain(answer)
    BY <2>4, PlainEmpty
  <2>6. down'[t] = (down[t] \o answer)
              \o (IF HasNews(t) THEN News(t, told'[t].station, told'[t].list) ELSE <<>>)
    BY <2>2, <2>4, SentIs
  <2> HIDE DEF answer
  <2>7. down[t] \o answer \in Seq(DownMessage)
    BY <1>1, <2>5, ConcatFacts
  <2>8. CASE HasNews(t)
    BY <1>2, <2>6, <2>7, <2>8 DEF Learns
  <2>9. CASE ~HasNews(t)
    <3>1. NothingNew(t)
      BY <1>1, <1>2, <2>1, <2>9, ToldIs DEF HasNews, NothingNew
    <3>2. down'[t] = down[t] \o answer
      BY <2>6, <2>7, <2>9, ConcatEmpty
    <3> QED BY <2>2, <2>5, <3>1, <3>2 DEF Gets
  <2> QED BY <2>8, <2>9
<1>6. CASE ClockTicks
  <2>1. UNCHANGED <<ready, down, socketState, told, station>>
    BY <1>6 DEF ClockTicks
  <2>2. StationList' = StationList
    BY <1>1, <1>2, <2>1, ToldIs
  <2> QED BY <1>1, <1>3, <2>1, <2>2 DEF NothingNew, Reading, Connected
<1>7. CASE BrowsersAct
  <2>1. UNCHANGED <<socketState, clients, station>>
    BY <1>7 DEF BrowsersAct, host
  <2>2. Connected(t) /\ (down'[t] = down[t] \/ Takes(t))
    BY <1>1, <1>7, BrowserKeeps
  <2>3. NothingNew(t)
    BY <2>1 DEF NothingNew, StationList
  <2> QED BY <1>1, <1>3, <2>1, <2>2, <2>3 DEF Reading
<1> QED BY <1>4, <1>5, <1>6, <1>7, StepKinds

-----------------------------------------------------------------------------
(* A page leaves when it is beside the selected experience.                *)

\* What the Host writes as JSON, the browser's validators read back.
LEMMA ReadBack ==
  /\ \A v \in Slugs \cup {Null} : ReadNullableSlug(Json(v)) = {v}
  /\ \A v \in Clients \cup {Null} : ReadNullableString(Json(v)) = {v}
BY ClientFacts, TextAssumption, NullAssumption
DEF Json, JsonNull, Str, ReadNullableSlug, ReadNullableString, ReadSlug, ReadString

LEMMA OneSelection ==
  ASSUME NEW x, NEW y
  PROVE  [selectedExperienceId: {x}, selectedLaunchClientId: {y}]
           = {[selectedLaunchClientId |-> y, selectedExperienceId |-> x]}
<1>1. ASSUME NEW r \in [selectedExperienceId: {x}, selectedLaunchClientId: {y}]
      PROVE  r = [selectedLaunchClientId |-> y, selectedExperienceId |-> x]
  OBVIOUS
<1>2. [selectedLaunchClientId |-> y, selectedExperienceId |-> x]
        \in [selectedExperienceId: {x}, selectedLaunchClientId: {y}]
  OBVIOUS
<1> QED BY <1>1, <1>2

LEMMA StationReadBack ==
  ASSUME NEW st \in Host!StationState
  PROVE  ValidateStationState(StationMessage(st)) = {st}
<1> DEFINE m == StationMessage(st)
<1>1. /\ m.selectedExperienceId = Json(st.selectedExperienceId)
      /\ m.selectedLaunchClientId = Json(st.selectedLaunchClientId)
  BY DEF StationMessage
<1>2. /\ st = [selectedLaunchClientId |-> st.selectedLaunchClientId,
               selectedExperienceId |-> st.selectedExperienceId]
      /\ st.selectedExperienceId \in Slugs \cup {Null}
      /\ st.selectedLaunchClientId \in Clients \cup {Null}
  BY DEF Host!StationState
<1> HIDE DEF m
<1>3. ValidateStationState(m) =
        [selectedExperienceId: {st.selectedExperienceId},
         selectedLaunchClientId: {st.selectedLaunchClientId}]
  BY <1>1, <1>2, ReadBack DEF ValidateStationState
<1>4. [selectedExperienceId: {st.selectedExperienceId},
        selectedLaunchClientId: {st.selectedLaunchClientId}] = {st}
  BY <1>2, OneSelection
<1> QED BY <1>3, <1>4 DEF m

\* A page refers to a connection it reads before the step already.
LEMMA CurrentBefore ==
  ASSUME PagesOK, ReferencesInv, [Next]_vars, NEW p \in Pages, NEW s, (s \in Current(p))',
         Connected(s)'
  PROVE  s \in Current(p) /\ s \in Sockets /\ s[1] = p /\ s # Null
<1>1. s \in SocketsOf(p) /\ s \in Sockets /\ s[1] = p /\ s = page'[p].socket /\ s # Null
  BY HostAssumption DEF Current, SocketsOf
<1>2. ASSUME NEW q \in Pages, Leave(q) PROVE page'[p].socket = page[p].socket
  BY <1>1, <1>2 DEF Leave, PagesOK, Unloaded
<1>3. ASSUME NEW t \in Sockets, PageMessage(t) PROVE page'[p].socket = page[p].socket
  <2>1. t[1] \in Pages
    BY <1>3, SocketFacts DEF PageMessage
  <2>2. CASE page' = [page EXCEPT ![t[1]].beat = 0]
    BY <2>2 DEF PagesOK, PageState
  <2> QED BY <1>2, <1>3, <2>1, <2>2 DEF PageMessage
<1>4. ASSUME NEW t \in Sockets, CloseEvent(t) PROVE page'[p].socket = page[p].socket
  <2>1. CASE t[1] = Console
    BY <1>4, <2>1 DEF CloseEvent
  <2>2. CASE t[1] \in Pages
    <3>1. page'[t[1]] = PageWith(t[1], Null, NoBeat, page[t[1]].listening, page[t[1]].early)
      BY <1>4, <2>2, SocketFacts DEF CloseEvent, PagesOK
    <3>2. page'[t[1]].socket = Null
      BY <3>1 DEF PageWith
    <3> QED BY <1>1, <1>4, <2>2, <3>2, SocketFacts DEF CloseEvent, PagesOK
  <2> QED BY <2>1, <2>2, SocketFacts
<1>5. ASSUME NEW q \in Pages, Start(q) PROVE page'[p].socket = page[p].socket
  <2>1. CASE page[q].socket # Null
    <3>1. page' = [page EXCEPT ![q].listening = TRUE]
      BY <1>5, <2>1 DEF Start
    <3> QED BY <3>1 DEF PagesOK, PageState
  <2>2. CASE page[q].socket = Null
    <3>1. PICK t \in SocketsOf(q) :
            /\ ready' = [ready EXCEPT ![t] = "connecting"]
            /\ page' = [page EXCEPT ![q] = page'[q]]
            /\ page'[q].socket = t
      BY <1>5, <2>2, StartFacts
    <3>2. ready'[t] = "connecting"
      BY <3>1 DEF PagesOK, SocketsOf
    <3> QED BY <1>1, <3>1, <3>2 DEF PagesOK, Connected
  <2> QED BY <2>1, <2>2
<1>6. ASSUME NEW q \in Pages, Dispose(q) PROVE page'[p].socket = page[p].socket
  <2>1. page'[q] = PageWith(q, Null, NoBeat, FALSE, page[q].early)
    BY <1>6 DEF Dispose, PagesOK
  <2>2. page'[q].socket = Null
    BY <2>1 DEF PageWith
  <2> QED BY <1>1, <1>6, <2>2 DEF Dispose, PagesOK
<1>7. ASSUME NEW q \in Pages, HeartbeatTimer(q) PROVE page'[p].socket = page[p].socket
  BY <1>7 DEF HeartbeatTimer, PagesOK, PageState
<1>8. ASSUME NEW q \in Pages, UserLoads(q) PROVE page'[p].socket = page[p].socket
  BY <1>1, <1>8 DEF UserLoads, PagesOK, Loaded, Unloaded
<1>9. ASSUME Tick PROVE page'[p].socket = page[p].socket
  BY <1>9 DEF Tick, PagesOK, PageState
<1>10. ASSUME UNCHANGED page PROVE page'[p].socket = page[p].socket
  BY <1>10
<1>11. page'[p].socket = page[p].socket
  BY <1>2, <1>3, <1>4, <1>5, <1>6, <1>7, <1>8, <1>9, <1>10
  DEF Next, vars, HostAccepts, HostReceives, HostCloses, OpenEvent, ConsoleMessage, UserLeaves,
      LoadConsole, UnloadConsole, PresenceTimer, OperatorChooses
<1> QED BY <1>1, <1>11 DEF Current

\* A page that reads its connection learns of the selection, or is not beside
\* the selected experience.
Informed(p, s) ==
  \/ Latest(down[s], "station.state", {StationMessage(station)})
  \/ Without(down[s], "station.state") /\ ~IsOther(p, station)

PagesKnow == \A p \in Pages : \A s \in Current(p) : Reading(s) => Informed(p, s)

LEMMA PagesKnowInit == Init => PagesKnow
BY HostAssumption DEF Init, PagesKnow, Current, Unloaded, SocketsOf

LEMMA PagesKnowStep ==
  PagesOK /\ OwnMessages /\ DownOK /\ HostInv /\ HostInv' /\ Sync /\ ReferencesInv /\ PagesKnow
    /\ [Next]_vars => PagesKnow'
<1> SUFFICES ASSUME PagesOK, OwnMessages, DownOK, HostInv, HostInv', Sync, ReferencesInv,
                    PagesKnow, [Next]_vars,
                    NEW p \in Pages, NEW s \in Sockets, (s \in Current(p))', Reading(s)'
             PROVE  Informed(p, s)'
  BY DEF PagesKnow, Current, SocketsOf
<1>1. s \in Current(p) /\ s \in Sockets /\ s[1] = p /\ s # Null
  BY CurrentBefore DEF Reading
<1>2. down[s] \in Seq(DownMessage) /\ station \in Host!StationState
  BY <1>1, ToldTypes DEF DownOK
<1>3. CASE Learns(s)
  <2>1. PICK q \in Seq(DownMessage) : down'[s] = q \o News(s, station', StationList')
    BY <1>3 DEF Learns
  <2>2. told'[s].list = StationList'
    BY <1>1 DEF HostInv, Host!OpenSocketsUpToDate, StationList, Reading
  <2>3. station' \in Host!StationState /\ StationList' \in SUBSET Host!RuntimeClientSummary
    BY <1>1, <2>2 DEF HostInv, Host!TypeOK
  <2> DEFINE news == News(s, station', StationList')
             m == StationMessage(station')
  <2>4. news \in Seq(DownMessage) /\ Latest(news, "station.state", {m})
    BY <1>1, <2>3, NewsFacts
  <2>5. down'[s] = q \o news
    BY <2>1
  <2> HIDE DEF news, m
  <2>6. Latest(down'[s], "station.state", {m})
    BY <2>4, <2>5, LatestConcat
  <2> QED BY <2>6 DEF Informed, m, StationMessage, Latest
<1>4. ASSUME Reading(s), NothingNew(s) PROVE Informed(p, s) /\ station' = station
  BY <1>1, <1>4 DEF PagesKnow, NothingNew
<1>5. ASSUME station' = station,
             \/ Latest(down'[s], "station.state", {StationMessage(station)})
             \/ Without(down'[s], "station.state") /\ ~IsOther(p, station)
      PROVE  Informed(p, s)'
  <2>1. /\ StationMessage(station)' = StationMessage(station)
        /\ IsOther(p, station)' <=> IsOther(p, station)
    BY <1>5, OptionsStay DEF StationMessage, IsOther, HelloOf
  <2> QED BY <1>5, <2>1 DEF Informed, Latest, Without
<1>6. CASE Reading(s) /\ NothingNew(s) /\ Gets(s)
  <2>1. PICK f \in Seq(DownMessage) : Plain(f) /\ down'[s] = down[s] \o f
    BY <1>6 DEF Gets
  <2>2. Without(f, "station.state")
    BY <2>1 DEF Plain
  <2>3. Informed(p, s) /\ station' = station
    BY <1>4, <1>6
  <2>4. CASE Latest(down[s], "station.state", {StationMessage(station)})
    BY <1>2, <1>5, <2>1, <2>2, <2>3, <2>4, LatestConcat
  <2>5. CASE Without(down[s], "station.state") /\ ~IsOther(p, station)
    BY <1>2, <1>5, <2>1, <2>2, <2>3, <2>5, WithoutConcat
  <2> QED BY <2>3, <2>4, <2>5 DEF Informed
<1>7. CASE Reading(s) /\ NothingNew(s) /\ Takes(s)
  <2>1. down[s] # <<>> /\ down'[s] = Tail(down[s]) /\ PageMessage(s)
    BY <1>1, <1>7, SocketFacts DEF Takes, ConsoleMessage
  <2>2. Informed(p, s) /\ station' = station
    BY <1>4, <1>7
  <2>3. CASE Latest(Tail(down[s]), "station.state", {StationMessage(station)})
    BY <1>5, <2>1, <2>2, <2>3
  <2>4. CASE Without(down[s], "station.state") /\ ~IsOther(p, station)
    BY <1>2, <1>5, <2>1, <2>2, <2>4, LatestTail
  <2>5. CASE Head(down[s]) = StationMessage(station) /\ Without(Tail(down[s]), "station.state")
    <3>1. Head(down[s]).type = "station.state"
      BY <2>5 DEF StationMessage
    <3>2. page[p].listening
      BY <1>1 DEF ReferencesInv, RefersToOwn, Current
    <3>3. ~Leave(p)
      BY <1>1 DEF Leave, Reading, Connected, SocketsOf
    <3>4. ~\E st \in ValidateStationState(Head(down[s])) : IsOther(p, st)
      BY <1>1, <2>1, <3>1, <3>2, <3>3 DEF PageMessage
    <3>5. ~IsOther(p, station)
      BY <1>2, <2>5, <3>4, StationReadBack
    <3> QED BY <1>5, <2>1, <2>2, <2>5, <3>5
  <2>6. \/ Without(down[s], "station.state") /\ ~IsOther(p, station)
        \/ Latest(Tail(down[s]), "station.state", {StationMessage(station)})
        \/ Head(down[s]) \in {StationMessage(station)} /\ Without(Tail(down[s]), "station.state")
    BY <1>2, <2>1, <2>2, LatestTail DEF Informed
  <2> QED BY <2>3, <2>4, <2>5, <2>6
<1> QED BY <1>1, <1>3, <1>6, <1>7, KnowledgeStep

\* When nothing is on its way to it, a connected page that listens is not
\* beside the selected experience (experience-client.ts: handleStationState;
\* ws/gateway.ts: the broadcasts to every open socket).
THEOREM PagesLeaveForTheSelected == Spec => []OthersLeave
<1> DEFINE Inv == /\ PagesOK /\ OwnMessages /\ DownOK /\ Sync /\ ReferencesInv /\ PagesKnow
<1>1. Init => Inv
  BY PagesInit, OwnInit, DownInit, SyncInit, ReferencesInit, PagesKnowInit
<1>2. Inv /\ HostInv /\ HostInv' /\ [Next]_vars => Inv'
  BY PagesStep, OwnStep, DownStep, SyncStep, ReferencesStep, PagesKnowStep
<1>3. Inv => OthersLeave
  BY DEF OthersLeave, PagesKnow, Informed, Reading, Connected, Latest
<1> QED BY <1>1, <1>2, <1>3, RegistryHolds, PTL DEF Spec

-----------------------------------------------------------------------------
(* What the Host's steps do to the entries of a page's clientId.           *)

\* The entries with the page's clientId are online and heard of lately.
HeardWithin(p, n) ==
  \A e \in clients :
    e.clientId \in ReadString(HelloOf(p).clientId) => e.status = "online" /\ e.age =< n

LEMMA EntryTypes ==
  ASSUME HostInv
  PROVE  \A e \in clients : /\ e \in Host!RuntimeClient /\ e.age \in Nat
                            /\ e.clientId \in Clients \cup {Null}
BY IntervalAssumption DEF HostInv, Host!TypeOK, Host!RuntimeClient, Host!AgeCap

LEMMA OwnIds ==
  ASSUME PagesOK, NEW p \in Pages
  PROVE  /\ Null \notin ReadString(HelloOf(p).clientId)
         /\ \A c, d \in ReadString(HelloOf(p).clientId) : c = d
BY OptionFacts, ReadStringIs DEF PagesOK, HelloOf

\* A hello or a heartbeat of the page leaves its entry just heard of.
LEMMA HelloHeard ==
  ASSUME PagesOK, HostInv, NEW p \in Pages, options' = options, NEW s \in Sockets, NEW x \in Slugs,
         NEW c \in ReadString(HelloOf(p).clientId), Host!Hello(s, c, x)
  PROVE  HeardWithin(p, 0)'
<1> DEFINE new == [socket |-> s, clientId |-> c, experienceId |-> x,
                   status |-> "online", age |-> 0, held |-> TRUE]
<1>1. clients' = (clients \ (Host!Duplicates(s, c) \cup Host!HeldBy(clients, s))) \cup {new}
  BY DEF Host!Hello
<1>2. ASSUME NEW e \in clients, e.clientId = c
      PROVE  e \in Host!Duplicates(s, c) \cup Host!HeldBy(clients, s)
  <2>1. c # Null
    BY OwnIds
  <2>2. \A f \in clients : f.clientId = c => f = e
    BY <1>2, <2>1 DEF HostInv, Host!OneEntryPerClient
  <2>3. e \in Host!FindByClientId(clients, c)
    BY <1>2, <2>2 DEF Host!FindByClientId
  <2> QED BY <2>3 DEF Host!Duplicates
<1>3. \A e \in clients' : e.clientId = c => e = new
  BY <1>1, <1>2
<1>4. new.status = "online" /\ new.age = 0
  OBVIOUS
<1> HIDE DEF new
<1> QED BY <1>3, <1>4, OwnIds DEF HeardWithin, HelloOf

LEMMA ReplacementIs ==
  ASSUME NEW e, NEW status, NEW age
  PROVE  /\ Host!Replacement(e, status, age).status = status
         /\ Host!Replacement(e, status, age).age = age
         /\ Host!Replacement(e, status, age).clientId = e.clientId
BY DEF Host!Replacement

LEMMA HeartbeatHeard ==
  ASSUME PagesOK, HostInv, NEW p \in Pages, options' = options, NEW s \in Sockets,
         NEW c \in ReadString(HelloOf(p).clientId), Host!Heartbeat(s, c)
  PROVE  HeardWithin(p, 0)'
<1>1. PICK e \in Host!FindByClientId(clients, c) :
        clients' = (clients \ {e}) \cup {Host!Replacement(e, "online", 0)}
  BY DEF Host!Heartbeat
<1>2. e \in clients /\ e.clientId = c /\ c # Null
  BY OwnIds DEF Host!FindByClientId
<1>3. \A f \in clients : f.clientId = c => f = e
  BY <1>2 DEF HostInv, Host!OneEntryPerClient
<1>4. \A f \in clients' : f.clientId = c => f = Host!Replacement(e, "online", 0)
  BY <1>1, <1>3
<1> QED BY <1>4, ReplacementIs, OwnIds DEF HeardWithin, HelloOf

\* The timer passes over an entry that was heard of within the threshold.
LEMMA HeardIsNotStale ==
  ASSUME HostInv, NEW p \in Pages, options' = options, NEW n \in Nat, n =< StaleAfter,
         HeardWithin(p, n), Host!MarkStaleRuntimeClients
  PROVE  HeardWithin(p, n)'
<1>1. clients' = {Host!MarkedStale(e) : e \in clients}
  BY DEF Host!MarkStaleRuntimeClients
<1>2. ASSUME NEW e \in clients,
             Host!MarkedStale(e).clientId \in ReadString(HelloOf(p).clientId)
      PROVE  Host!MarkedStale(e).status = "online" /\ Host!MarkedStale(e).age =< n
  <2>1. Host!MarkedStale(e).clientId = e.clientId
    BY ReplacementIs DEF Host!MarkedStale
  <2>2. e.status = "online" /\ e.age =< n /\ e.age \in Nat
    BY <1>2, <2>1, EntryTypes DEF HeardWithin
  <2>3. ~(e.age > StaleAfter)
    BY <2>2, IntervalAssumption
  <2> QED BY <2>2, <2>3 DEF Host!MarkedStale
<1> QED BY <1>1, <1>2 DEF HeardWithin, HelloOf

\* The Host's other steps add nobody who was not just heard of.
LEMMA HeardIsKept ==
  ASSUME PagesOK, HostInv, NEW p \in Pages, options' = options, NEW n \in Nat, n =< StaleAfter,
         HeardWithin(p, n),
         \/ \E s \in Sockets : Host!Connect(s) \/ Host!RejectHello(s) \/ Host!SocketClosed(s)
         \/ \E s \in Sockets, c \in Clients, x \in Slugs : Host!Hello(s, c, x)
         \/ \E s \in Sockets, c \in Clients : Host!Heartbeat(s, c)
         \/ Host!MarkStaleRuntimeClients \/ Host!Operator
         \/ UNCHANGED host
  PROVE  HeardWithin(p, n)'
<1>1. ASSUME clients' \subseteq clients PROVE HeardWithin(p, n)'
  BY <1>1 DEF HeardWithin, HelloOf
<1>2. ASSUME NEW s \in Sockets, Host!Connect(s) PROVE HeardWithin(p, n)'
  <2> DEFINE new == [socket |-> s, clientId |-> Null, experienceId |-> Null,
                     status |-> "unregistered", age |-> 0, held |-> TRUE]
  <2>1. clients' = clients \cup {new} /\ new.clientId = Null
    BY <1>2 DEF Host!Connect
  <2> HIDE DEF new
  <2> QED BY <2>1, OwnIds DEF HeardWithin, HelloOf
<1>3. ASSUME NEW s \in Sockets, NEW c \in Clients, NEW x \in Slugs, Host!Hello(s, c, x)
      PROVE  HeardWithin(p, n)'
  <2> DEFINE new == [socket |-> s, clientId |-> c, experienceId |-> x,
                     status |-> "online", age |-> 0, held |-> TRUE]
  <2>1. clients' \subseteq clients \cup {new} /\ new.status = "online" /\ new.age = 0
    BY <1>3 DEF Host!Hello
  <2> HIDE DEF new
  <2> QED BY <2>1 DEF HeardWithin, HelloOf
<1>4. ASSUME NEW s \in Sockets, NEW c \in Clients, Host!Heartbeat(s, c) PROVE HeardWithin(p, n)'
  <2>1. PICK e : clients' = (clients \ {e}) \cup {Host!Replacement(e, "online", 0)}
    BY <1>4 DEF Host!Heartbeat
  <2> QED BY <2>1, ReplacementIs DEF HeardWithin, HelloOf
<1>5. CASE Host!MarkStaleRuntimeClients
  BY <1>5, HeardIsNotStale
<1> QED
  BY <1>1, <1>2, <1>3, <1>4, <1>5
  DEF host, Host!RejectHello, Host!SocketClosed, Host!Operator, Host!SelectLaunchClient,
      Host!ClearLaunchClient

LEMMA HeardAges ==
  ASSUME HostInv, NEW p \in Pages, options' = options, NEW n \in Nat, HeardWithin(p, n), Host!Tick
  PROVE  HeardWithin(p, n + 1)'
<1>1. clients' = {Host!Older(e) : e \in clients}
  BY DEF Host!Tick
<1>2. ASSUME NEW e \in clients,
             Host!Older(e).clientId \in ReadString(HelloOf(p).clientId)
      PROVE  Host!Older(e).status = "online" /\ Host!Older(e).age =< n + 1
  <2>1. e \in Host!RuntimeClient /\ e.age \in Nat
    BY EntryTypes
  <2>2. /\ Host!Older(e).clientId = e.clientId /\ Host!Older(e).status = e.status
        /\ Host!Older(e).age =< e.age + 1
    BY <2>1 DEF Host!Older, Host!RuntimeClient
  <2>3. e.status = "online" /\ e.age =< n
    BY <1>2, <2>2 DEF HeardWithin
  <2>4. Host!Older(e).age \in Int
    BY <2>1 DEF Host!Older, Host!RuntimeClient
  <2> QED BY <2>1, <2>2, <2>3, <2>4
<1> QED BY <1>1, <1>2 DEF HeardWithin, HelloOf

-----------------------------------------------------------------------------
(* What a connection was told of its registration.                         *)

\* A connection is registered with the clientId of its page, and an answer on
\* its way finds the page's entry just heard of.
Registered ==
  \A s \in Sockets :
    /\ told[s].registered # Null =>
         s[1] \in Pages /\ told[s].registered \in ReadString(HelloOf(s[1]).clientId)
    /\ socketState[s] = "open" /\ ~Without(down[s], "client.registered") =>
         told[s].registered # Null /\ HeardWithin(s[1], 0)

\* Only a hello on the connection registers it.
RegistrationKept(t) ==
  /\ told'[t].registered \in {told[t].registered, Null}
  /\ socketState'[t] = "open" => told'[t].registered = told[t].registered

LEMMA PublishKeeps ==
  ASSUME HostInv, NEW listToo, Host!Publish(listToo), NEW t \in Sockets
  PROVE  RegistrationKept(t)
<1>1. told[t] \in [registered: Clients \cup {Null}, station: Host!StationState,
                   list: SUBSET Host!RuntimeClientSummary]
  BY DEF HostInv, Host!TypeOK
<1>2. Host!NothingTold.registered = Null
  BY DEF Host!NothingTold
<1>3. \/ socketState'[t] # "open" /\ told'[t] = Host!NothingTold
      \/ told'[t] = told[t]
      \/ \E st, list : told'[t] = [told[t] EXCEPT !.station = st, !.list = list]
  BY DEF Host!Publish
<1>4. ASSUME NEW st, NEW list, told'[t] = [told[t] EXCEPT !.station = st, !.list = list]
      PROVE  told'[t].registered = told[t].registered
  BY <1>1, <1>4
<1> QED BY <1>2, <1>3, <1>4 DEF RegistrationKept

LEMMA RegistrationStep ==
  ASSUME HostInv, NEW t \in Sockets,
         \/ \E s \in Sockets : \/ Host!Connect(s) /\ t # s
                               \/ Host!RejectHello(s) \/ Host!SocketClosed(s)
         \/ \E s \in Sockets, c \in Clients, x \in Slugs : Host!Hello(s, c, x) /\ t # s
         \/ \E s \in Sockets, c \in Clients : Host!Heartbeat(s, c)
         \/ Host!MarkStaleRuntimeClients \/ Host!Operator \/ Host!Tick
         \/ UNCHANGED host
  PROVE  RegistrationKept(t)
<1>1. CASE UNCHANGED told
  BY <1>1 DEF RegistrationKept
<1>2. CASE \E listToo : Host!Publish(listToo)
  BY <1>2, PublishKeeps
<1>3. ASSUME NEW s \in Sockets, Host!Connect(s), t # s PROVE RegistrationKept(t)
  BY <1>3 DEF Host!Connect, RegistrationKept, HostInv, Host!TypeOK
<1>4. ASSUME NEW s \in Sockets, Host!RejectHello(s) PROVE RegistrationKept(t)
  BY <1>4 DEF Host!RejectHello, RegistrationKept, HostInv, Host!TypeOK, Host!NothingTold
<1>5. ASSUME NEW s \in Sockets, NEW c \in Clients, NEW x \in Slugs, Host!Hello(s, c, x), t # s
      PROVE  RegistrationKept(t)
  BY <1>5 DEF Host!Hello, RegistrationKept, Host!NothingTold
<1> QED
  BY <1>1, <1>2, <1>3, <1>4, <1>5
  DEF host, Host!SocketClosed, Host!Heartbeat, Host!MarkStaleRuntimeClients, Host!Operator,
      Host!SelectLaunchClient, Host!ClearLaunchClient, Host!Tick

LEMMA HelloRegisters ==
  ASSUME HostInv, NEW s \in Sockets, NEW c \in Clients, NEW x \in Slugs, Host!Hello(s, c, x)
  PROVE  /\ told'[s].registered \in {c, Null}
         /\ socketState'[s] = "open" => told'[s].registered = c
<1>1. Host!Reached(s) <=> socketState'[s] = "open"
  BY DEF Host!Reached, Host!Hello
<1>2. told'[s] = IF socketState'[s] # "open" THEN Host!NothingTold
                 ELSE [registered |-> c,
                       station |-> IF station' # station THEN station' ELSE told[s].station,
                       list |-> Host!ListRuntimeClients(clients')]
  BY <1>1 DEF Host!Hello
<1> QED BY <1>2 DEF Host!NothingTold

\* client.registered is sent in answer to a hello only.
LEMMA RegisteredSent ==
  ASSUME DownOK, HostInv', NEW s, NEW first \in Seq(DownMessage), HostSends(s, first),
         NEW t \in Sockets, t # s \/ Without(first, "client.registered"),
         Without(down[t], "client.registered")
  PROVE  Without(down'[t], "client.registered")
<1> DEFINE answer == IF t = s THEN first ELSE <<>>
           news == IF HasNews(t) THEN News(t, told'[t].station, told'[t].list) ELSE <<>>
<1>1. answer \in Seq(DownMessage) /\ Without(answer, "client.registered")
  BY EmptyIsSeq DEF Without
<1>2. told'[t].station \in Host!StationState /\ told'[t].list \in SUBSET Host!RuntimeClientSummary
  BY DEF HostInv, Host!TypeOK
<1>3. news \in Seq(DownMessage)
  BY <1>2, NewsFacts, EmptyIsSeq
<1>4. Without(news, "client.registered")
  BY DEF News, Without, StationMessage, ClientsMessage
<1>5. down[t] \in Seq(DownMessage)
  BY DEF DownOK
<1>6. ~IsLive(t) => down'[t] = <<>>
  BY SentIs
<1>7. IsLive(t) => down'[t] = (down[t] \o answer) \o news
  BY SentIs
<1> HIDE DEF answer, news
<1>8. down[t] \o answer \in Seq(DownMessage) /\ Without(down[t] \o answer, "client.registered")
  BY <1>1, <1>5, ConcatFacts, WithoutConcat
<1>9. Without((down[t] \o answer) \o news, "client.registered")
  BY <1>3, <1>4, <1>8, WithoutConcat
<1> QED BY SMTT(30), <1>6, <1>7, <1>9 DEF Without

\* In steps of the browsers a connection loses messages at most.
LEMMA BrowsersTake ==
  ASSUME DownOK, BrowsersAct, NEW t \in Sockets
  PROVE  down'[t] \in {down[t], <<>>} \/ (down[t] # <<>> /\ down'[t] = Tail(down[t]))
BY SocketFacts
DEF BrowsersAct, DownOK, OpenEvent, PageMessage, ConsoleMessage, CloseEvent, Start, Dispose,
    UserLeaves, Leave, LoadConsole, UnloadConsole

LEMMA BrowsersOnlyTake ==
  ASSUME DownOK, BrowsersAct, NEW t \in Sockets, NEW type, Without(down[t], type)
  PROVE  Without(down'[t], type)
<1>1. down'[t] \in {down[t], <<>>} \/ (down[t] # <<>> /\ down'[t] = Tail(down[t]))
  BY BrowsersTake
<1>2. down[t] \in Seq(DownMessage)
  BY DEF DownOK
<1>3. down[t] # <<>> => Without(Tail(down[t]), type)
  BY <1>2, LatestTail
<1>4. Without(<<>>, type)
  BY DEF Without
<1> QED BY <1>1, <1>3, <1>4

LEMMA RegisteredInit == Init => Registered
BY DEF Init, Registered, Host!Init, Host!NothingTold

\* The Host's steps that answer no hello.
LEMMA RegisteredOtherwise ==
  ASSUME PagesOK, DownOK, HostInv, Registered, options' = options, NEW t \in Sockets,
         RegistrationKept(t),
         socketState'[t] = "open" => socketState[t] = "open",
         Without(down[t], "client.registered") => Without(down'[t], "client.registered"),
         socketState'[t] = "open" /\ ~Without(down'[t], "client.registered")
           /\ t[1] \in Pages /\ HeardWithin(t[1], 0) => HeardWithin(t[1], 0)'
  PROVE  /\ told'[t].registered # Null =>
              t[1] \in Pages /\ told'[t].registered \in ReadString(HelloOf(t[1])'.clientId)
         /\ socketState'[t] = "open" /\ ~Without(down'[t], "client.registered") =>
              told'[t].registered # Null /\ HeardWithin(t[1], 0)'
<1>1. HelloOf(t[1])' = HelloOf(t[1])
  BY DEF HelloOf
<1>2. told'[t].registered # Null =>
        t[1] \in Pages /\ told'[t].registered \in ReadString(HelloOf(t[1])'.clientId)
  BY <1>1 DEF Registered, RegistrationKept
<1>3. ASSUME socketState'[t] = "open", ~Without(down'[t], "client.registered")
      PROVE  told'[t].registered # Null /\ HeardWithin(t[1], 0)'
  <2>1. told[t].registered # Null /\ HeardWithin(t[1], 0)
    BY <1>3 DEF Registered
  <2>2. t[1] \in Pages
    BY <2>1 DEF Registered
  <2> QED BY <1>3, <2>1, <2>2 DEF RegistrationKept
<1> QED BY <1>2, <1>3

LEMMA RegisteredStep ==
  PagesOK /\ OwnMessages /\ DownOK /\ HostInv /\ HostInv' /\ Sync /\ Registered /\ [Next]_vars
    => Registered'
<1> DEFINE Right(t) ==
      /\ told'[t].registered # Null =>
           t[1] \in Pages /\ told'[t].registered \in ReadString(HelloOf(t[1])'.clientId)
      /\ socketState'[t] = "open" /\ ~Without(down'[t], "client.registered") =>
           told'[t].registered # Null /\ HeardWithin(t[1], 0)'
<1> SUFFICES ASSUME PagesOK, OwnMessages, DownOK, HostInv, HostInv', Sync, Registered, [Next]_vars,
                    NEW t \in Sockets
             PROVE  Right(t)
  BY DEF Registered, Without
<1>1. options' = options
  BY OptionsStay
<1>2. 0 \in Nat /\ 0 =< StaleAfter /\ Without(<<>>, "client.registered")
  BY IntervalAssumption DEF Without
<1>3. ASSUME RegistrationKept(t), HostGoesOn \/ UNCHANGED host, ~Host!Tick,
             Without(down[t], "client.registered") => Without(down'[t], "client.registered")
      PROVE  Right(t)
  <2>1. socketState'[t] = "open" => socketState[t] = "open"
    BY <1>3, SocketsOnlyEnd
  <2>2. t[1] \in Pages /\ HeardWithin(t[1], 0) => HeardWithin(t[1], 0)'
    BY <1>1, <1>2, <1>3, HeardIsKept DEF HostGoesOn
  <2> QED BY <1>1, <1>3, <2>1, <2>2, RegisteredOtherwise
<1>4. ASSUME NEW s \in Sockets, HostAccepts(s) PROVE Right(t)
  <2>1. /\ Host!Connect(s) /\ HostSends(s, News(s, station', StationList'))
        /\ ready[s] = "connecting"
        /\ told'[s].registered = Null
        /\ t # s => socketState'[t] = socketState[t] /\ told'[t] = told[t]
        /\ told'[s].list = StationList'
    BY <1>4, AcceptedFacts DEF HostAccepts, HostInv, Host!OpenSocketsUpToDate, StationList
  <2> DEFINE news == News(s, station', StationList')
  <2>2. station' \in Host!StationState /\ StationList' \in SUBSET Host!RuntimeClientSummary
    BY <2>1 DEF HostInv, Host!TypeOK
  <2>3. HostSends(s, news) /\ news \in Seq(DownMessage)
    BY <2>1, <2>2, NewsFacts
  <2>4. Without(news, "client.registered")
    BY DEF News, Without, StationMessage, ClientsMessage
  <2> HIDE DEF news
  <2>5. Without(down[t], "client.registered") => Without(down'[t], "client.registered")
    BY <2>3, <2>4, RegisteredSent
  <2>6. CASE t = s
    <3>1. Without(down[t], "client.registered")
      BY <2>1, <2>6 DEF Sync, Without
    <3> QED BY <2>1, <2>5, <2>6, <3>1
  <2>7. CASE t # s
    <3>1. RegistrationKept(t) /\ (socketState'[t] = "open" => socketState[t] = "open")
      BY <2>1, <2>7 DEF RegistrationKept
    <3>2. t[1] \in Pages /\ HeardWithin(t[1], 0) => HeardWithin(t[1], 0)'
      BY <1>1, <1>2, <2>1, HeardIsKept
    <3> QED BY <1>1, <2>5, <3>1, <3>2, RegisteredOtherwise
  <2> QED BY <2>6, <2>7
<1>5. ASSUME NEW s \in Sockets, HostReceives(s) PROVE Right(t)
  <2>1. s[1] \in Pages
    BY <1>5, ReceivedIs
  <2>2. ASSUME NEW v \in ValidateClientHello(HelloOf(s[1])), v.clientId \in Clients,
               v.experienceId \in Slugs, Host!Hello(s, v.clientId, v.experienceId),
               HostSends(s, IF socketState'[s] = "open"
                            THEN <<RegisteredMessage(v.clientId, station')>> ELSE <<>>)
        PROVE  Right(t)
    <3>1. v.clientId \in ReadString(HelloOf(s[1]).clientId)
      BY DEF ValidateClientHello
    <3>2. CASE t = s
      <4>1. HeardWithin(t[1], 0)'
        BY <1>1, <2>1, <2>2, <3>1, <3>2, HelloHeard
      <4>2. /\ told'[t].registered \in {v.clientId, Null}
            /\ socketState'[t] = "open" => told'[t].registered = v.clientId
        BY <2>2, <3>2, HelloRegisters
      <4>3. v.clientId # Null
        BY <2>1, <3>1, OwnIds
      <4> QED BY <1>1, <2>1, <3>1, <3>2, <4>1, <4>2, <4>3 DEF HelloOf
    <3>3. CASE t # s
      <4>1. RegistrationKept(t)
        BY <2>2, <3>3, RegistrationStep
      <4> DEFINE first == IF socketState'[s] = "open"
                          THEN <<RegisteredMessage(v.clientId, station')>> ELSE <<>>
      <4>2. RegisteredMessage(v.clientId, station') \in DownMessage
        BY <2>2, AnswerFacts DEF HostInv, Host!TypeOK
      <4>3. first \in Seq(DownMessage) /\ HostSends(s, first)
        BY <2>2, <4>2, SingleFacts
      <4> HIDE DEF first
      <4>4. Without(down[t], "client.registered") => Without(down'[t], "client.registered")
        BY <3>3, <4>3, RegisteredSent
      <4>5. HostGoesOn /\ ~Host!Tick
        <5>1. HostGoesOn
          BY <2>2 DEF HostGoesOn
        <5>2. UNCHANGED sinceCheck
          BY <2>2 DEF Host!Hello
        <5>3. sinceCheck \in Int
          BY IntervalAssumption DEF HostInv, Host!TypeOK
        <5> QED BY <5>1, <5>2, <5>3 DEF Host!Tick
      <4> QED BY <1>3, <4>1, <4>4, <4>5
    <3> QED BY <3>2, <3>3
  <2>3. ASSUME Host!RejectHello(s), HostSends(s, <<[type |-> "client.rejected"]>>)
        PROVE  Right(t)
    <3> DEFINE m == [type |-> "client.rejected"]
    <3>1. m \in DownMessage /\ m.type # "client.registered"
      BY AnswerFacts
    <3> HIDE DEF m
    <3>2. <<m>> \in Seq(DownMessage) /\ Without(<<m>>, "client.registered")
      BY <3>1, SingleFacts
    <3>3. HostSends(s, <<m>>)
      BY <2>3 DEF m
    <3>4. Without(down[t], "client.registered") => Without(down'[t], "client.registered")
      BY <3>2, <3>3, RegisteredSent
    <3>5. RegistrationKept(t) /\ HostGoesOn
      BY <2>3, RegistrationStep DEF HostGoesOn
    <3>6. ~Host!Tick
      BY <2>3 DEF Host!RejectHello, Host!Tick, HostInv, Host!TypeOK
    <3> QED BY <1>3, <3>4, <3>5, <3>6
  <2>4. ASSUME NEW c \in Clients, Host!Heartbeat(s, c), HostSends(s, <<>>)
        PROVE  Right(t)
    <3>1. Without(down[t], "client.registered") => Without(down'[t], "client.registered")
      BY <1>2, <2>4, PlainEmpty, RegisteredSent
    <3>2. RegistrationKept(t) /\ HostGoesOn
      BY <2>4, RegistrationStep DEF HostGoesOn
    <3>3. ~Host!Tick
      BY <2>4 DEF Host!Heartbeat, Host!Tick, HostInv, Host!TypeOK
    <3> QED BY <1>3, <3>1, <3>2, <3>3
  <2>5. CASE UNCHANGED <<host, down>>
    <3>1. RegistrationKept(t) /\ UNCHANGED host
      BY <2>5 DEF host, RegistrationKept
    <3>2. ~Host!Tick
      BY <2>5 DEF host, Host!Tick, HostInv, Host!TypeOK
    <3> QED BY <1>3, <2>5, <3>1, <3>2
  <2> QED BY <1>5, <2>2, <2>3, <2>4, <2>5, ReceivedIs
<1>6. ASSUME NEW s, HostSends(s, <<>>), HostGoesOn, ~Host!Tick, RegistrationKept(t) PROVE Right(t)
  <2>1. Without(down[t], "client.registered") => Without(down'[t], "client.registered")
    BY <1>2, <1>6, PlainEmpty, RegisteredSent
  <2> QED BY <1>3, <1>6, <2>1
<1>7. ASSUME NEW s \in Sockets, HostCloses(s) PROVE Right(t)
  <2>1. HostGoesOn /\ RegistrationKept(t)
    BY <1>7, RegistrationStep DEF HostCloses, HostGoesOn
  <2>2. ~Host!Tick
    BY <1>7 DEF HostCloses, Host!SocketClosed, Host!Tick, HostInv, Host!TypeOK
  <2> QED BY <1>6, <1>7, <2>1, <2>2 DEF HostCloses
<1>8. CASE PresenceTimer
  <2>1. HostGoesOn /\ RegistrationKept(t)
    BY <1>8, RegistrationStep DEF PresenceTimer, HostGoesOn
  <2>2. ~Host!Tick
    BY <1>8, IntervalAssumption DEF PresenceTimer, Host!MarkStaleRuntimeClients, Host!Tick
  <2> QED BY <1>6, <1>8, <2>1, <2>2 DEF PresenceTimer
<1>9. CASE OperatorChooses
  <2>1. Host!Operator
    BY <1>9 DEF OperatorChooses, Host!Operator
  <2>2. HostGoesOn /\ RegistrationKept(t)
    BY <2>1, RegistrationStep DEF HostGoesOn
  <2>3. ~Host!Tick
    <3>1. UNCHANGED sinceCheck
      BY <2>1 DEF Host!Operator, Host!ClearLaunchClient, Host!SelectLaunchClient
    <3>2. sinceCheck \in Int
      BY IntervalAssumption DEF HostInv, Host!TypeOK
    <3> QED BY <3>1, <3>2 DEF Host!Tick
  <2> QED BY <1>6, <1>9, <2>2, <2>3 DEF OperatorChooses
<1>10. CASE Tick
  <2>1. Without(down'[t], "client.registered")
    BY <1>10 DEF Tick, NothingOverdue, Sync, Without
  <2>2. RegistrationKept(t) /\ UNCHANGED socketState
    BY <1>10 DEF Tick, Host!Tick, RegistrationKept
  <2> QED BY <1>1, <2>1, <2>2, RegisteredOtherwise
<1>11. CASE BrowsersAct
  <2>1. RegistrationKept(t) /\ UNCHANGED host
    BY <1>11 DEF BrowsersAct, host, RegistrationKept
  <2>2. ~Host!Tick
    BY <2>1 DEF host, Host!Tick, HostInv, Host!TypeOK
  <2>3. Without(down[t], "client.registered") => Without(down'[t], "client.registered")
    BY <1>11, BrowsersOnlyTake
  <2> QED BY <1>3, <2>1, <2>2, <2>3
<1> HIDE DEF Right
<1> QED
  BY <1>4, <1>5, <1>7, <1>8, <1>9, <1>10, <1>11
  DEF Next, vars, BrowsersAct, OpenEvent, PageMessage, ConsoleMessage, CloseEvent, Start, Dispose,
      HeartbeatTimer, UserLoads, UserLeaves, LoadConsole, UnloadConsole

-----------------------------------------------------------------------------
(* A page whose heartbeat runs is heard of.                                *)

\* What any step leaves true of the Host's side of a connection that goes on.
LEMMA HostOrBrowsers ==
  ASSUME [Next]_vars
  PROVE  \/ \E s \in Sockets : HostAccepts(s) \/ HostReceives(s) \/ HostCloses(s)
         \/ PresenceTimer \/ OperatorChooses \/ Tick
         \/ UNCHANGED host
BY DEF Next, vars, OpenEvent, PageMessage, ConsoleMessage, CloseEvent, Start, Dispose,
       HeartbeatTimer, UserLoads, UserLeaves, LoadConsole, UnloadConsole

LEMMA HostFrame ==
  ASSUME PagesOK, OwnMessages, HostInv, HostInv', [Next]_vars, NEW p \in Pages,
         NEW t \in Sockets, ready[t] # "connecting", socketState'[t] = "open"
  PROVE  /\ socketState[t] = "open"
         /\ told[t].registered # Null => told'[t].registered # Null
         /\ ~Tick => \A n \in Nat : n =< StaleAfter /\ HeardWithin(p, n) => HeardWithin(p, n)'
<1> DEFINE Frame == /\ socketState[t] = "open"
                    /\ told[t].registered # Null => told'[t].registered # Null
                    /\ ~Tick => \A n \in Nat :
                         n =< StaleAfter /\ HeardWithin(p, n) => HeardWithin(p, n)'
<1> SUFFICES Frame
  OBVIOUS
<1>1. options' = options
  BY OptionsStay
<1>2. ASSUME NEW s \in Sockets, HostAccepts(s) PROVE Frame
  <2>1. t # s /\ Host!Connect(s)
    BY <1>2 DEF HostAccepts
  <2>2. socketState[t] = "open" /\ told'[t] = told[t]
    BY <1>2, <2>1, AcceptedFacts
  <2>3. \A n \in Nat : n =< StaleAfter /\ HeardWithin(p, n) => HeardWithin(p, n)'
    BY <1>1, <2>1, HeardIsKept
  <2> QED BY <2>2, <2>3
<1>3. ASSUME HostGoesOn \/ UNCHANGED host, ~Host!Tick,
             RegistrationKept(t) \/ told'[t].registered # Null
      PROVE  Frame
  <2>1. socketState[t] = "open"
    BY <1>3, SocketsOnlyEnd
  <2>2. told[t].registered # Null => told'[t].registered # Null
    BY <1>3 DEF RegistrationKept
  <2>3. \A n \in Nat : n =< StaleAfter /\ HeardWithin(p, n) => HeardWithin(p, n)'
    BY <1>1, <1>3, HeardIsKept DEF HostGoesOn
  <2> QED BY <2>1, <2>2, <2>3
<1>4. UNCHANGED sinceCheck => ~Host!Tick
  BY IntervalAssumption DEF Host!Tick, HostInv, Host!TypeOK
<1>5. ASSUME NEW s \in Sockets, NEW c \in Clients, NEW x \in Slugs, Host!Hello(s, c, x) PROVE Frame
  <2>1. HostGoesOn /\ ~Host!Tick
    BY <1>4, <1>5 DEF HostGoesOn, Host!Hello
  <2>2. RegistrationKept(t) \/ told'[t].registered # Null
    BY <1>5, RegistrationStep, HelloRegisters, ClientFacts
  <2> QED BY <1>3, <2>1, <2>2
<1>6. ASSUME NEW s \in Sockets, NEW c \in Clients, Host!Heartbeat(s, c) PROVE Frame
  <2>1. HostGoesOn /\ ~Host!Tick
    BY <1>4, <1>6 DEF HostGoesOn, Host!Heartbeat
  <2> QED BY <1>3, <1>6, <2>1, RegistrationStep
<1>7. ASSUME NEW s \in Sockets, Host!RejectHello(s) \/ Host!SocketClosed(s) PROVE Frame
  <2>1. HostGoesOn /\ ~Host!Tick
    BY <1>4, <1>7 DEF HostGoesOn, Host!RejectHello, Host!SocketClosed
  <2> QED BY <1>3, <1>7, <2>1, RegistrationStep
<1>8. CASE Host!MarkStaleRuntimeClients
  <2>1. HostGoesOn /\ ~Host!Tick
    BY <1>8, IntervalAssumption DEF HostGoesOn, Host!MarkStaleRuntimeClients, Host!Tick
  <2> QED BY <1>3, <1>8, <2>1, RegistrationStep
<1>9. CASE Host!Operator
  <2>1. HostGoesOn /\ ~Host!Tick
    BY <1>4, <1>9
    DEF HostGoesOn, Host!Operator, Host!ClearLaunchClient, Host!SelectLaunchClient
  <2> QED BY <1>3, <1>9, <2>1, RegistrationStep
<1>10. CASE Tick
  <2>1. Host!Tick
    BY <1>10 DEF Tick
  <2> QED BY <1>10, <2>1, SocketsOnlyEnd, RegistrationStep DEF HostGoesOn, RegistrationKept
<1>11. CASE UNCHANGED host
  <2>1. UNCHANGED sinceCheck /\ RegistrationKept(t)
    BY <1>11 DEF host, RegistrationKept
  <2> QED BY <1>3, <1>4, <1>11, <2>1
<1>12. ASSUME NEW s \in Sockets, HostReceives(s) PROVE Frame
  BY <1>5, <1>6, <1>7, <1>11, <1>12, ReceivedIs
<1> HIDE DEF Frame
<1> QED
  BY <1>2, <1>7, <1>8, <1>9, <1>10, <1>11, <1>12, HostOrBrowsers
  DEF HostCloses, PresenceTimer, OperatorChooses, Host!Operator

LEMMA HeardMore ==
  ASSUME HostInv, NEW p \in Pages, NEW m \in Nat, NEW n \in Nat, m =< n, HeardWithin(p, m)
  PROVE  HeardWithin(p, n)
BY EntryTypes DEF HeardWithin

\* A heartbeat of the page is on its way.
Pending(s) == ~Without(up[s], "client.heartbeat")

LEMMA PendingFacts ==
  ASSUME OwnMessages, NEW s \in Sockets
  PROVE  /\ \A m \in UpMessage : m.type = "client.heartbeat" \/ Pending(s)
               => ~Without(Append(up[s], m), "client.heartbeat")
         /\ Pending(s) /\ Head(up[s]).type # "client.heartbeat"
              => ~Without(Tail(up[s]), "client.heartbeat")
<1>1. up[s] \in Seq(UpMessage) /\ Len(up[s]) \in Nat
  BY SeqFacts DEF OwnMessages
<1>2. ASSUME NEW m \in UpMessage, m.type = "client.heartbeat" \/ Pending(s)
      PROVE  ~Without(Append(up[s], m), "client.heartbeat")
  <2>1. /\ Len(Append(up[s], m)) = Len(up[s]) + 1
        /\ \A i \in 1..Len(up[s]) : Append(up[s], m)[i] = up[s][i]
        /\ Append(up[s], m)[Len(up[s]) + 1] = m
    BY <1>1, AppendFacts
  <2>2. /\ Len(up[s]) + 1 \in 1..Len(Append(up[s], m))
        /\ \A i \in 1..Len(up[s]) : i \in 1..Len(Append(up[s], m))
    BY <1>1, <2>1
  <2> QED BY <1>2, <2>1, <2>2 DEF Pending, Without
<1>3. ASSUME Pending(s), Head(up[s]).type # "client.heartbeat"
      PROVE  ~Without(Tail(up[s]), "client.heartbeat")
  <2>1. PICK i \in 1..Len(up[s]) : up[s][i].type = "client.heartbeat"
    BY <1>3 DEF Pending, Without
  <2>2. up[s] # <<>>
    BY <1>1, <2>1
  <2>3. i # 1
    BY <1>1, <1>3, <2>1, <2>2, SeqFacts
  <2>4. i - 1 \in 1..Len(Tail(up[s])) /\ Tail(up[s])[i - 1] = up[s][i]
    BY <1>1, <2>1, <2>2, <2>3, SeqFacts
  <2> QED BY <2>1, <2>4 DEF Without
<1> QED BY <1>2, <1>3

\* A page whose heartbeat runs, and that was not restarted early, refers to a
\* connection it registered on, and was heard of since its last heartbeat or
\* will be by the one on its way.
Beating(p) ==
  LET s == page[p].socket IN
  page[p].beat # NoBeat /\ ~page[p].early =>
    /\ s # Null /\ ready[s] \in {"open", "closing"}
    /\ ready[s] = "open" /\ socketState[s] = "open" =>
         /\ told[s].registered # Null
         /\ \/ HeardWithin(p, page[p].beat)
            \/ HeardWithin(p, HeartbeatEvery) /\ Pending(s)

BeatInv == \A p \in Pages : Beating(p)

LEMMA BeatInit == Init => BeatInv
BY DEF Init, BeatInv, Beating, Unloaded

LEMMA BeatTypes ==
  ASSUME PagesOK, NEW p \in Pages
  PROVE  /\ page[p].beat = NoBeat \/ page[p].beat \in 0..HeartbeatEvery
         /\ page[p].beat \in Int /\ page[p].early \in BOOLEAN
BY IntervalAssumption DEF PagesOK, PageState, NoBeat

\* Steps that leave the page's reference and its beat alone.
LEMMA BeatKept ==
  ASSUME PagesOK, OwnMessages, HostInv, HostInv', [Next]_vars, ~Tick, ReferencesInv,
         NEW p \in Pages, Beating(p),
         page'[p].beat = page[p].beat, page'[p].socket = page[p].socket,
         page'[p].early = page[p].early,
         \A s \in SocketsOf(p) :
           /\ ready[s] \in {"open", "closing"} => ready'[s] \in {ready[s], "closing"}
           /\ ready[s] = "open" /\ Pending(s) /\ socketState'[s] = "open"
                => Pending(s)' \/ HeardWithin(p, 0)'
  PROVE  Beating(p)'
<1> DEFINE s == page[p].socket
<1> SUFFICES ASSUME page[p].beat # NoBeat, ~page[p].early
             PROVE  /\ s # Null /\ ready'[s] \in {"open", "closing"}
                    /\ ready'[s] = "open" /\ socketState'[s] = "open" =>
                         /\ told'[s].registered # Null
                         /\ \/ HeardWithin(p, page[p].beat)'
                            \/ HeardWithin(p, HeartbeatEvery)' /\ Pending(s)'
  BY DEF Beating, HeardWithin
<1>1. s # Null /\ s \in SocketsOf(p) /\ s \in Sockets /\ ready[s] \in {"open", "closing"}
  BY DEF Beating, ReferencesInv, RefersToOwn, SocketsOf
<1>2. ready'[s] \in {"open", "closing"} /\ (ready'[s] = "open" => ready[s] = "open")
  BY <1>1
<1>3. ASSUME ready'[s] = "open", socketState'[s] = "open"
      PROVE  /\ told'[s].registered # Null
             /\ \/ HeardWithin(p, page[p].beat)'
                \/ HeardWithin(p, HeartbeatEvery)' /\ Pending(s)'
  <2>1. ready[s] = "open"
    BY <1>2, <1>3
  <2>2. socketState[s] = "open"
    BY <1>1, <1>3, <2>1, HostFrame
  <2>3. /\ told[s].registered # Null
        /\ HeardWithin(p, page[p].beat) \/ (HeardWithin(p, HeartbeatEvery) /\ Pending(s))
    BY <2>1, <2>2 DEF Beating
  <2>4. told'[s].registered # Null
    BY <1>1, <1>3, <2>1, <2>3, HostFrame
  <2>5. /\ page[p].beat \in Nat /\ page[p].beat =< StaleAfter
        /\ HeartbeatEvery \in Nat /\ HeartbeatEvery =< StaleAfter
    BY BeatTypes, IntervalAssumption
  <2>6. /\ HeardWithin(p, page[p].beat) => HeardWithin(p, page[p].beat)'
        /\ HeardWithin(p, HeartbeatEvery) => HeardWithin(p, HeartbeatEvery)'
    <3> DEFINE b == page[p].beat
    <3>1. b \in Nat /\ b =< StaleAfter
      BY <2>5
    <3>2. HeardWithin(p, page[p].beat)' <=> (HeardWithin(p, b))'
      OBVIOUS
    <3>3. \A n \in Nat : n =< StaleAfter /\ HeardWithin(p, n) => HeardWithin(p, n)'
      BY <1>1, <1>3, <2>1, HostFrame
    <3>4. page'[p].beat = b
      OBVIOUS
    <3> HIDE DEF b
    <3>5. HeardWithin(p, b) => \A e \in clients' :
            e.clientId \in ReadString(HelloOf(p)'.clientId) => e.status = "online" /\ e.age =< b
      BY <3>1, <3>3 DEF HeardWithin
    <3> QED BY <2>5, <3>3, <3>4, <3>5 DEF b, HeardWithin
  <2>7. HeardWithin(p, 0)' => HeardWithin(p, page[p].beat)'
    <3>1. \A e \in clients' : e.age \in Nat
      BY IntervalAssumption DEF HostInv, Host!TypeOK, Host!RuntimeClient, Host!AgeCap
    <3>2. page'[p].beat = page[p].beat
      OBVIOUS
    <3> QED BY <2>5, <3>1, <3>2 DEF HeardWithin
  <2> QED BY <1>1, <1>3, <2>1, <2>3, <2>4, <2>6, <2>7
<1> QED BY <1>1, <1>2, <1>3

\* The Host reads from the page's connection: what it has not read yet is
\* still pending, or the page was heard of.
LEMMA ReadKeepsBeat ==
  ASSUME PagesOK, OwnMessages, HostInv, NEW s \in Sockets, HostReceives(s), options' = options,
         Pending(s), socketState'[s] = "open"
  PROVE  s[1] \in Pages /\ (Pending(s)' \/ HeardWithin(s[1], 0)')
<1> DEFINE p == s[1]
<1>1. p \in Pages /\ up[s] # <<>> /\ up'[s] = Tail(up[s])
  BY ReceivedIs DEF HostReceives, OwnMessages
<1>2. ASSUME NEW v \in ValidateClientHello(HelloOf(p)), v.experienceId \in Slugs,
             Host!Hello(s, v.clientId, v.experienceId)
      PROVE  HeardWithin(p, 0)'
  <2>1. v.clientId \in ReadString(HelloOf(p).clientId)
    BY DEF ValidateClientHello
  <2> QED BY <1>1, <1>2, <2>1, HelloHeard
<1>3. ~Host!RejectHello(s)
  BY DEF Host!RejectHello, HostInv, Host!TypeOK
<1>4. ASSUME NEW c \in ReadString(HelloOf(p).clientId), Host!Heartbeat(s, c)
      PROVE  HeardWithin(p, 0)'
  BY <1>1, <1>4, HeartbeatHeard
<1>5. ASSUME NEW c \in ReadString(HelloOf(p).clientId), ~\E e \in clients : e.clientId = c,
             UNCHANGED host
      PROVE  HeardWithin(p, 0)'
  BY <1>1, <1>5, OwnIds DEF HeardWithin, HelloOf, host
<1>6. ASSUME UNCHANGED host,
             Head(up[s]) = HeartbeatMessage(p) => ReadString(HelloOf(p).clientId) = {}
      PROVE  Pending(s)' \/ HeardWithin(p, 0)'
  <2>1. CASE Head(up[s]) = HeartbeatMessage(p)
    BY <1>6, <2>1 DEF HeardWithin, HelloOf, host
  <2>2. CASE Head(up[s]) = HelloMessage(p)
    <3>1. Head(up[s]).type # "client.heartbeat"
      BY <2>2 DEF HelloMessage
    <3>2. ~Without(Tail(up[s]), "client.heartbeat")
      BY <3>1, PendingFacts
    <3> QED BY <1>1, <3>2 DEF Pending, Without
  <2> QED BY <1>1, <2>1, <2>2, HeadFacts
<1> HIDE DEF p
<1> QED BY <1>1, <1>2, <1>3, <1>4, <1>5, <1>6, ReceivedIs DEF p

\* Steps that touch no connection but those of other pages.
LEMMA OthersKeepBeat ==
  ASSUME PagesOK, OwnMessages, HostInv, HostInv', [Next]_vars, ~Tick, ReferencesInv,
         NEW p \in Pages, Beating(p), page'[p] = page[p],
         \A s \in SocketsOf(p) : ready'[s] = ready[s] /\ up'[s] = up[s]
  PROVE  Beating(p)'
BY BeatKept DEF Pending, Without

LEMMA TickKeepsBeat ==
  ASSUME PagesOK, HostInv, ReferencesInv, NEW p \in Pages, Beating(p), options' = options, Tick
  PROVE  Beating(p)'
<1> PICK s, b : s = page[p].socket /\ b = page[p].beat
  OBVIOUS
<1>1. CASE page[p].beat = NoBeat
  BY <1>1 DEF Tick, Beating
<1>2. CASE page[p].early
  BY <1>2 DEF Tick, Beating, PagesOK, PageState
<1>3. CASE b # NoBeat /\ ~page[p].early
  <2>1. /\ page'[p].socket = s /\ page'[p].beat = b + 1 /\ page'[p].early = page[p].early
        /\ UNCHANGED <<ready, told, socketState>>
    BY <1>3 DEF Tick, Host!Tick, PagesOK, PageState
  <2>2. s # Null /\ s \in Sockets /\ ready[s] \in {"open", "closing"}
    BY <1>3 DEF Beating, ReferencesInv, RefersToOwn, SocketsOf
  <2>3. ~Pending(s)
    BY <2>2 DEF Tick, NothingOverdue, Pending, Without
  <2>4. ASSUME ready[s] = "open", socketState[s] = "open"
        PROVE  told[s].registered # Null /\ HeardWithin(p, b)
    BY <1>3, <2>3, <2>4 DEF Beating
  <2>5. b \in Nat
    BY <1>3, BeatTypes
  <2>6. HeardWithin(p, b) => HeardWithin(p, b + 1)'
    BY <2>5, HeardAges DEF Tick
  <2>7. HeardWithin(p, b) => \A e \in clients' :
          e.clientId \in ReadString(HelloOf(p)'.clientId) => e.status = "online" /\ e.age =< b + 1
    BY <2>6 DEF HeardWithin
  <2> QED BY <2>1, <2>2, <2>4, <2>7 DEF Beating, HeardWithin
<1> QED BY <1>1, <1>2, <1>3

LEMMA TimerKeepsBeat ==
  ASSUME PagesOK, OwnMessages, ReferencesInv, NEW p \in Pages, Beating(p), options' = options,
         HeartbeatTimer(p)
  PROVE  Beating(p)'
<1> PICK s : s = page[p].socket
  OBVIOUS
<1>1. /\ page[p].beat = HeartbeatEvery /\ page[p].beat # NoBeat
      /\ page'[p].beat = 0 /\ page'[p].socket = s /\ page'[p].early = page[p].early
      /\ UNCHANGED <<host, ready>>
  BY IntervalAssumption DEF HeartbeatTimer, PagesOK, PageState, NoBeat
<1>2. SUFFICES ASSUME ~page[p].early PROVE Beating(p)'
  BY <1>1 DEF Beating
<1>3. s # Null /\ s \in Current(p) /\ s \in Sockets /\ s[1] = p /\ ready[s] \in {"open", "closing"}
  BY <1>1, <1>2 DEF Beating, ReferencesInv, RefersToOwn, SocketsOf, Current
<1>4. ASSUME ready[s] = "open", socketState[s] = "open"
      PROVE  /\ told[s].registered # Null /\ HeardWithin(p, HeartbeatEvery)
             /\ ~Without(up'[s], "client.heartbeat")
  <2>1. told[s].registered # Null /\ HeardWithin(p, HeartbeatEvery)
    BY <1>1, <1>2, <1>4 DEF Beating
  <2>2. up'[s] = Append(up[s], HeartbeatMessage(p))
    BY <1>3, <1>4 DEF HeartbeatTimer, Sending, HeartbeatMessage
  <2>3. HeartbeatMessage(p) \in UpMessage /\ HeartbeatMessage(p).type = "client.heartbeat"
    BY MessageTypes DEF HeartbeatMessage
  <2> QED BY <1>3, <2>1, <2>2, <2>3, PendingFacts
<1>5. HeardWithin(p, HeartbeatEvery)' <=> HeardWithin(p, HeartbeatEvery)
  BY <1>1 DEF host, HeardWithin, HelloOf
<1>6. UNCHANGED <<told, socketState>>
  BY <1>1 DEF host
<1>7. ASSUME ready'[s] = "open", socketState'[s] = "open"
      PROVE  told'[s].registered # Null /\ HeardWithin(p, HeartbeatEvery)' /\ Pending(s)'
  BY <1>1, <1>4, <1>5, <1>6, <1>7 DEF Pending, Without
<1>8. page'[p].socket = s /\ s # Null /\ ready'[s] \in {"open", "closing"}
  BY <1>1, <1>3
<1>9. Pending(s)' <=> ~Without(up'[s], "client.heartbeat")
  BY DEF Pending, Without
<1> QED BY <1>7, <1>8, <1>9 DEF Beating, Pending, Without

LEMMA AnswerStartsBeat ==
  ASSUME PagesOK, Registered, ReferencesInv, options' = options, NEW s \in Sockets,
         s[1] \in Pages, DownOK, UNCHANGED host,
         ready[s] = "open", down[s] # <<>>, Head(down[s]).type = "client.registered",
         page' = [page EXCEPT ![s[1]].beat = 0], UNCHANGED ready
  PROVE  Beating(s[1])'
<1> DEFINE p == s[1]
<1>1. page'[p].beat = 0 /\ page'[p].socket = page[p].socket /\ page'[p].early = page[p].early
  BY DEF PagesOK, PageState
<1>2. SUFFICES ASSUME ~page[p].early PROVE Beating(p)'
  BY <1>1 DEF Beating
<1>3. s = page[p].socket /\ s # Null
  BY <1>2, SocketFacts DEF ReferencesInv, RefersToOwn, SocketsOf, IsLive
<1>4. ~Without(down[s], "client.registered")
  <2>1. down[s] \in Seq(DownMessage)
    BY DEF DownOK
  <2> QED BY <2>1, SeqFacts DEF Without
<1>5. socketState[s] = "open" => told[s].registered # Null /\ HeardWithin(p, 0)
  BY <1>4 DEF Registered
<1>6. UNCHANGED <<told, socketState, clients>>
  BY DEF host
<1>7. HeardWithin(p, 0) => \A e \in clients' :
        e.clientId \in ReadString(HelloOf(p)'.clientId) => e.status = "online" /\ e.age =< 0
  BY <1>6 DEF HeardWithin, HelloOf
<1> QED BY <1>1, <1>3, <1>5, <1>6, <1>7 DEF Beating, HeardWithin

\* A page that is left, or whose socket closes, has no heartbeat any more.
LEMMA NoBeatIsFine ==
  ASSUME NEW p \in Pages, page'[p].beat = NoBeat PROVE Beating(p)'
BY DEF Beating

LEMMA LeaveKeepsBeat ==
  ASSUME PagesOK, OwnMessages, HostInv, HostInv', [Next]_vars, ~Tick, ReferencesInv, BeatInv,
         NEW q \in Pages, Leave(q), UNCHANGED up
  PROVE  BeatInv'
<1>1. page'[q].beat = NoBeat
  BY DEF Leave, PagesOK, Unloaded
<1>2. ASSUME NEW p \in Pages, p # q PROVE Beating(p)'
  <2>1. page'[p] = page[p] /\ \A s \in SocketsOf(p) : ready'[s] = ready[s]
    BY <1>2 DEF Leave, PagesOK, SocketsOf
  <2> QED BY <2>1, OthersKeepBeat DEF BeatInv
<1> QED BY <1>1, <1>2, NoBeatIsFine DEF BeatInv

LEMMA StartKeepsBeat ==
  ASSUME PagesOK, OwnMessages, HostInv, HostInv', [Next]_vars, ~Tick, ReferencesInv, BeatInv,
         NEW q \in Pages, Start(q)
  PROVE  BeatInv'
<1>1. UNCHANGED up
  BY DEF Start
<1>2. CASE page[q].socket # Null
  <2>1. page' = [page EXCEPT ![q].listening = TRUE] /\ UNCHANGED ready
    BY <1>2 DEF Start
  <2>2. \A p \in Pages : /\ page'[p].beat = page[p].beat /\ page'[p].socket = page[p].socket
                         /\ page'[p].early = page[p].early
    BY <2>1 DEF PagesOK, PageState
  <2>3. ASSUME NEW p \in Pages PROVE Beating(p)'
    BY <1>1, <2>1, <2>2, BeatKept DEF BeatInv, Pending, Without
  <2> QED BY <2>3 DEF BeatInv
<1>3. CASE page[q].socket = Null
  <2>1. PICK s \in SocketsOf(q) :
          /\ ready' = [ready EXCEPT ![s] = "connecting"]
          /\ page' = [page EXCEPT ![q] = page'[q]] /\ page'[q].beat = page[q].beat
          /\ ~page'[q].early => ~page[q].early
    BY <1>3, StartFacts
  <2>2. Beating(q)'
    <3>1. page[q].beat = NoBeat \/ page[q].early
      BY <1>3 DEF BeatInv, Beating
    <3> QED BY <2>1, <3>1 DEF Beating
  <2>3. ASSUME NEW p \in Pages, p # q PROVE Beating(p)'
    <3>1. page'[p] = page[p] /\ \A t \in SocketsOf(p) : ready'[t] = ready[t]
      BY <2>1, <2>3 DEF PagesOK, SocketsOf
    <3> QED BY <1>1, <3>1, OthersKeepBeat DEF BeatInv
  <2> QED BY <2>2, <2>3 DEF BeatInv
<1> QED BY <1>2, <1>3

LEMMA EndKeepsBeat ==
  ASSUME PagesOK, OwnMessages, HostInv, HostInv', [Next]_vars, ~Tick, ReferencesInv, BeatInv,
         \/ \E q \in Pages : Dispose(q) \/ UserLoads(q)
         \/ \E s \in Sockets : CloseEvent(s)
  PROVE  BeatInv'
<1>1. ASSUME NEW q, q \in Pages => page'[q].beat = NoBeat, UNCHANGED up,
             \A p \in Pages : p # q =>
               page'[p] = page[p] /\ \A t \in SocketsOf(p) : ready'[t] = ready[t]
      PROVE  BeatInv'
  BY <1>1, OthersKeepBeat, NoBeatIsFine DEF BeatInv
<1>2. ASSUME NEW q \in Pages, Dispose(q) PROVE BeatInv'
  <2>1. page'[q] = PageWith(q, Null, NoBeat, FALSE, page[q].early)
    BY <1>2 DEF Dispose, PagesOK
  <2>2. page'[q].beat = NoBeat
    BY <2>1 DEF PageWith
  <2>3. \A p \in Pages : p # q =>
          page'[p] = page[p] /\ \A t \in SocketsOf(p) : ready'[t] = ready[t]
    BY <1>2 DEF Dispose, ClosingCurrent, Current, SocketsOf, PagesOK
  <2> QED BY <1>1, <1>2, <2>2, <2>3 DEF Dispose
<1>3. ASSUME NEW q \in Pages, UserLoads(q) PROVE BeatInv'
  <2>1. page'[q].beat = NoBeat
    BY <1>3 DEF UserLoads, PagesOK, Loaded, Unloaded
  <2> QED BY <1>1, <1>3, <2>1 DEF UserLoads, PagesOK
<1>4. ASSUME NEW s \in Sockets, CloseEvent(s) PROVE BeatInv'
  <2>1. s[1] \in Pages => page'[s[1]].beat = NoBeat
    <3> SUFFICES ASSUME s[1] \in Pages PROVE page'[s[1]].beat = NoBeat
      OBVIOUS
    <3>1. page'[s[1]] = PageWith(s[1], Null, NoBeat, page[s[1]].listening, page[s[1]].early)
      BY <1>4, SocketFacts DEF CloseEvent, PagesOK
    <3> QED BY <3>1 DEF PageWith
  <2>2. \A p \in Pages : p # s[1] =>
          page'[p] = page[p] /\ \A t \in SocketsOf(p) : ready'[t] = ready[t]
    BY <1>4 DEF CloseEvent, PagesOK, SocketsOf
  <2> QED BY <1>1, <1>4, <2>1, <2>2 DEF CloseEvent
<1> QED BY <1>2, <1>3, <1>4

LEMMA MessageKeepsBeat ==
  ASSUME PagesOK, OwnMessages, DownOK, HostInv, HostInv', [Next]_vars, ~Tick, ReferencesInv,
         Registered, BeatInv, NEW s \in Sockets, PageMessage(s)
  PROVE  BeatInv'
<1>1. s[1] \in Pages /\ UNCHANGED <<host, up, options>> /\ ready[s] = "open" /\ down[s] # <<>>
  BY SocketFacts DEF PageMessage
<1>2. CASE UNCHANGED <<page, ready>>
  BY <1>1, <1>2, OthersKeepBeat DEF BeatInv
<1>3. CASE /\ Head(down[s]).type = "client.registered"
           /\ page' = [page EXCEPT ![s[1]].beat = 0] /\ UNCHANGED ready
  <2>1. Beating(s[1])'
    BY <1>1, <1>3, AnswerStartsBeat
  <2>2. ASSUME NEW p \in Pages, p # s[1] PROVE Beating(p)'
    <3>1. page'[p] = page[p]
      BY <1>3, <2>2 DEF PagesOK
    <3> QED BY <1>1, <1>3, <3>1, OthersKeepBeat DEF BeatInv
  <2> QED BY <2>1, <2>2 DEF BeatInv
<1>4. CASE UNCHANGED page /\ ready' = ClosingCurrent(s[1])
  <2>1. \A t \in Sockets : ready'[t] \in {ready[t], "closing"}
    BY <1>4 DEF ClosingCurrent
  <2>2. ASSUME NEW p \in Pages PROVE Beating(p)'
    BY <1>1, <1>4, <2>1, BeatKept DEF BeatInv, SocketsOf, Pending, Without
  <2> QED BY <2>2 DEF BeatInv
<1>5. CASE Leave(s[1])
  BY <1>1, <1>5, LeaveKeepsBeat
<1> QED BY <1>2, <1>3, <1>4, <1>5 DEF PageMessage

LEMMA BeatStep ==
  PagesOK /\ OwnMessages /\ DownOK /\ HostInv /\ HostInv' /\ ReferencesInv /\ Registered /\ BeatInv
    /\ [Next]_vars => BeatInv'
<1> SUFFICES ASSUME PagesOK, OwnMessages, DownOK, HostInv, HostInv', ReferencesInv, Registered,
                    BeatInv, [Next]_vars
             PROVE  BeatInv'
  OBVIOUS
<1>1. options' = options
  BY OptionsStay
<1>2. CASE Tick
  BY <1>1, <1>2, TickKeepsBeat DEF BeatInv
<1> SUFFICES ASSUME ~Tick PROVE BeatInv'
  BY <1>2
<1>3. ASSUME UNCHANGED <<page, ready, up>> PROVE BeatInv'
  BY <1>3, OthersKeepBeat DEF BeatInv
<1>4. ASSUME NEW s \in Sockets, HostAccepts(s) PROVE BeatInv'
  <2>1. \A t \in Sockets : ready[t] \in {"open", "closing"} => ready'[t] = ready[t]
    BY <1>4 DEF HostAccepts, PagesOK
  <2>2. ASSUME NEW p \in Pages PROVE Beating(p)'
    BY <1>4, <2>1, BeatKept DEF BeatInv, HostAccepts, SocketsOf, Pending, Without
  <2> QED BY <2>2 DEF BeatInv
<1>5. ASSUME NEW s \in Sockets, HostReceives(s) PROVE BeatInv'
  <2>1. UNCHANGED <<page, ready>> /\ \A t \in Sockets : t # s => up'[t] = up[t]
    BY <1>5 DEF HostReceives, OwnMessages
  <2>2. ASSUME NEW p \in Pages, NEW t \in SocketsOf(p), Pending(t), socketState'[t] = "open"
        PROVE  Pending(t)' \/ HeardWithin(p, 0)'
    <3>1. CASE t = s
      <4>1. s[1] = p
        BY <2>2, <3>1 DEF SocketsOf
      <4> QED BY <1>1, <1>5, <2>2, <3>1, <4>1, ReadKeepsBeat
    <3>2. CASE t # s
      BY <2>1, <2>2, <3>2 DEF SocketsOf, Pending, Without
    <3> QED BY <3>1, <3>2
  <2>3. ASSUME NEW p \in Pages PROVE Beating(p)'
    BY <2>1, <2>2, BeatKept DEF BeatInv
  <2> QED BY <2>3 DEF BeatInv
<1>6. ASSUME NEW s \in Sockets, HostCloses(s) PROVE BeatInv'
  <2>1. /\ UNCHANGED <<page, ready>> /\ socketState'[s] = "closed"
        /\ \A t \in Sockets : t # s => up'[t] = up[t]
    BY <1>6 DEF HostCloses, Host!SocketClosed, OwnMessages, HostInv, Host!TypeOK
  <2>2. ASSUME NEW p \in Pages PROVE Beating(p)'
    BY <2>1, BeatKept DEF BeatInv, SocketsOf, Pending, Without
  <2> QED BY <2>2 DEF BeatInv
<1>7. ASSUME NEW s \in Sockets, OpenEvent(s) PROVE BeatInv'
  <2>1. /\ UNCHANGED page
        /\ \A t \in Sockets : ready[t] \in {"open", "closing"} => ready'[t] = ready[t]
    BY <1>7 DEF OpenEvent, PagesOK
  <2>2. ASSUME NEW t \in Sockets, Pending(t) PROVE ~Without(up'[t], "client.heartbeat")
    <3>1. up'[t] = up[t] \/ (s[1] \in Pages /\ up'[t] = Append(up[t], HelloMessage(s[1])))
      BY <1>7, SocketFacts DEF OpenEvent, Sending, HelloMessage
    <3> QED BY <2>2, <3>1, MessageTypes, PendingFacts DEF Pending
  <2>3. ASSUME NEW p \in Pages PROVE Beating(p)'
    BY <2>1, <2>2, BeatKept DEF BeatInv, SocketsOf, Pending, Without
  <2> QED BY <2>3 DEF BeatInv
<1>8. ASSUME NEW q \in Pages, HeartbeatTimer(q) PROVE BeatInv'
  <2>1. Beating(q)'
    BY <1>1, <1>8, TimerKeepsBeat DEF BeatInv
  <2>2. ASSUME NEW p \in Pages, p # q PROVE Beating(p)'
    <3>1. /\ page'[p] = page[p] /\ UNCHANGED ready
          /\ \A t \in SocketsOf(p) : up'[t] = up[t]
      BY <1>8, <2>2 DEF HeartbeatTimer, PagesOK, Current, SocketsOf
    <3> QED BY <3>1, OthersKeepBeat DEF BeatInv
  <2> QED BY <2>1, <2>2 DEF BeatInv
<1>9. CASE LoadConsole \/ UnloadConsole
  <2>1. UNCHANGED <<page, up>> /\ \A p \in Pages : \A t \in SocketsOf(p) : ready'[t] = ready[t]
    BY <1>9, PageAssumption DEF LoadConsole, UnloadConsole, NextSocket, SocketsOf, PagesOK
  <2> QED BY <2>1, OthersKeepBeat DEF BeatInv
<1>10. ASSUME NEW q \in Pages, UserLeaves(q) PROVE BeatInv'
  BY <1>10, LeaveKeepsBeat DEF UserLeaves
<1> QED
  BY <1>3, <1>4, <1>5, <1>6, <1>7, <1>8, <1>9, <1>10, MessageKeepsBeat, StartKeepsBeat, EndKeepsBeat
  DEF Next, vars, PresenceTimer, OperatorChooses, ConsoleMessage

\* A page whose heartbeat runs over an open connection is listed online
\* (launch-registration-client.ts: the 4 s timer; ws/gateway.ts and
\* ws/runtime-clients.ts: the 8 s threshold and the 2 s timer).
THEOREM BeatingIsOnline == Spec => []BeatingPagesAreOnline
<1> DEFINE Inv == /\ PagesOK /\ OwnMessages /\ DownOK /\ Sync /\ ReferencesInv
                  /\ Registered /\ BeatInv
<1>1. Init => Inv
  BY PagesInit, OwnInit, DownInit, SyncInit, ReferencesInit, RegisteredInit, BeatInit
<1>2. Inv /\ HostInv /\ HostInv' /\ [Next]_vars => Inv'
  BY PagesStep, OwnStep, DownStep, SyncStep, ReferencesStep, RegisteredStep, BeatStep
<1>3. Inv /\ HostInv => BeatingPagesAreOnline
  <2> SUFFICES ASSUME Inv, HostInv, NEW p \in Pages, NEW s \in Current(p),
                      page[p].beat # NoBeat, ~page[p].early,
                      ready[s] = "open", socketState[s] = "open"
               PROVE  \E e \in clients :
                        e.clientId \in ReadString(HelloOf(p).clientId) /\ e.status = "online"
    BY DEF BeatingPagesAreOnline
  <2>1. s = page[p].socket /\ s \in Sockets /\ s[1] = p
    BY DEF Current, SocketsOf
  <2>2. /\ told[s].registered # Null
        /\ HeardWithin(p, page[p].beat) \/ HeardWithin(p, HeartbeatEvery)
    BY <2>1 DEF BeatInv, Beating
  <2>3. told[s].registered \in ReadString(HelloOf(p).clientId)
    BY <2>1, <2>2 DEF Registered
  <2>4. PICK e \in clients : e.clientId = told[s].registered
    BY <2>1, <2>2 DEF HostInv, Host!RegisteredSocketIsListed
  <2> QED BY <2>2, <2>3, <2>4 DEF HeardWithin
<1> QED BY <1>1, <1>2, <1>3, RegistryHolds, PTL DEF Spec

-----------------------------------------------------------------------------
(* Whose entries the registry holds.                                       *)

\* An entry is what the page of its connection said in its hello.
SaidBy(e) ==
  e.clientId # Null =>
    /\ e.socket[1] \in Pages
    /\ \E v \in ValidateClientHello(HelloOf(e.socket[1])) :
         v.clientId = e.clientId /\ v.experienceId = e.experienceId
Entries == \A e \in clients : SaidBy(e)

Lists(S, c) == \E e \in S : e.clientId = c

\* The selected client is in the registry: a page always says hello with one
\* and the same clientId, so it never takes the selected entry away with it.
SelectedIsListed ==
  station.selectedLaunchClientId # Null => Lists(clients, station.selectedLaunchClientId)

LEMMA EntriesInit == Init => Entries /\ SelectedIsListed
BY DEF Init, Entries, SelectedIsListed, Host!Init, Host!NoSelection

\* A default selection takes a client of the registry.
LEMMA DefaultIsListed ==
  ASSUME NEW S, NEW st, NEW new \in Host!SelectDefaultIfClear(S, st)
  PROVE  new = st \/ Lists(S, new.selectedLaunchClientId)
BY DEF Host!SelectDefaultIfClear, Host!OnlineDefaults, Host!Selection, Lists

\* What the Host's steps other than a hello and the end of a connection make
\* of the entries.
SameEntries ==
  /\ \A e \in clients' : e.clientId # Null =>
       \E f \in clients : /\ f.socket = e.socket /\ f.clientId = e.clientId
                          /\ f.experienceId = e.experienceId
  /\ \A f \in clients : Lists(clients', f.clientId)

LEMMA EntriesKept ==
  ASSUME Entries, options' = options,
         \A e \in clients' : e.clientId # Null =>
           \E f \in clients : /\ f.socket = e.socket /\ f.clientId = e.clientId
                              /\ f.experienceId = e.experienceId
  PROVE  Entries'
BY DEF Entries, SaidBy, HelloOf

LEMMA SelectedKept ==
  ASSUME SelectedIsListed, \A f \in clients : Lists(clients', f.clientId),
         \/ station' = station
         \/ \E st : /\ st.selectedLaunchClientId \in {station.selectedLaunchClientId, Null}
                    /\ station' \in Host!SelectDefaultIfClear(clients', st)
  PROVE  SelectedIsListed'
<1>1. station.selectedLaunchClientId # Null => Lists(clients', station.selectedLaunchClientId)
  BY DEF SelectedIsListed, Lists
<1> QED BY <1>1, DefaultIsListed DEF SelectedIsListed, Lists

LEMMA HeartbeatEntries ==
  ASSUME HostInv, Entries, SelectedIsListed, options' = options,
         NEW s \in Sockets, NEW c \in Clients, Host!Heartbeat(s, c)
  PROVE  Entries' /\ SelectedIsListed'
<1>1. PICK e \in Host!FindByClientId(clients, c) :
        /\ clients' = (clients \ {e}) \cup {Host!Replacement(e, "online", 0)}
        /\ station' = station \/ station' \in Host!SelectDefaultIfClear(clients', station)
  BY DEF Host!Heartbeat
<1>2. e \in clients
  BY DEF Host!FindByClientId
<1>3. /\ Host!Replacement(e, "online", 0).socket = e.socket
      /\ Host!Replacement(e, "online", 0).clientId = e.clientId
      /\ Host!Replacement(e, "online", 0).experienceId = e.experienceId
  BY DEF Host!Replacement
<1>4. SameEntries
  BY <1>1, <1>2, <1>3 DEF SameEntries, Lists
<1>5. Entries'
  BY <1>4, EntriesKept DEF SameEntries
<1>6. SelectedIsListed'
  BY <1>1, <1>4, SelectedKept DEF SameEntries
<1> QED BY <1>5, <1>6

LEMMA MarkStaleEntries ==
  ASSUME HostInv, Entries, SelectedIsListed, options' = options, Host!MarkStaleRuntimeClients
  PROVE  Entries' /\ SelectedIsListed'
<1>1. /\ clients' = {Host!MarkedStale(e) : e \in clients}
      /\ \/ station' \in Host!SelectDefaultIfClear(clients', station)
         \/ station' \in Host!SelectDefaultIfClear(clients', Host!NoSelection)
  BY DEF Host!MarkStaleRuntimeClients
<1>2. Host!NoSelection.selectedLaunchClientId = Null
  BY DEF Host!NoSelection
<1>3. \A e \in clients : /\ Host!MarkedStale(e).socket = e.socket
                         /\ Host!MarkedStale(e).clientId = e.clientId
                         /\ Host!MarkedStale(e).experienceId = e.experienceId
  BY DEF Host!MarkedStale, Host!Replacement
<1>4. SameEntries
  BY <1>1, <1>3 DEF SameEntries, Lists
<1>5. Entries'
  BY <1>4, EntriesKept DEF SameEntries
<1>6. CASE station' \in Host!SelectDefaultIfClear(clients', station)
  BY <1>4, <1>5, <1>6, SelectedKept DEF SameEntries
<1>7. CASE station' \in Host!SelectDefaultIfClear(clients', Host!NoSelection)
  <2> DEFINE st == Host!NoSelection
  <2>1. st.selectedLaunchClientId \in {station.selectedLaunchClientId, Null}
    BY <1>2
  <2> HIDE DEF st
  <2>2. station' \in Host!SelectDefaultIfClear(clients', st)
    BY <1>7 DEF st
  <2> QED BY <1>4, <1>5, <2>1, <2>2, SelectedKept DEF SameEntries
<1> QED BY <1>1, <1>6, <1>7

LEMMA TickEntries ==
  ASSUME HostInv, Entries, SelectedIsListed, options' = options, Host!Tick
  PROVE  Entries' /\ SelectedIsListed'
<1>1. clients' = {Host!Older(e) : e \in clients} /\ station' = station
  BY DEF Host!Tick
<1>2. \A e \in clients : /\ Host!Older(e).socket = e.socket
                         /\ Host!Older(e).clientId = e.clientId
                         /\ Host!Older(e).experienceId = e.experienceId
  BY EntryTypes DEF Host!Older, Host!RuntimeClient
<1>3. SameEntries
  BY <1>1, <1>2 DEF SameEntries, Lists
<1> QED BY <1>1, <1>3, EntriesKept, SelectedKept DEF SameEntries

LEMMA OperatorEntries ==
  ASSUME Entries, SelectedIsListed, options' = options, Host!Operator
  PROVE  Entries' /\ SelectedIsListed'
<1>1. UNCHANGED clients
  BY DEF Host!Operator, Host!ClearLaunchClient, Host!SelectLaunchClient
<1>2. Entries'
  BY <1>1, EntriesKept
<1>3. ASSUME NEW c \in Clients, Host!SelectLaunchClient(c) PROVE SelectedIsListed'
  BY <1>1, <1>3
  DEF Host!SelectLaunchClient, Host!FindByClientId, Host!Selection, SelectedIsListed, Lists
<1>4. CASE Host!ClearLaunchClient
  BY <1>2, <1>4 DEF Host!ClearLaunchClient, Host!NoSelection, SelectedIsListed
<1> QED BY <1>2, <1>3, <1>4 DEF Host!Operator

LEMMA ClosedEntries ==
  ASSUME Entries, SelectedIsListed, options' = options, NEW s \in Sockets, Host!SocketClosed(s)
  PROVE  Entries' /\ SelectedIsListed'
<1>1. clients' = clients \ Host!HeldBy(clients, s)
  BY DEF Host!SocketClosed
<1>2. Entries'
  BY <1>1, EntriesKept
<1>3. CASE \E e \in Host!HeldBy(clients, s) :
             e.clientId # Null /\ e.clientId = station.selectedLaunchClientId
  <2>1. station' \in Host!SelectDefaultIfClear(clients', Host!NoSelection)
    BY <1>3 DEF Host!SocketClosed
  <2> QED BY <1>2, <2>1, DefaultIsListed DEF SelectedIsListed, Host!NoSelection, Lists
<1>4. CASE ~\E e \in Host!HeldBy(clients, s) :
              e.clientId # Null /\ e.clientId = station.selectedLaunchClientId
  <2>1. station' = station
    BY <1>4 DEF Host!SocketClosed
  <2> QED BY <1>1, <1>2, <1>4, <2>1 DEF SelectedIsListed, Lists
<1> QED BY <1>3, <1>4

LEMMA HelloEntries ==
  ASSUME PagesOK, HostInv, Entries, SelectedIsListed, options' = options, NEW s \in Sockets,
         s[1] \in Pages, NEW v \in ValidateClientHello(HelloOf(s[1])),
         Host!Hello(s, v.clientId, v.experienceId)
  PROVE  Entries' /\ SelectedIsListed'
<1> DEFINE c == v.clientId
           new == [socket |-> s, clientId |-> c, experienceId |-> v.experienceId,
                   status |-> "online", age |-> 0, held |-> TRUE]
<1>1. clients' = (clients \ (Host!Duplicates(s, c) \cup Host!HeldBy(clients, s))) \cup {new}
  BY DEF Host!Hello
<1>2. new.socket = s /\ new.clientId = c /\ new.experienceId = v.experienceId
  OBVIOUS
<1>3. c \in ReadString(HelloOf(s[1]).clientId)
  BY DEF ValidateClientHello
<1>4. PICK st \in Host!SelectDefaultIfClear(clients', station) :
        station' = Host!FollowClient(new, st)
  BY DEF Host!Hello
<1>5. station'.selectedLaunchClientId \in {c, st.selectedLaunchClientId}
  BY <1>4, <1>2 DEF Host!FollowClient, Host!Selection
<1> HIDE DEF new
<1>6. Entries'
  <2>1. HelloOf(s[1])' = HelloOf(s[1])
    BY DEF HelloOf
  <2> SUFFICES ASSUME NEW e \in clients' PROVE SaidBy(e)'
    BY DEF Entries
  <2>2. CASE e = new
    BY <1>2, <2>1, <2>2 DEF SaidBy
  <2>3. CASE e \in clients
    BY <2>3 DEF Entries, SaidBy, HelloOf
  <2> QED BY <1>1, <2>2, <2>3
<1>7. ASSUME NEW e \in clients, e.clientId # Null PROVE Lists(clients', e.clientId)
  <2>1. CASE e.clientId = c
    BY <1>1, <1>2, <2>1 DEF Lists
  <2>2. CASE e.clientId # c
    <3>1. e \notin Host!Duplicates(s, c)
      BY <2>2 DEF Host!Duplicates, Host!FindByClientId
    <3>2. e \notin Host!HeldBy(clients, s)
      <4> SUFFICES ASSUME e.socket = s PROVE FALSE
        BY DEF Host!HeldBy
      <4>1. e.clientId \in ReadString(HelloOf(s[1]).clientId)
        BY <1>7 DEF Entries, SaidBy, ValidateClientHello
      <4> QED BY <1>3, <2>2, <4>1, OwnIds
    <3> QED BY <1>1, <3>1, <3>2 DEF Lists
  <2> QED BY <2>1, <2>2
<1>8. Lists(clients', c)
  BY <1>1, <1>2 DEF Lists
<1>9. station.selectedLaunchClientId # Null => Lists(clients', station.selectedLaunchClientId)
  BY <1>7 DEF SelectedIsListed, Lists
<1>10. SelectedIsListed'
  BY <1>5, <1>8, <1>9, DefaultIsListed DEF SelectedIsListed, Lists
<1> QED BY <1>6, <1>10

LEMMA EntriesStep ==
  PagesOK /\ OwnMessages /\ HostInv /\ Entries /\ SelectedIsListed /\ [Next]_vars
    => Entries' /\ SelectedIsListed'
<1> SUFFICES ASSUME PagesOK, OwnMessages, HostInv, Entries, SelectedIsListed, [Next]_vars
             PROVE  Entries' /\ SelectedIsListed'
  OBVIOUS
<1>1. options' = options
  BY OptionsStay
<1>2. CASE UNCHANGED <<clients, station>>
  BY <1>1, <1>2 DEF Entries, SaidBy, HelloOf, SelectedIsListed, Lists
<1>3. ASSUME NEW s \in Sockets, HostAccepts(s) PROVE Entries' /\ SelectedIsListed'
  <2> DEFINE new == [socket |-> s, clientId |-> Null, experienceId |-> Null,
                     status |-> "unregistered", age |-> 0, held |-> TRUE]
  <2>1. clients' = clients \cup {new} /\ new.clientId = Null /\ station' = station
    BY <1>3 DEF HostAccepts, Host!Connect
  <2> HIDE DEF new
  <2>2. Entries'
    BY <1>1, <2>1, EntriesKept
  <2> QED BY <2>1, <2>2, SelectedKept DEF Lists
<1>4. ASSUME NEW s \in Sockets, HostReceives(s) PROVE Entries' /\ SelectedIsListed'
  <2>1. s[1] \in Pages
    BY <1>4, ReceivedIs
  <2>2. ASSUME Host!RejectHello(s) PROVE UNCHANGED <<clients, station>>
    BY <2>2 DEF Host!RejectHello
  <2>3. ASSUME UNCHANGED host PROVE UNCHANGED <<clients, station>>
    BY <2>3 DEF host
  <2> QED BY <1>1, <1>2, <1>4, <2>1, <2>2, <2>3, ReceivedIs, HelloEntries, HeartbeatEntries
<1>5. ASSUME NEW s \in Sockets, HostCloses(s) PROVE Entries' /\ SelectedIsListed'
  BY <1>1, <1>5, ClosedEntries DEF HostCloses
<1>6. CASE PresenceTimer
  BY <1>1, <1>6, MarkStaleEntries DEF PresenceTimer
<1>7. CASE OperatorChooses
  BY <1>1, <1>7, OperatorEntries DEF OperatorChooses, Host!Operator
<1>8. CASE Tick
  BY <1>1, <1>8, TickEntries DEF Tick
<1>9. CASE UNCHANGED host
  BY <1>2, <1>9 DEF host
<1> QED BY <1>3, <1>4, <1>5, <1>6, <1>7, <1>8, <1>9, HostOrBrowsers

-----------------------------------------------------------------------------
(* The console shows the launch target.                                    *)

\* The hello behind a summary, which Listed chooses.
LEMMA SummaryHasHello ==
  ASSUME PagesOK, Entries, NEW e \in StationList
  PROVE  \E v \in UNION {ValidateClientHello(o) : o \in Options} :
           v.clientId = e.clientId /\ v.experienceId = e.experienceId
<1>1. PICK f \in clients : /\ f.clientId # Null /\ e.clientId = f.clientId
                           /\ e.experienceId = f.experienceId
  BY DEF StationList, Host!ListRuntimeClients
<1>2. PICK v \in ValidateClientHello(HelloOf(f.socket[1])) :
        v.clientId = f.clientId /\ v.experienceId = f.experienceId
  BY <1>1 DEF Entries, SaidBy
<1>3. HelloOf(f.socket[1]) \in Options
  BY <1>1, MessageTypes DEF Entries, SaidBy
<1> QED BY <1>1, <1>2, <1>3

LEMMA HelloTexts ==
  ASSUME NEW o \in Options, NEW v \in ValidateClientHello(o)
  PROVE  /\ ReadString(Str(v.clientId)) = {v.clientId}
         /\ ReadSlug(Str(v.experienceId)) = {v.experienceId}
         /\ ReadString(Str(v.title)) = {v.title} /\ ReadHttpsUrl(Str(v.url)) = {v.url}
         /\ ReadOptionalString(IF v.userAgent = Empty THEN Absent ELSE Str(v.userAgent)) # {}
<1>1. /\ v.clientId \in ReadString(o.clientId) /\ v.experienceId \in ReadSlug(o.experienceId)
      /\ v.title \in ReadString(o.title) /\ v.url \in ReadHttpsUrl(o.url)
  BY DEF ValidateClientHello
<1>2. v.clientId # Empty /\ v.title # Empty /\ v.experienceId \in Slugs /\ v.url \in HttpsUrls
  BY <1>1 DEF ReadString, ReadSlug, ReadHttpsUrl
<1> QED BY <1>2 DEF ReadString, ReadSlug, ReadHttpsUrl, ReadOptionalString, Str, Absent

\* The console can read the summary of a listed client.
LEMMA SummaryReadBack ==
  ASSUME PagesOK, Entries, NEW e \in StationList, e.status \in {"online", "stale"}
  PROVE  /\ ReadRuntimeClientSummary(Listed(e)) # {}
         /\ \A r \in ReadRuntimeClientSummary(Listed(e)) :
              r.clientId = e.clientId /\ r.experienceId = e.experienceId /\ r.status = e.status
<1> DEFINE all == UNION {ValidateClientHello(o) : o \in Options}
           v == CHOOSE v \in all : v.clientId = e.clientId /\ v.experienceId = e.experienceId
           agent == IF v.userAgent = Empty THEN Absent ELSE Str(v.userAgent)
           m == Listed(e)
<1>1. v \in all /\ v.clientId = e.clientId /\ v.experienceId = e.experienceId
  BY SummaryHasHello
<1>2. m = [clientId |-> Str(v.clientId), experienceId |-> Str(v.experienceId),
           title |-> Str(v.title), url |-> Str(v.url), userAgent |-> agent, status |-> e.status]
  BY DEF Listed
<1> HIDE DEF v, m
<1>3. PICK o \in Options : v \in ValidateClientHello(o)
  BY <1>1
<1> HIDE DEF all
<1>4. /\ ReadString(Str(v.clientId)) = {v.clientId}
      /\ ReadSlug(Str(v.experienceId)) = {v.experienceId}
      /\ ReadString(Str(v.title)) = {v.title} /\ ReadHttpsUrl(Str(v.url)) = {v.url}
      /\ ReadOptionalString(agent) # {}
  BY <1>3, HelloTexts
<1> HIDE DEF agent
<1>5. {e.status} \cap {"online", "stale"} = {e.status}
  OBVIOUS
<1>6. /\ m.clientId = Str(v.clientId) /\ m.experienceId = Str(v.experienceId)
      /\ m.title = Str(v.title) /\ m.url = Str(v.url) /\ m.userAgent = agent
      /\ m.status = e.status
  BY <1>2
<1>7. ReadRuntimeClientSummary(m) =
        [clientId: {v.clientId}, experienceId: {v.experienceId}, title: {v.title}, url: {v.url},
         userAgent: ReadOptionalString(agent), status: {e.status}]
  BY <1>4, <1>5, <1>6 DEF ReadRuntimeClientSummary
<1>8. PICK u : u \in ReadOptionalString(agent)
  BY <1>4
<1>9. [clientId |-> v.clientId, experienceId |-> v.experienceId, title |-> v.title,
       url |-> v.url, userAgent |-> u, status |-> e.status]
        \in [clientId: {v.clientId}, experienceId: {v.experienceId}, title: {v.title},
             url: {v.url}, userAgent: ReadOptionalString(agent), status: {e.status}]
  BY <1>8
<1>10. ReadRuntimeClientSummary(m) # {}
  BY <1>7, <1>9
<1>11. \A r \in ReadRuntimeClientSummary(m) :
         r.clientId = v.clientId /\ r.experienceId = v.experienceId /\ r.status = e.status
  BY <1>7
<1> QED BY <1>1, <1>10, <1>11 DEF m

\* The list the console has is the registry's, for what it takes from it.
Shows(list, L) ==
  /\ \A e \in L : \E r \in list : r.clientId = e.clientId /\ r.status = e.status
  /\ \A r \in list : \E e \in L : r.clientId = e.clientId /\ r.status = e.status
                                  /\ r.experienceId = e.experienceId

LEMMA ListedStatus ==
  ASSUME HostInv
  PROVE  \A e \in StationList : /\ e.status \in {"online", "stale"} /\ e.clientId \in Clients
                                /\ e.experienceId \in Slugs
<1> SUFFICES ASSUME NEW f \in clients, f.clientId # Null
             PROVE  f.status \in {"online", "stale"} /\ f.clientId \in Clients
                    /\ f.experienceId \in Slugs
  BY DEF StationList, Host!ListRuntimeClients
<1> QED BY DEF HostInv, PresenceShape, Host!TypeOK, Host!RuntimeClient

LEMMA ListReadBack ==
  ASSUME PagesOK, HostInv, Entries, NEW st \in Host!StationState
  PROVE  /\ ParseClients(ClientsMessage(st, StationList)) # {}
         /\ \A r \in ParseClients(ClientsMessage(st, StationList)) : Shows(r.clients, StationList)
<1> DEFINE m == ClientsMessage(st, StationList)
           list == UNION {ReadRuntimeClientSummary(Listed(e)) : e \in StationList}
<1>1. /\ m.type = "runtime.clients" /\ m.clients = {Listed(e) : e \in StationList}
      /\ m.selectedLaunchClientId = Json(st.selectedLaunchClientId)
  BY DEF ClientsMessage
<1> HIDE DEF m
<1>2. \A input \in m.clients : ReadRuntimeClientSummary(input) # {}
  BY <1>1, ListedStatus, SummaryReadBack
<1>3. UNION {ReadRuntimeClientSummary(input) : input \in m.clients} = list
  BY <1>1
<1>4. ReadNullableString(m.selectedLaunchClientId) = {st.selectedLaunchClientId}
  BY <1>1, ReadBack DEF Host!StationState
<1>5. Shows(list, StationList)
  <2>1. ASSUME NEW e \in StationList
        PROVE  \E r \in list : r.clientId = e.clientId /\ r.status = e.status
    BY ListedStatus, SummaryReadBack
  <2>2. ASSUME NEW r \in list
        PROVE  \E e \in StationList : /\ r.clientId = e.clientId /\ r.status = e.status
                                      /\ r.experienceId = e.experienceId
    BY ListedStatus, SummaryReadBack
  <2> QED BY <2>1, <2>2 DEF Shows
<1> HIDE DEF list
<1>6. ParseClients(m) = [clients: {list}, selectedLaunchClientId: {st.selectedLaunchClientId}]
  BY <1>1, <1>2, <1>3, <1>4 DEF ParseClients, ValidateRuntimeClients
<1>7. [clients |-> list, selectedLaunchClientId |-> st.selectedLaunchClientId]
        \in [clients: {list}, selectedLaunchClientId: {st.selectedLaunchClientId}]
  OBVIOUS
<1>8. \A r \in [clients: {list}, selectedLaunchClientId: {st.selectedLaunchClientId}] :
        r.clients = list
  OBVIOUS
<1> QED BY <1>5, <1>6, <1>7, <1>8 DEF m

\* The console has one socket at a time.
OneConsole ==
  \A s, t \in SocketsOf(Console) :
    ready[s] \notin {"unused", "closed"} /\ ready[t] \notin {"unused", "closed"} => s = t

ConsoleOK ==
  console = [selected |-> console.selected, list |-> console.list, target |-> console.target]

LEMMA ConsoleInit == Init => OneConsole /\ ConsoleOK
BY ScenarioAssumption DEF Init, OneConsole, ConsoleOK, SocketsOf

LEMMA LeavingIsNotConsole ==
  ASSUME NEW p \in Pages, Leave(p), NEW s \in SocketsOf(Console)
  PROVE  ready'[s] = ready[s]
BY PageAssumption DEF Leave, SocketsOf

LEMMA OneConsoleStep == PagesOK /\ OneConsole /\ [Next]_vars => OneConsole'
<1> SUFFICES ASSUME PagesOK, OneConsole, [Next]_vars PROVE OneConsole'
  OBVIOUS
<1> DEFINE Over(x) == x \in {"unused", "closed"}
<1>1. ASSUME \A s \in SocketsOf(Console) : ~Over(ready'[s]) => ~Over(ready[s]) PROVE OneConsole'
  BY <1>1 DEF OneConsole, SocketsOf
<1>2. ASSUME NEW u \in Sockets, HostAccepts(u) \/ OpenEvent(u) PROVE OneConsole'
  BY <1>1, <1>2 DEF HostAccepts, OpenEvent, PagesOK, SocketsOf
<1>3. ASSUME NEW u \in Sockets, PageMessage(u) PROVE OneConsole'
  <2>1. UNCHANGED ready \/ Leave(u[1]) \/ ready' = ClosingCurrent(u[1])
    BY <1>3 DEF PageMessage
  <2>2. u[1] \in Pages
    BY <1>3, SocketFacts DEF PageMessage
  <2> QED BY <1>1, <2>1, <2>2, LeavingIsNotConsole DEF ClosingCurrent, IsLive, SocketsOf
<1>4. ASSUME NEW u \in Sockets, CloseEvent(u) PROVE OneConsole'
  BY <1>1, <1>4 DEF CloseEvent, PagesOK, SocketsOf
<1>5. ASSUME NEW p \in Pages, Start(p) PROVE OneConsole'
  <2>1. UNCHANGED ready \/ \E s \in NextSocket(p) : ready' = [ready EXCEPT ![s] = "connecting"]
    BY <1>5 DEF Start
  <2> QED BY <1>1, <2>1, PageAssumption DEF NextSocket, SocketsOf, PagesOK
<1>6. ASSUME NEW p \in Pages, Dispose(p) PROVE OneConsole'
  BY <1>1, <1>6 DEF Dispose, ClosingCurrent, IsLive, SocketsOf
<1>7. ASSUME NEW p \in Pages, UserLeaves(p) PROVE OneConsole'
  BY <1>1, <1>7, LeavingIsNotConsole DEF UserLeaves
<1>8. CASE LoadConsole
  BY <1>8 DEF LoadConsole, NextSocket, SocketsOf, PagesOK, OneConsole
<1>9. CASE UnloadConsole
  BY <1>1, <1>9 DEF UnloadConsole, SocketsOf
<1>10. CASE UNCHANGED ready
  BY <1>1, <1>10
<1> QED
  BY <1>2, <1>3, <1>4, <1>5, <1>6, <1>7, <1>8, <1>9, <1>10
  DEF Next, vars, HostReceives, HostCloses, ConsoleMessage, HeartbeatTimer, UserLoads,
      PresenceTimer, OperatorChooses, Tick

\* What it shows changes with a message on the socket it has, or a new load.
LEMMA ConsoleChanges ==
  ASSUME [Next]_vars
  PROVE  UNCHANGED console \/ LoadConsole \/ \E s \in Sockets : ConsoleMessage(s)
BY DEF Next, vars, HostAccepts, HostReceives, HostCloses, OpenEvent, PageMessage, CloseEvent,
       Start, Dispose, HeartbeatTimer, UserLoads, UserLeaves, UnloadConsole, PresenceTimer,
       OperatorChooses, Tick

LEMMA ConsoleKept ==
  ASSUME PagesOK, OneConsole, [Next]_vars, NEW s \in SocketsOf(Console), Connected(s)'
  PROVE  UNCHANGED console \/ ConsoleMessage(s)
<1>1. ~LoadConsole
  BY DEF LoadConsole, NextSocket, SocketsOf, PagesOK, Connected
<1>2. ASSUME NEW t \in Sockets, ConsoleMessage(t) PROVE t = s
  BY <1>2 DEF ConsoleMessage, OneConsole, SocketsOf, Connected
<1> QED BY <1>1, <1>2, ConsoleChanges

LEMMA ConsoleStep == ConsoleOK /\ [Next]_vars => ConsoleOK'
<1> SUFFICES ASSUME ConsoleOK, [Next]_vars PROVE ConsoleOK'
  OBVIOUS
<1>1. CASE LoadConsole
  BY <1>1 DEF LoadConsole, ConsoleOK
<1>2. ASSUME NEW s \in Sockets, ConsoleMessage(s) PROVE ConsoleOK'
  BY <1>2 DEF ConsoleMessage, ConsoleOK
<1>3. CASE UNCHANGED console
  BY <1>3 DEF ConsoleOK
<1> QED BY <1>1, <1>2, <1>3, ConsoleChanges

\* A console that reads its connection learns of selection and list, or shows
\* them as they are.
KnowsSelection(s) ==
  \/ Latest(down[s], "station.state", {StationMessage(station)})
  \/ Without(down[s], "station.state") /\ console.selected = station.selectedLaunchClientId
KnowsList(s) ==
  \/ Latest(down[s], "runtime.clients", {ClientsMessage(station, StationList)})
  \/ Without(down[s], "runtime.clients") /\ Shows(console.list, StationList)

ConsoleKnows ==
  \A s \in SocketsOf(Console) : Reading(s) => KnowsSelection(s) /\ KnowsList(s)

LEMMA ConsoleKnowsInit == Init => ConsoleKnows
BY DEF Init, ConsoleKnows, Host!Init, Reading, SocketsOf

\* The station's messages are those of these types.
LEMMA ParsedIs ==
  ASSUME NEW m
  PROVE  /\ m.type # "station.state" => ParseStation(m) = {}
         /\ m.type # "runtime.clients" => ParseClients(m) = {}
BY DEF ParseStation, ParseClients

\* The console reads a message.
LEMMA ConsoleReads ==
  ASSUME PagesOK, DownOK, HostInv, Entries, ConsoleOK, NEW s \in Sockets, ConsoleMessage(s),
         KnowsSelection(s), KnowsList(s)
  PROVE  /\ \/ Latest(down'[s], "station.state", {StationMessage(station)})
            \/ /\ Without(down'[s], "station.state")
               /\ console'.selected = station.selectedLaunchClientId
         /\ \/ Latest(down'[s], "runtime.clients", {ClientsMessage(station, StationList)})
            \/ Without(down'[s], "runtime.clients") /\ Shows(console'.list, StationList)
<1> DEFINE m == Head(down[s])
<1>1. down[s] \in Seq(DownMessage) /\ down[s] # <<>> /\ down'[s] = Tail(down[s])
  BY DEF ConsoleMessage, DownOK
<1>2. station \in Host!StationState
  BY ToldTypes
<1>3. \/ \E st \in ParseStation(m) :
           console' = [console EXCEPT !.selected = st.selectedLaunchClientId]
      \/ \E r \in ParseClients(m) : console' = [console EXCEPT !.list = r.clients]
      \/ ParseStation(m) \cup ParseClients(m) = {} /\ UNCHANGED console
  BY DEF ConsoleMessage
<1>4. m.type # "station.state" => ParseStation(m) = {}
  BY ParsedIs
<1>5. m.type # "runtime.clients" => ParseClients(m) = {}
  BY ParsedIs
<1> HIDE DEF m
<1>6. m.type # "station.state" => console'.selected = console.selected
  BY <1>3, <1>4 DEF ConsoleOK
<1>7. m.type # "runtime.clients" => console'.list = console.list
  BY <1>3, <1>5 DEF ConsoleOK
<1>8. m = StationMessage(station) => console'.selected = station.selectedLaunchClientId
  <2> SUFFICES ASSUME m = StationMessage(station)
               PROVE  console'.selected = station.selectedLaunchClientId
    OBVIOUS
  <2>1. m.type = "station.state"
    BY DEF StationMessage
  <2>2. ParseStation(m) = {station}
    BY <1>2, <2>1, StationReadBack DEF ParseStation
  <2> QED BY <1>3, <1>5, <2>1, <2>2 DEF ConsoleOK
<1>9. m = ClientsMessage(station, StationList) => Shows(console'.list, StationList)
  <2> SUFFICES ASSUME m = ClientsMessage(station, StationList)
               PROVE  Shows(console'.list, StationList)
    OBVIOUS
  <2>1. m.type = "runtime.clients"
    BY DEF ClientsMessage
  <2>2. /\ ParseClients(m) # {}
        /\ \A r \in ParseClients(m) : Shows(r.clients, StationList)
    BY <1>2, ListReadBack
  <2>3. PICK r \in ParseClients(m) : console' = [console EXCEPT !.list = r.clients]
    BY <1>3, <1>4, <2>1, <2>2
  <2>4. console'.list = r.clients
    BY <2>3 DEF ConsoleOK
  <2> QED BY <2>2, <2>4
<1>10. Head(down[s]) = m
  BY DEF m
<1>11. Without(down[s], "station.state") => m.type # "station.state"
  BY <1>1, <1>10, SeqFacts DEF Without
<1>12. Without(down[s], "runtime.clients") => m.type # "runtime.clients"
  BY <1>1, <1>10, SeqFacts DEF Without
<1>13. \/ Latest(Tail(down[s]), "station.state", {StationMessage(station)})
       \/ /\ Without(Tail(down[s]), "station.state")
          /\ console'.selected = station.selectedLaunchClientId
  <2>1. CASE Latest(down[s], "station.state", {StationMessage(station)})
    BY <1>1, <1>8, <1>10, <2>1, LatestTail
  <2>2. CASE /\ Without(down[s], "station.state")
             /\ console.selected = station.selectedLaunchClientId
    BY <1>1, <1>6, <1>11, <2>2, LatestTail
  <2> QED BY <2>1, <2>2 DEF KnowsSelection
<1>14. \/ Latest(Tail(down[s]), "runtime.clients", {ClientsMessage(station, StationList)})
       \/ Without(Tail(down[s]), "runtime.clients") /\ Shows(console'.list, StationList)
  <2>1. CASE Latest(down[s], "runtime.clients", {ClientsMessage(station, StationList)})
    BY <1>1, <1>9, <1>10, <2>1, LatestTail
  <2>2. CASE Without(down[s], "runtime.clients") /\ Shows(console.list, StationList)
    BY <1>1, <1>7, <1>12, <2>2, LatestTail
  <2> QED BY <2>1, <2>2 DEF KnowsList
<1> QED BY <1>1, <1>13, <1>14

LEMMA ConsoleKnowsStep ==
  PagesOK /\ OwnMessages /\ DownOK /\ HostInv /\ HostInv' /\ Sync /\ Entries /\ OneConsole
    /\ ConsoleOK /\ ConsoleKnows /\ [Next]_vars => ConsoleKnows'
<1> SUFFICES ASSUME PagesOK, OwnMessages, DownOK, HostInv, HostInv', Sync, Entries, OneConsole,
                    ConsoleOK, ConsoleKnows, [Next]_vars,
                    NEW s \in SocketsOf(Console), Reading(s)'
             PROVE  (KnowsSelection(s) /\ KnowsList(s))'
  BY DEF ConsoleKnows, SocketsOf
<1>1. s \in Sockets /\ s[1] = Console /\ down[s] \in Seq(DownMessage)
  BY DEF SocketsOf, DownOK
<1>2. CASE Learns(s)
  <2>1. PICK q \in Seq(DownMessage) : down'[s] = q \o News(s, station', StationList')
    BY <1>2 DEF Learns
  <2>2. told'[s].list = StationList'
    BY <1>1 DEF HostInv, Host!OpenSocketsUpToDate, StationList, Reading
  <2>3. station' \in Host!StationState /\ StationList' \in SUBSET Host!RuntimeClientSummary
    BY <1>1, <2>2 DEF HostInv, Host!TypeOK
  <2> DEFINE news == News(s, station', StationList')
             m == StationMessage(station')
             l == ClientsMessage(station', StationList')
  <2>4. /\ news \in Seq(DownMessage) /\ Latest(news, "station.state", {m})
        /\ Latest(news, "runtime.clients", {l})
    BY <1>1, <2>3, NewsFacts
  <2>5. down'[s] = q \o news
    BY <2>1
  <2> HIDE DEF news, m, l
  <2>6. Latest(down'[s], "station.state", {m}) /\ Latest(down'[s], "runtime.clients", {l})
    BY <2>4, <2>5, LatestConcat
  <2>7. (KnowsSelection(s))'
    BY <2>6 DEF KnowsSelection, m, StationMessage, Latest
  <2>8. l = ClientsMessage(station, StationList)'
    BY DEF l, ClientsMessage
  <2>9. (KnowsList(s))'
    BY <2>6, <2>8 DEF KnowsList, Latest
  <2> QED BY <2>7, <2>9
<1>3. CASE Reading(s) /\ NothingNew(s) /\ (Gets(s) \/ Takes(s))
  <2>1. station' = station /\ StationList' = StationList
    BY <1>1, <1>3 DEF NothingNew
  <2>2. KnowsSelection(s) /\ KnowsList(s)
    BY <1>3 DEF ConsoleKnows
  <2>3. ASSUME \/ Latest(down'[s], "station.state", {StationMessage(station)})
               \/ /\ Without(down'[s], "station.state")
                  /\ console'.selected = station.selectedLaunchClientId,
               \/ Latest(down'[s], "runtime.clients", {ClientsMessage(station, StationList)})
               \/ Without(down'[s], "runtime.clients") /\ Shows(console'.list, StationList)
        PROVE  (KnowsSelection(s) /\ KnowsList(s))'
    <3>1. /\ StationMessage(station)' = StationMessage(station)
          /\ ClientsMessage(station, StationList)' = ClientsMessage(station, StationList)
          /\ Shows(console.list, StationList)' <=> Shows(console'.list, StationList)
      BY <2>1 DEF StationMessage, ClientsMessage, Shows
    <3>2. (KnowsSelection(s))'
      BY <2>1, <2>3, <3>1 DEF KnowsSelection, Latest, Without
    <3>3. (KnowsList(s))'
      BY <2>1, <2>3, <3>1 DEF KnowsList, Latest, Without
    <3> QED BY <3>2, <3>3
  <2>4. CASE ConsoleMessage(s)
    BY <1>1, <2>2, <2>3, <2>4, ConsoleReads
  <2>5. CASE ~ConsoleMessage(s)
    <3>1. UNCHANGED console
      BY <2>5, ConsoleKept DEF Reading
    <3>2. Gets(s)
      BY <1>1, <1>3, <2>5 DEF Takes, PageMessage
    <3>3. PICK f \in Seq(DownMessage) : Plain(f) /\ down'[s] = down[s] \o f
      BY <3>2 DEF Gets
    <3>4. Without(f, "station.state") /\ Without(f, "runtime.clients")
      BY <3>3 DEF Plain
    <3>5. \/ Latest(down'[s], "station.state", {StationMessage(station)})
          \/ /\ Without(down'[s], "station.state")
             /\ console'.selected = station.selectedLaunchClientId
      BY <1>1, <2>2, <3>1, <3>3, <3>4, LatestConcat, WithoutConcat DEF KnowsSelection
    <3>6. \/ Latest(down'[s], "runtime.clients", {ClientsMessage(station, StationList)})
          \/ Without(down'[s], "runtime.clients") /\ Shows(console'.list, StationList)
      BY <1>1, <2>2, <3>1, <3>3, <3>4, LatestConcat, WithoutConcat DEF KnowsList
    <3> QED BY <2>3, <3>5, <3>6
  <2> QED BY <2>4, <2>5
<1> QED BY <1>1, <1>2, <1>3, KnowledgeStep

\* What a list that is the registry's says of a client.
LEMMA OnlineInList ==
  ASSUME HostInv, NEW c \in Clients, NEW list, Shows(list, StationList)
  PROVE  (\E e \in list : e.clientId = c /\ e.status = "online") <=> Host!IsSelectable(clients, c)
<1>1. c # Null
  BY ClientFacts, NullAssumption
<1>2. (\E e \in list : e.clientId = c /\ e.status = "online")
        <=> \E e \in StationList : e.clientId = c /\ e.status = "online"
  BY DEF Shows
<1>3. (\E e \in StationList : e.clientId = c /\ e.status = "online")
        <=> \E f \in clients : f.clientId = c /\ f.status = "online"
  <2>1. ASSUME NEW f \in clients, f.clientId = c, f.status = "online"
        PROVE  \E e \in StationList : e.clientId = c /\ e.status = "online"
    <3> DEFINE e == [clientId |-> f.clientId, experienceId |-> f.experienceId, status |-> f.status]
    <3>1. e \in StationList
      BY <1>1, <2>1 DEF StationList, Host!ListRuntimeClients
    <3>2. e.clientId = c /\ e.status = "online"
      BY <2>1
    <3> QED BY <3>1, <3>2
  <2>2. ASSUME NEW e \in StationList, e.clientId = c, e.status = "online"
        PROVE  \E f \in clients : f.clientId = c /\ f.status = "online"
    <3>1. PICK f \in clients : e.clientId = f.clientId /\ e.status = f.status
      BY DEF StationList, Host!ListRuntimeClients
    <3> QED BY <2>2, <3>1
  <2> QED BY <2>1, <2>2
<1>4. \A e, f \in clients : e.clientId = c /\ f.clientId = c => e = f
  BY <1>1 DEF HostInv, Host!OneEntryPerClient
<1>5. ASSUME NEW f \in clients, f.clientId = c PROVE Host!FindByClientId(clients, c) = {f}
  <2>1. {e \in clients : e.clientId = c} = {f}
    BY <1>4, <1>5
  <2> QED BY <2>1 DEF Host!FindByClientId
<1>6. \A e \in Host!FindByClientId(clients, c) : e \in clients /\ e.clientId = c
  BY DEF Host!FindByClientId
<1>7. (\E f \in clients : f.clientId = c /\ f.status = "online") <=> Host!IsSelectable(clients, c)
  BY <1>5, <1>6 DEF Host!IsSelectable
<1> QED BY <1>2, <1>3, <1>7

\* When nothing is on its way to the console, the launch target it shows is
\* the Host's (launch-registry-state.svelte.ts, page-state.svelte.ts:
\* resolveCurrentLaunchTargetUrl; launch/launch-routing.ts).
THEOREM ConsoleIsRight == Spec => []ConsoleShowsLaunchTarget
<1> DEFINE Inv == /\ PagesOK /\ OwnMessages /\ DownOK /\ Sync
                  /\ Entries /\ SelectedIsListed /\ OneConsole /\ ConsoleOK /\ ConsoleKnows
<1>1. Init => Inv
  BY PagesInit, OwnInit, DownInit, SyncInit, EntriesInit, ConsoleInit, ConsoleKnowsInit
<1>2. Inv /\ HostInv /\ HostInv' /\ [Next]_vars => Inv'
  BY PagesStep, OwnStep, DownStep, SyncStep, EntriesStep, OneConsoleStep, ConsoleStep,
     ConsoleKnowsStep
<1>3. Inv /\ HostInv => ConsoleShowsLaunchTarget
  <2> SUFFICES ASSUME Inv, HostInv, NEW s \in SocketsOf(Console),
                      ready[s] = "open", socketState[s] = "open", down[s] = <<>>
               PROVE  ShownTarget = LaunchTarget
    BY DEF ConsoleShowsLaunchTarget
  <2>1. Reading(s) /\ \A type, M : ~Latest(down[s], type, M)
    BY DEF Reading, Connected, Latest
  <2>2. console.selected = station.selectedLaunchClientId /\ Shows(console.list, StationList)
    BY <2>1 DEF ConsoleKnows, KnowsSelection, KnowsList
  <2>3. \A c \in Clients :
          (\E e \in console.list : e.clientId = c /\ e.status = "online")
            <=> Host!IsSelectable(clients, c)
    BY <2>2, OnlineInList
  <2>4. ASSUME console.list = {}, NEW c \in Clients, c = station.selectedLaunchClientId PROVE FALSE
    <3>1. PICK f \in clients : f.clientId = c
      BY <2>4, ClientFacts, NullAssumption DEF SelectedIsListed, Lists
    <3>2. f.clientId # Null
      BY <3>1, ClientFacts, NullAssumption
    <3>3. StationList # {}
      BY <3>2 DEF StationList, Host!ListRuntimeClients
    <3> QED BY <2>2, <2>4, <3>3 DEF Shows
  <2> QED BY <2>2, <2>3, <2>4 DEF ShownTarget, LaunchTarget
<1> QED BY <1>1, <1>2, <1>3, RegistryHolds, PTL DEF Spec

-----------------------------------------------------------------------------
(* Types of what the console shows.                                        *)

\* Whatever the console reads from the message has clients for entries.
Readable(m) ==
  \A r \in ParseClients(m) : \A e \in r.clients : e.clientId \in Clients /\ e.experienceId \in Slugs

AllReadable(q) == \A i \in 1..Len(q) : Readable(q[i])
ListsReadable == \A s \in Sockets : AllReadable(down[s])

ListFits == \A st \in Host!StationState : Readable(ClientsMessage(st, StationList))

LEMMA ListFitsNow == PagesOK /\ HostInv /\ Entries => ListFits
<1> SUFFICES ASSUME PagesOK, HostInv, Entries, NEW st \in Host!StationState
             PROVE  Readable(ClientsMessage(st, StationList))
  BY DEF ListFits
<1>1. \A r \in ParseClients(ClientsMessage(st, StationList)) : Shows(r.clients, StationList)
  BY ListReadBack
<1> QED BY <1>1, ListedStatus DEF Readable, Shows

LEMMA ListFitsNext == PagesOK' /\ HostInv' /\ Entries' => ListFits'
BY ListFitsNow, PTL

LEMMA ReadableConcat ==
  ASSUME NEW S, NEW q \in Seq(S), NEW r \in Seq(S), AllReadable(q), AllReadable(r)
  PROVE  AllReadable(q \o r)
<1>1. \A i \in 1..Len(q \o r) : i \in 1..Len(q) \/ \E j \in 1..Len(r) : i = Len(q) + j
  <2> SUFFICES ASSUME NEW i \in 1..Len(q \o r), i \notin 1..Len(q)
               PROVE  \E j \in 1..Len(r) : i = Len(q) + j
    OBVIOUS
  <2>1. i - Len(q) \in 1..Len(r) /\ i = Len(q) + (i - Len(q))
    BY ConcatFacts, SeqFacts
  <2> QED BY <2>1
<1> QED BY <1>1, ConcatFacts DEF AllReadable

\* What is no list is readable.
LEMMA PlainReadable ==
  ASSUME NEW q, Without(q, "runtime.clients") PROVE AllReadable(q)
BY ParsedIs DEF Without, AllReadable, Readable

LEMMA NewsReadable ==
  ASSUME NEW s, NEW st \in Host!StationState, NEW list, Readable(ClientsMessage(st, list))
  PROVE  AllReadable(News(s, st, list))
<1> DEFINE first == StationMessage(st)
           second == ClientsMessage(st, list)
<1>1. Readable(first) /\ Readable(second)
  <2>1. first.type = "station.state"
    BY DEF StationMessage
  <2> QED BY <2>1, ParsedIs DEF Readable
<1>2. News(s, st, list) = IF s[1] = Console THEN <<first, second>> ELSE <<first>>
  BY DEF News
<1> HIDE DEF first, second
<1>3. AllReadable(<<first, second>>) /\ AllReadable(<<first>>)
  BY <1>1 DEF AllReadable
<1> QED BY <1>2, <1>3

LEMMA ListsStep ==
  PagesOK /\ OwnMessages /\ DownOK /\ HostInv /\ HostInv' /\ PagesOK' /\ Entries' /\ Sync
    /\ ListsReadable /\ [Next]_vars => ListsReadable'
<1> SUFFICES ASSUME PagesOK, OwnMessages, DownOK, HostInv, HostInv', PagesOK', Entries', Sync,
                    ListsReadable, [Next]_vars, NEW t \in Sockets
             PROVE  AllReadable(down'[t])
  BY DEF ListsReadable, AllReadable, Readable
<1>1. down[t] \in Seq(DownMessage) /\ AllReadable(down[t]) /\ AllReadable(<<>>)
  BY DEF DownOK, ListsReadable, AllReadable
<1>2. \A st \in Host!StationState : Readable(ClientsMessage(st, StationList'))
  <2>1. ListFits'
    BY ListFitsNext
  <2> QED BY <2>1 DEF ListFits, Readable, ClientsMessage
<1>3. ASSUME NEW x, NEW first \in Seq(DownMessage), HostSends(x, first), AllReadable(first)
      PROVE  AllReadable(down'[t])
  <2> DEFINE answer == IF t = x THEN first ELSE <<>>
             news == IF HasNews(t) THEN News(t, told'[t].station, told'[t].list) ELSE <<>>
  <2>1. answer \in Seq(DownMessage) /\ AllReadable(answer)
    BY <1>1, <1>3, EmptyIsSeq
  <2>2. told'[t].station \in Host!StationState /\ told'[t].list \in SUBSET Host!RuntimeClientSummary
    BY DEF HostInv, Host!TypeOK
  <2>3. HasNews(t) => told'[t].list = StationList'
    BY DEF HasNews, HostInv, Host!OpenSocketsUpToDate, StationList
  <2>4. news \in Seq(DownMessage) /\ AllReadable(news)
    BY <1>1, <1>2, <2>2, <2>3, NewsFacts, NewsReadable, EmptyIsSeq
  <2>5. ~IsLive(t) => down'[t] = <<>>
    BY <1>3, SentIs
  <2>6. IsLive(t) => down'[t] = (down[t] \o answer) \o news
    BY <1>3, SentIs
  <2> HIDE DEF answer, news
  <2>7. down[t] \o answer \in Seq(DownMessage) /\ AllReadable(down[t] \o answer)
    BY <1>1, <2>1, ConcatFacts, ReadableConcat
  <2>8. AllReadable((down[t] \o answer) \o news)
    BY <2>4, <2>7, ReadableConcat
  <2> QED BY <1>1, <2>5, <2>6, <2>8
<1>4. ASSUME NEW s \in Sockets, HostAccepts(s) PROVE AllReadable(down'[t])
  <2> DEFINE news == News(s, station', StationList')
  <2>1. told'[s].list = StationList'
    BY <1>4, AcceptedFacts DEF HostInv, Host!OpenSocketsUpToDate, StationList
  <2>2. station' \in Host!StationState /\ StationList' \in SUBSET Host!RuntimeClientSummary
    BY <2>1 DEF HostInv, Host!TypeOK
  <2>3. HostSends(s, news) /\ news \in Seq(DownMessage) /\ AllReadable(news)
    BY <1>2, <1>4, <2>2, AcceptedFacts, NewsFacts, NewsReadable
  <2> HIDE DEF news
  <2> QED BY <1>3, <2>3
<1>5. CASE HostSpeaks
  <2>1. PICK x : \E first \in Seq(DownMessage) : HostSends(x, first) /\ Plain(first)
    BY <1>5, Zenon DEF HostSpeaks
  <2>2. PICK first \in Seq(DownMessage) : HostSends(x, first) /\ Plain(first)
    BY <2>1
  <2> QED BY <1>3, <2>2, PlainReadable DEF Plain
<1>6. CASE ClockTicks
  BY <1>1, <1>6 DEF ClockTicks
<1>7. CASE BrowsersAct
  <2>1. down'[t] \in {down[t], <<>>} \/ (down[t] # <<>> /\ down'[t] = Tail(down[t]))
    BY <1>7, BrowsersTake
  <2>2. down[t] # <<>> => AllReadable(Tail(down[t]))
    BY <1>1, SeqFacts DEF AllReadable
  <2> QED BY <1>1, <2>1, <2>2
<1> QED BY <1>4, <1>5, <1>6, <1>7, StepKinds

ConsoleTypes == \A e \in console.list : e.clientId \in Clients /\ e.experienceId \in Slugs

LEMMA TypesInit == Init => ListsReadable /\ ConsoleTypes
BY DEF Init, ListsReadable, AllReadable, ConsoleTypes

LEMMA ConsoleTypesStep ==
  DownOK /\ ConsoleOK /\ ListsReadable /\ ConsoleTypes /\ [Next]_vars => ConsoleTypes'
<1> SUFFICES ASSUME DownOK, ConsoleOK, ListsReadable, ConsoleTypes, [Next]_vars
             PROVE  ConsoleTypes'
  OBVIOUS
<1>1. CASE UNCHANGED console
  BY <1>1 DEF ConsoleTypes
<1>2. CASE LoadConsole
  BY <1>2 DEF LoadConsole, ConsoleTypes
<1>3. ASSUME NEW s \in Sockets, ConsoleMessage(s) PROVE ConsoleTypes'
  <2> DEFINE m == Head(down[s])
  <2>1. down[s] \in Seq(DownMessage) /\ down[s] # <<>>
    BY <1>3 DEF ConsoleMessage, DownOK
  <2>2. Readable(m)
    BY <2>1, SeqFacts DEF ListsReadable, AllReadable
  <2>3. \/ \E st \in ParseStation(m) :
             console' = [console EXCEPT !.selected = st.selectedLaunchClientId]
        \/ \E r \in ParseClients(m) : console' = [console EXCEPT !.list = r.clients]
        \/ UNCHANGED console
    BY <1>3 DEF ConsoleMessage
  <2> HIDE DEF m
  <2>4. console'.list = console.list \/ \E r \in ParseClients(m) : console'.list = r.clients
    BY <2>3 DEF ConsoleOK
  <2> QED BY <2>2, <2>4 DEF ConsoleTypes, Readable
<1> QED BY <1>1, <1>2, <1>3, ConsoleChanges

\* Pages, sockets and the console's list are what the code's types say,
\* whatever JSON the pages are configured with (protocol/validators.ts:
\* readRuntimeClientSummary).
THEOREM TypeCorrect == Spec => []TypeOK
<1> DEFINE Inv == /\ PagesOK /\ OwnMessages /\ DownOK /\ Sync /\ Entries /\ SelectedIsListed
                  /\ ConsoleOK /\ ListsReadable /\ ConsoleTypes
<1>1. Init => Inv
  BY PagesInit, OwnInit, DownInit, SyncInit, EntriesInit, ConsoleInit, TypesInit
<1>2. Inv /\ HostInv /\ HostInv' /\ [Next]_vars => Inv'
  BY PagesStep, OwnStep, DownStep, SyncStep, EntriesStep, ConsoleStep, ListsStep,
     ConsoleTypesStep
<1>3. Inv => TypeOK
  BY DEF PagesOK, ConsoleTypes, TypeOK
<1> QED BY <1>1, <1>2, <1>3, RegistryHolds, PTL DEF Spec

=============================================================================
