------------------------ MODULE RuntimeRegistryProofs ------------------------
(* Theorems about RuntimeRegistry, for every value of its constants.       *)
EXTENDS RuntimeRegistry, TLAPS

-----------------------------------------------------------------------------
(* What the registry's queries return.                                     *)

\* #findByClientId returns registered objects with the id that was asked for,
\* at least one of them where the registry has one.
LEMMA FindByClientIdSound ==
  ASSUME NEW S, NEW c
  PROVE  /\ FindByClientId(S, c) \subseteq S
         /\ \A e \in FindByClientId(S, c) : e.clientId = c
         /\ (\E e \in S : e.clientId = c) => FindByClientId(S, c) # {}
         /\ \A e, f \in FindByClientId(S, c) : e = f
<1> DEFINE matching == {e \in S : e.clientId = c}
<1>1. CASE matching = {}
  BY <1>1 DEF FindByClientId
<1>2. CASE matching # {}
  <2>1. (CHOOSE e \in matching : TRUE) \in matching
    BY <1>2
  <2>2. FindByClientId(S, c) = {CHOOSE e \in matching : TRUE}
    BY <1>2 DEF FindByClientId
  <2> QED BY <2>1, <2>2
<1> QED BY <1>1, <1>2

\* #selectDefaultLaunchClientIfClear keeps a selection that is there; a
\* selection it makes is of an online client of the registry.
LEMMA SelectDefaultSound ==
  ASSUME NEW S, NEW st, NEW st2 \in SelectDefaultIfClear(S, st)
  PROVE  \/ st2 = st
         \/ /\ st.selectedLaunchClientId = None
            /\ \E e \in S : e.status = "online" /\ st2 = Selection(e)
BY DEF SelectDefaultIfClear, OnlineDefaults

-----------------------------------------------------------------------------
(* Type correctness.                                                       *)

LEMMA SelectionType ==
  ASSUME NEW S \in SUBSET RuntimeClient, NEW st \in StationState,
         NEW st2 \in SelectDefaultIfClear(S, st)
  PROVE  st2 \in StationState
BY SelectDefaultSound DEF Selection, RuntimeClient, StationState

LEMMA ListType ==
  ASSUME NEW S \in SUBSET RuntimeClient,
         \A e \in S : e.clientId # None =>
            e.experienceId # None /\ e.status # "unregistered"
  PROVE  ListRuntimeClients(S) \in SUBSET RuntimeClientSummary
BY DEF ListRuntimeClients, RuntimeClient, RuntimeClientSummary

\* An object without presence has neither id nor experience, and no time or
\* status; an object with presence has all of them.
PresenceShape ==
  \A e \in clients :
    /\ e.clientId = None <=> e.status = "unregistered"
    /\ e.clientId = None <=> e.experienceId = None

TypeInv == TypeOK /\ PresenceShape

Told ==
  [registered: Clients \cup {None}, station: StationState,
   list: SUBSET RuntimeClientSummary]

\* A broadcast sends well-formed messages.
LEMMA PublishType ==
  ASSUME TypeOK, clients' \in SUBSET RuntimeClient, PresenceShape',
         station' \in StationState, NEW listToo \in BOOLEAN, Publish(listToo)
  PROVE  told' \in [Sockets -> Told]
<1>1. ListRuntimeClients(clients') \in SUBSET RuntimeClientSummary
  BY ListType DEF PresenceShape
<1>2. NothingTold \in Told
  BY DEF NothingTold, Told, NoSelection, StationState
<1> QED
  BY <1>1, <1>2 DEF Publish, TypeOK, Told

LEMMA InitType == Init => TypeInv
BY TimeAssumption
DEF Init, TypeInv, TypeOK, PresenceShape, NothingTold, NoSelection, StationState

LEMMA ConnectType ==
  ASSUME TypeInv, NEW s \in Sockets, Connect(s) PROVE TypeInv'
<1> USE DEF TypeInv
<1>1. clients' \in SUBSET RuntimeClient /\ PresenceShape'
  <2> DEFINE new == [socket |-> s, clientId |-> None, experienceId |-> None,
                     status |-> "unregistered", age |-> 0, held |-> TRUE]
  <2>1. new \in RuntimeClient
    BY TimeAssumption DEF RuntimeClient, AgeCap
  <2>2. clients' = clients \cup {new}
    BY DEF Connect
  <2> HIDE DEF new
  <2>3. clients' \in SUBSET RuntimeClient
    BY <2>1, <2>2 DEF TypeOK
  <2>4. \A e \in clients' : e \in clients \/ e = new
    BY <2>2
  <2> QED BY <2>3, <2>4 DEF PresenceShape, new
<1>2. ListRuntimeClients(clients) \in SUBSET RuntimeClientSummary
  BY ListType DEF PresenceShape, TypeOK
<1>3. [registered |-> None, station |-> station, list |-> ListRuntimeClients(clients)] \in Told
  BY <1>2 DEF Told, TypeOK
<1>4. told' \in [Sockets -> Told]
  BY <1>3 DEF Connect, TypeOK, Told
<1> QED BY <1>1, <1>4 DEF Connect, TypeOK, Told

LEMMA HelloType ==
  ASSUME TypeInv, NEW s \in Sockets, NEW c \in Clients, NEW x \in Experiences,
         Hello(s, c, x)
  PROVE  TypeInv'
<1> USE DEF TypeInv
<1> DEFINE new == [socket |-> s, clientId |-> c, experienceId |-> x,
                   status |-> "online", age |-> 0, held |-> TRUE]
<1>1. new \in RuntimeClient
  BY TimeAssumption DEF RuntimeClient, AgeCap
<1>2. clients' \in SUBSET RuntimeClient /\ PresenceShape'
  <2>1. clients' = (clients \ (Duplicates(s, c) \cup HeldBy(clients, s))) \cup {new}
    BY DEF Hello
  <2> HIDE DEF new
  <2>2. clients' \in SUBSET RuntimeClient
    BY <2>1, <1>1 DEF TypeOK
  <2>3. \A e \in clients' : e \in clients \/ e = new
    BY <2>1
  <2> QED BY <2>2, <2>3, NoneAssumption DEF PresenceShape, new
<1>3. station' \in StationState
  BY <1>1, <1>2, SelectionType DEF Hello, FollowClient, TypeOK, Selection, StationState
<1>4. ListRuntimeClients(clients') \in SUBSET RuntimeClientSummary
  BY <1>2, ListType DEF PresenceShape
<1>5. NothingTold \in Told
  BY DEF NothingTold, Told, NoSelection, StationState
<1>6. told' \in [Sockets -> Told]
  BY <1>3, <1>4, <1>5 DEF Hello, TypeOK, Told
<1> QED BY <1>2, <1>3, <1>6 DEF Hello, Closing, TypeOK, Told

LEMMA RejectHelloType ==
  ASSUME TypeInv, NEW s \in Sockets, RejectHello(s) PROVE TypeInv'
BY DEF RejectHello, TypeInv, TypeOK, PresenceShape, NothingTold, NoSelection, StationState

\* The replacement object keeps socket, id and experience of the old one.
LEMMA ReplacementType ==
  ASSUME NEW e \in RuntimeClient, NEW st \in {"online", "stale"}, NEW a \in 0..AgeCap
  PROVE  Replacement(e, st, a) \in RuntimeClient
BY DEF Replacement, RuntimeClient

LEMMA HeartbeatClients ==
  ASSUME TypeInv, NEW c \in Clients, NEW e \in FindByClientId(clients, c)
  PROVE  /\ (clients \ {e}) \cup {Replacement(e, "online", 0)} \in SUBSET RuntimeClient
         /\ e \in clients /\ e.clientId = c /\ e.experienceId # None
<1>1. e \in clients /\ e.clientId = c
  BY FindByClientIdSound
<1>2. e \in RuntimeClient /\ 0 \in 0..AgeCap
  BY <1>1, TimeAssumption DEF TypeInv, TypeOK, AgeCap
<1>3. Replacement(e, "online", 0) \in RuntimeClient
  BY <1>2, ReplacementType
<1> QED BY <1>1, <1>3, NoneAssumption DEF TypeInv, TypeOK, PresenceShape

LEMMA HeartbeatType ==
  ASSUME TypeInv, NEW s \in Sockets, NEW c \in Clients, Heartbeat(s, c)
  PROVE  TypeInv'
<1>1. clients' \in SUBSET RuntimeClient /\ PresenceShape'
  <2>1. PICK e \in FindByClientId(clients, c) :
          clients' = (clients \ {e}) \cup {Replacement(e, "online", 0)}
    BY DEF Heartbeat
  <2>2. \A f \in clients' : f \in clients \/ f = Replacement(e, "online", 0)
    BY <2>1
  <2>3. PresenceShape'
    BY <2>2, HeartbeatClients, NoneAssumption DEF TypeInv, PresenceShape, Replacement
  <2> QED BY <2>1, <2>3, HeartbeatClients
<1>2. CASE UNCHANGED <<station, told>>
  BY <1>1, <1>2 DEF Heartbeat, TypeInv, TypeOK
<1>3. CASE station' \in SelectDefaultIfClear(clients', station) /\ Publish(TRUE)
  <2>1. station' \in StationState
    BY <1>1, <1>3, SelectionType DEF TypeInv, TypeOK
  <2>2. told' \in [Sockets -> Told]
    BY <1>1, <1>3, <2>1, PublishType DEF TypeInv
  <2> QED BY <1>1, <2>1, <2>2 DEF Heartbeat, TypeInv, TypeOK, Told
<1> QED BY <1>2, <1>3 DEF Heartbeat

LEMMA SocketClosedType ==
  ASSUME TypeInv, NEW s \in Sockets, SocketClosed(s) PROVE TypeInv'
<1>1. clients' \in SUBSET RuntimeClient /\ PresenceShape'
  BY DEF SocketClosed, TypeInv, TypeOK, PresenceShape
<1>2. station' \in StationState
  <2>1. NoSelection \in StationState
    BY DEF NoSelection, StationState
  <2> QED BY <1>1, <2>1, SelectionType DEF SocketClosed, TypeInv, TypeOK
<1>3. told' \in [Sockets -> Told]
  BY <1>1, <1>2, PublishType DEF SocketClosed, TypeInv
<1> QED BY <1>1, <1>2, <1>3 DEF SocketClosed, TypeInv, TypeOK, Told

\* What markStaleClients makes of an object: it keeps it, or replaces it by a
\* stale one when it is too old.
LEMMA MarkedStaleFacts ==
  ASSUME TypeInv, NEW e \in clients
  PROVE  /\ MarkedStale(e) \in RuntimeClient
         /\ MarkedStale(e).clientId = e.clientId
         /\ MarkedStale(e).experienceId = e.experienceId
         /\ MarkedStale(e).socket = e.socket
         /\ MarkedStale(e).age = e.age
         /\ MarkedStale(e).held => MarkedStale(e) = e
         /\ MarkedStale(e).status = "online" => MarkedStale(e) = e /\ e.age =< StaleAfter
         /\ MarkedStale(e).status = "unregistered" <=> e.status = "unregistered"
         /\ e.clientId = None => MarkedStale(e) = e
<1>1. e \in RuntimeClient /\ e.age \in 0..AgeCap
  BY DEF TypeInv, TypeOK, RuntimeClient
<1>2. Replacement(e, "stale", e.age) \in RuntimeClient
  BY <1>1, ReplacementType
<1>3. e.age \in Nat /\ StaleAfter \in Nat
  BY <1>1, TimeAssumption DEF AgeCap
<1>4. e.status = "online" => e.clientId # None
  BY DEF TypeInv, PresenceShape
<1>5. CASE e.status = "online" /\ e.age > StaleAfter
  BY <1>2, <1>4, <1>5 DEF MarkedStale, Replacement
<1>6. CASE ~(e.status = "online" /\ e.age > StaleAfter)
  BY <1>1, <1>3, <1>6 DEF MarkedStale
<1> QED BY <1>5, <1>6

LEMMA MarkStaleType ==
  ASSUME TypeInv, MarkStaleRuntimeClients PROVE TypeInv'
<1>1. clients' \in SUBSET RuntimeClient
  BY MarkedStaleFacts DEF MarkStaleRuntimeClients
<1>2. PresenceShape'
  BY MarkedStaleFacts DEF MarkStaleRuntimeClients, TypeInv, PresenceShape
<1>3. station' \in StationState
  <2>1. NoSelection \in StationState
    BY DEF NoSelection, StationState
  <2> QED BY <1>1, <2>1, SelectionType DEF MarkStaleRuntimeClients, TypeInv, TypeOK
<1>4. told' \in [Sockets -> Told]
  BY <1>1, <1>2, <1>3, PublishType DEF MarkStaleRuntimeClients, TypeInv
<1> QED
  BY <1>1, <1>2, <1>3, <1>4, TimeAssumption DEF MarkStaleRuntimeClients, TypeInv, TypeOK, Told

LEMMA OperatorType == ASSUME TypeInv, Operator PROVE TypeInv'
<1>1. station' \in StationState
  <2>1. ASSUME NEW c \in Clients, SelectLaunchClient(c) PROVE station' \in StationState
    BY <2>1, FindByClientIdSound
    DEF SelectLaunchClient, Selection, StationState, TypeInv, TypeOK, RuntimeClient
  <2>2. CASE ClearLaunchClient
    BY <2>2 DEF ClearLaunchClient, NoSelection, StationState
  <2> QED BY <2>1, <2>2 DEF Operator
<1>2. UNCHANGED <<clients, socketState, sinceCheck>> /\ Publish(FALSE)
  BY DEF Operator, SelectLaunchClient, ClearLaunchClient
<1>3. clients' \in SUBSET RuntimeClient /\ PresenceShape'
  BY <1>2 DEF TypeInv, TypeOK, PresenceShape
<1>4. told' \in [Sockets -> Told]
  BY <1>1, <1>2, <1>3, PublishType DEF TypeInv
<1> QED BY <1>1, <1>2, <1>3, <1>4 DEF TypeInv, TypeOK, Told

\* A tick makes an object with presence older, and changes nothing else.
LEMMA OlderFacts ==
  ASSUME TypeInv, NEW e \in clients
  PROVE  /\ Older(e) \in RuntimeClient
         /\ Older(e).clientId = e.clientId /\ Older(e).experienceId = e.experienceId
         /\ Older(e).socket = e.socket /\ Older(e).held = e.held
         /\ Older(e).status = e.status
         /\ Older(e).age =< e.age + 1
<1>1. e \in RuntimeClient /\ e.age \in 0..AgeCap /\ AgeCap \in Nat
  BY TimeAssumption DEF TypeInv, TypeOK, RuntimeClient, AgeCap
<1>2. CASE e.clientId # None /\ e.age < AgeCap
  <2>1. e.age + 1 \in 0..AgeCap
    BY <1>1, <1>2
  <2>2. Older(e) = [e EXCEPT !.age = e.age + 1]
    BY <1>2 DEF Older
  <2> QED BY <1>1, <2>1, <2>2 DEF RuntimeClient
<1>3. CASE ~(e.clientId # None /\ e.age < AgeCap)
  BY <1>1, <1>3 DEF Older
<1> QED BY <1>2, <1>3

LEMMA TickType == ASSUME TypeInv, Tick PROVE TypeInv'
<1>1. clients' \in SUBSET RuntimeClient
  BY OlderFacts DEF Tick
<1>2. PresenceShape'
  BY OlderFacts DEF Tick, TypeInv, PresenceShape
<1> QED BY <1>1, <1>2, TimeAssumption DEF Tick, TypeInv, TypeOK

LEMMA TypeStep == TypeInv /\ [Next]_vars => TypeInv'
<1> SUFFICES ASSUME TypeInv, [Next]_vars PROVE TypeInv'
  OBVIOUS
<1>1. CASE UNCHANGED vars
  BY <1>1 DEF vars, TypeInv, TypeOK, PresenceShape
<1>2. CASE Next
  BY <1>2, ConnectType, RejectHelloType, SocketClosedType, HelloType, HeartbeatType,
     MarkStaleType, OperatorType, TickType DEF Next
<1> QED BY <1>1, <1>2

\* Every reachable state of registry, station and connections is well-formed:
\* every operation of runtime-clients.ts, state.ts and the gateway's handlers.
THEOREM TypeCorrect == Spec => [](TypeOK /\ PresenceShape)
<1>1. TypeInv /\ [Next]_vars => TypeInv'
  BY TypeStep
<1> QED BY InitType, <1>1, PTL DEF Spec, TypeInv

-----------------------------------------------------------------------------
(* Identity of the registry's objects.  Uniqueness of client ids is not    *)
(* inductive alone: it needs that a closure refers to one object, that an  *)
(* object without presence is always referred to, and that references end  *)
(* with their connection.                                                  *)

OneHeldPerSocket ==
  \A e, f \in clients : e.held /\ f.held /\ e.socket = f.socket => e = f

HeldWhileConnected ==
  \A e \in clients : e.held => socketState[e.socket] # "closed"

UnregisteredIsHeld == \A e \in clients : e.clientId = None => e.held

IdentityInv ==
  OneEntryPerClient /\ OneHeldPerSocket /\ HeldWhileConnected /\ UnregisteredIsHeld

\* Where ids are unique, #findByClientId returns every object with the id.
LEMMA FindByClientIdComplete ==
  ASSUME OneEntryPerClient, NEW e \in clients, e.clientId # None
  PROVE  FindByClientId(clients, e.clientId) = {e}
BY FindByClientIdSound DEF OneEntryPerClient

LEMMA InitIdentity == Init => IdentityInv
BY DEF Init, IdentityInv, OneEntryPerClient, OneHeldPerSocket, HeldWhileConnected,
       UnregisteredIsHeld

LEMMA ConnectIdentity ==
  ASSUME TypeInv, IdentityInv, NEW s \in Sockets, Connect(s) PROVE IdentityInv'
<1> DEFINE new == [socket |-> s, clientId |-> None, experienceId |-> None,
                   status |-> "unregistered", age |-> 0, held |-> TRUE]
<1>1. clients' = clients \cup {new}
  BY DEF Connect
<1>2. new.clientId = None /\ new.socket = s /\ new.held
  OBVIOUS
<1> HIDE DEF new
<1>3. \A e \in clients : e.socket # s
  BY DEF Connect
<1>4. OneEntryPerClient'
  BY <1>1, <1>2 DEF IdentityInv, OneEntryPerClient
<1>5. OneHeldPerSocket'
  BY <1>1, <1>2, <1>3 DEF IdentityInv, OneHeldPerSocket
<1>6. HeldWhileConnected'
  BY <1>1, <1>2, <1>3
  DEF Connect, IdentityInv, HeldWhileConnected, TypeInv, TypeOK, RuntimeClient
<1>7. UnregisteredIsHeld'
  BY <1>1, <1>2 DEF IdentityInv, UnregisteredIsHeld
<1> QED BY <1>4, <1>5, <1>6, <1>7 DEF IdentityInv

\* After registerHello the new object is the only one of its client and the
\* only one its connection's closure refers to.
LEMMA HelloClients ==
  ASSUME TypeInv, IdentityInv, NEW s \in Sockets, NEW c \in Clients,
         NEW x \in Experiences, Hello(s, c, x)
  PROVE  \E new \in clients' :
           /\ new.socket = s /\ new.clientId = c /\ new.experienceId = x
           /\ new.status = "online" /\ new.age = 0 /\ new.held
           /\ \A e \in clients' \ {new} :
                e \in clients /\ e.clientId # c /\ ~(e.socket = s /\ e.held)
           /\ station' \in
                {IF st.selectedLaunchClientId = c THEN Selection(new) ELSE st :
                   st \in SelectDefaultIfClear(clients', station)}
<1> DEFINE new == [socket |-> s, clientId |-> c, experienceId |-> x,
                   status |-> "online", age |-> 0, held |-> TRUE]
<1>1. clients' = (clients \ (Duplicates(s, c) \cup HeldBy(clients, s))) \cup {new}
  BY DEF Hello
<1>2. station' \in {IF st.selectedLaunchClientId = c THEN Selection(new) ELSE st :
                      st \in SelectDefaultIfClear(clients', station)}
  BY DEF Hello, FollowClient
<1>3. /\ new.socket = s /\ new.clientId = c /\ new.experienceId = x
      /\ new.status = "online" /\ new.age = 0 /\ new.held
  OBVIOUS
<1> HIDE DEF new
<1>4. ASSUME NEW e \in clients', e # new
      PROVE  e \in clients /\ e.clientId # c /\ ~(e.socket = s /\ e.held)
  <2>1. e \in clients /\ e \notin FindByClientId(clients, c) /\ e \notin HeldBy(clients, s)
    BY <1>1, <1>4 DEF Duplicates
  <2>2. e.clientId # c
    BY <2>1, FindByClientIdComplete, NoneAssumption DEF IdentityInv
  <2> QED BY <2>1, <2>2 DEF HeldBy
<1> QED BY <1>1, <1>2, <1>3, <1>4

LEMMA HelloIdentity ==
  ASSUME TypeInv, IdentityInv, NEW s \in Sockets, NEW c \in Clients,
         NEW x \in Experiences, Hello(s, c, x)
  PROVE  IdentityInv'
<1>1. PICK new \in clients' :
        /\ new.socket = s /\ new.clientId = c /\ new.held
        /\ \A e \in clients' \ {new} :
             e \in clients /\ e.clientId # c /\ ~(e.socket = s /\ e.held)
  BY HelloClients
<1>2. OneEntryPerClient'
  BY <1>1 DEF IdentityInv, OneEntryPerClient
<1>3. OneHeldPerSocket'
  BY <1>1 DEF IdentityInv, OneHeldPerSocket
<1>4. HeldWhileConnected'
  <2>1. \A t \in Sockets : socketState[t] # "closed" => socketState'[t] # "closed"
    BY DEF Hello, Closing
  <2>2. socketState[s] # "closed"
    BY DEF Hello
  <2>3. \A e \in clients : e.socket \in Sockets
    BY DEF TypeInv, TypeOK, RuntimeClient
  <2> QED BY <1>1, <2>1, <2>2, <2>3 DEF IdentityInv, HeldWhileConnected
<1>5. UnregisteredIsHeld'
  BY <1>1 DEF IdentityInv, UnregisteredIsHeld
<1> QED BY <1>2, <1>3, <1>4, <1>5 DEF IdentityInv

LEMMA HeartbeatIdentity ==
  ASSUME TypeInv, IdentityInv, NEW s \in Sockets, NEW c \in Clients, Heartbeat(s, c)
  PROVE  IdentityInv'
<1>1. PICK e \in FindByClientId(clients, c) :
        clients' = (clients \ {e}) \cup {Replacement(e, "online", 0)}
  BY DEF Heartbeat
<1>2. e \in clients /\ e.clientId = c
  BY FindByClientIdSound
<1> DEFINE new == Replacement(e, "online", 0)
<1>3. new.clientId = c /\ new.held = FALSE
  BY <1>2 DEF Replacement
<1>4. UNCHANGED socketState
  BY DEF Heartbeat
<1>5. \A f \in clients' : f = new \/ (f \in clients /\ f # e)
  BY <1>1
<1> HIDE DEF new
<1>6. OneEntryPerClient'
  BY <1>2, <1>3, <1>5 DEF IdentityInv, OneEntryPerClient
<1>7. OneHeldPerSocket'
  BY <1>3, <1>5 DEF IdentityInv, OneHeldPerSocket
<1>8. HeldWhileConnected'
  BY <1>3, <1>4, <1>5 DEF IdentityInv, HeldWhileConnected
<1>9. UnregisteredIsHeld'
  BY <1>3, <1>5, NoneAssumption DEF IdentityInv, UnregisteredIsHeld
<1> QED BY <1>6, <1>7, <1>8, <1>9 DEF IdentityInv

LEMMA SocketClosedIdentity ==
  ASSUME TypeInv, IdentityInv, NEW s \in Sockets, SocketClosed(s) PROVE IdentityInv'
<1>1. clients' \subseteq clients
  BY DEF SocketClosed
<1>2. HeldWhileConnected'
  BY DEF SocketClosed, HeldBy, IdentityInv, HeldWhileConnected, TypeInv, TypeOK, RuntimeClient
<1> QED
  BY <1>1, <1>2 DEF IdentityInv, OneEntryPerClient, OneHeldPerSocket, UnregisteredIsHeld

LEMMA MarkStaleIdentity ==
  ASSUME TypeInv, IdentityInv, MarkStaleRuntimeClients PROVE IdentityInv'
<1>1. clients' = {MarkedStale(e) : e \in clients} /\ UNCHANGED socketState
  BY DEF MarkStaleRuntimeClients
<1>2. OneEntryPerClient'
  BY <1>1, MarkedStaleFacts DEF IdentityInv, OneEntryPerClient
<1>3. OneHeldPerSocket'
  BY <1>1, MarkedStaleFacts DEF IdentityInv, OneHeldPerSocket
<1>4. HeldWhileConnected'
  BY <1>1, MarkedStaleFacts DEF IdentityInv, HeldWhileConnected
<1>5. UnregisteredIsHeld'
  BY <1>1, MarkedStaleFacts DEF IdentityInv, UnregisteredIsHeld
<1> QED BY <1>2, <1>3, <1>4, <1>5 DEF IdentityInv

LEMMA TickIdentity == ASSUME TypeInv, IdentityInv, Tick PROVE IdentityInv'
<1>1. clients' = {Older(e) : e \in clients} /\ UNCHANGED socketState
  BY DEF Tick
<1>2. OneEntryPerClient'
  BY <1>1, OlderFacts DEF IdentityInv, OneEntryPerClient
<1>3. OneHeldPerSocket'
  BY <1>1, OlderFacts DEF IdentityInv, OneHeldPerSocket
<1>4. HeldWhileConnected'
  BY <1>1, OlderFacts DEF IdentityInv, HeldWhileConnected
<1>5. UnregisteredIsHeld'
  BY <1>1, OlderFacts DEF IdentityInv, UnregisteredIsHeld
<1> QED BY <1>2, <1>3, <1>4, <1>5 DEF IdentityInv

LEMMA IdentityStep == TypeInv /\ IdentityInv /\ [Next]_vars => IdentityInv'
<1> SUFFICES ASSUME TypeInv, IdentityInv, [Next]_vars PROVE IdentityInv'
  OBVIOUS
<1>1. ASSUME UNCHANGED <<clients, socketState>> PROVE IdentityInv'
  BY <1>1 DEF IdentityInv, OneEntryPerClient, OneHeldPerSocket, HeldWhileConnected,
              UnregisteredIsHeld
<1>2. CASE UNCHANGED vars
  BY <1>1, <1>2 DEF vars
<1>3. ASSUME NEW s \in Sockets, RejectHello(s) PROVE IdentityInv'
  BY <1>3 DEF RejectHello, IdentityInv, OneEntryPerClient, OneHeldPerSocket,
              HeldWhileConnected, UnregisteredIsHeld, TypeInv, TypeOK, RuntimeClient
<1>4. CASE Operator
  BY <1>1, <1>4 DEF Operator, SelectLaunchClient, ClearLaunchClient
<1>5. CASE Next
  BY <1>3, <1>4, <1>5, ConnectIdentity, SocketClosedIdentity, HelloIdentity,
     HeartbeatIdentity, MarkStaleIdentity, TickIdentity DEF Next
<1> QED BY <1>2, <1>5

\* The registry never lists two objects of one client, although objects are
\* deleted and re-added under references that may be stale
\* (runtime-clients.ts: registerHello, recordHeartbeat, markStaleClients).
THEOREM UniqueClients == Spec => []OneEntryPerClient
<1>1. TypeInv /\ [Next]_vars => TypeInv'
  BY TypeStep
<1>2. TypeInv /\ IdentityInv /\ [Next]_vars => IdentityInv'
  BY IdentityStep
<1>3. IdentityInv => OneEntryPerClient
  BY DEF IdentityInv
<1> QED BY InitType, InitIdentity, <1>1, <1>2, <1>3, PTL DEF Spec

-----------------------------------------------------------------------------
(* The selection and the registry.                                         *)

Unique(S) == \A e, f \in S : e.clientId # None /\ e.clientId = f.clientId => e = f

Matches(S, st) ==
  \A e \in S : e.clientId # None /\ e.clientId = st.selectedLaunchClientId
    => e.status = "online" /\ e.experienceId = st.selectedExperienceId

\* The default selection is of an online client, with that client's experience.
LEMMA SelectDefaultMatches ==
  ASSUME NEW S, Unique(S), NEW st, Matches(S, st), NEW st2 \in SelectDefaultIfClear(S, st)
  PROVE  Matches(S, st2)
<1>1. CASE st2 = st
  BY <1>1
<1>2. ASSUME NEW e \in S, e.status = "online", st2 = Selection(e) PROVE Matches(S, st2)
  BY <1>2 DEF Matches, Unique, Selection
<1> QED BY <1>1, <1>2, SelectDefaultSound

LEMMA NoSelectionMatches == ASSUME NEW S PROVE Matches(S, NoSelection)
BY DEF Matches, NoSelection

LEMMA HelloMatches ==
  ASSUME TypeInv, IdentityInv, IdentityInv', SelectionMatchesRegistry,
         NEW s \in Sockets, NEW c \in Clients, NEW x \in Experiences, Hello(s, c, x)
  PROVE  SelectionMatchesRegistry'
<1>1. PICK new \in clients' :
        /\ new.clientId = c /\ new.experienceId = x /\ new.status = "online"
        /\ \A e \in clients' \ {new} : e \in clients /\ e.clientId # c
        /\ station' \in
             {IF st.selectedLaunchClientId = c THEN Selection(new) ELSE st :
                st \in SelectDefaultIfClear(clients', station)}
  BY HelloClients
<1>2. PICK st \in SelectDefaultIfClear(clients', station) :
        station' = IF st.selectedLaunchClientId = c THEN Selection(new) ELSE st
  BY <1>1
<1>3. CASE st.selectedLaunchClientId = c
  BY <1>1, <1>2, <1>3 DEF SelectionMatchesRegistry, Selection
<1>4. CASE st.selectedLaunchClientId # c
  <2>1. CASE st = station
    BY <1>1, <1>2, <1>4, <2>1 DEF SelectionMatchesRegistry
  <2>2. ASSUME NEW e \in clients', e.status = "online", st = Selection(e)
        PROVE SelectionMatchesRegistry'
    BY <1>2, <1>4, <2>2
    DEF SelectionMatchesRegistry, Selection, IdentityInv, OneEntryPerClient
  <2> QED BY <2>1, <2>2, SelectDefaultSound
<1> QED BY <1>3, <1>4

LEMMA HeartbeatMatches ==
  ASSUME TypeInv, IdentityInv, IdentityInv', SelectionMatchesRegistry,
         NEW s \in Sockets, NEW c \in Clients, Heartbeat(s, c)
  PROVE  SelectionMatchesRegistry'
<1>1. PICK e \in FindByClientId(clients, c) :
        clients' = (clients \ {e}) \cup {Replacement(e, "online", 0)}
  BY DEF Heartbeat
<1>2. e \in clients /\ e.clientId = c
  BY FindByClientIdSound
<1>3. Matches(clients', station)
  <2>1. \A f \in clients' : f \in clients \/ f = Replacement(e, "online", 0)
    BY <1>1
  <2> QED BY <1>2, <2>1 DEF Matches, SelectionMatchesRegistry, Replacement
<1>4. Unique(clients')
  BY DEF Unique, IdentityInv, OneEntryPerClient
<1>5. station' = station \/ station' \in SelectDefaultIfClear(clients', station)
  BY DEF Heartbeat
<1>6. Matches(clients', station')
  BY <1>3, <1>4, <1>5, SelectDefaultMatches
<1> QED BY <1>6 DEF Matches, SelectionMatchesRegistry

LEMMA SocketClosedMatches ==
  ASSUME TypeInv, IdentityInv', SelectionMatchesRegistry, NEW s \in Sockets, SocketClosed(s)
  PROVE  SelectionMatchesRegistry'
<1>1. Matches(clients', station)
  BY DEF SocketClosed, Matches, SelectionMatchesRegistry
<1>2. Unique(clients')
  BY DEF Unique, IdentityInv, OneEntryPerClient
<1>3. station' = station \/ station' \in SelectDefaultIfClear(clients', NoSelection)
  BY DEF SocketClosed
<1>4. Matches(clients', station')
  BY <1>1, <1>2, <1>3, NoSelectionMatches, SelectDefaultMatches
<1> QED BY <1>4 DEF Matches, SelectionMatchesRegistry

LEMMA MarkStaleMatches ==
  ASSUME TypeInv, IdentityInv', SelectionMatchesRegistry, MarkStaleRuntimeClients
  PROVE  SelectionMatchesRegistry'
<1>1. Unique(clients')
  BY DEF Unique, IdentityInv, OneEntryPerClient
<1>2. CASE station' \in SelectDefaultIfClear(clients', NoSelection)
  <2>1. Matches(clients', station')
    BY <1>1, <1>2, NoSelectionMatches, SelectDefaultMatches
  <2> QED BY <2>1 DEF Matches, SelectionMatchesRegistry
<1>3. CASE /\ station' \in SelectDefaultIfClear(clients', station)
           /\ \/ station.selectedLaunchClientId = None
              \/ IsSelectable(clients', station.selectedLaunchClientId)
  <2>1. Matches(clients', station)
    <3>1. CASE station.selectedLaunchClientId = None
      BY <3>1 DEF Matches
    <3>2. CASE IsSelectable(clients', station.selectedLaunchClientId)
      <4>1. PICK f \in clients' : /\ f.status = "online"
                                  /\ f.clientId = station.selectedLaunchClientId
        BY <3>2, FindByClientIdSound DEF IsSelectable
      <4>2. PICK e \in clients : f = MarkedStale(e)
        BY DEF MarkStaleRuntimeClients
      <4>3. f = e
        BY <4>1, <4>2, MarkedStaleFacts
      <4>4. f.clientId # None => f.experienceId = station.selectedExperienceId
        BY <4>1, <4>3 DEF SelectionMatchesRegistry
      <4> QED BY <1>1, <4>1, <4>4 DEF Matches, Unique
    <3> QED BY <1>3, <3>1, <3>2
  <2>2. Matches(clients', station')
    BY <1>1, <1>3, <2>1, SelectDefaultMatches
  <2> QED BY <2>2 DEF Matches, SelectionMatchesRegistry
<1> QED BY <1>2, <1>3 DEF MarkStaleRuntimeClients

LEMMA OperatorMatches ==
  ASSUME TypeInv, IdentityInv, SelectionMatchesRegistry, Operator
  PROVE  SelectionMatchesRegistry'
<1>1. ASSUME NEW c \in Clients, SelectLaunchClient(c) PROVE SelectionMatchesRegistry'
  <2>1. PICK e \in FindByClientId(clients, c) : e.status = "online" /\ station' = Selection(e)
    BY <1>1 DEF SelectLaunchClient
  <2>2. e \in clients
    BY FindByClientIdSound
  <2>3. UNCHANGED clients
    BY <1>1 DEF SelectLaunchClient
  <2> QED
    BY <2>1, <2>2, <2>3 DEF SelectionMatchesRegistry, Selection, IdentityInv, OneEntryPerClient
<1>2. CASE ClearLaunchClient
  BY <1>2 DEF ClearLaunchClient, NoSelection, SelectionMatchesRegistry
<1> QED BY <1>1, <1>2 DEF Operator

LEMMA MatchesStep ==
  TypeInv /\ IdentityInv /\ SelectionMatchesRegistry /\ [Next]_vars
    => SelectionMatchesRegistry'
<1> SUFFICES ASSUME TypeInv, IdentityInv, SelectionMatchesRegistry, [Next]_vars
             PROVE  SelectionMatchesRegistry'
  OBVIOUS
<1>1. IdentityInv'
  BY IdentityStep
<1>2. ASSUME UNCHANGED <<clients, station>> PROVE SelectionMatchesRegistry'
  BY <1>2 DEF SelectionMatchesRegistry
<1>3. CASE UNCHANGED vars
  BY <1>2, <1>3 DEF vars
<1>4. ASSUME NEW s \in Sockets, Connect(s) PROVE SelectionMatchesRegistry'
  <2>1. \A e \in clients' : e \in clients \/ e.clientId = None
    BY <1>4 DEF Connect
  <2> QED BY <1>4, <2>1 DEF Connect, SelectionMatchesRegistry
<1>5. ASSUME NEW s \in Sockets, RejectHello(s) PROVE SelectionMatchesRegistry'
  BY <1>2, <1>5 DEF RejectHello
<1>6. CASE Tick
  BY <1>6, OlderFacts DEF Tick, SelectionMatchesRegistry
<1>7. CASE Next
  BY <1>1, <1>4, <1>5, <1>6, <1>7, HelloMatches, HeartbeatMatches, SocketClosedMatches,
     MarkStaleMatches, OperatorMatches DEF Next
<1> QED BY <1>3, <1>7

\* A selected client that the registry lists is online, and the station's
\* experience is the one it last registered with (gateway.ts:
\* #registerRuntimeClient, #markStaleRuntimeClients; launch-routing.ts).
THEOREM SelectionCorrect == Spec => []SelectionMatchesRegistry
<1>1. TypeInv /\ [Next]_vars => TypeInv'
  BY TypeStep
<1>2. TypeInv /\ IdentityInv /\ [Next]_vars => IdentityInv'
  BY IdentityStep
<1>3. TypeInv /\ IdentityInv /\ SelectionMatchesRegistry /\ [Next]_vars
        => SelectionMatchesRegistry'
  BY MatchesStep
<1>4. Init => SelectionMatchesRegistry
  BY DEF Init, SelectionMatchesRegistry
<1> QED BY InitType, InitIdentity, <1>1, <1>2, <1>3, <1>4, PTL DEF Spec

-----------------------------------------------------------------------------
(* Connections: every open one is in the registry, so that it receives     *)
(* every broadcast, and is listed for the client it registered.            *)

OpenSocketIsListed ==
  \A s \in Sockets : socketState[s] = "open" => \E e \in clients : e.socket = s

ListedInv == OpenSocketIsListed /\ RegisteredSocketIsListed

\* A step that opens no connection, registers none, and keeps for each open
\* connection an object with the same id.
LEMMA KeepsListed ==
  ASSUME ListedInv,
         \A s \in Sockets : socketState'[s] = "open" =>
           /\ socketState[s] = "open"
           /\ told'[s].registered = told[s].registered
           /\ \A e \in clients : e.socket = s =>
                \E g \in clients' : g.socket = s /\ g.clientId = e.clientId
  PROVE  ListedInv'
<1>1. OpenSocketIsListed'
  BY DEF ListedInv, OpenSocketIsListed
<1>2. RegisteredSocketIsListed'
  <2> SUFFICES ASSUME NEW s \in Sockets, socketState'[s] = "open", told'[s].registered # None
               PROVE  \E g \in clients' : g.clientId = told'[s].registered /\ g.socket = s
    BY DEF RegisteredSocketIsListed
  <2>1. socketState[s] = "open" /\ told[s].registered # None
    OBVIOUS
  <2>2. PICK e \in clients : e.clientId = told[s].registered /\ e.socket = s
    BY <2>1 DEF ListedInv, RegisteredSocketIsListed
  <2> QED BY <2>2
<1> QED BY <1>1, <1>2 DEF ListedInv

\* A broadcast tells an open connection nothing about its registration.
LEMMA PublishRegistered ==
  ASSUME TypeInv, NEW listToo \in BOOLEAN, Publish(listToo), NEW s \in Sockets,
         socketState'[s] = "open"
  PROVE  told'[s].registered = told[s].registered
BY DEF Publish, TypeInv, TypeOK

LEMMA ConnectListed ==
  ASSUME TypeInv, ListedInv, NEW s \in Sockets, Connect(s) PROVE ListedInv'
<1>1. \E e \in clients' : e.socket = s
  <2> DEFINE new == [socket |-> s, clientId |-> None, experienceId |-> None,
                     status |-> "unregistered", age |-> 0, held |-> TRUE]
  <2>1. new \in clients' /\ new.socket = s
    BY DEF Connect
  <2> QED BY <2>1
<1>2. clients \subseteq clients'
  BY DEF Connect
<1>3. told'[s].registered = None /\ \A t \in Sockets \ {s} : told'[t] = told[t]
  BY DEF Connect, TypeInv, TypeOK
<1>4. \A t \in Sockets \ {s} : socketState'[t] = socketState[t]
  BY DEF Connect, TypeInv, TypeOK
<1> QED
  BY <1>1, <1>2, <1>3, <1>4 DEF ListedInv, OpenSocketIsListed, RegisteredSocketIsListed

\* An object that registerHello takes out of the registry belongs to the
\* connection itself or to one that is being closed.
LEMMA HelloListed ==
  ASSUME TypeInv, IdentityInv, ListedInv, NEW s \in Sockets, NEW c \in Clients,
         NEW x \in Experiences, Hello(s, c, x)
  PROVE  ListedInv'
<1>1. PICK new \in clients' : new.socket = s /\ new.clientId = c
  BY HelloClients
<1>2. ASSUME NEW t \in Sockets, t # s, socketState'[t] = "open",
             NEW e \in clients, e.socket = t
      PROVE  e \in clients'
  <2>1. e \notin Duplicates(s, c)
    BY <1>2 DEF Hello, Closing, TypeInv, TypeOK
  <2>2. e \notin HeldBy(clients, s)
    BY <1>2 DEF HeldBy
  <2> QED BY <2>1, <2>2 DEF Hello
<1>3. \A t \in Sockets : socketState'[t] = "open" => socketState[t] = "open"
  BY DEF Hello, Closing
<1>4. OpenSocketIsListed'
  BY <1>1, <1>2, <1>3 DEF ListedInv, OpenSocketIsListed
<1>5. RegisteredSocketIsListed'
  <2> SUFFICES ASSUME NEW t \in Sockets, socketState'[t] = "open", told'[t].registered # None
               PROVE  \E e \in clients' : e.clientId = told'[t].registered /\ e.socket = t
    BY DEF RegisteredSocketIsListed
  <2>1. CASE t = s
    <3>1. told'[s].registered = c
      BY <1>1, <2>1 DEF Hello, Reached
    <3> QED BY <1>1, <2>1, <3>1
  <2>2. CASE t # s
    <3>1. told'[t].registered = told[t].registered
      BY <2>2 DEF Hello
    <3>2. PICK e \in clients : e.clientId = told[t].registered /\ e.socket = t
      BY <1>3, <3>1 DEF ListedInv, RegisteredSocketIsListed
    <3> QED BY <1>2, <2>2, <3>1, <3>2
  <2> QED BY <2>1, <2>2
<1> QED BY <1>4, <1>5 DEF ListedInv

LEMMA HeartbeatListed ==
  ASSUME TypeInv, ListedInv, NEW s \in Sockets, NEW c \in Clients, Heartbeat(s, c)
  PROVE  ListedInv'
<1>1. PICK e \in FindByClientId(clients, c) :
        clients' = (clients \ {e}) \cup {Replacement(e, "online", 0)}
  BY DEF Heartbeat
<1>2. \A f \in clients : \E g \in clients' : g.socket = f.socket /\ g.clientId = f.clientId
  <2> SUFFICES ASSUME NEW f \in clients
               PROVE  \E g \in clients' : g.socket = f.socket /\ g.clientId = f.clientId
    OBVIOUS
  <2>1. CASE f = e
    <3>1. Replacement(e, "online", 0) \in clients'
      BY <1>1
    <3> QED BY <2>1, <3>1 DEF Replacement
  <2>2. CASE f # e
    BY <1>1, <2>2
  <2> QED BY <2>1, <2>2
<1>3. UNCHANGED socketState /\ (UNCHANGED told \/ Publish(TRUE))
  BY DEF Heartbeat
<1>4. \A t \in Sockets : socketState'[t] = "open" => told'[t].registered = told[t].registered
  BY <1>3, PublishRegistered
<1> QED BY <1>2, <1>3, <1>4, KeepsListed

LEMMA SocketClosedListed ==
  ASSUME TypeInv, ListedInv, NEW s \in Sockets, SocketClosed(s) PROVE ListedInv'
<1>1. \A t \in Sockets : socketState'[t] = "open" => t # s /\ socketState[t] = "open"
  BY DEF SocketClosed, TypeInv, TypeOK
<1>2. \A e \in clients : e.socket # s => e \in clients'
  BY DEF SocketClosed, HeldBy
<1>3. \A t \in Sockets : socketState'[t] = "open" => told'[t].registered = told[t].registered
  BY PublishRegistered DEF SocketClosed
<1> QED BY <1>1, <1>2, <1>3, KeepsListed

LEMMA MarkStaleListed ==
  ASSUME TypeInv, ListedInv, MarkStaleRuntimeClients PROVE ListedInv'
<1>1. \A e \in clients : MarkedStale(e) \in clients'
  BY DEF MarkStaleRuntimeClients
<1>2. UNCHANGED socketState
  BY DEF MarkStaleRuntimeClients
<1>3. \A t \in Sockets : socketState'[t] = "open" => told'[t].registered = told[t].registered
  BY PublishRegistered DEF MarkStaleRuntimeClients
<1> QED BY <1>1, <1>2, <1>3, MarkedStaleFacts, KeepsListed

LEMMA TickListed == ASSUME TypeInv, ListedInv, Tick PROVE ListedInv'
<1>1. \A e \in clients : Older(e) \in clients'
  BY DEF Tick
<1> QED BY <1>1, OlderFacts, KeepsListed DEF Tick

LEMMA OperatorListed == ASSUME TypeInv, ListedInv, Operator PROVE ListedInv'
<1>1. UNCHANGED <<clients, socketState>> /\ Publish(FALSE)
  BY DEF Operator, SelectLaunchClient, ClearLaunchClient
<1>2. \A t \in Sockets : socketState'[t] = "open" => told'[t].registered = told[t].registered
  BY <1>1, PublishRegistered
<1> QED BY <1>1, <1>2, KeepsListed

LEMMA RejectHelloListed ==
  ASSUME TypeInv, ListedInv, NEW s \in Sockets, RejectHello(s) PROVE ListedInv'
<1>1. \A t \in Sockets : socketState'[t] = "open" =>
        socketState[t] = "open" /\ told'[t].registered = told[t].registered
  BY DEF RejectHello, TypeInv, TypeOK
<1> QED BY <1>1, KeepsListed DEF RejectHello

LEMMA ListedStep == TypeInv /\ IdentityInv /\ ListedInv /\ [Next]_vars => ListedInv'
<1> SUFFICES ASSUME TypeInv, IdentityInv, ListedInv, [Next]_vars PROVE ListedInv'
  OBVIOUS
<1>1. CASE UNCHANGED vars
  BY <1>1 DEF vars, ListedInv, OpenSocketIsListed, RegisteredSocketIsListed
<1>2. CASE Next
  BY <1>2, ConnectListed, HelloListed, HeartbeatListed, SocketClosedListed, MarkStaleListed,
     TickListed, OperatorListed, RejectHelloListed DEF Next
<1> QED BY <1>1, <1>2

\* An open connection that the Host told it is registered is the connection
\* the registry lists for that client: of two tabs with one client id, the
\* displaced one is never left open (runtime-clients.ts: #closeDuplicateClient).
THEOREM DisplacedTabsAreClosed == Spec => []RegisteredSocketIsListed
<1>1. TypeInv /\ [Next]_vars => TypeInv'
  BY TypeStep
<1>2. TypeInv /\ IdentityInv /\ [Next]_vars => IdentityInv'
  BY IdentityStep
<1>3. TypeInv /\ IdentityInv /\ ListedInv /\ [Next]_vars => ListedInv'
  BY ListedStep
<1>4. Init => ListedInv
  BY DEF Init, ListedInv, OpenSocketIsListed, RegisteredSocketIsListed
<1>5. ListedInv => RegisteredSocketIsListed
  BY DEF ListedInv
<1> QED BY InitType, InitIdentity, <1>1, <1>2, <1>3, <1>4, <1>5, PTL DEF Spec

-----------------------------------------------------------------------------
(* Broadcasts.                                                             *)

\* A broadcast that sends the client list whenever it changed brings every
\* open connection of the registry up to date.
LEMMA PublishUpToDate ==
  ASSUME TypeInv, OpenSocketsUpToDate, ListedInv',
         NEW listToo \in BOOLEAN, Publish(listToo),
         \A s \in Sockets : socketState'[s] = "open" => socketState[s] = "open",
         listToo \/ ListRuntimeClients(clients') = ListRuntimeClients(clients)
  PROVE  OpenSocketsUpToDate'
<1> SUFFICES ASSUME NEW s \in Sockets, socketState'[s] = "open"
             PROVE  told'[s].station = station' /\ told'[s].list = ListRuntimeClients(clients')
  BY DEF OpenSocketsUpToDate, ListRuntimeClients
<1>1. Reached(s)
  BY DEF Reached, ListedInv, OpenSocketIsListed
<1>2. told'[s] = [told[s] EXCEPT
         !.station = IF station' # station THEN station' ELSE @,
         !.list = IF listToo \/ station' # station THEN ListRuntimeClients(clients') ELSE @]
  BY <1>1 DEF Publish
<1>3. told[s].station = station /\ told[s].list = ListRuntimeClients(clients)
  BY DEF OpenSocketsUpToDate
<1>4. told[s] \in Told
  BY DEF TypeInv, TypeOK, Told
<1>5. told'[s].station = IF station' # station THEN station' ELSE told[s].station
  BY <1>2, <1>4 DEF Told
<1>6. told'[s].list = IF listToo \/ station' # station
                      THEN ListRuntimeClients(clients') ELSE told[s].list
  BY <1>2, <1>4 DEF Told
<1> QED BY <1>3, <1>5, <1>6

\* Objects replaced by objects with the same id, experience and status leave
\* the client list as it was.
LEMMA SameList ==
  ASSUME NEW S, NEW T,
         \A e \in S : \E g \in T : /\ g.clientId = e.clientId
                                   /\ g.experienceId = e.experienceId
                                   /\ g.status = e.status,
         \A g \in T : \E e \in S : /\ g.clientId = e.clientId
                                   /\ g.experienceId = e.experienceId
                                   /\ g.status = e.status
  PROVE  ListRuntimeClients(T) = ListRuntimeClients(S)
BY DEF ListRuntimeClients

LEMMA ConnectUpToDate ==
  ASSUME TypeInv, OpenSocketsUpToDate, NEW s \in Sockets, Connect(s)
  PROVE  OpenSocketsUpToDate'
<1> DEFINE new == [socket |-> s, clientId |-> None, experienceId |-> None,
                   status |-> "unregistered", age |-> 0, held |-> TRUE]
<1>1. clients' = clients \cup {new} /\ new.clientId = None
  BY DEF Connect
<1> HIDE DEF new
<1>2. ListRuntimeClients(clients') = ListRuntimeClients(clients)
  BY <1>1 DEF ListRuntimeClients
<1>3. told'[s] = [registered |-> None, station |-> station, list |-> ListRuntimeClients(clients)]
  BY DEF Connect, TypeInv, TypeOK
<1>4. \A t \in Sockets \ {s} : told'[t] = told[t] /\ socketState'[t] = socketState[t]
  BY DEF Connect, TypeInv, TypeOK
<1>5. UNCHANGED station
  BY DEF Connect
<1> SUFFICES ASSUME NEW t \in Sockets, socketState'[t] = "open"
             PROVE  told'[t].station = station' /\ told'[t].list = ListRuntimeClients(clients')
  BY DEF OpenSocketsUpToDate, ListRuntimeClients
<1>6. CASE t = s
  BY <1>2, <1>3, <1>5, <1>6
<1>7. CASE t # s
  BY <1>2, <1>4, <1>5, <1>7 DEF OpenSocketsUpToDate
<1> QED BY <1>6, <1>7

LEMMA HelloUpToDate ==
  ASSUME TypeInv, OpenSocketsUpToDate, ListedInv', NEW s \in Sockets, NEW c \in Clients,
         NEW x \in Experiences, Hello(s, c, x)
  PROVE  OpenSocketsUpToDate'
<1> SUFFICES ASSUME NEW t \in Sockets, socketState'[t] = "open"
             PROVE  told'[t].station = station' /\ told'[t].list = ListRuntimeClients(clients')
  BY DEF OpenSocketsUpToDate, ListRuntimeClients
<1>1. Reached(t)
  BY DEF Reached, ListedInv, OpenSocketIsListed
<1>2. told'[t] = [registered |-> IF t = s THEN c ELSE told[t].registered,
                  station |-> IF station' # station THEN station' ELSE told[t].station,
                  list |-> ListRuntimeClients(clients')]
  BY <1>1 DEF Hello
<1>3. socketState[t] = "open"
  BY DEF Hello, Closing
<1> QED BY <1>2, <1>3 DEF OpenSocketsUpToDate

LEMMA HeartbeatUpToDate ==
  ASSUME TypeInv, OpenSocketsUpToDate, ListedInv', NEW s \in Sockets, NEW c \in Clients,
         Heartbeat(s, c)
  PROVE  OpenSocketsUpToDate'
<1>1. UNCHANGED socketState
  BY DEF Heartbeat
<1>2. PICK e \in FindByClientId(clients, c) :
        /\ clients' = (clients \ {e}) \cup {Replacement(e, "online", 0)}
        /\ IF e.status # "online"
           THEN station' \in SelectDefaultIfClear(clients', station) /\ Publish(TRUE)
           ELSE UNCHANGED <<station, told>>
  BY DEF Heartbeat
<1>3. CASE Publish(TRUE)
  BY <1>1, <1>3, PublishUpToDate
<1>4. CASE e.status = "online"
  <2>1. e \in clients
    BY FindByClientIdSound
  <2> DEFINE new == Replacement(e, "online", 0)
  <2>2. /\ new.clientId = e.clientId /\ new.experienceId = e.experienceId
        /\ new.status = e.status
    BY <1>4 DEF Replacement
  <2>3. clients' = (clients \ {e}) \cup {new}
    BY <1>2
  <2> HIDE DEF new
  <2>4. ListRuntimeClients(clients') = ListRuntimeClients(clients)
    <3>1. \A f \in clients : \E g \in clients' :
            g.clientId = f.clientId /\ g.experienceId = f.experienceId /\ g.status = f.status
      BY <2>1, <2>2, <2>3
    <3>2. \A g \in clients' : \E f \in clients :
            g.clientId = f.clientId /\ g.experienceId = f.experienceId /\ g.status = f.status
      BY <2>1, <2>2, <2>3
    <3> QED BY <3>1, <3>2, SameList
  <2>5. UNCHANGED <<station, told>>
    BY <1>2, <1>4
  <2> SUFFICES ASSUME NEW t \in Sockets, socketState'[t] = "open"
               PROVE  told'[t].station = station' /\ told'[t].list = ListRuntimeClients(clients')
    BY DEF OpenSocketsUpToDate, ListRuntimeClients
  <2> QED BY <1>1, <2>4, <2>5 DEF OpenSocketsUpToDate
<1> QED BY <1>2, <1>3, <1>4

LEMMA UpToDateStep ==
  TypeInv /\ IdentityInv /\ ListedInv /\ OpenSocketsUpToDate /\ [Next]_vars
    => OpenSocketsUpToDate'
<1> SUFFICES ASSUME TypeInv, IdentityInv, ListedInv, OpenSocketsUpToDate, [Next]_vars
             PROVE  OpenSocketsUpToDate'
  OBVIOUS
<1>1. ListedInv'
  BY ListedStep
<1>2. CASE UNCHANGED vars
  BY <1>2 DEF vars, OpenSocketsUpToDate, ListRuntimeClients
<1>3. ASSUME NEW s \in Sockets, RejectHello(s) PROVE OpenSocketsUpToDate'
  <2>1. \A t \in Sockets : socketState'[t] = "open" =>
          socketState[t] = "open" /\ told'[t] = told[t]
    BY <1>3 DEF RejectHello, TypeInv, TypeOK
  <2> QED BY <1>3, <2>1 DEF RejectHello, OpenSocketsUpToDate, ListRuntimeClients
<1>4. ASSUME NEW s \in Sockets, SocketClosed(s) PROVE OpenSocketsUpToDate'
  <2>1. \A t \in Sockets : socketState'[t] = "open" => socketState[t] = "open"
    BY <1>4 DEF SocketClosed, TypeInv, TypeOK
  <2> QED BY <1>1, <1>4, <2>1, PublishUpToDate DEF SocketClosed
<1>5. CASE MarkStaleRuntimeClients
  <2>1. UNCHANGED socketState /\ Publish(clients' # clients)
    BY <1>5 DEF MarkStaleRuntimeClients
  <2>2. clients' = clients => ListRuntimeClients(clients') = ListRuntimeClients(clients)
    BY DEF ListRuntimeClients
  <2> QED BY <1>1, <2>1, <2>2, PublishUpToDate
<1>6. CASE Operator
  <2>1. UNCHANGED <<clients, socketState>> /\ Publish(FALSE)
    BY <1>6 DEF Operator, SelectLaunchClient, ClearLaunchClient
  <2>2. ListRuntimeClients(clients') = ListRuntimeClients(clients)
    BY <2>1 DEF ListRuntimeClients
  <2> QED BY <1>1, <2>1, <2>2, PublishUpToDate
<1>7. CASE Tick
  <2>1. clients' = {Older(e) : e \in clients} /\ UNCHANGED <<station, socketState, told>>
    BY <1>7 DEF Tick
  <2>2. ListRuntimeClients(clients') = ListRuntimeClients(clients)
    BY <2>1, OlderFacts, SameList
  <2> SUFFICES ASSUME NEW t \in Sockets, socketState'[t] = "open"
               PROVE  told'[t].station = station' /\ told'[t].list = ListRuntimeClients(clients')
    BY DEF OpenSocketsUpToDate, ListRuntimeClients
  <2> QED BY <2>1, <2>2 DEF OpenSocketsUpToDate
<1>8. CASE Next
  BY <1>1, <1>3, <1>4, <1>5, <1>6, <1>7, <1>8, ConnectUpToDate, HelloUpToDate,
     HeartbeatUpToDate DEF Next
<1> QED BY <1>2, <1>8

\* Every open connection was last sent the station state and the client list
\* as they are: gateway.ts broadcasts after each change, and its stale
\* references never cut an open connection off from the registry's Set.
THEOREM BroadcastsComplete == Spec => []OpenSocketsUpToDate
<1>1. TypeInv /\ [Next]_vars => TypeInv'
  BY TypeStep
<1>2. TypeInv /\ IdentityInv /\ [Next]_vars => IdentityInv'
  BY IdentityStep
<1>3. TypeInv /\ IdentityInv /\ ListedInv /\ [Next]_vars => ListedInv'
  BY ListedStep
<1>4. TypeInv /\ IdentityInv /\ ListedInv /\ OpenSocketsUpToDate /\ [Next]_vars
        => OpenSocketsUpToDate'
  BY UpToDateStep
<1>5. Init => ListedInv /\ OpenSocketsUpToDate
  BY DEF Init, ListedInv, OpenSocketIsListed, RegisteredSocketIsListed, OpenSocketsUpToDate
<1> QED BY InitType, InitIdentity, <1>1, <1>2, <1>3, <1>4, <1>5, PTL DEF Spec

-----------------------------------------------------------------------------
(* Time.  The age of an online object is bounded by the threshold plus the *)
(* time since the timer fired, which the timer keeps below its period.     *)

RecentInv ==
  \A e \in clients : e.status = "online" => e.age =< StaleAfter + sinceCheck

LEMMA RecentStep == TypeInv /\ RecentInv /\ [Next]_vars => RecentInv'
<1> SUFFICES ASSUME TypeInv, RecentInv, [Next]_vars PROVE RecentInv'
  OBVIOUS
<1>1. sinceCheck \in Nat /\ StaleAfter \in Nat /\ CheckEvery \in Nat
      /\ \A e \in clients : e.age \in Nat
  BY TimeAssumption DEF TypeInv, TypeOK, RuntimeClient, AgeCap
<1>2. ASSUME sinceCheck' = sinceCheck,
             \A f \in clients' : f \in clients \/ f.age = 0 \/ f.status # "online"
      PROVE  RecentInv'
  BY <1>1, <1>2 DEF RecentInv
<1>3. ASSUME UNCHANGED <<clients, sinceCheck>> PROVE RecentInv'
  BY <1>2, <1>3
<1>4. CASE UNCHANGED vars
  BY <1>3, <1>4 DEF vars
<1>5. ASSUME NEW s \in Sockets, Connect(s) PROVE RecentInv'
  BY <1>2, <1>5 DEF Connect
<1>6. ASSUME NEW s \in Sockets, RejectHello(s) PROVE RecentInv'
  BY <1>3, <1>6 DEF RejectHello
<1>7. ASSUME NEW s \in Sockets, SocketClosed(s) PROVE RecentInv'
  BY <1>2, <1>7 DEF SocketClosed
<1>8. ASSUME NEW s \in Sockets, NEW c \in Clients, NEW x \in Experiences, Hello(s, c, x)
      PROVE  RecentInv'
  BY <1>2, <1>8 DEF Hello
<1>9. ASSUME NEW s \in Sockets, NEW c \in Clients, Heartbeat(s, c) PROVE RecentInv'
  BY <1>2, <1>9 DEF Heartbeat, Replacement
<1>10. CASE MarkStaleRuntimeClients
  BY <1>1, <1>10, MarkedStaleFacts DEF MarkStaleRuntimeClients, RecentInv
<1>11. CASE Operator
  BY <1>3, <1>11 DEF Operator, SelectLaunchClient, ClearLaunchClient
<1>12. CASE Tick
  <2> SUFFICES ASSUME NEW e \in clients, Older(e).status = "online"
               PROVE  Older(e).age =< StaleAfter + sinceCheck'
    BY <1>12 DEF Tick, RecentInv
  <2>1. sinceCheck' = sinceCheck + 1 /\ Older(e).age =< e.age + 1
    BY <1>12, OlderFacts DEF Tick
  <2>2. e.status = "online" /\ Older(e).age \in Nat
    BY OlderFacts, TimeAssumption DEF RuntimeClient, AgeCap
  <2> QED BY <1>1, <2>1, <2>2 DEF RecentInv
<1>13. CASE Next
  BY <1>5, <1>6, <1>7, <1>8, <1>9, <1>10, <1>11, <1>12, <1>13 DEF Next
<1> QED BY <1>4, <1>13

\* A client that the console offers was heard of within the stale threshold
\* plus one period of the presence timer, whatever the two constants are
\* (gateway.ts: RUNTIME_CLIENT_STALE_AFTER_MS, #markStaleRuntimeClients).
THEOREM OnlineClientsAreRecent == Spec => []OnlineIsRecent
<1>1. TypeInv /\ [Next]_vars => TypeInv'
  BY TypeStep
<1>2. TypeInv /\ RecentInv /\ [Next]_vars => RecentInv'
  BY RecentStep
<1>3. Init => RecentInv
  BY DEF Init, RecentInv
<1>4. TypeInv /\ RecentInv => OnlineIsRecent
  BY TimeAssumption DEF TypeInv, TypeOK, RuntimeClient, AgeCap, RecentInv, OnlineIsRecent
<1> QED BY InitType, <1>1, <1>2, <1>3, <1>4, PTL DEF Spec

-----------------------------------------------------------------------------
(* Who changes the selection.                                              *)

Deselected(c) ==
  station.selectedLaunchClientId = c /\ station'.selectedLaunchClientId # c

\* A default selection does not replace a selection that is there.
LEMMA DefaultKeeps ==
  ASSUME NEW c \in Clients, station.selectedLaunchClientId = c,
         NEW S, NEW st \in SelectDefaultIfClear(S, station)
  PROVE  st = station
BY NoneAssumption DEF SelectDefaultIfClear

LEMMA DeselectStep ==
  ASSUME TypeInv, IdentityInv, [Next]_vars, NEW c \in Clients, Deselected(c)
  PROVE  Operator \/ ~IsSelectable(clients', c)
<1> USE DEF Deselected
<1>1. CASE UNCHANGED station
  BY <1>1
<1>2. ASSUME NEW s \in Sockets, NEW d \in Clients, NEW x \in Experiences, Hello(s, d, x)
      PROVE  FALSE
  <2>1. PICK st \in SelectDefaultIfClear(clients', station) :
          \/ st.selectedLaunchClientId # d /\ station' = st
          \/ st.selectedLaunchClientId = d /\ station'.selectedLaunchClientId = d
    BY <1>2 DEF Hello, FollowClient, Selection
  <2> QED BY <2>1, DefaultKeeps
<1>3. ASSUME NEW s \in Sockets, NEW d \in Clients, Heartbeat(s, d) PROVE FALSE
  BY <1>3, DefaultKeeps DEF Heartbeat
<1>4. ASSUME NEW s \in Sockets, SocketClosed(s) PROVE ~IsSelectable(clients', c)
  <2>1. PICK e \in HeldBy(clients, s) : e.clientId # None /\ e.clientId = c
    BY <1>4 DEF SocketClosed
  <2>2. \A f \in clients' : f.clientId # c
    BY <1>4, <2>1 DEF SocketClosed, HeldBy, IdentityInv, OneEntryPerClient
  <2> QED BY <2>2, FindByClientIdSound DEF IsSelectable
<1>5. CASE MarkStaleRuntimeClients
  BY <1>5, DefaultKeeps DEF MarkStaleRuntimeClients
<1>6. CASE Next
  <2>1. ASSUME NEW s \in Sockets, Connect(s) \/ RejectHello(s) PROVE FALSE
    BY <2>1, <1>1 DEF Connect, RejectHello
  <2>2. CASE Tick
    BY <2>2, <1>1 DEF Tick
  <2> QED BY <1>2, <1>3, <1>4, <1>5, <1>6, <2>1, <2>2 DEF Next
<1> QED BY <1>1, <1>6 DEF vars

\* Nobody but the operator takes the selection from a client that may be
\* selected: no registration, default selection, heartbeat, disconnect or
\* timer (gateway.ts: setLaunchSelection and its callers).
THEOREM SelectionIsNotStolen == Spec => OnlyOperatorDeselects
<1> DEFINE Kept ==
      \A c \in Clients :
        /\ station.selectedLaunchClientId = c
        /\ station'.selectedLaunchClientId # c
        => Operator \/ ~IsSelectable(clients', c)
<1>1. TypeInv /\ [Next]_vars => TypeInv'
  BY TypeStep
<1>2. TypeInv /\ IdentityInv /\ [Next]_vars => IdentityInv'
  BY IdentityStep
<1>3. TypeInv /\ IdentityInv /\ [Next]_vars => [Kept]_vars
  BY DeselectStep DEF Deselected
<1>4. Spec => [][Kept]_vars
  <2> HIDE DEF Kept
  <2> QED BY InitType, InitIdentity, <1>1, <1>2, <1>3, PTL DEF Spec
<1> QED BY <1>4 DEF OnlyOperatorDeselects

-----------------------------------------------------------------------------
(* Registry and station implement LaunchSelection: the safety part of      *)
(* ImplementsLaunchSelection.  A handler maps to one step of the operator, *)
(* to a change of the clients, or to none.                                 *)

ExperienceIn(S, c) ==
  IF IsSelectable(S, c) THEN (CHOOSE e \in S : e.clientId = c).experienceId ELSE None

\* Where ids are unique a client is selectable exactly if the registry holds
\* an online object of it, and the experience is that object's.
LEMMA ExperienceInFacts ==
  ASSUME NEW S, Unique(S), NEW c, c # None
  PROVE  /\ \A e \in S : e.clientId = c /\ e.status = "online"
              => IsSelectable(S, c) /\ ExperienceIn(S, c) = e.experienceId
         /\ IsSelectable(S, c) => \E e \in S : e.clientId = c /\ e.status = "online"
         /\ ~IsSelectable(S, c) => ExperienceIn(S, c) = None
<1>1. ASSUME NEW e \in S, e.clientId = c, e.status = "online"
      PROVE  IsSelectable(S, c) /\ ExperienceIn(S, c) = e.experienceId
  <2>1. IsSelectable(S, c)
    <3>1. PICK f \in FindByClientId(S, c) : TRUE
      BY <1>1, FindByClientIdSound
    <3>2. f = e
      BY <1>1, FindByClientIdSound DEF Unique
    <3> QED BY <1>1, <3>1, <3>2 DEF IsSelectable
  <2>2. (CHOOSE f \in S : f.clientId = c) = e
    BY <1>1 DEF Unique
  <2> QED BY <2>1, <2>2 DEF ExperienceIn
<1>2. IsSelectable(S, c) => \E e \in S : e.clientId = c /\ e.status = "online"
  BY FindByClientIdSound DEF IsSelectable
<1> QED BY <1>1, <1>2 DEF ExperienceIn

Shaped(S) ==
  \A e \in S : /\ e.clientId \in Clients \cup {None}
               /\ e.experienceId \in Experiences \cup {None}
               /\ e.clientId = None <=> e.status = "unregistered"
               /\ e.clientId = None <=> e.experienceId = None

\* The mapped variable: an experience for the clients that may be selected,
\* None for the others.
LEMMA ExperienceInType ==
  ASSUME NEW S, Unique(S), Shaped(S), NEW c \in Clients
  PROVE  /\ ExperienceIn(S, c) \in Experiences \cup {None}
         /\ ExperienceIn(S, c) = None <=> ~IsSelectable(S, c)
<1>1. c # None
  BY NoneAssumption
<1>2. CASE IsSelectable(S, c)
  <2>1. PICK e \in S : e.clientId = c /\ e.status = "online"
    BY <1>1, <1>2, ExperienceInFacts
  <2>2. ExperienceIn(S, c) = e.experienceId
    BY <1>1, <2>1, ExperienceInFacts
  <2> QED BY <1>1, <1>2, <2>1, <2>2 DEF Shaped
<1>3. CASE ~IsSelectable(S, c)
  BY <1>1, <1>3, ExperienceInFacts
<1> QED BY <1>2, <1>3

\* The client that #selectDefaultLaunchClientIfClear selects is the only one
\* of the default experience that is online.
LEMMA DefaultIsOnlyOne ==
  ASSUME NEW S, Unique(S), Shaped(S), NEW st, NEW st2 \in SelectDefaultIfClear(S, st),
         st2 # st
  PROVE  /\ st.selectedLaunchClientId = None
         /\ \E c \in Clients :
              /\ \A d \in Clients : ExperienceIn(S, d) = DefaultExperience <=> d = c
              /\ st2.selectedLaunchClientId = c
              /\ st2.selectedExperienceId = DefaultExperience
<1>1. /\ st.selectedLaunchClientId = None
      /\ \E e \in S : OnlineDefaults(S) = {e}
      /\ st2 \in {Selection(e) : e \in OnlineDefaults(S)}
  BY DEF SelectDefaultIfClear
<1>2. PICK e \in S : OnlineDefaults(S) = {e} /\ st2 = Selection(e)
  BY <1>1
<1>3. e.status = "online" /\ e.experienceId = DefaultExperience
  BY <1>2 DEF OnlineDefaults
<1>4. e.clientId \in Clients
  BY <1>3 DEF Shaped
<1>5. ASSUME NEW d \in Clients, ExperienceIn(S, d) = DefaultExperience PROVE d = e.clientId
  <2>1. d # None /\ DefaultExperience # None
    BY NoneAssumption, ExperienceAssumption
  <2>2. IsSelectable(S, d)
    BY <1>5, <2>1, ExperienceInFacts
  <2>3. PICK f \in S : f.clientId = d /\ f.status = "online"
    BY <2>1, <2>2, ExperienceInFacts
  <2>4. f.experienceId = DefaultExperience
    BY <1>5, <2>1, <2>3, ExperienceInFacts
  <2> QED BY <1>2, <2>3, <2>4 DEF OnlineDefaults
<1>6. ExperienceIn(S, e.clientId) = DefaultExperience
  BY <1>3, <1>4, NoneAssumption, ExperienceInFacts
<1> QED BY <1>1, <1>2, <1>3, <1>4, <1>5, <1>6 DEF Selection

PromiseInv == TypeInv /\ IdentityInv /\ SelectionMatchesRegistry

LEMMA OnlineExperienceIs ==
  ASSUME NEW c
  PROVE  /\ OnlineExperience(c) = ExperienceIn(clients, c)
         /\ OnlineExperience(c)' = ExperienceIn(clients', c)
BY DEF OnlineExperience, ExperienceIn, IsSelectable, FindByClientId

LEMMA PromiseFacts ==
  ASSUME PromiseInv PROVE Unique(clients) /\ Shaped(clients) /\ Matches(clients, station)
BY DEF PromiseInv, TypeInv, TypeOK, PresenceShape, RuntimeClient, IdentityInv,
       OneEntryPerClient, SelectionMatchesRegistry, Unique, Shaped, Matches

LEMMA PromiseFactsPrime ==
  ASSUME PromiseInv' PROVE Unique(clients') /\ Shaped(clients') /\ Matches(clients', station')
BY DEF PromiseInv, TypeInv, TypeOK, PresenceShape, RuntimeClient, IdentityInv,
       OneEntryPerClient, SelectionMatchesRegistry, Unique, Shaped, Matches

StationFields == <<station.selectedLaunchClientId, station.selectedExperienceId>>

\* A handler that changes registry and station is ClientsChange if a selected
\* client keeps the selection, or is not selectable any more.
LEMMA ChangeRefines ==
  ASSUME PromiseInv, PromiseInv', NEW st,
         \/ st = station
         \/ /\ st = NoSelection
            /\ station.selectedLaunchClientId # None
            /\ ~IsSelectable(clients', station.selectedLaunchClientId),
         \/ station' = st
         \/ station' \in SelectDefaultIfClear(clients', st)
         \/ /\ station.selectedLaunchClientId # None
            /\ station'.selectedLaunchClientId = station.selectedLaunchClientId
            /\ IsSelectable(clients', station.selectedLaunchClientId)
  PROVE  Promise!ClientsChange
<1> DEFINE on == [c \in Clients |-> OnlineExperience(c)]
           sel == station.selectedLaunchClientId
           exp == station.selectedExperienceId
<1>1. Unique(clients') /\ Shaped(clients') /\ Matches(clients', station')
  BY PromiseFactsPrime
<1>2. on' = [c \in Clients |-> ExperienceIn(clients', c)]
  BY OnlineExperienceIs
<1>3. on' \in [Clients -> Experiences \cup {None}]
  BY <1>1, <1>2, ExperienceInType
<1>4. sel \in Clients \cup {None}
  BY DEF PromiseInv, TypeInv, TypeOK, StationState
<1> DEFINE Chosen == \E c \in Clients :
             /\ \A d \in Clients : on'[d] = DefaultExperience <=> d = c
             /\ sel' = c /\ exp' = DefaultExperience
<1>5. ASSUME station' \in SelectDefaultIfClear(clients', st), station' # st
      PROVE  st.selectedLaunchClientId = None /\ Chosen
  <2>1. st.selectedLaunchClientId = None
    BY <1>1, <1>5, DefaultIsOnlyOne
  <2>2. PICK c \in Clients :
          /\ \A d \in Clients : ExperienceIn(clients', d) = DefaultExperience <=> d = c
          /\ station'.selectedLaunchClientId = c
          /\ station'.selectedExperienceId = DefaultExperience
    BY <1>1, <1>5, DefaultIsOnlyOne
  <2>3. \A d \in Clients : on'[d] = ExperienceIn(clients', d)
    BY <1>2
  <2> HIDE DEF on
  <2> QED BY <2>1, <2>2, <2>3
<1>6. ASSUME sel # None, sel' = sel, IsSelectable(clients', sel)
      PROVE  on'[sel] # None /\ exp' = on'[sel]
  <2>1. sel \in Clients
    BY <1>4, <1>6
  <2>2. on'[sel] = ExperienceIn(clients', sel)
    BY <1>2, <2>1
  <2>3. PICK e \in clients' : e.clientId = sel /\ e.status = "online"
    BY <1>1, <1>6, ExperienceInFacts
  <2>4. on'[sel] = e.experienceId
    BY <1>1, <1>6, <2>2, <2>3, ExperienceInFacts
  <2>5. e.experienceId = exp'
    BY <1>1, <1>6, <2>3 DEF Matches
  <2>6. e.experienceId # None
    BY <1>1, <1>6, <2>3 DEF Shaped
  <2> HIDE DEF on
  <2> QED BY <2>4, <2>5, <2>6
<1>7. ASSUME sel # None, ~IsSelectable(clients', sel) PROVE on'[sel] = None
  BY <1>1, <1>2, <1>4, <1>7, ExperienceInType
<1> DEFINE Clear == sel' = None /\ exp' = None
           Same == sel' = sel /\ exp' = exp
<1>8. CASE sel = None
  <2>1. st = station /\ (station' = st \/ station' \in SelectDefaultIfClear(clients', st))
    BY <1>8
  <2>2. Same \/ Chosen
    BY <1>5, <2>1
  <2> HIDE DEF on
  <2> QED BY <1>3, <1>8, <2>2 DEF Promise!ClientsChange, Promise!DefaultSelected, Promise!Select, on
<1>9. CASE sel # None
  <2>1. CASE IsSelectable(clients', sel)
    <3>1. sel' = sel
      BY <1>5, <1>9, <2>1
    <3>2. on'[sel] # None /\ exp' = on'[sel]
      BY <1>6, <1>9, <2>1, <3>1
    <3> QED BY <1>3, <1>9, <3>1, <3>2 DEF Promise!ClientsChange, Promise!Select
  <2>2. CASE ~IsSelectable(clients', sel)
    <3>1. on'[sel] = None
      BY <1>7, <1>9, <2>2
    <3>2. Same \/ Clear \/ Chosen
      BY <1>5, <2>2 DEF NoSelection
    <3> QED BY <1>3, <1>9, <3>1, <3>2
            DEF Promise!ClientsChange, Promise!DefaultSelected, Promise!Select
  <2> QED BY <2>1, <2>2
<1> QED BY <1>8, <1>9

\* The mapped variables are as they were where station and selectable clients
\* with their experiences are.
LEMMA SameExperiences ==
  ASSUME PromiseInv, PromiseInv', UNCHANGED station,
         \A f \in clients' : f.status = "online" =>
            \E e \in clients : /\ e.status = "online" /\ e.clientId = f.clientId
                               /\ e.experienceId = f.experienceId,
         \A e \in clients : e.status = "online" =>
            \E f \in clients' : /\ f.status = "online" /\ e.clientId = f.clientId
                                /\ e.experienceId = f.experienceId
  PROVE  UNCHANGED Promise!avars
<1>1. Unique(clients) /\ Unique(clients')
  BY PromiseFacts, PromiseFactsPrime
<1>2. ASSUME NEW c \in Clients PROVE ExperienceIn(clients', c) = ExperienceIn(clients, c)
  <2>1. c # None
    BY NoneAssumption
  <2>2. CASE IsSelectable(clients, c)
    <3>1. PICK e \in clients : e.clientId = c /\ e.status = "online"
      BY <1>1, <2>1, <2>2, ExperienceInFacts
    <3>2. PICK f \in clients' : /\ f.status = "online" /\ e.clientId = f.clientId
                                /\ e.experienceId = f.experienceId
      BY <3>1
    <3> QED BY <1>1, <2>1, <3>1, <3>2, ExperienceInFacts
  <2>3. CASE ~IsSelectable(clients, c)
    <3>1. ~IsSelectable(clients', c)
      BY <1>1, <2>1, <2>3, ExperienceInFacts
    <3> QED BY <1>1, <2>1, <2>3, <3>1, ExperienceInFacts
  <2> QED BY <2>2, <2>3
<1>3. UNCHANGED [c \in Clients |-> OnlineExperience(c)]
  BY <1>2, OnlineExperienceIs
<1> QED BY <1>3 DEF Promise!avars

LEMMA HelloRefines ==
  ASSUME PromiseInv, PromiseInv', NEW s \in Sockets, NEW c \in Clients,
         NEW x \in Experiences, Hello(s, c, x)
  PROVE  Promise!ClientsChange
<1>1. PICK new \in clients' :
        /\ new.clientId = c /\ new.status = "online"
        /\ station' \in
             {IF st.selectedLaunchClientId = c THEN Selection(new) ELSE st :
                st \in SelectDefaultIfClear(clients', station)}
  BY HelloClients DEF PromiseInv
<1>2. PICK st \in SelectDefaultIfClear(clients', station) :
        station' = IF st.selectedLaunchClientId = c THEN Selection(new) ELSE st
  BY <1>1
<1>3. Unique(clients') /\ c # None
  BY PromiseFactsPrime, NoneAssumption
<1>4. CASE station.selectedLaunchClientId = c
  <2>1. st = station
    BY <1>3, <1>4 DEF SelectDefaultIfClear
  <2>2. station'.selectedLaunchClientId = c /\ IsSelectable(clients', c)
    BY <1>1, <1>2, <1>3, <1>4, <2>1, ExperienceInFacts DEF Selection
  <2> QED BY <1>3, <1>4, <2>2, ChangeRefines
<1>5. CASE station.selectedLaunchClientId # c
  <2>1. station' = st
    <3>1. CASE st = station
      BY <1>2, <1>5, <3>1
    <3>2. ASSUME NEW e \in clients', st = Selection(e) PROVE station' = st
      BY <1>1, <1>2, <1>3, <3>2 DEF Selection, Unique
    <3> QED BY <3>1, <3>2, SelectDefaultSound
  <2> QED BY <1>2, <2>1, ChangeRefines
<1> QED BY <1>4, <1>5

LEMMA HeartbeatRefines ==
  ASSUME PromiseInv, PromiseInv', NEW s \in Sockets, NEW c \in Clients, Heartbeat(s, c)
  PROVE  [Promise!Next]_(Promise!avars)
<1>1. PICK e \in FindByClientId(clients, c) :
        /\ clients' = (clients \ {e}) \cup {Replacement(e, "online", 0)}
        /\ IF e.status # "online"
           THEN station' \in SelectDefaultIfClear(clients', station)
           ELSE UNCHANGED station
  BY DEF Heartbeat
<1>2. CASE e.status = "online"
  <2> DEFINE new == Replacement(e, "online", 0)
  <2>1. /\ new.status = "online" /\ new.clientId = e.clientId
        /\ new.experienceId = e.experienceId
    BY DEF Replacement
  <2> HIDE DEF new
  <2>2. e \in clients /\ clients' = (clients \ {e}) \cup {new}
    BY <1>1, FindByClientIdSound DEF new
  <2>3. UNCHANGED Promise!avars
    BY <1>1, <1>2, <2>1, <2>2, SameExperiences
  <2> QED BY <2>3
<1>3. CASE e.status # "online"
  BY <1>1, <1>3, ChangeRefines DEF Promise!Next
<1> QED BY <1>2, <1>3

LEMMA SocketClosedRefines ==
  ASSUME PromiseInv, PromiseInv', NEW s \in Sockets, SocketClosed(s)
  PROVE  Promise!ClientsChange
<1>1. CASE \E e \in HeldBy(clients, s) :
             e.clientId # None /\ e.clientId = station.selectedLaunchClientId
  <2>1. PICK e \in HeldBy(clients, s) :
          e.clientId # None /\ e.clientId = station.selectedLaunchClientId
    BY <1>1
  <2>2. \A f \in clients' : f.clientId # station.selectedLaunchClientId
    BY <2>1, PromiseFacts DEF SocketClosed, HeldBy, Unique
  <2>3. ~IsSelectable(clients', station.selectedLaunchClientId)
    BY <2>2, FindByClientIdSound DEF IsSelectable
  <2> QED BY <1>1, <2>1, <2>3, ChangeRefines DEF SocketClosed
<1>2. CASE UNCHANGED station
  BY <1>2, ChangeRefines
<1> QED BY <1>1, <1>2 DEF SocketClosed

LEMMA MarkStaleRefines ==
  ASSUME PromiseInv, PromiseInv', MarkStaleRuntimeClients PROVE Promise!ClientsChange
BY ChangeRefines DEF MarkStaleRuntimeClients

LEMMA OperatorRefines ==
  ASSUME PromiseInv, PromiseInv', Operator PROVE Promise!Next
<1> DEFINE on == [c \in Clients |-> OnlineExperience(c)]
<1>1. UNCHANGED clients
  BY DEF Operator, SelectLaunchClient, ClearLaunchClient
<1>2. on' = on
  BY <1>1, OnlineExperienceIs
<1>3. ASSUME NEW c \in Clients, SelectLaunchClient(c) PROVE Promise!OperatorSelects(c)
  <2>1. PICK e \in FindByClientId(clients, c) : e.status = "online" /\ station' = Selection(e)
    BY <1>3 DEF SelectLaunchClient
  <2>2. e \in clients /\ e.clientId = c /\ c # None
    BY FindByClientIdSound, NoneAssumption
  <2>3. on[c] = e.experienceId
    BY <2>1, <2>2, PromiseFacts, ExperienceInFacts, OnlineExperienceIs
  <2>4. e.experienceId # None
    BY <2>2, PromiseFacts DEF Shaped
  <2>5. station'.selectedLaunchClientId = c /\ station'.selectedExperienceId = on[c]
    BY <2>1, <2>2, <2>3 DEF Selection
  <2> QED BY <1>2, <2>3, <2>4, <2>5 DEF Promise!OperatorSelects, Promise!Select
<1>4. CASE ClearLaunchClient
  <2>1. station'.selectedLaunchClientId = None /\ station'.selectedExperienceId = None
    BY <1>4 DEF ClearLaunchClient, NoSelection
  <2> QED BY <1>2, <2>1 DEF Promise!Next, Promise!OperatorClears, Promise!Select
<1> QED BY <1>3, <1>4 DEF Operator, Promise!Next

LEMMA PromiseStep ==
  ASSUME PromiseInv, PromiseInv', [Next]_vars PROVE [Promise!Next]_(Promise!avars)
<1>1. ASSUME UNCHANGED <<clients, station>> PROVE [Promise!Next]_(Promise!avars)
  BY <1>1, SameExperiences
<1>2. ASSUME NEW s \in Sockets, Connect(s) PROVE [Promise!Next]_(Promise!avars)
  <2>1. UNCHANGED station /\ clients \subseteq clients'
    BY <1>2 DEF Connect
  <2>2. \A f \in clients' : f \in clients \/ f.status # "online"
    BY <1>2 DEF Connect
  <2> QED BY <2>1, <2>2, SameExperiences
<1>3. ASSUME NEW s \in Sockets, RejectHello(s) PROVE [Promise!Next]_(Promise!avars)
  BY <1>1, <1>3 DEF RejectHello
<1>4. CASE Tick
  <2>1. UNCHANGED station /\ clients' = {Older(e) : e \in clients}
    BY <1>4 DEF Tick
  <2>2. \A e \in clients : /\ Older(e).status = e.status /\ Older(e).clientId = e.clientId
                           /\ Older(e).experienceId = e.experienceId
    BY OlderFacts DEF PromiseInv
  <2> QED BY <2>1, <2>2, SameExperiences
<1>5. CASE Next
  BY <1>2, <1>3, <1>4, <1>5, HelloRefines, HeartbeatRefines, SocketClosedRefines,
     MarkStaleRefines, OperatorRefines DEF Next, Promise!Next
<1> QED BY <1>1, <1>5 DEF vars

LEMMA PromiseStart == Init => Promise!Init
<1> SUFFICES ASSUME Init PROVE Promise!Init
  OBVIOUS
<1>1. \A c : OnlineExperience(c) = None
  BY FindByClientIdSound DEF Init, OnlineExperience, IsSelectable
<1> QED BY <1>1 DEF Init, NoSelection, Promise!Init

\* What the operator is promised holds of every run of registry, gateway
\* handlers and presence timer: the selection passes on by itself only from
\* a client that is not online any more, to nobody or to the only client of
\* the default experience, and follows its client to another experience.
THEOREM RegistryImplementsPromise == Spec => Promise!Spec
<1>1. TypeInv /\ [Next]_vars => TypeInv'
  BY TypeStep
<1>2. TypeInv /\ IdentityInv /\ [Next]_vars => IdentityInv'
  BY IdentityStep
<1>3. TypeInv /\ IdentityInv /\ SelectionMatchesRegistry /\ [Next]_vars
        => SelectionMatchesRegistry'
  BY MatchesStep
<1>4. Init => PromiseInv
  BY InitType, InitIdentity DEF Init, PromiseInv, SelectionMatchesRegistry
<1>5. PromiseInv /\ [Next]_vars => PromiseInv'
  BY <1>1, <1>2, <1>3 DEF PromiseInv
<1>6. PromiseInv /\ PromiseInv' /\ [Next]_vars => [Promise!Next]_(Promise!avars)
  BY PromiseStep
<1> QED BY PromiseStart, <1>4, <1>5, <1>6, PTL DEF Spec, Promise!Spec
=============================================================================
