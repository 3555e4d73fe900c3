------------------------- MODULE ControlStreamProofs -------------------------
(***************************************************************************)
(* Proofs about ControlStream, for any number of pages, of sockets and of  *)
(* controls.                                                               *)
(*                                                                         *)
(* What is on its way is ordered and ends with the Host's control          *)
(* (SocketInv); a page that was not started again too early has one live   *)
(* socket, the one it refers to, and has heard nothing newer than what is  *)
(* on its way there (PageInv).                                             *)
(***************************************************************************)
EXTENDS ControlStream, TLAPS

SocketInv(s) ==
  /\ down[s] # <<>> => IsLive(s)
  /\ ready[s] = "unused" => hostState[s] = "none"
  /\ hostState[s] = "open" <=> s \in subscribers
  /\ \A i, j \in 1..Len(down[s]) : i =< j => down[s][i] =< down[s][j]
  /\ \A i \in 1..Len(down[s]) : down[s][i] =< lastControl
  /\ hostState[s] = "open" /\ down[s] # <<>> => down[s][Len(down[s])] = lastControl

\* What the client relies on as long as it was not started again too early.
PageInv(p) ==
  /\ p = Console \/ page[p] = Loaded => ~page[p].early
  /\ page[p].prepared => page[p].listening
  /\ page[p].heard =< lastControl
  /\ ~page[p].early =>
       \A s \in SocketsOf(p) :
         /\ IsLive(s) => s = page[p].socket
         /\ page[p].socket # Null \/ p = Console => ready[s] # "closing"
         /\ \A i \in 1..Len(down[s]) : page[p].heard =< down[s][i]
         /\ /\ IsLive(s) /\ hostState[s] = "open" /\ down[s] = <<>>
            /\ page[p].listening /\ (page[p].prepared \/ page[p].heard # Nothing)
            => page[p].heard = lastControl

IInv == TypeOK /\ (\A s \in Sockets : SocketInv(s)) /\ (\A p \in Viewers : PageInv(p))

-----------------------------------------------------------------------------
LEMMA NotNull ==
  ASSUME NEW s \in Sockets
  PROVE  s # Null /\ s[1] \in Viewers
BY SocketAssumption DEF Null

LEMMA SeqElement ==
  ASSUME NEW S, NEW q \in Seq(S), NEW i \in 1..Len(q)
  PROVE  q[i] \in S
OBVIOUS

LEMMA EmptyIsSeq == <<>> \in Seq(0..MaxControls)
OBVIOUS

LEMMA SeqFacts ==
  ASSUME NEW q \in Seq(0..MaxControls)
  PROVE  /\ Len(q) \in Nat /\ (q # <<>> <=> Len(q) # 0)
         /\ \A i \in 1..Len(q) : q[i] \in 0..MaxControls /\ q[i] \in Int
<1>1. Len(q) \in Nat /\ (q # <<>> <=> Len(q) # 0)
  OBVIOUS
<1>2. \A i \in 1..Len(q) : q[i] \in 0..MaxControls
  BY SeqElement
<1> QED
  BY <1>1, <1>2, BoundAssumption

LEMMA AppendFacts ==
  ASSUME NEW q \in Seq(0..MaxControls), NEW n \in 0..MaxControls
  PROVE  /\ Append(q, n) \in Seq(0..MaxControls) /\ Len(Append(q, n)) = Len(q) + 1
         /\ \A i \in 1..Len(q) : Append(q, n)[i] = q[i]
         /\ Append(q, n)[Len(q) + 1] = n /\ Append(q, n) # <<>>
OBVIOUS

LEMMA TailFacts ==
  ASSUME NEW q \in Seq(0..MaxControls), q # <<>>
  PROVE  /\ Tail(q) \in Seq(0..MaxControls) /\ Len(Tail(q)) = Len(q) - 1
         /\ \A i \in 1..Len(Tail(q)) : Tail(q)[i] = q[i + 1]
         /\ Head(q) = q[1] /\ Head(q) \in 0..MaxControls
<1>1. Tail(q) \in Seq(0..MaxControls) /\ Len(Tail(q)) = Len(q) - 1
  OBVIOUS
<1>2. \A i \in 1..Len(Tail(q)) : Tail(q)[i] = q[i + 1]
  OBVIOUS
<1>3. Head(q) = q[1]
  OBVIOUS
<1>4. 1 \in 1..Len(q)
  BY SeqFacts
<1> QED
  BY <1>1, <1>2, <1>3, <1>4, SeqFacts

-----------------------------------------------------------------------------
(* Steps that leave a socket, or a page and its sockets, alone.            *)

SameSocket(s) ==
  /\ ready'[s] = ready[s] /\ hostState'[s] = hostState[s] /\ down'[s] = down[s]
  /\ s \in subscribers <=> s \in subscribers'

LEMMA SocketKept ==
  ASSUME NEW s \in Sockets, SocketInv(s), SameSocket(s), lastControl' = lastControl
  PROVE  SocketInv(s)'
BY DEF SocketInv, SameSocket, IsLive

LEMMA PageKept ==
  ASSUME NEW p \in Viewers, PageInv(p), page'[p] = page[p], lastControl' = lastControl,
         \A s \in SocketsOf(p) : SameSocket(s)
  PROVE  PageInv(p)'
BY DEF PageInv, SameSocket, IsLive, SocketsOf

\* A step of the page p and of sockets of p only.
LEMMA PageStep ==
  ASSUME IInv, TypeOK', NEW p \in Viewers, UNCHANGED lastControl,
         \A q \in Viewers \ {p} : page'[q] = page[q],
         \A s \in Sockets \ SocketsOf(p) : SameSocket(s),
         \A s \in SocketsOf(p) : SocketInv(s)',
         PageInv(p)'
  PROVE  IInv'
<1>1. \A s \in Sockets : SocketInv(s)'
  BY SocketKept DEF IInv
<1>2. \A q \in Viewers \ {p} : PageInv(q)'
  <2> SUFFICES ASSUME NEW q \in Viewers \ {p} PROVE PageInv(q)'
    OBVIOUS
  <2>1. \A s \in SocketsOf(q) : SameSocket(s)
    BY DEF SocketsOf
  <2> QED
    BY <2>1, PageKept DEF IInv
<1> QED
  BY <1>1, <1>2 DEF IInv

\* A step of the socket s and its page.
LEMMA SocketStep ==
  ASSUME IInv, TypeOK', NEW s \in Sockets, UNCHANGED lastControl,
         \A q \in Viewers \ {s[1]} : page'[q] = page[q],
         \A t \in Sockets \ {s} : SameSocket(t),
         SocketInv(s)', PageInv(s[1])'
  PROVE  IInv'
<1>1. \A t \in Sockets : SocketInv(t)'
  BY SocketKept DEF IInv
<1>2. \A t \in Sockets \ SocketsOf(s[1]) : SameSocket(t)
  BY DEF SocketsOf
<1>3. \A t \in SocketsOf(s[1]) : SocketInv(t)'
  BY <1>1 DEF SocketsOf
<1> QED
  BY <1>2, <1>3, NotNull, PageStep

-----------------------------------------------------------------------------
(* The Host.                                                               *)

LEMMA AcceptsInv ==
  ASSUME IInv, NEW s \in Sockets, HostAccepts(s)
  PROVE  IInv'
<1> USE DEF IInv
<1>1. /\ ready[s] = "connecting" /\ UNCHANGED <<lastControl, disposed, ready, page>>
      /\ hostState' = [hostState EXCEPT ![s] = "open"]
      /\ subscribers' = subscribers \cup {s}
      /\ down' = [down EXCEPT ![s] = <<lastControl>>]
  BY DEF HostAccepts, Welcome
<1>2. TypeOK'
  BY <1>1 DEF TypeOK
<1>3. \A t \in Sockets \ {s} : SameSocket(t)
  BY <1>1 DEF SameSocket, TypeOK
<1>4. down'[s] = <<lastControl>> /\ hostState'[s] = "open" /\ lastControl \in Int
  BY <1>1 DEF TypeOK
<1>5. SocketInv(s)'
  BY <1>1, <1>4 DEF SocketInv, IsLive
<1>6. PageInv(s[1])'
  <2>1. \A t \in SocketsOf(s[1]) : t = s \/ SameSocket(t)
    BY <1>3 DEF SocketsOf
  <2> QED
    BY <1>1, <1>4, <2>1, NotNull DEF PageInv, SameSocket, IsLive, SocketsOf
<1> QED
  BY <1>1, <1>2, <1>3, <1>5, <1>6, SocketStep

\* The upgrade fails, the connection ends, or the open event is dispatched.
LEMMA HostEndsInv ==
  ASSUME IInv, NEW s \in Sockets, HostRefuses(s) \/ HostCloses(s) \/ OpenEvent(s)
  PROVE  IInv'
<1> USE DEF IInv
<1>1. /\ UNCHANGED <<lastControl, disposed, down, page>>
      /\ \/ /\ ready[s] = "connecting" /\ hostState[s] = "none"
            /\ hostState' = [hostState EXCEPT ![s] = "closed"]
            /\ UNCHANGED <<ready, subscribers>>
         \/ /\ hostState[s] \in {"open", "closing"}
            /\ hostState' = [hostState EXCEPT ![s] = "closed"]
            /\ UNCHANGED ready /\ subscribers' = subscribers \ {s}
         \/ /\ ready[s] = "connecting" /\ ready' = [ready EXCEPT ![s] = "open"]
            /\ UNCHANGED <<hostState, subscribers>>
  BY DEF HostRefuses, HostCloses, OpenEvent, host
<1>2. TypeOK'
  BY <1>1 DEF TypeOK
<1>3. \A t \in Sockets \ {s} : SameSocket(t)
  BY <1>1 DEF SameSocket, TypeOK
<1>4. /\ IsLive(s)' <=> IsLive(s)
      /\ hostState'[s] = "open" => hostState[s] = "open"
      /\ hostState'[s] = "open" <=> s \in subscribers'
      /\ ready'[s] = "closing" => ready[s] = "closing"
      /\ ready'[s] # "unused"
  BY <1>1 DEF TypeOK, IsLive, SocketInv
<1>5. SocketInv(s)'
  BY <1>1, <1>4 DEF SocketInv
<1>6. PageInv(s[1])'
  <2>1. \A t \in SocketsOf(s[1]) : t = s \/ SameSocket(t)
    BY <1>3 DEF SocketsOf
  <2> QED
    BY <1>1, <1>4, <2>1, NotNull DEF PageInv, SameSocket, IsLive, SocketsOf
<1> QED
  BY <1>1, <1>2, <1>3, <1>5, <1>6, SocketStep

LEMMA PublishInv ==
  ASSUME IInv, Publish
  PROVE  IInv'
<1> USE DEF IInv
<1>1. /\ lastControl \in 0..MaxControls /\ lastControl' = lastControl + 1
      /\ lastControl' \in 0..MaxControls
      /\ UNCHANGED <<subscribers, hostState, disposed, ready, page>>
  BY BoundAssumption DEF Publish, TypeOK
<1>2. ASSUME NEW s \in Sockets
      PROVE  down'[s] = IF hostState[s] = "open" /\ IsLive(s)
                        THEN Append(down[s], lastControl') ELSE down[s]
  BY DEF Publish, SocketInv
<1>3. ASSUME NEW s \in Sockets PROVE down[s] \in Seq(0..MaxControls)
  BY DEF TypeOK
<1>4. TypeOK'
  <2>1. DOMAIN down' = Sockets /\ down' = [s \in Sockets |-> down'[s]]
    BY DEF Publish
  <2>2. \A s \in Sockets : down'[s] \in Seq(0..MaxControls)
    BY <1>1, <1>2, <1>3, AppendFacts
  <2> QED
    BY <1>1, <2>1, <2>2 DEF TypeOK
<1>5. ASSUME NEW s \in Sockets PROVE SocketInv(s)'
  <2>1. CASE hostState[s] = "open" /\ IsLive(s)
    <3>1. down'[s] = Append(down[s], lastControl')
      BY <1>2, <2>1
    <3>2. /\ Len(down'[s]) = Len(down[s]) + 1 /\ Len(down[s]) \in Nat
          /\ \A i \in 1..Len(down[s]) : down'[s][i] = down[s][i] /\ down[s][i] \in Int
          /\ down'[s][Len(down[s]) + 1] = lastControl'
      BY <1>1, <1>3, <3>1, AppendFacts, SeqFacts
    <3>3. \A i \in 1..Len(down'[s]) : i \in 1..Len(down[s]) \/ i = Len(down[s]) + 1
      BY <3>2
    <3>4. \A i \in 1..Len(down'[s]) : down'[s][i] =< lastControl'
      BY SMTT(30), <1>1, <3>2, <3>3 DEF SocketInv
    <3>5. ASSUME NEW i \in 1..Len(down'[s]), NEW j \in 1..Len(down'[s]), i =< j
          PROVE  down'[s][i] =< down'[s][j]
      <4>1. CASE j = Len(down[s]) + 1
        BY <3>2, <3>4, <3>5, <4>1
      <4>2. CASE j \in 1..Len(down[s])
        <5>1. i \in 1..Len(down[s])
          BY <3>2, <3>5, <4>2
        <5> QED
          BY <3>2, <3>5, <4>2, <5>1 DEF SocketInv
      <4> QED
        BY <3>3, <4>1, <4>2
    <3> QED
      BY <1>1, <2>1, <3>2, <3>4, <3>5 DEF SocketInv, IsLive
  <2>2. CASE ~(hostState[s] = "open" /\ IsLive(s))
    <3>1. down'[s] = down[s]
      BY <1>2, <2>2
    <3>2. \A i \in 1..Len(down[s]) : down[s][i] \in Int
      BY <1>3, SeqFacts
    <3> QED
      BY <1>1, <2>2, <3>1, <3>2 DEF SocketInv, IsLive
  <2> QED
    BY <2>1, <2>2
<1>6. ASSUME NEW p \in Viewers PROVE PageInv(p)'
  <2>1. page[p].heard \in Int /\ page[p].heard =< lastControl
    BY DEF TypeOK, PageState, Nothing, PageInv
  <2>2. ASSUME ~page[p].early, NEW s \in SocketsOf(p), NEW i \in 1..Len(down'[s])
        PROVE  page[p].heard =< down'[s][i]
    <3>1. s \in Sockets
      BY DEF SocketsOf
    <3>2. \A j \in 1..Len(down[s]) : page[p].heard =< down[s][j]
      BY <2>2 DEF PageInv
    <3>3. CASE hostState[s] = "open" /\ IsLive(s)
      <4>1. down'[s] = Append(down[s], lastControl')
        BY <1>2, <3>1, <3>3
      <4>2. /\ Len(down'[s]) = Len(down[s]) + 1 /\ Len(down[s]) \in Nat
            /\ \A j \in 1..Len(down[s]) : down'[s][j] = down[s][j]
            /\ down'[s][Len(down[s]) + 1] = lastControl'
        BY <1>1, <1>3, <3>1, <4>1, AppendFacts, SeqFacts
      <4>3. i \in 1..Len(down[s]) \/ i = Len(down[s]) + 1
        BY <2>2, <4>2
      <4>4. CASE i \in 1..Len(down[s])
        BY <3>2, <4>2, <4>4
      <4>5. CASE i = Len(down[s]) + 1
        <5>1. down'[s][i] = lastControl'
          BY <4>2, <4>5
        <5> QED
          BY <1>1, <2>1, <5>1
      <4> QED
        BY <4>3, <4>4, <4>5
    <3>4. CASE ~(hostState[s] = "open" /\ IsLive(s))
      BY <1>2, <2>2, <3>1, <3>2, <3>4
    <3> QED
      BY <3>3, <3>4
  <2>3. ASSUME NEW s \in SocketsOf(p), hostState[s] = "open" /\ IsLive(s)
        PROVE  down'[s] # <<>>
    <3>1. s \in Sockets
      BY DEF SocketsOf
    <3>2. down'[s] = Append(down[s], lastControl')
      BY <1>2, <2>3, <3>1
    <3> QED
      BY <1>1, <1>3, <3>1, <3>2, AppendFacts
  <2> QED
    BY <1>1, <2>1, <2>2, <2>3 DEF PageInv, IsLive, SocketsOf
<1> QED
  BY <1>4, <1>5, <1>6

LEMMA CloseAllInv ==
  ASSUME IInv, CloseAll
  PROVE  IInv'
<1> USE DEF IInv
<1>1. /\ UNCHANGED <<lastControl, ready, down, page>> /\ subscribers' = {} /\ disposed' = TRUE
      /\ hostState' = [s \in Sockets |-> IF s \in subscribers THEN "closing" ELSE hostState[s]]
  BY DEF CloseAll
<1>2. TypeOK'
  BY <1>1 DEF TypeOK
<1>3. \A s \in Sockets : hostState'[s] # "open"
  BY <1>1 DEF SocketInv
<1>4. \A s \in Sockets : SocketInv(s)'
  BY <1>1, <1>3 DEF SocketInv, IsLive
<1>5. \A p \in Viewers : PageInv(p)'
  BY <1>1, <1>3 DEF PageInv, IsLive, SocketsOf
<1> QED
  BY <1>2, <1>4, <1>5
-----------------------------------------------------------------------------
(* The browser.                                                            *)

\* start() and the console's mount: a page that refers to no socket opens one.
LEMMA OpensInv ==
  ASSUME IInv, NEW p \in Viewers, NEW s \in SocketsOf(p), NEW new \in PageState,
         ready[s] = "unused", page[p].socket = Null, new.socket = s,
         new.heard \in {page[p].heard, Nothing}, new.prepared => new.listening,
         page[p].early => new.early,
         ~new.early => \A t \in SocketsOf(p) : ready[t] # "closing",
         p = Console => ~new.early,
         ready' = [ready EXCEPT ![s] = "connecting"],
         page' = [page EXCEPT ![p] = new],
         UNCHANGED <<lastControl, subscribers, hostState, disposed, down>>
  PROVE  IInv'
<1> USE DEF IInv
<1>1. s \in Sockets /\ s[1] = p /\ s # Null
  BY NotNull DEF SocketsOf
<1>2. TypeOK'
  BY <1>1 DEF TypeOK
<1>3. page'[p] = new /\ \A q \in Viewers \ {p} : page'[q] = page[q]
  BY DEF TypeOK
<1>4. /\ ready'[s] = "connecting"
      /\ \A t \in Sockets \ {s} : SameSocket(t)
  BY <1>1 DEF TypeOK, SameSocket
<1>5. /\ SocketInv(s) /\ PageInv(p)
      /\ hostState[s] = "none" /\ down[s] = <<>> /\ lastControl \in Nat
  BY <1>1 DEF SocketInv, IsLive, TypeOK
<1>6. SocketInv(s)'
  BY <1>4, <1>5 DEF SocketInv, IsLive
<1>7. page'[p].heard =< lastControl
  BY <1>3, <1>5 DEF PageInv, Nothing
<1>8. page'[p] = Loaded => ~page'[p].early
  BY DEF Loaded
<1>9. ASSUME ~new.early, NEW t \in SocketsOf(p)
      PROVE  /\ IsLive(t)' => t = s
             /\ ready'[t] # "closing"
             /\ \A i \in 1..Len(down[t]) : new.heard =< down[t][i]
             /\ IsLive(t)' => hostState[t] # "open"
  <2>1. ~page[p].early
    BY <1>9
  <2>2. t \in Sockets /\ ~IsLive(t)
    BY <1>5, <2>1, NotNull DEF PageInv, SocketsOf
  <2>3. down[t] = <<>>
    BY <2>2 DEF SocketInv
  <2>4. CASE t = s
    BY <1>4, <1>5, <2>3, <2>4
  <2>5. CASE t # s
    BY <1>4, <1>9, <2>2, <2>3, <2>5 DEF SameSocket, IsLive
  <2> QED
    BY <2>4, <2>5
<1>10. PageInv(p)'
  BY <1>3, <1>7, <1>8, <1>9 DEF PageInv, SocketsOf
<1> QED
  BY <1>1, <1>2, <1>3, <1>4, <1>6, <1>10, SocketStep

LEMMA StartInv ==
  ASSUME IInv, NEW p \in Viewers, Start(p)
  PROVE  IInv'
<1> DEFINE new(s) ==
      [socket |-> s, listening |-> page[p].listening, prepared |-> page[p].listening,
       early |-> page[p].early \/ \E t \in SocketsOf(p) : ready[t] = "closing",
       heard |-> page[p].heard]
<1>1. PICK s \in NextSocket(p) : /\ ready' = [ready EXCEPT ![s] = "connecting"]
                                 /\ page' = [page EXCEPT ![p] = new(s)]
  BY DEF Start
<1>2. /\ p # Console /\ page[p].socket = Null
      /\ UNCHANGED <<lastControl, subscribers, hostState, disposed, down>>
  BY DEF Start, host
<1>3. s \in SocketsOf(p) /\ ready[s] = "unused"
  BY DEF NextSocket
<1>4. page[p] \in PageState /\ s \in Sockets
  BY <1>3 DEF IInv, TypeOK, SocketsOf
<1>5. new(s) \in PageState
  BY <1>4 DEF PageState
<1>6. /\ new(s).socket = s /\ new(s).heard = page[p].heard /\ new(s).prepared = new(s).listening
      /\ new(s).early <=> page[p].early \/ \E t \in SocketsOf(p) : ready[t] = "closing"
  OBVIOUS
<1> HIDE DEF new
<1> QED
  BY <1>1, <1>2, <1>3, <1>5, <1>6, OpensInv

LEMMA MountInv ==
  ASSUME IInv, Mount
  PROVE  IInv'
<1> DEFINE new(s) == [socket |-> s, listening |-> TRUE, prepared |-> TRUE, early |-> FALSE,
                      heard |-> Nothing]
<1>1. PICK s \in NextSocket(Console) : /\ ready' = [ready EXCEPT ![s] = "connecting"]
                                       /\ page' = [page EXCEPT ![Console] = new(s)]
  BY DEF Mount
<1>2. /\ page[Console].socket = Null /\ ~page[Console].early
      /\ UNCHANGED <<lastControl, subscribers, hostState, disposed, down>>
  BY DEF Mount, Loaded, host
<1>3. s \in SocketsOf(Console) /\ s \in Sockets /\ ready[s] = "unused" /\ Console \in Viewers
  BY DEF NextSocket, SocketsOf, Viewers
<1>4. \A t \in SocketsOf(Console) : ready[t] # "closing"
  BY <1>2, <1>3 DEF IInv, PageInv
<1>5. new(s) \in PageState
  BY <1>3 DEF PageState
<1>6. new(s).socket = s /\ new(s).heard = Nothing /\ new(s).listening /\ ~new(s).early
  OBVIOUS
<1> HIDE DEF new
<1> QED
  BY <1>1, <1>2, <1>3, <1>4, <1>5, <1>6, OpensInv

\* A listener that comes or goes has heard nothing.
LEMMA ListenersInv ==
  ASSUME IInv, NEW p \in Viewers, OnOrientation(p) \/ Unsubscribe(p)
  PROVE  IInv'
<1> USE DEF IInv
<1>1. /\ p # Console
      /\ UNCHANGED <<lastControl, subscribers, hostState, disposed, ready, down>>
  BY DEF OnOrientation, Unsubscribe, host
<1>2. page[p] \in PageState /\ PageInv(p)
  BY DEF TypeOK
<1>3. \E l, r \in BOOLEAN : page' = [page EXCEPT ![p] = Listener(p, l, r, Nothing)] /\ ~r
  BY <1>2 DEF OnOrientation, Unsubscribe, PageInv, PageState
<1>4. PICK l, r \in BOOLEAN : page' = [page EXCEPT ![p] = Listener(p, l, r, Nothing)] /\ ~r
  BY <1>3
<1>5. Listener(p, l, r, Nothing) \in PageState
  BY <1>2 DEF Listener, PageState
<1>6. TypeOK'
  BY <1>1, <1>4, <1>5 DEF TypeOK
<1>7. /\ page'[p].socket = page[p].socket /\ page'[p].early = page[p].early
      /\ page'[p].heard = Nothing /\ ~page'[p].prepared
      /\ \A q \in Viewers \ {p} : page'[q] = page[q]
  BY <1>4 DEF Listener, TypeOK
<1>8. \A s \in Sockets : SameSocket(s)
  BY <1>1 DEF SameSocket
<1>9. \A s \in Sockets : SocketInv(s)'
  BY <1>1, <1>8, SocketKept
<1>10. PageInv(p)'
  <2>1. Nothing =< lastControl
    BY DEF Nothing, TypeOK
  <2>2. page'[p] = Loaded => ~page'[p].early
    BY DEF Loaded
  <2>3. \A s \in SocketsOf(p) : \A i \in 1..Len(down[s]) : Nothing =< down[s][i]
    BY SeqFacts DEF Nothing, TypeOK, SocketsOf
  <2> QED
    BY <1>1, <1>2, <1>7, <2>1, <2>2, <2>3 DEF PageInv, IsLive, SocketsOf
<1> QED
  BY <1>1, <1>6, <1>7, <1>8, <1>9, <1>10, PageStep DEF SocketsOf

LEMMA DisposeInv ==
  ASSUME IInv, NEW p \in Viewers, Dispose(p)
  PROVE  IInv'
<1> USE DEF IInv
<1>1. /\ p # Console /\ page' = [page EXCEPT ![p] = [Loaded EXCEPT !.early = page[p].early]]
      /\ ready' = [s \in Sockets |-> IF s \in Closed(p) THEN "closing" ELSE ready[s]]
      /\ down' = [s \in Sockets |-> IF s \in Closed(p) THEN <<>> ELSE down[s]]
      /\ UNCHANGED <<lastControl, subscribers, hostState, disposed>>
  BY DEF Dispose, host
<1>2. /\ page'[p].socket = Null /\ page'[p].early = page[p].early /\ page'[p].heard = Nothing
      /\ ~page'[p].listening /\ ~page'[p].prepared
      /\ page'[p] \in PageState
      /\ \A q \in Viewers \ {p} : page'[q] = page[q]
  BY <1>1 DEF TypeOK, Loaded, PageState
<1>3. TypeOK'
  <2>1. page' \in [Viewers -> PageState]
    BY <1>1, <1>2 DEF TypeOK
  <2>2. down' \in [Sockets -> Seq(0..MaxControls)]
    BY <1>1, EmptyIsSeq DEF TypeOK
  <2> QED
    BY <1>1, <2>1, <2>2 DEF TypeOK
<1>4. \A s \in Sockets \ SocketsOf(p) : SameSocket(s)
  BY <1>1 DEF SameSocket, Closed
<1>5. \A s \in SocketsOf(p) : SocketInv(s)'
  <2> SUFFICES ASSUME NEW s \in SocketsOf(p) PROVE SocketInv(s)'
    OBVIOUS
  <2>1. s \in Sockets /\ SocketInv(s)
    BY DEF SocketsOf
  <2>2. CASE s \in Closed(p)
    <3>1. ready'[s] = "closing" /\ down'[s] = <<>>
      BY <1>1, <2>1, <2>2
    <3> QED
      BY <1>1, <2>1, <3>1 DEF SocketInv
  <2>3. CASE s \notin Closed(p)
    BY <1>1, <2>1, <2>3, SocketKept DEF SameSocket
  <2> QED
    BY <2>2, <2>3
<1>6. PageInv(p)'
  <2>1. Nothing =< lastControl /\ (page'[p] = Loaded => ~page'[p].early)
    BY DEF Nothing, TypeOK, Loaded
  <2>2. ASSUME ~page[p].early, NEW s \in SocketsOf(p)
        PROVE  ~IsLive(s)'
    BY <1>1, <2>2 DEF PageInv, Closed, IsLive, SocketsOf
  <2>3. ASSUME NEW s \in SocketsOf(p), NEW i \in 1..Len(down'[s])
        PROVE  Nothing =< down'[s][i]
    BY <1>3, <2>3, SeqFacts DEF Nothing, TypeOK, SocketsOf
  <2> QED
    BY <1>1, <1>2, <2>1, <2>2, <2>3 DEF PageInv, SocketsOf
<1> QED
  BY <1>1, <1>2, <1>3, <1>4, <1>5, <1>6, PageStep

LEMMA ReloadInv ==
  ASSUME IInv, NEW p \in Viewers, Reload(p)
  PROVE  IInv'
<1> USE DEF IInv
<1>1. /\ page' = [page EXCEPT ![p] = Loaded]
      /\ ready' = [s \in Sockets |->
           IF s \in SocketsOf(p) /\ ready[s] # "unused" THEN "closed" ELSE ready[s]]
      /\ down' = [s \in Sockets |-> IF s \in SocketsOf(p) THEN <<>> ELSE down[s]]
      /\ UNCHANGED <<lastControl, subscribers, hostState, disposed>>
  BY DEF Reload, host
<1>2. page'[p] = Loaded /\ \A q \in Viewers \ {p} : page'[q] = page[q]
  BY <1>1 DEF TypeOK
<1>3. TypeOK'
  <2>1. Loaded \in PageState
    BY DEF Loaded, PageState
  <2>2. down' \in [Sockets -> Seq(0..MaxControls)]
    BY <1>1, EmptyIsSeq DEF TypeOK
  <2> QED
    BY <1>1, <2>1, <2>2 DEF TypeOK
<1>4. \A s \in Sockets \ SocketsOf(p) : SameSocket(s)
  BY <1>1 DEF SameSocket
<1>5. ASSUME NEW s \in SocketsOf(p)
      PROVE  /\ down'[s] = <<>> /\ ready'[s] \in {"unused", "closed"}
             /\ ready'[s] = "unused" => ready[s] = "unused"
             /\ SocketInv(s)
  BY <1>1 DEF SocketsOf
<1>6. \A s \in SocketsOf(p) : SocketInv(s)'
  BY <1>1, <1>5 DEF SocketInv
<1>7. PageInv(p)'
  <2>1. Nothing =< lastControl
    BY DEF Nothing, TypeOK
  <2> QED
    BY <1>1, <1>2, <1>5, <2>1 DEF PageInv, IsLive, SocketsOf, Loaded
<1> QED
  BY <1>1, <1>2, <1>3, <1>4, <1>6, <1>7, PageStep

\* The page refers to a live socket, if not to the one that closes, only
\* after an early restart.
LEMMA CloseEventInv ==
  ASSUME IInv, NEW s \in Sockets, CloseEvent(s)
  PROVE  IInv'
<1> USE DEF IInv
<1> DEFINE p == s[1]
<1>1. /\ IsLive(s) \/ ready[s] = "closing"
      /\ ready' = [ready EXCEPT ![s] = "closed"] /\ down' = [down EXCEPT ![s] = <<>>]
      /\ page' = [page EXCEPT ![p] = Forgotten(p)]
      /\ UNCHANGED <<lastControl, subscribers, hostState, disposed>>
  BY DEF CloseEvent, host
<1>2. p \in Viewers /\ s \in SocketsOf(p)
  BY NotNull DEF SocketsOf
<1>3. page[p] \in PageState /\ PageInv(p)
  BY <1>2 DEF TypeOK
<1>4. /\ page'[p].socket = Null /\ page'[p].early = page[p].early
      /\ page'[p].heard = page[p].heard /\ page'[p].listening = page[p].listening
      /\ page'[p].prepared = page[p].prepared
      /\ page'[p] \in PageState
      /\ \A q \in Viewers \ {p} : page'[q] = page[q]
  BY <1>1, <1>2, <1>3 DEF TypeOK, Forgotten, PageState
<1>5. TypeOK'
  <2>1. page' \in [Viewers -> PageState]
    BY <1>1, <1>2, <1>4 DEF TypeOK
  <2>2. down' \in [Sockets -> Seq(0..MaxControls)]
    BY <1>1, EmptyIsSeq DEF TypeOK
  <2> QED
    BY <1>1, <2>1, <2>2 DEF TypeOK
<1>6. /\ ready'[s] = "closed" /\ down'[s] = <<>>
      /\ \A t \in Sockets \ {s} : SameSocket(t)
  BY <1>1 DEF TypeOK, SameSocket
<1>7. SocketInv(s)'
  BY <1>1, <1>6 DEF SocketInv
<1>8. ASSUME ~page[p].early, NEW t \in SocketsOf(p)
      PROVE  ~IsLive(t)'
  <2>1. CASE t = s
    BY <1>6, <2>1 DEF IsLive
  <2>2. CASE t # s
    <3>1. t \in Sockets /\ ready'[t] = ready[t] /\ t # Null
      BY <1>6, <2>2, NotNull DEF SameSocket, SocketsOf
    <3>2. IsLive(t) => t = page[p].socket
      BY <1>3, <1>8 DEF PageInv
    <3>3. IsLive(s) => s = page[p].socket
      BY <1>2, <1>3, <1>8 DEF PageInv
    <3>4. ready[s] = "closing" => page[p].socket = Null
      BY <1>2, <1>3, <1>8 DEF PageInv
    <3> QED
      BY <1>1, <2>2, <3>1, <3>2, <3>3, <3>4 DEF IsLive
  <2> QED
    BY <2>1, <2>2
<1>9. PageInv(p)'
  <2>1. page'[p] = Loaded => ~page'[p].early
    BY DEF Loaded
  <2>2. p = Console => ~page[p].early
    BY <1>3 DEF PageInv
  <2>3. ASSUME ~page[p].early, NEW t \in SocketsOf(p)
        PROVE  /\ p = Console => ready'[t] # "closing"
               /\ \A i \in 1..Len(down'[t]) : page[p].heard =< down'[t][i]
    BY <1>3, <1>6, <2>3 DEF PageInv, SameSocket, SocketsOf
  <2> HIDE DEF p
  <2> QED
    BY <1>1, <1>3, <1>4, <1>8, <2>1, <2>2, <2>3 DEF PageInv, SocketsOf
<1> QED
  BY <1>1, <1>4, <1>5, <1>6, <1>7, <1>9, SocketStep

LEMMA MessageInv ==
  ASSUME IInv, NEW s \in Sockets, Message(s)
  PROVE  /\ IInv'
         /\ ~page[s[1]].early => page[s[1]].heard =< Head(down[s])
<1> USE DEF IInv
<1> DEFINE p == s[1]
<1>1. /\ ready[s] = "open" /\ down[s] # <<>> /\ down' = [down EXCEPT ![s] = Tail(down[s])]
      /\ UNCHANGED <<lastControl, subscribers, hostState, disposed, ready>>
  BY DEF Message, host
<1>2. p \in Viewers /\ s \in SocketsOf(p) /\ IsLive(s)
  BY <1>1, NotNull DEF SocketsOf, IsLive
<1>3. page[p] \in PageState /\ PageInv(p) /\ SocketInv(s) /\ down[s] \in Seq(0..MaxControls)
  BY <1>2 DEF TypeOK
<1>4. page' = IF page[p].listening
              THEN [page EXCEPT ![p] = Listener(p, TRUE, page[p].prepared, Head(down[s]))]
              ELSE page
  BY DEF Message
<1>5. /\ Len(down[s]) \in Nat /\ Len(down[s]) # 0 /\ Head(down[s]) = down[s][1]
      /\ Head(down[s]) \in 0..MaxControls
      /\ Tail(down[s]) \in Seq(0..MaxControls) /\ Len(Tail(down[s])) = Len(down[s]) - 1
      /\ \A i \in 1..Len(Tail(down[s])) : Tail(down[s])[i] = down[s][i + 1]
  BY <1>1, <1>3, SeqFacts, TailFacts
<1>6. /\ down'[s] = Tail(down[s]) /\ \A t \in Sockets \ {s} : SameSocket(t)
  BY <1>1 DEF TypeOK, SameSocket
<1>7. /\ page'[p].socket = page[p].socket /\ page'[p].early = page[p].early
      /\ page'[p].prepared = page[p].prepared /\ page'[p].listening = page[p].listening
      /\ page'[p].heard = IF page[p].listening THEN Head(down[s]) ELSE page[p].heard
      /\ page'[p] \in PageState
      /\ \A q \in Viewers \ {p} : page'[q] = page[q]
  <2>1. Listener(p, TRUE, page[p].prepared, Head(down[s])) \in PageState
    BY <1>3, <1>5 DEF Listener, PageState
  <2>2. CASE page[p].listening
    BY <1>2, <1>4, <2>1, <2>2 DEF Listener, TypeOK
  <2>3. CASE ~page[p].listening
    BY <1>3, <1>4, <2>3
  <2> QED
    BY <2>2, <2>3
<1>8. TypeOK'
  <2>1. page' \in [Viewers -> PageState]
    BY <1>2, <1>4, <1>7 DEF TypeOK
  <2>2. down' \in [Sockets -> Seq(0..MaxControls)]
    BY <1>1, <1>5 DEF TypeOK
  <2> QED
    BY <1>1, <2>1, <2>2 DEF TypeOK
<1>9. \A i \in 1..Len(down'[s]) : i \in 1..Len(down[s]) /\ i + 1 \in 1..Len(down[s])
                                  /\ 1 =< i + 1 /\ down'[s][i] = down[s][i + 1]
  BY <1>5, <1>6
<1>10. SocketInv(s)'
  <2>1. ASSUME NEW i \in 1..Len(down'[s]), NEW j \in 1..Len(down'[s]), i =< j
        PROVE  down'[s][i] =< down'[s][j]
    BY <1>3, <1>9, <2>1 DEF SocketInv
  <2>2. \A i \in 1..Len(down'[s]) : down'[s][i] =< lastControl
    BY <1>3, <1>9 DEF SocketInv
  <2>3. ASSUME hostState[s] = "open", down'[s] # <<>>
        PROVE  down'[s][Len(down'[s])] = lastControl
    <3>1. down[s][Len(down[s])] = lastControl
      BY <1>1, <1>3, <2>3 DEF SocketInv
    <3>2. Len(down'[s]) \in 1..Len(down'[s])
      BY <1>5, <1>6, <2>3, SeqFacts
    <3> QED
      BY <1>5, <1>6, <1>9, <3>1, <3>2
  <2> QED
    BY <1>1, <1>2, <1>3, <2>1, <2>2, <2>3 DEF SocketInv, IsLive
<1>11. 1 \in 1..Len(down[s]) /\ Head(down[s]) =< lastControl
  BY <1>3, <1>5 DEF SocketInv
<1>12. ASSUME ~page[p].early
       PROVE  /\ page[p].heard =< Head(down[s])
              /\ \A i \in 1..Len(down'[s]) : page'[p].heard =< down'[s][i]
              /\ hostState[s] = "open" /\ down'[s] = <<>> /\ page[p].listening
                   => page'[p].heard = lastControl
  <2>1. \A i \in 1..Len(down[s]) : page[p].heard =< down[s][i]
    BY <1>2, <1>3, <1>12 DEF PageInv
  <2>2. \A i \in 1..Len(down'[s]) : Head(down[s]) =< down'[s][i]
    BY <1>3, <1>5, <1>9, <1>11 DEF SocketInv
  <2>3. ASSUME hostState[s] = "open", down'[s] = <<>>
        PROVE  Head(down[s]) = lastControl
    <3>1. Tail(down[s]) = <<>>
      BY <1>6, <2>3
    <3>2. Len(Tail(down[s])) = 0
      BY <1>5, <3>1, SeqFacts
    <3>3. Len(down[s]) = 1
      BY <1>5, <3>2
    <3> QED
      BY <1>1, <1>3, <1>5, <2>3, <3>3 DEF SocketInv
  <2> QED
    BY <1>5, <1>7, <1>9, <1>11, <2>1, <2>2, <2>3
<1>13. ASSUME ~page[p].early, NEW t \in SocketsOf(p), t # s
       PROVE  ~IsLive(t) /\ down'[t] = <<>>
  BY <1>2, <1>3, <1>6, <1>13 DEF PageInv, SocketInv, SocketsOf, SameSocket
<1>14. PageInv(p)'
  <2>1. page'[p] = Loaded => ~page'[p].early
    BY DEF Loaded
  <2>2. page'[p].heard =< lastControl
    BY <1>3, <1>7, <1>11 DEF PageInv
  <2>3. ASSUME ~page[p].early, NEW t \in SocketsOf(p)
        PROVE  /\ \A i \in 1..Len(down'[t]) : page'[p].heard =< down'[t][i]
               /\ /\ IsLive(t) /\ hostState[t] = "open" /\ down'[t] = <<>> /\ page[p].listening
                  => page'[p].heard = lastControl
    <3>1. CASE t = s
      BY <1>12, <2>3, <3>1
    <3>2. CASE t # s
      <4>1. Len(down'[t]) = 0
        BY <1>13, <2>3, <3>2
      <4> QED
        BY <1>13, <2>3, <3>2, <4>1
    <3> QED
      BY <3>1, <3>2
  <2> HIDE DEF p
  <2> QED
    BY <1>1, <1>3, <1>7, <2>1, <2>2, <2>3 DEF PageInv, IsLive, SocketsOf
<1>15. IInv'
  BY <1>1, <1>6, <1>7, <1>8, <1>10, <1>14, SocketStep
<1> QED
  BY <1>12, <1>15
-----------------------------------------------------------------------------
LEMMA InitInv == Init => IInv
<1> SUFFICES ASSUME Init PROVE IInv
  OBVIOUS
<1>1. Loaded \in PageState /\ Loaded.heard = Nothing /\ ~Loaded.early /\ ~Loaded.prepared
      /\ Loaded.socket = Null /\ ~Loaded.listening
  BY DEF Loaded, PageState
<1>2. \A s \in Sockets : ready[s] \in {"unused", "closed"} /\ hostState[s] = "none" /\ down[s] = <<>>
  BY DEF Init
<1>3. TypeOK
  <2>1. down \in [Sockets -> Seq(0..MaxControls)]
    BY EmptyIsSeq DEF Init
  <2>2. ready \in [Sockets -> {"unused", "connecting", "open", "closing", "closed"}]
    BY DEF Init
  <2>3. page \in [Viewers -> PageState] /\ lastControl \in 0..MaxControls
    BY <1>1, BoundAssumption DEF Init
  <2> QED
    BY <2>1, <2>2, <2>3 DEF Init, TypeOK
<1>4. \A s \in Sockets : SocketInv(s)
  BY <1>2 DEF SocketInv, Init
<1>5. \A p \in Viewers : PageInv(p)
  <2> SUFFICES ASSUME NEW p \in Viewers PROVE PageInv(p)
    OBVIOUS
  <2>1. page[p] = Loaded /\ lastControl = 0
    BY DEF Init
  <2>2. \A s \in SocketsOf(p) : ~IsLive(s) /\ ready[s] # "closing" /\ Len(down[s]) = 0
    BY <1>2 DEF IsLive, SocketsOf
  <2>3. page[p].heard =< lastControl
    BY <1>1, <2>1 DEF Nothing
  <2>4. \A s \in SocketsOf(p) : \A i \in 1..Len(down[s]) : page[p].heard =< down[s][i]
    BY <2>2
  <2>5. ~page[p].early /\ ~page[p].prepared
    BY <1>1, <2>1
  <2> QED
    BY <2>2, <2>3, <2>4, <2>5 DEF PageInv
<1> QED
  BY <1>3, <1>4, <1>5 DEF IInv

LEMMA NextInv == IInv /\ [Next]_vars => IInv'
<1> SUFFICES ASSUME IInv, [Next]_vars PROVE IInv'
  OBVIOUS
<1>1. CASE UNCHANGED vars
  <2>1. UNCHANGED <<lastControl, subscribers, hostState, disposed, ready, down, page>>
    BY <1>1 DEF vars, host
  <2>2. TypeOK' /\ (\A s \in Sockets : SocketInv(s)') /\ (\A p \in Viewers : PageInv(p)')
    BY <2>1 DEF IInv, TypeOK, SocketInv, PageInv, IsLive, SocketsOf
  <2> QED
    BY <2>2 DEF IInv
<1>2. ASSUME NEW s \in Sockets,
             \/ HostAccepts(s) \/ HostRefuses(s) \/ HostCloses(s)
             \/ OpenEvent(s) \/ Message(s) \/ CloseEvent(s)
      PROVE  IInv'
  BY <1>2, AcceptsInv, HostEndsInv, MessageInv, CloseEventInv
<1>3. ASSUME NEW p \in Viewers,
             Start(p) \/ OnOrientation(p) \/ Unsubscribe(p) \/ Dispose(p) \/ Reload(p)
      PROVE  IInv'
  BY <1>3, StartInv, ListenersInv, DisposeInv, ReloadInv
<1> QED
  BY <1>1, <1>2, <1>3, PublishInv, CloseAllInv, MountInv DEF Next

\* IInv holds in every state of the stream.
THEOREM Invariance == Spec => []IInv
BY InitInv, NextInv, PTL DEF Spec

\* Subscribers, sockets and what the pages have heard are of their types.
THEOREM TypeCorrect == Spec => []TypeOK
<1>1. IInv => TypeOK
  BY DEF IInv
<1> QED
  BY <1>1, Invariance, PTL

\* A subscriber is sent the last control first and every one after it, so
\* that who listens in time has the Host's control of this moment:
\* ListenersAreCurrent, of #handleControlStreamConnection and broadcast.
THEOREM ListenersHearTheLatest == Spec => []ListenersAreCurrent
<1>1. ASSUME IInv, NEW p \in Viewers, NEW s \in SocketsOf(p),
             ready[s] = "open", hostState[s] = "open", down[s] = <<>>, ~page[p].early,
             page[p].listening, page[p].prepared \/ page[p].heard # Nothing
      PROVE  page[p].heard = lastControl
  BY <1>1 DEF IInv, PageInv, IsLive
<1>2. IInv => ListenersAreCurrent
  BY <1>1 DEF ListenersAreCurrent
<1> QED
  BY <1>2, Invariance, PTL

\* No listener hears an older control after a newer one, over any number of
\* lost connections and restarts: HeardInOrder, of the client's start,
\* dispose and close event.
THEOREM ControlsStayInOrder == Spec => HeardInOrder
<1>1. ASSUME IInv, Next, NEW p \in Viewers,
             page[p].listening, page'[p].listening, ~page[p].early
      PROVE  page'[p].heard >= page[p].heard
  <2>1. page \in [Viewers -> PageState] /\ page[p].heard \in Int
    BY <1>1 DEF IInv, TypeOK, PageState, Nothing
  <2>2. CASE page'[p].heard = page[p].heard
    BY <2>1, <2>2
  <2>3. ASSUME NEW s \in Sockets, Message(s)
        PROVE  page'[p].heard >= page[p].heard
    <3>1. CASE s[1] = p
      <4>1. page[p].heard =< Head(down[s]) /\ Head(down[s]) \in 0..MaxControls
        BY <1>1, <2>3, <3>1, MessageInv, TailFacts DEF Message, IInv, TypeOK
      <4>2. page'[p].heard = Head(down[s])
        BY <1>1, <2>1, <2>3, <3>1 DEF Message, Listener
      <4> QED
        BY <2>1, <4>1, <4>2
    <3>2. CASE s[1] # p
      BY <2>1, <2>3, <3>2, <2>2 DEF Message
    <3> QED
      BY <3>1, <3>2
  <2>4. ASSUME NEW q \in Viewers, Start(q)
        PROVE  page'[p].heard = page[p].heard
    BY <2>1, <2>4 DEF Start
  <2>5. ASSUME NEW q \in Viewers, OnOrientation(q) \/ Unsubscribe(q)
        PROVE  page'[p].heard = page[p].heard
    BY <1>1, <2>1, <2>5 DEF OnOrientation, Unsubscribe, Listener
  <2>6. ASSUME NEW q \in Viewers, Dispose(q)
        PROVE  page'[p].heard = page[p].heard
    BY <1>1, <2>1, <2>6 DEF Dispose, Loaded
  <2>7. ASSUME NEW q \in Viewers, Reload(q)
        PROVE  page'[p].heard = page[p].heard
    BY <1>1, <2>1, <2>7 DEF Reload, Loaded
  <2>8. ASSUME NEW s \in Sockets, CloseEvent(s)
        PROVE  page'[p].heard = page[p].heard
    BY <2>1, <2>8, NotNull DEF CloseEvent, Forgotten
  <2>9. ASSUME NEW s \in Sockets, HostAccepts(s) \/ HostRefuses(s) \/ HostCloses(s) \/ OpenEvent(s)
        PROVE  page'[p].heard = page[p].heard
    BY <2>9 DEF HostAccepts, HostRefuses, HostCloses, OpenEvent
  <2>10. ASSUME Mount PROVE page'[p].heard = page[p].heard
    BY <1>1, <2>1, <2>10 DEF Mount, Loaded
  <2>11. ASSUME Publish \/ CloseAll PROVE page'[p].heard = page[p].heard
    BY <2>11 DEF Publish, CloseAll
  <2> QED
    BY <1>1, <2>2, <2>3, <2>4, <2>5, <2>6, <2>7, <2>8, <2>9, <2>10, <2>11 DEF Next
<1>2. ASSUME IInv, UNCHANGED vars, NEW p \in Viewers
      PROVE  page'[p].heard >= page[p].heard
  BY <1>2 DEF IInv, TypeOK, PageState, Nothing, vars
<1>3. IInv /\ [Next]_vars =>
        [\A p \in Viewers :
           page[p].listening /\ page'[p].listening /\ ~page[p].early
             => page'[p].heard >= page[p].heard]_vars
  BY <1>1
<1> QED
  BY <1>3, Invariance, PTL DEF Spec, HeardInOrder
=============================================================================
