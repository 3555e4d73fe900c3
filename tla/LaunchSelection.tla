--------------------------- MODULE LaunchSelection ---------------------------
(***************************************************************************)
(* What the Host promises the operator about the launch target: abstract   *)
(* specification of the registry and the station together, without         *)
(* connections, heartbeats or time.  It knows which clients are online,    *)
(* with which experience, and which one is selected.                       *)
(***************************************************************************)
CONSTANTS Clients, Experiences, DefaultExperience, None

VARIABLES
  online,      \* the experience of each client that may be selected, or None
  selected,    \* selectedLaunchClientId
  experience   \* selectedExperienceId

avars == <<online, selected, experience>>

Select(c, x) == selected' = c /\ experience' = x

Init ==
  /\ online = [c \in Clients |-> None]
  /\ selected = None /\ experience = None

\* The operator selects an online client, or nobody.
OperatorSelects(c) == online[c] # None /\ Select(c, online[c]) /\ UNCHANGED online
OperatorClears == Select(None, None) /\ UNCHANGED online

\* The only online client of the default experience may become the selected
\* one by itself, but only where nobody is selected.
DefaultSelected ==
  \E c \in Clients :
    /\ \A d \in Clients : online'[d] = DefaultExperience <=> d = c
    /\ Select(c, DefaultExperience)

\* Clients come, go and change their experience.  The selection stays, with
\* the experience its client has now; it passes on only when the selected
\* client is not online any more.
ClientsChange ==
  /\ online' \in [Clients -> Experiences \cup {None}]
  /\ \/ /\ selected = None
        /\ UNCHANGED <<selected, experience>> \/ DefaultSelected
     \/ /\ selected # None
        /\ IF online'[selected] = None
           THEN \/ UNCHANGED <<selected, experience>>
                \/ Select(None, None)
                \/ DefaultSelected
           ELSE Select(selected, online'[selected])

\* A selection whose client is not online does not last.
OfflineDropped ==
  /\ selected # None /\ online[selected] = None
  /\ UNCHANGED online
  /\ Select(None, None) \/ DefaultSelected

Next ==
  \/ ClientsChange
  \/ \E c \in Clients : OperatorSelects(c)
  \/ OperatorClears

Spec == Init /\ [][Next]_avars
FairSpec == Spec /\ WF_avars(OfflineDropped)
=============================================================================
