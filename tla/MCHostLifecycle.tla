--------------------------- MODULE MCHostLifecycle ---------------------------
(* An instance of HostLifecycle for TLC: two Host processes, the second one  *)
(* the restart of the first or started next to it.                           *)
EXTENDS HostLifecycle

CONSTANTS p1, p2, freePort

Plain == [installed |-> TRUE, tty |-> TRUE, port |-> "unset", devicePort |-> "unset",
          origin |-> FALSE, token |-> Null, host |-> "url"]
Twice(e) == [p \in Processes |-> e]
Then(e) == [p \in Processes |-> IF p = p1 THEN Plain ELSE e]

MCScenarios ==
  {Twice(Plain),
   Then([Plain EXCEPT !.port = "empty"]),
   Then([Plain EXCEPT !.installed = FALSE]),
   Then([Plain EXCEPT !.port = freePort, !.devicePort = "none"]),
   Then([Plain EXCEPT !.port = freePort, !.devicePort = freePort]),
   Then([Plain EXCEPT !.port = DevicePort, !.tty = FALSE]),
   Then([Plain EXCEPT !.devicePort = "empty"]),
   Then([Plain EXCEPT !.host = "noUrl"]),
   Then([Plain EXCEPT !.host = "notLocal"]),
   Twice([Plain EXCEPT !.origin = TRUE, !.tty = FALSE]),
   Twice([Plain EXCEPT !.devicePort = HostPort, !.tty = FALSE]),
   Then([Plain EXCEPT !.token = "configured", !.tty = FALSE])}
=============================================================================
