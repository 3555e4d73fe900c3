---------------------------- MODULE MCControlStream ----------------------------
(* An instance of ControlStream for TLC: a page that is started three times, *)
(* one that asks for a stream the Host does not have, and the console.       *)
EXTENDS ControlStream

CONSTANTS a, b

MCSockets == {<<a, 1>>, <<a, 2>>, <<a, 3>>, <<b, 1>>, <<Console, 1>>}
MCScenarios ==
  {{<<a, 1>>, <<a, 2>>, <<a, 3>>}, {<<a, 1>>, <<Console, 1>>}, {<<b, 1>>, <<Console, 1>>}}
MCStreamOf == [p \in Pages \cup {Console} |-> IF p = b THEN "other" ELSE "main"]
=============================================================================
