------------------------- MODULE HostLifecycleProofs -------------------------
(***************************************************************************)
(* Proofs about HostLifecycle, for any number of processes, ports, other   *)
(* programs and environments.                                              *)
(*                                                                         *)
(* ProcessInv says of one process what it holds at each stage of its       *)
(* life; a step of a process leaves the others as they are (Untouched).    *)
(* That controllers stay paired relates processes: TokenInv has at most    *)
(* one of them creating the token, and none while another one relies on    *)
(* the file.                                                               *)
(***************************************************************************)
EXTENDS HostLifecycle, TLAPS

HoldsNothing(p) == ~attached[p] /\ \A s \in Servers : listening[p][s] = Null

DevicePorts(p) == ReadPort(OrDefault(env[p].devicePort, DevicePort))

ProcessInv(p) ==
  /\ stage[p] \in {"new", "loaded"} \cup Creating => HoldsNothing(p)
  /\ stage[p] = "failed" /\ env[p].host # "noUrl" => HoldsNothing(p)
  /\ listening[p]["device"] # Null =>
       stage[p] \in {"summary", "running"} \/ (stage[p] = "failed" /\ env[p].host = "noUrl")
  /\ stage[p] \in Creating => env[p].token = Null
  /\ stage[p] # "new" /\ env[p].token # Null => token[p] = env[p].token
  /\ stage[p] \in {"new"} \cup Creating => handlerToken[p] = Null
  /\ handlerToken[p] \in {Null, token[p]}
  /\ stage[p] \in {"summary", "running"} /\ ~PlainDeviceDisabled(p) =>
       listening[p]["device"] \in DevicePorts(p) \cup {fallback[p]}
  /\ listening[p]["probe"] \in EphemeralPorts \cup {Null}

\* Processes that have their token and may still use it.
Relies(p) == stage[p] \notin {"new", "ended"} \cup Creating /\ env[p].token = Null

TokenInv ==
  ~overlapped =>
    /\ \A p, q \in Processes : stage[p] \in Creating /\ stage[q] \in Creating => p = q
    /\ \A p \in Processes : stage[p] \in Creating => tokenFile = Null
    /\ \A p \in Processes : Relies(p) => tokenFile # Null /\ token[p] = tokenFile

IInv == TypeOK /\ (\A p \in Processes : ProcessInv(p)) /\ TokenInv

-----------------------------------------------------------------------------
(* Steps that leave a process alone.                                       *)

Untouched(p) ==
  /\ stage'[p] = stage[p] /\ fallback'[p] = fallback[p]
  /\ \A s \in Servers : listening'[p][s] = listening[p][s]
  /\ token'[p] = token[p] /\ handlerToken'[p] = handlerToken[p]
  /\ attached'[p] = attached[p]

LEMMA UntouchedInv ==
  ASSUME NEW p \in Processes, ProcessInv(p), Untouched(p), env' = env
  PROVE  ProcessInv(p)'
BY DEF ProcessInv, Untouched, HoldsNothing, DevicePorts, OrDefault, ReadPort,
       PlainDeviceDisabled, Servers

\* A step with which a process goes on after it has its token, or ends.
LEMMA TokenKept ==
  ASSUME TokenInv, UNCHANGED <<env, tokenFile, token, overlapped>>,
         \A p \in Processes :
           \/ stage'[p] = stage[p]
           \/ stage'[p] = "ended"
           \/ stage'[p] \notin Creating /\ stage[p] \notin {"new", "ended"} \cup Creating
  PROVE  TokenInv'
BY DEF TokenInv, Relies, Creating

LEMMA EnvironmentType ==
  ASSUME TypeOK, NEW p \in Processes
  PROVE  env[p] \in Environment
BY DEF TypeOK

-----------------------------------------------------------------------------
(* The pairing token.                                                      *)

LEMMA ReadTokenInv ==
  ASSUME IInv, NEW p \in Processes, ReadPairingToken(p)
  PROVE  IInv'
<1> USE DEF IInv
<1>1. /\ stage[p] = "new" /\ UNCHANGED tokenFile
      /\ UNCHANGED <<env, target, fallback, listening, foreign, handlerToken, attached, connected, setup>>
  BY DEF ReadPairingToken, starting, peers
<1>2. env[p] \in Environment
  BY EnvironmentType
<1>3. CASE stage' = [stage EXCEPT ![p] = "generating"]
  <2>1. /\ env[p].token = Null /\ tokenFile = Null /\ UNCHANGED token
        /\ overlapped' = (overlapped \/ \E q \in Processes : stage[q] \in Creating)
    BY <1>1, <1>3 DEF ReadPairingToken, Loaded, PersistedToken, TypeOK
  <2>2. TypeOK'
    BY <1>1, <1>3, <2>1 DEF TypeOK, Stages, Creating
  <2>3. ProcessInv(p)'
    BY <1>1, <1>3, <2>1 DEF ProcessInv, HoldsNothing, TypeOK, Creating
  <2>4. \A q \in Processes \ {p} : ProcessInv(q)'
    BY <1>1, <1>3, <2>1, UntouchedInv DEF Untouched, TypeOK
  <2>5. TokenInv'
    BY <1>1, <1>3, <2>1 DEF TokenInv, Relies, TypeOK, Creating
  <2> QED
    BY <2>2, <2>3, <2>4, <2>5
<1>4. CASE \E t \in Tokens : /\ Loaded(p, t) /\ UNCHANGED overlapped
                             /\ t = IF env[p].token # Null THEN env[p].token ELSE tokenFile
                             /\ t # Null
  <2>1. PICK t \in Tokens : /\ stage' = [stage EXCEPT ![p] = "loaded"]
                            /\ token' = [token EXCEPT ![p] = t] /\ UNCHANGED overlapped
                            /\ t = IF env[p].token # Null THEN env[p].token ELSE tokenFile
                            /\ t # Null
    BY <1>4 DEF Loaded
  <2>2. TypeOK'
    BY <1>1, <2>1 DEF TypeOK, Stages
  <2>3. ProcessInv(p)'
    BY <1>1, <2>1 DEF ProcessInv, HoldsNothing, TypeOK, Creating
  <2>4. \A q \in Processes \ {p} : ProcessInv(q)'
    BY <1>1, <2>1, UntouchedInv DEF Untouched, TypeOK
  <2>5. TokenInv'
    BY <1>1, <2>1 DEF TokenInv, Relies, TypeOK, Creating
  <2> QED
    BY <2>2, <2>3, <2>4, <2>5
<1>5. env[p].token \in ConfiguredTokens \cup {Null} /\ tokenFile \in Processes \cup {Null}
  BY <1>2 DEF Environment, TypeOK
<1> QED
  BY <1>3, <1>4, <1>5 DEF ReadPairingToken, PersistedToken, Tokens

LEMMA OpenFileInv ==
  ASSUME IInv, NEW p \in Processes, OpenTokenFile(p)
  PROVE  IInv'
<1> USE DEF IInv
<1>1. /\ stage[p] = "generating" /\ stage' = [stage EXCEPT ![p] = "writing"] /\ tokenFile' = Null
      /\ UNCHANGED <<env, target, fallback, listening, foreign, token, handlerToken, overlapped,
                     attached, connected, setup>>
  BY DEF OpenTokenFile, starting, peers
<1>2. TypeOK'
  BY <1>1 DEF TypeOK, Stages, Creating
<1>3. ProcessInv(p)'
  BY <1>1 DEF ProcessInv, HoldsNothing, TypeOK, Creating
<1>4. \A q \in Processes \ {p} : ProcessInv(q)'
  BY <1>1, UntouchedInv DEF Untouched, TypeOK
<1>5. TokenInv'
  BY <1>1 DEF TokenInv, Relies, TypeOK, Creating
<1> QED
  BY <1>2, <1>3, <1>4, <1>5

LEMMA WriteTokenInv ==
  ASSUME IInv, NEW p \in Processes, WritePersistedToken(p)
  PROVE  IInv'
<1> USE DEF IInv
<1>1. /\ stage[p] = "writing" /\ stage' = [stage EXCEPT ![p] = "loaded"]
      /\ tokenFile' = p /\ token' = [token EXCEPT ![p] = p]
      /\ UNCHANGED <<env, target, fallback, listening, foreign, handlerToken, overlapped,
                     attached, connected, setup>>
  BY DEF WritePersistedToken, Loaded, starting, peers
<1>2. TypeOK'
  BY <1>1 DEF TypeOK, Stages, Tokens
<1>3. ProcessInv(p)'
  BY <1>1 DEF ProcessInv, HoldsNothing, TypeOK, Creating
<1>4. \A q \in Processes \ {p} : ProcessInv(q)'
  BY <1>1, UntouchedInv DEF Untouched, TypeOK
<1>5. TokenInv'
  BY <1>1, NamesAssumption DEF TokenInv, Relies, TypeOK, Creating
<1> QED
  BY <1>2, <1>3, <1>4, <1>5

\* The bundle gets the token that the gateway has.
LEMMA LoadModuleInv ==
  ASSUME IInv, NEW p \in Processes, LoadHandlerModule(p)
  PROVE  IInv'
<1> USE DEF IInv
<1>1. /\ attached[p] /\ handlerToken' = [handlerToken EXCEPT ![p] = SharedToken(p)]
      /\ UNCHANGED <<env, stage, target, fallback, listening, foreign, tokenFile, token, overlapped,
                     attached, connected, setup>>
  BY DEF LoadHandlerModule, Serves, starting, peers
<1>2. SharedToken(p) = token[p]
  BY <1>1 DEF SharedToken, ProcessInv, HoldsNothing
<1>3. TypeOK'
  BY <1>1, <1>2 DEF TypeOK
<1>4. ProcessInv(p)'
  BY <1>1, <1>2 DEF ProcessInv, HoldsNothing, TypeOK, DevicePorts, OrDefault, ReadPort, PlainDeviceDisabled
<1>5. \A q \in Processes \ {p} : ProcessInv(q)'
  BY <1>1, UntouchedInv DEF Untouched, TypeOK
<1>6. TokenInv'
  BY <1>1, TokenKept
<1> QED
  BY <1>3, <1>4, <1>5, <1>6
-----------------------------------------------------------------------------
(* The steps of a process that has its token.                              *)

Goes(p) ==
  /\ UNCHANGED <<env, tokenFile, token, handlerToken, overlapped>>
  /\ stage[p] \notin {"new", "ended"} \cup Creating
  /\ stage'[p] \notin {"new"} \cup Creating
  /\ \A q \in Processes \ {p} : Untouched(q)

LEMMA OwnStep ==
  ASSUME IInv, NEW p \in Processes, Goes(p), TypeOK', ProcessInv(p)'
  PROVE  IInv'
<1>1. \A q \in Processes \ {p} : ProcessInv(q)'
  BY UntouchedInv DEF IInv, Goes
<1>2. TokenInv'
  BY TokenKept DEF IInv, Goes, Untouched
<1> QED
  BY <1>1, <1>2 DEF IInv

LEMMA DisposeType ==
  ASSUME TypeOK, NEW p \in Processes, DisposeGateway(p)
  PROVE  /\ attached' = [attached EXCEPT ![p] = FALSE]
         /\ connected' \in [Controllers \cup Browsers -> Processes \cup {Null}]
BY DEF TypeOK, DisposeGateway

LEMMA FailInv ==
  ASSUME IInv, NEW p \in Processes, stage[p] \in Opening,
         stage[p] = "summary" => env[p].host = "noUrl", Fail(p), Unaffected
  PROVE  IInv'
<1> USE DEF IInv
<1>1. /\ stage' = [stage EXCEPT ![p] = "failed"] /\ AfterFailure(p) = listening'
      /\ attached' = [attached EXCEPT ![p] = FALSE]
      /\ connected' \in [Controllers \cup Browsers -> Processes \cup {Null}]
      /\ UNCHANGED <<env, foreign, tokenFile, token, handlerToken, overlapped, setup, target, fallback>>
  BY DisposeType DEF Fail, Unaffected, starting, secrets
<1>2. Goes(p)
  BY <1>1 DEF Goes, Untouched, TypeOK, Opening, Creating, AfterFailure
<1>3. listening'[p] = [s \in Servers |-> IF s = "device" THEN listening[p][s] ELSE Null]
  BY <1>1 DEF TypeOK, AfterFailure
<1>4. TypeOK'
  <2>1. listening' \in [Processes -> [Servers -> Ports \cup {Null}]]
    BY <1>1 DEF TypeOK, AfterFailure
  <2> QED
    BY <1>1, <2>1 DEF TypeOK, Stages
<1>5. ProcessInv(p)'
  BY <1>1, <1>3 DEF ProcessInv, HoldsNothing, TypeOK, Opening, Creating, Servers
<1> QED
  BY <1>2, <1>4, <1>5, OwnStep

LEMMA StartInv ==
  ASSUME IInv, NEW p \in Processes, Start(p)
  PROVE  IInv'
<1> USE DEF IInv
<1>1. /\ stage[p] = "loaded"
      /\ \/ /\ stage' = [stage EXCEPT ![p] = "listening"]
            /\ attached' = [attached EXCEPT ![p] = TRUE]
         \/ /\ stage' = [stage EXCEPT ![p] = "failed"]
            /\ UNCHANGED attached
      /\ UNCHANGED <<env, foreign, tokenFile, token, handlerToken, overlapped, setup, target, fallback,
                     listening, connected>>
  BY DEF Start, Unaffected, starting, secrets
<1>2. Goes(p)
  BY <1>1 DEF Goes, Untouched, TypeOK, Creating
<1>3. TypeOK'
  BY <1>1 DEF TypeOK, Stages, Opening
<1>4. ProcessInv(p)'
  BY <1>1 DEF ProcessInv, HoldsNothing, TypeOK, Creating, Servers
<1> QED
  BY <1>2, <1>3, <1>4, OwnStep

LEMMA ListenedInv ==
  ASSUME IInv, NEW p \in Processes, NEW q \in Ports \cup {Null},
         stage[p] \in {"listening", "fallback"}, q \in Preferred(p) \cup {fallback[p]},
         Listened(p, q), Unaffected
  PROVE  IInv'
<1> USE DEF IInv
<1>1. UNCHANGED <<env, foreign, tokenFile, token, handlerToken, overlapped, setup>>
  BY DEF Unaffected, secrets
<1>2. CASE target[p] = "device" \/ PlainDeviceDisabled(p)
  <2>1. /\ listening' = [listening EXCEPT ![p][target[p]] = q]
        /\ stage' = [stage EXCEPT ![p] = "summary"]
        /\ UNCHANGED <<target, fallback, attached, connected>>
    BY <1>2 DEF Listened, starting
  <2>2. Goes(p)
    BY <1>1, <2>1 DEF Goes, Untouched, TypeOK, Creating
  <2>3. target[p] \in {"host", "device"}
    BY DEF TypeOK
  <2>4. TypeOK'
    <3>1. listening' \in [Processes -> [Servers -> Ports \cup {Null}]]
      BY <2>1 DEF TypeOK, Servers
    <3> QED
      BY <1>1, <2>1, <3>1 DEF TypeOK, Stages, Opening
  <2>5. /\ listening'[p]["probe"] = listening[p]["probe"]
        /\ target[p] = "device" => listening'[p]["device"] = q
    BY <2>1, <2>3 DEF TypeOK, Servers
  <2>6. target[p] = "device" => q \in DevicePorts(p) \cup {fallback[p]}
    BY DEF Preferred, PlainDevicePort, DevicePorts
  <2>7. ProcessInv(p)'
    BY <1>1, <1>2, <2>1, <2>5, <2>6
    DEF ProcessInv, TypeOK, Creating, DevicePorts, PlainDeviceDisabled, ReadPort, OrDefault
  <2> QED
    BY <2>2, <2>4, <2>7, OwnStep
<1>3. CASE ~(target[p] = "device" \/ PlainDeviceDisabled(p)) /\ PlainDevicePort(p, q) = {}
  BY <1>3, FailInv DEF Listened, Opening
<1>4. CASE ~(target[p] = "device" \/ PlainDeviceDisabled(p)) /\ PlainDevicePort(p, q) # {}
  <2>1. /\ listening' = [listening EXCEPT ![p]["host"] = q]
        /\ stage' = [stage EXCEPT ![p] = "listening"]
        /\ target' = [target EXCEPT ![p] = "device"]
        /\ UNCHANGED <<fallback, attached, connected>>
    BY <1>4 DEF Listened
  <2>2. Goes(p)
    BY <1>1, <2>1 DEF Goes, Untouched, TypeOK, Creating
  <2>3. TypeOK'
    <3>1. listening' \in [Processes -> [Servers -> Ports \cup {Null}]]
      BY <2>1 DEF TypeOK, Servers
    <3> QED
      BY <1>1, <2>1, <3>1 DEF TypeOK, Stages, Opening
  <2>4. /\ listening'[p]["probe"] = listening[p]["probe"]
        /\ listening'[p]["device"] = listening[p]["device"]
    BY <2>1 DEF TypeOK, Servers
  <2>5. ProcessInv(p)'
    BY <1>1, <2>1, <2>4 DEF ProcessInv, TypeOK, Creating
  <2> QED
    BY <2>2, <2>3, <2>5, OwnStep
<1> QED
  BY <1>2, <1>3, <1>4
-----------------------------------------------------------------------------
(* Opening the ports.                                                      *)

LEMMA PreferredPorts ==
  ASSUME NEW p \in Processes
  PROVE  Preferred(p) \subseteq Ports
BY DEF Preferred, RequestedPort, PlainDevicePort, ReadPort

LEMMA ListenPreferredInv ==
  ASSUME IInv, NEW p \in Processes, ListenOnPreferredPort(p)
  PROVE  IInv'
<1> USE DEF IInv
<1>1. /\ stage[p] = "listening" /\ Unaffected
      /\ \E q \in Preferred(p) :
           \/ Fail(p)
           \/ Listened(p, q)
           \/ /\ stage' = [stage EXCEPT ![p] = "probing"]
              /\ UNCHANGED <<target, fallback, listening, attached, connected>>
  BY DEF ListenOnPreferredPort, starting
<1>2. CASE Fail(p)
  BY <1>1, <1>2, FailInv DEF Opening
<1>3. CASE \E q \in Preferred(p) : Listened(p, q)
  BY <1>1, <1>3, ListenedInv, PreferredPorts
<1>4. CASE /\ stage' = [stage EXCEPT ![p] = "probing"]
           /\ UNCHANGED <<target, fallback, listening, attached, connected>>
  <2>1. UNCHANGED <<env, foreign, tokenFile, token, handlerToken, overlapped, setup>>
    BY <1>1 DEF Unaffected, secrets
  <2>2. Goes(p)
    BY <1>1, <1>4, <2>1 DEF Goes, Untouched, TypeOK, Creating
  <2>3. TypeOK'
    BY <1>4, <2>1 DEF TypeOK, Stages, Opening
  <2>4. ProcessInv(p)'
    BY <1>1, <1>4, <2>1 DEF ProcessInv, TypeOK, Creating
  <2> QED
    BY <2>2, <2>3, <2>4, OwnStep
<1> QED
  BY <1>1, <1>2, <1>3, <1>4

LEMMA FindFreePortInv ==
  ASSUME IInv, NEW p \in Processes, FindFreePort(p)
  PROVE  IInv'
<1> USE DEF IInv
<1>1. /\ stage[p] = "probing" /\ Unaffected
      /\ \/ \E q \in EphemeralPorts :
              /\ listening' = [listening EXCEPT ![p]["probe"] = q]
              /\ stage' = [stage EXCEPT ![p] = "probed"]
              /\ UNCHANGED <<target, fallback, attached, connected>>
         \/ Fail(p)
  BY DEF FindFreePort, starting
<1>2. CASE Fail(p)
  BY <1>1, <1>2, FailInv DEF Opening
<1>3. ASSUME NEW q \in EphemeralPorts,
             listening' = [listening EXCEPT ![p]["probe"] = q],
             stage' = [stage EXCEPT ![p] = "probed"],
             UNCHANGED <<target, fallback, attached, connected>>
      PROVE  IInv'
  <2>1. UNCHANGED <<env, foreign, tokenFile, token, handlerToken, overlapped, setup>>
    BY <1>1 DEF Unaffected, secrets
  <2>2. Goes(p)
    BY <1>1, <1>3, <2>1 DEF Goes, Untouched, TypeOK, Creating
  <2>3. q \in Ports
    BY PortAssumption
  <2>4. listening' \in [Processes -> [Servers -> Ports \cup {Null}]]
    BY <1>3, <2>3 DEF TypeOK, Servers
  <2>5. TypeOK'
    BY <1>3, <2>1, <2>4 DEF TypeOK, Stages, Opening
  <2>6. listening'[p]["probe"] = q /\ listening'[p]["device"] = listening[p]["device"]
    BY <1>3 DEF TypeOK, Servers
  <2>7. ProcessInv(p)'
    BY <1>1, <1>3, <2>1, <2>6 DEF ProcessInv, TypeOK, Creating
  <2> QED
    BY <2>2, <2>5, <2>7, OwnStep
<1> QED
  BY <1>1, <1>2, <1>3

LEMMA AskInv ==
  ASSUME IInv, NEW p \in Processes, AskUseFallbackPort(p)
  PROVE  IInv'
<1> USE DEF IInv
<1>1. /\ stage[p] = "probed" /\ Unaffected
      /\ \/ /\ stage' = [stage EXCEPT ![p] = "asking"]
            /\ fallback' = [fallback EXCEPT ![p] = listening[p]["probe"]]
            /\ listening' = [listening EXCEPT ![p]["probe"] = Null]
            /\ UNCHANGED <<target, attached, connected>>
         \/ Fail(p)
  BY DEF AskUseFallbackPort
<1>2. CASE Fail(p)
  BY <1>1, <1>2, FailInv DEF Opening
<1>3. CASE /\ stage' = [stage EXCEPT ![p] = "asking"]
           /\ fallback' = [fallback EXCEPT ![p] = listening[p]["probe"]]
           /\ listening' = [listening EXCEPT ![p]["probe"] = Null]
           /\ UNCHANGED <<target, attached, connected>>
  <2>1. UNCHANGED <<env, foreign, tokenFile, token, handlerToken, overlapped, setup>>
    BY <1>1 DEF Unaffected, secrets
  <2>2. Goes(p)
    BY <1>1, <1>3, <2>1 DEF Goes, Untouched, TypeOK, Creating
  <2>3. listening[p]["probe"] \in EphemeralPorts \cup {Null}
    BY DEF ProcessInv
  <2>4. /\ listening' \in [Processes -> [Servers -> Ports \cup {Null}]]
        /\ fallback' \in [Processes -> EphemeralPorts \cup {Null}]
    BY <1>3, <2>3 DEF TypeOK, Servers
  <2>5. TypeOK'
    BY <1>3, <2>1, <2>4 DEF TypeOK, Stages, Opening
  <2>6. listening'[p]["probe"] = Null /\ listening'[p]["device"] = listening[p]["device"]
    BY <1>3 DEF TypeOK, Servers
  <2>7. ProcessInv(p)'
    BY <1>1, <1>3, <2>1, <2>6 DEF ProcessInv, TypeOK, Creating
  <2> QED
    BY <2>2, <2>5, <2>7, OwnStep
<1> QED
  BY <1>1, <1>2, <1>3

LEMMA AnswerInv ==
  ASSUME IInv, NEW p \in Processes, OperatorAnswers(p)
  PROVE  IInv'
<1> USE DEF IInv
<1>1. /\ stage[p] = "asking" /\ Unaffected
      /\ \/ /\ stage' = [stage EXCEPT ![p] = "fallback"]
            /\ UNCHANGED <<target, fallback, listening, attached, connected>>
         \/ Fail(p)
  BY DEF OperatorAnswers, starting
<1>2. CASE Fail(p)
  BY <1>1, <1>2, FailInv DEF Opening
<1>3. CASE /\ stage' = [stage EXCEPT ![p] = "fallback"]
           /\ UNCHANGED <<target, fallback, listening, attached, connected>>
  <2>1. UNCHANGED <<env, foreign, tokenFile, token, handlerToken, overlapped, setup>>
    BY <1>1 DEF Unaffected, secrets
  <2>2. Goes(p)
    BY <1>1, <1>3, <2>1 DEF Goes, Untouched, TypeOK, Creating
  <2>3. TypeOK'
    BY <1>3, <2>1 DEF TypeOK, Stages, Opening
  <2>4. ProcessInv(p)'
    BY <1>1, <1>3, <2>1 DEF ProcessInv, TypeOK, Creating
  <2> QED
    BY <2>2, <2>3, <2>4, OwnStep
<1> QED
  BY <1>1, <1>2, <1>3

LEMMA ListenFallbackInv ==
  ASSUME IInv, NEW p \in Processes, ListenOnFallbackPort(p)
  PROVE  IInv'
<1> USE DEF IInv
<1>1. stage[p] = "fallback" /\ Unaffected /\ (Listened(p, fallback[p]) \/ Fail(p))
  BY DEF ListenOnFallbackPort
<1>2. fallback[p] \in Ports \cup {Null}
  BY PortAssumption DEF TypeOK
<1> QED
  BY <1>1, <1>2, ListenedInv, FailInv DEF Opening

LEMMA SummaryInv ==
  ASSUME IInv, NEW p \in Processes, PrintStartupSummary(p)
  PROVE  IInv'
<1> USE DEF IInv
<1>1. /\ stage[p] = "summary" /\ Unaffected
      /\ \/ /\ stage' = [stage EXCEPT ![p] = "running"]
            /\ UNCHANGED <<target, fallback, listening, attached, connected>>
         \/ env[p].host = "noUrl" /\ Fail(p)
  BY DEF PrintStartupSummary, starting
<1>2. CASE env[p].host = "noUrl" /\ Fail(p)
  BY <1>1, <1>2, FailInv DEF Opening
<1>3. CASE /\ stage' = [stage EXCEPT ![p] = "running"]
           /\ UNCHANGED <<target, fallback, listening, attached, connected>>
  <2>1. UNCHANGED <<env, foreign, tokenFile, token, handlerToken, overlapped, setup>>
    BY <1>1 DEF Unaffected, secrets
  <2>2. Goes(p)
    BY <1>1, <1>3, <2>1 DEF Goes, Untouched, TypeOK, Creating
  <2>3. TypeOK'
    BY <1>3, <2>1 DEF TypeOK, Stages, Opening
  <2>4. ProcessInv(p)'
    BY <1>1, <1>3, <2>1
    DEF ProcessInv, TypeOK, Creating, DevicePorts, PlainDeviceDisabled, ReadPort, OrDefault
  <2> QED
    BY <2>2, <2>3, <2>4, OwnStep
<1> QED
  BY <1>1, <1>2, <1>3
-----------------------------------------------------------------------------
(* The end of a process, connections and other programs.                   *)

LEMMA NoServerType ==
  ASSUME TypeOK, NEW p \in Processes, listening' = NoServer(p)
  PROVE  /\ listening' \in [Processes -> [Servers -> Ports \cup {Null}]]
         /\ listening'[p]["device"] = Null /\ listening'[p]["probe"] = Null
         /\ \A s \in Servers : listening'[p][s] = Null
BY DEF TypeOK, NoServer, Servers

LEMMA StopInv ==
  ASSUME IInv, NEW p \in Processes, Stop(p)
  PROVE  IInv'
<1> USE DEF IInv
<1>1. /\ stage[p] = "running" /\ stage' = [stage EXCEPT ![p] = "stopped"]
      /\ listening' = NoServer(p) /\ DisposeGateway(p)
      /\ UNCHANGED <<env, foreign, tokenFile, token, handlerToken, overlapped, setup, target, fallback>>
  BY DEF Stop, Unaffected, starting, secrets
<1>2. Goes(p)
  BY <1>1 DEF Goes, Untouched, TypeOK, Creating, NoServer, DisposeGateway
<1>3. TypeOK'
  BY <1>1, NoServerType, DisposeType DEF TypeOK, Stages
<1>4. ProcessInv(p)'
  BY <1>1, NoServerType DEF ProcessInv, TypeOK, Creating
<1> QED
  BY <1>2, <1>3, <1>4, OwnStep

LEMMA ExitInv ==
  ASSUME IInv, NEW p \in Processes, Exit(p)
  PROVE  IInv'
<1> USE DEF IInv
<1>1. /\ stage[p] \in {"failed", "stopped"} /\ stage' = [stage EXCEPT ![p] = "ended"]
      /\ \A s \in Servers : listening[p][s] = Null
      /\ UNCHANGED <<env, foreign, tokenFile, token, handlerToken, overlapped, setup, target, fallback,
                     listening, attached, connected>>
  BY DEF Exit, IsIdle, Unaffected, starting, secrets
<1>2. Goes(p)
  BY <1>1 DEF Goes, Untouched, TypeOK, Creating
<1>3. TypeOK'
  BY <1>1 DEF TypeOK, Stages
<1>4. ProcessInv(p)'
  BY <1>1 DEF ProcessInv, TypeOK, Creating, Servers
<1> QED
  BY <1>2, <1>3, <1>4, OwnStep

\* A process may be killed while it creates the token, too.
LEMMA KilledInv ==
  ASSUME IInv, NEW p \in Processes, Killed(p)
  PROVE  IInv'
<1> USE DEF IInv
<1>1. /\ stage[p] \notin {"new", "ended"} /\ stage' = [stage EXCEPT ![p] = "ended"]
      /\ listening' = NoServer(p) /\ attached' = [attached EXCEPT ![p] = FALSE]
      /\ connected' = [x \in DOMAIN connected |-> IF connected[x] = p THEN Null ELSE connected[x]]
      /\ UNCHANGED <<env, foreign, tokenFile, token, handlerToken, overlapped, setup, target, fallback>>
  BY DEF Killed, Unaffected, starting, secrets
<1>2. \A q \in Processes \ {p} : ProcessInv(q)'
  BY <1>1, UntouchedInv DEF Untouched, TypeOK, NoServer
<1>3. TypeOK'
  <2>1. connected' \in [Controllers \cup Browsers -> Processes \cup {Null}]
    BY <1>1 DEF TypeOK
  <2> QED
    BY <1>1, <2>1, NoServerType DEF TypeOK, Stages
<1>4. ProcessInv(p)'
  BY <1>1, NoServerType DEF ProcessInv, TypeOK, Creating
<1>5. TokenInv'
  BY <1>1, TokenKept DEF TypeOK
<1> QED
  BY <1>2, <1>3, <1>4, <1>5

\* Steps that change neither a process nor the token.
LEMMA PeerStep ==
  ASSUME IInv, TypeOK',
         UNCHANGED <<env, stage, fallback, listening, tokenFile, token, handlerToken, overlapped,
                     attached>>
  PROVE  IInv'
<1>1. \A p \in Processes : ProcessInv(p)'
  BY UntouchedInv DEF IInv, Untouched
<1>2. TokenInv'
  BY TokenKept DEF IInv
<1> QED
  BY <1>1, <1>2 DEF IInv

LEMMA PairInv ==
  ASSUME IInv, NEW p \in Processes, NEW c \in Controllers, Pair(p, c)
  PROVE  IInv'
<1> USE DEF IInv
<1>1. PICK q \in PairingPort(p) :
         setup' = [setup EXCEPT ![c] = [port |-> q, token |-> handlerToken[p]]]
  BY DEF Pair
<1>2. /\ connected' = [connected EXCEPT ![c] = Null]
      /\ UNCHANGED <<env, stage, target, fallback, listening, foreign, tokenFile, token, handlerToken,
                     overlapped, attached>>
  BY DEF Pair, starting, secrets
<1>3. q \in Ports \cup {Proxy, Null, "other"}
  <2>1. env[p].devicePort \in PortTexts /\ DevicePort \in Ports
    BY EnvironmentType, PortAssumption DEF Environment
  <2> QED
    BY <1>1, <2>1 DEF PairingPort, PortTexts
<1>4. setup' \in [Controllers -> [port: Ports \cup {Proxy, Null, "other"}, token: Tokens \cup {Null}]]
  <2>1. [port |-> q, token |-> handlerToken[p]]
          \in [port: Ports \cup {Proxy, Null, "other"}, token: Tokens \cup {Null}]
    BY <1>3 DEF TypeOK
  <2> QED
    BY <1>1, <2>1 DEF TypeOK
<1>5. TypeOK'
  BY <1>2, <1>4 DEF TypeOK
<1> QED
  BY <1>2, <1>5, PeerStep

LEMMA PeerInv ==
  ASSUME IInv,
         \/ \E c \in Controllers : ControllerConnects(c)
         \/ \E b \in Browsers, path \in {"runtime", "control", "device", "other"} :
              BrowserConnects(b, path)
         \/ \E x \in Controllers \cup Browsers : ConnectionLost(x)
         \/ \E q \in ForeignPorts : ForeignChanges(q)
  PROVE  IInv'
<1> USE DEF IInv
<1>1. /\ UNCHANGED <<env, stage, target, fallback, listening, tokenFile, token, handlerToken, overlapped,
                     attached, setup>>
      /\ \/ /\ UNCHANGED foreign
            /\ \E x \in Controllers \cup Browsers, p \in Processes \cup {Null} :
                 connected' = [connected EXCEPT ![x] = p]
         \/ UNCHANGED connected /\ foreign' \subseteq ForeignPorts
  <2>1. CASE \E c \in Controllers : ControllerConnects(c)
    BY <2>1 DEF ControllerConnects, starting, secrets
  <2>2. CASE \E b \in Browsers, path \in {"runtime", "control", "device", "other"} :
               BrowserConnects(b, path)
    BY <2>2 DEF BrowserConnects, starting, secrets
  <2>3. CASE \E x \in Controllers \cup Browsers : ConnectionLost(x)
    BY <2>3 DEF ConnectionLost, starting, secrets
  <2>4. CASE \E q \in ForeignPorts : ForeignChanges(q)
    BY <2>4 DEF ForeignChanges, starting, secrets, peers, TypeOK
  <2> QED
    BY <2>1, <2>2, <2>3, <2>4
<1>2. TypeOK'
  BY <1>1 DEF TypeOK
<1> QED
  BY <1>1, <1>2, PeerStep

-----------------------------------------------------------------------------
LEMMA InitInv == Init => IInv
<1> SUFFICES ASSUME Init PROVE IInv
  OBVIOUS
<1>1. TypeOK
  <2>1. env \in [Processes -> Environment]
    BY ScenarioAssumption DEF Init
  <2>2. NoSetup \in [port: Ports \cup {Proxy, Null, "other"}, token: Tokens \cup {Null}]
    BY DEF NoSetup
  <2> QED
    BY <2>1, <2>2 DEF Init, TypeOK, Stages
<1>2. \A p \in Processes : ProcessInv(p)
  BY DEF Init, ProcessInv, HoldsNothing, Servers, Creating
<1>3. TokenInv
  BY DEF Init, TokenInv, Relies, Creating
<1> QED
  BY <1>1, <1>2, <1>3 DEF IInv

LEMMA NextInv == IInv /\ [Next]_vars => IInv'
<1> SUFFICES ASSUME IInv, [Next]_vars PROVE IInv'
  OBVIOUS
<1>1. CASE UNCHANGED vars
  <2>1. UNCHANGED <<env, stage, target, fallback, listening, foreign, tokenFile, token, handlerToken,
                    overlapped, attached, connected, setup>>
    BY <1>1 DEF vars, starting, secrets, peers
  <2>2. TypeOK'
    BY <2>1 DEF IInv, TypeOK
  <2> QED
    BY <2>1, <2>2, PeerStep
<1>2. ASSUME NEW p \in Processes, StartStep(p)
      PROVE  IInv'
  BY <1>2, ReadTokenInv, OpenFileInv, WriteTokenInv, StartInv, ListenPreferredInv, FindFreePortInv,
     AskInv, AnswerInv, ListenFallbackInv, SummaryInv DEF StartStep
<1>3. ASSUME NEW p \in Processes,
             \/ LoadHandlerModule(p) \/ Stop(p) \/ Exit(p) \/ Killed(p)
             \/ \E c \in Controllers : Pair(p, c)
      PROVE  IInv'
  BY <1>3, LoadModuleInv, StopInv, ExitInv, KilledInv, PairInv
<1> QED
  BY <1>1, <1>2, <1>3, PeerInv DEF Next

\* IInv holds in every state a Host process, or several, can be in.
THEOREM Invariance == Spec => []IInv
BY InitInv, NextInv, PTL DEF Spec

\* The ports, stages and tokens of the processes, and what the controllers
\* are configured with, are of their types.
THEOREM TypeCorrect == Spec => []TypeOK
<1>1. IInv => TypeOK
  BY DEF IInv
<1> QED
  BY <1>1, Invariance, PTL

\* A failed start closes what the start has opened: FailedStartsHoldNothing,
\* of the catch in startHostServer and of the probe in findFreePort.
THEOREM FailedStartsReleasePorts == Spec => []FailedStartsHoldNothing
<1>1. IInv => FailedStartsHoldNothing
  BY DEF IInv, ProcessInv, HoldsNothing, FailedStartsHoldNothing
<1> QED
  BY <1>1, Invariance, PTL

\* Every running Host accepts the token of the file: PairingSurvivesRestart,
\* of readSharedPairingToken and the file it keeps.
THEOREM RestartedHostsAgree == Spec => []PairingSurvivesRestart
<1>1. IInv => PairingSurvivesRestart
  BY DEF IInv, TokenInv, Relies, Creating, PairingSurvivesRestart
<1> QED
  BY <1>1, Invariance, PTL

\* Token and address the console hands out are those of the Host itself:
\* HandedOutAddressIsOwn, of the two readers of the environment and of the
\* token that the bundle shares with the gateway.
THEOREM HandedOutAddressFits == Spec => []HandedOutAddressIsOwn
<1>1. ASSUME IInv, NEW p \in Processes, stage[p] = "running", NEW q \in PairingPort(p), q # Proxy
      PROVE  listening[p]["device"] \in {q, fallback[p]}
  <2>1. ~env[p].origin /\ env[p].devicePort # "none"
    BY <1>1 DEF PairingPort
  <2>2. listening[p]["device"] \in DevicePorts(p) \cup {fallback[p]}
    BY <1>1, <2>1 DEF IInv, ProcessInv, PlainDeviceDisabled
  <2>3. DevicePorts(p) \subseteq {q}
    BY <1>1, <2>1, NamesAssumption DEF DevicePorts, ReadPort, OrDefault, PairingPort
  <2> QED
    BY <2>2, <2>3
<1>2. IInv => HandedOutAddressIsOwn
  BY <1>1 DEF IInv, ProcessInv, HandedOutAddressIsOwn
<1> QED
  BY <1>2, Invariance, PTL
=============================================================================
