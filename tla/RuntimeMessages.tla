--------------------------- MODULE RuntimeMessages ---------------------------
(***************************************************************************)
(* What protocol/validators.ts, _console/runtime-messages.ts and the       *)
(* gateway's readRuntimeClientMessage make of the JSON they receive.       *)
(*                                                                         *)
(* A JSON value is a record of its kind and, for a string, its text        *)
(* without surrounding blanks and whether it had any.  A reader yields the *)
(* set of the values it accepts: one, as it hands it on, or none.  A       *)
(* payload is then accepted exactly if all of its fields are: the set of   *)
(* records over the readers' results is empty as soon as one of them is.   *)
(***************************************************************************)
EXTENDS Integers

CONSTANTS
  Texts,      \* the trimmed strings in use, Empty among them
  Empty,      \* the empty string
  Slugs,      \* the texts that isNonEmptySlug matches
  HttpsUrls,  \* the texts that parse as an https URL
  Null        \* JSON null

ASSUME TextAssumption == Empty \in Texts /\ Slugs \cup HttpsUrls \subseteq Texts \ {Empty}
ASSUME NullAssumption == Null \notin Texts

JsonString == [kind: {"string"}, text: Texts, padded: BOOLEAN]
Str(t) == [kind |-> "string", text |-> t, padded |-> FALSE]
Absent == [kind |-> "undefined"]
JsonNull == [kind |-> "null"]
JsonValues == JsonString \cup {Absent, JsonNull, [kind |-> "other"]}

ReadString(v) == IF v.kind = "string" THEN {v.text} \ {Empty} ELSE {}

\* A slug is not trimmed: one with blanks around it is none.
ReadSlug(v) == IF v.kind = "string" /\ ~v.padded THEN {v.text} \cap Slugs ELSE {}

\* The URL parser drops surrounding blanks itself.
ReadHttpsUrl(v) == IF v.kind = "string" THEN {v.text} \cap HttpsUrls ELSE {}

ReadOptionalString(v) ==
  CASE v.kind = "undefined" -> {Empty}
    [] v.kind = "string" -> {v.text}
    [] OTHER -> {}

NeverNull(v) == ReadString(v)   \* MUTANT of ReadNullableString
ReadNullableString(v) == IF v.kind = "null" THEN {Null} ELSE ReadString(v)
ReadNullableSlug(v) == IF v.kind = "null" THEN {Null} ELSE ReadSlug(v)
-----------------------------------------------------------------------------
(* From the browser to the Host.                                           *)

ValidateClientHello(payload) ==
  [clientId: ReadString(payload.clientId),
   experienceId: ReadSlug(payload.experienceId),
   title: ReadString(payload.title),
   url: ReadHttpsUrl(payload.url),
   userAgent: ReadOptionalString(payload.userAgent)]

\* MUTANT of ValidateClientHeartbeat: the clientId has to be a slug.
SlugHeartbeat(payload) == [clientId: ReadSlug(payload.clientId)]
ValidateClientHeartbeat(payload) == [clientId: ReadString(payload.clientId)]

(* From the Host to the browser.                                           *)

ValidateClientRegistered(payload) ==
  [clientId: ReadString(payload.clientId),
   selectedForLaunch: {payload.selectedForLaunch} \cap BOOLEAN,
   selectedLaunchClientId: ReadNullableString(payload.selectedLaunchClientId)]

ValidateStationState(payload) ==
  [selectedExperienceId: ReadNullableSlug(payload.selectedExperienceId),
   selectedLaunchClientId: ReadNullableString(payload.selectedLaunchClientId)]

\* MUTANT of ReadRuntimeClientSummary: the user agent is not optional.
SummaryWithUserAgent(input) ==
  [clientId: ReadString(input.clientId),
   experienceId: ReadSlug(input.experienceId),
   title: ReadString(input.title),
   url: ReadHttpsUrl(input.url),
   userAgent: ReadString(input.userAgent),
   status: {input.status} \cap {"online", "stale"}]
ReadRuntimeClientSummary(input) ==
  [clientId: ReadString(input.clientId),
   experienceId: ReadSlug(input.experienceId),
   title: ReadString(input.title),
   url: ReadHttpsUrl(input.url),
   userAgent: ReadOptionalString(input.userAgent),
   status: {input.status} \cap {"online", "stale"}]

\* One unreadable client makes the console refuse the whole list.
ValidateRuntimeClients(payload) ==
  IF \E input \in payload.clients : ReadRuntimeClientSummary(input) = {}
  THEN {}
  ELSE [clients: {UNION {ReadRuntimeClientSummary(input) : input \in payload.clients}},
        selectedLaunchClientId: ReadNullableString(payload.selectedLaunchClientId)]

\* parseRuntimeRegistryMessage of the console.
ParseStation(m) == IF m.type = "station.state" THEN ValidateStationState(m) ELSE {}
ParseClients(m) == IF m.type = "runtime.clients" THEN ValidateRuntimeClients(m) ELSE {}
=============================================================================
