--------------------------- MODULE MCBrowserClients ---------------------------
(* An instance of BrowserClients for TLC: a page that is started twice or   *)
(* watched by the console, with any configuration, and two pages of         *)
(* different experiences, with one clientId or two.                         *)
EXTENDS BrowserClients

CONSTANTS a, b

Configured(c, padded, x, u) ==
  [clientId |-> [kind |-> "string", text |-> c, padded |-> padded],
   experienceId |-> Str(x), title |-> Str("title"), url |-> Str(u), userAgent |-> Absent]

Default == Configured("tab", FALSE, "dflt", "https")
City == Configured("tab", FALSE, "city", "https")
Padded == Configured("quest", TRUE, "city", "https")
Insecure == Configured("quest", FALSE, "dflt", "http")

MCTexts == {"", "tab", "quest", "dflt", "city", "title", "https", "http"}
MCOptions == {Default, City, Padded, Insecure}
MCSockets == {<<a, 1>>, <<a, 2>>, <<b, 1>>, <<Console, 1>>}

Scenario(opens, ofA, ofB) ==
  [opens |-> opens, options |-> [p \in Pages |-> IF p = a THEN ofA ELSE ofB]]
MCScenarios ==
  {Scenario({<<a, 1>>, <<a, 2>>}, o, City) : o \in MCOptions}
  \cup {Scenario({<<a, 1>>, <<Console, 1>>}, o, City) : o \in {Default, Padded}}
  \cup {Scenario({<<a, 1>>, <<b, 1>>}, Default, City)}
=============================================================================
