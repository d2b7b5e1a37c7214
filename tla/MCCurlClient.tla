----------------------------- MODULE MCCurlClient -----------------------------
(***************************************************************************)
(* Plans for TLC.                                                          *)
(***************************************************************************)
EXTENDS CurlClient

CONSTANTS c1, c2

TwoClients == {c1, c2}
TwoNames == {"Location", "Type"}

Reply(kind, code, hdrs, length) ==
  [kind |-> kind, status |-> code, numbered |-> TRUE, names |-> hdrs, length |-> length]
Continue == Reply("continue", 100, {}, 0)
Moved == Reply("redirect", 302, {"Location", "Type"}, 1)
Good == Reply("final", 200, {"Type"}, 2)
Bad == Reply("final", 400, {"Type"}, 1)

Request(method, length, script) ==
  [method |-> method, body |-> length, withResponse |-> FALSE, perms |-> FALSE, script |-> script]
Fetch(withResponse, perms, script) ==
  [method |-> "download", body |-> 0, withResponse |-> withResponse, perms |-> perms,
   script |-> script]

Requests ==
  {Request("get", 0, <<Moved, Good>>), Request("put", 2, <<Continue, Moved, Good>>),
   Request("post", 1, <<Bad>>)}
Fetches ==
  {Fetch(TRUE, FALSE, <<Bad>>), Fetch(FALSE, TRUE, <<Bad>>), Fetch(TRUE, FALSE, <<Moved, Good>>),
   Fetch(TRUE, TRUE, <<Continue, Good>>)}

\* One client that makes two calls, of any two kinds.
OneClient == {[c \in TwoClients |-> IF c = c1 THEN <<a, b>> ELSE <<>>] : a, b \in Requests \cup Fetches}

\* Two clients that download to the same path at once.
AtOnce == {[c \in TwoClients |-> IF c = c1 THEN <<a>> ELSE <<b>>] : a, b \in Fetches}

BothPlans == OneClient \cup AtOnce
AllFaults == SUBSET Fault

\* The response to a download over HTTP/2.
BadOver2 == [Bad EXCEPT !.numbered = FALSE]
Over2 == {[c \in TwoClients |-> IF c = c1 THEN <<Fetch(TRUE, FALSE, <<BadOver2>>)>> ELSE <<>>]}
NoFaults == {{}}
================================================================================
