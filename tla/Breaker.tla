------------------------------ MODULE Breaker ------------------------------
(***************************************************************************)
(* What DIRECT_CLIENT.md promises of the LG HTTP client: "Invalid          *)
(* credentials stop later requests through the same client.  HTTP 429 /    *)
(* LG 1306 / LG 1314 activate a bounded cooldown."  A circuit breaker: no  *)
(* request leaves unless it is open, an answer may close it but never      *)
(* opens it, and rejected credentials close it for good.                   *)
(***************************************************************************)
CONSTANT Requests

VARIABLES
  state,          \* "open", "cooling" or "rejected"
  outstanding     \* requests LG has received and not answered

vars == <<state, outstanding>>

Init ==
  /\ state = "open"
  /\ outstanding = {}

Send(r) ==
  /\ state = "open"
  /\ r \notin outstanding
  /\ outstanding' = outstanding \cup {r}
  /\ UNCHANGED state

\* The answer, or the timeout, of a request.
Settle(r) ==
  /\ r \in outstanding
  /\ outstanding' = outstanding \ {r}
  /\ \/ UNCHANGED state
     \/ state # "rejected" /\ state' \in {"cooling", "rejected"}

CoolDown ==
  /\ state = "cooling"
  /\ state' = "open"
  /\ UNCHANGED outstanding

Next == CoolDown \/ \E r \in Requests : Send(r) \/ Settle(r)

Spec == Init /\ [][Next]_vars
=============================================================================
