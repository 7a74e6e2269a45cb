---------------------------- MODULE RequestGate ----------------------------
(***************************************************************************)
(* ThinQApi.async_request (client/transport.py): the gate every call to LG *)
(* passes, shared by all coroutines of an entry.  A request reads the gate *)
(* and leaves in one step; the loop then runs anything else until the      *)
(* answer comes, so answers change the gate under requests already sent.   *)
(* Time is counted in seconds of the monotonic clock.                      *)
(***************************************************************************)
EXTENDS Integers

CONSTANTS
  Requests,       \* calls of async_request
  RetryAfters,    \* Retry-After headers LG sends, as numbers
  DefaultCooldown,\* cooldown without a readable Retry-After (60)
  MaxCooldown,    \* longest cooldown accepted (86400)
  LastSecond      \* bound: the clock stops here

ASSUME CooldownAssumption ==
  /\ RetryAfters \subseteq Int
  /\ DefaultCooldown \in 1 .. MaxCooldown
  /\ MaxCooldown \in Nat

VARIABLES
  monotonic,      \* time.monotonic()
  auth_failed,    \* ThinQApi._auth_failed
  blocked_until,  \* ThinQApi._blocked_until
  call            \* where each request stands, or how it ended

gate_vars == <<monotonic, auth_failed, blocked_until, call>>

\* How a call ends: the response, the code of the ThinQAPIException raised, or
\* the error of aiohttp.
Outcome == {"response", "1103", "1306", "error", "timeout"}

GateInit ==
  /\ monotonic = 0
  /\ auth_failed = FALSE
  /\ blocked_until = 0
  /\ call = [r \in Requests |-> "idle"]

Ends(r, outcome) == call' = [call EXCEPT ![r] = outcome]

\* Mutant: the header is obeyed whatever it says.
CooldownUnclamped(retryAfter) == retryAfter

\* max(1, min(cooldown, 86400))
Cooldown(retryAfter) ==
  IF retryAfter < 1 THEN 1
  ELSE IF retryAfter > MaxCooldown THEN MaxCooldown ELSE retryAfter

-----------------------------------------------------------------------------
\* The gate lets the request through and it is sent.
Send(r) ==
  /\ call[r] = "idle"
  /\ ~auth_failed
  /\ monotonic >= blocked_until
  /\ Ends(r, "sent")
  /\ UNCHANGED <<monotonic, auth_failed, blocked_until>>

\* Mutant: each request refused starts the cooldown again.
RefuseExtends(r) ==
  /\ call[r] = "idle"
  /\ auth_failed \/ monotonic < blocked_until
  /\ blocked_until' = monotonic + DefaultCooldown
  /\ Ends(r, IF auth_failed THEN "1103" ELSE "1306")
  /\ UNCHANGED <<monotonic, auth_failed>>

\* The gate raises before anything is sent.
Refuse(r) ==
  /\ call[r] = "idle"
  /\ auth_failed \/ monotonic < blocked_until
  /\ Ends(r, IF auth_failed THEN "1103" ELSE "1306")
  /\ UNCHANGED <<monotonic, auth_failed, blocked_until>>

\* Mutant: any answer lifts the cooldown.
AnsweredReopens(r) ==
  /\ call[r] = "sent"
  /\ blocked_until' = 0
  /\ \E outcome \in {"response", "error"} : Ends(r, outcome)
  /\ UNCHANGED <<monotonic, auth_failed>>

\* A response, an error LG reports, or a malformed envelope.
Answered(r) ==
  /\ call[r] = "sent"
  /\ \E outcome \in {"response", "error"} : Ends(r, outcome)
  /\ UNCHANGED <<monotonic, auth_failed, blocked_until>>

\* The 15 seconds pass or the connection breaks.  Nothing is sent again: "a
\* timed-out control may have reached the appliance".
TimedOut(r) ==
  /\ call[r] = "sent"
  /\ Ends(r, "timeout")
  /\ UNCHANGED <<monotonic, auth_failed, blocked_until>>

\* HTTP 401, or LG 1103, 1218 or 1302.
Rejected(r) ==
  /\ call[r] = "sent"
  /\ auth_failed' = TRUE
  /\ Ends(r, "1103")
  /\ UNCHANGED <<monotonic, blocked_until>>

\* HTTP 429, or LG 1306 or 1314; the header may be missing or not a number.
Limited(r) ==
  /\ call[r] = "sent"
  /\ \E retryAfter \in RetryAfters \cup {DefaultCooldown} :
       blocked_until' = monotonic + Cooldown(retryAfter)
  /\ Ends(r, "1306")
  /\ UNCHANGED <<monotonic, auth_failed>>

GateTick ==
  /\ monotonic < LastSecond
  /\ monotonic' = monotonic + 1
  /\ UNCHANGED <<auth_failed, blocked_until, call>>

GateNext ==
  \/ GateTick
  \/ \E r \in Requests :
       \/ Send(r)
       \/ Refuse(r)
       \/ Answered(r)
       \/ TimedOut(r)
       \/ Rejected(r)
       \/ Limited(r)

GateSpec == GateInit /\ [][GateNext]_gate_vars

-----------------------------------------------------------------------------
(***************************************************************************)
(* Properties.                                                             *)
(***************************************************************************)
\* Every variable has its type; a request ends in one of the known ways.
GateTypeOK ==
  /\ monotonic \in Nat
  /\ auth_failed \in BOOLEAN
  /\ blocked_until \in Nat
  /\ call \in [Requests -> {"idle", "sent"} \cup Outcome]

\* "HTTP 429 / LG 1306 / LG 1314 activate a bounded cooldown": whatever header
\* LG sends and however the answers overlap, the gate is closed for at least a
\* second after a limit and never for longer than the longest cooldown.
CooldownBounded == blocked_until <= monotonic + MaxCooldown

\* The gate closes only on LG's word: it rejects credentials only after an
\* answer rejected them, it cools down only after an answer that was limited.
\* Neither is started by the refusals of the gate itself.
ClosedByAnswerStep ==
  /\ auth_failed' # auth_failed =>
       \E r \in Requests : call[r] = "sent" /\ call'[r] = "1103"
  /\ blocked_until' # blocked_until =>
       /\ \E r \in Requests : call[r] = "sent" /\ call'[r] = "1306"
       /\ blocked_until' > monotonic
ClosedByAnswer == [][ClosedByAnswerStep]_gate_vars

\* The gate implements the circuit breaker: nothing is sent while it is closed,
\* a late answer to a request sent before never reopens it, and only the clock
\* ends a cooldown.
B == INSTANCE Breaker WITH
  state <- IF auth_failed THEN "rejected"
           ELSE IF monotonic < blocked_until THEN "cooling" ELSE "open",
  outstanding <- {r \in Requests : call[r] = "sent"}

Breaks == B!Spec
=============================================================================
