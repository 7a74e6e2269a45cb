------------------------- MODULE RequestGateProofs -------------------------
(***************************************************************************)
(* Proofs about RequestGate for every set of requests, every header and    *)
(* every bound on the clock: the cooldown is bounded, the gate closes only *)
(* on an answer, and the gate implements the circuit breaker.              *)
(***************************************************************************)
EXTENDS RequestGate, TLAPS

\* The clamp of a cooldown, as every lemma below uses it.
LEMMA CooldownClamps ==
  ASSUME NEW retryAfter \in RetryAfters \cup {DefaultCooldown}
  PROVE  /\ Cooldown(retryAfter) \in Nat
         /\ Cooldown(retryAfter) >= 1
         /\ Cooldown(retryAfter) <= MaxCooldown
  BY CooldownAssumption DEF Cooldown

\* The inductive invariant: the types and the bound on the cooldown.
IInv == GateTypeOK /\ CooldownBounded

\* The client starts with an open gate and no request.
LEMMA InitInvariant == GateInit => IInv
<1>1. GateInit => GateTypeOK
  <2>1. GateInit => call \in [Requests -> {"idle", "sent"} \cup Outcome]
    BY DEF GateInit
  <2>2. GateInit => auth_failed \in BOOLEAN
    BY Zenon DEF GateInit
  <2>3. GateInit => monotonic \in Nat /\ blocked_until \in Nat
    BY DEF GateInit
  <2> QED
    BY <2>1, <2>2, <2>3 DEF GateTypeOK
<1>2. GateInit => CooldownBounded
  BY CooldownAssumption DEF GateInit, CooldownBounded
<1> QED
  BY <1>1, <1>2 DEF IInv

\* Every step keeps the invariant; only Tick and Limited disturb the bound.
LEMMA StepInvariant == IInv /\ [GateNext]_gate_vars => IInv'
<1> SUFFICES ASSUME IInv, [GateNext]_gate_vars PROVE IInv'
  OBVIOUS
<1> USE DEF IInv, GateTypeOK, CooldownBounded, Outcome
<1>1. CASE GateTick
  BY <1>1, CooldownAssumption DEF GateTick
<1>2. ASSUME NEW r \in Requests,
             Send(r) \/ Refuse(r) \/ Answered(r) \/ TimedOut(r) \/ Rejected(r)
      PROVE  IInv'
  BY <1>2 DEF Send, Refuse, Answered, TimedOut, Rejected, Ends
<1>3. ASSUME NEW r \in Requests, Limited(r) PROVE IInv'
  <2>1. PICK retryAfter \in RetryAfters \cup {DefaultCooldown} :
               blocked_until' = monotonic + Cooldown(retryAfter)
    BY <1>3 DEF Limited
  <2>2. /\ Cooldown(retryAfter) \in Nat
        /\ Cooldown(retryAfter) <= MaxCooldown
    BY <2>1, CooldownClamps
  <2> QED
    BY <1>3, <2>1, <2>2, CooldownAssumption DEF Limited, Ends
<1>4. CASE UNCHANGED gate_vars
  BY <1>4 DEF gate_vars
<1> QED
  BY <1>1, <1>2, <1>3, <1>4 DEF GateNext

\* The types and the bound hold in every reachable state.
THEOREM Invariance == GateSpec => []IInv
  BY InitInvariant, StepInvariant, PTL DEF GateSpec

\* Type correctness of the gate.
THEOREM TypeCorrect == GateSpec => []GateTypeOK
<1>1. IInv => GateTypeOK
  BY DEF IInv
<1> QED
  BY <1>1, Invariance, PTL

\* No header LG sends closes the gate for longer than the longest cooldown.
THEOREM CooldownIsBounded == GateSpec => []CooldownBounded
<1>1. IInv => CooldownBounded
  BY DEF IInv
<1> QED
  BY <1>1, Invariance, PTL

\* The gate latches only when an answer rejected the credentials, and cools
\* down, for at least a second, only when an answer was limited.
THEOREM ClosesByAnswer == GateSpec => ClosedByAnswer
<1>1. ASSUME GateTypeOK, [GateNext]_gate_vars PROVE ClosedByAnswerStep \/ UNCHANGED gate_vars
  <2> USE DEF ClosedByAnswerStep
  <2>1. CASE GateTick
    BY <2>1 DEF GateTick
  <2>2. ASSUME NEW r \in Requests,
               Send(r) \/ Refuse(r) \/ Answered(r) \/ TimedOut(r)
        PROVE  ClosedByAnswerStep
    BY <2>2 DEF Send, Refuse, Answered, TimedOut
  <2>3. ASSUME NEW r \in Requests, Rejected(r) PROVE ClosedByAnswerStep
    BY <2>3, <1>1 DEF Rejected, Ends, GateTypeOK
  <2>4. ASSUME NEW r \in Requests, Limited(r) PROVE ClosedByAnswerStep
    <3>1. PICK retryAfter \in RetryAfters \cup {DefaultCooldown} :
                 blocked_until' = monotonic + Cooldown(retryAfter)
      BY <2>4 DEF Limited
    <3>2. blocked_until' > monotonic
      BY <3>1, CooldownClamps, <1>1 DEF GateTypeOK
    <3> QED
      BY <2>4, <3>2, <1>1 DEF Limited, Ends, GateTypeOK
  <2> QED
    BY <1>1, <2>1, <2>2, <2>3, <2>4 DEF GateNext
<1>2. GateTypeOK /\ [GateNext]_gate_vars => [ClosedByAnswerStep]_gate_vars
  BY <1>1
<1> QED
  BY <1>2, TypeCorrect, PTL DEF GateSpec, ClosedByAnswer

-----------------------------------------------------------------------------
(***************************************************************************)
(* The refinement of the circuit breaker.                                  *)
(***************************************************************************)
State == IF auth_failed THEN "rejected"
         ELSE IF monotonic < blocked_until THEN "cooling" ELSE "open"
Outstanding == {r \in Requests : call[r] = "sent"}

\* An answer takes its request, and no other, out of those in flight.
LEMMA AnswerSettles ==
  ASSUME GateTypeOK, NEW r \in Requests, NEW outcome, outcome # "sent",
         call[r] = "sent", Ends(r, outcome)
  PROVE  r \in Outstanding /\ Outstanding' = Outstanding \ {r}
  BY DEF GateTypeOK, Ends, Outstanding

\* An open gate is a closed circuit: the breaker's initial state.
LEMMA InitRefines == GateInit => B!Init
  BY DEF GateInit, B!Init

\* Every step of the gate is a step of the breaker or leaves it unchanged.
LEMMA StepRefines == GateTypeOK /\ [GateNext]_gate_vars => [B!Next]_B!vars
<1> SUFFICES ASSUME GateTypeOK, [GateNext]_gate_vars PROVE [B!Next]_B!vars
  OBVIOUS
<1>0. /\ UNCHANGED B!vars <=> UNCHANGED State /\ UNCHANGED Outstanding
      /\ B!CoolDown <=> /\ State = "cooling"
                        /\ State' = "open"
                        /\ UNCHANGED Outstanding
      /\ \A r : B!Send(r) <=> /\ State = "open"
                              /\ r \notin Outstanding
                              /\ Outstanding' = Outstanding \cup {r}
                              /\ UNCHANGED State
      /\ \A r : B!Settle(r) <=> /\ r \in Outstanding
                                /\ Outstanding' = Outstanding \ {r}
                                /\ \/ UNCHANGED State
                                   \/ /\ State # "rejected"
                                      /\ State' \in {"cooling", "rejected"}
  BY DEF B!vars, B!CoolDown, B!Send, B!Settle, State, Outstanding
<1>1. ASSUME GateTick PROVE B!Next \/ UNCHANGED B!vars
  <2>1. UNCHANGED Outstanding
    BY <1>1 DEF GateTick, Outstanding
  <2>2. UNCHANGED State \/ (State = "cooling" /\ State' = "open")
    BY <1>1 DEF GateTick, State, GateTypeOK
  <2> QED
    BY <2>1, <2>2, <1>0 DEF B!Next
<1>2. ASSUME NEW r \in Requests, Send(r) PROVE B!Next
  <2>1. State = "open" /\ UNCHANGED State
    BY <1>2 DEF Send, State, GateTypeOK
  <2>2. r \notin Outstanding /\ Outstanding' = Outstanding \cup {r}
    BY <1>2 DEF Send, Ends, Outstanding, GateTypeOK
  <2> QED
    BY <2>1, <2>2, <1>0 DEF B!Next
<1>3. ASSUME NEW r \in Requests, Refuse(r) PROVE UNCHANGED B!vars
  <2>1. UNCHANGED State
    BY <1>3 DEF Refuse, State
  <2>2. UNCHANGED Outstanding
    BY <1>3 DEF Refuse, Ends, Outstanding, GateTypeOK
  <2> QED
    BY <2>1, <2>2, <1>0
<1>4. ASSUME NEW r \in Requests, Answered(r) \/ TimedOut(r) PROVE B!Next
  <2>1. r \in Outstanding /\ Outstanding' = Outstanding \ {r}
    BY <1>4, AnswerSettles DEF Answered, TimedOut
  <2>2. UNCHANGED State
    BY <1>4 DEF Answered, TimedOut, State
  <2> QED
    BY <2>1, <2>2, <1>0 DEF B!Next
<1>5. ASSUME NEW r \in Requests, Rejected(r) PROVE B!Next
  <2>1. r \in Outstanding /\ Outstanding' = Outstanding \ {r}
    BY <1>5, AnswerSettles DEF Rejected
  <2>2. State' = "rejected"
    BY <1>5 DEF Rejected, State
  <2> QED
    BY <2>1, <2>2, <1>0 DEF B!Next
<1>6. ASSUME NEW r \in Requests, Limited(r) PROVE B!Next
  <2>1. r \in Outstanding /\ Outstanding' = Outstanding \ {r}
    BY <1>6, AnswerSettles DEF Limited
  <2>2. PICK retryAfter \in RetryAfters \cup {DefaultCooldown} :
               blocked_until' = monotonic + Cooldown(retryAfter)
    BY <1>6 DEF Limited
  <2>3. monotonic' < blocked_until'
    BY <1>6, <2>2, CooldownClamps DEF Limited, GateTypeOK
  <2>4. \/ UNCHANGED State
        \/ State # "rejected" /\ State' = "cooling"
    BY <1>6, <2>3 DEF Limited, State
  <2> QED
    BY <2>1, <2>4, <1>0 DEF B!Next
<1>7. CASE UNCHANGED gate_vars
  BY <1>7, <1>0 DEF gate_vars, State, Outstanding
<1>8. B!Next \/ UNCHANGED B!vars
  BY <1>1, <1>2, <1>3, <1>4, <1>5, <1>6, <1>7 DEF GateNext
<1> QED
  BY <1>8

\* The gate implements the circuit breaker of DIRECT_CLIENT.md: rejected
\* credentials stop every later request, a cooldown stops all until the clock
\* ends it, and no late answer reopens the gate.
THEOREM Refines == GateSpec => Breaks
  BY InitRefines, StepRefines, TypeCorrect, PTL DEF GateSpec, Breaks, B!Spec
=============================================================================
