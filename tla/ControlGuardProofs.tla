------------------------- MODULE ControlGuardProofs -------------------------
(***************************************************************************)
(* What ControlGuard promises for any number of overlapping calls and any  *)
(* gap: the POSTs are spaced, no guarded command is sent that was never    *)
(* allowed, no decision is older than the queue it waited in, and no       *)
(* permission serves two start_laundry_mode calls.                         *)
(***************************************************************************)
EXTENDS ControlGuard, FiniteSetTheorems, TLAPS

\* Whoever sleeps in the throttle has its lock, and sleeps until the gap is over.
Sleeper ==
  \A c \in Commands : stage[c] = "sleeping" =>
    /\ lock["throttle"].holder = c
    /\ since + delay[c] = Gap
    /\ kind[c] # "mode"

\* A waiter is queued, for the lock of its kind.
Waiter ==
  /\ \A c \in lock["throttle"].waiters : stage[c] = "queued" /\ kind[c] # "mode"
  /\ \A c \in lock["control"].waiters : stage[c] = "queued" /\ kind[c] = "mode"

\* A start_laundry_mode call has the control lock from its GET to its POST.
Controller ==
  \A c \in Commands :
    kind[c] = "mode" /\ stage[c] \in {"asking", "answered", "posted"} =>
      lock["control"].holder = c

\* An answer is there until it is looked at.
Answered ==
  \A c \in Commands : IF stage[c] = "answered"
                      THEN answer[c] \in State \cup {Empty}
                      ELSE answer[c] = None

\* No start_laundry_mode call was overtaken by another.
NotOvertaken == \A c \in overtaken : kind[c] # "mode"

\* A call was allowed when its appliance is, when its answer says so, and when it
\* is in the throttle, unless its GET brought no state.
AllowedWhen ==
  \A c \in Commands :
    /\ stage[c] # "idle" /\ Allowed(kind[c], truth) => c \in allowed
    /\ stage[c] = "answered" =>
         IF answer[c] = Empty
         THEN c \in unread
         ELSE answer[c] \in State /\ (Allowed(kind[c], answer[c]) => c \in allowed)
    /\ stage[c] \in {"queued", "sleeping"} /\ kind[c] # "mode" => c \in allowed \cup unread

\* The inductive invariant.
IInv ==
  TypeOK /\ Answered /\ Waiter /\ Sleeper /\ Controller /\ NotOvertaken /\ AllowedWhen

-----------------------------------------------------------------------------
(***************************************************************************)
(* Type correctness.                                                       *)
(***************************************************************************)
\* The end of a call keeps the types.
LEMMA OverType ==
  ASSUME TypeOK, NEW c \in Commands, Over(c), UNCHANGED <<truth, kind, since>>,
         shown' \in State
  PROVE  TypeOK'
BY GapAssumption DEF TypeOK, Over, Forget, Served

\* The throttle keeps the types of what it changes.
LEMMA ThroughType ==
  ASSUME TypeOK, NEW c \in Commands, NEW waiters \in SUBSET Commands,
         Through(c, waiters)
  PROVE  /\ stage' \in [Commands -> {"idle", "asking", "answered", "queued",
                                     "sleeping", "posted"}]
         /\ lock' \in [{"throttle", "control"} ->
                        [holder : Commands \cup {None}, waiters : SUBSET Commands]]
         /\ since' \in 0 .. Gap
         /\ delay' \in [Commands -> 0 .. Gap]
BY GapAssumption DEF TypeOK, Through

\* So does the way into it.
LEMMA BridgePostType ==
  ASSUME TypeOK, NEW c \in Commands, BridgePost(c)
  PROVE  /\ stage' \in [Commands -> {"idle", "asking", "answered", "queued",
                                     "sleeping", "posted"}]
         /\ lock' \in [{"throttle", "control"} ->
                        [holder : Commands \cup {None}, waiters : SUBSET Commands]]
         /\ behind' \in [Commands -> SUBSET Commands]
         /\ since' \in 0 .. Gap
         /\ delay' \in [Commands -> 0 .. Gap]
         /\ age' \in [Commands -> Nat]
         /\ ahead' \in [Commands -> Nat]
<1>1. Cardinality(lock["throttle"].waiters) \in Nat
  BY CommandsAssumption, FS_Subset, FS_CardinalityType DEF TypeOK
<1>2. age' \in [Commands -> Nat] /\ ahead' \in [Commands -> Nat]
  BY <1>1 DEF TypeOK, BridgePost
<1>3. CASE Free("throttle") /\ Through(c, {}) /\ UNCHANGED behind
  BY <1>2, <1>3, ThroughType DEF TypeOK
<1>4. CASE Queue("throttle", c) /\ stage' = [stage EXCEPT ![c] = "queued"]
           /\ UNCHANGED <<since, delay>>
  BY <1>2, <1>4 DEF TypeOK, Queue
<1> QED BY <1>3, <1>4 DEF BridgePost

\* Type correctness is inductive.
LEMMA TypeKept ==
  ASSUME TypeOK, Answered, Next
  PROVE  TypeOK'
<1>1. ASSUME NEW c \in Commands, Give(c) PROVE TypeOK'
  <2>1. allowed' \in SUBSET Commands
    BY <1>1 DEF TypeOK, Give
  <2>2. CASE GiveGuarded(c)
    BY <1>1, <2>1, <2>2 DEF TypeOK, Give, GiveGuarded, locks, throttle
  <2>3. CASE GivePlain(c)
    BY <1>1, <2>1, <2>3, BridgePostType DEF TypeOK, Give, GivePlain
  <2>4. CASE GiveMode(c)
    BY <1>1, <2>1, <2>4 DEF TypeOK, Give, GiveMode, Queue, locks, throttle
  <2> QED BY <1>1, <2>2, <2>3, <2>4 DEF Give
<1>2. ASSUME NEW c \in Commands, Answer(c) PROVE TypeOK'
  BY <1>2 DEF TypeOK, Answer, locks, throttle
<1>3. ASSUME NEW c \in Commands, GetFails(c) \/ PostDone(c) \/ Cancel(c) PROVE TypeOK'
  BY <1>3, OverType DEF GetFails, PostDone, Cancel, TypeOK
<1>4. ASSUME NEW c \in Commands, GuardDone(c) PROVE TypeOK'
  <2>1. shown' \in State
    BY <1>4 DEF TypeOK, Answered, GuardDone, Fetched
  <2>2. CASE BridgePost(c) /\ answer' = [answer EXCEPT ![c] = None] /\ UNCHANGED ghosts
    BY <1>4, <2>1, <2>2, BridgePostType DEF TypeOK, GuardDone, ghosts
  <2>3. CASE Over(c) /\ UNCHANGED since
    BY <1>4, <2>1, <2>3, OverType DEF GuardDone
  <2> QED BY <1>4, <2>2, <2>3 DEF GuardDone
<1>5. ASSUME NEW c \in Commands, ModeDone(c) PROVE TypeOK'
  <2>1. CASE Over(c)
    BY <1>5, <2>1, OverType DEF ModeDone, TypeOK
  <2>2. CASE ~Over(c)
    BY <1>5, <2>2 DEF ModeDone, TypeOK, locks
  <2> QED BY <2>1, <2>2
<1>6. ASSUME NEW c \in Commands, NEW l \in {"throttle", "control"}, Acquire(l, c)
      PROVE  TypeOK'
  <2>1. behind' \in [Commands -> SUBSET Commands]
    BY <1>6 DEF TypeOK, Acquire, Served
  <2>2. CASE l = "throttle"
    <3>1. Through(c, lock[l].waiters \ {c}) /\ lock[l].waiters \ {c} \in SUBSET Commands
      BY <1>6, <2>2 DEF TypeOK, Acquire
    <3> QED BY <1>6, <2>1, <3>1, ThroughType DEF TypeOK, Acquire, ghosts
  <2>3. CASE l = "control"
    <3>1. lock["control"].waiters \ {c} \in SUBSET Commands
      BY DEF TypeOK
    <3>2. lock' \in [{"throttle", "control"} ->
                     [holder : Commands \cup {None}, waiters : SUBSET Commands]]
      BY <1>6, <2>3, <3>1 DEF TypeOK, Acquire
    <3> QED BY <1>6, <2>1, <2>3, <3>2 DEF TypeOK, Acquire, ghosts
  <2> QED BY <2>2, <2>3
<1>7. ASSUME NEW c \in Commands, Wake(c) PROVE TypeOK'
  BY <1>7, GapAssumption DEF TypeOK, Wake, ghosts
<1>8. CASE Change
  BY <1>8 DEF TypeOK, Change, calls, locks, throttle
<1>9. CASE Report
  BY <1>9 DEF TypeOK, Report, calls, locks, throttle, ghosts
<1>10. CASE Tick
  BY <1>10, GapAssumption DEF TypeOK, Tick, calls, locks, ghosts
<1> QED
  BY <1>1, <1>2, <1>3, <1>4, <1>5, <1>6, <1>7, <1>8, <1>9, <1>10 DEF Next

-----------------------------------------------------------------------------
(***************************************************************************)
(* The other parts of the invariant.                                       *)
(***************************************************************************)
\* Answers are where they belong.
LEMMA AnsweredKept ==
  ASSUME IInv, Next
  PROVE  Answered'
<1> USE DEF IInv, TypeOK, Answered
<1>1. ASSUME NEW c \in Commands, Give(c) PROVE Answered'
  BY <1>1 DEF Give, GiveGuarded, GivePlain, GiveMode, BridgePost, Through, Queue
<1>2. ASSUME NEW c \in Commands, Answer(c) PROVE Answered'
  BY <1>2 DEF Answer
<1>3. ASSUME NEW c \in Commands, Over(c) PROVE Answered'
  BY <1>3 DEF Over
<1>4. ASSUME NEW c \in Commands, GuardDone(c), ~Over(c) PROVE Answered'
  BY <1>4 DEF GuardDone, BridgePost, Through, Queue
<1>5. ASSUME NEW c \in Commands, ModeDone(c), ~Over(c) PROVE Answered'
  BY <1>5 DEF ModeDone
<1>6. ASSUME NEW c \in Commands, Acquire("throttle", c) \/ Acquire("control", c)
      PROVE  Answered'
  BY <1>6 DEF Acquire, Through, Waiter
<1>7. ASSUME NEW c \in Commands, Wake(c) PROVE Answered'
  BY <1>7 DEF Wake
<1>8. ASSUME Change \/ Report \/ Tick PROVE Answered'
  BY <1>8 DEF Change, Report, Tick, calls
<1> QED
  BY <1>1, <1>2, <1>3, <1>4, <1>5, <1>6, <1>7, <1>8
     DEF Next, GetFails, PostDone, Cancel

\* Waiters are queued.
LEMMA WaiterKept ==
  ASSUME IInv, Next
  PROVE  Waiter'
<1> USE DEF IInv, TypeOK, Waiter
<1>1. ASSUME NEW c \in Commands, Give(c) PROVE Waiter'
  BY <1>1 DEF Give, GiveGuarded, GivePlain, GiveMode, BridgePost, Through, Queue,
     Free, locks
<1>2. ASSUME NEW c \in Commands, Answer(c) PROVE Waiter'
  BY <1>2 DEF Answer, locks
<1>3. ASSUME NEW c \in Commands, Over(c), UNCHANGED kind PROVE Waiter'
  BY <1>3 DEF Over
<1>4. ASSUME NEW c \in Commands, GuardDone(c), ~Over(c) PROVE Waiter'
  BY <1>4 DEF GuardDone, BridgePost, Through, Queue, Free
<1>5. ASSUME NEW c \in Commands, ModeDone(c), ~Over(c) PROVE Waiter'
  BY <1>5 DEF ModeDone, locks
<1>6. ASSUME NEW c \in Commands, Acquire("throttle", c) \/ Acquire("control", c)
      PROVE  Waiter'
  BY <1>6 DEF Acquire, Through
<1>7. ASSUME NEW c \in Commands, Wake(c) PROVE Waiter'
  BY <1>7 DEF Wake
<1>8. ASSUME Change \/ Report \/ Tick PROVE Waiter'
  BY <1>8 DEF Change, Report, Tick, calls, locks
<1> QED
  BY <1>1, <1>2, <1>3, <1>4, <1>5, <1>6, <1>7, <1>8
     DEF Next, GetFails, GuardDone, ModeDone, PostDone, Cancel

\* Sleepers have the lock, and wake when the gap is over.
LEMMA SleeperKept ==
  ASSUME IInv, Next
  PROVE  Sleeper'
<1> USE NoneAssumption, GapAssumption DEF IInv, TypeOK, Sleeper
<1>1. ASSUME NEW c \in Commands, Give(c) PROVE Sleeper'
  BY <1>1 DEF Give, GiveGuarded, GivePlain, GiveMode, BridgePost, Through, Queue,
     Free, locks, throttle
<1>2. ASSUME NEW c \in Commands, Answer(c) PROVE Sleeper'
  BY <1>2 DEF Answer, locks, throttle
<1>3. ASSUME NEW c \in Commands, Over(c), UNCHANGED <<kind, since>> PROVE Sleeper'
  BY <1>3 DEF Over
<1>4. ASSUME NEW c \in Commands, GuardDone(c), ~Over(c) PROVE Sleeper'
  BY <1>4 DEF GuardDone, BridgePost, Through, Queue, Free
<1>5. ASSUME NEW c \in Commands, ModeDone(c), ~Over(c) PROVE Sleeper'
  BY <1>5 DEF ModeDone, locks
<1>6. ASSUME NEW c \in Commands, Acquire("throttle", c) \/ Acquire("control", c)
      PROVE  Sleeper'
  BY <1>6 DEF Acquire, Through, Waiter
<1>7. ASSUME NEW c \in Commands, Wake(c) PROVE Sleeper'
  BY <1>7 DEF Wake
<1>8. ASSUME Change \/ Report PROVE Sleeper'
  BY <1>8 DEF Change, Report, calls, locks, throttle
<1>9. ASSUME Tick PROVE Sleeper'
  BY <1>9 DEF Tick, Due, calls, locks
<1>10. ASSUME NEW c \in Commands,
               GetFails(c) \/ GuardDone(c) \/ ModeDone(c) \/ PostDone(c) \/ Cancel(c)
       PROVE  Sleeper'
  <2>1. ~Over(c) \/ UNCHANGED <<kind, since>>
    BY <1>10 DEF GetFails, GuardDone, ModeDone, PostDone, Cancel, BridgePost, Free,
       Over, Through, Queue
  <2> QED
    BY <1>3, <1>4, <1>5, <1>10, <2>1 DEF GetFails, PostDone, Cancel
<1> QED
  BY <1>1, <1>2, <1>6, <1>7, <1>8, <1>9, <1>10 DEF Next

\* start_laundry_mode works under the control lock.
LEMMA ControllerKept ==
  ASSUME IInv, Next
  PROVE  Controller'
<1> USE NoneAssumption DEF IInv, TypeOK, Controller
<1>1. ASSUME NEW c \in Commands, Give(c) PROVE Controller'
  BY <1>1 DEF Give, GiveGuarded, GivePlain, GiveMode, BridgePost, Through, Queue,
     Free, locks
<1>2. ASSUME NEW c \in Commands, Answer(c) PROVE Controller'
  BY <1>2 DEF Answer, locks
<1>3. ASSUME NEW c \in Commands, Over(c), UNCHANGED kind PROVE Controller'
  BY <1>3 DEF Over
<1>4. ASSUME NEW c \in Commands, GuardDone(c), ~Over(c) PROVE Controller'
  BY <1>4 DEF GuardDone, BridgePost, Through, Queue, Free
<1>5. ASSUME NEW c \in Commands, ModeDone(c), ~Over(c) PROVE Controller'
  BY <1>5 DEF ModeDone, locks
<1>6. ASSUME NEW c \in Commands, Acquire("throttle", c) \/ Acquire("control", c)
      PROVE  Controller'
  BY <1>6 DEF Acquire, Through, Waiter
<1>7. ASSUME NEW c \in Commands, Wake(c) PROVE Controller'
  BY <1>7 DEF Wake, Sleeper
<1>8. ASSUME Change \/ Report \/ Tick PROVE Controller'
  BY <1>8 DEF Change, Report, Tick, calls, locks
<1> QED
  BY <1>1, <1>2, <1>3, <1>4, <1>5, <1>6, <1>7, <1>8
     DEF Next, GetFails, GuardDone, ModeDone, PostDone, Cancel

\* No two start_laundry_mode calls look at answers together.
LEMMA NotOvertakenKept ==
  ASSUME IInv, Next
  PROVE  NotOvertaken'
<1> USE NoneAssumption DEF IInv, TypeOK, NotOvertaken
<1>1. ASSUME NEW c \in Commands, Give(c) \/ Answer(c) \/ Wake(c) PROVE NotOvertaken'
  BY <1>1 DEF Give, Answer, Wake, ghosts
<1>2. ASSUME NEW c \in Commands, Over(c), UNCHANGED kind PROVE NotOvertaken'
  BY <1>2 DEF Over, Forget
<1>3. ASSUME NEW c \in Commands, GuardDone(c), ~Over(c) PROVE NotOvertaken'
  BY <1>3 DEF GuardDone, ghosts
<1>4. ASSUME NEW c \in Commands, ModeDone(c), ~Over(c) PROVE NotOvertaken'
  BY <1>4 DEF ModeDone, Answered, Controller
<1>5. ASSUME NEW c \in Commands, Acquire("throttle", c) \/ Acquire("control", c)
      PROVE  NotOvertaken'
  BY <1>5 DEF Acquire, ghosts
<1>6. ASSUME Change \/ Report \/ Tick PROVE NotOvertaken'
  BY <1>6 DEF Change, Report, Tick, calls, ghosts
<1> QED
  BY <1>1, <1>2, <1>3, <1>4, <1>5, <1>6
     DEF Next, GetFails, GuardDone, ModeDone, PostDone, Cancel

\* What is under way was allowed, as far as it was read.
LEMMA AllowedWhenKept ==
  ASSUME IInv, Next
  PROVE  AllowedWhen'
<1> USE EmptyAssumption DEF IInv, TypeOK, AllowedWhen
<1>1. ASSUME NEW c \in Commands, Give(c) PROVE AllowedWhen'
  BY <1>1 DEF Give, GiveGuarded, GivePlain, GiveMode, BridgePost, Through, Queue,
     Allowed, Kinds
<1>2. ASSUME NEW c \in Commands, Answer(c) PROVE AllowedWhen'
  BY <1>2 DEF Answer
<1>3. ASSUME NEW c \in Commands, Over(c), UNCHANGED <<truth, kind>> PROVE AllowedWhen'
  BY <1>3 DEF Over, Forget
<1>4. ASSUME NEW c \in Commands, GuardDone(c), ~Over(c) PROVE AllowedWhen'
  BY <1>4 DEF GuardDone, BridgePost, Through, Queue, Fetched, ghosts
<1>5. ASSUME NEW c \in Commands, ModeDone(c), ~Over(c) PROVE AllowedWhen'
  BY <1>5 DEF ModeDone
<1>6. ASSUME NEW c \in Commands, Acquire("throttle", c) \/ Acquire("control", c)
      PROVE  AllowedWhen'
  BY <1>6 DEF Acquire, Through, Waiter, ghosts
<1>7. ASSUME NEW c \in Commands, Wake(c) PROVE AllowedWhen'
  BY <1>7 DEF Wake, ghosts
<1>8. CASE Change
  BY <1>8 DEF Change, calls
<1>9. ASSUME Report \/ Tick PROVE AllowedWhen'
  BY <1>9 DEF Report, Tick, calls, ghosts
<1> QED
  BY <1>1, <1>2, <1>3, <1>4, <1>5, <1>6, <1>7, <1>8, <1>9
     DEF Next, GetFails, GuardDone, ModeDone, PostDone, Cancel

-----------------------------------------------------------------------------
(***************************************************************************)
(* The theorems.                                                           *)
(***************************************************************************)
\* The invariant is inductive.
LEMMA Inductive == Spec => []IInv
<1>1. Init => IInv
  <2> SUFFICES ASSUME Init PROVE IInv
    OBVIOUS
  <2>1. TypeOK
    BY GapAssumption DEF Init, TypeOK, Kinds, Unlocked
  <2> QED
    BY <2>1 DEF Init, IInv, Answered, Waiter, Sleeper, Controller, NotOvertaken,
       AllowedWhen, Unlocked
<1>2. IInv /\ [Next]_vars => IInv'
  <2> SUFFICES ASSUME IInv, [Next]_vars PROVE IInv'
    OBVIOUS
  <2>1. CASE Next
    BY <2>1, TypeKept, AnsweredKept, WaiterKept, SleeperKept, ControllerKept,
       NotOvertakenKept, AllowedWhenKept DEF IInv
  <2>2. CASE UNCHANGED vars
    BY <2>2 DEF IInv, TypeOK, Answered, Waiter, Sleeper, Controller, NotOvertaken,
       AllowedWhen, vars, calls, locks, throttle, ghosts
  <2> QED BY <2>1, <2>2
<1> QED BY <1>1, <1>2, PTL DEF Spec

\* Every variable keeps its type for any set of calls and any gap.
THEOREM TypeCorrect == Spec => []TypeOK
<1>1. IInv => TypeOK
  BY DEF IInv
<1> QED BY <1>1, Inductive, PTL

\* A step POSTs through the bridge only if the gap is over, the call was allowed
\* or not read, and if it is a start_laundry_mode call, it was not overtaken.
LEMMA PostSound ==
  ASSUME IInv, Next, NEW c \in Commands, Posts(c)
  PROVE  /\ kind[c] # "mode" => since = Gap
         /\ c \in allowed' \cup unread
         /\ c \notin overtaken \/ kind[c] # "mode"
<1> USE DEF IInv, TypeOK, Posts
<1>1. c \notin overtaken \/ kind[c] # "mode"
  BY DEF NotOvertaken
<1>2. CASE Give(c)
  BY <1>1, <1>2, GapAssumption DEF Give, GiveGuarded, GivePlain, GiveMode, BridgePost,
     Through, Queue, Allowed
<1>3. CASE GuardDone(c) /\ ~Over(c)
  BY <1>1, <1>3, GapAssumption DEF GuardDone, BridgePost, Through, Queue, AllowedWhen,
     Fetched, ghosts
<1>4. CASE ModeDone(c) /\ ~Over(c)
  BY <1>1, <1>4 DEF ModeDone, AllowedWhen, Permits, Allowed
<1>5. CASE Acquire("throttle", c) \/ Acquire("control", c)
  BY <1>1, <1>5, GapAssumption DEF Acquire, Through, AllowedWhen, Waiter, ghosts
<1>6. CASE Wake(c)
  BY <1>1, <1>6 DEF Wake, Sleeper, AllowedWhen, ghosts
<1>7. ASSUME NEW d \in Commands, d # c,
             \/ Give(d) \/ Answer(d) \/ GetFails(d) \/ GuardDone(d) \/ ModeDone(d)
             \/ Acquire("throttle", d) \/ Acquire("control", d)
             \/ Wake(d) \/ PostDone(d) \/ Cancel(d)
      PROVE  FALSE
  BY <1>7 DEF Give, GiveGuarded, GivePlain, GiveMode, Answer, GetFails, GuardDone,
     ModeDone, Acquire, Wake, PostDone, Cancel, Over, BridgePost, Through, Queue
<1>8. ASSUME Over(c) \/ Answer(c) \/ Change \/ Report \/ Tick PROVE FALSE
  BY <1>8 DEF Over, Answer, Change, Report, Tick, calls
<1> QED
  BY <1>2, <1>3, <1>4, <1>5, <1>6, <1>7, <1>8 DEF Next, GetFails, PostDone, Cancel

\* Two POSTs through the bridge are a gap apart, for any calls and any gap.
THEOREM PostsAreSpaced == Spec => PostsSpaced
<1>1. IInv /\ [Next]_vars =>
        [\A c \in Commands : Posts(c) /\ kind[c] # "mode" => since = Gap]_vars
  BY PostSound
<1> QED BY <1>1, Inductive, PTL DEF Spec, PostsSpaced

\* No guarded call that read a state is sent without having been allowed.
THEOREM GuardsHold == Spec => SentOnlyIfAllowed
<1>1. IInv /\ [Next]_vars =>
        [\A c \in Commands : Posts(c) => c \in allowed' \cup unread]_vars
  BY PostSound
<1> QED BY <1>1, Inductive, PTL DEF Spec, SentOnlyIfAllowed

\* No start_laundry_mode call acts on what was read before another one's POST.
THEOREM PermissionsNotShared == Spec => PermissionNotShared
<1>1. IInv /\ [Next]_vars =>
        [\A c \in Commands : Posts(c) /\ kind[c] = "mode" => c \notin overtaken]_vars
  BY PostSound
<1> QED BY <1>1, Inductive, PTL DEF Spec, PermissionNotShared

-----------------------------------------------------------------------------
(***************************************************************************)
(* How long a decision waits for its POST.                                 *)
(***************************************************************************)
\* The throttle's lock is held only for a sleep.
Holding ==
  lock["throttle"].holder # None => stage[lock["throttle"].holder] = "sleeping"

\* Whoever is queued for the throttle is among its waiters.
Queued ==
  \A c \in Commands :
    stage[c] = "queued" /\ kind[c] # "mode" => c \in lock["throttle"].waiters

\* Of two waiters one is behind the other.
InLine ==
  \A c, d \in lock["throttle"].waiters : c # d => c \in behind[d] \/ d \in behind[c]

\* The POSTs a call in the throttle still has before its own.
Turns(c) ==
  IF stage[c] = "sleeping" THEN 0
  ELSE Cardinality(behind[c]) + (IF lock["throttle"].holder = None THEN 0 ELSE 1)

\* The time spent, the rest of the running gap and a gap for each of those POSTs
\* are no more than a gap for each call met, and one for the call itself.
InBudget(c) == age[c] + (Gap - since) + Gap * Turns(c) <= Gap * (ahead[c] + 1)

Budget == \A c \in Commands : InThrottle(c) => InBudget(c)

\* The inductive invariant of the throttle's queue.
QInv == IInv /\ Holding /\ Queued /\ InLine /\ Budget

\* The lock is taken by sleepers alone.
LEMMA HoldingKept ==
  ASSUME IInv, Holding, Next
  PROVE  Holding'
<1> USE NoneAssumption DEF IInv, TypeOK, Holding
<1>1. ASSUME NEW c \in Commands, Give(c) PROVE Holding'
  BY <1>1 DEF Give, GiveGuarded, GivePlain, GiveMode, BridgePost, Through, Queue,
     Free, locks
<1>2. ASSUME NEW c \in Commands, Answer(c) PROVE Holding'
  BY <1>2 DEF Answer, locks
<1>3. ASSUME NEW c \in Commands, Over(c) PROVE Holding'
  BY <1>3 DEF Over
<1>4. ASSUME NEW c \in Commands, GuardDone(c), ~Over(c) PROVE Holding'
  BY <1>4 DEF GuardDone, BridgePost, Through, Queue, Free
<1>5. ASSUME NEW c \in Commands, ModeDone(c), ~Over(c) PROVE Holding'
  BY <1>5 DEF ModeDone, locks
<1>6. ASSUME NEW c \in Commands, Acquire("throttle", c) \/ Acquire("control", c)
      PROVE  Holding'
  BY <1>6 DEF Acquire, Through, Waiter
<1>7. ASSUME NEW c \in Commands, Wake(c) PROVE Holding'
  BY <1>7 DEF Wake
<1>8. ASSUME Change \/ Report \/ Tick PROVE Holding'
  BY <1>8 DEF Change, Report, Tick, calls, locks
<1> QED
  BY <1>1, <1>2, <1>3, <1>4, <1>5, <1>6, <1>7, <1>8
     DEF Next, GetFails, GuardDone, ModeDone, PostDone, Cancel

\* Nobody is queued and forgotten.
LEMMA QueuedKept ==
  ASSUME IInv, Queued, Next
  PROVE  Queued'
<1> USE DEF IInv, TypeOK, Queued
<1>1. ASSUME NEW c \in Commands, Give(c) PROVE Queued'
  BY <1>1 DEF Give, GiveGuarded, GivePlain, GiveMode, BridgePost, Through, Queue,
     Free, locks
<1>2. ASSUME NEW c \in Commands, Answer(c) PROVE Queued'
  BY <1>2 DEF Answer, locks
<1>3. ASSUME NEW c \in Commands, Over(c), UNCHANGED kind PROVE Queued'
  BY <1>3 DEF Over
<1>4. ASSUME NEW c \in Commands, GuardDone(c), ~Over(c) PROVE Queued'
  BY <1>4 DEF GuardDone, BridgePost, Through, Queue, Free
<1>5. ASSUME NEW c \in Commands, ModeDone(c), ~Over(c) PROVE Queued'
  BY <1>5 DEF ModeDone, locks
<1>6. ASSUME NEW c \in Commands, Acquire("throttle", c) \/ Acquire("control", c)
      PROVE  Queued'
  BY <1>6 DEF Acquire, Through
<1>7. ASSUME NEW c \in Commands, Wake(c) PROVE Queued'
  BY <1>7 DEF Wake
<1>8. ASSUME Change \/ Report \/ Tick PROVE Queued'
  BY <1>8 DEF Change, Report, Tick, calls, locks
<1> QED
  BY <1>1, <1>2, <1>3, <1>4, <1>5, <1>6, <1>7, <1>8
     DEF Next, GetFails, GuardDone, ModeDone, PostDone, Cancel

\* The waiters stay in line.
LEMMA InLineKept ==
  ASSUME IInv, InLine, Next
  PROVE  InLine'
<1> USE DEF IInv, TypeOK, InLine
<1>1. ASSUME NEW c \in Commands, Give(c) PROVE InLine'
  BY <1>1 DEF Give, GiveGuarded, GivePlain, GiveMode, BridgePost, Through, Queue,
     Free, locks, Waiter
<1>2. ASSUME NEW c \in Commands, Answer(c) PROVE InLine'
  BY <1>2 DEF Answer, locks
<1>3. ASSUME NEW c \in Commands, Over(c) PROVE InLine'
  BY <1>3 DEF Over, Served
<1>4. ASSUME NEW c \in Commands, GuardDone(c), ~Over(c) PROVE InLine'
  BY <1>4 DEF GuardDone, BridgePost, Through, Queue, Free, Waiter
<1>5. ASSUME NEW c \in Commands, ModeDone(c), ~Over(c) PROVE InLine'
  BY <1>5 DEF ModeDone, locks
<1>6. ASSUME NEW c \in Commands, Acquire("throttle", c) \/ Acquire("control", c)
      PROVE  InLine'
  BY <1>6 DEF Acquire, Through, Served, Waiter
<1>7. ASSUME NEW c \in Commands, Wake(c) PROVE InLine'
  BY <1>7 DEF Wake
<1>8. ASSUME Change \/ Report \/ Tick PROVE InLine'
  BY <1>8 DEF Change, Report, Tick, calls, locks
<1> QED
  BY <1>1, <1>2, <1>3, <1>4, <1>5, <1>6, <1>7, <1>8
     DEF Next, GetFails, GuardDone, ModeDone, PostDone, Cancel

\* A gap for each of n POSTs.
LEMMA Gaps ==
  ASSUME NEW m \in Nat, NEW n \in Nat
  PROVE  /\ Gap * n \in Nat /\ Gap * (n + 1) = Gap * n + Gap
         /\ m <= n => Gap * m <= Gap * n
<1>1. Gap \in Nat
  BY GapAssumption
<1> QED BY <1>1

\* The calls before another are counted, and one less is one less.
LEMMA BehindCount ==
  ASSUME TypeOK, NEW c \in Commands, NEW d
  PROVE  /\ Cardinality(behind[c]) \in Nat
         /\ Cardinality(behind[c] \ {d}) \in Nat
         /\ Cardinality(behind[c] \ {d}) <= Cardinality(behind[c])
         /\ d \in behind[c] => Cardinality(behind[c] \ {d}) + 1 = Cardinality(behind[c])
<1>1. IsFiniteSet(behind[c])
  BY CommandsAssumption, FS_Subset DEF TypeOK
<1>2. /\ IsFiniteSet(behind[c] \ {d})
      /\ Cardinality(behind[c] \ {d}) =
           IF d \in behind[c] THEN Cardinality(behind[c]) - 1 ELSE Cardinality(behind[c])
  BY <1>1, FS_RemoveElement
<1>3. Cardinality(behind[c]) \in Nat /\ Cardinality(behind[c] \ {d}) \in Nat
  BY <1>1, <1>2, FS_CardinalityType
<1> QED BY <1>2, <1>3

\* A call that neither enters nor is reached stays in its budget.
LEMMA BudgetStays ==
  ASSUME IInv, Budget, NEW c \in Commands, InThrottle(c),
         age'[c] = age[c], ahead'[c] = ahead[c],
         Turns(c) \in Nat, Turns(c)' \in Nat,
         \/ since' = since /\ Turns(c)' <= Turns(c)
         \/ since = Gap /\ since' = 0 /\ Turns(c)' + 1 <= Turns(c)
  PROVE  InBudget(c)'
<1> DEFINE n == Turns(c)
           k == Turns(c)'
<1>1. /\ age[c] \in Nat /\ ahead[c] \in Nat /\ since \in Nat /\ Gap \in Nat /\ since <= Gap
      /\ age[c] + (Gap - since) + Gap * n <= Gap * (ahead[c] + 1)
      /\ Gap * (ahead[c] + 1) \in Nat
  BY GapAssumption, Gaps DEF IInv, TypeOK, Budget, InBudget
<1>2. CASE since' = since /\ k <= n
  <2>1. Gap * k <= Gap * n /\ Gap * k \in Nat /\ Gap * n \in Nat
    BY <1>2, Gaps
  <2>2. age[c] + (Gap - since) + Gap * k <= Gap * (ahead[c] + 1)
    <3> HIDE DEF n, k
    <3> QED BY <1>1, <2>1
  <2> QED BY <1>2, <2>2 DEF InBudget
<1>3. CASE since = Gap /\ since' = 0 /\ k + 1 <= n
  <2>1. Gap * k + Gap <= Gap * n /\ Gap * k \in Nat /\ Gap * n \in Nat
    <3> k \in Nat /\ n \in Nat /\ k + 1 \in Nat
      OBVIOUS
    <3> HIDE DEF n, k
    <3>1. Gap * (k + 1) <= Gap * n /\ Gap * (k + 1) = Gap * k + Gap /\ Gap * k \in Nat
      BY <1>3, Gaps
    <3> QED BY <3>1, Gaps
  <2>2. age[c] + (Gap - 0) + Gap * k <= Gap * (ahead[c] + 1)
    <3> HIDE DEF n, k
    <3> QED BY <1>1, <1>3, <2>1
  <2> QED BY <1>3, <2>2 DEF InBudget
<1> QED BY <1>2, <1>3

\* What has to be shown of a call that stays in the throttle while another moves.
LEMMA Undisturbed ==
  ASSUME QInv, NEW c \in Commands, InThrottle(c)', kind' = kind, stage'[c] = stage[c],
         behind'[c] = behind[c], lock'["throttle"].holder = lock["throttle"].holder,
         UNCHANGED <<since, age, ahead>>
  PROVE  InBudget(c)'
<1>1. InThrottle(c) /\ IInv /\ Budget /\ TypeOK
  BY DEF InThrottle, QInv, IInv
<1>2. Cardinality(behind[c]) \in Nat
  BY <1>1, BehindCount, Zenon
<1>3. Turns(c)' = Turns(c) /\ Turns(c) \in Nat
  BY <1>2 DEF Turns
<1> QED BY <1>1, <1>3, BudgetStays

\* The end of a call brings the others forward.
LEMMA BudgetOver ==
  ASSUME QInv, NEW d \in Commands, Over(d), UNCHANGED <<kind, since>>
  PROVE  Budget'
<1> SUFFICES ASSUME NEW c \in Commands, InThrottle(c)' PROVE InBudget(c)'
  BY DEF Budget
<1>1. IInv /\ Budget /\ TypeOK
  BY DEF QInv, IInv
<1>2. c # d /\ stage'[c] = stage[c] /\ InThrottle(c)
  BY <1>1 DEF InThrottle, Over, TypeOK
<1>3. age'[c] = age[c] /\ ahead'[c] = ahead[c] /\ behind'[c] = behind[c] \ {d}
  BY <1>1, <1>2 DEF Over, Forget, Served, TypeOK
<1>4. lock'["throttle"].holder \in {None, lock["throttle"].holder}
  BY <1>1 DEF Over, TypeOK
<1>5. Turns(c) \in Nat /\ Turns(c)' \in Nat /\ Turns(c)' <= Turns(c)
  BY <1>1, <1>2, <1>3, <1>4, BehindCount DEF Turns
<1> QED BY <1>1, <1>2, <1>3, <1>5, BudgetStays

\* A call enters the throttle with the calls it meets before it.
LEMMA BudgetEnter ==
  ASSUME QInv, NEW d \in Commands, BridgePost(d), kind' = kind, stage[d] # "queued"
  PROVE  Budget'
<1> SUFFICES ASSUME NEW c \in Commands, InThrottle(c)' PROVE InBudget(c)'
  BY DEF Budget
<1>1. IInv /\ Budget /\ TypeOK
  BY DEF QInv, IInv
<1>2. CASE c # d
  <2>1. stage'[c] = stage[c] /\ age'[c] = age[c] /\ ahead'[c] = ahead[c] /\ InThrottle(c)
    BY <1>1, <1>2 DEF BridgePost, Through, Queue, InThrottle, TypeOK
  <2>2. ~Free("throttle")
    BY <1>1, <2>1, NoneAssumption DEF QInv, InThrottle, Free, Queued, IInv, Sleeper
  <2>3. /\ behind'[c] = behind[c] /\ since' = since
        /\ lock'["throttle"].holder = lock["throttle"].holder
    BY <1>1, <1>2, <2>2 DEF BridgePost, Queue, TypeOK
  <2>4. Cardinality(behind[c]) \in Nat
    BY <1>1, BehindCount, Zenon
  <2>5. Turns(c)' = Turns(c) /\ Turns(c) \in Nat
    BY <2>1, <2>3, <2>4 DEF Turns
  <2> QED BY <1>1, <2>1, <2>3, <2>5, BudgetStays
<1>3. CASE c = d
  <2> DEFINE met == Cardinality(lock["throttle"].waiters)
                      + (IF lock["throttle"].holder = None THEN 0 ELSE 1)
  <2>1. age'[d] = 0 /\ ahead'[d] = met
    BY <1>1 DEF BridgePost, TypeOK
  <2>2. Cardinality(lock["throttle"].waiters) \in Nat
    BY <1>1, CommandsAssumption, FS_Subset, FS_CardinalityType DEF TypeOK
  <2>3. /\ since' \in Nat /\ since' <= Gap /\ Gap \in Nat
        /\ Turns(d)' \in Nat /\ Turns(d)' <= met /\ met \in Nat
    <3>1. CASE Free("throttle") /\ Through(d, {})
      <4>1. stage'[d] = "sleeping" /\ since' = since
        BY <1>1, <1>3, <3>1 DEF Through, InThrottle, TypeOK
      <4> QED BY <1>1, <2>2, <4>1, GapAssumption DEF Turns, TypeOK
    <3>2. CASE /\ ~Free("throttle") /\ Queue("throttle", d)
               /\ stage' = [stage EXCEPT ![d] = "queued"] /\ UNCHANGED <<since, delay>>
      <4>1. /\ stage'[d] = "queued" /\ since' = since
            /\ behind'[d] = lock["throttle"].waiters
            /\ lock'["throttle"].holder = lock["throttle"].holder
        BY <1>1, <3>2 DEF Queue, TypeOK
      <4> QED BY <1>1, <2>2, <4>1, GapAssumption DEF Turns, TypeOK
    <3> QED BY <3>1, <3>2 DEF BridgePost
  <2> HIDE DEF met
  <2>4. Gap * Turns(d)' <= Gap * met /\ Gap * (met + 1) = Gap * met + Gap
        /\ Gap * Turns(d)' \in Nat /\ Gap * met \in Nat
    BY <2>3, Gaps
  <2>5. 0 + (Gap - since') + Gap * Turns(d)' <= Gap * (met + 1)
    BY <2>3, <2>4
  <2> QED BY <1>3, <2>1, <2>5 DEF InBudget
<1> QED BY <1>2, <1>3

\* Whoever gets the lock stays in its budget, and so do those behind it.
LEMMA BudgetAcquire ==
  ASSUME QInv, NEW d \in Commands, Acquire("throttle", d)
  PROVE  Budget'
<1> SUFFICES ASSUME NEW c \in Commands, InThrottle(c)' PROVE InBudget(c)'
  BY DEF Budget
<1>1. IInv /\ Budget /\ TypeOK
  BY DEF QInv, IInv
<1>2. /\ lock["throttle"].holder = None /\ d \in lock["throttle"].waiters /\ behind[d] = {}
      /\ Through(d, lock["throttle"].waiters \ {d})
      /\ behind'[c] = IF c = d THEN {} ELSE behind[c] \ {d}
      /\ UNCHANGED <<kind, age, ahead>>
  BY <1>1 DEF Acquire, Served, TypeOK
<1>3. stage[d] = "queued" /\ kind[d] # "mode"
  BY <1>1, <1>2 DEF IInv, Waiter
<1>4. Cardinality(behind[c]) \in Nat
  BY <1>1, BehindCount, Zenon
<1>5. CASE c = d
  <2>1. stage'[c] = "sleeping" /\ since' = since /\ InThrottle(c)
    BY <1>1, <1>2, <1>3, <1>5 DEF Through, InThrottle, TypeOK
  <2>2. Turns(c) \in Nat /\ Turns(c)' \in Nat /\ Turns(c)' <= Turns(c)
    BY <1>2, <1>4, <2>1 DEF Turns
  <2> QED BY <1>1, <1>2, <2>1, <2>2, BudgetStays
<1>6. CASE c # d
  <2>1. stage'[c] = stage[c] /\ InThrottle(c)
    BY <1>1, <1>2, <1>6 DEF Through, InThrottle, TypeOK
  <2>2. stage[c] = "queued" /\ c \in lock["throttle"].waiters
    BY <1>1, <1>2, <2>1, NoneAssumption DEF InThrottle, QInv, IInv, Sleeper, Queued
  <2>3. d \in behind[c]
    BY <1>2, <1>6, <2>2 DEF QInv, InLine
  <2>4. behind'[c] = behind[c] \ {d}
    BY <1>2, <1>6
  <2>5. /\ Cardinality(behind[c]) \in Nat /\ Cardinality(behind'[c]) \in Nat
        /\ Cardinality(behind'[c]) + 1 = Cardinality(behind[c])
    BY <1>1, <2>3, <2>4, BehindCount
  <2>6. Turns(c) = Cardinality(behind[c])
    BY <1>2, <2>2, <2>5 DEF Turns
  <2>7. CASE since' = since /\ lock'["throttle"].holder = d
    <3>1. Turns(c)' = Cardinality(behind'[c]) + 1
      BY <2>1, <2>2, <2>7, NoneAssumption DEF Turns
    <3> QED BY <1>1, <1>2, <2>1, <2>5, <2>6, <2>7, <3>1, BudgetStays
  <2>8. CASE since = Gap /\ since' = 0 /\ lock'["throttle"].holder = None
    <3>1. Turns(c)' = Cardinality(behind'[c]) + 0
      BY <2>1, <2>2, <2>8 DEF Turns
    <3> QED BY <1>1, <1>2, <2>1, <2>5, <2>6, <2>8, <3>1, BudgetStays
  <2> QED BY <1>1, <1>2, <2>7, <2>8 DEF Through, TypeOK
<1> QED BY <1>5, <1>6

\* A start_laundry_mode call that gets its lock is not in the throttle.
LEMMA BudgetControl ==
  ASSUME QInv, NEW d \in Commands, Acquire("control", d)
  PROVE  Budget'
<1> SUFFICES ASSUME NEW c \in Commands, InThrottle(c)' PROVE InBudget(c)'
  BY DEF Budget
<1>1. IInv /\ Budget /\ TypeOK
  BY DEF QInv, IInv
<1>2. /\ stage' = [stage EXCEPT ![d] = "asking"] /\ UNCHANGED <<since, kind, age, ahead>>
      /\ lock'["throttle"] = lock["throttle"]
      /\ behind'[c] = IF c = d THEN {} ELSE behind[c] \ {d}
  BY <1>1 DEF Acquire, Served, TypeOK
<1>3. c # d /\ stage'[c] = stage[c] /\ InThrottle(c)
  BY <1>1, <1>2 DEF InThrottle, TypeOK
<1>4. behind'[c] = behind[c] \ {d}
  BY <1>2, <1>3
<1>5. Turns(c) \in Nat /\ Turns(c)' \in Nat /\ Turns(c)' <= Turns(c)
  BY <1>1, <1>2, <1>3, <1>4, BehindCount DEF Turns
<1> QED BY <1>1, <1>2, <1>3, <1>5, BudgetStays

\* The POST after a sleep starts a gap, and there is one POST less to come.
LEMMA BudgetWake ==
  ASSUME QInv, NEW d \in Commands, Wake(d)
  PROVE  Budget'
<1> SUFFICES ASSUME NEW c \in Commands, InThrottle(c)' PROVE InBudget(c)'
  BY DEF Budget
<1>1. IInv /\ Budget /\ TypeOK
  BY DEF QInv, IInv
<1>2. /\ lock["throttle"].holder = d /\ since = Gap /\ since' = 0
      /\ lock'["throttle"].holder = None
      /\ stage' = [stage EXCEPT ![d] = "posted"]
      /\ UNCHANGED <<kind, age, ahead, behind>>
  BY <1>1, GapAssumption DEF Wake, IInv, Sleeper, TypeOK
<1>3. c # d /\ stage'[c] = stage[c] /\ InThrottle(c)
  BY <1>1, <1>2 DEF InThrottle, TypeOK
<1>4. stage[c] = "queued"
  BY <1>1, <1>2, <1>3 DEF InThrottle, IInv, Sleeper
<1>5. Cardinality(behind[c]) \in Nat
  BY <1>1, BehindCount, Zenon
<1>6. /\ Turns(c) = Cardinality(behind[c]) + 1 /\ Turns(c)' = Cardinality(behind[c]) + 0
      /\ Turns(c) \in Nat /\ Turns(c)' \in Nat
  BY <1>2, <1>3, <1>4, <1>5, NoneAssumption DEF Turns
<1> QED BY <1>1, <1>2, <1>3, <1>5, <1>6, BudgetStays

\* A second that passes is one of the running gap.
LEMMA BudgetTick ==
  ASSUME QInv, Tick
  PROVE  Budget'
<1> SUFFICES ASSUME NEW c \in Commands, InThrottle(c)' PROVE InBudget(c)'
  BY DEF Budget
<1>1. IInv /\ Budget /\ TypeOK
  BY DEF QInv, IInv
<1>2. /\ ~Due /\ UNCHANGED <<kind, stage, behind, lock, ahead>>
      /\ since' = IF since < Gap THEN since + 1 ELSE since
  BY DEF Tick, calls, locks
<1>3. InThrottle(c) /\ age'[c] = age[c] + 1
  BY <1>1, <1>2 DEF InThrottle, Tick, TypeOK
<1>4. PICK h \in Commands : stage[h] = "sleeping"
  <2>1. CASE stage[c] = "queued" /\ kind[c] # "mode"
    <3>1. c \in lock["throttle"].waiters
      BY <2>1 DEF QInv, Queued
    <3>2. lock["throttle"].holder # None
      BY <1>1, <1>2, <3>1 DEF Due, TypeOK
    <3> QED BY <1>1, <3>2 DEF QInv, Holding, TypeOK
  <2> QED BY <1>3, <2>1 DEF InThrottle
<1>5. delay[h] # 0 /\ since + delay[h] = Gap
  BY <1>1, <1>2, <1>4 DEF Due, IInv, Sleeper
<1>6. since < Gap /\ since' = since + 1
  BY <1>1, <1>2, <1>5, GapAssumption DEF TypeOK
<1>7. Turns(c)' = Turns(c)
  BY <1>2 DEF Turns
<1>8. age[c] + (Gap - since) + Gap * Turns(c) <= Gap * (ahead[c] + 1)
  BY <1>1, <1>3 DEF Budget, InBudget
<1>9. Cardinality(behind[c]) \in Nat
  BY <1>1, BehindCount, Zenon
<1>10. Turns(c) \in Nat
  BY <1>9 DEF Turns
<1>11. /\ age[c] \in Nat /\ ahead[c] \in Nat /\ since \in Nat /\ Gap \in Nat
       /\ Gap * Turns(c) \in Nat /\ Gap * (ahead[c] + 1) \in Nat
  BY <1>1, <1>10, GapAssumption, Gaps DEF TypeOK
<1>12. (age[c] + 1) + (Gap - (since + 1)) + Gap * Turns(c) <= Gap * (ahead[c] + 1)
  BY <1>8, <1>11
<1>13. ahead'[c] = ahead[c]
  BY <1>2
<1> QED BY <1>3, <1>6, <1>7, <1>12, <1>13, Zenon DEF InBudget

\* No step takes a call out of its budget.
LEMMA BudgetKept ==
  ASSUME QInv, Next
  PROVE  Budget'
<1> USE DEF IInv, TypeOK
<1>1. ASSUME NEW d \in Commands, Give(d) PROVE Budget'
  <2>1. CASE GivePlain(d)
    BY <1>1, <2>1, BudgetEnter DEF Give, GivePlain
  <2>2. CASE GiveGuarded(d) \/ GiveMode(d)
    <3> SUFFICES ASSUME NEW c \in Commands, InThrottle(c)' PROVE InBudget(c)'
      BY DEF Budget
    <3>1. /\ c # d /\ stage'[c] = stage[c] /\ behind'[c] = behind[c] /\ kind' = kind
          /\ lock'["throttle"].holder = lock["throttle"].holder
          /\ UNCHANGED <<since, age, ahead>>
      BY <1>1, <2>2 DEF QInv, Give, GiveGuarded, GiveMode, Queue, InThrottle, locks, throttle
    <3> QED BY <3>1, Undisturbed
  <2> QED BY <1>1, <2>1, <2>2 DEF Give
<1>2. ASSUME NEW d \in Commands, Answer(d) PROVE Budget'
  <2> SUFFICES ASSUME NEW c \in Commands, InThrottle(c)' PROVE InBudget(c)'
    BY DEF Budget
  <2>1. stage'[c] = stage[c] /\ UNCHANGED <<kind, lock, behind, since, age, ahead>>
    BY <1>2 DEF QInv, Answer, InThrottle, locks, throttle
  <2> QED BY <2>1, Undisturbed
<1>3. ASSUME NEW d \in Commands, Over(d), UNCHANGED <<kind, since>> PROVE Budget'
  BY <1>3, BudgetOver
<1>4. ASSUME NEW d \in Commands, GuardDone(d), BridgePost(d) PROVE Budget'
  BY <1>4, BudgetEnter DEF GuardDone
<1>5. ASSUME NEW d \in Commands, ModeDone(d), ~Over(d) PROVE Budget'
  <2> SUFFICES ASSUME NEW c \in Commands, InThrottle(c)' PROVE InBudget(c)'
    BY DEF Budget
  <2>1. stage'[c] = stage[c] /\ UNCHANGED <<kind, lock, behind, since, age, ahead>>
    BY <1>5 DEF QInv, ModeDone, InThrottle, locks
  <2> QED BY <2>1, Undisturbed
<1>6. ASSUME NEW d \in Commands, Wake(d) PROVE Budget'
  BY <1>6, BudgetWake
<1>7. ASSUME Change \/ Report PROVE Budget'
  <2> SUFFICES ASSUME NEW c \in Commands, InThrottle(c)' PROVE InBudget(c)'
    BY DEF Budget
  <2>1. UNCHANGED <<stage, kind, lock, behind, since, age, ahead>>
    BY <1>7 DEF Change, Report, calls, locks, throttle
  <2> QED BY <2>1, Undisturbed
<1> QED
  BY <1>1, <1>2, <1>3, <1>4, <1>5, <1>6, <1>7, BudgetAcquire, BudgetControl, BudgetTick
     DEF Next, GetFails, GuardDone, ModeDone, PostDone, Cancel

\* The budget is inductive with the order of the queue.
LEMMA QueueInductive == Spec => []QInv
<1>1. Init => Holding /\ Queued /\ InLine /\ Budget
  BY DEF Init, Holding, Queued, InLine, Budget, InThrottle, Unlocked
<1>2. IInv /\ IInv' /\ QInv /\ [Next]_vars => QInv'
  <2> SUFFICES ASSUME IInv, IInv', QInv, [Next]_vars PROVE QInv'
    OBVIOUS
  <2>1. CASE Next
    BY <2>1, HoldingKept, QueuedKept, InLineKept, BudgetKept DEF QInv
  <2>2. CASE UNCHANGED vars
    BY <2>2 DEF QInv, Holding, Queued, InLine, Budget, InBudget, Turns, InThrottle,
       vars, calls, locks, throttle
  <2> QED BY <2>1, <2>2
<1>3. Init /\ IInv => QInv
  BY <1>1 DEF QInv
<1> QED BY <1>2, <1>3, Inductive, PTL DEF Spec

\* However many calls overlap, whoever is cancelled and however long the gap is,
\* no decision waits longer than a gap for each call it met and for its own.
THEOREM DecisionsRecent == Spec => []DecisionRecent
<1>1. QInv => DecisionRecent
  <2> SUFFICES ASSUME QInv, NEW c \in Commands, InThrottle(c)
               PROVE  age[c] <= Gap * (ahead[c] + 1)
    BY DEF DecisionRecent
  <2>1. Cardinality(behind[c]) \in Nat
    BY BehindCount, Zenon DEF QInv, IInv
  <2>2. Turns(c) \in Nat
    BY <2>1 DEF Turns
  <2>3. /\ Gap * Turns(c) \in Nat /\ Gap * (ahead[c] + 1) \in Nat
        /\ age[c] \in Nat /\ since \in Nat /\ Gap \in Nat /\ since <= Gap
    BY <2>2, Gaps, GapAssumption DEF QInv, IInv, TypeOK
  <2>4. age[c] + (Gap - since) + Gap * Turns(c) <= Gap * (ahead[c] + 1)
    BY DEF QInv, Budget, InBudget
  <2> QED BY <2>3, <2>4
<1> QED BY <1>1, QueueInductive, PTL
=============================================================================
