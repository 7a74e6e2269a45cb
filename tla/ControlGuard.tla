---------------------------- MODULE ControlGuard ----------------------------
(***************************************************************************)
(* From a service call to the POST, for the commands of one appliance: the *)
(* fresh GET that guards an oven command or a laundry START (entity.py,    *)
(* select.py, number.py), the throttle of the bridge (HABridge in          *)
(* integration/homeassistant/api.py) and the action start_laundry_mode     *)
(* (services.py), which has a lock of its own and no throttle.             *)
(*                                                                         *)
(* Every call is a coroutine that may be cancelled at any await.  Both     *)
(* locks are asyncio.Lock: first come, first served.  Time is in seconds,  *)
(* and the loop runs what is due before the next one passes.               *)
(***************************************************************************)
EXTENDS Integers, FiniteSets

CONSTANTS
  Commands,       \* calls that may be under way together
  None,           \* no holder, no run state, no answer
  Empty,          \* an answer without a state (HTTP 204, or null)
  Gap             \* _state_set_throttle_sec

ASSUME CommandsAssumption == IsFiniteSet(Commands)
ASSUME NoneAssumption == None \notin Commands
ASSUME GapAssumption == Gap \in Nat \ {0}

VARIABLES
  truth,          \* the appliance
  shown,          \* its state as the bridge knows it
  kind,           \* what each call is
  stage,          \* where its coroutine waits
  answer,         \* the state its GET is bringing back, or None
  lock,           \* _state_set_lock and control_lock: holder and waiters
  behind,         \* the calls each waiter has before it
  since,          \* seconds since _state_set_last_called, at most Gap
  delay,          \* seconds a coroutine in the throttle still sleeps
  allowed,        \* history: calls the appliance has allowed since given
  unread,         \* history: calls whose GET brought no state
  age, ahead,     \* history: seconds spent in the throttle, calls met there
  overtaken       \* history: start_laundry_mode calls another POSTed after the GET of

calls == <<kind, stage, answer>>
locks == <<lock, behind>>
throttle == <<since, delay, age, ahead>>
ghosts == <<allowed, unread, overtaken>>
vars == <<truth, shown, calls, locks, throttle, ghosts>>

\* A running oven, an idle one, and one that says nothing of it; and whether
\* remote start is enabled.
State == [run : {"running", "initial", None}, remote : BOOLEAN]

ASSUME EmptyAssumption == Empty \notin State \cup {None}

\* An oven's commands; the START of a laundry appliance and its other commands;
\* start_laundry_mode.
Kinds == {"oven", "start", "plain", "mode"}

\* oven_command_allowed
OvenCommandAllowed(state) ==
  state.run # None /\ (state.remote \/ state.run # "initial")

\* laundry_remote_ready, and the same of location_state in start_laundry_mode
LaundryRemoteReady(state) == state.remote

Allowed(k, state) ==
  CASE k = "oven" -> OvenCommandAllowed(state)
    [] k \in {"start", "mode"} -> LaundryRemoteReady(state)
    [] k = "plain" -> TRUE

Unlocked == [holder |-> None, waiters |-> {}]

Init ==
  /\ truth \in State
  /\ shown = truth
  /\ kind \in [Commands -> {"oven"}] \cup [Commands -> {"start", "plain", "mode"}]
  /\ stage = [c \in Commands |-> "idle"]
  /\ answer = [c \in Commands |-> None]
  /\ lock = [l \in {"throttle", "control"} |-> Unlocked]
  /\ behind = [c \in Commands |-> {}]
  /\ since = Gap
  /\ delay = [c \in Commands |-> 0]
  /\ allowed = {}
  /\ unread = {}
  /\ age = [c \in Commands |-> 0]
  /\ ahead = [c \in Commands |-> 0]
  /\ overtaken = {}

-----------------------------------------------------------------------------
(***************************************************************************)
(* The two locks, the throttle and the end of a call.                      *)
(***************************************************************************)
\* Mutant: a newcomer may take a lock that is being handed over.
FreeBarging(l) == lock[l].holder = None

\* asyncio.Lock.acquire returns at once.
Free(l) == lock[l].holder = None /\ lock[l].waiters = {}

Queue(l, c) ==
  /\ lock' = [lock EXCEPT ![l].waiters = @ \cup {c}]
  /\ behind' = [behind EXCEPT ![c] = lock[l].waiters]

\* Mutant: the throttle's lock is not held during the sleep.
ThroughUnlocked(c, waiters) ==
  /\ lock' = [lock EXCEPT !["throttle"] = [holder |-> None, waiters |-> waiters]]
  /\ \/ /\ since < Gap
        /\ stage' = [stage EXCEPT ![c] = "sleeping"]
        /\ delay' = [delay EXCEPT ![c] = Gap - since]
        /\ since' = since
     \/ /\ since = Gap
        /\ stage' = [stage EXCEPT ![c] = "posted"]
        /\ since' = 0
        /\ delay' = delay

\* _async_throttle_state_set once c has the lock: it sleeps with the lock, or is
\* the last call now, gives the lock back and POSTs.
Through(c, waiters) ==
  \/ /\ since < Gap
     /\ stage' = [stage EXCEPT ![c] = "sleeping"]
     /\ delay' = [delay EXCEPT ![c] = Gap - since]
     /\ lock' = [lock EXCEPT !["throttle"] = [holder |-> c, waiters |-> waiters]]
     /\ since' = since
  \/ /\ since = Gap
     /\ stage' = [stage EXCEPT ![c] = "posted"]
     /\ since' = 0
     /\ lock' = [lock EXCEPT !["throttle"] = [holder |-> None, waiters |-> waiters]]
     /\ delay' = delay

\* HABridge.post
BridgePost(c) ==
  /\ age' = [age EXCEPT ![c] = 0]
  /\ ahead' = [ahead EXCEPT ![c] = Cardinality(lock["throttle"].waiters)
                 + (IF lock["throttle"].holder = None THEN 0 ELSE 1)]
  /\ \/ Free("throttle") /\ Through(c, {}) /\ UNCHANGED behind
     \/ /\ ~Free("throttle")
        /\ Queue("throttle", c)
        /\ stage' = [stage EXCEPT ![c] = "queued"]
        /\ UNCHANGED <<since, delay>>

\* c waits no more, and nobody waits behind it.
Served(c) == [d \in Commands |-> IF d = c THEN {} ELSE behind[d] \ {c}]

Forget(c) ==
  /\ age' = [age EXCEPT ![c] = 0]
  /\ ahead' = [ahead EXCEPT ![c] = 0]
  /\ allowed' = allowed \ {c}
  /\ unread' = unread \ {c}
  /\ overtaken' = overtaken \ {c}

\* Mutant: a lock is not given back when its holder does not finish.
OverKeepsLock(c) ==
  /\ stage' = [stage EXCEPT ![c] = "idle"]
  /\ answer' = [answer EXCEPT ![c] = None]
  /\ lock' = [l \in DOMAIN lock |-> [lock[l] EXCEPT !.waiters = @ \ {c}]]
  /\ behind' = Served(c)
  /\ delay' = [delay EXCEPT ![c] = 0]
  /\ Forget(c)

\* The call returns or raises; it leaves the locks, and their queues.
Over(c) ==
  /\ stage' = [stage EXCEPT ![c] = "idle"]
  /\ answer' = [answer EXCEPT ![c] = None]
  /\ lock' = [l \in DOMAIN lock |->
                [holder  |-> IF lock[l].holder = c THEN None ELSE lock[l].holder,
                 waiters |-> lock[l].waiters \ {c}]]
  /\ behind' = Served(c)
  /\ delay' = [delay EXCEPT ![c] = 0]
  /\ Forget(c)

-----------------------------------------------------------------------------
(***************************************************************************)
(* The calls.                                                              *)
(***************************************************************************)
\* async_select_option or async_set_native_value of a guarded command
GiveGuarded(c) ==
  /\ kind[c] \in {"oven", "start"}
  /\ stage' = [stage EXCEPT ![c] = "asking"]
  /\ UNCHANGED <<locks, throttle>>

\* the same of a command without a guard
GivePlain(c) == kind[c] = "plain" /\ BridgePost(c)

\* Mutant: start_laundry_mode takes no lock.
GiveModeUnlocked(c) ==
  /\ kind[c] = "mode"
  /\ stage' = [stage EXCEPT ![c] = "asking"]
  /\ UNCHANGED <<locks, throttle>>

\* start_laundry_mode: its GETs are made with the control lock.
GiveMode(c) ==
  /\ kind[c] = "mode"
  /\ \/ /\ Free("control")
        /\ lock' = [lock EXCEPT !["control"].holder = c]
        /\ stage' = [stage EXCEPT ![c] = "asking"]
        /\ UNCHANGED behind
     \/ /\ ~Free("control")
        /\ Queue("control", c)
        /\ stage' = [stage EXCEPT ![c] = "queued"]
  /\ UNCHANGED throttle

Give(c) ==
  /\ stage[c] = "idle"
  /\ GiveGuarded(c) \/ GivePlain(c) \/ GiveMode(c)
  /\ allowed' = IF Allowed(kind[c], truth) THEN allowed \cup {c} ELSE allowed
  /\ UNCHANGED <<truth, shown, kind, answer, unread, overtaken>>

\* LG answers the GET with the state of that moment, or with none.
Answer(c) ==
  /\ stage[c] = "asking"
  /\ stage' = [stage EXCEPT ![c] = "answered"]
  /\ \/ answer' = [answer EXCEPT ![c] = truth] /\ unread' = unread
     \/ answer' = [answer EXCEPT ![c] = Empty] /\ unread' = unread \cup {c}
  /\ overtaken' = overtaken \ {c}
  /\ UNCHANGED <<truth, shown, kind, locks, throttle, allowed>>

\* The GET fails or times out, or the profile holds no such mode.
GetFails(c) ==
  /\ stage[c] = "asking"
  /\ Over(c)
  /\ UNCHANGED <<truth, shown, kind, since>>

\* Mutant: the guard decides by what the coordinator has.
FetchedFromCoordinator(c) == shown

\* fetch_data: the bridge keeps what it has when the answer holds no state.
Fetched(c) == IF answer[c] = Empty THEN shown ELSE answer[c]

\* async_require_oven_remote_ready, async_require_laundry_remote_ready
GuardDone(c) ==
  /\ stage[c] = "answered"
  /\ kind[c] # "mode"
  /\ shown' = Fetched(c)
  /\ \/ /\ Allowed(kind[c], Fetched(c))
        /\ BridgePost(c)
        /\ answer' = [answer EXCEPT ![c] = None]
        /\ UNCHANGED ghosts
     \/ /\ ~Allowed(kind[c], Fetched(c))
        /\ Over(c)
        /\ UNCHANGED since
  /\ UNCHANGED <<truth, kind>>

\* start_laundry_mode reads the answer itself and refuses an empty one.
Permits(c) == answer[c] # Empty /\ LaundryRemoteReady(answer[c])

ModeDone(c) ==
  /\ stage[c] = "answered"
  /\ kind[c] = "mode"
  /\ \/ /\ Permits(c)
        /\ stage' = [stage EXCEPT ![c] = "posted"]
        /\ answer' = [answer EXCEPT ![c] = None]
        /\ overtaken' = overtaken \cup {d \in Commands \ {c} : answer[d] # None}
        /\ UNCHANGED <<locks, delay, age, ahead, allowed, unread>>
     \/ /\ ~Permits(c)
        /\ Over(c)
  /\ UNCHANGED <<truth, shown, kind, since>>

\* The lock was given back and its first waiter runs.
Acquire(l, c) ==
  /\ lock[l].holder = None
  /\ c \in lock[l].waiters
  /\ behind[c] = {}
  /\ behind' = Served(c)
  /\ \/ l = "throttle" /\ Through(c, lock[l].waiters \ {c})
     \/ /\ l = "control"
        /\ lock' = [lock EXCEPT ![l] = [holder |-> c, waiters |-> @.waiters \ {c}]]
        /\ stage' = [stage EXCEPT ![c] = "asking"]
        /\ UNCHANGED <<since, delay>>
  /\ UNCHANGED <<truth, shown, kind, answer, age, ahead, ghosts>>

\* The sleep in the throttle is over.
Wake(c) ==
  /\ stage[c] = "sleeping"
  /\ delay[c] = 0
  /\ stage' = [stage EXCEPT ![c] = "posted"]
  /\ since' = 0
  /\ lock' = [lock EXCEPT !["throttle"].holder = None]
  /\ UNCHANGED <<truth, shown, kind, answer, behind, delay, age, ahead, ghosts>>

\* The POST is answered, refused or times out.
PostDone(c) ==
  /\ stage[c] = "posted"
  /\ Over(c)
  /\ UNCHANGED <<truth, shown, kind, since>>

\* The coroutine is cancelled, as when a script is stopped.
Cancel(c) ==
  /\ stage[c] # "idle"
  /\ Over(c)
  /\ UNCHANGED <<truth, shown, kind, since>>

-----------------------------------------------------------------------------
(***************************************************************************)
(* The appliance, what else tells the bridge of it, and time.              *)
(***************************************************************************)
Change ==
  /\ truth' \in State \ {truth}
  /\ allowed' = allowed \cup {c \in Commands : stage[c] # "idle" /\ Allowed(kind[c], truth')}
  /\ UNCHANGED <<shown, calls, locks, throttle, unread, overtaken>>

\* A report, or the GET of another caller (StateFeed).
Report ==
  /\ shown' = truth
  /\ UNCHANGED <<truth, calls, locks, throttle, ghosts>>

InThrottle(c) ==
  \/ stage[c] = "sleeping"
  \/ stage[c] = "queued" /\ kind[c] # "mode"

Due ==
  \/ \E c \in Commands : stage[c] = "sleeping" /\ delay[c] = 0
  \/ \E l \in DOMAIN lock : lock[l].holder = None /\ lock[l].waiters # {}

Tick ==
  /\ ~Due
  /\ since' = IF since < Gap THEN since + 1 ELSE since
  /\ delay' = [c \in Commands |-> IF delay[c] > 0 THEN delay[c] - 1 ELSE 0]
  /\ age' = [c \in Commands |-> IF InThrottle(c) THEN age[c] + 1 ELSE 0]
  /\ UNCHANGED <<truth, shown, calls, locks, ahead, ghosts>>

-----------------------------------------------------------------------------
Next ==
  \/ \E c \in Commands :
       \/ Give(c) \/ Answer(c) \/ GetFails(c) \/ GuardDone(c) \/ ModeDone(c)
       \/ Acquire("throttle", c) \/ Acquire("control", c)
       \/ Wake(c) \/ PostDone(c) \/ Cancel(c)
  \/ Change
  \/ Report
  \/ Tick

Spec == Init /\ [][Next]_vars

\* Requests time out after 15 seconds, the loop runs what is due, time passes.
FairSpec ==
  /\ Spec
  /\ \A c \in Commands :
       /\ WF_vars(Answer(c) \/ GetFails(c))
       /\ WF_vars(GuardDone(c) \/ ModeDone(c))
       /\ WF_vars(Acquire("throttle", c) \/ Acquire("control", c))
       /\ WF_vars(Wake(c))
       /\ WF_vars(PostDone(c))
  /\ WF_vars(Tick)

-----------------------------------------------------------------------------
(***************************************************************************)
(* Properties.                                                             *)
(***************************************************************************)
\* Every variable has its type.
TypeOK ==
  /\ {truth, shown} \subseteq State
  /\ kind \in [Commands -> Kinds]
  /\ stage \in [Commands -> {"idle", "asking", "answered", "queued", "sleeping", "posted"}]
  /\ answer \in [Commands -> State \cup {None, Empty}]
  /\ lock \in [{"throttle", "control"} ->
               [holder : Commands \cup {None}, waiters : SUBSET Commands]]
  /\ behind \in [Commands -> SUBSET Commands]
  /\ since \in 0 .. Gap
  /\ delay \in [Commands -> 0 .. Gap]
  /\ {allowed, unread, overtaken} \subseteq SUBSET Commands
  /\ {age, ahead} \subseteq [Commands -> Nat]

Posts(c) == stage[c] # "posted" /\ stage'[c] = "posted"

\* "Throttle consecutive state set calls for this HABridge": two POSTs through
\* the bridge are at least Gap seconds apart, whoever sleeps, waits or is
\* cancelled meanwhile.
PostsSpaced ==
  [][\A c \in Commands : Posts(c) /\ kind[c] # "mode" => since = Gap]_vars

\* The guard's decision is not older, when the command is POSTed, than the calls
\* it met in the throttle and itself can take.
DecisionRecent ==
  \A c \in Commands : InThrottle(c) => age[c] <= Gap * (ahead[c] + 1)

\* A guarded command whose GET brought a state is POSTed only if the appliance
\* allowed it at some moment since it was given, whatever the coordinator shows.
SentOnlyIfAllowed ==
  [][\A c \in Commands : Posts(c) => c \in allowed' \cup unread]_vars

\* "Read current state before START so a stale remote flag cannot start a load"
\* (entity.py): the same of every command, also when the GET brought no state.
StaleFlagNeverSent == [][\A c \in Commands : Posts(c) => c \in allowed']_vars

\* The permission a start_laundry_mode acts on was read after the POST of the one
\* before, so that one remote start does not serve for two loads.
PermissionNotShared ==
  [][\A c \in Commands : Posts(c) /\ kind[c] = "mode" => c \notin overtaken]_vars

\* Every call ends: no cancelled or failed call leaves a lock behind.
CallsEnd == \A c \in Commands : stage[c] # "idle" ~> stage[c] = "idle"
=============================================================================
