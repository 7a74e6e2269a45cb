--------------------------- MODULE InventoryCheck ---------------------------
(***************************************************************************)
(* Reconciliation of the devices an entry has loaded with the inventory of *)
(* the LG account: the coalescing check task of ThinQMQTT (mqtt.py), the   *)
(* notifications that trigger it and the reload it requests, together with *)
(* as much of set-up and unload (__init__.py) as hands the state over from *)
(* one ThinQMQTT object to the next.                                       *)
(***************************************************************************)
EXTENDS Naturals, FiniteSets

CONSTANTS
  Inventories,    \* the inventories the account can have (id -> alias maps)
  Tasks,          \* identities of asyncio check tasks
  None,           \* no task, no answer
  MaxChanges,     \* bound: changes of the account
  MaxRequests     \* bound: refresh_devices calls and duplicate notifications

ASSUME NoneAssumption == None \notin Inventories \cup Tasks
ASSUME BoundsAssumption == MaxChanges \in Nat /\ MaxRequests \in Nat

VARIABLES
  cloud,      \* the account's inventory
  changes,    \* changes made so far (bound)
  requests,   \* explicit requests made so far (bound)
  notices,    \* device notifications not yet delivered
  notified,   \* history: the last change found us subscribed
  phase,      \* where set-up, run and unload of the entry stand
  after,      \* what follows the unload in progress
  loaded,     \* the inventory the running coordinators were built from
  subscribed, \* push notifications of device changes are on
  known,      \* _known_inventory
  pending,    \* _inventory_check_pending
  closing,    \* _closing
  handle,     \* _inventory_task
  pc,         \* where each check task stands
  answer,     \* the GET answer a task is about to process
  failed      \* history: the last check failed, and no other began since

account == <<cloud, changes, notices, notified>>
entry == <<phase, after, loaded, subscribed>>
mqtt == <<known, pending, closing, handle>>
tasks == <<pc, answer, failed>>
vars == <<account, requests, entry, mqtt, tasks>>

Phase == {"setup_list", "setup_connect", "setup_platforms", "loaded",
          "unloading", "unloaded"}
InLoop == {"sleeping", "fetching", "answered"}
PC == InLoop \cup {"done", "waiting", "reloading"}

Looping == {t \in Tasks : pc[t] \in InLoop}

\* A ThinQMQTT object exists, and messages reach it, in these phases.
Running == phase \in {"setup_platforms", "loaded", "unloading"}

Init ==
  /\ cloud \in Inventories
  /\ changes = 0
  /\ requests = 0
  /\ notices = 0
  /\ notified = FALSE
  /\ phase = "setup_list"
  /\ after = "stop"
  /\ loaded = cloud
  /\ subscribed = FALSE
  /\ known = cloud
  /\ pending = FALSE
  /\ closing = FALSE
  /\ handle = None
  /\ pc = [t \in Tasks |-> "done"]
  /\ answer = [t \in Tasks |-> None]
  /\ failed = FALSE

-----------------------------------------------------------------------------
(***************************************************************************)
(* The LG account.                                                         *)
(***************************************************************************)
CloudChange ==
  /\ changes < MaxChanges
  /\ changes' = changes + 1
  /\ \E inventory \in Inventories \ {cloud} : cloud' = inventory
  /\ notices' = IF subscribed THEN notices + 1 ELSE notices
  /\ notified' = subscribed
  /\ UNCHANGED <<requests, entry, mqtt, tasks>>

\* A notification addressed to an object that is gone.
LoseNotice ==
  /\ ~Running
  /\ notices > 0
  /\ notices' = notices - 1
  /\ UNCHANGED <<cloud, changes, notified, requests, entry, mqtt, tasks>>

(***************************************************************************)
(* ThinQMQTT._schedule_inventory_check                                     *)
(***************************************************************************)
\* Mutant: a burst starts a task per notification.
ScheduleEach ==
  IF closing
  THEN UNCHANGED <<pending, handle, pc, failed>>
  ELSE /\ pending' = TRUE
       /\ \E t \in Tasks : /\ pc[t] = "done"
                           /\ handle' = t
                           /\ pc' = [pc EXCEPT ![t] = "sleeping"]
       /\ failed' = FALSE

\* Mutant: a request that finds a task running is dropped.
ScheduleOnce ==
  IF closing \/ handle # None
  THEN UNCHANGED <<pending, handle, pc, failed>>
  ELSE /\ pending' = TRUE
       /\ \E t \in Tasks : /\ pc[t] = "done"
                           /\ handle' = t
                           /\ pc' = [pc EXCEPT ![t] = "sleeping"]
       /\ failed' = FALSE

Schedule ==
  IF closing
  THEN UNCHANGED <<pending, handle, pc, failed>>
  ELSE /\ pending' = TRUE
       /\ IF handle # None
          THEN UNCHANGED <<handle, pc, failed>>
          ELSE /\ failed' = FALSE
               /\ \E t \in Tasks : /\ pc[t] = "done"
                                   /\ handle' = t
                                   /\ pc' = [pc EXCEPT ![t] = "sleeping"]

\* DEVICE_REGISTERED, _UNREGISTERED or _ALIAS_CHANGED reaches the event loop.
DeliverNotice ==
  /\ Running
  /\ notices > 0
  /\ notices' = notices - 1
  /\ Schedule
  /\ UNCHANGED <<cloud, changes, notified, requests, entry, known, closing, answer>>

\* refresh_devices, a message for an unknown device, a duplicated notification
\* or a subscription audit that saw a difference.
RequestCheck ==
  /\ Running
  /\ requests < MaxRequests
  /\ requests' = requests + 1
  /\ Schedule
  /\ UNCHANGED <<account, entry, known, closing, answer>>

(***************************************************************************)
(* ThinQMQTT._async_check_device_inventory, cut at its awaits.             *)
(***************************************************************************)
Goto(t, label) == pc' = [pc EXCEPT ![t] = label]

\* The sleep ends: the flag is cleared before the list is asked for.
Wake(t) ==
  /\ pc[t] = "sleeping"
  /\ pending' = FALSE
  /\ Goto(t, "fetching")
  /\ UNCHANGED <<account, requests, entry, known, closing, handle, answer, failed>>

\* LG answers with the inventory of this moment.
Answer(t) ==
  /\ pc[t] = "fetching"
  /\ answer' = [answer EXCEPT ![t] = cloud]
  /\ Goto(t, "answered")
  /\ UNCHANGED <<account, requests, entry, mqtt, failed>>

\* The GET raises, as it does on a malformed list: the task ends, its handle is
\* cleared and the flag is not looked at.
Fail(t) ==
  /\ pc[t] = "fetching"
  /\ handle' = None
  /\ failed' = TRUE
  /\ Goto(t, "done")
  /\ UNCHANGED <<account, requests, entry, known, pending, closing, answer>>

\* Mutant: the loop does not look at the flag again.
UnchangedNoLoop(t) ==
  /\ pc[t] = "answered"
  /\ answer[t] = known
  /\ handle' = None
  /\ Goto(t, "done")
  /\ answer' = [answer EXCEPT ![t] = None]
  /\ UNCHANGED <<account, requests, entry, known, pending, closing, failed>>

\* Nothing changed: once more round the loop if the flag was set meanwhile.
Unchanged(t) ==
  /\ pc[t] = "answered"
  /\ answer[t] = known
  /\ IF pending
     THEN Goto(t, "sleeping") /\ UNCHANGED handle
     ELSE Goto(t, "done") /\ handle' = None
  /\ answer' = [answer EXCEPT ![t] = None]
  /\ UNCHANGED <<account, requests, entry, known, pending, closing, failed>>

\* Mutant: the handle still points to the task when it asks for the reload.
ChangedKeepsHandle(t) ==
  /\ pc[t] = "answered"
  /\ answer[t] # known
  /\ known' = answer[t]
  /\ Goto(t, "waiting")
  /\ answer' = [answer EXCEPT ![t] = None]
  /\ UNCHANGED <<account, requests, entry, pending, closing, handle, failed>>

\* A change: remember it, let go of the handle and ask for a reload, which
\* waits for the set-up lock of the entry.
Changed(t) ==
  /\ pc[t] = "answered"
  /\ answer[t] # known
  /\ known' = answer[t]
  /\ handle' = None
  /\ Goto(t, "waiting")
  /\ answer' = [answer EXCEPT ![t] = None]
  /\ UNCHANGED <<account, requests, entry, pending, closing, failed>>

(***************************************************************************)
(* Unload and set-up.                                                      *)
(***************************************************************************)
\* ThinQMQTT.async_disconnect up to its first await: no new check, and the
\* task of the handle is cancelled; a reload that task was carrying out stops.
Disconnect(next) ==
  /\ phase' = "unloading"
  /\ closing' = TRUE
  /\ handle' = None
  /\ after' = IF handle # None /\ pc[handle] \in {"waiting", "reloading"}
              THEN "stop" ELSE next

Cancelled(f) == IF handle = None THEN f ELSE [f EXCEPT ![handle] = "done"]

\* The reload a task asked for gets the lock.
ReloadStarts(t) ==
  /\ pc[t] = "waiting"
  /\ phase = "loaded"
  /\ Disconnect("reload")
  /\ pc' = Cancelled([pc EXCEPT ![t] = "reloading"])
  /\ UNCHANGED <<account, requests, loaded, subscribed, known, pending, answer, failed>>

\* The user disables, removes or reloads the entry.
UserUnloads ==
  /\ phase = "loaded"
  /\ \E next \in {"stop", "reload"} : Disconnect(next)
  /\ requests < MaxRequests
  /\ requests' = requests + 1
  /\ pc' = Cancelled(pc)
  /\ UNCHANGED <<account, loaded, subscribed, known, pending, answer, failed>>

\* Subscriptions are dropped and the platforms unloaded.
Unloaded ==
  /\ phase = "unloading"
  /\ subscribed' = FALSE
  /\ phase' = IF after = "reload" THEN "setup_list" ELSE "unloaded"
  /\ UNCHANGED <<account, requests, after, loaded, mqtt, tasks>>

\* A reload of an entry that was disabled meanwhile does nothing.
ReloadPointless(t) ==
  /\ pc[t] = "waiting"
  /\ phase = "unloaded"
  /\ Goto(t, "done")
  /\ UNCHANGED <<account, requests, entry, mqtt, answer, failed>>

\* The device list is read and the coordinators built from it.
SetupList ==
  /\ phase = "setup_list"
  /\ loaded' = cloud
  /\ phase' = "setup_connect"
  /\ UNCHANGED <<account, requests, after, subscribed, mqtt, tasks>>

\* A new ThinQMQTT object subscribes and connects.
SetupConnect ==
  /\ phase = "setup_connect"
  /\ known' = loaded
  /\ pending' = FALSE
  /\ closing' = FALSE
  /\ handle' = None
  /\ subscribed' = TRUE
  /\ failed' = FALSE
  /\ phase' = "setup_platforms"
  /\ UNCHANGED <<account, requests, after, loaded, pc, answer>>

\* The platforms are set up, the lock is released and async_reload returns.
SetupDone ==
  /\ phase = "setup_platforms"
  /\ phase' = "loaded"
  /\ pc' = [t \in Tasks |-> IF pc[t] = "reloading" THEN "done" ELSE pc[t]]
  /\ UNCHANGED <<account, requests, after, loaded, subscribed, mqtt, answer, failed>>

-----------------------------------------------------------------------------
Check(t) ==
  \/ Wake(t)
  \/ Answer(t)
  \/ Unchanged(t)
  \/ Changed(t)
  \/ ReloadStarts(t)
  \/ ReloadPointless(t)

EntryStep == Unloaded \/ SetupList \/ SetupConnect \/ SetupDone

Next ==
  \/ CloudChange
  \/ LoseNotice
  \/ DeliverNotice
  \/ RequestCheck
  \/ \E t \in Tasks : Check(t) \/ Fail(t)
  \/ UserUnloads
  \/ EntryStep

Spec == Init /\ [][Next]_vars

\* The event loop runs every task and delivers every message; sleeps end and
\* requests are answered or time out.  Nobody has to change the account.
FairSpec ==
  /\ Spec
  /\ WF_vars(DeliverNotice)
  /\ WF_vars(EntryStep)
  /\ \A t \in Tasks : WF_vars(Check(t) \/ Fail(t))

-----------------------------------------------------------------------------
(***************************************************************************)
(* Properties.                                                             *)
(***************************************************************************)
\* Every variable has its type.
TypeOK ==
  /\ cloud \in Inventories
  /\ changes \in Nat
  /\ requests \in Nat
  /\ notices \in Nat
  /\ notified \in BOOLEAN
  /\ phase \in Phase
  /\ after \in {"stop", "reload"}
  /\ loaded \in Inventories
  /\ subscribed \in BOOLEAN
  /\ known \in Inventories
  /\ pending \in BOOLEAN
  /\ closing \in BOOLEAN
  /\ handle \in Tasks \cup {None}
  /\ pc \in [Tasks -> PC]
  /\ answer \in [Tasks -> Inventories \cup {None}]
  /\ failed \in BOOLEAN

\* At most one check runs, it is the one the handle can cancel, and none runs
\* once the entry is being unloaded: cancelling the handle stops all checking.
ChecksOwned == \A t \in Looping : handle = t /\ ~closing

\* A request that is flagged is never left without a task that will serve it,
\* by another GET or by the reload it is waiting for, unless the check failed;
\* and then only until the next request.
PendingServed ==
  pending /\ ~closing => \/ handle \in Looping
                        \/ \E t \in Tasks : pc[t] = "waiting"
                        \/ failed

\* An unload no user asked for is followed by set-up: the reload is never
\* stopped by the cancellation that is part of its own unload.
ReloadSurvives ==
  [][phase = "loaded" /\ phase' = "unloading" /\ requests' = requests
       => after' = "reload"]_vars

\* A change the account announced ends up in the loaded entry, unless the user
\* stops the entry, the account changes while the entry is not subscribed, or
\* the check fails.  A request made after the failure starts the claim anew.
Converges ==
  (notified /\ loaded # cloud)
    ~> (loaded = cloud \/ phase = "unloaded" \/ ~notified \/ failed)

\* The docstring of _schedule_inventory_check: bursts are coalesced "without
\* dropping the final inventory change", so a flagged request is looked at.
FinalChangeNotDropped ==
  (pending /\ phase = "loaded") ~> (~pending \/ phase # "loaded")
=============================================================================
