------------------------ MODULE InventoryCheckProofs ------------------------
(***************************************************************************)
(* Theorems about InventoryCheck, for any set of inventories and of tasks. *)
(***************************************************************************)
EXTENDS InventoryCheck, TLAPS

\* The handle never points to a finished task or to one that left the loop.
HandleLoops == handle # None => handle \in Looping

\* Checking is confined to the phases in which a ThinQMQTT object is open.
OpenPhases ==
  /\ phase \in {"unloading", "unloaded"} => closing
  /\ phase \notin {"setup_platforms", "loaded"} => Looping = {}

\* A task about to compare has something to compare with.
AnswersThere == \A t \in Tasks : pc[t] = "answered" => answer[t] \in Inventories

\* Inductive: who may be looping follows from the handle, the handle from who
\* is looping, and both from the phase.
IInv == TypeOK /\ AnswersThere /\ ChecksOwned /\ HandleLoops /\ OpenPhases

USE DEF account, entry, mqtt, tasks, Looping, InLoop, PC, Phase

\* Before set-up there is no task, no handle and nothing to serve.
LEMMA InitialInvariant == Init => IInv
<1> SUFFICES ASSUME Init PROVE IInv
  OBVIOUS
<1>1. Looping = {}
  BY DEF Init
<1>2. TypeOK
  BY DEF Init, TypeOK
<1>3. QED
  BY <1>1, <1>2 DEF Init, IInv, AnswersThere, ChecksOwned, HandleLoops, OpenPhases

\* _schedule_inventory_check keeps one looping task, the one of the handle.
LEMMA SchedulePreserves ==
  ASSUME IInv, Running, Schedule,
         UNCHANGED <<cloud, changes, notified, entry, known, closing, answer>>,
         requests' \in Nat, notices' \in Nat
  PROVE  IInv'
<1>1. CASE closing
  BY <1>1 DEF Schedule, IInv, TypeOK, AnswersThere, ChecksOwned, HandleLoops, OpenPhases
<1>2. CASE ~closing /\ handle # None
  BY <1>2 DEF Schedule, IInv, TypeOK, AnswersThere, ChecksOwned, HandleLoops, OpenPhases
<1>3. CASE ~closing /\ handle = None
  <2>1. PICK t \in Tasks : /\ pc[t] = "done"
                           /\ handle' = t
                           /\ pc' = [pc EXCEPT ![t] = "sleeping"]
    BY <1>3 DEF Schedule
  <2>2. TypeOK'
    BY <1>3, <2>1 DEF Schedule, IInv, TypeOK
  <2>3. Looping = {}
    BY <1>3, NoneAssumption DEF IInv, TypeOK, ChecksOwned
  <2>4. Looping' = {t}
    BY <2>1, <2>3 DEF IInv, TypeOK
  <2>5. phase \in {"setup_platforms", "loaded"}
    BY <1>3 DEF Running, IInv, TypeOK, OpenPhases
  <2>6. QED
    BY <1>3, <2>1, <2>2, <2>4, <2>5
    DEF IInv, TypeOK, AnswersThere, ChecksOwned, HandleLoops, OpenPhases
<1>4. QED
  BY <1>1, <1>2, <1>3

\* async_disconnect leaves no looping task and names what follows the unload.
LEMMA DisconnectPreserves ==
  ASSUME IInv, NEW next \in {"stop", "reload"}, Disconnect(next),
         NEW f \in [Tasks -> PC],
         \A t \in Tasks : f[t] \in InLoop => pc[t] \in InLoop,
         pc' = Cancelled(f),
         UNCHANGED <<account, loaded, subscribed, known, pending, answer, failed>>,
         requests' \in Nat
  PROVE  IInv' /\ after' = next
<1>1. Looping' = {}
  <2>1. CASE handle = None
    BY <2>1, NoneAssumption DEF IInv, ChecksOwned, Cancelled
  <2>2. CASE handle # None
    <3>1. \A t \in Tasks : t # handle => f[t] \notin InLoop
      BY DEF IInv, ChecksOwned
    <3>2. pc' = [f EXCEPT ![handle] = "done"]
      BY <2>2 DEF Cancelled
    <3>3. QED
      BY <3>1, <3>2
  <2>3. QED
    BY <2>1, <2>2
<1>2. pc' \in [Tasks -> PC]
  BY DEF Cancelled
<1>3. after' = next
  BY DEF Disconnect, IInv, HandleLoops
<1>4. TypeOK'
  BY <1>2, <1>3 DEF Disconnect, IInv, TypeOK
<1>5. QED
  BY <1>1, <1>3, <1>4
  DEF Disconnect, IInv, AnswersThere, ChecksOwned, HandleLoops, OpenPhases

\* Every action of the loop and of the check tasks keeps the invariant.
LEMMA StepInvariant == IInv /\ [Next]_vars => IInv'
<1> SUFFICES ASSUME IInv, [Next]_vars PROVE IInv'
  OBVIOUS
<1> USE DEF IInv, AnswersThere, ChecksOwned, HandleLoops, OpenPhases
<1>1. CASE CloudChange
  BY <1>1 DEF CloudChange, TypeOK
<1>2. CASE LoseNotice
  BY <1>2 DEF LoseNotice, TypeOK
<1>3. CASE DeliverNotice
  <2>1. notices' \in Nat
    BY <1>3 DEF DeliverNotice, TypeOK
  <2>2. QED
    BY <1>3, <2>1, SchedulePreserves DEF DeliverNotice, TypeOK
<1>4. CASE RequestCheck
  BY <1>4, SchedulePreserves DEF RequestCheck, TypeOK
<1>5. ASSUME NEW t \in Tasks, Wake(t)
      PROVE  IInv'
  BY <1>5 DEF Wake, Goto, TypeOK
<1>6. ASSUME NEW t \in Tasks, Answer(t)
      PROVE  IInv'
  BY <1>6 DEF Answer, Goto, TypeOK
<1>7. ASSUME NEW t \in Tasks, Unchanged(t)
      PROVE  IInv'
  BY <1>7 DEF Unchanged, Goto, TypeOK
<1>8. ASSUME NEW t \in Tasks, Changed(t)
      PROVE  IInv'
  <2>1. answer[t] \in Inventories
    BY <1>8 DEF Changed
  <2>2. QED
    BY <1>8, <2>1 DEF Changed, Goto, TypeOK
<1>9. ASSUME NEW t \in Tasks, ReloadStarts(t)
      PROVE  IInv'
  <2> DEFINE f == [pc EXCEPT ![t] = "reloading"]
  <2>1. /\ f \in [Tasks -> PC]
        /\ \A u \in Tasks : f[u] \in InLoop => pc[u] \in InLoop
        /\ pc' = Cancelled(f)
    BY <1>9 DEF ReloadStarts, TypeOK
  <2>2. Disconnect("reload") /\ requests' \in Nat
        /\ UNCHANGED <<account, loaded, subscribed, known, pending, answer, failed>>
    BY <1>9 DEF ReloadStarts, TypeOK
  <2> HIDE DEF f
  <2>3. QED
    BY <2>1, <2>2, DisconnectPreserves
<1>10. ASSUME NEW t \in Tasks, ReloadPointless(t)
       PROVE  IInv'
  BY <1>10 DEF ReloadPointless, Goto, TypeOK
<1>11. ASSUME NEW t \in Tasks, Fail(t)
       PROVE  IInv'
  BY <1>11 DEF Fail, Goto, TypeOK
<1>12. CASE UserUnloads
  BY <1>12, DisconnectPreserves DEF UserUnloads, TypeOK
<1>13. CASE Unloaded
  BY <1>13 DEF Unloaded, TypeOK
<1>14. CASE SetupList
  BY <1>14 DEF SetupList, TypeOK
<1>15. CASE SetupConnect
  BY <1>15 DEF SetupConnect, TypeOK
<1>16. CASE SetupDone
  BY <1>16 DEF SetupDone, TypeOK
<1>17. CASE UNCHANGED vars
  BY <1>17 DEF vars, TypeOK
<1>18. QED
  BY <1>1, <1>2, <1>3, <1>4, <1>5, <1>6, <1>7, <1>8, <1>9, <1>10, <1>11, <1>12,
     <1>13, <1>14, <1>15, <1>16, <1>17 DEF Next, Check, EntryStep

\* The inductive invariant of the check tasks holds in every reachable state.
THEOREM Invariance == Spec => []IInv
BY InitialInvariant, StepInvariant, PTL DEF Spec

\* One check at a time, owned by the handle, and none while the entry unloads.
THEOREM ChecksAreOwned == Spec => []ChecksOwned
BY Invariance, PTL DEF IInv

\* The comment in _async_check_device_inventory: "Unload must not cancel the
\* task that requested its own reload."
THEOREM ReloadNotCancelled == Spec => ReloadSurvives
<1> DEFINE A == phase = "loaded" /\ phase' = "unloading" /\ requests' = requests
                  => after' = "reload"
<1>1. ASSUME IInv, [Next]_vars
      PROVE  [A]_vars
  <2>1. ASSUME NEW t \in Tasks, ReloadStarts(t)
        PROVE  A
    BY <1>1, <2>1 DEF ReloadStarts, Disconnect, IInv, HandleLoops
  <2>2. CASE UserUnloads
    BY <1>1, <2>2 DEF UserUnloads, IInv, TypeOK
  <2>3. CASE UNCHANGED phase
    BY <2>3
  <2>4. QED
    BY <1>1, <2>1, <2>2, <2>3
    DEF Next, Check, EntryStep, CloudChange, LoseNotice, DeliverNotice,
        RequestCheck, Wake, Answer, Unchanged, Changed, Fail, ReloadPointless,
        Unloaded, SetupList, SetupConnect, SetupDone, vars
<1>2. QED
  BY <1>1, Invariance, PTL DEF Spec, ReloadSurvives

\* No flagged request is left without a task to serve it, unless the check
\* failed: what "without dropping the final inventory change" asks of the
\* coalescing.
THEOREM RequestsServed == Spec => []PendingServed
<1>1. Init => PendingServed
  BY DEF Init, PendingServed
<1>2. ASSUME IInv, PendingServed, [Next]_vars
      PROVE  PendingServed'
  <2> USE DEF PendingServed
  <2>1. ASSUME Schedule, UNCHANGED closing
        PROVE  PendingServed'
    <3>1. CASE closing
      BY <2>1, <3>1 DEF Schedule
    <3>2. CASE ~closing /\ handle # None
      BY <1>2, <2>1, <3>2 DEF Schedule, IInv, HandleLoops
    <3>3. CASE ~closing /\ handle = None
      BY <1>2, <2>1, <3>3 DEF Schedule, IInv, TypeOK
    <3>4. QED
      BY <3>1, <3>2, <3>3
  <2>2. CASE DeliverNotice \/ RequestCheck
    BY <2>1, <2>2 DEF DeliverNotice, RequestCheck
  <2>3. ASSUME NEW t \in Tasks, Wake(t) \/ Fail(t)
        PROVE  PendingServed'
    BY <2>3 DEF Wake, Fail
  <2>4. ASSUME NEW t \in Tasks, Answer(t)
        PROVE  PendingServed'
    BY <1>2, <2>4 DEF Answer, Goto, IInv, TypeOK
  <2>5. ASSUME NEW t \in Tasks, Unchanged(t)
        PROVE  PendingServed'
    BY <1>2, <2>5 DEF Unchanged, Goto, IInv, TypeOK, ChecksOwned
  <2>6. ASSUME NEW t \in Tasks, Changed(t)
        PROVE  PendingServed'
    BY <1>2, <2>6 DEF Changed, Goto, IInv, TypeOK
  <2>7. ASSUME NEW t \in Tasks, ReloadStarts(t)
        PROVE  PendingServed'
    BY <2>7 DEF ReloadStarts, Disconnect
  <2>8. ASSUME NEW t \in Tasks, ReloadPointless(t)
        PROVE  PendingServed'
    BY <1>2, <2>8 DEF ReloadPointless, IInv, OpenPhases
  <2>9. CASE UserUnloads
    BY <2>9 DEF UserUnloads, Disconnect
  <2>10. CASE SetupConnect
    BY <2>10 DEF SetupConnect
  <2>11. CASE SetupDone
    <3>1. \A t \in Tasks : pc[t] # "reloading" => pc'[t] = pc[t]
      BY <1>2, <2>11 DEF SetupDone, IInv, TypeOK
    <3>2. QED
      BY <1>2, <2>11, <3>1 DEF SetupDone
  <2>12. CASE CloudChange \/ LoseNotice \/ Unloaded \/ SetupList \/ UNCHANGED vars
    BY <1>2, <2>12 DEF CloudChange, LoseNotice, Unloaded, SetupList, vars
  <2>13. QED
    BY <1>2, <2>2, <2>3, <2>4, <2>5, <2>6, <2>7, <2>8, <2>9, <2>10, <2>11, <2>12
    DEF Next, Check, EntryStep
<1>3. QED
  BY <1>1, <1>2, Invariance, PTL DEF Spec
=============================================================================
