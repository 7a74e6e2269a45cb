--------------------------- MODULE EntitiesProofs ---------------------------
(***************************************************************************)
(* What Entities promises for every value of its constants.                *)
(*                                                                         *)
(* The entry: whatever step of set-up or unload fails, and however often   *)
(* it is tried, no session or timer is left, a removed energy entity goes  *)
(* on only if it was waiting for LG, and a history is lost only to an      *)
(* older Monitoring.  Errors: what is fired and shown as one is the last   *)
(* thing LG said of it, and no error the monitoring was given is missing   *)
(* from the history.  Timers: the moment shown is the one LG told of.      *)
(* Properties: a select, a number and a sensor keep to the profile.        *)
(* Climate: what is shown is what the appliance does, the range is that of *)
(* the property written to, and a call that nothing disturbs gets what it  *)
(* asked for.  Door and oven: no duration reaches back over a gap.  The    *)
(* other appliances: a speed shown leads back to itself, and a call that   *)
(* ends has had done what it was asked for.                                *)
(*                                                                         *)
(* The variables of a part are those Entities gives its instance; the      *)
(* invariants they keep are defined in the part's own module.              *)
(***************************************************************************)
EXTENDS Entities, SequenceTheorems, FiniteSetTheorems, TLAPS

-----------------------------------------------------------------------------
(***************************************************************************)
(* The entry, whatever else there is.                                      *)
(***************************************************************************)
SetUp == <<phase, gen, mqtt, ticking>>
Energy == <<entity, armed, asking, orphans>>

\* Of the set-up under way: what each phase has started and stopped.
Owned ==
  /\ mqtt \subseteq {gen} /\ ticking \subseteq {gen}
  /\ phase \in {"out", "inventory", "mqtt", "unloading", "closing"} => mqtt = {}
  /\ phase \in {"out", "inventory", "mqtt", "platforms"} => ticking = {}

\* Whatever may save belongs to a set-up that has begun, and was loaded.
Begun ==
  /\ gen \in Int
  /\ \A g \in dirty \cup ticking \cup armed \cup asking \cup serving :
       g \in Generations /\ g <= gen /\ (phase = "inventory" => g < gen)
  /\ phase # "out" => gen \in Generations

\* The file, and the Monitoring that was loaded from it, hold what was closed.
Held ==
  /\ disk \in Int /\ closed \in Int /\ count \in [Generations -> Int]
  /\ ~overwritten => /\ disk >= closed
                     /\ phase \notin {"out", "inventory"} => count[gen] >= closed

----------------------------------------------------------------------------
\* Every step keeps what a set-up has started and stopped.
LEMMA OwnedStep == Owned /\ [Next]_vars => Owned'
<1> SUFFICES ASSUME Owned, [Next]_vars PROVE Owned'
  OBVIOUS
<1>1. ASSUME UNCHANGED SetUp PROVE Owned'
  BY <1>1 DEF SetUp, Owned
<1>2. CASE Start \/ Loaded \/ NotReady \/ Connected \/ NotConnected
  BY <1>2 DEF Owned, Start, Loaded, NotReady, Connected, NotConnected
<1>3. CASE NotForwarded \/ Forwarded \/ Cleaned \/ Unload
  BY <1>3 DEF Owned, NotForwarded, Forwarded, Cleaned, Unload
<1>4. CASE PlatformsUnloaded \/ NotUnloaded \/ Close
  BY <1>4 DEF Owned, PlatformsUnloaded, NotUnloaded, Close
<1>5. ASSUME NEW clean \in BOOLEAN, Restart(clean) PROVE Owned'
  BY <1>5 DEF Owned, Restart
<1>6. CASE Added \/ Observe \/ Serve
  BY <1>1, <1>6 DEF SetUp, Added, Observe, Serve
<1>7. ASSUME NEW g \in Generations,
             Tick(g) \/ Save(g) \/ Ask(g) \/ Answer(g) \/ Served(g)
      PROVE Owned'
  BY <1>1, <1>7 DEF SetUp, Tick, Save, Ask, Answer, Served
<1>8. CASE UNCHANGED vars
  BY <1>1, <1>8 DEF SetUp, vars
<1> QED BY <1>2, <1>3, <1>4, <1>5, <1>6, <1>7, <1>8 DEF Next

\* Every step keeps that an energy entity that was removed asks LG only if it was asking
\* when it was removed (ThinQEnergySensorEntity.async_will_remove_from_hass).
LEMMA OrphansStep == OrphansWereAsking /\ [Next]_vars => OrphansWereAsking'
<1> SUFFICES ASSUME OrphansWereAsking, [Next]_vars PROVE OrphansWereAsking'
  OBVIOUS
<1>1. ASSUME UNCHANGED Energy PROVE OrphansWereAsking'
  BY <1>1 DEF Energy, OrphansWereAsking
<1>2. CASE Added
  BY <1>2 DEF OrphansWereAsking, Added
<1>3. CASE PlatformsUnloaded
  BY <1>3 DEF OrphansWereAsking, PlatformsUnloaded
<1>4. ASSUME NEW clean \in BOOLEAN, Restart(clean) PROVE OrphansWereAsking'
  BY <1>4 DEF OrphansWereAsking, Restart
<1>5. ASSUME NEW g \in Generations, Ask(g) \/ Answer(g) PROVE OrphansWereAsking'
  BY <1>5 DEF OrphansWereAsking, Ask, Answer
<1>6. CASE Start \/ Loaded \/ NotReady \/ Connected \/ NotConnected
  BY <1>1, <1>6 DEF Energy, energy, Start, Loaded, NotReady, Connected, NotConnected
<1>7. CASE NotForwarded \/ Forwarded \/ Cleaned \/ Observe \/ Serve
  BY <1>1, <1>7 DEF Energy, energy, NotForwarded, Forwarded, Cleaned, Observe, Serve
<1>8. CASE Unload \/ NotUnloaded \/ Close
  BY <1>1, <1>8 DEF Energy, energy, Unload, NotUnloaded, Close
<1>9. ASSUME NEW g \in Generations, Tick(g) \/ Save(g) \/ Served(g)
      PROVE OrphansWereAsking'
  BY <1>1, <1>9 DEF Energy, energy, Tick, Save, Served
<1>10. CASE UNCHANGED vars
  BY <1>1, <1>10 DEF Energy, vars, energy
<1> QED BY <1>2, <1>3, <1>4, <1>5, <1>6, <1>7, <1>8, <1>9, <1>10 DEF Next

\* A failed or unloaded set-up leaves no session and no timer but that of an energy
\* entity that was waiting for LG (async_setup_entry's except clause,
\* async_unload_entry, Monitoring.close).
THEOREM NothingIsLeft == Spec => []NothingLeft
<1>1. Init => Owned /\ OrphansWereAsking
  BY DEF Init, Owned, OrphansWereAsking
<1>2. Owned /\ OrphansWereAsking => NothingLeft
  BY DEF Owned, NothingLeft
<1> QED BY <1>1, <1>2, OwnedStep, OrphansStep, PTL DEF Spec

----------------------------------------------------------------------------
\* Only begun set-ups ever come to hold a pending save, a timer or a request.
LEMMA BegunStep ==
  ASSUME Generations \subseteq Int
  PROVE  Owned /\ Begun /\ [Next]_vars => Begun'
<1> SUFFICES ASSUME Owned, Begun, [Next]_vars PROVE Begun'
  OBVIOUS
<1> USE DEF Begun
<1>1. CASE Start
  <2>1. /\ gen' = gen + 1 /\ gen' \in Generations
        /\ UNCHANGED <<dirty, ticking, armed, asking, serving>>
    BY <1>1 DEF Start, files, energy
  <2>2. ASSUME NEW g \in dirty \cup ticking \cup armed \cup asking \cup serving
        PROVE g \in Generations /\ g <= gen' /\ g < gen'
    <3>1. g \in Int /\ g \in Generations /\ g <= gen
      OBVIOUS
    <3> QED BY <2>1, <3>1
  <2> QED BY <2>1, <2>2
<1>2. CASE Loaded \/ NotReady \/ Connected \/ NotConnected
  BY <1>2 DEF Loaded, NotReady, Connected, NotConnected, files, energy, ghosts
<1>3. CASE Added \/ NotForwarded \/ Forwarded \/ Cleaned
  BY <1>3 DEF Added, NotForwarded, Forwarded, Cleaned, files, energy, ghosts
<1>4. CASE Observe
  BY <1>4 DEF Observe, Owned, energy, ghosts
<1>5. CASE Serve \/ Unload
  BY <1>5 DEF Serve, Unload, files, energy, ghosts
<1>6. CASE PlatformsUnloaded \/ NotUnloaded \/ Close
  BY <1>6 DEF PlatformsUnloaded, NotUnloaded, Close, files, energy, ghosts
<1>7. ASSUME NEW g \in Generations, Tick(g) \/ Save(g) \/ Ask(g) PROVE Begun'
  BY <1>7 DEF Tick, Save, Ask, files, energy, ghosts
<1>8. ASSUME NEW g \in Generations, Answer(g) \/ Served(g) PROVE Begun'
  BY <1>8 DEF Answer, Served, energy, ghosts
<1>9. ASSUME NEW clean \in BOOLEAN, Restart(clean) PROVE Begun'
  BY <1>9 DEF Restart
<1>10. CASE UNCHANGED vars
  BY <1>10 DEF vars, files, energy, ghosts
<1> QED BY <1>1, <1>2, <1>3, <1>4, <1>5, <1>6, <1>7, <1>8, <1>9, <1>10 DEF Next

\* The history stays at least what was closed until an older set-up saves less.
LEMMA HeldStep ==
  ASSUME Generations \subseteq Int
  PROVE  Owned /\ Begun /\ Held /\ [Next]_vars => Held'
<1> SUFFICES ASSUME Owned, Begun, Held, [Next]_vars PROVE Held'
  OBVIOUS
<1>1. CASE Start
  BY <1>1 DEF Held, Start, files, ghosts
<1>2. CASE Loaded
  BY <1>2 DEF Held, Begun, Loaded, ghosts
<1>3. CASE NotReady \/ Connected \/ NotConnected \/ Added \/ NotForwarded \/ Forwarded
  BY <1>3 DEF Held, NotReady, Connected, NotConnected, Added, NotForwarded, Forwarded,
              files, ghosts
<1>4. CASE Cleaned \/ Serve \/ Unload \/ PlatformsUnloaded \/ NotUnloaded
  BY <1>4 DEF Held, Cleaned, Serve, Unload, PlatformsUnloaded, NotUnloaded, files, ghosts
<1>5. CASE Observe
  <2>1. phase \notin {"out", "inventory"} /\ gen \in Generations
    BY <1>5 DEF Observe, Owned, Begun
  <2> QED BY <1>5, <2>1 DEF Held, Observe, ghosts
<1>6. CASE Close
  BY <1>6 DEF Held, Begun, Close
<1>7. ASSUME NEW g \in Generations, Save(g) PROVE Held'
  <2>1. g \in dirty /\ g <= gen /\ (phase = "inventory" => g < gen) /\ gen \in Int
    BY <1>7 DEF Save, Begun
  <2>2. CASE Old(g)
    <3>1. /\ disk' = count[g] /\ UNCHANGED <<phase, gen, count, closed>>
          /\ overwritten' <=> overwritten \/ count[g] < closed
      BY <1>7, <2>2, Zenon DEF Save
    <3>2. count[g] \in Int /\ (~(count[g] < closed) => count[g] >= closed)
      BY DEF Held
    <3> QED BY <3>1, <3>2 DEF Held
  <2>3. CASE ~Old(g)
    <3>1. g = gen /\ phase \notin {"out", "inventory"}
      BY <2>1, <2>3 DEF Old
    <3> QED BY <1>7, <2>3, <3>1 DEF Held, Save
  <2> QED BY <2>2, <2>3
<1>8. ASSUME NEW g \in Generations, Tick(g) \/ Ask(g) \/ Answer(g) \/ Served(g)
      PROVE Held'
  BY <1>8 DEF Held, Tick, Ask, Answer, Served, files, ghosts
<1>9. ASSUME NEW clean \in BOOLEAN, Restart(clean) PROVE Held'
  <2>1. disk' \in Int
    <3>1. (\E g \in dirty : disk' = count[g]) \/ disk' = disk
      BY <1>9 DEF Restart
    <3> QED BY <3>1 DEF Held, Begun
  <2>2. /\ phase' = "out" /\ count' = count
        /\ closed' = IF disk' < closed THEN disk' ELSE closed
    BY <1>9 DEF Restart
  <2> QED BY <2>1, <2>2 DEF Held
<1>10. CASE UNCHANGED vars
  BY <1>10 DEF Held, vars, files, ghosts
<1> QED BY <1>1, <1>2, <1>3, <1>4, <1>5, <1>6, <1>7, <1>8, <1>9, <1>10 DEF Next

\* What was observed until an entry was unloaded is there when it is set up again,
\* unless an older Monitoring has saved less since (Monitoring.load, close and the
\* delayed save of the Store).
THEOREM HistoryKept == Spec => []CountsKept
<1>1. Init => Owned /\ Begun /\ Held
  BY DEF Init, Owned, Begun, Held
<1>2. Owned /\ Begun /\ Held /\ [Next]_vars => (Owned /\ Begun /\ Held)'
  BY OwnedStep, BegunStep, HeldStep, BoundsAssumption
<1>3. Held => CountsKept
  BY DEF Held, CountsKept
<1> QED BY <1>1, <1>2, <1>3, PTL DEF Spec

\* Beside the other parts the entry behaves as it does alone (__init__.py knows nothing of
\* what its entities do), so the two theorems hold of every behaviour of EntitiesSpec too.
THEOREM EntryBeside == EntitiesSpec => Spec /\ []NothingLeft /\ []CountsKept
<1>1. EntitiesInit => Init
  BY DEF EntitiesInit
<1>2. [EntitiesNext]_all => [Next]_vars
  BY DEF EntitiesNext, all
<1>3. EntitiesSpec => Spec
  BY <1>1, <1>2, PTL DEF EntitiesSpec, Spec
<1> QED BY <1>3, NothingIsLeft, HistoryKept

-----------------------------------------------------------------------------
(***************************************************************************)
(* Errors and notifications.                                               *)
(***************************************************************************)
\* Behaviours of this part take its steps only.
LEMMA EventPart ==
  ASSUME part = "event", [EntitiesNext]_all
  PROVE  part' = part /\ [Event!Next]_Event!vars
BY DEF EntitiesNext, OthersNext, all, others, Event!vars, Event!states, Event!entities,
       Event!local

\* Entities that are updated with the states show and fire what was told.
LEMMA PresentedOfValue ==
  ASSUME Event!Told', Event!Updated
  PROVE  Event!Presented'
<1>1. x6'["error"] \in {"OK", x2'}
  BY DEF Event!Told, Event!Updated, Event!Shown, Event!Fields
<1>2. ASSUME NEW e \in x7', e[1] = "error" PROVE e[2] = x2'
  <2>1. PICK f \in Event!Fields : x5'[f] # None /\ e = <<f, x5'[f]>>
    BY <1>2 DEF Event!Updated, Event!FiredBy
  <2>2. f = "error"
    BY <1>2, <2>1
  <2> QED BY <2>1, <2>2 DEF Event!Told
<1> QED BY <1>1, <1>2 DEF Event!Presented

\* Every step keeps the states and what is presented of them together.
LEMMA ToldStep ==
  ASSUME Event!Told, Event!Presented, [Event!Next]_Event!vars
  PROVE  Event!Told' /\ Event!Presented'
<1>1. CASE Event!Fault \/ Event!Tick \/ Event!Gap
  BY <1>1 DEF Event!Told, Event!Presented, Event!Fault, Event!Tick, Event!Gap, Event!states
<1>2. CASE Event!Failed
  <2>1. Event!Told' /\ Event!Updated
    BY <1>2 DEF Event!Told, Event!Failed, Event!states
  <2> QED BY <2>1, PresentedOfValue
<1>3. ASSUME NEW b \in BOOLEAN, Event!Fetched(b) PROVE Event!Told' /\ Event!Presented'
  <2>1. Event!Told' /\ Event!Updated
    BY <1>3 DEF Event!Told, Event!Fetched, Event!StatesUpdated, Event!SetUpdated, Event!Fields
  <2> QED BY <2>1, PresentedOfValue
<1>4. ASSUME NEW b \in BOOLEAN, Event!Reported(b) PROVE Event!Told' /\ Event!Presented'
  <2>1. x4' \in {None, x2'} /\ x5' = [error |-> x4', notification |-> None]
    BY <1>4 DEF Event!Told, Event!Reported, Event!StatesUpdated
  <2>2. Event!Told' /\ Event!Updated
    BY <1>4, <2>1 DEF Event!Told, Event!Reported, Event!SetUpdated, Event!Fields
  <2> QED BY <2>2, PresentedOfValue
<1>5. ASSUME NEW m \in Messages, Event!Pushed(m) PROVE Event!Told' /\ Event!Presented'
  <2>1. Event!Told' /\ Event!Updated
    BY <1>5 DEF Event!Told, Event!Pushed, Event!SetUpdated, Event!Fields
  <2> QED BY <2>1, PresentedOfValue
<1>6. CASE UNCHANGED Event!vars
  BY <1>6 DEF Event!Told, Event!Presented, Event!vars, Event!states, Event!entities
<1> QED BY <1>1, <1>2, <1>3, <1>4, <1>5, <1>6 DEF Event!Next

\* What is fired at an update are the values of the states.
LEMMA UpdateFires ==
  ASSUME Event!Updated, NEW f \in {"error", "notification"}, NEW m, <<f, m>> \in x7'
  PROVE  x5'[f] = m /\ m # None
<1>1. PICK g \in Event!Fields : x5'[g] # None /\ <<f, m>> = <<g, x5'[g]>>
  BY DEF Event!Updated, Event!FiredBy
<1> QED BY <1>1

\* A reading of the states fires no notification.
LEMMA ReadingFiresNone ==
  ASSUME NEW b \in BOOLEAN, Event!Fetched(b) \/ Event!Reported(b)
  PROVE  /\ \A e \in x7' : e[1] # "notification"
         /\ x5'["notification"] = None /\ x12' = x12 + 0
<1>1. Event!Updated /\ x5' = [error |-> x4', notification |-> None] /\ Event!FiredFrom(x12)
  BY DEF Event!Fetched, Event!Reported, Event!StatesUpdated, Event!SetUpdated
<1>2. ASSUME NEW e \in x7', e[1] = "notification" PROVE FALSE
  <2>1. PICK g \in Event!Fields : x5'[g] # None /\ e = <<g, x5'[g]>>
    BY <1>1 DEF Event!Updated, Event!FiredBy
  <2> QED BY <1>1, <1>2, <2>1
<1>3. x12' = x12 + 0
  BY <1>1, <1>2, Zenon DEF Event!FiredFrom
<1> QED BY <1>1, <1>2, <1>3

\* A notification is fired by its arrival and by a poll that fails, and no other update:
\* it is in the states only until they are read again.
LEMMA NotificationFired ==
  ASSUME Event!Told, Event!Next, NEW m \in Messages, <<"notification", m>> \in x7'
  PROVE  Event!Pushed(m) \/ Event!Failed
<1>1. CASE Event!Fault \/ Event!Tick \/ Event!Gap
  BY <1>1 DEF Event!Fault, Event!Tick, Event!Gap
<1>2. ASSUME NEW b \in BOOLEAN, Event!Fetched(b) \/ Event!Reported(b) PROVE FALSE
  BY <1>2, ReadingFiresNone
<1>3. ASSUME NEW n \in Messages, Event!Pushed(n) PROVE Event!Pushed(m)
  <2>1. Event!Updated /\ x5' = [x5 EXCEPT !.notification = n]
    BY <1>3 DEF Event!Pushed, Event!SetUpdated
  <2>2. x5'["notification"] = m
    BY <2>1, UpdateFires
  <2>3. m = n
    BY <2>1, <2>2 DEF Event!Told, Event!Fields
  <2> QED BY <1>3, <2>3
<1> QED BY <1>1, <1>2, <1>3 DEF Event!Next

\* It is fired twice at most: a second time only by a poll that fails, after which
\* no other failure updates the entities until something has been read or pushed.
LEMMA TwiceStep ==
  ASSUME Event!Told, Event!FiredTwiceAtMost, [Event!Next]_Event!vars
  PROVE  Event!FiredTwiceAtMost'
<1> USE DEF Event!FiredTwiceAtMost
<1> DEFINE Fires == \E e \in x7' : e[1] = "notification"
<1>1. CASE Event!Fault \/ Event!Tick \/ Event!Gap
  BY <1>1 DEF Event!Fault, Event!Tick, Event!Gap, Event!states
<1>2. CASE Event!Failed
  <2>1. /\ x11 /\ x11' = FALSE /\ x5' = x5 /\ Event!Updated
        /\ x12' = x12 + (IF Fires THEN 1 ELSE 0)
    BY <1>2 DEF Event!Failed, Event!states, Event!FiredFrom
  <2>2. CASE x5["notification"] = None
    <3>1. ~Fires
      <4> SUFFICES ASSUME NEW e \in x7', e[1] = "notification" PROVE FALSE
        OBVIOUS
      <4>1. PICK g \in Event!Fields : x5'[g] # None /\ e = <<g, x5'[g]>>
        BY <2>1 DEF Event!Updated, Event!FiredBy
      <4> QED BY <2>1, <2>2, <4>1
    <3>2. x12' = x12 + 0
      BY <2>1, <3>1, Zenon
    <3> QED BY <2>1, <3>2
  <2>3. CASE x5["notification"] # None
    <3>1. x12 \in {0, 1} /\ ~x11'
      BY <2>1, <2>3
    <3>2. x12' = x12 + 1 \/ x12' = x12 + 0
      BY <2>1, Zenon
    <3> QED BY <3>1, <3>2
  <2> QED BY <2>2, <2>3
<1>3. ASSUME NEW b \in BOOLEAN, Event!Fetched(b) \/ Event!Reported(b)
      PROVE  Event!FiredTwiceAtMost'
  BY <1>3, ReadingFiresNone
<1>4. ASSUME NEW m \in Messages, Event!Pushed(m) PROVE Event!FiredTwiceAtMost'
  <2>1. x12' = 0 + (IF Fires THEN 1 ELSE 0)
    BY <1>4 DEF Event!Pushed, Event!FiredFrom
  <2>2. x12' = 0 + 1 \/ x12' = 0 + 0
    BY <2>1, Zenon
  <2> QED BY <2>2
<1>5. CASE UNCHANGED Event!vars
  BY <1>5 DEF Event!vars, Event!states, Event!entities
<1> QED BY <1>1, <1>2, <1>3, <1>4, <1>5 DEF Event!Next

\* An event entity fires, and a status sensor shows, the last error LG has told, and a
\* notification is fired when it comes, and once more at most (ThinQEventEntity,
\* ThinQEventStatusSensor, HABridge.update_notification, async_set_updated_data).
THEOREM LastErrorFired == EntitiesSpec => FiredWasSaid
<1> DEFINE Inv == part = "event" => Event!Told /\ Event!Presented /\ Event!FiredTwiceAtMost
           Said == part = "event" => Event!FiredIsLast' /\ Event!NotificationOnceStep
<1>1. EntitiesInit => Inv
  BY DEF EntitiesInit, Event!Init, Event!Told, Event!Presented, Event!FiredTwiceAtMost,
         Event!Shown, Event!Fields
<1>2. Inv /\ [EntitiesNext]_all => Inv'
  <2> SUFFICES ASSUME Inv, [EntitiesNext]_all, part' = "event"
               PROVE  Event!Told' /\ Event!Presented' /\ Event!FiredTwiceAtMost'
    OBVIOUS
  <2>1. part = "event"
    BY DEF EntitiesNext, all
  <2> QED BY <2>1, EventPart, ToldStep, TwiceStep
<1>3. Inv /\ Inv' /\ [EntitiesNext]_all => [Said]_all
  <2> SUFFICES ASSUME Inv, Inv', EntitiesNext, part = "event"
               PROVE  Event!FiredIsLast' /\ Event!NotificationOnceStep
    OBVIOUS
  <2>1. part' = part /\ Event!Next
    BY DEF EntitiesNext, OthersNext
  <2>2. Event!FiredIsLast'
    BY <2>1 DEF Event!Presented, Event!FiredIsLast
  <2>3. x12' <= 2
    BY <2>1 DEF Event!FiredTwiceAtMost
  <2> QED BY <2>1, <2>2, <2>3, NotificationFired DEF Event!NotificationOnceStep
<1> QED BY <1>1, <1>2, <1>3, PTL DEF EntitiesSpec, FiredWasSaid

\* The history holds what was given; the message that is not repeated within a minute
\* is the last one, and an alarming one is the last error too.
Kept ==
  /\ x8 \in Nat
  /\ x9 = [last |-> x9.last, at |-> x9.at, last_error |-> x9.last_error,
           error_at |-> x9.error_at, errors |-> x9.errors]
  /\ x13 = [last |-> x13.last, error |-> x13.error, at |-> x13.at, all |-> x13.all]
  /\ x9.at \in Nat /\ x9.error_at \in Nat /\ x9.errors \in Nat /\ x13.at \in Nat
  /\ x9.last = x13.last /\ x9.last_error = x13.error
  /\ x9.at <= x8 /\ x13.at - x9.error_at \in {0, 1}
  /\ x9.last \in Alarming =>
       x9.last_error = x9.last /\ x9.error_at = x9.at /\ x9.last \in x13.all
  /\ IsFiniteSet(x13.all) /\ Cardinality(x13.all) <= x9.errors

\* So was the error the monitoring has read last.
Standing == x10 \in Alarming => x10 \in x13.all

\* A message that is given is kept; it need not be when it is the last one anyway.
LEMMA GivenIsKept ==
  ASSUME Kept, NEW m, Event!Given(m), x8' = x8
  PROVE  Kept' /\ x13.all \subseteq x13'.all /\ (m \in Alarming => m \in x13'.all)
<1> USE DEF Kept
<1>1. x9' = Event!Recorded(x9, m)
  BY DEF Event!Given
<1>2. CASE m \in Alarming
  <2>1. x13' = [last |-> m, error |-> m, at |-> x8, all |-> x13.all \cup {m}]
    BY <1>2 DEF Event!Given
  <2>2. CASE x9.last = m /\ x8 - x9.at < 2
    <3>1. x9' = x9
      BY <1>1, <2>2 DEF Event!Recorded
    <3>2. x13.all \cup {m} = x13.all
      BY <1>2, <2>2
    <3>3. x8 - x9.error_at \in {0, 1}
      BY <1>2, <2>2
    <3> QED BY <1>2, <2>1, <2>2, <3>1, <3>2, <3>3
  <2>3. CASE ~(x9.last = m /\ x8 - x9.at < 2)
    <3>1. x9' = [last |-> m, at |-> x8, last_error |-> m, error_at |-> x8,
                 errors |-> x9.errors + 1]
      BY <1>1, <1>2, <2>3 DEF Event!Recorded, Event!Noted
    <3>2. /\ IsFiniteSet(x13.all \cup {m})
          /\ Cardinality(x13.all \cup {m}) <= x9.errors + 1
      <4>1. IsFiniteSet(x13.all) /\ Cardinality(x13.all) \in Nat
        BY FS_CardinalityType
      <4>2. /\ IsFiniteSet(x13.all \cup {m})
            /\ Cardinality(x13.all \cup {m}) = Cardinality(x13.all)
               \/ Cardinality(x13.all \cup {m}) = Cardinality(x13.all) + 1
        BY <4>1, FS_AddElement
      <4> QED BY <4>1, <4>2
    <3> QED BY <1>2, <2>1, <3>1, <3>2
  <2> QED BY <2>2, <2>3
<1>3. CASE m \notin Alarming
  <2>1. x13' = [last |-> m, error |-> x13.error, at |-> x13.at, all |-> x13.all]
    BY <1>3 DEF Event!Given
  <2>2. CASE x9.last = m /\ x8 - x9.at < 2
    <3>1. x9' = x9
      BY <1>1, <2>2 DEF Event!Recorded
    <3> QED BY <1>3, <2>1, <2>2, <3>1
  <2>3. CASE ~(x9.last = m /\ x8 - x9.at < 2)
    <3>1. x9' = [last |-> m, at |-> x8, last_error |-> x9.last_error,
                 error_at |-> x9.error_at, errors |-> x9.errors]
      BY <1>1, <1>3, <2>3 DEF Event!Recorded, Event!Noted
    <3> QED BY <1>3, <2>1, <3>1
  <2> QED BY <2>2, <2>3
<1> QED BY <1>2, <1>3

\* An error that is read is kept, or was already: a reading that repeats it is no news.
LEMMA ObservedIsKept ==
  ASSUME Kept, Standing, Event!Observed, x8' = x8
  PROVE  Kept' /\ Standing'
<1>1. x10' = x5'.error
  BY DEF Event!Observed
<1>2. CASE x5'.error # None /\ x5'.error # x10
  <2>1. Event!Given(x5'.error)
    BY <1>2 DEF Event!Observed
  <2> QED BY <1>1, <2>1, GivenIsKept DEF Standing
<1>3. CASE ~(x5'.error # None /\ x5'.error # x10)
  <2>1. x13.all \cup ({x5'.error} \cap Alarming) = x13.all
    BY <1>3, EventAssumption DEF Standing
  <2>2. x9' = x9 /\ x13' = [x13 EXCEPT !.all = @ \cup ({x5'.error} \cap Alarming)]
    BY <1>3 DEF Event!Observed
  <2>3. x13' = x13
    BY <2>1, <2>2 DEF Kept
  <2> QED BY <1>1, <1>3, <2>2, <2>3, EventAssumption DEF Kept, Standing
<1> QED BY <1>2, <1>3

\* No step takes anything given out of the history.
LEMMA KeptStep ==
  ASSUME Kept, Standing, [Event!Next]_Event!vars
  PROVE  Kept' /\ Standing'
<1>1. CASE Event!Fault \/ Event!Tick \/ Event!Failed \/ Event!Gap
  <2>1. x9' = x9 /\ x13' = x13 /\ x8' \in Nat /\ x8' >= x8 /\ x10' \in {x10, None}
    BY <1>1 DEF Kept, Event!Fault, Event!Tick, Event!Failed, Event!Gap, Event!local
  <2> QED BY <2>1, EventAssumption DEF Kept, Standing
<1>2. ASSUME NEW b \in BOOLEAN, Event!Fetched(b) PROVE Kept' /\ Standing'
  <2>1. x8' = x8 /\ (Event!Observed \/ UNCHANGED <<x9, x10, x13>>)
    BY <1>2 DEF Event!Fetched, Event!local
  <2> QED BY <2>1, ObservedIsKept DEF Kept, Standing
<1>3. ASSUME NEW b \in BOOLEAN, Event!Reported(b) PROVE Kept' /\ Standing'
  BY <1>3, ObservedIsKept DEF Event!Reported
<1>4. ASSUME NEW m \in Messages, Event!Pushed(m) PROVE Kept' /\ Standing'
  <2>1. Event!Given(m) /\ x8' = x8 /\ x10' = x10
    BY <1>4 DEF Event!Pushed
  <2> QED BY <2>1, GivenIsKept DEF Standing
<1>5. CASE UNCHANGED Event!vars
  BY <1>5 DEF Kept, Standing, Event!vars, Event!local
<1> QED BY <1>1, <1>2, <1>3, <1>4, <1>5 DEF Event!Next

\* What the monitoring was given is in the local history: the minute in which a message
\* is not repeated never swallows another one, nor does a gap or a partial report lose
\* an alarming one (Observations.notification, Observations.observe, Observations.gap).
THEOREM GivenErrorsCounted == EntitiesSpec => []GivenIsCounted
<1> DEFINE Inv == part = "event" => Kept /\ Standing
<1>1. EntitiesInit => Inv
  <2> SUFFICES ASSUME EntitiesInit, part = "event" PROVE Kept /\ Standing
    OBVIOUS
  <2>1. Event!Init
    BY DEF EntitiesInit
  <2> QED BY <2>1, EventAssumption, FS_EmptySet DEF Event!Init, Kept, Standing
<1>2. Inv /\ [EntitiesNext]_all => Inv'
  <2> SUFFICES ASSUME Inv, [EntitiesNext]_all, part' = "event" PROVE Kept' /\ Standing'
    OBVIOUS
  <2>1. part = "event"
    BY DEF EntitiesNext, all
  <2> QED BY <2>1, EventPart, KeptStep
<1>3. Inv => GivenIsCounted
  <2>1. Event!Cardinality(x13.all) = Cardinality(x13.all)
    BY DEF Event!Cardinality, Event!IsFiniteSet, Cardinality, IsFiniteSet
  <2> QED BY <2>1 DEF GivenIsCounted, Kept, Event!GivenIsCounted
<1> QED BY <1>1, <1>2, <1>3, PTL DEF EntitiesSpec

-----------------------------------------------------------------------------
(***************************************************************************)
(* The timer sensor: x1 is its key, x2 the clock, x3 whether the appliance *)
(* runs, x4 what is left and x5 what was spent, x6 whether it is on, x7    *)
(* the reading, x8 the state reported, x9 what is shown, x10 whether the   *)
(* run was even.                                                           *)
(***************************************************************************)
\* A step of the timer's part is one of the sensor and its appliance.
LEMMA TimerPart ==
  ASSUME part = "timer", [EntitiesNext]_all
  PROVE  part' = part /\ [Timer!Next]_Timer!vars
BY DEF EntitiesNext, OthersNext, all, others, Timer!vars

\* Minutes of a time in half minutes lose half a minute at most.
LEMMA Halves ==
  ASSUME NEW n \in Nat
  PROVE  /\ n \div 2 \in Nat /\ 2 * (n \div 2) \in Nat
         /\ 2 * (n \div 2) <= n /\ n - 1 <= 2 * (n \div 2)
         /\ n >= 2 => 2 * (n \div 2) >= 2
         /\ n < 2 => 2 * (n \div 2) = 0
         /\ 2 * (n \div 2) # 0 => n >= 2
OBVIOUS

TimerInv == Timer!TypeOK /\ x1 \in Timer!Keys /\ Timer!Even /\ Timer!OffShowsNothing

\* The times of the appliance are numbers.
LEMMA TimerTyped ==
  ASSUME TimerInv
  PROVE  /\ x2 \in Nat /\ x4 \in Nat /\ x5 \in Nat /\ x5 <= x2
         /\ x7 \in Nat \cup {None} /\ x9 \in Int \cup {None}
         /\ x3 \in BOOLEAN /\ x6 \in BOOLEAN /\ x10 \in BOOLEAN
         /\ x4 > 0 => x6
BY TimerAssumption DEF TimerInv, Timer!TypeOK, Timer!Even

\* An update shows nothing, the minutes of an oven, or a moment: the last one shown, if
\* the new one is a minute from it at most.
LEMMA UpdatedShows ==
  ASSUME TimerInv, x2' = x2, x1' = x1, NEW t \in Nat \cup {None}, Timer!Time = t,
         x7' \in Nat \cup {None}, x9' = Timer!Updated, NEW m, m = Timer!Moment(t)
  PROVE  /\ x9' \in Int \cup {None}
         /\ x1 = "remain" /\ x8' = "power_off" => x9' = None
         /\ t \in {0, None} => x9' = None
         /\ t \notin {0, None} /\ x1 # "target" /\ ~(x1 = "remain" /\ x8' = "power_off") =>
              /\ m \in Int
              /\ IF x9 # None /\ x9 - m \in -2 .. 2 THEN x9' = x9 ELSE x9' = m
<1>1. x2 \in Nat /\ x9 \in Int \cup {None}
  BY TimerTyped
<1>2. x9' = CASE t \in {None, 0} \/ (x1 = "remain" /\ x8' = "power_off") -> None
              [] t \notin {None, 0} /\ x1 = "target" -> x7'
              [] OTHER -> IF x9 # None /\ ~Timer!Far(m, x9) THEN x9 ELSE m
  BY DEF Timer!Updated
<1>3. t \notin {None, 0} => x7' \in Nat
  BY DEF Timer!Time
<1>4. t # None => m \in Int
  BY <1>1 DEF Timer!Moment
<1>5. CASE t \in {None, 0} \/ (x1 = "remain" /\ x8' = "power_off")
  <2>1. x9' = None
    BY <1>2, <1>5
  <2> QED BY <1>5, <2>1
<1>6. CASE t \notin {None, 0} /\ x1 = "target"
  <2>1. x9' = x7'
    BY <1>2, <1>6
  <2> QED BY <1>3, <1>6, <2>1
<1>7. CASE t \notin {None, 0} /\ x1 # "target" /\ ~(x1 = "remain" /\ x8' = "power_off")
  <2>1. x9' = IF x9 # None /\ ~Timer!Far(m, x9) THEN x9 ELSE m
    BY <1>2, <1>7
  <2>2. x9 # None => (~Timer!Far(m, x9) <=> x9 - m \in -2 .. 2)
    <3> SUFFICES ASSUME x9 \in Int, m \in Int
                 PROVE ~Timer!Far(m, x9) <=> x9 - m \in -2 .. 2
      BY <1>1, <1>4, <1>7
    <3> QED BY DEF Timer!Far
  <2>3. IF x9 # None /\ x9 - m \in -2 .. 2 THEN x9' = x9 ELSE x9' = m
    BY <2>1, <2>2
  <2>4. m \in Int /\ x9' \in Int \cup {None}
    BY <1>1, <1>4, <1>7, <2>3
  <2> QED BY <1>7, <2>3, <2>4
<1> QED BY <1>5, <1>6, <1>7

\* What a full report makes of an appliance that is on and has time left: the moment of
\* its run, cut to the minute, unless that shown is a minute from it at most.
LEMMA ReportShows ==
  ASSUME TimerInv, Timer!Report
  PROVE  /\ x7' \in Nat /\ x9' \in Int \cup {None}
         /\ x1 = "remain" /\ x8' = "power_off" => x9' = None
         /\ x1 \in {"remain", "relative_to_stop"} /\ x6 /\ x4 >= 2 =>
              \E m \in Int : /\ m - (x2 + x4) \in -1 .. 0
                             /\ IF x9 # None /\ x9 - m \in -2 .. 2 THEN x9' = x9 ELSE x9' = m
         /\ x1 \in {"remain", "relative_to_stop"} /\ x4 < 2 => x9' = None
         /\ x1 = "running" /\ x5 >= 2 =>
              \E m \in Int : /\ m - (x2 - x5) \in 0 .. 1
                             /\ IF x9 # None /\ x9 - m \in -2 .. 2 THEN x9' = x9 ELSE x9' = m
         /\ x1 = "running" /\ x5 < 2 => x9' = None
<1> DEFINE t == 2 * Timer!Minutes
           m == Timer!Moment(t)
<1>1. x2 \in Nat /\ x4 \in Nat /\ x5 \in Nat
  BY TimerTyped
<1>2. Timer!Minutes \in Nat
  BY <1>1, TimerAssumption, Halves DEF Timer!Minutes
<1>3. x7' = Timer!Minutes /\ x7' # None
  BY <1>2, NoneAssumption DEF Timer!Report
<1>4. Timer!Time = t /\ t \in Nat \cup {None} /\ t # None
  BY <1>2, <1>3, NoneAssumption DEF Timer!Time
<1>5. x1' = x1 /\ x2' = x2 /\ x9' = Timer!Updated
  BY DEF Timer!Report
<1> HIDE DEF t, m
<1>6. /\ x9' \in Int \cup {None}
      /\ x1 = "remain" /\ x8' = "power_off" => x9' = None
      /\ t = 0 => x9' = None
      /\ t # 0 /\ x1 # "target" /\ ~(x1 = "remain" /\ x8' = "power_off") =>
           /\ m \in Int
           /\ IF x9 # None /\ x9 - m \in -2 .. 2 THEN x9' = x9 ELSE x9' = m
  BY <1>2, <1>3, <1>4, <1>5, UpdatedShows DEF m
<1>7. CASE x1 \in {"remain", "relative_to_stop"}
  <2>1. t = 2 * (x4 \div 2) /\ m = x2 + t
    BY <1>7 DEF t, m, Timer!Minutes, Timer!Moment
  <2>2. x4 < 2 => t = 0
    BY <1>1, <2>1, Halves
  <2>3. x4 >= 2 => t # 0 /\ m - (x2 + x4) \in -1 .. 0
    <3>1. t \in Nat /\ t <= x4 /\ x4 - 1 <= t /\ (x4 >= 2 => t >= 2)
      BY <1>1, <2>1, Halves
    <3> QED BY <1>1, <2>1, <3>1
  <2>4. x6 => x8' # "power_off"
    BY DEF Timer!Report
  <2> QED BY <1>2, <1>3, <1>6, <1>7, <2>2, <2>3, <2>4
<1>8. CASE x1 = "running"
  <2>1. t = 2 * (x5 \div 2) /\ m = x2 - t
    BY <1>8 DEF t, m, Timer!Minutes, Timer!Moment
  <2>2. x5 < 2 => t = 0
    BY <1>1, <2>1, Halves
  <2>3. x5 >= 2 => t # 0 /\ m - (x2 - x5) \in 0 .. 1
    <3>1. t \in Nat /\ t <= x5 /\ x5 - 1 <= t /\ (x5 >= 2 => t >= 2)
      BY <1>1, <2>1, Halves
    <3> QED BY <1>1, <2>1, <3>1
  <2> QED BY <1>2, <1>3, <1>6, <1>8, <2>2, <2>3
<1>9. CASE x1 \notin {"remain", "relative_to_stop", "running"}
  BY <1>2, <1>3, <1>6, <1>9
<1> QED BY <1>7, <1>8, <1>9

\* One report tells within a minute and a half, and while the run is even it does not
\* move what is shown: the new moment is one of the two the old one is of.
LEMMA ReportStep ==
  ASSUME TimerInv, Timer!Report
  PROVE  /\ Timer!ReportTellsStep
         /\ x9 # None /\ x10 /\ x1 # "target" /\ x4 > 1 => x9' = x9
<1>1. x2 \in Nat /\ x4 \in Nat /\ x5 \in Nat /\ x9 \in Int \cup {None} /\ (x4 > 0 => x6)
  BY TimerTyped
<1>2. Timer!ReportTellsStep
  <2> SUFFICES ASSUME x1 \in {"remain", "relative_to_stop"}, x6, x4 >= 2
               PROVE  x9' # None /\ x9' - (x2 + x4) \in -3 .. 2
    BY DEF Timer!ReportTellsStep
  <2>1. PICK m \in Int : /\ m - (x2 + x4) \in -1 .. 0
                         /\ IF x9 # None /\ x9 - m \in -2 .. 2 THEN x9' = x9 ELSE x9' = m
    BY ReportShows
  <2>2. CASE x9 # None /\ x9 - m \in -2 .. 2
    <3>1. x9 \in Int /\ x9' = x9
      BY <1>1, <2>1, <2>2
    <3>2. x9 - (x2 + x4) \in -3 .. 2
      BY <1>1, <2>1, <2>2, <3>1
    <3> QED BY <2>2, <3>1, <3>2
  <2>3. CASE ~(x9 # None /\ x9 - m \in -2 .. 2)
    <3>1. x9' = m /\ m # None
      BY <2>1, <2>3, NoneAssumption
    <3> QED BY <1>1, <2>1, <3>1
  <2> QED BY <2>2, <2>3
<1>3. ASSUME x9 # None, x10, x1 # "target", x4 > 1
      PROVE  x9' = x9
  <2>1. x9 \in Int /\ x4 >= 2 /\ x6 /\ x4 > 0
    BY <1>1, <1>3
  <2>2. CASE x1 \in {"remain", "relative_to_stop"}
    <3>1. x9 - (x2 + x4) \in -1 .. 0
      BY <1>3, <2>1, <2>2 DEF TimerInv, Timer!Even
    <3>2. PICK m \in Int : /\ m - (x2 + x4) \in -1 .. 0
                           /\ IF x9 # None /\ x9 - m \in -2 .. 2 THEN x9' = x9 ELSE x9' = m
      BY <2>1, <2>2, ReportShows
    <3>3. x9 - m \in -2 .. 2
      BY <1>1, <2>1, <3>1, <3>2
    <3> QED BY <1>3, <3>2, <3>3
  <2>3. CASE x1 = "running"
    <3>1. x5 >= 2 /\ x9 - (x2 - x5) \in 0 .. 1
      BY <1>3, <2>1, <2>3 DEF TimerInv, Timer!Even
    <3>2. PICK m \in Int : /\ m - (x2 - x5) \in 0 .. 1
                           /\ IF x9 # None /\ x9 - m \in -2 .. 2 THEN x9' = x9 ELSE x9' = m
      BY <2>3, <3>1, ReportShows
    <3>3. x9 - m \in -2 .. 2
      BY <1>1, <2>1, <3>1, <3>2
    <3> QED BY <1>3, <3>2, <3>3
  <2> QED BY <1>3, <2>2, <2>3 DEF TimerInv, Timer!Keys
<1> QED BY <1>2, <1>3

\* A moment shown after a report of an even run is of that run.
LEMMA ReportEven ==
  ASSUME TimerInv, Timer!Report
  PROVE  Timer!Even'
<1>1. x2 \in Nat /\ x4 \in Nat /\ x5 \in Nat /\ x9 \in Int \cup {None} /\ (x4 > 0 => x6)
  BY TimerTyped
<1>2. x1' = x1 /\ x2' = x2 /\ x3' = x3 /\ x4' = x4 /\ x5' = x5 /\ x6' = x6
  BY DEF Timer!Report
<1>3. x10' => x3
  BY DEF Timer!Report, TimerInv, Timer!Even, Timer!TypeOK
<1>4. ASSUME x10', x9 # None
      PROVE  x10 \/ x9' # x9
  BY <1>4 DEF Timer!Report
<1>5. ASSUME x10', x9' # None, x4 > 0, x1 \in {"remain", "relative_to_stop"}
      PROVE  x9' - (x2 + x4) \in -1 .. 0
  <2>1. x4 >= 2 /\ x4 > 1 /\ x6
    BY <1>1, <1>5, ReportShows
  <2>2. PICK m \in Int : /\ m - (x2 + x4) \in -1 .. 0
                         /\ IF x9 # None /\ x9 - m \in -2 .. 2 THEN x9' = x9 ELSE x9' = m
    BY <1>5, <2>1, ReportShows
  <2>3. CASE x9' = m
    BY <2>2, <2>3
  <2>4. CASE x9' # m
    <3>1. x9 # None /\ x9' = x9
      BY <2>2, <2>4
    <3>2. x10
      BY <1>4, <1>5, <3>1
    <3>3. x9 - (x2 + x4) \in -1 .. 0
      BY <1>5, <3>1, <3>2 DEF TimerInv, Timer!Even
    <3> QED BY <3>1, <3>3
  <2> QED BY <2>3, <2>4
<1>6. ASSUME x10', x9' # None, x4 > 0, x1 = "running"
      PROVE  x5 >= 2 /\ x9' - (x2 - x5) \in 0 .. 1
  <2>1. x5 >= 2
    BY <1>1, <1>6, ReportShows
  <2>2. PICK m \in Int : /\ m - (x2 - x5) \in 0 .. 1
                         /\ IF x9 # None /\ x9 - m \in -2 .. 2 THEN x9' = x9 ELSE x9' = m
    BY <1>6, <2>1, ReportShows
  <2>3. CASE x9' = m
    BY <2>1, <2>2, <2>3
  <2>4. CASE x9' # m
    <3>1. x9 # None /\ x9' = x9
      BY <2>2, <2>4
    <3>2. x10
      BY <1>4, <1>6, <3>1
    <3>3. x9 - (x2 - x5) \in 0 .. 1
      BY <1>6, <3>1, <3>2 DEF TimerInv, Timer!Even
    <3> QED BY <2>1, <3>1, <3>3
  <2> QED BY <2>3, <2>4
<1>7. x5 <= x2
  BY TimerTyped
<1> QED BY <1>1, <1>2, <1>3, <1>5, <1>6, <1>7 DEF Timer!Even

\* While the clock ticks, an even run ends and began at the same moments.
LEMMA TickEven ==
  ASSUME TimerInv, Timer!Tick
  PROVE  Timer!Even'
<1>1. x2 \in Nat /\ x4 \in Nat /\ x5 \in Nat /\ x5 <= x2 /\ x9 \in Int \cup {None} /\ (x4 > 0 => x6)
  BY TimerTyped
<1>2. /\ x2' = x2 + 1 /\ x1' = x1 /\ x3' = x3 /\ x6' = x6 /\ x9' = x9 /\ x10' = x10
      /\ x3 /\ x4 > 0 => x4' = x4 - 1 /\ x5' = x5 + 1
      /\ ~(x3 /\ x4 > 0) => x4' = x4 /\ x5' = x5
  BY DEF Timer!Tick
<1>3. x10 => x3
  BY DEF TimerInv, Timer!Even
<1>4. x5' <= x2' /\ (x4' > 0 => x6')
  BY <1>1, <1>2
<1>5. ASSUME x10', x9' # None, x4' > 0
      PROVE  /\ x1' \in {"remain", "relative_to_stop"} => x9' - (x2' + x4') \in -1 .. 0
             /\ x1' = "running" => x5' >= 2 /\ x9' - (x2' - x5') \in 0 .. 1
  <2>1. x10 /\ x9 # None /\ x3 /\ x4 > 0 /\ x9 \in Int
    BY <1>1, <1>2, <1>3, <1>5
  <2>2. /\ x1 \in {"remain", "relative_to_stop"} => x9 - (x2 + x4) \in -1 .. 0
        /\ x1 = "running" => x5 >= 2 /\ x9 - (x2 - x5) \in 0 .. 1
    BY <2>1 DEF TimerInv, Timer!Even
  <2>3. x2' + x4' = x2 + x4 /\ x2' - x5' = x2 - x5 /\ x5' = x5 + 1
    BY <1>1, <1>2, <2>1
  <2> QED BY <1>1, <1>2, <2>2, <2>3
<1> QED BY <1>2, <1>3, <1>4, <1>5 DEF Timer!Even

\* The appliance and its sensor keep the invariant.
LEMMA TimerKept ==
  ASSUME TimerInv, [Timer!Next]_Timer!vars
  PROVE  TimerInv'
<1>1. /\ x2 \in Nat /\ x4 \in Nat /\ x5 \in Nat /\ x5 <= x2
      /\ x2 <= Horizon /\ x4 <= Length /\ x5 <= Horizon
      /\ x7 \in Nat \cup {None} /\ x9 \in Int \cup {None} /\ x1 \in Timer!Keys
      /\ x3 \in BOOLEAN /\ x6 \in BOOLEAN /\ x10 \in BOOLEAN
      /\ Length \in Nat /\ Horizon \in Nat
      /\ x4 > 0 => x6
      /\ x1 = "remain" /\ x8 = "power_off" => x9 = None
  BY TimerTyped, TimerAssumption DEF TimerInv, Timer!TypeOK, Timer!OffShowsNothing
<1>2. CASE Timer!Tick
  <2>1. Timer!TypeOK'
    <3>1. /\ x2' = x2 + 1 /\ x2 < Horizon
          /\ x3' = x3 /\ x6' = x6 /\ x7' = x7 /\ x9' = x9 /\ x10' = x10
      BY <1>2 DEF Timer!Tick
    <3>2. (x4 > 0 /\ x4' = x4 - 1 /\ x5' = x5 + 1) \/ (x4' = x4 /\ x5' = x5)
      BY <1>2 DEF Timer!Tick
    <3>3. x2' \in 0 .. Horizon /\ x4' \in 0 .. Length /\ x5' \in 0 .. Horizon
      BY <1>1, <3>1, <3>2
    <3>4. /\ x3' \in BOOLEAN /\ x6' \in BOOLEAN /\ x10' \in BOOLEAN
          /\ x7' \in Nat \cup {None} /\ x9' \in Int \cup {None}
      BY <1>1, <3>1, Zenon
    <3> QED BY <3>3, <3>4, Zenon DEF Timer!TypeOK
  <2> QED BY <1>1, <1>2, <2>1, TickEven DEF TimerInv, Timer!Tick, Timer!OffShowsNothing
<1>3. CASE Timer!Disturb
  <2>1. Timer!TypeOK'
    <3>1. /\ x2' = x2 /\ x5' = x5 /\ x6' = x6 /\ x7' = x7 /\ x9' = x9 /\ x10' = FALSE
          /\ x4' = x4 \/ (x4 + 5 <= Length /\ x4' = x4 + 5)
      BY <1>3, Zenon DEF Timer!Disturb
    <3>2. x3' \in BOOLEAN
      BY <1>1, <1>3, Zenon DEF Timer!Disturb
    <3>3. x4' \in 0 .. Length /\ x2' \in 0 .. Horizon /\ x5' \in 0 .. Horizon
      BY <1>1, <3>1
    <3>4. x6' \in BOOLEAN /\ x7' \in Nat \cup {None} /\ x9' \in Int \cup {None}
      BY <1>1, <3>1, Zenon
    <3> QED BY <3>1, <3>2, <3>3, <3>4, Zenon DEF Timer!TypeOK
  <2>2. Timer!Even'
    BY <1>1, <1>3 DEF Timer!Disturb, Timer!Even
  <2> QED BY <1>1, <1>3, <2>1, <2>2 DEF TimerInv, Timer!Disturb, Timer!OffShowsNothing
<1>4. CASE Timer!Switch
  <2>1. Timer!TypeOK'
    <3>1. x6' \in BOOLEAN /\ x3' \in BOOLEAN /\ x10' \in BOOLEAN
      BY <1>4 DEF Timer!Switch
    <3>2. x2' = x2 /\ x4' \in {Length, 0} /\ x5' = 0 /\ x7' = x7 /\ x9' = x9
      BY <1>4 DEF Timer!Switch
    <3>3. x2' \in 0 .. Horizon /\ x4' \in 0 .. Length /\ x5' \in 0 .. Horizon
      BY <1>1, <3>2
    <3> QED BY <1>1, <3>1, <3>2, <3>3 DEF Timer!TypeOK
  <2>2. Timer!Even'
    BY <1>1, <1>4 DEF Timer!Switch, Timer!Even
  <2> QED BY <1>1, <1>4, <2>1, <2>2 DEF TimerInv, Timer!Switch, Timer!OffShowsNothing
<1>5. CASE Timer!Report
  <2>1. x7' \in Nat /\ x9' \in Int \cup {None} /\ (x1 = "remain" /\ x8' = "power_off" => x9' = None)
    BY <1>5, ReportShows
  <2>2. x10' \in BOOLEAN
    BY <1>1, <1>5 DEF Timer!Report
  <2>3. x1' = x1 /\ x2' = x2 /\ x3' = x3 /\ x4' = x4 /\ x5' = x5 /\ x6' = x6
    BY <1>5 DEF Timer!Report
  <2>4. Timer!TypeOK'
    BY <1>1, <2>1, <2>2, <2>3 DEF Timer!TypeOK
  <2> QED BY <1>1, <1>5, <2>1, <2>3, <2>4, ReportEven DEF TimerInv, Timer!OffShowsNothing
<1>6. CASE Timer!Refresh
  <2>1. /\ x1' = x1 /\ x2' = x2 /\ x3' = x3 /\ x4' = x4 /\ x5' = x5 /\ x6' = x6
        /\ x7' = x7 /\ x10' \in BOOLEAN /\ ~x10' /\ x9' = Timer!Updated
    BY <1>6 DEF Timer!Refresh
  <2>2. Timer!Time \in Nat \cup {None}
    BY <1>1, <2>1 DEF Timer!Time
  <2>3. x9' \in Int \cup {None} /\ (x1 = "remain" /\ x8' = "power_off" => x9' = None)
    BY <1>1, <2>1, <2>2, UpdatedShows
  <2>4. Timer!TypeOK'
    BY <1>1, <2>1, <2>3 DEF Timer!TypeOK
  <2>5. Timer!Even'
    BY <1>1, <2>1 DEF Timer!Even
  <2> QED BY <1>1, <2>1, <2>3, <2>4, <2>5 DEF TimerInv, Timer!OffShowsNothing
<1>7. CASE UNCHANGED Timer!vars
  BY <1>7 DEF Timer!vars, TimerInv, Timer!TypeOK, Timer!Even, Timer!OffShowsNothing
<1> QED BY <1>2, <1>3, <1>4, <1>5, <1>6, <1>7 DEF Timer!Next

\* A step that is no report keeps what is shown while the run is even, and one that is
\* told within a minute and a half.
LEMMA MomentStep ==
  ASSUME TimerInv, [Timer!Next]_Timer!vars
  PROVE  Timer!ReportTellsStep /\ Timer!MomentSteadyStep
<1>1. CASE Timer!Report
  <2>1. x4' = x4
    BY <1>1 DEF Timer!Report
  <2> QED BY <1>1, <2>1, ReportStep DEF Timer!MomentSteadyStep
<1>2. CASE ~Timer!Report
  <2>1. x10' => x9' = x9
    BY <1>2 DEF Timer!Next, Timer!Tick, Timer!Disturb, Timer!Switch, Timer!Refresh, Timer!vars
  <2> QED BY <1>2, <2>1 DEF Timer!ReportTellsStep, Timer!MomentSteadyStep
<1> QED BY <1>1, <1>2

\* A timer begins with the appliance's run.
LEMMA TimerBegins ==
  ASSUME Timer!Init PROVE TimerInv
<1>1. 0 \in 0 .. Horizon /\ Length \in 0 .. Length
  BY TimerAssumption
<1>2. Timer!TypeOK
  BY <1>1 DEF Timer!Init, Timer!TypeOK
<1>3. Timer!Even
  BY TimerAssumption DEF Timer!Init, Timer!Even
<1> QED BY <1>2, <1>3 DEF Timer!Init, TimerInv, Timer!OffShowsNothing

\* A timer sensor tells the truth and does not waver (state.py): after a full report it
\* is a minute and a half off at most, while a cycle runs evenly it never moves, and an
\* appliance that said it is off has no remaining time.
THEOREM TimerTells == EntitiesSpec => MomentTells
<1> DEFINE Inv == part = "timer" => TimerInv
<1>1. EntitiesInit => Inv
  BY TimerBegins DEF EntitiesInit
<1>2. Inv /\ [EntitiesNext]_all => Inv'
  <2> SUFFICES ASSUME Inv, [EntitiesNext]_all, part' = "timer" PROVE TimerInv'
    OBVIOUS
  <2>1. part = "timer"
    BY DEF EntitiesNext, all
  <2> QED BY <2>1, TimerPart, TimerKept
<1>3. ASSUME Inv, Inv', [EntitiesNext]_all
      PROVE  [part = "timer" => Timer!ReportTellsStep /\ Timer!MomentSteadyStep /\ Timer!OffShowsNothing']_all
  <2> SUFFICES ASSUME part = "timer"
               PROVE  Timer!ReportTellsStep /\ Timer!MomentSteadyStep /\ Timer!OffShowsNothing'
    OBVIOUS
  <2>1. part' = part
    BY <1>3, TimerPart
  <2>2. TimerInv /\ TimerInv'
    BY <1>3, <2>1
  <2>3. Timer!OffShowsNothing'
    BY <2>2 DEF TimerInv
  <2> QED BY <1>3, <2>2, <2>3, TimerPart, MomentStep
<1> QED BY <1>1, <1>2, <1>3, PTL DEF EntitiesSpec, MomentTells

-----------------------------------------------------------------------------
(***************************************************************************)
(* The property and its platforms: x1 is its case, x2 the rw_mode of the   *)
(* holder, x3 the platforms set up, x4 the entities, x5 those added, x6    *)
(* their options, x7 the range of the number, x8 the attribute, x9 the     *)
(* last call, x10 the run state.  What an entity captured is what the mode *)
(* its platform asks for gives; a select, or a number that shares the      *)
(* holder with no sensor of its own reading, keeps it writable.            *)
(***************************************************************************)

\* A step of the property's part is one of the property.
LEMMA PropertyPart ==
  ASSUME part = "property", [EntitiesNext]_all
  PROVE  part' = part /\ [Property!Next]_Property!vars
BY DEF EntitiesNext, OthersNext, all, others, Property!vars

Asks(p) == Property!ModeAsked[p]
Constructed ==
  /\ x1 \in Cases /\ x5 \subseteq x4
  /\ x4 \subseteq x1.platforms \cap DOMAIN Property!ModeAsked
  /\ \A p \in x4 : Property!CanActivate(x1, Asks(p))
Captured ==
  /\ x6 = [p \in Property!Capturing |-> x6[p]]
  /\ \A p \in (Property!Capturing \ {"select"}) \cap x4 :
       x6[p] = Property!Options(x1, Property!ModeOf(Asks(p)))
Offered ==
  "select" \in x4 =>
    /\ x2 = "w"
    /\ x6["select"] \subseteq Property!Options(x1, "w")
                               \cup (IF Property!Command THEN Property!Displays ELSE {})
NumberAlone ==
  "reading" \notin x4 =>
    /\ "number" \in x4 => x2 = "w"
    /\ "number" \in x5 => x7 = Property!RangeOf(x1, "w")
PropertyInv ==
  /\ Constructed /\ Captured /\ Offered /\ NumberAlone
  /\ x8 \in Property!Reported \cup {None}
  /\ Property!OfferedIsAccepted /\ Property!SentIsWritable

\* What the platforms ask for.
LEMMA AskedModes ==
  /\ DOMAIN Property!ModeAsked =
       {"select", "switch", "number", "sensor", "reading", "binary_sensor", "event"}
  /\ \A p \in {"select", "switch"} : Asks(p) = "WRITABLE"
  /\ \A p \in {"sensor", "binary_sensor", "event"} : Asks(p) = "READ_ONLY"
  /\ Asks("number") = "READ_WRITE" /\ Asks("reading") = "READABLE"
  /\ \A p \in {"select", "switch", "number"} : Property!ModeOf(Asks(p)) = "w"
  /\ \A p \in {"sensor", "reading", "binary_sensor", "event"} : Property!ModeOf(Asks(p)) = "r"
BY DEF Asks, Property!ModeAsked, Property!ModeOf

\* A number of a range whose ends are whole, cut to a whole one, stays in the range.
LEMMA WholeBetween ==
  ASSUME NEW a \in Int, NEW b \in Int, NEW x \in Int, a <= x, x <= b,
         a % 2 = 0, b % 2 = 0
  PROVE  Property!Whole(x) \in Int /\ a <= Property!Whole(x) /\ Property!Whole(x) <= b
BY DEF Property!Whole

\* Where a number is offered, the profile gives a range to write.
LEMMA RangeToWrite ==
  ASSUME NEW c \in Cases, "number" \in c.platforms, Property!CanActivate(c, "READ_WRITE")
  PROVE  /\ c.raw.type = "range" /\ "w" \in c.raw.mode /\ WholeRange(c.raw.w)
         /\ Property!Parsed(c.raw).wv = c.raw.w
         /\ Property!RangeOf(c, "w") = c.raw.w[2]
<1>1. c.raw.type = "range"
  BY CasesAssumption
<1>2. /\ "r" \in c.raw.mode => WholeRange(c.raw.r)
      /\ "w" \in c.raw.mode => WholeRange(c.raw.w)
  BY <1>1, CasesAssumption
<1>3. Property!Truthy(Property!Profile(c.raw).w)
  BY DEF Property!CanActivate
<1>4. "w" \in c.raw.mode
  <2> SUFFICES ASSUME "w" \notin c.raw.mode PROVE FALSE
    OBVIOUS
  <2>1. ~Property!Parsed(c.raw).writable /\ Property!Parsed(c.raw).wv = Property!Nothing
    BY <1>1 DEF Property!Parsed
  <2>2. \/ Property!Profile(c.raw).w = Property!Nothing
        \/ Property!Profile(c.raw).w = Property!Flag(Property!Parsed(c.raw).writable)
    BY <2>1 DEF Property!Profile
  <2>3. ~Property!Truthy(Property!Nothing)
    BY DEF Property!Truthy, Property!Nothing
  <2>4. ~Property!Truthy(Property!Flag(Property!Parsed(c.raw).writable))
    BY <2>1 DEF Property!Truthy, Property!Flag
  <2> QED BY <1>3, <2>2, <2>3, <2>4
<1>5. Property!Parsed(c.raw).wv = c.raw.w
  BY <1>1, <1>4 DEF Property!Parsed
<1>6. c.raw.w[1] = "range"
  BY <1>2, <1>4 DEF WholeRange
<1>7. Property!Truthy(Property!Parsed(c.raw).wv)
  BY <1>5, <1>6 DEF Property!Truthy
<1>8. Property!Profile(c.raw).w = c.raw.w
  BY <1>5, <1>7 DEF Property!Profile
<1>9. Property!RangeOf(c, "w") = c.raw.w[2]
  BY <1>6, <1>8 DEF Property!RangeOf, Property!Data
<1> QED BY <1>1, <1>2, <1>4, <1>5, <1>9

\* An option of a select is one the profile allows to be written.
LEMMA OptionToWrite ==
  ASSUME NEW c \in Cases, "select" \in c.platforms, NEW o \in Property!Options(c, "w")
  PROVE  /\ c.raw.type = "enum" /\ c.setter \notin {"none", "range", "pair"}
         /\ Property!Parsed(c.raw).writable
         /\ Upper[o] \in Property!Parsed(c.raw).wv[2] /\ Lower[Upper[o]] = o
<1>1. /\ c.raw.type = "enum" /\ c.setter \notin {"none", "range", "pair"}
      /\ ListOrNothing(c.raw.w)
      /\ c.raw.w[1] = "list" => \A v \in c.raw.w[2] : Upper[Lower[v]] = v
  BY CasesAssumption
<1>2. Property!Data(c, "w") = Property!Profile(c.raw).w
  BY DEF Property!Data
<1>3. /\ Property!Profile(c.raw).w[1] = "list"
      /\ \E v \in Property!Profile(c.raw).w[2] : o = Lower[v]
  BY <1>1, <1>2 DEF Property!Options
<1>4. Property!Profile(c.raw).w = Property!Parsed(c.raw).wv
  BY <1>3 DEF Property!Profile, Property!Flag
<1>5. "w" \in c.raw.mode /\ Property!Parsed(c.raw).wv = c.raw.w
  BY <1>1, <1>3, <1>4 DEF Property!Parsed, Property!Nothing
<1>6. Property!Parsed(c.raw).writable
  BY <1>5 DEF Property!Parsed
<1> QED BY <1>1, <1>3, <1>4, <1>5, <1>6

\* An enumeration that reports a value has it among the options of its sensors.
LEMMA OptionToRead ==
  ASSUME NEW c \in Cases, c.raw.type = "enum", NEW v \in Property!Parsed(c.raw).rv[2],
         Property!Parsed(c.raw).rv[1] = "list"
  PROVE  Lower[v] \in Property!Options(c, "r")
<1>1. Property!Truthy(Property!Parsed(c.raw).rv)
  BY DEF Property!Truthy
<1>2. Property!Data(c, "r") = Property!Parsed(c.raw).rv
  BY <1>1 DEF Property!Data, Property!Profile
<1> QED BY <1>2 DEF Property!Options

\* What came of the last call does not change with anything but the call.
LEMMA CallStays ==
  ASSUME x1' = x1, x4 \subseteq x4', x9' = x9
  PROVE  /\ Property!OfferedIsAccepted => Property!OfferedIsAccepted'
         /\ Property!SentIsWritable => Property!SentIsWritable'
BY DEF Property!OfferedIsAccepted, Property!SentIsWritable, Property!Posted, Property!Command,
       Property!OvenCommand, Property!LaundryCommand, Property!Guarded

\* A state of an oven or of laundry has one of the names of states.
LEMMA DisplayNames ==
  ASSUME NEW c
  PROVE  /\ Property!OvenDisplay(c) \in Property!Displays \cup {None}
         /\ Property!LaundryDisplay(c) \in Property!Displays \cup {None}
<1>1. Property!OvenDisplay(c) \in Property!Displays \cup {None}
  BY DEF Property!OvenDisplay, Property!Displays
<1>2. c.run \in DOMAIN Property!LaundryNames =>
        Property!LaundryNames[c.run] \in Property!Displays
  BY DEF Property!LaundryNames, Property!Displays
<1>3. Property!LaundryDisplay(c) \in Property!Displays \cup {None}
  BY <1>2 DEF Property!LaundryDisplay, Property!Displays
<1> QED BY <1>1, <1>3

\* A select of commands offers, at each update, commands the profile allows to be written
\* and a state; what other entities captured stays.
LEMMA ReselectKeeps ==
  ASSUME PropertyInv, x1' = x1, x2' = x2, x4' = x4, x5' \subseteq x4, x6' = Property!Reselected
  PROVE  Captured' /\ Offered'
<1>1. /\ \/ x6' = x6
         \/ /\ "select" \in x4 /\ Property!Command
            /\ \E S : /\ x6' = [x6 EXCEPT !["select"] = S]
                     /\ S \subseteq Property!Options(x1, x2) \cup Property!Displays
  <2>1. CASE "select" \in x5' /\ Property!OvenCommand
    <3> DEFINE S == Property!OvenOptions(x10', Property!Value')
    <3>1. S \subseteq Property!CommandOptions \cup Property!Displays
      BY DisplayNames DEF Property!OvenOptions
    <3>2. ~Property!LaundryCommand
      BY <2>1 DEF Property!OvenCommand, Property!LaundryCommand
    <3>3. x6' = [x6 EXCEPT !["select"] = S]
      BY <2>1, <3>2 DEF Property!Reselected
    <3> QED BY <2>1, <3>1, <3>3 DEF Property!CommandOptions, Property!Command
  <2>2. CASE "select" \in x5' /\ Property!LaundryCommand
    <3> DEFINE S == Property!LaundryOptions(x10')
    <3>1. S \subseteq Property!CommandOptions \cup Property!Displays
      BY DisplayNames DEF Property!LaundryOptions
    <3>2. ~Property!OvenCommand
      BY <2>2 DEF Property!OvenCommand, Property!LaundryCommand
    <3>3. x6' = [x6 EXCEPT !["select"] = S]
      BY <2>2, <3>2 DEF Property!Reselected
    <3> QED BY <2>2, <3>1, <3>3 DEF Property!CommandOptions, Property!Command
  <2>3. CASE ~("select" \in x5' /\ Property!Command)
    BY <2>3 DEF Property!Reselected, Property!Command
  <2> QED BY <2>1, <2>2, <2>3 DEF Property!Command
<1>2. Captured'
  <2>1. /\ x6 = [p \in Property!Capturing |-> x6[p]]
        /\ x6' = [p \in Property!Capturing |-> x6'[p]]
        /\ \A p \in Property!Capturing \ {"select"} : x6'[p] = x6[p]
    BY <1>1 DEF PropertyInv, Captured
  <2> QED BY <2>1 DEF PropertyInv, Captured, Asks, Property!Capturing
<1>3. Offered'
  <2>1. Property!Command' <=> Property!Command
    BY DEF Property!Command, Property!OvenCommand, Property!LaundryCommand
  <2>2. CASE x6' = x6
    BY <2>1, <2>2 DEF PropertyInv, Offered
  <2>3. CASE /\ "select" \in x4 /\ Property!Command
             /\ \E S : /\ x6' = [x6 EXCEPT !["select"] = S]
                      /\ S \subseteq Property!Options(x1, x2) \cup Property!Displays
    BY <2>1, <2>3 DEF PropertyInv, Offered, Captured, Property!Capturing
  <2> QED BY <1>1, <2>2, <2>3
<1> QED BY <1>2, <1>3

\* Setting up a platform constructs, if anything, an entity the profile allows, with the
\* options of the mode its platform asks for.
LEMMA SetUpKeeps ==
  ASSUME PropertyInv, NEW p \in DOMAIN Property!ModeAsked, Property!SetUp(p)
  PROVE  PropertyInv'
<1>1. /\ x1' = x1 /\ x5' = x5 /\ x7' = x7 /\ x8' = x8 /\ x9' = x9
      /\ p \in x1.platforms /\ x4 \subseteq x4' /\ x4' \subseteq x4 \cup {p}
  BY DEF Property!SetUp, Property!Kept
<1>2. p \in x4' \ x4 => Property!CanActivate(x1, Asks(p))
  BY DEF Property!SetUp, Asks
<1>3. p = "reading" /\ Property!CanActivate(x1, Asks(p)) => p \in x4'
  BY DEF Property!SetUp, Property!Kept, Asks
<1>4. \/ x2' = x2 /\ x4' = x4 /\ x6' = x6
      \/ /\ Property!CanActivate(x1, Asks(p)) /\ x2' = Property!ModeOf(Asks(p))
         /\ x6' = IF p \in Property!Capturing
                  THEN [x6 EXCEPT ![p] = Property!Options(x1, x2')] ELSE x6
  BY DEF Property!SetUp, Asks
<1>5. Constructed'
  <2>1. \A q \in x4' : Property!CanActivate(x1, Asks(q))
    BY <1>1, <1>2 DEF PropertyInv, Constructed
  <2>2. x4' \subseteq x1.platforms \cap DOMAIN Property!ModeAsked
    BY <1>1 DEF PropertyInv, Constructed
  <2> QED BY <1>1, <2>1, <2>2 DEF PropertyInv, Constructed, Asks
<1>6. Captured'
  <2>1. x6 = [q \in Property!Capturing |-> x6[q]]
    BY DEF PropertyInv, Captured
  <2>2. x6' = [q \in Property!Capturing |-> x6'[q]]
    BY <1>4, <2>1
  <2>3. ASSUME NEW q \in Property!Capturing \ {"select"}, q \in x4'
        PROVE  x6'[q] = Property!Options(x1, Property!ModeOf(Asks(q)))
    <3>1. CASE x4' = x4 /\ x6' = x6
      BY <2>3, <3>1 DEF PropertyInv, Captured
    <3>2. CASE /\ Property!CanActivate(x1, Asks(p)) /\ x2' = Property!ModeOf(Asks(p))
               /\ x6' = IF p \in Property!Capturing
                        THEN [x6 EXCEPT ![p] = Property!Options(x1, x2')] ELSE x6
      <4>1. CASE q = p
        BY <2>1, <2>3, <3>2, <4>1
      <4>2. CASE q # p
        <5>1. x6'[q] = x6[q] /\ q \in x4
          BY <1>1, <2>1, <2>3, <3>2, <4>2
        <5> QED BY <2>3, <5>1 DEF PropertyInv, Captured
      <4> QED BY <4>1, <4>2
    <3> QED BY <1>4, <3>1, <3>2
  <2> QED BY <1>1, <2>2, <2>3 DEF Captured, Asks, Property!Capturing
<1>7. NumberAlone'
  <2> SUFFICES ASSUME "reading" \notin x4'
               PROVE  /\ "number" \in x4' => x2' = "w"
                      /\ "number" \in x5 => x7 = Property!RangeOf(x1, "w")
    BY <1>1 DEF NumberAlone
  <2>1. "reading" \notin x4
    BY <1>1
  <2>2. ASSUME "number" \in x4'
        PROVE  x2' = "w"
    <3>1. CASE x2' = x2 /\ x4' = x4
      BY <2>1, <2>2, <3>1 DEF PropertyInv, NumberAlone
    <3>2. CASE Property!CanActivate(x1, Asks(p)) /\ x2' = Property!ModeOf(Asks(p))
      <4>1. p # "reading"
        BY <1>3, <3>2
      <4>2. Property!CanActivate(x1, "READ_WRITE")
        BY <1>5, <1>1, <2>2, AskedModes DEF Constructed
      <4>3. ~Property!CanActivate(x1, "READ_ONLY")
        BY <4>2 DEF Property!CanActivate
      <4>4. p \notin {"sensor", "binary_sensor", "event"}
        BY <3>2, <4>3, AskedModes
      <4> QED BY <3>2, <4>1, <4>4, AskedModes
    <3> QED BY <1>4, <3>1, <3>2
  <2> QED BY <2>1, <2>2 DEF PropertyInv, NumberAlone
<1>8. x8' \in Property!Reported' \cup {None}
  BY <1>1 DEF PropertyInv, Property!Reported
<1>9. Property!OfferedIsAccepted' /\ Property!SentIsWritable'
  BY <1>1, CallStays DEF PropertyInv
<1>10. Offered'
  <2> SUFFICES ASSUME "select" \in x4'
               PROVE  /\ x2' = "w"
                      /\ x6'["select"] \subseteq Property!Options(x1, "w")
                                 \cup (IF Property!Command THEN Property!Displays ELSE {})
    BY <1>1 DEF Offered, Property!Command, Property!OvenCommand, Property!LaundryCommand
  <2>1. CASE x2' = x2 /\ x4' = x4 /\ x6' = x6
    BY <2>1 DEF PropertyInv, Offered
  <2>2. CASE /\ Property!CanActivate(x1, Asks(p)) /\ x2' = Property!ModeOf(Asks(p))
             /\ x6' = IF p \in Property!Capturing
                      THEN [x6 EXCEPT ![p] = Property!Options(x1, x2')] ELSE x6
    <3>1. "select" \in x1.platforms /\ x1 \in Cases /\ Property!CanActivate(x1, "WRITABLE")
      BY <1>1, <1>5, AskedModes DEF Constructed
    <3>2. p # "reading" /\ ~Property!CanActivate(x1, "READ_ONLY")
      BY <1>1, <3>1, CasesAssumption DEF Property!CanActivate
    <3>3. p \in {"select", "switch", "number"}
      BY <2>2, <3>2, AskedModes
    <3>4. x2' = "w"
      BY <2>2, <3>3, AskedModes
    <3>5. CASE p = "select"
      BY <2>2, <3>4, <3>5 DEF PropertyInv, Captured, Property!Capturing
    <3>6. CASE p # "select"
      <4>1. "select" \in x4 /\ x6' = x6
        BY <1>1, <2>2, <3>3, <3>6 DEF Property!Capturing
      <4> QED BY <3>4, <4>1 DEF PropertyInv, Offered
    <3> QED BY <3>5, <3>6
  <2> QED BY <1>4, <2>1, <2>2
<1> QED BY <1>5, <1>6, <1>7, <1>8, <1>9, <1>10 DEF PropertyInv

\* The number takes its range from the holder each time it is refreshed.
LEMMA RangeRefreshed ==
  ASSUME PropertyInv, x1' = x1, x2' = x2, x4' = x4, x5' \subseteq x4, x7' = Property!Refreshed
  PROVE  NumberAlone'
<1> SUFFICES ASSUME "reading" \notin x4, "number" \in x5'
             PROVE  x7' = Property!RangeOf(x1, "w")
  BY DEF PropertyInv, NumberAlone
<1>1. x2 = "w" /\ "number" \in x4
  BY DEF PropertyInv, NumberAlone
<1>2. "number" \in x1.platforms /\ Property!CanActivate(x1, "READ_WRITE") /\ x1 \in Cases
  BY <1>1, AskedModes DEF PropertyInv, Constructed
<1>3. Property!RangeOf(x1, "w") # None
  BY <1>2, RangeToWrite DEF WholeRange
<1> QED BY <1>1, <1>3 DEF Property!Refreshed

\* New data leave what entities rest on.
LEMMA ReceivedKeeps ==
  ASSUME PropertyInv, Property!Received
  PROVE  /\ x1' = x1 /\ x2' = x2 /\ x4' = x4 /\ x5' = x5
         /\ Constructed' /\ Captured' /\ Offered' /\ NumberAlone'
         /\ x8' \in Property!Reported' \cup {None}
<1>1. /\ x1' = x1 /\ x2' = x2 /\ x4' = x4 /\ x5' = x5
      /\ x7' = Property!Refreshed /\ x6' = Property!Reselected
      /\ x8' \in Property!Reported \cup {None}
  BY DEF Property!Received
<1>2. x5' \subseteq x4
  BY <1>1 DEF PropertyInv, Constructed
<1>3. NumberAlone' /\ Captured' /\ Offered'
  BY <1>1, <1>2, RangeRefreshed, ReselectKeeps
<1> QED BY <1>1, <1>3 DEF PropertyInv, Constructed, Asks, Property!Reported

\* A command chosen is accepted, and spelled as LG spells it.
LEMMA OptionPosted ==
  ASSUME PropertyInv, "select" \in x4, NEW o \in Property!Options(x1, "w")
  PROVE  /\ Property!Outcome("select", o).by = "select"
         /\ Property!Outcome("select", o).asked = o
         /\ Property!Outcome("select", o).came \in {"posted", "posted_unnamed"}
         /\ Lower[Property!Outcome("select", o).sent] = o
<1>1. x1 \in Cases /\ "select" \in x1.platforms
  BY DEF PropertyInv, Constructed
<1>2. /\ x1.raw.type = "enum" /\ x1.setter \notin {"none", "range", "pair"}
      /\ Property!Parsed(x1.raw).writable
      /\ Upper[o] \in Property!Parsed(x1.raw).wv[2] /\ Lower[Upper[o]] = o
  BY <1>1, OptionToWrite
<1>3. Property!Converted(o) = Upper[o]
  BY <1>2 DEF Property!Converted
<1>4. Property!PayloadAccepted(x1, Upper[o])
  BY <1>2 DEF Property!PayloadAccepted
<1> QED BY <1>2, <1>3, <1>4 DEF Property!Outcome

\* An option chosen is posted, or it is a state, or the guard refuses it.
LEMMA SelectKeeps ==
  ASSUME PropertyInv, Property!SelectOption
  PROVE  Property!OfferedIsAccepted' /\ Property!SentIsWritable'
<1>1. PICK o \in x6["select"] :
        IF Property!Command /\ o \notin Property!CommandOptions
        THEN Property!Stopped(o, "no_command") /\ Property!Aside
        ELSE IF ~Property!Guarded(o) THEN Property!Posts("select", o)
        ELSE \/ Property!Stopped(o, "not_verified") /\ Property!Aside
             \/ /\ Property!Received
                /\ IF Property!Ready(x10') THEN x9' = Property!Outcome("select", o)
                   ELSE Property!Stopped(o, "not_ready")
  BY DEF Property!SelectOption
<1>2. "select" \in x4
  BY DEF Property!SelectOption, PropertyInv, Constructed
<1>3. /\ o \in Property!Options(x1, "w")
                  \cup (IF Property!Command THEN Property!Displays ELSE {})
      /\ Property!CommandOptions = Property!Options(x1, "w")
  BY <1>2 DEF PropertyInv, Offered, Property!CommandOptions
<1>4. x1' = x1 /\ x9'.by = "select"
  <2>1. x1' = x1
    BY <1>1 DEF Property!Aside, Property!Posts, Property!Received
  <2>2. x9'.by = "select"
    BY <1>1 DEF Property!Stopped, Property!Posts, Property!Outcome
  <2> QED BY <2>1, <2>2
<1>5. /\ Property!Command' <=> Property!Command
      /\ Property!Guarded(o)' <=> Property!Guarded(o)
  BY <1>4 DEF Property!Command, Property!OvenCommand, Property!LaundryCommand,
       Property!Guarded
<1>6. Property!OfferedIsAccepted'
  <2>1. CASE Property!Command /\ o \notin Property!CommandOptions
    <3>1. o \in Property!Displays /\ x9'.came = "no_command" /\ x9'.asked = o
      BY <1>1, <1>3, <2>1 DEF Property!Stopped
    <3> QED BY <1>5, <2>1, <3>1 DEF Property!OfferedIsAccepted
  <2>2. CASE ~(Property!Command /\ o \notin Property!CommandOptions)
    <3>1. o \in Property!Options(x1, "w")
      BY <1>3, <2>2
    <3>2. CASE x9' = Property!Outcome("select", o)
      BY <1>2, <3>1, <3>2, OptionPosted DEF Property!OfferedIsAccepted, Property!Posted
    <3>3. CASE /\ Property!Guarded(o)
               /\ \/ Property!Stopped(o, "not_verified")
                  \/ Property!Stopped(o, "not_ready")
      <4>1. x9'.asked = o /\ x9'.came \in {"not_verified", "not_ready"}
        BY <3>3 DEF Property!Stopped
      <4> QED BY <1>5, <3>3, <4>1 DEF Property!OfferedIsAccepted, Property!Guarded,
              Property!OvenCommand, Property!LaundryCommand
    <3> QED BY <1>1, <2>2, <3>2, <3>3 DEF Property!Posts
  <2> QED BY <2>1, <2>2
<1>7. Property!SentIsWritable'
  BY <1>4 DEF Property!SentIsWritable
<1> QED BY <1>6, <1>7

\* A number posts a value of the range it may write.
LEMMA NumberKeeps ==
  ASSUME PropertyInv, Property!SetNumber
  PROVE  Property!OfferedIsAccepted' /\ Property!SentIsWritable'
<1> DEFINE w == Property!Parsed(x1.raw).wv[2]
           v(x) == IF Property!Shown.step % 2 = 0 THEN Property!Whole(x) ELSE x
<1>1. PICK x \in Asked : /\ Property!Shown.min <= x /\ x <= Property!Shown.max
                         /\ Property!Posts("number", v(x))
  BY DEF Property!SetNumber
<1>2. x1' = x1 /\ x4' = x4 /\ x9'.by = "number" /\ x9'.sent = Property!Converted(v(x))
  BY <1>1 DEF Property!Posts, Property!Outcome, Property!Aside
<1>3. Property!OfferedIsAccepted'
  BY <1>2 DEF Property!OfferedIsAccepted
<1>4. ASSUME "reading" \notin x4
      PROVE  w.min <= Property!Converted(v(x)) /\ Property!Converted(v(x)) <= w.max
  <2>1. x2 = "w" /\ x7 = Property!RangeOf(x1, "w") /\ "number" \in x4
    BY <1>4 DEF Property!SetNumber, PropertyInv, NumberAlone, Constructed
  <2>2. "number" \in x1.platforms /\ Property!CanActivate(x1, "READ_WRITE") /\ x1 \in Cases
    BY <2>1, AskedModes DEF PropertyInv, Constructed
  <2>3. /\ x1.raw.type = "range" /\ WholeRange(x1.raw.w) /\ w = x1.raw.w[2]
        /\ Property!RangeOf(x1, "w") = w
    BY <2>2, RangeToWrite
  <2>4. /\ w.min \in Int /\ w.max \in Int /\ w # None
        /\ w.step % 2 = 0 => w.min % 2 = 0 /\ w.max % 2 = 0
    BY <2>3 DEF WholeRange
  <2>5. Property!Shown = w
    BY <2>1, <2>3, <2>4 DEF Property!Shown
  <2>6. x \in Int /\ w.min <= x /\ x <= w.max
    BY <1>1, <2>5, AskedAssumption
  <2> HIDE DEF w
  <2>7. CASE w.step % 2 = 0
    <3>1. v(x) = Property!Whole(x) /\ Property!Converted(v(x)) = Property!Whole(v(x))
      BY <2>1, <2>3, <2>4, <2>5, <2>7 DEF Property!Converted
    <3>2. v(x) \in Int /\ w.min <= v(x) /\ v(x) <= w.max
      BY <2>4, <2>6, <2>7, <3>1, WholeBetween
    <3> HIDE DEF v
    <3> QED BY <2>4, <2>7, <3>1, <3>2, WholeBetween
  <2>8. CASE w.step % 2 # 0
    <3>1. v(x) = x /\ Property!Converted(v(x)) = v(x)
      BY <2>1, <2>3, <2>4, <2>5, <2>8 DEF Property!Converted
    <3> QED BY <2>6, <3>1
  <2> QED BY <2>7, <2>8
<1> HIDE DEF v
<1>5. Property!SentIsWritable'
  BY <1>2, <1>4 DEF Property!SentIsWritable
<1> QED BY <1>3, <1>5

\* Every step of a property keeps what its entities rest on.
LEMMA PropertyKept ==
  ASSUME PropertyInv, [Property!Next]_Property!vars
  PROVE  PropertyInv'
<1>1. CASE \E p \in DOMAIN Property!ModeAsked : Property!SetUp(p)
  BY <1>1, SetUpKeeps
<1>2. ASSUME NEW p, Property!Add(p)
      PROVE  PropertyInv'
  <2>1. /\ x1' = x1 /\ x2' = x2 /\ x4' = x4 /\ x8' = x8 /\ x9' = x9
        /\ x5' \subseteq x4 /\ x7' = Property!Refreshed /\ x6' = Property!Reselected
    BY <1>2 DEF Property!Add, PropertyInv, Constructed
  <2>2. NumberAlone' /\ Captured' /\ Offered'
    BY <2>1, RangeRefreshed, ReselectKeeps
  <2>3. Property!OfferedIsAccepted' /\ Property!SentIsWritable'
    BY <2>1, CallStays DEF PropertyInv
  <2> QED BY <2>1, <2>2, <2>3 DEF PropertyInv, Constructed, Asks, Property!Reported
<1>3. CASE Property!Update
  <2>1. Property!Received /\ x9' = x9
    BY <1>3 DEF Property!Update
  <2>2. /\ x1' = x1 /\ x4' = x4 /\ Constructed' /\ Captured' /\ Offered' /\ NumberAlone'
        /\ x8' \in Property!Reported' \cup {None}
    BY <2>1, ReceivedKeeps
  <2>3. Property!OfferedIsAccepted' /\ Property!SentIsWritable'
    BY <2>1, <2>2, CallStays DEF PropertyInv
  <2> QED BY <2>2, <2>3 DEF PropertyInv
<1>4. ASSUME x1' = x1, x2' = x2, x4' = x4, x5' = x5, x6' = x6, x7' = x7, x8' = x8,
             Property!OfferedIsAccepted', Property!SentIsWritable'
      PROVE  PropertyInv'
  BY <1>4 DEF PropertyInv, Constructed, Captured, Offered, NumberAlone, Asks,
       Property!Reported, Property!Command, Property!OvenCommand, Property!LaundryCommand
<1>5. CASE Property!SelectOption
  <2>1. Property!Aside \/ Property!Received
    BY <1>5 DEF Property!SelectOption, Property!Posts
  <2>2. Property!OfferedIsAccepted' /\ Property!SentIsWritable'
    BY <1>5, SelectKeeps
  <2>3. CASE Property!Aside
    BY <1>4, <2>2, <2>3 DEF Property!Aside
  <2>4. CASE Property!Received
    BY <2>2, <2>4, ReceivedKeeps DEF PropertyInv
  <2> QED BY <2>1, <2>3, <2>4
<1>6. CASE Property!SetNumber
  BY <1>4, <1>6, NumberKeeps DEF Property!SetNumber, Property!Posts, Property!Aside
<1>7. CASE Property!Turn
  <2>1. PICK k \in x1.codes : Property!Posts("switch", k)
    BY <1>7 DEF Property!Turn
  <2>2. x9'.by = "switch"
    BY <2>1 DEF Property!Posts, Property!Outcome
  <2> QED BY <1>4, <2>1, <2>2 DEF Property!Turn, Property!Posts, Property!Aside,
       Property!OfferedIsAccepted, Property!SentIsWritable
<1>8. CASE UNCHANGED Property!vars
  <2>1. x1' = x1 /\ x4' = x4 /\ x9' = x9
    BY <1>8 DEF Property!vars
  <2>2. Property!OfferedIsAccepted' /\ Property!SentIsWritable'
    BY <2>1, CallStays DEF PropertyInv
  <2> QED BY <1>4, <1>8, <2>2 DEF Property!vars
<1> QED BY <1>1, <1>2, <1>3, <1>5, <1>6, <1>7, <1>8 DEF Property!Next

\* What a sensor shows of an enumeration is an option of it.
LEMMA SensorShowsOption ==
  ASSUME PropertyInv
  PROVE  Property!SensorAmongOptions
<1> SUFFICES ASSUME x1.raw.type = "enum", x8 # None, NEW p \in {"sensor", "reading", "event"} \cap x4
             PROVE  Property!Value \in x6[p]
  BY DEF Property!SensorAmongOptions
<1>1. x6[p] = Property!Options(x1, "r") /\ x1 \in Cases
  BY AskedModes DEF PropertyInv, Captured, Constructed, Property!Capturing
<1>2. x8 \in Property!Reported
  BY DEF PropertyInv
<1>3. ListOrNothing(x1.raw.r)
  BY <1>1, CasesAssumption
<1>4. Property!Parsed(x1.raw).rv[1] = "list" /\ x8 \in Property!Parsed(x1.raw).rv[2]
  <2>1. Property!Parsed(x1.raw).rv \in {x1.raw.r, Property!Nothing}
    BY DEF Property!Parsed
  <2>2. Property!Parsed(x1.raw).rv[1] = "list" \/ Property!Parsed(x1.raw).rv = <<"none">>
    BY <1>3, <2>1 DEF ListOrNothing, Property!Nothing
  <2> QED BY <1>2, <2>2 DEF Property!Reported
<1>5. Property!Value = Lower[x8]
  BY DEF Property!Value
<1> QED BY <1>1, <1>4, <1>5, OptionToRead

\* Before any platform is set up, nothing is captured or asked for.
LEMMA PropertyBegins ==
  ASSUME Property!Init PROVE PropertyInv
<1>1. x9.by = None /\ None # "select" /\ None # "number"
  BY NoneAssumption DEF Property!Init, Property!NoCall
<1>2. Property!OfferedIsAccepted /\ Property!SentIsWritable
  BY <1>1 DEF Property!OfferedIsAccepted, Property!SentIsWritable
<1>3. x6 = [q \in Property!Capturing |-> x6[q]]
  BY DEF Property!Init
<1> QED BY <1>2, <1>3 DEF Property!Init, PropertyInv, Constructed, Captured, Offered,
     NumberAlone

\* Entities keep to the profile (property.py, select.py, the platforms' async_setup_entry),
\* in whatever order the platforms were set up: the device class never refuses an option a
\* select offers, and what an oven's or laundry select does not post is a state it
\* displays, or the guard's to refuse; a number sends what the profile allows, and a sensor
\* shows one of its options for every value of its profile.
THEOREM ProfilesKept == EntitiesSpec => []ProfileKept
<1> DEFINE Inv == part = "property" => PropertyInv
<1>1. EntitiesInit => Inv
  BY PropertyBegins DEF EntitiesInit
<1>2. Inv /\ [EntitiesNext]_all => Inv'
  <2> SUFFICES ASSUME Inv, [EntitiesNext]_all, part' = "property" PROVE PropertyInv'
    OBVIOUS
  <2>1. part = "property"
    BY DEF EntitiesNext, all
  <2> QED BY <2>1, PropertyPart, PropertyKept
<1>3. Inv => ProfileKept
  BY SensorShowsOption DEF ProfileKept, PropertyInv
<1> QED BY <1>1, <1>2, <1>3, PTL DEF EntitiesSpec

-----------------------------------------------------------------------------
(***************************************************************************)
(* The climate entity: x1 is the appliance, x2 its reports on the way, x3  *)
(* the device's attributes, x4 the state of the entity, x5 the calls.  The *)
(* last report on the way is what the appliance is; the state follows the  *)
(* device, its helpers only while the appliance is on.  Two instances      *)
(* share the argument, so it is about any calls C and any requests R.      *)
(***************************************************************************)
AnyRequest == ClimateRequests \cup AllRequests
AnyMode == Modes \cup AllModes \cup {"cool", "fan"} \cup {r.mode : r \in AnyRequest}

RawApps == [on : BOOLEAN, mode : AnyMode, two : BOOLEAN, sp : [SetPoints -> Temps]]
TargetShown(a) ==
  Climate!SetPoint(a) # None => a.sp["TARGET"] = a.sp[Climate!SetPoint(a)]
Apps == {a \in RawApps : TargetShown(a)}

\* The entity's state s after a report of the device d.
Shows(s, d) ==
  /\ s.on = d.on /\ s.mode = d.mode /\ s.preset = Climate!Preset(d)
  /\ s.held \in [Climate!Presets -> [Climate!Parts -> SetPoints \cup {None}]]
  /\ d.on => /\ s.preset \in s.known
             /\ \A part_ \in Climate!Parts :
                  s.held[s.preset][part_] = Climate!HolderFor(s.preset, part_, d.mode)

\* What a call may be about to post.
Values == UNION {[D -> Temps] : D \in SUBSET SetPoints}
Labels == {"mode", "job", "temp", "range", "end"}
Posts == {d \in [does : {"post"}, op : {"on", "off", "mode", "set"},
                 arg : AnyMode \cup Values \cup {None}, nap : BOOLEAN, then : Labels] :
            /\ d.op = "mode" => d.arg \in AnyMode
            /\ d.op = "set" => d.arg \in Values}
Going(R) == {Climate!Idle} \cup [at : {"posting", "asleep"}, req : R, do : Posts]

ClimateInv(C, R) ==
  /\ x1 \in Apps /\ x2 \in Seq(Apps) /\ x3 \in Apps
  /\ x2 = <<>> => x3 = x1
  /\ x2 # <<>> => x2[Len(x2)] = x1
  /\ Shows(x4, x3)
  /\ x5 \in [C -> Going(R)]

\* The property each helper has, by preset and mode.
LEMMA Holders ==
  ASSUME NEW m
  PROVE  /\ Climate!HolderFor("single", "target", m) =
              IF m \in {"auto", "energy_saving", "cool", "heat"} THEN "TARGET" ELSE None
         /\ Climate!HolderFor("single", "low", m) = IF m = "heat" THEN "HEAT" ELSE None
         /\ Climate!HolderFor("single", "high", m) = IF m = "cool" THEN "COOL" ELSE None
         /\ Climate!HolderFor("single", "auto", m) = IF m = "auto" THEN "AUTO" ELSE None
         /\ Climate!HolderFor("double", "target", m) =
              IF m = "heat" THEN "TWO_HEAT"
              ELSE IF m \in {"energy_saving", "cool"} THEN "TWO_COOL" ELSE None
         /\ Climate!HolderFor("double", "low", m) =
              IF m \in {"auto", "heat"} THEN "TWO_HEAT" ELSE None
         /\ Climate!HolderFor("double", "high", m) =
              IF m \in {"auto", "cool"} THEN "TWO_COOL" ELSE None
         /\ Climate!HolderFor("double", "auto", m) = None
<1>1. /\ Climate!HvacMap("single") = Climate!SingleMap
      /\ Climate!HvacMap("double") = Climate!DoubleMap
  BY DEF Climate!HvacMap
<1>2. /\ Climate!SingleMap["target"] = [n \in {"auto", "energy_saving", "cool", "heat"} |-> "TARGET"]
      /\ Climate!SingleMap["low"] = [n \in {"heat"} |-> "HEAT"]
      /\ Climate!SingleMap["high"] = [n \in {"cool"} |-> "COOL"]
      /\ Climate!SingleMap["auto"] = [n \in {"auto"} |-> "AUTO"]
  BY DEF Climate!SingleMap
<1>3. /\ Climate!DoubleMap["target"] = [n \in {"energy_saving", "cool", "heat"} |->
                                         IF n = "heat" THEN "TWO_HEAT" ELSE "TWO_COOL"]
      /\ Climate!DoubleMap["low"] = [n \in {"auto", "heat"} |-> "TWO_HEAT"]
      /\ Climate!DoubleMap["high"] = [n \in {"auto", "cool"} |-> "TWO_COOL"]
      /\ Climate!DoubleMap["auto"] = [n \in {} |-> "AUTO"]
  BY DEF Climate!DoubleMap
<1> QED BY <1>1, <1>2, <1>3 DEF Climate!HolderFor

\* They are set points, or none.
LEMMA HolderTyped ==
  ASSUME NEW p \in Climate!Presets, NEW q \in Climate!Parts, NEW m
  PROVE  Climate!HolderFor(p, q, m) \in SetPoints \cup {None}
BY Holders DEF Climate!Presets, Climate!Parts, SetPoints

\* An appliance whose target is settled is one.
LEMMA SettledApp ==
  ASSUME NEW a \in RawApps
  PROVE  Climate!Settled(a) \in Apps
<1> DEFINE k == Climate!SetPoint(a)
           b == Climate!Settled(a)
<1>1. k \in SetPoints \cup {None} /\ k # "TARGET"
  BY RequestsAssumption DEF Climate!SetPoint, SetPoints
<1>2. CASE k = None
  BY <1>2 DEF Climate!Settled, Apps, TargetShown
<1>3. CASE k # None
  <2>1. b = [a EXCEPT !.sp["TARGET"] = a.sp[k]]
    BY <1>3 DEF Climate!Settled
  <2>2. k \in SetPoints /\ a.sp \in [SetPoints -> Temps] /\ "TARGET" \in SetPoints
    BY <1>1, <1>3 DEF RawApps, SetPoints
  <2>3. b \in RawApps /\ b.mode = a.mode /\ b.two = a.two /\ b.sp = [a.sp EXCEPT !["TARGET"] = a.sp[k]]
    <3> HIDE DEF k, b
    <3> QED BY <2>1, <2>2 DEF RawApps
  <2>4. Climate!SetPoint(b) = k
    BY <2>3 DEF Climate!SetPoint
  <2>5. b.sp["TARGET"] = b.sp[k]
    BY <1>1, <2>2, <2>3
  <2> QED BY <2>3, <2>4, <2>5 DEF Apps, TargetShown
<1> QED BY <1>2, <1>3

\* A report makes the entity's state that of the device reported.
LEMMA ReportShown ==
  ASSUME NEW s, NEW d \in Apps,
         s.held \in [Climate!Presets -> [Climate!Parts -> SetPoints \cup {None}]]
  PROVE  Shows(Climate!Updated(s, d), d)
<1> DEFINE p == Climate!Preset(d)
           h == [q \in Climate!Parts |-> Climate!HolderFor(p, q, d.mode)]
           u == Climate!Updated(s, d)
<1>1. p \in Climate!Presets /\ d.on \in BOOLEAN
  BY DEF Climate!Preset, Climate!Presets, Apps, RawApps
<1>2. h \in [Climate!Parts -> SetPoints \cup {None}]
  BY <1>1, HolderTyped
<1>3. /\ u.on = d.on /\ u.mode = d.mode /\ u.preset = p
      /\ u.held = IF d.on THEN [s.held EXCEPT ![p] = h] ELSE s.held
      /\ u.known = IF d.on THEN s.known \cup {p} ELSE s.known
  BY DEF Climate!Updated
<1> HIDE DEF u, h
<1>4. u.held \in [Climate!Presets -> [Climate!Parts -> SetPoints \cup {None}]]
  BY <1>1, <1>2, <1>3
<1>5. d.on => p \in u.known /\ u.held[p] = h
  BY <1>1, <1>3
<1>6. \A q \in Climate!Parts : h[q] = Climate!HolderFor(p, q, d.mode)
  BY DEF h
<1> QED BY <1>3, <1>4, <1>5, <1>6 DEF Shows, u

\* The holders the entity has are set points, or none.
LEMMA HeldTyped ==
  ASSUME Shows(x4, x3), x3 \in Apps
  PROVE  /\ \A q \in Climate!Parts : Climate!Held(q) \in SetPoints \cup {None}
         /\ Climate!CoolHolder \in SetPoints \cup {None}
         /\ Climate!ControlHolder \in SetPoints \cup {None}
<1>1. x4.preset \in Climate!Presets
  BY DEF Shows, Climate!Preset, Climate!Presets
<1>2. \A q \in Climate!Parts : Climate!Held(q) \in SetPoints \cup {None}
  BY <1>1 DEF Climate!Held, Shows
<1>3. Climate!CoolHolder \in SetPoints \cup {None}
  BY <1>1, HolderTyped DEF Climate!CoolHolder, Climate!Parts
<1> QED BY <1>2, <1>3 DEF Climate!ControlHolder, Climate!Parts

\* A command of the setters is of temperatures.
LEMMA PutTyped ==
  ASSUME x3 \in Apps, NEW k \in SetPoints, NEW t \in Temps, NEW low \in Temps, NEW high \in Temps
  PROVE  Climate!Put(k, t) \in Values /\ Climate!PutRange(low, high) \in Values
<1>1. x3.sp \in [SetPoints -> Temps]
  BY DEF Apps, RawApps
<1>2. {"TWO_HEAT", "TWO_COOL"} \in SUBSET SetPoints /\ {k} \in SUBSET SetPoints
  BY DEF SetPoints
<1>3. \A D \in SUBSET SetPoints : \A f \in [D -> Temps] : f \in Values
  BY DEF Values
<1>4. Climate!PutRange(low, high) \in [{"TWO_HEAT", "TWO_COOL"} -> Temps]
  BY DEF Climate!PutRange
<1>5. x3.sp["TWO_HEAT"] \in Temps /\ x3.sp["TWO_COOL"] \in Temps
  BY <1>1 DEF SetPoints
<1>6. Climate!Put(k, t) \in [{"TWO_HEAT", "TWO_COOL"} -> Temps] \cup [{k} -> Temps]
  BY <1>5 DEF Climate!Put
<1>7. Climate!PutRange(low, high) \in Values
  BY <1>2, <1>3, <1>4
<1>8. Climate!Put(k, t) \in Values
  BY <1>2, <1>3, <1>6
<1> QED BY <1>7, <1>8

\* What a coroutine does next is a command of its type, or the end of it.
LEMMA Decides ==
  ASSUME Shows(x4, x3), x3 \in Apps, NEW r \in AnyRequest
  PROVE  /\ Climate!Starting(r) \in Posts \cup {Climate!End, Climate!Fail}
         /\ \A l \in Labels : Climate!Resuming(r, l) \in Posts \cup {Climate!End, Climate!Fail}
<1> DEFINE Doing == Posts \cup {Climate!End, Climate!Fail}
<1>1. /\ r = [op |-> r.op, mode |-> r.mode, temp |-> r.temp, range |-> r.range]
      /\ r.temp \in Temps \cup {None} /\ r.range \in (Temps \X Temps) \cup {None}
      /\ r.mode \in AnyMode
  BY RequestsAssumption DEF AnyRequest, AnyMode, IsRequest
<1>2. \A op \in {"on", "off"}, n \in BOOLEAN, l \in Labels : Climate!Post(op, None, n, l) \in Posts
  BY DEF Climate!Post, Posts
<1>3. \A m \in AnyMode, n \in BOOLEAN, l \in Labels : Climate!Post("mode", m, n, l) \in Posts
  BY DEF Climate!Post, Posts
<1>4. \A f \in Values, n \in BOOLEAN, l \in Labels : Climate!Post("set", f, n, l) \in Posts
  BY DEF Climate!Post, Posts
<1>5. {"mode", "job", "temp", "range", "end"} \subseteq Labels /\ TRUE \in BOOLEAN /\ FALSE \in BOOLEAN
  BY DEF Labels
<1>6. Climate!AtRange(r) \in Doing
  <2>1. CASE r.range = None
    BY <2>1 DEF Climate!AtRange
  <2>2. CASE r.range # None
    <3>1. PICK low \in Temps, high \in Temps : r.range = <<low, high>>
      BY <1>1, <2>2
    <3>2. Climate!PutRange(r.range[1], r.range[2]) \in Values
      <4>1. "TARGET" \in SetPoints
        BY DEF SetPoints
      <4> QED BY <3>1, <4>1, PutTyped
    <3> QED BY <1>4, <1>5, <2>2, <3>2 DEF Climate!AtRange
  <2> QED BY <2>1, <2>2
<1>7. Climate!AtTemp(r) \in Doing
  <2>1. CASE r.temp = None
    BY <1>6, <2>1 DEF Climate!AtTemp
  <2>2. CASE r.temp # None
    <3>1. Climate!ControlHolder # None => Climate!Put(Climate!ControlHolder, r.temp) \in Values
      BY <1>1, <2>2, HeldTyped, PutTyped
    <3>2. Climate!AtTemp(r) \in {Climate!AtRange(r), Climate!Fail}
            \/ (Climate!ControlHolder # None /\
                Climate!AtTemp(r) = Climate!Post("set", Climate!Put(Climate!ControlHolder, r.temp),
                                                 FALSE, "range"))
      BY <2>2 DEF Climate!AtTemp
    <3> QED BY <1>4, <1>5, <1>6, <3>1, <3>2
  <2> QED BY <2>1, <2>2
<1>8. \A q : q.mode \in AnyMode => Climate!AtJob(q) \in Posts
  BY <1>3, <1>5 DEF Climate!AtJob
<1>9. Climate!AtHvac(r) \in Doing
  BY <1>1, <1>2, <1>5, <1>8 DEF Climate!AtHvac
<1>10. Climate!AtMode(r) \in Doing
  BY <1>7, <1>9 DEF Climate!AtMode
<1>11. Climate!AtPreset(r) \in Doing
  <2>1. PICK m \in AnyMode : Climate!AtPreset(r) = Climate!AtJob([r EXCEPT !.mode = m])
    BY <1>1 DEF Climate!AtPreset, AnyMode
  <2>2. [r EXCEPT !.mode = m].mode = m
    BY <1>1
  <2> QED BY <1>8, <2>1, <2>2
<1>12. Climate!Starting(r) \in Doing
  BY <1>2, <1>5, <1>9, <1>10, <1>11 DEF Climate!Starting
<1>13. \A l \in Labels : Climate!Resuming(r, l) \in Doing
  BY <1>1, <1>6, <1>7, <1>8, <1>10 DEF Climate!Resuming, Labels
<1> QED BY <1>12, <1>13

\* A command obeyed leaves the appliance one.
LEMMA ObeyedApp ==
  ASSUME x1 \in Apps, NEW d \in Posts
  PROVE  Climate!Obeyed(d.op, d.arg) \in Apps
<1> DEFINE a == CASE d.op = "on" -> [x1 EXCEPT !.on = TRUE]
                  [] d.op = "off" -> [x1 EXCEPT !.on = FALSE]
                  [] d.op = "mode" -> [x1 EXCEPT !.mode = d.arg]
                  [] d.op = "set" -> [x1 EXCEPT !.sp =
                       [k \in SetPoints |-> IF k \in DOMAIN d.arg THEN d.arg[k] ELSE x1.sp[k]]]
<1>1. x1 \in RawApps
  BY DEF Apps
<1>2. Climate!Keys = SetPoints
  BY DEF Climate!Keys, SetPoints
<1>3. Climate!Obeyed(d.op, d.arg) = Climate!Settled(a)
  BY <1>1, <1>2 DEF Climate!Obeyed, RawApps
<1>4. a \in RawApps
  <2>1. CASE d.op \in {"on", "off"}
    BY <1>1, <2>1 DEF RawApps
  <2>2. CASE d.op = "mode"
    BY <1>1, <2>2 DEF RawApps, Posts
  <2>3. CASE d.op = "set"
    <3>1. PICK D \in SUBSET SetPoints : d.arg \in [D -> Temps]
      BY <2>3 DEF Posts, Values
    <3>2. [k \in SetPoints |-> IF k \in DOMAIN d.arg THEN d.arg[k] ELSE x1.sp[k]] \in [SetPoints -> Temps]
      BY <1>1, <3>1 DEF RawApps
    <3> QED BY <1>1, <2>3, <3>2 DEF RawApps
  <2> QED BY <2>1, <2>2, <2>3 DEF Posts
<1> QED BY <1>3, <1>4, SettledApp

\* What a step of either instance comes to: the calls stay typed, and the appliance
\* changes and reports so, or a report arrives, or neither.
Moved(C, R) ==
  /\ x5' \in [C -> Going(R)]
  /\ \/ UNCHANGED <<x1, x2, x3, x4>>
     \/ x1' \in Apps /\ x2' = Append(x2, x1') /\ UNCHANGED <<x3, x4>>
     \/ /\ x2 # <<>> /\ x2' = Tail(x2) /\ x3' = Head(x2) /\ x4' = Climate!Updated(x4, x3')
        /\ UNCHANGED x1

\* Such a step leaves the last report on the way what the appliance is.
LEMMA MovedKeeps ==
  ASSUME NEW C, NEW R, ClimateInv(C, R), Moved(C, R)
  PROVE  ClimateInv(C, R)'
<1>1. CASE UNCHANGED <<x1, x2, x3, x4>>
  BY <1>1 DEF ClimateInv, Moved
<1>2. CASE x1' \in Apps /\ x2' = Append(x2, x1') /\ UNCHANGED <<x3, x4>>
  <2>1. /\ x2' \in Seq(Apps) /\ Len(x2') = Len(x2) + 1 /\ x2'[Len(x2) + 1] = x1'
    BY <1>2, AppendProperties DEF ClimateInv
  <2>2. Len(x2) \in Nat
    BY LenProperties DEF ClimateInv
  <2>3. x2' # <<>>
    BY <2>1, <2>2
  <2> QED BY <1>2, <2>1, <2>3 DEF ClimateInv, Moved
<1>3. CASE /\ x2 # <<>> /\ x2' = Tail(x2) /\ x3' = Head(x2) /\ x4' = Climate!Updated(x4, x3')
           /\ UNCHANGED x1
  <2>1. /\ x2 \in Seq(Apps) /\ x2 # <<>> /\ Len(x2) \in Nat /\ Len(x2) # 0
    BY <1>3, LenProperties, EmptySeq DEF ClimateInv
  <2>2. /\ x3' = x2[1] /\ x3' \in Apps /\ x2' \in Seq(Apps) /\ Len(x2') = Len(x2) - 1
        /\ \A i \in 1 .. Len(x2') : x2'[i] = x2[i + 1]
    BY <1>3, <2>1, HeadTailProperties
  <2>3. x2' = <<>> => x3' = x1'
    <3> SUFFICES ASSUME x2' = <<>> PROVE x3' = x1
      BY <1>3
    <3>1. Len(x2') = 0
      BY EmptySeq
    <3>2. Len(x2) = 1
      BY <2>1, <2>2, <3>1
    <3> QED BY <1>3, <2>2, <3>2 DEF ClimateInv
  <2>4. x2' # <<>> => x2'[Len(x2')] = x1'
    <3> SUFFICES ASSUME x2' # <<>> PROVE x2'[Len(x2')] = x1
      BY <1>3
    <3>1. Len(x2') \in Nat /\ Len(x2') # 0
      BY <2>2, LenProperties, EmptySeq
    <3>2. x2'[Len(x2')] = x2[Len(x2)]
      BY <2>1, <2>2, <3>1
    <3> QED BY <1>3, <3>2 DEF ClimateInv
  <2>5. Shows(x4', x3')
    BY <1>3, <2>2, ReportShown DEF ClimateInv, Shows
  <2> QED BY <1>3, <2>2, <2>3, <2>4, <2>5 DEF ClimateInv, Moved
<1> QED BY <1>1, <1>2, <1>3 DEF Moved

\* What goes on is a call of its type.
LEMMA GoesTyped ==
  ASSUME NEW C, NEW R, x5 \in [C -> Going(R)], NEW c \in C, NEW r \in R,
         NEW do \in Posts \cup {Climate!End, Climate!Fail}, Climate!Goes(c, r, do)
  PROVE  x5' \in [C -> Going(R)]
<1>1. (IF do.does = "post" THEN [at |-> "posting", req |-> r, do |-> do] ELSE Climate!Idle) \in Going(R)
  <2>1. CASE do \in Posts
    BY <2>1 DEF Posts, Going
  <2>2. CASE do \in {Climate!End, Climate!Fail}
    BY <2>2 DEF Climate!End, Climate!Fail, Going
  <2> QED BY <2>1, <2>2
<1> QED BY <1>1 DEF Climate!Goes

\* A call that is under way.
LEMMA GoingTyped ==
  ASSUME NEW C, NEW R, x5 \in [C -> Going(R)], NEW c \in C, x5[c].at # "idle"
  PROVE  /\ x5[c].req \in R /\ x5[c].do \in Posts /\ x5[c].do.then \in Labels
         /\ [x5 EXCEPT ![c].at = "asleep"] \in [C -> Going(R)]
<1>1. x5[c] \in [at : {"posting", "asleep"}, req : R, do : Posts]
  BY DEF Going, Climate!Idle
<1>2. [x5[c] EXCEPT !.at = "asleep"] \in Going(R)
  BY <1>1 DEF Going
<1>3. x5[c].do \in Posts /\ x5[c].do.then \in Labels
  BY <1>1 DEF Posts
<1> QED BY <1>1, <1>2, <1>3

\* The remote control leaves the appliance one.
LEMMA TouchedApp ==
  ASSUME x1 \in Apps, NEW M \in SUBSET AnyMode, NEW T \in SUBSET Temps,
         \/ x1' = [x1 EXCEPT !.on = ~@]
         \/ \E m \in M : x1' = Climate!Settled([x1 EXCEPT !.mode = m])
         \/ x1' = Climate!Settled([x1 EXCEPT !.two = ~@])
         \/ \E t \in T : /\ Climate!SetPoint(x1) # None
                         /\ x1' = Climate!Settled([x1 EXCEPT !.sp[Climate!SetPoint(x1)] = t])
  PROVE  x1' \in Apps
<1>1. x1 \in RawApps
  BY DEF Apps
<1>2. CASE x1' = [x1 EXCEPT !.on = ~@]
  <2>1. x1' \in RawApps /\ x1'.sp = x1.sp /\ x1'.mode = x1.mode /\ x1'.two = x1.two
    BY <1>1, <1>2 DEF RawApps
  <2>2. Climate!SetPoint(x1') = Climate!SetPoint(x1)
    BY <2>1 DEF Climate!SetPoint
  <2> QED BY <2>1, <2>2 DEF Apps, TargetShown
<1>3. CASE \E m \in M : x1' = Climate!Settled([x1 EXCEPT !.mode = m])
  <2>1. PICK m \in M : x1' = Climate!Settled([x1 EXCEPT !.mode = m])
    BY <1>3
  <2>2. [x1 EXCEPT !.mode = m] \in RawApps
    BY <1>1 DEF RawApps
  <2> QED BY <2>1, <2>2, SettledApp
<1>4. CASE x1' = Climate!Settled([x1 EXCEPT !.two = ~@])
  <2>1. [x1 EXCEPT !.two = ~@] \in RawApps
    BY <1>1 DEF RawApps
  <2> QED BY <1>4, <2>1, SettledApp
<1>5. CASE \E t \in T : /\ Climate!SetPoint(x1) # None
                        /\ x1' = Climate!Settled([x1 EXCEPT !.sp[Climate!SetPoint(x1)] = t])
  <2>1. PICK t \in T : x1' = Climate!Settled([x1 EXCEPT !.sp[Climate!SetPoint(x1)] = t])
    BY <1>5
  <2>2. [x1 EXCEPT !.sp[Climate!SetPoint(x1)] = t] \in RawApps
    BY <1>1 DEF RawApps
  <2> QED BY <2>1, <2>2, SettledApp
<1> QED BY <1>2, <1>3, <1>4, <1>5

\* Once every report has arrived, the entity shows what the appliance does.
LEMMA TruthShown ==
  ASSUME NEW C, NEW R, ClimateInv(C, R)
  PROVE  Climate!ShownTruth
<1> SUFFICES ASSUME x2 = <<>> PROVE Climate!ShownTruth
  BY DEF Climate!ShownTruth
<1>1. /\ x3 = x1 /\ x1 \in RawApps /\ TargetShown(x1)
      /\ x4.on = x1.on /\ x4.mode = x1.mode /\ x4.preset = Climate!Preset(x1)
  BY DEF ClimateInv, Shows, Apps
<1>2. x1.on \in BOOLEAN /\ x1.two \in BOOLEAN /\ \A k \in SetPoints : x1.sp[k] \in Temps /\ x1.sp[k] # None
  BY <1>1, RequestsAssumption DEF RawApps
<1>3. ASSUME x1.on, NEW q \in Climate!Parts
      PROVE  Climate!Held(q) = Climate!HolderFor(Climate!Preset(x1), q, x1.mode)
  BY <1>1, <1>3 DEF ClimateInv, Shows, Climate!Held
<1>4. Climate!ShownMode = IF x1.on THEN Climate!HvacOf(x1.mode) ELSE "off"
  BY <1>1 DEF Climate!ShownMode
<1>5. ASSUME ~x1.on, NEW q
      PROVE  Climate!Shown(q) = None
  BY <1>1, <1>5 DEF Climate!Shown
<1>6. ASSUME x1.on
      PROVE  /\ Climate!Shown("target") = None <=> Climate!SetPoint(x1) = None
             /\ Climate!Shown("target") # None =>
                  Climate!Shown("target") = x1.sp[Climate!SetPoint(x1)]
  <2> DEFINE h == Climate!HolderFor(Climate!Preset(x1), "target", x1.mode)
             k == Climate!SetPoint(x1)
  <2>1. Climate!Shown("target") = IF h # None THEN x1.sp[h] ELSE None
    BY <1>1, <1>3, <1>6 DEF Climate!Shown, Climate!Parts
  <2>2. CASE x1.two
    <3>1. Climate!Preset(x1) = "double"
      BY <2>2 DEF Climate!Preset
    <3>2. h = k /\ h \in SetPoints \cup {None}
      BY <2>2, <3>1, Holders DEF Climate!SetPoint, SetPoints
    <3> QED BY <1>2, <2>1, <3>2
  <2>3. CASE ~x1.two
    <3>1. Climate!Preset(x1) = "single"
      BY <2>3 DEF Climate!Preset
    <3>2. h = IF x1.mode \in {"auto", "energy_saving", "cool", "heat"} THEN "TARGET" ELSE None
      BY <3>1, Holders
    <3>3. /\ k # None <=> x1.mode \in {"auto", "energy_saving", "cool", "heat"}
          /\ k \in SetPoints \cup {None}
      BY <2>3, RequestsAssumption DEF Climate!SetPoint, SetPoints
    <3>4. h # None <=> k # None
      BY <3>2, <3>3, RequestsAssumption DEF SetPoints
    <3>5. k # None => h = "TARGET" /\ x1.sp["TARGET"] = x1.sp[k]
      BY <1>1, <3>2, <3>3 DEF TargetShown
    <3> QED BY <1>2, <2>1, <3>3, <3>4, <3>5 DEF SetPoints
  <2> QED BY <1>2, <2>2, <2>3
<1>7. ASSUME x1.on, x1.two, x1.mode = "auto"
      PROVE  Climate!Shown("low") = x1.sp["TWO_HEAT"] /\ Climate!Shown("high") = x1.sp["TWO_COOL"]
  <2>1. Climate!Held("low") = "TWO_HEAT" /\ Climate!Held("high") = "TWO_COOL"
    BY <1>3, <1>7, Holders DEF Climate!Preset, Climate!Parts
  <2> QED BY <1>1, <1>7, <2>1, RequestsAssumption DEF Climate!Shown, SetPoints
<1> QED BY <1>2, <1>4, <1>5, <1>6, <1>7 DEF Climate!ShownTruth

\* Once every report has arrived, the range shown is that of the property written.
LEMMA RangeShown ==
  ASSUME NEW C, NEW R, ClimateInv(C, R)
  PROVE  Climate!RangeOfHolder
<1> SUFFICES ASSUME x2 = <<>>, x1.on, Climate!SetPoint(x1) # None
             PROVE  /\ Climate!ControlHolder = Climate!SetPoint(x1)
                    /\ x1.mode # "energy_saving" =>
                         /\ Climate!ShownMin = Limits[Climate!ControlHolder].min
                         /\ Climate!ShownMax = Limits[Climate!ControlHolder].max
  BY DEF Climate!RangeOfHolder
<1> DEFINE k == Climate!SetPoint(x1)
           p == Climate!Preset(x1)
<1>1. /\ x3 = x1 /\ x1 \in RawApps
      /\ x4.mode = x1.mode /\ x4.preset = p /\ p \in x4.known
  BY DEF ClimateInv, Shows, Apps
<1>2. ASSUME NEW q \in Climate!Parts
      PROVE  Climate!Held(q) = Climate!HolderFor(p, q, x1.mode)
  BY <1>1 DEF ClimateInv, Shows, Climate!Held
<1>3. /\ Climate!Held("low") = Climate!HolderFor(p, "low", x1.mode)
      /\ Climate!Held("high") = Climate!HolderFor(p, "high", x1.mode)
      /\ Climate!Held("auto") = Climate!HolderFor(p, "auto", x1.mode)
      /\ Climate!CoolHolder = Climate!HolderFor(p, "high", "cool")
  BY <1>1, <1>2 DEF Climate!Parts, Climate!CoolHolder
<1>4. \/ p = "double" /\ x1.mode = "heat" /\ k = "TWO_HEAT"
      \/ p = "double" /\ x1.mode \in {"cool", "energy_saving"} /\ k = "TWO_COOL"
      \/ p = "single" /\ x1.mode = "heat" /\ k = "HEAT"
      \/ p = "single" /\ x1.mode \in {"cool", "energy_saving"} /\ k = "COOL"
      \/ p = "single" /\ x1.mode = "auto" /\ k = "AUTO"
  BY DEF Climate!SetPoint, Climate!Preset
<1>5. Climate!ControlHolder = k
  BY <1>1, <1>3, <1>4, Holders DEF Climate!ControlHolder
<1>6. ASSUME x1.mode # "energy_saving"
      PROVE  Climate!ShownMin = Limits[k].min /\ Climate!ShownMax = Limits[k].max
  <2>1. k \in SetPoints /\ k # None
    BY <1>4, RequestsAssumption DEF SetPoints
  <2>2. Climate!Active = {k}
    <3>1. Climate!Active = {Climate!Held("low"), Climate!Held("high"), Climate!Held("auto")} \ {None}
      BY DEF Climate!Active
    <3>2. {Climate!Held("low"), Climate!Held("high"), Climate!Held("auto")} \in {{k}, {k, None}}
      BY <1>3, <1>4, <1>6, Holders
    <3> HIDE DEF k
    <3> QED BY <2>1, <3>1, <3>2
  <2>3. Climate!Ranged = {k}
    BY <2>2 DEF Climate!Ranged
  <2>4. Limits[k].min \in Int /\ Limits[k].max \in Int
    BY <2>1, LimitsAssumption
  <2> HIDE DEF k
  <2>5. {Limits[q].min : q \in Climate!Ranged} = {Limits[k].min}
    BY <2>3
  <2>6. {Limits[q].max : q \in Climate!Ranged} = {Limits[k].max}
    BY <2>3
  <2>7. ASSUME NEW n \in Int
        PROVE  /\ (CHOOSE x \in {n} : \A y \in {n} : x <= y) = n
               /\ (CHOOSE x \in {n} : \A y \in {n} : x >= y) = n
    <3>1. \E x \in {n} : \A y \in {n} : x <= y
      BY <2>7
    <3>2. \E x \in {n} : \A y \in {n} : x >= y
      BY <2>7
    <3> QED BY <3>1, <3>2
  <2>8. /\ Climate!ShownMin = CHOOSE x \in {Limits[k].min} : \A y \in {Limits[k].min} : x <= y
        /\ Climate!ShownMax = CHOOSE x \in {Limits[k].max} : \A y \in {Limits[k].max} : x >= y
    BY <2>5, <2>6, Zenon DEF Climate!ShownMin, Climate!ShownMax
  <2> QED BY <2>4, <2>7, <2>8, Zenon
<1> QED BY <1>5, <1>6

\* The instances differ in their calls, requests and modes alone.
LEMMA SameClimate ==
  /\ \A s, d : Lone!Updated(s, d) = Climate!Updated(s, d)
  /\ \A a : Lone!Settled(a) = Climate!Settled(a) /\ Lone!SetPoint(a) = Climate!SetPoint(a)
  /\ \A op, arg : Lone!Obeyed(op, arg) = Climate!Obeyed(op, arg)
  /\ \A c, r, do : Lone!Goes(c, r, do) <=> Climate!Goes(c, r, do)
  /\ Lone!Fail = Climate!Fail
  /\ \A r : Lone!Starting(r) = Climate!Starting(r)
  /\ \A r, l : Lone!Resuming(r, l) = Climate!Resuming(r, l)
  /\ \A m : Lone!HvacOf(m) = Climate!HvacOf(m)
  /\ Lone!ShownTruth <=> Climate!ShownTruth
  /\ Lone!RangeOfHolder <=> Climate!RangeOfHolder
<1> USE DEF Lone!HvacMap, Climate!HvacMap, Lone!SingleMap, Climate!SingleMap, Lone!DoubleMap,
     Climate!DoubleMap, Lone!Keys, Climate!Keys, Lone!Presets, Climate!Presets, Lone!Parts,
     Climate!Parts, Lone!Post, Climate!Post, Lone!End, Climate!End, Lone!Fail, Climate!Fail,
     Lone!Idle, Climate!Idle, Lone!Preset, Climate!Preset
<1>1. \A p, q, m : Lone!HolderFor(p, q, m) = Climate!HolderFor(p, q, m)
  BY DEF Lone!HolderFor, Climate!HolderFor
<1>2. \A s, d : Lone!Updated(s, d) = Climate!Updated(s, d)
  BY <1>1 DEF Lone!Updated, Climate!Updated
<1>3. \A a : Lone!SetPoint(a) = Climate!SetPoint(a)
  BY DEF Lone!SetPoint, Climate!SetPoint
<1>4. \A a : Lone!Settled(a) = Climate!Settled(a)
  BY <1>3 DEF Lone!Settled, Climate!Settled
<1>5. \A op, arg : Lone!Obeyed(op, arg) = Climate!Obeyed(op, arg)
  BY <1>4 DEF Lone!Obeyed, Climate!Obeyed
<1>6. \A c, r, do : Lone!Goes(c, r, do) <=> Climate!Goes(c, r, do)
  BY DEF Lone!Goes, Climate!Goes
<1>7. \A q : Lone!Held(q) = Climate!Held(q)
  BY DEF Lone!Held, Climate!Held
<1>8. \A q : Lone!Shown(q) = Climate!Shown(q)
  BY <1>7 DEF Lone!Shown, Climate!Shown
<1>9. \A m : Lone!HvacOf(m) = Climate!HvacOf(m)
  BY DEF Lone!HvacOf, Climate!HvacOf, Lone!THINQ_PRESET_MODE, Climate!THINQ_PRESET_MODE
<1>10. Lone!ShownMode = Climate!ShownMode
  BY <1>9 DEF Lone!ShownMode, Climate!ShownMode
<1>11. Lone!CoolHolder = Climate!CoolHolder
  BY <1>1 DEF Lone!CoolHolder, Climate!CoolHolder
<1>12. Lone!ControlHolder = Climate!ControlHolder
  BY <1>7, <1>11 DEF Lone!ControlHolder, Climate!ControlHolder
<1>13. Lone!HasStep <=> Climate!HasStep
  BY <1>11, <1>12 DEF Lone!HasStep, Climate!HasStep
<1>14. \A k, t : Lone!Put(k, t) = Climate!Put(k, t)
  BY DEF Lone!Put, Climate!Put
<1>15. \A a, b : Lone!PutRange(a, b) = Climate!PutRange(a, b)
  BY DEF Lone!PutRange, Climate!PutRange
<1>16. \A r : Lone!AtRange(r) = Climate!AtRange(r)
  BY <1>13, <1>15 DEF Lone!AtRange, Climate!AtRange
<1>17. \A r : Lone!AtTemp(r) = Climate!AtTemp(r)
  BY <1>8, <1>12, <1>13, <1>14, <1>16 DEF Lone!AtTemp, Climate!AtTemp
<1>18. \A r : Lone!AtJob(r) = Climate!AtJob(r)
  BY DEF Lone!AtJob, Climate!AtJob
<1>19. \A r : Lone!AtHvac(r) = Climate!AtHvac(r)
  BY <1>18 DEF Lone!AtHvac, Climate!AtHvac
<1>20. \A r : Lone!AtMode(r) = Climate!AtMode(r)
  BY <1>10, <1>17, <1>19 DEF Lone!AtMode, Climate!AtMode
<1>21. \A r : Lone!AtPreset(r) = Climate!AtPreset(r)
  BY <1>18 DEF Lone!AtPreset, Climate!AtPreset
<1>22. \A r : Lone!Starting(r) = Climate!Starting(r)
  BY <1>19, <1>20, <1>21 DEF Lone!Starting, Climate!Starting
<1>23. \A r, l : Lone!Resuming(r, l) = Climate!Resuming(r, l)
  BY <1>16, <1>17, <1>18, <1>20 DEF Lone!Resuming, Climate!Resuming
<1>24. Lone!ShownTruth <=> Climate!ShownTruth
  BY <1>3, <1>8, <1>9, <1>10 DEF Lone!ShownTruth, Climate!ShownTruth
<1>25. Lone!Active = Climate!Active
  BY <1>7 DEF Lone!Active, Climate!Active
<1>26. Lone!Ranged = Climate!Ranged
  BY <1>11, <1>25 DEF Lone!Ranged, Climate!Ranged
<1>27. Lone!ShownMin = Climate!ShownMin /\ Lone!ShownMax = Climate!ShownMax
  BY <1>26 DEF Lone!ShownMin, Climate!ShownMin, Lone!ShownMax, Climate!ShownMax
<1>28. Lone!RangeOfHolder <=> Climate!RangeOfHolder
  BY <1>3, <1>12, <1>27 DEF Lone!RangeOfHolder, Climate!RangeOfHolder
<1> QED BY <1>2, <1>3, <1>4, <1>5, <1>6, <1>9, <1>22, <1>23, <1>24, <1>28

\* The steps of either instance, of calls C that ask R of an appliance with modes M.
QuietOf(C) == x2 = <<>> /\ \A c \in C : x5[c].at # "posting"
Goes(c, label) == Climate!Goes(c, x5[c].req, Climate!Resuming(x5[c].req, label))
CallOf(C, R, c) ==
  /\ x5[c].at = "idle"
  /\ \E r \in R : Climate!Goes(c, r, Climate!Starting(r))
  /\ x7' = IF QuietOf(C) /\ \A d \in C : x5[d] = Climate!Idle THEN {c} ELSE {}
  /\ UNCHANGED <<x1, x2, x3, x4>>
ObeysOf(C, c) ==
  /\ x5[c].at = "posting"
  /\ x1' = Climate!Obeyed(x5[c].do.op, x5[c].do.arg) /\ x2' = Append(x2, x1')
  /\ x7' = x7 \ (C \ {c})
  /\ IF x5[c].do.nap THEN x5' = [x5 EXCEPT ![c].at = "asleep"] ELSE Goes(c, x5[c].do.then)
  /\ UNCHANGED <<x3, x4>>
RefusedOf(c) ==
  /\ x5[c].at = "posting"
  /\ \/ Climate!Goes(c, x5[c].req, Climate!Fail)
     \/ IF x5[c].do.nap THEN x5' = [x5 EXCEPT ![c].at = "asleep"] ELSE Goes(c, x5[c].do.then)
  /\ x7' = x7 \ {c}
  /\ UNCHANGED <<x1, x2, x3, x4>>
WakeOf(c) ==
  /\ x5[c].at = "asleep" /\ Goes(c, x5[c].do.then)
  /\ x7' = IF x2 = <<>> THEN x7 ELSE x7 \ {c}
  /\ UNCHANGED <<x1, x2, x3, x4>>
ReportOf ==
  /\ x2 # <<>> /\ x2' = Tail(x2) /\ x3' = Head(x2) /\ x4' = Climate!Updated(x4, x3')
  /\ UNCHANGED <<x1, x5, x7>>
TouchedOf(M) ==
  /\ \/ x1' = [x1 EXCEPT !.on = ~@]
     \/ \E m \in M : x1' = Climate!Settled([x1 EXCEPT !.mode = m])
     \/ x1' = Climate!Settled([x1 EXCEPT !.two = ~@])
     \/ \E t \in Temps : /\ Climate!SetPoint(x1) # None
                         /\ x1' = Climate!Settled([x1 EXCEPT !.sp[Climate!SetPoint(x1)] = t])
  /\ x2' = Append(x2, x1') /\ x7' = {} /\ UNCHANGED <<x3, x4, x5>>
StepOf(C, R, M) ==
  \/ \E c \in C : CallOf(C, R, c) \/ ObeysOf(C, c) \/ RefusedOf(c) \/ WakeOf(c)
  \/ ReportOf \/ TouchedOf(M)

\* A step of the instance with several calls.
LEMMA ClimateSteps ==
  ASSUME Climate!Next
  PROVE  StepOf(Calls, ClimateRequests, Modes)
<1>1. Climate!Quiet <=> QuietOf(Calls)
  BY DEF Climate!Quiet, QuietOf
<1>2. ASSUME NEW c \in Calls
      PROVE  /\ Climate!Call(c) => CallOf(Calls, ClimateRequests, c)
             /\ Climate!Obeys(c) => ObeysOf(Calls, c)
             /\ Climate!Refused(c) => RefusedOf(c)
             /\ Climate!Wake(c) => WakeOf(c)
  <2>1. Climate!Call(c) => CallOf(Calls, ClimateRequests, c)
    BY <1>1 DEF Climate!Call, CallOf
  <2>2. Climate!Obeys(c) => ObeysOf(Calls, c)
    BY DEF Climate!Obeys, ObeysOf, Goes
  <2>3. Climate!Refused(c) => RefusedOf(c)
    BY DEF Climate!Refused, RefusedOf, Goes
  <2>4. Climate!Wake(c) => WakeOf(c)
    BY DEF Climate!Wake, WakeOf, Goes
  <2> QED BY <2>1, <2>2, <2>3, <2>4
<1>3. Climate!Report => ReportOf
  BY DEF Climate!Report, ReportOf
<1>4. Climate!Touched => TouchedOf(Modes)
  BY DEF Climate!Touched, TouchedOf
<1> QED BY <1>2, <1>3, <1>4 DEF Climate!Next, StepOf

\* A step of the instance with one call.
LEMMA LoneSteps ==
  ASSUME Lone!Next
  PROVE  StepOf({Alone}, AllRequests, AllModes)
<1> DEFINE C == {Alone}
<1>1. (Lone!Quiet <=> QuietOf(C)) /\ Lone!Idle = Climate!Idle
  BY DEF Lone!Quiet, QuietOf, Lone!Idle, Climate!Idle
<1>2. ASSUME NEW c \in C
      PROVE  /\ Lone!Call(c) => CallOf(C, AllRequests, c)
             /\ Lone!Obeys(c) => ObeysOf(C, c)
             /\ Lone!Refused(c) => RefusedOf(c)
             /\ Lone!Wake(c) => WakeOf(c)
  <2>1. Lone!Call(c) => CallOf(C, AllRequests, c)
    BY <1>1, SameClimate DEF Lone!Call, CallOf
  <2>2. Lone!Obeys(c) => ObeysOf(C, c)
    BY SameClimate DEF Lone!Obeys, ObeysOf, Goes
  <2>3. Lone!Refused(c) => RefusedOf(c)
    BY SameClimate DEF Lone!Refused, RefusedOf, Goes
  <2>4. Lone!Wake(c) => WakeOf(c)
    BY SameClimate DEF Lone!Wake, WakeOf, Goes
  <2> QED BY <2>1, <2>2, <2>3, <2>4
<1>3. Lone!Report => ReportOf
  BY SameClimate DEF Lone!Report, ReportOf
<1>4. Lone!Touched => TouchedOf(AllModes)
  BY SameClimate DEF Lone!Touched, TouchedOf
<1> QED BY <1>2, <1>3, <1>4 DEF Lone!Next, StepOf

\* What a step comes to.
LEMMA StepMoves ==
  ASSUME NEW C, NEW R \in SUBSET AnyRequest, NEW M \in SUBSET AnyMode,
         ClimateInv(C, R), StepOf(C, R, M)
  PROVE  Moved(C, R)
<1>1. x1 \in Apps /\ x3 \in Apps /\ Shows(x4, x3) /\ x5 \in [C -> Going(R)]
  BY DEF ClimateInv
<1>2. ASSUME NEW c \in C, x5[c].at # "idle"
      PROVE  /\ x5[c].req \in R /\ x5[c].req \in AnyRequest
             /\ x5[c].do \in Posts /\ x5[c].do.then \in Labels
             /\ [x5 EXCEPT ![c].at = "asleep"] \in [C -> Going(R)]
             /\ Goes(c, x5[c].do.then) => x5' \in [C -> Going(R)]
  <2>1. /\ x5[c].req \in R /\ x5[c].req \in AnyRequest
        /\ x5[c].do \in Posts /\ x5[c].do.then \in Labels
        /\ [x5 EXCEPT ![c].at = "asleep"] \in [C -> Going(R)]
    BY <1>1, <1>2, GoingTyped
  <2>2. Goes(c, x5[c].do.then) => x5' \in [C -> Going(R)]
    BY <1>1, <2>1, Decides, GoesTyped DEF Goes
  <2> QED BY <2>1, <2>2
<1>3. ASSUME NEW c \in C, CallOf(C, R, c)
      PROVE  Moved(C, R)
  <2>1. PICK r \in R : Climate!Goes(c, r, Climate!Starting(r))
    BY <1>3 DEF CallOf
  <2> QED BY <1>1, <1>3, <2>1, Decides, GoesTyped DEF CallOf, Moved
<1>4. ASSUME NEW c \in C, ObeysOf(C, c)
      PROVE  Moved(C, R)
  <2>1. x5[c].at # "idle"
    BY <1>4 DEF ObeysOf
  <2>2. x5' \in [C -> Going(R)]
    BY <1>2, <1>4, <2>1 DEF ObeysOf
  <2>3. x1' \in Apps
    BY <1>1, <1>2, <1>4, <2>1, ObeyedApp DEF ObeysOf
  <2> QED BY <1>4, <2>2, <2>3 DEF ObeysOf, Moved
<1>5. ASSUME NEW c \in C, RefusedOf(c)
      PROVE  Moved(C, R)
  <2>1. x5[c].at # "idle"
    BY <1>5 DEF RefusedOf
  <2>2. Climate!Goes(c, x5[c].req, Climate!Fail) => x5' \in [C -> Going(R)]
    BY <1>1, <1>2, <2>1, GoesTyped
  <2>3. x5' \in [C -> Going(R)]
    BY <1>2, <1>5, <2>1, <2>2 DEF RefusedOf
  <2> QED BY <1>5, <2>3 DEF RefusedOf, Moved
<1>6. ASSUME NEW c \in C, WakeOf(c)
      PROVE  Moved(C, R)
  BY <1>2, <1>6 DEF WakeOf, Moved
<1>7. CASE ReportOf
  BY <1>1, <1>7 DEF ReportOf, Moved
<1>8. CASE TouchedOf(M)
  <2>1. x1' \in Apps
    BY <1>1, <1>8, TouchedApp DEF TouchedOf
  <2> QED BY <1>1, <1>8, <2>1 DEF TouchedOf, Moved
<1> QED BY <1>3, <1>4, <1>5, <1>6, <1>7, <1>8 DEF StepOf

\* A step of either instance is one of the part.
LEMMA ClimatePart ==
  ASSUME [EntitiesNext]_all
  PROVE  /\ part = "climate" => [Climate!Next]_Climate!vars
         /\ part = "climate_alone" => [Lone!Next]_Lone!vars
         /\ part' = part
BY DEF EntitiesNext, OthersNext, all, others, Climate!vars, Lone!vars

\* The first state of an entity is that of the appliance found.
LEMMA ClimateBegins ==
  ASSUME NEW C, NEW R, NEW M \in SUBSET AnyMode,
         \E on \in BOOLEAN, two \in BOOLEAN, m \in M, t \in Temps :
           x1 = Climate!Settled([on |-> on, mode |-> m, two |-> two, sp |-> [k \in SetPoints |-> t]]),
         x2 = <<>>, x3 = x1, x4 = Climate!Updated(Climate!NoState, x1),
         x5 = [c \in C |-> Climate!Idle]
  PROVE  ClimateInv(C, R)
<1>1. PICK on \in BOOLEAN, two \in BOOLEAN, m \in M, t \in Temps :
        x1 = Climate!Settled([on |-> on, mode |-> m, two |-> two, sp |-> [k \in SetPoints |-> t]])
  OBVIOUS
<1>2. [on |-> on, mode |-> m, two |-> two, sp |-> [k \in SetPoints |-> t]] \in RawApps
  BY DEF RawApps
<1>3. x1 \in Apps
  BY <1>1, <1>2, SettledApp
<1>4. Climate!NoState.held \in [Climate!Presets -> [Climate!Parts -> SetPoints \cup {None}]]
  BY DEF Climate!NoState
<1>5. Shows(x4, x3)
  BY <1>3, <1>4, ReportShown
<1>6. x5 \in [C -> Going(R)]
  BY DEF Going
<1>7. x2 \in Seq(Apps)
  BY EmptySeq
<1> QED BY <1>3, <1>5, <1>6, <1>7 DEF ClimateInv

\* What both instances keep.
ClimatesInv ==
  /\ part = "climate" => ClimateInv(Calls, ClimateRequests)
  /\ part = "climate_alone" => ClimateInv({Alone}, AllRequests)

\* It holds to begin with, and after every step.
LEMMA ClimatesKept ==
  /\ EntitiesInit => ClimatesInv
  /\ ClimatesInv /\ [EntitiesNext]_all => ClimatesInv'
<1>1. EntitiesInit => ClimatesInv
  <2> SUFFICES ASSUME EntitiesInit PROVE ClimatesInv
    OBVIOUS
  <2>1. Modes \in SUBSET AnyMode /\ AllModes \in SUBSET AnyMode
    BY DEF AnyMode
  <2>2. Climate!Keys = SetPoints /\ Lone!Keys = SetPoints /\ Lone!Idle = Climate!Idle
        /\ Lone!NoState = Climate!NoState
    BY DEF Climate!Keys, Lone!Keys, SetPoints, Lone!Idle, Climate!Idle, Lone!NoState, Climate!NoState,
       Lone!Presets, Climate!Presets, Lone!Parts, Climate!Parts
  <2>3. ASSUME part = "climate"
        PROVE  ClimateInv(Calls, ClimateRequests)
    <3>1. Climate!Init
      BY <2>3 DEF EntitiesInit
    <3> QED BY <2>1, <2>2, <3>1, ClimateBegins DEF Climate!Init
  <2>4. ASSUME part = "climate_alone"
        PROVE  ClimateInv({Alone}, AllRequests)
    <3>1. Lone!Init
      BY <2>4 DEF EntitiesInit
    <3>2. /\ \E on \in BOOLEAN, two \in BOOLEAN, m \in AllModes, t \in Temps :
              x1 = Climate!Settled([on |-> on, mode |-> m, two |-> two,
                                    sp |-> [k \in SetPoints |-> t]])
          /\ x2 = <<>> /\ x3 = x1 /\ x4 = Climate!Updated(Climate!NoState, x1)
          /\ x5 = [c \in {Alone} |-> Climate!Idle]
      BY <2>2, <3>1, SameClimate DEF Lone!Init
    <3> QED BY <2>1, <3>2, ClimateBegins
  <2> QED BY <2>3, <2>4 DEF ClimatesInv
<1>2. ClimatesInv /\ [EntitiesNext]_all => ClimatesInv'
  <2> SUFFICES ASSUME ClimatesInv, [EntitiesNext]_all PROVE ClimatesInv'
    OBVIOUS
  <2>1. part' = part
    BY ClimatePart
  <2>2. ASSUME NEW C, NEW R, ClimateInv(C, R), UNCHANGED <<x1, x2, x3, x4, x5>>
        PROVE  ClimateInv(C, R)'
    BY <2>2 DEF ClimateInv
  <2>5. /\ ClimateRequests \in SUBSET AnyRequest /\ AllRequests \in SUBSET AnyRequest
        /\ Modes \in SUBSET AnyMode /\ AllModes \in SUBSET AnyMode
    BY DEF AnyRequest, AnyMode
  <2>3. ASSUME part = "climate"
        PROVE  ClimateInv(Calls, ClimateRequests)'
    <3> USE DEF ClimatesInv
    <3>1. CASE Climate!Next
      BY <2>3, <2>5, <3>1, ClimateSteps, StepMoves, MovedKeeps
    <3>2. CASE UNCHANGED Climate!vars
      BY <2>2, <2>3, <3>2 DEF Climate!vars
    <3> QED BY <2>3, <3>1, <3>2, ClimatePart
  <2>4. ASSUME part = "climate_alone"
        PROVE  ClimateInv({Alone}, AllRequests)'
    <3> USE DEF ClimatesInv
    <3>1. CASE Lone!Next
      BY <2>4, <2>5, <3>1, LoneSteps, StepMoves, MovedKeeps
    <3>2. CASE UNCHANGED Lone!vars
      BY <2>2, <2>4, <3>2 DEF Lone!vars
    <3> QED BY <2>4, <3>1, <3>2, ClimatePart
  <2> QED BY <2>1, <2>3, <2>4 DEF ClimatesInv
<1> QED BY <1>1, <1>2

\* The climate entity tells the truth (state.py, temperature.py): once every report has
\* arrived, it shows what the appliance does, and the range of what it would write.
THEOREM ClimateTells == EntitiesSpec => []ShownTruth
<1>1. ClimatesInv => ShownTruth
  BY TruthShown, RangeShown, SameClimate DEF ShownTruth, ClimatesInv
<1> QED BY <1>1, ClimatesKept, PTL DEF EntitiesSpec

----------------------------------------------------------------------------
(***************************************************************************)
(* A call of async_set_temperature that nothing disturbs gets what it      *)
(* asked for.                                                              *)
(***************************************************************************)
\* A call that asks for a temperature, and does not turn the appliance off.
Targets(r) == r.op = "temperature" /\ r.mode # "off"

\* The mode asked for is the one the appliance a is in; so is all the rest.
ModeReached(a, r) == r.mode # None => Climate!HvacOf(a.mode) = r.mode
Reached(a, r) ==
  /\ a.on /\ ModeReached(a, r)
  /\ r.temp # None /\ Climate!SetPoint(a) # None /\ r.range = None =>
       a.sp[Climate!SetPoint(a)] = r.temp
  /\ r.range # None => a.sp["TWO_HEAT"] = r.range[1] /\ a.sp["TWO_COOL"] = r.range[2]

\* What an undisturbed call is about to post: the power, the mode, the temperature, for
\* the set point of the mode, or both bounds.
ToPower(do) == do.op = "on" /\ do.nap /\ do.then = "mode"
ToMode(a, r, do) ==
  /\ do.op = "mode" /\ do.arg = r.mode /\ do.nap /\ do.then = "temp"
  /\ r.mode # None /\ a.on
ToTemp(a, r, do) ==
  /\ do.op = "set" /\ ~do.nap /\ do.then = "range" /\ r.temp # None /\ a.on /\ ModeReached(a, r)
  /\ Climate!SetPoint(a) # None =>
       Climate!SetPoint(a) \in DOMAIN do.arg /\ do.arg[Climate!SetPoint(a)] = r.temp
ToRange(a, r, do) ==
  /\ do.op = "set" /\ ~do.nap /\ do.then = "end" /\ r.range # None /\ a.on /\ ModeReached(a, r)
  /\ do.arg = Climate!PutRange(r.range[1], r.range[2])
ToPost(a, r, do) == ToPower(do) \/ ToMode(a, r, do) \/ ToTemp(a, r, do) \/ ToRange(a, r, do)

\* While it sleeps the power, or the mode, is what it has asked for.
Sleeps(a, r, do) ==
  \/ do.then = "mode" /\ a.on
  \/ do.then = "temp" /\ a.on /\ r.mode # None /\ a.mode = r.mode

\* A call c that is under way and undisturbed is the only one, and on its way.
Alright(C, c) ==
  x5[c].at # "idle" =>
    /\ \A d \in C \ {c} : x5[d].at = "idle"
    /\ Targets(x5[c].req) =>
         /\ x5[c].at = "posting" => ToPost(x1, x5[c].req, x5[c].do)
         /\ x5[c].at = "asleep" => Sleeps(x1, x5[c].req, x5[c].do)

\* Of the calls nothing has disturbed.
Undisturbed(C) == x7 \subseteq C /\ \A c \in x7 : Alright(C, c)

\* The part of AskedIsReached that is of one instance.
AskedOf ==
  \A c \in x7 : x5[c].at # "idle" /\ x5'[c] = Climate!Idle /\ c \in x7' /\ Targets(x5[c].req)
    /\ Climate!Resuming(x5[c].req, x5[c].do.then).does # "fail" => Reached(x1', x5[c].req)

\* What a call does next: it fails, is over and has what it asked for, or goes on.
GoesWell(a, r, do) ==
  \/ do = Climate!Fail
  \/ do = Climate!End /\ Reached(a, r)
  \/ do.does = "post" /\ ToPost(a, r, do)

\* The commands a call of async_set_temperature posts.
LEMMA PostsWell ==
  ASSUME NEW a, NEW r
  PROVE  /\ GoesWell(a, r, Climate!Post("on", None, TRUE, "mode"))
         /\ r.mode # None /\ a.on => GoesWell(a, r, Climate!Post("mode", r.mode, TRUE, "temp"))
         /\ \A arg : r.temp # None /\ a.on /\ ModeReached(a, r)
                       /\ (Climate!SetPoint(a) # None => Climate!SetPoint(a) \in DOMAIN arg
                             /\ arg[Climate!SetPoint(a)] = r.temp)
                     => GoesWell(a, r, Climate!Post("set", arg, FALSE, "range"))
         /\ r.range # None /\ a.on /\ ModeReached(a, r) =>
              GoesWell(a, r, Climate!Post("set", Climate!PutRange(r.range[1], r.range[2]), FALSE, "end"))
<1>1. GoesWell(a, r, Climate!Post("on", None, TRUE, "mode"))
  <2> DEFINE d == Climate!Post("on", None, TRUE, "mode")
  <2>1. d.does = "post" /\ d.op = "on" /\ d.nap /\ d.then = "mode"
    BY DEF Climate!Post
  <2> HIDE DEF d
  <2>2. GoesWell(a, r, d)
    BY <2>1 DEF GoesWell, ToPost, ToPower
  <2> QED BY <2>2 DEF d
<1>2. ASSUME r.mode # None, a.on PROVE GoesWell(a, r, Climate!Post("mode", r.mode, TRUE, "temp"))
  <2> DEFINE d == Climate!Post("mode", r.mode, TRUE, "temp")
  <2>1. d.does = "post" /\ d.op = "mode" /\ d.arg = r.mode /\ d.nap /\ d.then = "temp"
    BY DEF Climate!Post
  <2> HIDE DEF d
  <2>2. GoesWell(a, r, d)
    BY <1>2, <2>1 DEF GoesWell, ToPost, ToMode
  <2> QED BY <2>2 DEF d
<1>3. ASSUME NEW arg, r.temp # None, a.on, ModeReached(a, r),
             Climate!SetPoint(a) # None =>
               Climate!SetPoint(a) \in DOMAIN arg /\ arg[Climate!SetPoint(a)] = r.temp
      PROVE  GoesWell(a, r, Climate!Post("set", arg, FALSE, "range"))
  <2> DEFINE d == Climate!Post("set", arg, FALSE, "range")
  <2>1. d.does = "post" /\ d.op = "set" /\ d.arg = arg /\ ~d.nap /\ d.then = "range"
    BY DEF Climate!Post
  <2> HIDE DEF d
  <2>2. GoesWell(a, r, d)
    BY <1>3, <2>1 DEF GoesWell, ToPost, ToTemp
  <2> QED BY <2>2 DEF d
<1>4. ASSUME r.range # None, a.on, ModeReached(a, r)
      PROVE  GoesWell(a, r, Climate!Post("set", Climate!PutRange(r.range[1], r.range[2]), FALSE, "end"))
  <2> DEFINE f == Climate!PutRange(r.range[1], r.range[2])
             d == Climate!Post("set", f, FALSE, "end")
  <2>1. d.does = "post" /\ d.op = "set" /\ d.arg = f /\ ~d.nap /\ d.then = "end"
    BY DEF Climate!Post
  <2> HIDE DEF d
  <2>2. GoesWell(a, r, d)
    BY <1>4, <2>1 DEF GoesWell, ToPost, ToRange
  <2> QED BY <2>2 DEF d
<1> QED BY <1>1, <1>2, <1>3, <1>4

\* With the mode and the power as asked, and the temperature, the bounds follow.
LEMMA RangeGoesWell ==
  ASSUME NEW a, NEW r, a.on, ModeReached(a, r),
         r.range = None /\ r.temp # None /\ Climate!SetPoint(a) # None =>
           a.sp[Climate!SetPoint(a)] = r.temp
  PROVE  GoesWell(a, r, Climate!AtRange(r))
<1>1. CASE r.range = None
  BY <1>1 DEF Climate!AtRange, GoesWell, Reached
<1>2. CASE r.range # None
  BY <1>2, PostsWell DEF Climate!AtRange, GoesWell
<1> QED BY <1>1, <1>2

\* With the mode and the power as asked, and every report in, the temperature follows.
LEMMA TempGoesWell ==
  ASSUME NEW C, NEW R, ClimateInv(C, R), x2 = <<>>, NEW r, x1.on, ModeReached(x1, r)
  PROVE  GoesWell(x1, r, Climate!AtTemp(r))
<1> DEFINE k == Climate!SetPoint(x1)
           h == Climate!ControlHolder
<1>1. /\ Climate!Shown("target") = None <=> k = None
      /\ Climate!Shown("target") # None => Climate!Shown("target") = x1.sp[k]
  BY TruthShown DEF Climate!ShownTruth
<1>2. k # None => h = k
  BY RangeShown DEF Climate!RangeOfHolder
<1>3. CASE r.temp = None
  <2>1. Climate!AtTemp(r) = Climate!AtRange(r)
    BY <1>3 DEF Climate!AtTemp
  <2> QED BY <1>3, <2>1, RangeGoesWell
<1>4. CASE r.temp # None /\ ~Climate!HasStep
  BY <1>4 DEF Climate!AtTemp, GoesWell
<1>5. CASE r.temp # None /\ Climate!HasStep /\ r.temp = Climate!Shown("target")
  <2>1. Climate!AtTemp(r) = Climate!AtRange(r)
    BY <1>5 DEF Climate!AtTemp
  <2> QED BY <1>1, <1>5, <2>1, RangeGoesWell
<1>6. CASE r.temp # None /\ Climate!HasStep /\ r.temp # Climate!Shown("target")
  <2>1. Climate!AtTemp(r) = IF h = None THEN Climate!Fail
                            ELSE Climate!Post("set", Climate!Put(h, r.temp), FALSE, "range")
    BY <1>6 DEF Climate!AtTemp
  <2>2. h \in DOMAIN Climate!Put(h, r.temp) /\ Climate!Put(h, r.temp)[h] = r.temp
    BY DEF Climate!Put
  <2>3. CASE h = None
    BY <2>1, <2>3 DEF GoesWell
  <2>4. CASE h # None
    BY <1>2, <1>6, <2>1, <2>2, <2>4, PostsWell
  <2> QED BY <2>3, <2>4
<1> QED BY <1>3, <1>4, <1>5, <1>6

\* With the power on and every report in, the mode comes first.
LEMMA ModeGoesWell ==
  ASSUME NEW C, NEW R, ClimateInv(C, R), x2 = <<>>, NEW r, Targets(r), x1.on
  PROVE  GoesWell(x1, r, Climate!AtMode(r))
<1>1. x4.on /\ Climate!ShownMode = Climate!HvacOf(x1.mode)
  BY TruthShown DEF Climate!ShownTruth, ClimateInv, Shows
<1>2. CASE r.mode # None /\ r.mode # Climate!ShownMode
  <2>1. Climate!AtMode(r) = Climate!Post("mode", r.mode, TRUE, "temp")
    BY <1>1, <1>2 DEF Climate!AtMode, Climate!AtHvac, Climate!AtJob, Targets
  <2> QED BY <1>2, <2>1, PostsWell
<1>3. CASE ~(r.mode # None /\ r.mode # Climate!ShownMode)
  <2>1. Climate!AtMode(r) = Climate!AtTemp(r) /\ ModeReached(x1, r)
    BY <1>1, <1>3 DEF Climate!AtMode, ModeReached
  <2> QED BY <2>1, TempGoesWell
<1> QED BY <1>2, <1>3

\* A call that begins in quiet goes well.
LEMMA StartsWell ==
  ASSUME NEW C, NEW R, ClimateInv(C, R), x2 = <<>>, NEW r, Targets(r)
  PROVE  GoesWell(x1, r, Climate!Starting(r))
<1>1. x4.on = x1.on /\ x1.on \in BOOLEAN
  BY DEF ClimateInv, Shows, Apps, RawApps
<1>2. Climate!Starting(r) = IF x4.on THEN Climate!AtMode(r) ELSE Climate!Post("on", None, TRUE, "mode")
  BY DEF Climate!Starting, Targets
<1>3. CASE x1.on
  BY <1>1, <1>2, <1>3, ModeGoesWell
<1>4. CASE ~x1.on
  BY <1>1, <1>2, <1>4, PostsWell
<1> QED BY <1>1, <1>3, <1>4

\* One that wakes in quiet goes well.
LEMMA WakesWell ==
  ASSUME NEW C, NEW R, ClimateInv(C, R), x2 = <<>>, NEW r \in AnyRequest, Targets(r), NEW do,
         Sleeps(x1, r, do)
  PROVE  GoesWell(x1, r, Climate!Resuming(r, do.then))
<1>1. CASE do.then = "mode" /\ x1.on
  BY <1>1, ModeGoesWell DEF Climate!Resuming
<1>2. CASE do.then = "temp" /\ x1.on /\ r.mode # None /\ x1.mode = r.mode
  <2>1. r.mode \notin DOMAIN Climate!THINQ_PRESET_MODE
    BY RequestsAssumption DEF AnyRequest, IsRequest, Targets, Climate!THINQ_PRESET_MODE
  <2>2. ModeReached(x1, r)
    BY <1>2, <2>1 DEF ModeReached, Climate!HvacOf
  <2> QED BY <1>2, <2>2, TempGoesWell DEF Climate!Resuming
<1> QED BY <1>1, <1>2 DEF Sleeps

\* What a command obeyed makes of the appliance.
LEMMA ObeyedParts ==
  ASSUME x1 \in Apps, NEW d \in Posts, NEW a, a = Climate!Obeyed(d.op, d.arg)
  PROVE  /\ d.op = "on" => a.on
         /\ d.op = "mode" => a.on = x1.on /\ a.mode = d.arg
         /\ d.op = "set" =>
              /\ a.on = x1.on /\ a.mode = x1.mode /\ a.two = x1.two
              /\ \A k \in SetPoints \cap DOMAIN d.arg : k # "TARGET" => a.sp[k] = d.arg[k]
<1> DEFINE b == CASE d.op = "on" -> [x1 EXCEPT !.on = TRUE]
                  [] d.op = "off" -> [x1 EXCEPT !.on = FALSE]
                  [] d.op = "mode" -> [x1 EXCEPT !.mode = d.arg]
                  [] d.op = "set" -> [x1 EXCEPT !.sp =
                       [k \in SetPoints |-> IF k \in DOMAIN d.arg THEN d.arg[k] ELSE x1.sp[k]]]
<1>1. x1 \in RawApps /\ x1 = [on |-> x1.on, mode |-> x1.mode, two |-> x1.two, sp |-> x1.sp]
  BY DEF Apps, RawApps
<1>2. Climate!Keys = SetPoints
  BY DEF Climate!Keys, SetPoints
<1>3. a = Climate!Settled(b)
  BY <1>1, <1>2 DEF Climate!Obeyed, RawApps
<1>4. a \in {b, [b EXCEPT !.sp["TARGET"] = b.sp[Climate!SetPoint(b)]]}
  BY <1>3 DEF Climate!Settled
<1>5. CASE d.op = "on"
  <2>1. b = [x1 EXCEPT !.on = TRUE]
    BY <1>5
  <2>2. b = [on |-> TRUE, mode |-> x1.mode, two |-> x1.two, sp |-> x1.sp]
    BY <1>1, <2>1
  <2> HIDE DEF b
  <2> QED BY <1>4, <1>5, <2>2
<1>6. CASE d.op = "mode"
  <2>1. b = [x1 EXCEPT !.mode = d.arg]
    BY <1>6
  <2>2. b = [on |-> x1.on, mode |-> d.arg, two |-> x1.two, sp |-> x1.sp]
    BY <1>1, <2>1
  <2> HIDE DEF b
  <2> QED BY <1>4, <1>6, <2>2
<1>7. CASE d.op = "set"
  <2> DEFINE f == [k \in SetPoints |-> IF k \in DOMAIN d.arg THEN d.arg[k] ELSE x1.sp[k]]
  <2>1. b = [x1 EXCEPT !.sp = f]
    BY <1>7
  <2>2. b = [on |-> x1.on, mode |-> x1.mode, two |-> x1.two, sp |-> f]
    BY <1>1, <2>1
  <2>3. DOMAIN f = SetPoints /\ \A k \in SetPoints \cap DOMAIN d.arg : f[k] = d.arg[k]
    OBVIOUS
  <2> HIDE DEF b, f
  <2>4. a.on = x1.on /\ a.mode = x1.mode /\ a.two = x1.two
    BY <1>4, <2>2
  <2>5. ASSUME NEW k \in SetPoints, k # "TARGET" PROVE a.sp[k] = f[k]
    BY <1>4, <2>2, <2>3, <2>5
  <2> QED BY <1>7, <2>3, <2>4, <2>5
<1> QED BY <1>5, <1>6, <1>7

\* A command obeyed brings an undisturbed call on: it sleeps, or goes on well.
LEMMA ObeysWell ==
  ASSUME x1 \in Apps, NEW d \in Posts, NEW r, ToPost(x1, r, d),
         NEW a, a = Climate!Obeyed(d.op, d.arg)
  PROVE  /\ d.nap => Sleeps(a, r, d)
         /\ ~d.nap => GoesWell(a, r, Climate!Resuming(r, d.then))
<1> DEFINE k == Climate!SetPoint(x1)
<1>1. CASE ToPower(d)
  BY <1>1, ObeyedParts DEF ToPower, Sleeps
<1>2. CASE ToMode(x1, r, d)
  <2>1. d.op = "mode" /\ d.nap /\ d.then = "temp" /\ r.mode # None
    BY <1>2 DEF ToMode
  <2>2. a.on /\ a.mode = r.mode
    BY <1>2, <2>1, ObeyedParts DEF ToMode
  <2> QED BY <2>1, <2>2 DEF Sleeps
<1>3. CASE ToTemp(x1, r, d) \/ ToRange(x1, r, d)
  <2>1. d.op = "set" /\ ~d.nap /\ x1.on /\ ModeReached(x1, r)
    BY <1>3 DEF ToTemp, ToRange
  <2>2. /\ a.on = x1.on /\ a.mode = x1.mode /\ a.two = x1.two
        /\ \A q \in SetPoints \cap DOMAIN d.arg : q # "TARGET" => a.sp[q] = d.arg[q]
    BY <2>1, ObeyedParts
  <2>3. a.on /\ ModeReached(a, r) /\ Climate!SetPoint(a) = k
    BY <2>1, <2>2 DEF ModeReached, Climate!SetPoint
  <2>4. CASE ToTemp(x1, r, d)
    <3>1. k # None => k \in SetPoints /\ k # "TARGET"
      BY DEF Climate!SetPoint, SetPoints
    <3>2. k # None => a.sp[k] = r.temp
      BY <2>2, <2>4, <3>1 DEF ToTemp
    <3>3. Climate!Resuming(r, d.then) = Climate!AtRange(r)
      BY <2>4 DEF ToTemp, Climate!Resuming
    <3> QED BY <2>1, <2>3, <3>2, <3>3, RangeGoesWell
  <2>5. CASE ToRange(x1, r, d)
    <3>1. d.arg = Climate!PutRange(r.range[1], r.range[2]) /\ r.range # None
      BY <2>5 DEF ToRange
    <3>2. /\ "TWO_HEAT" \in SetPoints \cap DOMAIN d.arg /\ d.arg["TWO_HEAT"] = r.range[1]
          /\ "TWO_COOL" \in SetPoints \cap DOMAIN d.arg /\ d.arg["TWO_COOL"] = r.range[2]
      BY <3>1 DEF Climate!PutRange, SetPoints
    <3>3. Reached(a, r)
      BY <2>2, <2>3, <3>1, <3>2 DEF Reached
    <3>4. Climate!Resuming(r, d.then) = Climate!End
      BY <2>5 DEF ToRange, Climate!Resuming
    <3> QED BY <2>1, <3>3, <3>4 DEF GoesWell
  <2> QED BY <1>3, <2>4, <2>5
<1> QED BY <1>1, <1>2, <1>3 DEF ToPost

\* Where a call goes.
LEMMA GoesTo ==
  ASSUME NEW C, NEW R, x5 \in [C -> Going(R)], NEW c \in C, NEW r, NEW do, Climate!Goes(c, r, do)
  PROVE  /\ \A d \in C \ {c} : x5'[d] = x5[d]
         /\ do.does = "post" => /\ x5'[c].at = "posting" /\ x5'[c].req = r /\ x5'[c].do = do
                                /\ x5'[c] # Climate!Idle
         /\ do.does # "post" => x5'[c] = Climate!Idle /\ x5'[c].at = "idle"
<1>1. x5' = [x5 EXCEPT ![c] = IF do.does = "post"
                              THEN [at |-> "posting", req |-> r, do |-> do] ELSE Climate!Idle]
  BY DEF Climate!Goes
<1>2. /\ \A d \in C \ {c} : x5'[d] = x5[d]
      /\ x5'[c] = IF do.does = "post" THEN [at |-> "posting", req |-> r, do |-> do] ELSE Climate!Idle
  BY <1>1
<1>3. Climate!Idle.at = "idle"
  BY DEF Climate!Idle
<1> QED BY <1>2, <1>3

\* A call that goes on well does so undisturbed, and has what it asked for when it is over.
LEMMA WentWell ==
  ASSUME NEW C, NEW R, x5 \in [C -> Going(R)], NEW c \in C, NEW r, NEW do, Climate!Goes(c, r, do),
         NEW a, Targets(r) => GoesWell(a, r, do)
  PROVE  /\ x5'[c].at \in {"posting", "idle"}
         /\ x5'[c].at = "posting" /\ Targets(r) => x5'[c].req = r /\ ToPost(a, r, x5'[c].do)
         /\ x5'[c].at = "posting" => x5'[c].req = r
         /\ x5'[c] = Climate!Idle /\ Targets(r) /\ do.does # "fail" => Reached(a, r)
<1>1. Climate!Fail.does = "fail" /\ Climate!End.does = "end"
  BY DEF Climate!Fail, Climate!End
<1>2. CASE do.does = "post"
  BY <1>1, <1>2, GoesTo DEF GoesWell
<1>3. CASE do.does # "post"
  BY <1>1, <1>3, GoesTo DEF GoesWell
<1> QED BY <1>2, <1>3

\* A step of a call under way, undisturbed, keeps it so.
LEMMA OnItsWay ==
  ASSUME NEW C, NEW R \in SUBSET AnyRequest, ClimateInv(C, R), NEW c \in C, x5[c].at # "idle",
         Alright(C, c), ObeysOf(C, c) \/ (WakeOf(c) /\ x2 = <<>>)
  PROVE  /\ Alright(C, c)'
         /\ x5'[c] = Climate!Idle /\ Targets(x5[c].req)
              /\ Climate!Resuming(x5[c].req, x5[c].do.then).does # "fail" => Reached(x1', x5[c].req)
<1> DEFINE r == x5[c].req
           do == x5[c].do
           next == Climate!Resuming(r, do.then)
<1>1. /\ x1 \in Apps /\ x5 \in [C -> Going(R)] /\ r \in AnyRequest /\ do \in Posts
      /\ x5[c].at \in {"posting", "asleep"} /\ do.nap \in BOOLEAN
  <2>1. x5[c] \in [at : {"posting", "asleep"}, req : R, do : Posts]
    BY DEF ClimateInv, Going, Climate!Idle
  <2> QED BY <2>1 DEF ClimateInv, Posts
<1>2. ASSUME ObeysOf(C, c), do.nap
      PROVE  /\ x5'[c].at = "asleep" /\ x5'[c].req = r /\ x5'[c].do = do /\ x5'[c] # Climate!Idle
             /\ \A d \in C \ {c} : x5'[d] = x5[d]
             /\ Targets(r) => Sleeps(x1', r, do)
  <2>1. x5' = [x5 EXCEPT ![c].at = "asleep"]
    BY <1>2 DEF ObeysOf
  <2>2. x5[c] \in [at : {"posting", "asleep"}, req : R, do : Posts]
    BY DEF ClimateInv, Going, Climate!Idle
  <2>3. x5'[c] = [at |-> "asleep", req |-> r, do |-> do]
    BY <1>1, <2>1, <2>2
  <2>4. Targets(r) => Sleeps(x1', r, do)
    BY <1>1, <1>2, ObeysWell DEF ObeysOf, Alright
  <2> QED BY <1>1, <2>1, <2>3, <2>4 DEF Climate!Idle
<1>3. ASSUME ObeysOf(C, c), ~do.nap
      PROVE  Climate!Goes(c, r, next) /\ (Targets(r) => GoesWell(x1', r, next))
  <2>1. Climate!Goes(c, r, next)
    BY <1>3 DEF ObeysOf, Goes
  <2>2. Targets(r) => GoesWell(x1', r, next)
    BY <1>1, <1>3, ObeysWell DEF ObeysOf, Alright
  <2> QED BY <2>1, <2>2
<1>4. ASSUME WakeOf(c), x2 = <<>>
      PROVE  Climate!Goes(c, r, next) /\ (Targets(r) => GoesWell(x1', r, next))
  <2>1. Climate!Goes(c, r, next) /\ x1' = x1 /\ x5[c].at = "asleep"
    BY <1>4 DEF WakeOf, Goes
  <2>2. Targets(r) => GoesWell(x1, r, next)
    BY <1>1, <1>4, <2>1, WakesWell DEF Alright
  <2> QED BY <2>1, <2>2
<1>5. ASSUME Climate!Goes(c, r, next), Targets(r) => GoesWell(x1', r, next)
      PROVE  /\ \A d \in C \ {c} : x5'[d] = x5[d]
             /\ x5'[c].at \in {"posting", "idle"}
             /\ x5'[c].at = "posting" => x5'[c].req = r
             /\ x5'[c].at = "posting" /\ Targets(r) => ToPost(x1', r, x5'[c].do)
             /\ x5'[c] = Climate!Idle /\ Targets(r) /\ next.does # "fail" => Reached(x1', r)
  BY <1>1, <1>5, GoesTo, WentWell
<1> HIDE DEF next
<1>6. Alright(C, c)'
  <2>1. \A d \in C \ {c} : x5'[d] = x5[d]
    BY <1>2, <1>3, <1>4, <1>5, <1>1
  <2>2. \A d \in C \ {c} : x5'[d].at = "idle"
    BY <2>1 DEF Alright
  <2>3. x5'[c].at = "posting" /\ Targets(x5'[c].req) => ToPost(x1', x5'[c].req, x5'[c].do)
    BY <1>1, <1>2, <1>3, <1>4, <1>5
  <2>4. x5'[c].at = "asleep" /\ Targets(x5'[c].req) => Sleeps(x1', x5'[c].req, x5'[c].do)
    BY <1>1, <1>2, <1>3, <1>4, <1>5
  <2> QED BY <2>2, <2>3, <2>4 DEF Alright
<1>7. x5'[c] = Climate!Idle /\ Targets(r) /\ next.does # "fail" => Reached(x1', r)
  BY <1>1, <1>2, <1>3, <1>4, <1>5
<1> QED BY <1>6, <1>7 DEF next

\* Nothing disturbs an undisturbed call but what ends its calm.
LEMMA StaysUndisturbed ==
  ASSUME NEW C, NEW R \in SUBSET AnyRequest, NEW M, ClimateInv(C, R), Undisturbed(C),
         StepOf(C, R, M)
  PROVE  Undisturbed(C)' /\ AskedOf
<1>1. /\ x5 \in [C -> Going(R)] /\ Climate!Idle.at = "idle"
      /\ \A d \in C : x5[d].at \in {"idle", "posting", "asleep"}
  <2>1. \A d \in C : x5[d] \in Going(R)
    BY DEF ClimateInv
  <2> QED BY <2>1 DEF ClimateInv, Going, Climate!Idle
<1>2. ASSUME NEW c \in C, CallOf(C, R, c)
      PROVE  Undisturbed(C)' /\ AskedOf
  <2>1. PICK r \in R : Climate!Goes(c, r, Climate!Starting(r))
    BY <1>2 DEF CallOf
  <2>2. /\ UNCHANGED <<x1, x2>> /\ x5[c].at = "idle"
        /\ x7' = IF QuietOf(C) /\ \A d \in C : x5[d] = Climate!Idle THEN {c} ELSE {}
    BY <1>2 DEF CallOf
  <2>3. AskedOf
    BY <2>2 DEF AskedOf
  <2>4. CASE QuietOf(C) /\ \A d \in C : x5[d] = Climate!Idle
    <3>1. Targets(r) => GoesWell(x1', r, Climate!Starting(r))
      BY <2>2, <2>4, StartsWell DEF QuietOf
    <3>2. /\ x5'[c].at \in {"posting", "idle"}
          /\ x5'[c].at = "posting" => x5'[c].req = r
          /\ x5'[c].at = "posting" /\ Targets(r) => ToPost(x1', r, x5'[c].do)
      BY <1>1, <2>1, <3>1, WentWell
    <3>3. \A d \in C \ {c} : x5'[d].at = "idle"
      BY <1>1, <2>1, <2>4, GoesTo
    <3>4. Alright(C, c)'
      BY <3>2, <3>3 DEF Alright
    <3> QED BY <2>2, <2>3, <2>4, <3>4 DEF Undisturbed
  <2>5. CASE ~(QuietOf(C) /\ \A d \in C : x5[d] = Climate!Idle)
    BY <2>2, <2>3, <2>5 DEF Undisturbed
  <2> QED BY <2>4, <2>5
\* A step of c leaves no other call undisturbed but those that are over.
<1>3. ASSUME NEW c \in C, x5[c].at # "idle",
             \A d \in C \ {c} : x5'[d] = x5[d],
             x7' \subseteq x7,
             c \in x7' => /\ Alright(C, c)'
                          /\ x5'[c] = Climate!Idle /\ Targets(x5[c].req)
                               /\ Climate!Resuming(x5[c].req, x5[c].do.then).does # "fail"
                               => Reached(x1', x5[c].req)
      PROVE  Undisturbed(C)' /\ AskedOf
  <2>1. \A d \in x7 \ {c} : x5[d].at = "idle" /\ x5'[d].at = "idle"
    BY <1>3 DEF Undisturbed, Alright
  <2>2. \A d \in x7' : Alright(C, d)'
    BY <1>3, <2>1 DEF Alright
  <2>3. AskedOf
    BY <1>3, <2>1 DEF AskedOf
  <2> QED BY <1>3, <2>2, <2>3 DEF Undisturbed
<1>4. ASSUME NEW c \in C, x5[c].at # "idle", Goes(c, x5[c].do.then)
      PROVE  \A d \in C \ {c} : x5'[d] = x5[d]
  BY <1>1, <1>4, GoesTo DEF Goes
<1>5. ASSUME NEW c \in C, ObeysOf(C, c)
      PROVE  Undisturbed(C)' /\ AskedOf
  <2>1. x5[c].at # "idle" /\ \A d \in C \ {c} : x5'[d] = x5[d]
    BY <1>1, <1>4, <1>5 DEF ObeysOf
  <2>2. x7' \subseteq x7
    BY <1>5 DEF ObeysOf
  <2>3. ASSUME c \in x7'
        PROVE  /\ Alright(C, c)'
               /\ x5'[c] = Climate!Idle /\ Targets(x5[c].req)
                    /\ Climate!Resuming(x5[c].req, x5[c].do.then).does # "fail"
                    => Reached(x1', x5[c].req)
    BY <1>5, <2>1, <2>2, <2>3, OnItsWay DEF Undisturbed
  <2> QED BY <1>3, <2>1, <2>2, <2>3
<1>6. ASSUME NEW c \in C, RefusedOf(c)
      PROVE  Undisturbed(C)' /\ AskedOf
  <2>1. x5[c].at # "idle" /\ x7' = x7 \ {c}
    BY <1>6 DEF RefusedOf
  <2>2. Climate!Goes(c, x5[c].req, Climate!Fail) => \A d \in C \ {c} : x5'[d] = x5[d]
    BY <1>1, GoesTo
  <2>3. \A d \in C \ {c} : x5'[d] = x5[d]
    BY <1>1, <1>4, <1>6, <2>1, <2>2 DEF RefusedOf
  <2> QED BY <1>3, <2>1, <2>3
<1>7. ASSUME NEW c \in C, WakeOf(c)
      PROVE  Undisturbed(C)' /\ AskedOf
  <2>1. x5[c].at # "idle" /\ \A d \in C \ {c} : x5'[d] = x5[d]
    BY <1>4, <1>7 DEF WakeOf
  <2>2. x7' \subseteq x7 /\ (c \in x7' => x2 = <<>>)
    BY <1>7 DEF WakeOf
  <2>3. ASSUME c \in x7'
        PROVE  /\ Alright(C, c)'
               /\ x5'[c] = Climate!Idle /\ Targets(x5[c].req)
                    /\ Climate!Resuming(x5[c].req, x5[c].do.then).does # "fail"
                    => Reached(x1', x5[c].req)
    BY <1>7, <2>1, <2>2, <2>3, OnItsWay DEF Undisturbed
  <2> QED BY <1>3, <2>1, <2>2, <2>3
<1>8. CASE ReportOf
  <2>1. UNCHANGED <<x1, x5, x7>>
    BY <1>8 DEF ReportOf
  <2>2. Undisturbed(C)'
    BY <2>1 DEF Undisturbed, Alright
  <2> QED BY <1>1, <2>1, <2>2 DEF AskedOf
<1>9. CASE TouchedOf(M)
  BY <1>9 DEF TouchedOf, Undisturbed, AskedOf
<1> QED BY <1>2, <1>5, <1>6, <1>7, <1>8, <1>9 DEF StepOf

----------------------------------------------------------------------------
\* The command c has decided to post, if it sets a temperature, and what it leaves alone.
SetsOf(c) ==
  /\ x5'[c].at = "posting" /\ x5'[c] # x5[c]
  /\ x5'[c].do.op = "set" /\ x5'[c].req.range = None
ChangedBy(arg) == {k \in DOMAIN arg : arg[k] # x1.sp[k]}
OtherKeptOf(C) ==
  \A c \in C : SetsOf(c) /\ QuietOf(C) =>
    LET changed == ChangedBy(x5'[c].do.arg)
    IN  Cardinality(changed) <= 1 /\ \A k \in changed : x5'[c].do.arg[k] = x5'[c].req.temp

\* A command for one temperature is the setter's, for the property it writes to.
LEMMA SetsOne ==
  ASSUME NEW r, r.range = None, NEW l \in Labels,
         NEW do \in {Climate!Starting(r), Climate!Resuming(r, l)}, do.does = "post", do.op = "set"
  PROVE  do.arg = Climate!Put(Climate!ControlHolder, r.temp)
<1>1. /\ Climate!Fail.does = "fail" /\ Climate!End.does = "end"
      /\ \A op, arg, nap, then : /\ Climate!Post(op, arg, nap, then).op = op
                                 /\ Climate!Post(op, arg, nap, then).arg = arg
  BY DEF Climate!Fail, Climate!End, Climate!Post
<1> DEFINE One(d) == d.does = "post" /\ d.op = "set" =>
                       d.arg = Climate!Put(Climate!ControlHolder, r.temp)
<1>2. One(Climate!End) /\ One(Climate!Fail)
  BY <1>1
<1>3. \A op, arg, nap, then : op # "set" => One(Climate!Post(op, arg, nap, then))
  BY <1>1
<1>4. One(Climate!Post("set", Climate!Put(Climate!ControlHolder, r.temp), FALSE, "range"))
  <2>1. ASSUME NEW f PROVE Climate!Post("set", f, FALSE, "range").arg = f
    BY DEF Climate!Post
  <2>2. Climate!Post("set", Climate!Put(Climate!ControlHolder, r.temp), FALSE, "range").arg
          = Climate!Put(Climate!ControlHolder, r.temp)
    BY <2>1, Zenon
  <2> QED BY <2>2, Zenon
<1> HIDE DEF One
<1>5. One(Climate!AtRange(r))
  BY <1>2 DEF Climate!AtRange
<1>6. One(Climate!AtTemp(r))
  BY <1>2, <1>4, <1>5 DEF Climate!AtTemp
<1>7. \A q : One(Climate!AtJob(q))
  BY <1>3 DEF Climate!AtJob
<1>8. One(Climate!AtHvac(r))
  BY <1>3, <1>7 DEF Climate!AtHvac
<1>9. One(Climate!AtMode(r))
  BY <1>6, <1>8 DEF Climate!AtMode
<1>10. One(Climate!AtPreset(r))
  BY <1>7 DEF Climate!AtPreset
<1>11. One(Climate!Starting(r))
  BY <1>3, <1>8, <1>9, <1>10 DEF Climate!Starting
<1>12. One(Climate!Resuming(r, l))
  BY <1>2, <1>5, <1>6, <1>7, <1>9 DEF Climate!Resuming, Labels
<1> QED BY <1>11, <1>12 DEF One

\* The setter of one bound changes that bound alone, if the device is up to date.
LEMMA PutsOne ==
  ASSUME NEW k, NEW t, x3 = x1
  PROVE  /\ Cardinality(ChangedBy(Climate!Put(k, t))) <= 1
         /\ \A q \in ChangedBy(Climate!Put(k, t)) : Climate!Put(k, t)[q] = t
<1> DEFINE f == Climate!Put(k, t)
<1>1. \A q \in ChangedBy(f) : q = k /\ f[q] = t
  BY DEF Climate!Put, ChangedBy
<1>2. ChangedBy(f) \in {{}, {k}}
  BY <1>1
<1>3. Cardinality({}) = 0 /\ Cardinality({k}) = 1
  BY FS_EmptySet, FS_Singleton
<1> HIDE DEF f
<1>4. Cardinality(ChangedBy(f)) <= 1
  BY <1>2, <1>3
<1> QED BY <1>1, <1>4 DEF f

\* A command decided on in quiet is one for a single temperature.
LEMMA OtherKept ==
  ASSUME NEW C, NEW R \in SUBSET AnyRequest, NEW M, ClimateInv(C, R), StepOf(C, R, M)
  PROVE  OtherKeptOf(C)
<1>0. QuietOf(C) => x3 = x1
  BY DEF QuietOf, ClimateInv
<1> SUFFICES ASSUME NEW c \in C, SetsOf(c), QuietOf(C)
             PROVE  x5'[c].do.arg = Climate!Put(Climate!ControlHolder, x5'[c].req.temp)
  BY <1>0, PutsOne DEF OtherKeptOf
<1>1. x5 \in [C -> Going(R)] /\ x2 = <<>> /\ \A d \in C : x5[d].at # "posting"
  BY DEF ClimateInv, QuietOf
<1>2. \E d \in C : CallOf(C, R, d) \/ WakeOf(d)
  BY <1>1 DEF StepOf, ObeysOf, RefusedOf, ReportOf, TouchedOf, SetsOf
<1>3. PICK d \in C : CallOf(C, R, d) \/ WakeOf(d)
  BY <1>2
<1>4. PICK r, l, do : /\ l \in Labels /\ do \in {Climate!Starting(r), Climate!Resuming(r, l)}
                      /\ Climate!Goes(d, r, do)
  <2>1. CASE CallOf(C, R, d)
    BY <2>1 DEF CallOf, Labels
  <2>2. CASE WakeOf(d)
    <3>1. x5[d].do.then \in Labels
      BY <1>1, <2>2, GoingTyped DEF WakeOf
    <3> QED BY <2>2, <3>1 DEF WakeOf, Goes
  <2> QED BY <1>3, <2>1, <2>2
<1>5. d = c /\ do.does = "post"
  BY <1>1, <1>4, GoesTo DEF SetsOf
<1>6. x5'[c].req = r /\ x5'[c].do = do
  BY <1>1, <1>4, <1>5, GoesTo
<1> QED BY <1>4, <1>5, <1>6, SetsOne DEF SetsOf

\* The two instances ask the same of a step.
LEMMA SameAsked ==
  /\ Climate!AskedIsReachedStep <=> AskedOf
  /\ Lone!AskedIsReachedStep <=> AskedOf
  /\ Climate!OtherBoundKeptStep <=> OtherKeptOf(Calls)
  /\ Lone!OtherBoundKeptStep <=> OtherKeptOf({Alone})
<1>1. Climate!AskedIsReachedStep <=> AskedOf
  BY DEF Climate!AskedIsReachedStep, AskedOf, Targets, Reached, ModeReached
<1>2. Lone!AskedIsReachedStep <=> AskedOf
  BY SameClimate DEF Lone!AskedIsReachedStep, AskedOf, Targets, Reached, ModeReached, Lone!Idle,
     Climate!Idle
<1>3. /\ Climate!Quiet <=> QuietOf(Calls)
      /\ Lone!Quiet <=> QuietOf({Alone})
  BY DEF Climate!Quiet, Lone!Quiet, QuietOf
<1>4. /\ \A S : Climate!Cardinality(S) = Cardinality(S) /\ Lone!Cardinality(S) = Cardinality(S)
      /\ \A c : (Climate!Sets(c) <=> SetsOf(c)) /\ (Lone!Sets(c) <=> SetsOf(c))
  BY DEF Climate!Cardinality, Lone!Cardinality, Cardinality, Climate!IsFiniteSet,
     Lone!IsFiniteSet, IsFiniteSet, Climate!Sets, Lone!Sets, SetsOf
<1>5. Climate!OtherBoundKeptStep <=> OtherKeptOf(Calls)
  BY <1>3, <1>4 DEF Climate!OtherBoundKeptStep, OtherKeptOf, ChangedBy
<1>6. Lone!OtherBoundKeptStep <=> OtherKeptOf({Alone})
  BY <1>3, <1>4 DEF Lone!OtherBoundKeptStep, OtherKeptOf, ChangedBy
<1> QED BY <1>1, <1>2, <1>5, <1>6

\* async_set_temperature does what it is asked for (climate.py): a call that nothing
\* disturbs, nor LG refuses, ends with the appliance on, in the mode and at the temperature
\* asked for, though it sleeps between its commands and goes by what was reported meanwhile;
\* a command for one bound leaves the other as it is.
THEOREM AskedReached == EntitiesSpec => AskedIsReached
<1> DEFINE Inv == /\ ClimatesInv
                  /\ part = "climate" => Undisturbed(Calls)
                  /\ part = "climate_alone" => Undisturbed({Alone})
<1>1. EntitiesInit => Inv
  <2> SUFFICES ASSUME EntitiesInit PROVE Inv
    OBVIOUS
  <2>1. part = "climate" \/ part = "climate_alone" => x7 = {}
    BY DEF EntitiesInit, Climate!Init, Lone!Init
  <2> QED BY <2>1, ClimatesKept DEF Undisturbed
<1>2. Inv /\ [EntitiesNext]_all =>
        /\ Inv'
        /\ part = "climate" => Climate!AskedIsReachedStep /\ Climate!OtherBoundKeptStep
        /\ part = "climate_alone" => Lone!AskedIsReachedStep /\ Lone!OtherBoundKeptStep
  <2> SUFFICES ASSUME Inv, [EntitiesNext]_all
               PROVE  /\ Inv'
                      /\ part = "climate" => AskedOf /\ OtherKeptOf(Calls)
                      /\ part = "climate_alone" => AskedOf /\ OtherKeptOf({Alone})
    BY SameAsked
  <2>1. ClimatesInv' /\ part' = part
    BY ClimatesKept, ClimatePart
  <2>2. ClimateRequests \in SUBSET AnyRequest /\ AllRequests \in SUBSET AnyRequest
    BY DEF AnyRequest
  <2>3. ASSUME NEW C, Undisturbed(C), UNCHANGED <<x1, x5, x7>>,
               \A c \in C : x5[c].at # "idle" => x5[c] # Climate!Idle
        PROVE  Undisturbed(C)' /\ AskedOf /\ OtherKeptOf(C)
    <3>1. Undisturbed(C)'
      BY <2>3 DEF Undisturbed, Alright
    <3>2. AskedOf
      BY <2>3 DEF AskedOf, Undisturbed
    <3>3. OtherKeptOf(C)
      BY <2>3 DEF OtherKeptOf, SetsOf
    <3> QED BY <3>1, <3>2, <3>3
  <2>4. Climate!Idle.at = "idle"
    BY DEF Climate!Idle
  <2>5. ASSUME part = "climate"
        PROVE  Undisturbed(Calls)' /\ AskedOf /\ OtherKeptOf(Calls)
    <3>1. CASE Climate!Next
      BY <2>2, <2>5, <3>1, ClimateSteps, StaysUndisturbed, OtherKept DEF ClimatesInv
    <3>2. CASE UNCHANGED Climate!vars
      BY <2>3, <2>4, <2>5, <3>2 DEF Climate!vars
    <3> QED BY <2>5, <3>1, <3>2, ClimatePart
  <2>6. ASSUME part = "climate_alone"
        PROVE  Undisturbed({Alone})' /\ AskedOf /\ OtherKeptOf({Alone})
    <3>1. CASE Lone!Next
      BY <2>2, <2>6, <3>1, LoneSteps, StaysUndisturbed, OtherKept DEF ClimatesInv
    <3>2. CASE UNCHANGED Lone!vars
      BY <2>3, <2>4, <2>6, <3>2 DEF Lone!vars
    <3> QED BY <2>6, <3>1, <3>2, ClimatePart
  <2> QED BY <2>1, <2>5, <2>6
<1>3. Inv /\ [EntitiesNext]_all =>
        [/\ part = "climate" => Climate!AskedIsReachedStep /\ Climate!OtherBoundKeptStep
         /\ part = "climate_alone" => Lone!AskedIsReachedStep /\ Lone!OtherBoundKeptStep]_all
  BY <1>2
<1> QED BY <1>1, <1>2, <1>3, PTL DEF EntitiesSpec, AskedIsReached


-----------------------------------------------------------------------------
(***************************************************************************)
(* The durations of a door and of an oven: x1 is the clock, x2 the         *)
(* readings held, x3 since when, x4 the cycle in progress, x12 the last    *)
(* gap or restart.  Whatever has begun has begun since that gap.           *)
(***************************************************************************)
BegunSince(t) == t \in Nat /\ x12 <= t /\ t <= x1
DurationInv(K) ==
  /\ x1 \in Nat /\ x12 \in Nat /\ x12 <= x1
  /\ x3 = [k \in K |-> x3[k]]
  /\ \A k \in K : /\ x3[k] # None => BegunSince(x3[k])
                  /\ x2[k] # None => x3[k] # None
  /\ x4 # None => x4 = [start |-> x4.start] /\ (x4.start # None => BegunSince(x4.start))

DoorKeys == {"door_state"}
OvenKeys == {"current_state"}

\* A step of the door's part, or the oven's, is one of its observations.
LEMMA ObservedPart ==
  ASSUME [EntitiesNext]_all
  PROVE  /\ part = "door" => Observed(DoorKeys, {None})!Next \/ UNCHANGED others
         /\ part = "oven" => Observed(OvenKeys, OvenStates)!Next \/ UNCHANGED others
         /\ part' = part
BY DEF EntitiesNext, OthersNext, all, DoorKeys, OvenKeys

\* A new device has begun nothing.
LEMMA DurationsBegin ==
  ASSUME NEW K, NEW S, Observed(K, S)!Init
  PROVE  DurationInv(K)
BY DEF Observed!Init, DurationInv, BegunSince, Observed!NoReading

\* What a device is observed at, and what gaps and restarts forget.
LEMMA DurationsKept ==
  ASSUME NEW K, NEW S, DurationInv(K), Observed(K, S)!Next \/ UNCHANGED others
  PROVE  DurationInv(K)' /\ Observed(K, S)!NoDurationBridgesStep
<1> USE DEF Observed!device, Observed!saved, Observed!ghosts
<1>1. ASSUME NEW data \in Observed(K, S)!Report, Observed(K, S)!Observe(data), x1' = x1, x12' = x12
      PROVE  DurationInv(K)' /\ Observed(K, S)!NoDurationBridgesStep
  <2>1. /\ x2' = data /\ x3' = [k \in K |-> IF data[k] # x2[k] THEN x1 ELSE x3[k]]
        /\ x4' = Observed(K, S)!CycleAfter(data) /\ x8' = Observed(K, S)!ValuesAfter(data)
    BY <1>1 DEF Observed!Observe
  <2>2. ASSUME NEW k \in K
        PROVE  /\ x3'[k] # None => x3'[k] \in Nat /\ x12 <= x3'[k] /\ x3'[k] <= x1
               /\ x2'[k] # None => x3'[k] # None
    BY <2>1, <2>2, NoneAssumption DEF DurationInv, BegunSince
  <2>3. \/ x4' = None \/ x4' = x4 \/ x4' = [start |-> x1] \/ x4' = [start |-> None]
    BY <2>1 DEF Observed!CycleAfter, Observed!Begun
  <2>4. x4' # None => x4' = [start |-> x4'.start] /\ (x4'.start # None => BegunSince(x4.start)')
    BY <1>1, <2>3 DEF DurationInv, BegunSince
  <2>5. DurationInv(K)'
    <3>1. x3' = [k \in K |-> x3'[k]]
      BY <2>1
    <3> QED BY <1>1, <2>2, <2>4, <3>1 DEF DurationInv, BegunSince
  <2>6. ASSUME NEW m \in Observed(K, S)!Duration, x8'[m] \notin {x8[m], x9.values[m], None}
        PROVE  x8'[m] <= x1 - x12
    <3>1. CASE m = "last_cycle"
      <4>1. x8'[m] = Observed(K, S)!CycleSeconds /\ x4 # None
        BY <2>1, <2>6, <3>1 DEF Observed!ValuesAfter, Observed!Completes
      <4>2. x4.start # None /\ x8'[m] = x1 - x4.start
        BY <2>6, <4>1 DEF Observed!CycleSeconds
      <4>3. x4.start \in Nat /\ x12 <= x4.start /\ x4.start <= x1 /\ x1 \in Nat /\ x12 \in Nat
        BY <4>1, <4>2 DEF DurationInv, BegunSince
      <4> QED BY <4>2, <4>3
    <3>2. ASSUME NEW k, NEW from, NEW to, from # None \/ to # None,
                 x8'[m] = Observed(K, S)!Elapsed(data, k, from, to, x8[m])
          PROVE  x8'[m] <= x1 - x12
      <4>1. Observed(K, S)!Turned(data, k, from, to) /\ x3[k] # None /\ x8'[m] = x1 - x3[k]
        BY <2>6, <3>2 DEF Observed!Elapsed
      <4>2. k \in K
        BY <3>2, <4>1 DEF Observed!Turned, Observed!Lookup
      <4>3. x3[k] \in Nat /\ x12 <= x3[k] /\ x1 \in Nat /\ x12 \in Nat
        BY <4>1, <4>2 DEF DurationInv, BegunSince
      <4> QED BY <4>1, <4>3
    <3>3. CASE m = "last_open"
      BY <2>1, <3>2, <3>3, NoneAssumption DEF Observed!ValuesAfter
    <3>4. CASE m = "last_preheat"
      BY <2>1, <3>2, <3>4, NoneAssumption DEF Observed!ValuesAfter
    <3>5. CASE m = "last_cooking"
      BY <2>1, <3>2, <3>5, NoneAssumption DEF Observed!ValuesAfter
    <3> QED BY <3>1, <3>3, <3>4, <3>5 DEF Observed!Duration
  <2> QED BY <2>5, <2>6 DEF Observed!NoDurationBridgesStep
<1>2. ASSUME UNCHANGED <<x2, x3, x4, x8, x12>>, x1' \in {x1, x1 + 1}
      PROVE  DurationInv(K)' /\ Observed(K, S)!NoDurationBridgesStep
  <2>1. x1' \in Nat /\ x1 <= x1'
    BY <1>2 DEF DurationInv
  <2>2. DurationInv(K)'
    BY <1>2, <2>1 DEF DurationInv, BegunSince
  <2> QED BY <1>2, <2>2 DEF Observed!NoDurationBridgesStep
<1>3. ASSUME x1' = x1, x12' = x1, x2' = Observed(K, S)!NoReading, x3' = Observed(K, S)!NoReading, x4' = None,
             x8' \in {x8, x9.values}
      PROVE  DurationInv(K)' /\ Observed(K, S)!NoDurationBridgesStep
  <2>1. DurationInv(K)'
    BY <1>3 DEF DurationInv, BegunSince, Observed!NoReading
  <2> QED BY <1>3, <2>1 DEF Observed!NoDurationBridgesStep
<1>4. CASE Observed(K, S)!ClockStep \/ Observed(K, S)!Tick \/ Observed(K, S)!Connected \/ Observed(K, S)!Save \/ UNCHANGED others
  BY <1>2, <1>4 DEF Observed!ClockStep, Observed!Tick, Observed!Connected, Observed!Save, others
<1>5. CASE \E data \in Observed(K, S)!Report : Observed(K, S)!ObserveReport(data) \/ Observed(K, S)!ObserveFetch(data)
  BY <1>1, <1>5 DEF Observed!ObserveReport, Observed!ObserveFetch
<1>6. CASE Observed(K, S)!Disconnected \/ Observed(K, S)!Restart
  BY <1>3, <1>6 DEF Observed!Disconnected, Observed!Gap, Observed!Restart
<1> QED BY <1>4, <1>5, <1>6 DEF Observed!Next

\* What is shown as current began after the last gap.
LEMMA DurationsShown ==
  ASSUME NEW K, NEW S, DurationInv(K)
  PROVE  Observed(K, S)!CurrentDurationWatched
<1> SUFFICES ASSUME NEW k \in K,
                    Observed(K, S)!CurrentDuration(k, Observed(K, S)!Readings(k)) # None
             PROVE  Observed(K, S)!CurrentDuration(k, Observed(K, S)!Readings(k)) <= x1 - x12
  BY DEF Observed!CurrentDurationWatched
<1>1. /\ x1 \in Nat /\ x12 \in Nat /\ x12 <= x1
      /\ x3[k] \in Nat /\ x12 <= x3[k]
  BY DEF Observed!CurrentDuration, DurationInv, BegunSince
<1> QED BY <1>1 DEF Observed!CurrentDuration

\* No open, preheat or cooking time, recorded or current, reaches back over a gap or a
\* restart (Observations.observe, gap and duration, Monitoring.load).
THEOREM DurationsSeen == EntitiesSpec => DurationsWatched
<1> DEFINE Inv == /\ part = "door" => DurationInv(DoorKeys)
                  /\ part = "oven" => DurationInv(OvenKeys)
           Seen(K, S) == /\ Observed(K, S)!NoDurationBridgesStep
                         /\ Observed(K, S)!CurrentDurationWatched'
<1>1. EntitiesInit => Inv
  BY DurationsBegin DEF EntitiesInit, DoorKeys, OvenKeys
<1>2. ASSUME Inv, [EntitiesNext]_all
      PROVE  Inv' /\ [/\ part = "door" => Seen(DoorKeys, {None})
                      /\ part = "oven" => Seen(OvenKeys, OvenStates)]_all
  <2>1. part' = part
    BY <1>2, ObservedPart
  <2>2. ASSUME NEW K, NEW S, DurationInv(K)'
        PROVE  Observed(K, S)!CurrentDurationWatched'
    BY <2>2, DurationsShown, PTL
  <2>3. ASSUME part = "door"
        PROVE  DurationInv(DoorKeys)' /\ Seen(DoorKeys, {None})
    BY <1>2, <2>2, <2>3, ObservedPart, DurationsKept
  <2>4. ASSUME part = "oven"
        PROVE  DurationInv(OvenKeys)' /\ Seen(OvenKeys, OvenStates)
    BY <1>2, <2>2, <2>4, ObservedPart, DurationsKept
  <2> QED BY <2>1, <2>3, <2>4
<1>3. Inv /\ [EntitiesNext]_all =>
        [/\ part = "door" => /\ Observed({"door_state"}, {None})!NoDurationBridgesStep
                            /\ Observed({"door_state"}, {None})!CurrentDurationWatched'
         /\ part = "oven" => /\ Observed({"current_state"}, OvenStates)!NoDurationBridgesStep
                            /\ Observed({"current_state"}, OvenStates)!CurrentDurationWatched']_all
  BY <1>2 DEF DoorKeys, OvenKeys
<1> QED BY <1>1, <1>2, <1>3, PTL DEF EntitiesSpec, DurationsWatched

-----------------------------------------------------------------------------
(***************************************************************************)
(* The appliances of the other entity modules.  Entities gives the part:   *)
(* x1 is the kind of the appliance, x2 the appliance as it is, x3 its last *)
(* report, x4 whether its helper has a holder, x5 the calls of its         *)
(* entities, and x6 the calls that have only seen it as it was.            *)
(***************************************************************************)
\* A quotient rounded to a whole number is at most half off.
LEMMA RoundedIsNear ==
  ASSUME NEW n \in Int, NEW d \in Nat \ {0}
  PROVE  LET r == Appliance!Rounded(n, d) IN
         r \in Int /\ 2 * n - d <= 2 * (d * r) /\ 2 * (d * r) <= 2 * n + d
<1> DEFINE q == n \div d
           m == n % d
<1>1. q \in Int /\ m \in Int /\ 0 <= m /\ m < d /\ n = d * q + m
  OBVIOUS
<1>2. d * (q + 1) = d * q + d
  BY <1>1
<1>3. PICK p \in Int : p = d * q
  BY <1>1
<1>4. Appliance!Rounded(n, d) = IF 2 * m < d \/ (2 * m = d /\ q % 2 = 0) THEN q ELSE q + 1
  BY DEF Appliance!Rounded
<1> HIDE DEF q, m
<1>5. CASE Appliance!Rounded(n, d) = q /\ 2 * m <= d
  BY <1>1, <1>3, <1>5
<1>6. CASE Appliance!Rounded(n, d) = q + 1 /\ 2 * m >= d
  BY <1>1, <1>2, <1>3, <1>6
<1>7. QED
  BY <1>1, <1>4, <1>5, <1>6

\* A speed of a hood, shown as a percentage and set again, is the same.
LEMMA SpeedIsKept ==
  ASSUME NEW low \in Int, NEW n \in 1 .. 50, NEW v \in low .. low + n
  PROVE  Appliance!Rounded(n * (((v - low) * 100) \div n) + low * 100, 100) = v
<1> DEFINE w == (v - low) * 100
           p == w \div n
           x == n * p
<1>1. w \in Int /\ p \in Int /\ x \in Int /\ w = x + (w % n) /\ w % n \in 0 .. 49
  OBVIOUS
<1>2. x <= w /\ w <= x + 49
  BY <1>1
<1>3. w = 100 * v - 100 * low
  OBVIOUS
<1> HIDE DEF w, p, x
<1> DEFINE z == x + low * 100
<1>4. z \in Int /\ 100 * v - 49 <= z /\ z <= 100 * v
  BY <1>1, <1>2, <1>3
<1>5. Appliance!Rounded(z, 100) = v
  <2> HIDE DEF z
  <2>1. CASE z = 100 * v
    <3>1. z \div 100 = v /\ z % 100 = 0
      BY <2>1
    <3> QED BY <3>1 DEF Appliance!Rounded
  <2>2. CASE z < 100 * v
    <3>1. z \div 100 = v - 1 /\ z % 100 \in 51 .. 99
      BY <2>2, <1>4
    <3> QED BY <3>1 DEF Appliance!Rounded
  <2> QED BY <2>1, <2>2, <1>4
<1> QED
  BY <1>5 DEF w, p, x

\* Whatever percentage is asked for, the speed is one of the hood's.
LEMMA SpeedInRange ==
  ASSUME NEW low \in Int, NEW n \in 1 .. 50, NEW p \in 0 .. 100
  PROVE  Appliance!Rounded(n * p + low * 100, 100) \in low .. low + n
<1> DEFINE z == n * p + low * 100
<1>1. n * p \in 0 .. n * 100
  OBVIOUS
<1>2. z \in 100 * low .. 100 * (low + n)
  BY <1>1
<1> HIDE DEF z
<1>3. Appliance!Rounded(z, 100) \in low .. low + n
  BY <1>2 DEF Appliance!Rounded
<1> QED
  BY <1>3 DEF z


FanSpeeds == {"low", "mid", "high", "turbo", "power"}

\* s has every member of S, each once.
Lists(s, S) ==
  /\ s \in Seq(S)
  /\ \A i, j \in 1 .. Len(s) : s[i] = s[j] => i = j
  /\ \A x \in S : \E i \in 1 .. Len(s) : s[i] = x

\* Two lists of what is not the same, one after the other, list both.
LEMMA ConcatLists ==
  ASSUME NEW S, NEW T, NEW s, NEW t, Lists(s, S), Lists(t, T), S \cap T = {},
         NEW m \in Nat, Len(s) \in 0 .. m, Len(t) \in 0 .. 1
  PROVE  Lists(s \o t, S \cup T) /\ Len(s \o t) \in 0 .. m + 1
<1> DEFINE U == S \cup T
<1>1. s \in Seq(U) /\ t \in Seq(U)
  BY SeqMonotonic DEF Lists
<1>2. /\ s \o t \in Seq(U) /\ Len(s \o t) = Len(s) + Len(t)
      /\ \A i \in 1 .. Len(s) + Len(t) :
           (s \o t)[i] = IF i <= Len(s) THEN s[i] ELSE t[i - Len(s)]
  BY <1>1, ConcatProperties
<1>3. Len(s) \in Nat /\ Len(t) \in Nat
  BY <1>1, LenProperties
<1>4. (\A i \in 1 .. Len(s) : s[i] \in S) /\ (\A i \in 1 .. Len(t) : t[i] \in T)
  BY ElementOfSeq DEF Lists
<1> DEFINE st == s \o t
<1>5. \A i \in 1 .. Len(s) : st[i] = s[i] /\ st[i] \in S /\ st[i] \notin T
  BY <1>2, <1>3, <1>4
<1>6. \A i \in 1 .. Len(st) : i > Len(s) =>
        /\ st[i] = t[i - Len(s)] /\ st[i] \in T /\ st[i] \notin S
        /\ i - Len(s) \in 1 .. Len(t)
  BY <1>2, <1>3, <1>4
<1>7. Len(st) = Len(s) + Len(t)
  BY <1>2
<1> HIDE DEF st
<1>8. ASSUME NEW i \in 1 .. Len(st), NEW j \in 1 .. Len(st), st[i] = st[j] PROVE i = j
  <2>1. CASE i <= Len(s) /\ j <= Len(s)
    BY <2>1, <1>8, <1>5, <1>3 DEF Lists
  <2>2. CASE i > Len(s) /\ j > Len(s)
    <3>1. i - Len(s) = j - Len(s)
      BY <2>2, <1>8, <1>6, <1>3 DEF Lists
    <3> QED BY <3>1, <1>3, <1>7
  <2>3. CASE i <= Len(s) /\ j > Len(s)
    BY <2>3, <1>8, <1>5, <1>6, <1>3
  <2>4. CASE i > Len(s) /\ j <= Len(s)
    BY <2>4, <1>8, <1>5, <1>6, <1>3
  <2> QED BY <2>1, <2>2, <2>3, <2>4, <1>3, <1>7
<1>9. ASSUME NEW x \in U PROVE \E i \in 1 .. Len(st) : st[i] = x
  <2>1. CASE x \in S
    <3>1. PICK i \in 1 .. Len(s) : s[i] = x
      BY <2>1 DEF Lists
    <3> QED BY <3>1, <1>5, <1>3, <1>7
  <2>2. CASE x \in T
    <3>1. PICK j \in 1 .. Len(t) : t[j] = x
      BY <2>2 DEF Lists
    <3>2. j + Len(s) \in 1 .. Len(st) /\ j + Len(s) > Len(s) /\ (j + Len(s)) - Len(s) = j
      BY <1>3, <1>7
    <3> QED BY <3>1, <3>2, <1>6
  <2> QED BY <2>1, <2>2
<1>10. Len(st) \in 0 .. m + 1
  <2>1. \A x \in 0 .. m, y \in 0 .. 1 : x + y \in 0 .. m + 1
    OBVIOUS
  <2>2. Len(s) + Len(t) \in 0 .. m + 1
    BY <2>1
  <2> QED BY <2>2, <1>7
<1> QED
  BY <1>2, <1>8, <1>9, <1>10 DEF Lists, st

\* One of the names, if the profile offers it.
LEMMA KeptLists ==
  ASSUME NEW i \in 1 .. 5, NEW x, Appliance!ORDERED_NAMED_FAN_SPEEDS[i] = x
  PROVE  Lists(Appliance!Kept(i), {x} \cap Speeds) /\ Len(Appliance!Kept(i)) \in 0 .. 1
<1>1. Appliance!Kept(i) = IF x \in Speeds THEN <<x>> ELSE <<>>
  BY DEF Appliance!Kept
<1>2. CASE x \in Speeds
  <2>1. <<x>> \in Seq({x}) /\ Len(<<x>>) = 1 /\ <<x>>[1] = x
    OBVIOUS
  <2>2. {x} \cap Speeds = {x}
    BY <1>2
  <2> QED BY <1>1, <1>2, <2>1, <2>2 DEF Lists
<1>3. CASE x \notin Speeds
  <2>1. <<>> \in Seq({}) /\ Len(<<>>) = 0
    BY EmptySeq
  <2>2. {x} \cap Speeds = {}
    BY <1>3
  <2> QED BY <1>1, <1>3, <2>1, <2>2 DEF Lists
<1> QED
  BY <1>2, <1>3

\* One after the other they list all the names the profile offers.
LEMMA FiveLists ==
  ASSUME NEW a, Lists(a, {"low"} \cap Speeds), Len(a) \in 0 .. 1,
         NEW b, Lists(b, {"mid"} \cap Speeds), Len(b) \in 0 .. 1,
         NEW c, Lists(c, {"high"} \cap Speeds), Len(c) \in 0 .. 1,
         NEW d, Lists(d, {"turbo"} \cap Speeds), Len(d) \in 0 .. 1,
         NEW e, Lists(e, {"power"} \cap Speeds), Len(e) \in 0 .. 1
  PROVE  /\ Lists(a \o b \o c \o d \o e, FanSpeeds \cap Speeds)
         /\ Len(a \o b \o c \o d \o e) \in 0 .. 5
<1> DEFINE S(x) == {x} \cap Speeds
<1>1. /\ Lists(a \o b, S("low") \cup S("mid")) /\ Len(a \o b) \in 0 .. 2
  <2>1. S("low") \cap S("mid") = {}
    OBVIOUS
  <2>2. 1 \in Nat /\ 1 + 1 = 2
    OBVIOUS
  <2> QED BY <2>1, <2>2, ConcatLists
<1>2. /\ Lists(a \o b \o c, S("low") \cup S("mid") \cup S("high"))
      /\ Len(a \o b \o c) \in 0 .. 3
  <2>1. (S("low") \cup S("mid")) \cap S("high") = {}
    OBVIOUS
  <2>2. 2 \in Nat /\ 2 + 1 = 3
    OBVIOUS
  <2> QED BY <1>1, <2>1, <2>2, ConcatLists
<1>3. /\ Lists(a \o b \o c \o d, S("low") \cup S("mid") \cup S("high") \cup S("turbo"))
      /\ Len(a \o b \o c \o d) \in 0 .. 4
  <2>1. (S("low") \cup S("mid") \cup S("high")) \cap S("turbo") = {}
    OBVIOUS
  <2>2. 3 \in Nat /\ 3 + 1 = 4
    OBVIOUS
  <2> QED BY <1>2, <2>1, <2>2, ConcatLists
<1>4. /\ Lists(a \o b \o c \o d \o e,
               S("low") \cup S("mid") \cup S("high") \cup S("turbo") \cup S("power"))
      /\ Len(a \o b \o c \o d \o e) \in 0 .. 5
  <2>1. (S("low") \cup S("mid") \cup S("high") \cup S("turbo")) \cap S("power") = {}
    OBVIOUS
  <2>2. 4 \in Nat /\ 4 + 1 = 5
    OBVIOUS
  <2> QED BY <1>3, <2>1, <2>2, ConcatLists
<1>5. S("low") \cup S("mid") \cup S("high") \cup S("turbo") \cup S("power")
        = FanSpeeds \cap Speeds
  BY DEF FanSpeeds
<1> QED
  BY <1>4, <1>5

\* The named speeds of a fan are those of the names that its profile offers.
LEMMA NamedSpeedsList ==
  ASSUME "fan" \in Kinds
  PROVE  /\ Lists(Appliance!NamedSpeeds, FanSpeeds \cap Speeds)
         /\ Len(Appliance!NamedSpeeds) \in 1 .. 5
<1> DEFINE O == Appliance!ORDERED_NAMED_FAN_SPEEDS
           N == Appliance!NamedSpeeds
<1>1. /\ O[1] = "low" /\ O[2] = "mid" /\ O[3] = "high" /\ O[4] = "turbo" /\ O[5] = "power"
  BY DEF Appliance!ORDERED_NAMED_FAN_SPEEDS
<1>2. 1 \in 1 .. 5 /\ 2 \in 1 .. 5 /\ 3 \in 1 .. 5 /\ 4 \in 1 .. 5 /\ 5 \in 1 .. 5
  OBVIOUS
<1>3. N = Appliance!Kept(1) \o Appliance!Kept(2) \o Appliance!Kept(3) \o Appliance!Kept(4)
            \o Appliance!Kept(5)
  BY FanAssumption DEF Appliance!NamedSpeeds
<1>4. Lists(N, FanSpeeds \cap Speeds) /\ Len(N) \in 0 .. 5
  BY <1>1, <1>2, <1>3, KeptLists, FiveLists
<1>5. FanSpeeds \cap Speeds # {}
  BY FanAssumption DEF FanSpeeds
<1>6. Len(N) # 0
  <2> HIDE DEF N
  <2> QED BY <1>4, <1>5 DEF Lists
<1> QED
  BY <1>4, <1>6

\* The percentage of an item is that of its place.
LEMMA PlaceToPercentage ==
  ASSUME NEW S, NEW list, Lists(list, S), NEW i \in 1 .. Len(list)
  PROVE  Appliance!ItemToPercentage(list, list[i]) = (i * 100) \div Len(list)
<1> DEFINE j == CHOOSE k \in 1 .. Len(list) : list[k] = list[i]
<1>1. j \in 1 .. Len(list) /\ list[j] = list[i]
  OBVIOUS
<1>2. j = i
  <2> HIDE DEF j
  <2> QED BY <1>1 DEF Lists
<1> QED
  BY <1>2 DEF Appliance!ItemToPercentage

\* The item of a percentage has that percentage at least, and none before it has.
LEMMA PercentageToPlace ==
  ASSUME NEW list, Len(list) \in 1 .. 5, NEW p \in 0 .. 100
  PROVE  \E i \in 1 .. Len(list) :
           /\ Appliance!PercentageToItem(list, p) = list[i]
           /\ p <= (i * 100) \div Len(list)
           /\ \A j \in 1 .. Len(list) : p <= (j * 100) \div Len(list) => i <= j
<1> DEFINE n == Len(list)
           enough == {i \in 1 .. n : p <= (i * 100) \div n}
           least(i) == \A j \in enough : i <= j
<1>1. n \in enough
  <2>1. n \in 1 .. 5
    OBVIOUS
  <2> HIDE DEF n
  <2>2. (n * 100) \div n = 100
    BY <2>1
  <2> QED BY <2>1, <2>2
<1>2. \E i \in enough : least(i)
  <2>1. n \in 1 .. 5 /\ enough \subseteq 1 .. 5
    <3>1. n \in 1 .. 5 /\ enough \subseteq 1 .. n
      OBVIOUS
    <3> HIDE DEF n, enough
    <3> QED BY <3>1
  <2> HIDE DEF n, enough
  <2>2. CASE 1 \in enough
    BY <2>1, <2>2
  <2>3. CASE 1 \notin enough /\ 2 \in enough
    BY <2>1, <2>3
  <2>4. CASE 1 \notin enough /\ 2 \notin enough /\ 3 \in enough
    BY <2>1, <2>4
  <2>5. CASE 1 \notin enough /\ 2 \notin enough /\ 3 \notin enough /\ 4 \in enough
    BY <2>1, <2>5
  <2>6. CASE enough = {5}
    BY <2>1, <2>6
  <2> QED BY <2>1, <2>2, <2>3, <2>4, <2>5, <2>6, <1>1
<1> DEFINE i == CHOOSE k \in enough : least(k)
<1>3. i \in enough /\ least(i)
  <2> HIDE DEF enough, least
  <2> QED BY <1>2
<1>4. Appliance!PercentageToItem(list, p) = list[i]
  BY <1>1 DEF Appliance!PercentageToItem
<1> HIDE DEF i
<1> QED
  BY <1>3, <1>4

\* Of a list of five at most, the percentage of a place leads back to it.
LEMMA PercentageOfPlace ==
  ASSUME NEW S, NEW list, Lists(list, S), Len(list) \in 1 .. 5, NEW i \in 1 .. Len(list)
  PROVE  Appliance!PercentageToItem(list, (i * 100) \div Len(list)) = list[i]
<1> DEFINE n == Len(list)
           at(k) == (k * 100) \div n
<1>1. n \in 1 .. 5 /\ i \in 1 .. n
  OBVIOUS
<1>2. at(i) \in 0 .. 100 /\ \A j \in 1 .. n : j < i => at(j) < at(i)
  <2> HIDE DEF n
  <2> QED BY <1>1
<1>3. PICK k \in 1 .. n : /\ Appliance!PercentageToItem(list, at(i)) = list[k]
                          /\ at(i) <= at(k) /\ \A j \in 1 .. n : at(i) <= at(j) => k <= j
  <2>1. at(i) \in 0 .. 100
    BY <1>2
  <2> HIDE DEF at
  <2> QED BY <1>1, <2>1, PercentageToPlace DEF at
<1>4. k <= i
  BY <1>3, <1>1, <1>2
<1>5. ~(k < i)
  BY <1>3, <1>1, <1>2
<1> QED
  BY <1>1, <1>3, <1>4, <1>5

\* An appliance is a record of the three.
LEMMA StatesAre ==
  ASSUME NEW k \in Kinds, NEW a \in Appliance!States(k)
  PROVE  \E M, L : a \in [on : BOOLEAN, mode : M, level : L]
<1>1. a \in [on : IF k \in {"hood", "vacuum"} THEN {TRUE} ELSE BOOLEAN,
             mode : Appliance!ModesOf(k), level : Appliance!LevelsOf(k)]
  BY DEF Appliance!States
<1>2. (IF k \in {"hood", "vacuum"} THEN {TRUE} ELSE BOOLEAN) \subseteq BOOLEAN
  OBVIOUS
<1>3. a \in [on : BOOLEAN, mode : Appliance!ModesOf(k), level : Appliance!LevelsOf(k)]
  BY <1>1, <1>2
<1> QED
  BY <1>3

\* What obeying a command changes, and what it leaves alone.
LEMMA ObeyedIs ==
  ASSUME NEW k \in Kinds, NEW a \in Appliance!States(k), NEW x
  PROVE  /\ LET b == Appliance!Obeyed(a, Appliance!Do("on", x))
            IN  b = [on |-> TRUE, mode |-> a.mode, level |-> a.level]
         /\ LET b == Appliance!Obeyed(a, Appliance!Do("off", x))
            IN  b = [on |-> FALSE, mode |-> a.mode, level |-> a.level]
         /\ LET b == Appliance!Obeyed(a, Appliance!Do("level", x))
            IN  b = [on |-> a.on, mode |-> a.mode, level |-> x]
         /\ LET b == Appliance!Obeyed(a, Appliance!Do("mode", x))
            IN  b = [on |-> a.on, mode |-> x, level |-> a.level]
         /\ LET b == Appliance!Obeyed(a, Appliance!Do("robot", x))
            IN  b = [on |-> a.on, mode |-> Appliance!RobotAfter[x], level |-> a.level]
<1>1. PICK M, L : a \in [on : BOOLEAN, mode : M, level : L]
  BY StatesAre
<1>2. /\ [a EXCEPT !.on = TRUE] = [on |-> TRUE, mode |-> a.mode, level |-> a.level]
      /\ [a EXCEPT !.on = FALSE] = [on |-> FALSE, mode |-> a.mode, level |-> a.level]
      /\ \A y : /\ [a EXCEPT !.level = y] = [on |-> a.on, mode |-> a.mode, level |-> y]
                /\ [a EXCEPT !.mode = y] = [on |-> a.on, mode |-> y, level |-> a.level]
  <2>1. ASSUME NEW y
        PROVE  [a EXCEPT !.on = y] = [on |-> y, mode |-> a.mode, level |-> a.level]
    BY <1>1
  <2>2. /\ [a EXCEPT !.on = TRUE] = [on |-> TRUE, mode |-> a.mode, level |-> a.level]
        /\ [a EXCEPT !.on = FALSE] = [on |-> FALSE, mode |-> a.mode, level |-> a.level]
    BY <2>1, Zenon
  <2>3. ASSUME NEW y
        PROVE  [a EXCEPT !.level = y] = [on |-> a.on, mode |-> a.mode, level |-> y]
    BY <1>1
  <2>4. ASSUME NEW y
        PROVE  [a EXCEPT !.mode = y] = [on |-> a.on, mode |-> y, level |-> a.level]
    BY <1>1
  <2> QED BY <2>2, <2>3, <2>4
<1>3. Appliance!Obeyed(a, Appliance!Do("on", x)) = [a EXCEPT !.on = TRUE]
  BY DEF Appliance!Obeyed, Appliance!Do
<1>4. Appliance!Obeyed(a, Appliance!Do("off", x)) = [a EXCEPT !.on = FALSE]
  BY DEF Appliance!Obeyed, Appliance!Do
<1>5. /\ Appliance!Obeyed(a, Appliance!Do("level", x)) = [a EXCEPT !.level = x]
      /\ Appliance!Obeyed(a, Appliance!Do("mode", x)) = [a EXCEPT !.mode = x]
      /\ Appliance!Obeyed(a, Appliance!Do("robot", x))
           = [a EXCEPT !.mode = Appliance!RobotAfter[x]]
  BY DEF Appliance!Obeyed, Appliance!Do
<1> QED
  BY <1>2, <1>3, <1>4, <1>5

\* What each request wants.
LEMMA WantsAre ==
  ASSUME NEW a, NEW x
  PROVE  /\ x1 # "hood" => /\ a.on = TRUE => Appliance!Wants(x1, Appliance!Do("on", x), a)
                           /\ a.on = FALSE => Appliance!Wants(x1, Appliance!Do("off", x), a)
         /\ x1 = "hood" =>
              /\ a.level # Levels["hood"].min => Appliance!Wants(x1, Appliance!Do("on", x), a)
              /\ a.level = Levels["hood"].min => Appliance!Wants(x1, Appliance!Do("off", x), a)
         /\ a.mode = x => Appliance!Wants(x1, Appliance!Do("preset", x), a)
         /\ x1 # "boiler" /\ a.mode = x => Appliance!Wants(x1, Appliance!Do("mode", x), a)
         /\ x1 = "boiler" /\ x = "off" /\ a.on = FALSE
              => Appliance!Wants(x1, Appliance!Do("mode", x), a)
         /\ x1 = "boiler" /\ x # "off" /\ a.on = TRUE
              => Appliance!Wants(x1, Appliance!Do("mode", x), a)
         /\ a.level = x => Appliance!Wants(x1, Appliance!Do("temperature", x), a)
         /\ a.mode \notin {"sleep", "pause"} => Appliance!Wants(x1, Appliance!Do("start", x), a)
         /\ a.mode = "pause" => Appliance!Wants(x1, Appliance!Do("pause", x), a)
         /\ a.mode = "homing" => Appliance!Wants(x1, Appliance!Do("home", x), a)
         /\ x1 = "fan" /\ x = 0 /\ a.on = FALSE
              => Appliance!Wants(x1, Appliance!Do("percent", x), a)
         /\ x1 = "fan" /\ x # 0
              /\ Appliance!ItemToPercentage(Appliance!NamedSpeeds, a.mode) >= x
              => Appliance!Wants(x1, Appliance!Do("percent", x), a)
         /\ x1 = "hood" /\ x = 0 => Appliance!Wants(x1, Appliance!Do("percent", x), a)
<1>1. x1 # "hood" => /\ a.on = TRUE => Appliance!Wants(x1, Appliance!Do("on", x), a)
                     /\ a.on = FALSE => Appliance!Wants(x1, Appliance!Do("off", x), a)
  BY DEF Appliance!Wants, Appliance!Do
<1>2. x1 = "hood" =>
        /\ a.level # Levels["hood"].min => Appliance!Wants(x1, Appliance!Do("on", x), a)
        /\ a.level = Levels["hood"].min => Appliance!Wants(x1, Appliance!Do("off", x), a)
  BY DEF Appliance!Wants, Appliance!Do
<1>3. /\ a.mode = x => Appliance!Wants(x1, Appliance!Do("preset", x), a)
      /\ x1 # "boiler" /\ a.mode = x => Appliance!Wants(x1, Appliance!Do("mode", x), a)
  BY DEF Appliance!Wants, Appliance!Do
<1>4. /\ x1 = "boiler" /\ x = "off" /\ a.on = FALSE
           => Appliance!Wants(x1, Appliance!Do("mode", x), a)
      /\ x1 = "boiler" /\ x # "off" /\ a.on = TRUE
           => Appliance!Wants(x1, Appliance!Do("mode", x), a)
  BY DEF Appliance!Wants, Appliance!Do
<1>5. a.level = x => Appliance!Wants(x1, Appliance!Do("temperature", x), a)
  BY DEF Appliance!Wants, Appliance!Do
<1>6. /\ a.mode \notin {"sleep", "pause"} => Appliance!Wants(x1, Appliance!Do("start", x), a)
      /\ a.mode = "pause" => Appliance!Wants(x1, Appliance!Do("pause", x), a)
      /\ a.mode = "homing" => Appliance!Wants(x1, Appliance!Do("home", x), a)
  BY DEF Appliance!Wants, Appliance!Do
<1>7. /\ x1 = "fan" /\ x = 0 /\ a.on = FALSE
           => Appliance!Wants(x1, Appliance!Do("percent", x), a)
      /\ x1 = "hood" /\ x = 0 => Appliance!Wants(x1, Appliance!Do("percent", x), a)
  BY DEF Appliance!Wants, Appliance!Do
<1>8. x1 = "fan" /\ x # 0 /\ Appliance!ItemToPercentage(Appliance!NamedSpeeds, a.mode) >= x
        => Appliance!Wants(x1, Appliance!Do("percent", x), a)
  BY DEF Appliance!Wants, Appliance!Do
<1> QED
  BY <1>1, <1>2, <1>3, <1>4, <1>5, <1>6, <1>7, <1>8

\* A command answers a request that wants no more than what the command sets.
LEMMA AnswersAre ==
  ASSUME x1 \in Kinds, NEW q, NEW x
  PROVE  /\ (\A b : b.on = TRUE => Appliance!Wants(x1, q, b))
              => Appliance!Answers(x1, q, Appliance!Do("on", x))
         /\ (\A b : b.on = FALSE => Appliance!Wants(x1, q, b))
              => Appliance!Answers(x1, q, Appliance!Do("off", x))
         /\ (\A b : b.level = x => Appliance!Wants(x1, q, b))
              => Appliance!Answers(x1, q, Appliance!Do("level", x))
         /\ (\A b : b.mode = x => Appliance!Wants(x1, q, b))
              => Appliance!Answers(x1, q, Appliance!Do("mode", x))
         /\ (\A b : b.mode = Appliance!RobotAfter[x] => Appliance!Wants(x1, q, b))
              => Appliance!Answers(x1, q, Appliance!Do("robot", x))
<1> DEFINE After(a, op) == Appliance!Obeyed(a, Appliance!Do(op, x))
<1>1. ASSUME NEW a \in Appliance!States(x1)
      PROVE  /\ After(a, "on") = [on |-> TRUE, mode |-> a.mode, level |-> a.level]
             /\ After(a, "off") = [on |-> FALSE, mode |-> a.mode, level |-> a.level]
             /\ After(a, "level").level = x /\ After(a, "mode").mode = x
             /\ After(a, "robot").mode = Appliance!RobotAfter[x]
  BY ObeyedIs
<1>2. \A a \in Appliance!States(x1) :
        /\ After(a, "on").on = TRUE /\ After(a, "off").on = FALSE
        /\ After(a, "level").level = x /\ After(a, "mode").mode = x
        /\ After(a, "robot").mode = Appliance!RobotAfter[x]
  BY <1>1
<1> HIDE DEF After
<1> QED
  BY <1>2, Zenon DEF Appliance!Answers, After

\* What is asked of a fan is one thing, and the command does it: a percentage gets a
\* speed of no smaller one.
LEMMA FanServed ==
  ASSUME x1 = "fan", "fan" \in Kinds, NEW q, <<q>> \in Appliance!Requests("fan")
  PROVE  LET d == Appliance!Decided(q) IN
         d \in Appliance!Commands("fan") /\ Appliance!Answers(x1, q, d)
<1> DEFINE d == Appliance!Decided(q)
           N == Appliance!NamedSpeeds
<1>1. \/ q = Appliance!Do("on", None) \/ q = Appliance!Do("off", None)
      \/ \E p \in Percents : q = Appliance!Do("percent", p)
      \/ \E m \in FanPresets : q = Appliance!Do("preset", m)
  BY DEF Appliance!Requests
<1>2. d = Appliance!FanDo(q)
  BY DEF Appliance!Decided
<1>3. CASE q = Appliance!Do("on", None) \/ q = Appliance!Do("off", None)
  <2>1. d = q
    BY <1>2, <1>3 DEF Appliance!FanDo, Appliance!Do
  <2>2. d \in Appliance!Commands("fan")
    BY <2>1, <1>3 DEF Appliance!Commands
  <2>3. Appliance!Answers(x1, q, q)
    BY <1>3, AnswersAre, WantsAre
  <2> QED BY <2>1, <2>2, <2>3
<1>4. ASSUME NEW p \in Percents, q = Appliance!Do("percent", p), p = 0
      PROVE  d \in Appliance!Commands("fan") /\ Appliance!Answers(x1, q, d)
  <2>1. d = Appliance!Do("off", None)
    BY <1>2, <1>4 DEF Appliance!FanDo, Appliance!Do
  <2>2. d \in Appliance!Commands("fan")
    BY <2>1 DEF Appliance!Commands
  <2>3. Appliance!Answers(x1, q, Appliance!Do("off", None))
    BY <1>4, AnswersAre, WantsAre
  <2> QED BY <2>1, <2>2, <2>3
<1>5. ASSUME NEW p \in Percents, q = Appliance!Do("percent", p), p # 0
      PROVE  d \in Appliance!Commands("fan") /\ Appliance!Answers(x1, q, d)
  <2>1. d = Appliance!Do("mode", Appliance!PercentageToItem(N, p))
    BY <1>2, <1>5 DEF Appliance!FanDo, Appliance!Do
  <2>2. Lists(N, FanSpeeds \cap Speeds) /\ Len(N) \in 1 .. 5
    BY NamedSpeedsList
  <2>3. PICK i \in 1 .. Len(N) : /\ Appliance!PercentageToItem(N, p) = N[i]
                                 /\ p <= (i * 100) \div Len(N)
    BY <2>2, PercentageToPlace, PercentsAssumption
  <2>4. N[i] \in Speeds
    BY <2>2, ElementOfSeq DEF Lists
  <2>5. d \in Appliance!Commands("fan")
    BY <2>1, <2>3, <2>4 DEF Appliance!Commands, Appliance!ModesOf
  <2>6. Appliance!ItemToPercentage(N, N[i]) >= p
    <3>1. Appliance!ItemToPercentage(N, N[i]) = (i * 100) \div Len(N)
      BY <2>2, PlaceToPercentage
    <3>2. (i * 100) \div Len(N) \in Int /\ p \in Int
      BY <2>2, PercentsAssumption
    <3> QED BY <2>3, <3>1, <3>2
  <2>7. Appliance!Answers(x1, q, Appliance!Do("mode", N[i]))
    BY <1>5, <2>6, AnswersAre, WantsAre
  <2> QED BY <2>1, <2>3, <2>5, <2>7
<1>6. ASSUME NEW m \in FanPresets, q = Appliance!Do("preset", m)
      PROVE  d \in Appliance!Commands("fan") /\ Appliance!Answers(x1, q, d)
  <2>1. d = Appliance!Do("mode", m)
    BY <1>2, <1>6 DEF Appliance!FanDo, Appliance!Do
  <2>2. d \in Appliance!Commands("fan")
    BY <2>1, FanAssumption DEF Appliance!Commands, Appliance!ModesOf
  <2>3. Appliance!Answers(x1, q, Appliance!Do("mode", m))
    BY <1>6, AnswersAre, WantsAre
  <2> QED BY <2>1, <2>2, <2>3
<1> QED
  BY <1>1, <1>3, <1>4, <1>5, <1>6

\* What is asked of a hood is one thing, and the command does it: a percentage gets the
\* nearest speed.
LEMMA HoodServed ==
  ASSUME x1 = "hood", "hood" \in Kinds, NEW q, <<q>> \in Appliance!Requests("hood")
  PROVE  LET d == Appliance!Decided(q) IN
         d \in Appliance!Commands("hood") /\ Appliance!Answers(x1, q, d)
<1> DEFINE d == Appliance!Decided(q)
           min == Levels["hood"].min
           max == Levels["hood"].max
           n == max - min
<1>1. \/ q = Appliance!Do("on", None) \/ q = Appliance!Do("off", None)
      \/ \E p \in Percents : q = Appliance!Do("percent", p)
  BY DEF Appliance!Requests
<1>2. d = Appliance!HoodDo(q)
  BY DEF Appliance!Decided
<1>3. min \in Int /\ max \in Int /\ n \in 1 .. 50
  BY LevelsAssumption
<1>4. ASSUME NEW l \in min .. max PROVE Appliance!Do("level", l) \in Appliance!Commands("hood")
  BY DEF Appliance!Commands
<1>5. CASE q = Appliance!Do("on", None)
  <2>1. d = Appliance!Do("level", min + 1)
    BY <1>2, <1>5 DEF Appliance!HoodDo, Appliance!Do
  <2>2. min + 1 \in min .. max /\ min + 1 # min
    BY <1>3
  <2>3. Appliance!Answers(x1, q, Appliance!Do("level", min + 1))
    BY <1>5, <2>2, AnswersAre, WantsAre
  <2> QED BY <2>1, <2>2, <2>3, <1>4
<1>6. CASE q = Appliance!Do("off", None)
  <2>1. d = Appliance!Do("level", min)
    BY <1>2, <1>6 DEF Appliance!HoodDo, Appliance!Do
  <2>2. min \in min .. max
    BY <1>3
  <2>3. Appliance!Answers(x1, q, Appliance!Do("level", min))
    BY <1>6, AnswersAre, WantsAre
  <2> QED BY <2>1, <2>2, <2>3, <1>4
<1>7. ASSUME NEW p \in Percents, q = Appliance!Do("percent", p), p = 0
      PROVE  d \in Appliance!Commands("hood") /\ Appliance!Answers(x1, q, d)
  <2>1. d = Appliance!Do("level", min)
    BY <1>2, <1>7 DEF Appliance!HoodDo, Appliance!HoodSpeed, Appliance!Do
  <2>2. min \in min .. max
    BY <1>3
  <2>3. Appliance!Answers(x1, q, Appliance!Do("level", min))
    BY <1>7, AnswersAre, WantsAre
  <2> QED BY <2>1, <2>2, <2>3, <1>4
<1>8. ASSUME NEW p \in Percents, q = Appliance!Do("percent", p), p # 0
      PROVE  d \in Appliance!Commands("hood") /\ Appliance!Answers(x1, q, d)
  <2> DEFINE v == Appliance!PercentageToSpeed(p)
             z == n * p + min * 100
  <2>1. d = Appliance!Do("level", v)
    BY <1>2, <1>8 DEF Appliance!HoodDo, Appliance!HoodSpeed, Appliance!Do
  <2>2. v = Appliance!Rounded(z, 100)
    BY DEF Appliance!PercentageToSpeed, Appliance!SpeedCount
  <2>3. p \in 0 .. 100
    BY PercentsAssumption
  <2>4. min + n = max
    BY <1>3
  <2>5. v \in min .. max
    <3> HIDE DEF n, v
    <3> QED BY <1>3, <2>2, <2>3, <2>4, SpeedInRange
  <2>6. z \in Int
    BY <1>3, <2>3
  <2>7. 2 * z - 100 <= 2 * (100 * v) /\ 2 * (100 * v) <= 2 * z + 100
    <3> HIDE DEF z, v
    <3> QED BY <2>2, <2>6, RoundedIsNear
  <2> DEFINE off == n * p - 100 * (v - min)
  <2>8. -50 <= off /\ off <= 50
    <3>1. n * p \in Int
      BY <1>3, <2>3
    <3> QED BY <2>5, <2>7, <3>1, <1>3
  <2>9. ASSUME NEW a, a.level = v PROVE Appliance!Wants(x1, q, a)
    BY <1>8, <2>8, <2>9 DEF Appliance!Wants, Appliance!Do, Appliance!SpeedCount
  <2>10. Appliance!Answers(x1, q, Appliance!Do("level", v))
    <3> HIDE DEF v
    <3> QED BY <2>9, AnswersAre
  <2> QED BY <2>1, <2>5, <2>10, <1>4
<1> QED
  BY <1>1, <1>5, <1>6, <1>7, <1>8

\* What is asked of a humidifier is one thing; if nothing is posted, it is so already.
LEMMA HumidifierServed ==
  ASSUME x1 = "humidifier", "humidifier" \in Kinds, x3 \in Appliance!States("humidifier"),
         NEW q, <<q>> \in Appliance!Requests("humidifier")
  PROVE  LET d == Appliance!Decided(q) IN
         \/ d = Appliance!Skip /\ Appliance!Wants(x1, q, x3)
         \/ d \in Appliance!Commands("humidifier") /\ Appliance!Answers(x1, q, d)
<1> DEFINE d == Appliance!Decided(q)
           K == "humidifier"
           Goal == \/ d = Appliance!Skip /\ Appliance!Wants(x1, q, x3)
                   \/ d \in Appliance!Commands(K) /\ Appliance!Answers(x1, q, d)
<1>1. \/ q = Appliance!Do("on", None) \/ q = Appliance!Do("off", None)
      \/ \E m \in {"auto", "sleep"} : q = Appliance!Do("mode", m)
      \/ \E h \in Levels[K].min .. Levels[K].max : q = Appliance!Do("humidity", h)
  BY DEF Appliance!Requests
<1>2. d = Appliance!HumidifierDo(q)
  BY DEF Appliance!Decided
<1>3. x3.on \in BOOLEAN
  BY StatesAre
<1>4. CASE q = Appliance!Do("on", None)
  <2>1. d = IF x3.on = TRUE THEN Appliance!Skip ELSE Appliance!Do("on", None)
    BY <1>2, <1>3, <1>4 DEF Appliance!HumidifierDo, Appliance!Do
  <2>2. CASE x3.on = TRUE
    BY <2>1, <2>2, <1>4, WantsAre
  <2>3. CASE x3.on = FALSE
    <3>1. d = Appliance!Do("on", None)
      BY <2>1, <2>3
    <3>2. d \in Appliance!Commands(K)
      BY <3>1 DEF Appliance!Commands
    <3>3. Appliance!Answers(x1, q, Appliance!Do("on", None))
      BY <1>4, AnswersAre, WantsAre
    <3> QED BY <3>1, <3>2, <3>3
  <2> QED BY <2>2, <2>3, <1>3
<1>5. CASE q = Appliance!Do("off", None)
  <2>1. d = IF x3.on = FALSE THEN Appliance!Skip ELSE Appliance!Do("off", None)
    BY <1>2, <1>3, <1>5 DEF Appliance!HumidifierDo, Appliance!Do
  <2>2. CASE x3.on = FALSE
    BY <2>1, <2>2, <1>5, WantsAre
  <2>3. CASE x3.on = TRUE
    <3>1. d = Appliance!Do("off", None)
      BY <2>1, <2>3
    <3>2. d \in Appliance!Commands(K)
      BY <3>1 DEF Appliance!Commands
    <3>3. Appliance!Answers(x1, q, Appliance!Do("off", None))
      BY <1>5, AnswersAre, WantsAre
    <3> QED BY <3>1, <3>2, <3>3
  <2> QED BY <2>2, <2>3, <1>3
<1>6. ASSUME NEW m \in {"auto", "sleep"}, q = Appliance!Do("mode", m) PROVE Goal
  <2>1. d = Appliance!Do("mode", m)
    BY <1>2, <1>6 DEF Appliance!HumidifierDo, Appliance!Do
  <2>2. d \in Appliance!Commands(K)
    BY <2>1 DEF Appliance!Commands, Appliance!ModesOf
  <2>3. Appliance!Answers(x1, q, Appliance!Do("mode", m))
    BY <1>6, AnswersAre, WantsAre
  <2> QED BY <2>1, <2>2, <2>3
<1>7. ASSUME NEW t \in Levels[K].min .. Levels[K].max, q = Appliance!Do("humidity", t)
      PROVE  Goal
  <2> DEFINE step == Levels[K].step
             v == Appliance!Rounded(t, step)
             h == v * step
  <2>1. d = IF h = x3.level THEN Appliance!Skip ELSE Appliance!Do("level", h)
    BY <1>2, <1>7 DEF Appliance!HumidifierDo, Appliance!Do, Appliance!ShownTarget
  <2>2. t \in Int /\ step \in Nat \ {0}
    BY LevelsAssumption
  <2>3. v \in Int /\ 2 * t - step <= 2 * (step * v) /\ 2 * (step * v) <= 2 * t + step
    <3> HIDE DEF step, v
    <3> QED BY <2>2, RoundedIsNear DEF v
  <2>4. 2 * h \in 2 * t - step .. 2 * t + step
    <3>1. h = step * v /\ h \in Int
      BY <2>2, <2>3
    <3> HIDE DEF h, step, v
    <3> QED BY <2>2, <2>3, <3>1
  <2>5. ASSUME NEW a, a.level = h PROVE Appliance!Wants(x1, q, a)
    <3> HIDE DEF h
    <3> QED BY <1>7, <2>4, <2>5 DEF Appliance!Wants, Appliance!Do
  <2>6. CASE h = x3.level
    BY <2>1, <2>5, <2>6
  <2>7. CASE h # x3.level
    <3>1. d = Appliance!Do("level", h)
      BY <2>1, <2>7
    <3>2. Appliance!Do("level", h) \in Appliance!Commands(K)
      BY DEF Appliance!Commands
    <3>3. Appliance!Answers(x1, q, Appliance!Do("level", h))
      <4> HIDE DEF h
      <4> QED BY <2>5, AnswersAre
    <3> QED BY <3>1, <3>2, <3>3
  <2> QED BY <2>6, <2>7
<1> QED
  BY <1>1, <1>4, <1>5, <1>6, <1>7

\* A temperature: if nothing is posted, it is so already.
LEMMA TemperatureServed ==
  ASSUME x1 \in {"heater", "boiler"}, x1 \in Kinds,
         NEW t \in Levels[x1].min .. Levels[x1].max
  PROVE  LET q == Appliance!Do("temperature", t)
             d == Appliance!Decided(q)
         IN  \/ d = Appliance!Skip /\ x3.level = t
             \/ d.op = "fail"
             \/ /\ d = Appliance!Do("level", t) /\ d \in Appliance!Commands(x1)
                /\ Appliance!Answers(x1, q, d)
<1> DEFINE q == Appliance!Do("temperature", t)
           d == Appliance!Decided(q)
<1>1. d = Appliance!HeaterDo(q)
  BY DEF Appliance!Decided
<1>2. t \in Int /\ t # None
  BY LevelsAssumption, NoneAssumption
<1>3. CASE t = Appliance!ShownTarget
  <2>1. d = Appliance!Skip
    BY <1>1, <1>3 DEF Appliance!HeaterDo, Appliance!Do
  <2>2. x3.level = t
    BY <1>2, <1>3 DEF Appliance!ShownTarget
  <2> QED BY <2>1, <2>2
<1>4. CASE t # Appliance!ShownTarget /\ ~x4
  BY <1>1, <1>4 DEF Appliance!HeaterDo, Appliance!Do
<1>5. CASE t # Appliance!ShownTarget /\ x4
  <2>1. d = Appliance!Do("level", t)
    BY <1>1, <1>5 DEF Appliance!HeaterDo, Appliance!Do
  <2>2. d \in Appliance!Commands(x1)
    BY <2>1 DEF Appliance!Commands
  <2>3. Appliance!Answers(x1, q, Appliance!Do("level", t))
    BY AnswersAre, WantsAre
  <2> QED BY <2>1, <2>2, <2>3
<1> QED
  BY <1>3, <1>4, <1>5

\* An operation mode is always posted; the mode of a boiler turns it on or off.
LEMMA ModeServed ==
  ASSUME x1 \in {"heater", "boiler"}, x1 \in Kinds,
         NEW m, x1 = "heater" => m \in {"heat_pump", "turbo", "off"}
  PROVE  LET q == Appliance!Do("mode", m)
             d == Appliance!Decided(q)
         IN  /\ d \in Appliance!Commands(x1) /\ Appliance!Answers(x1, q, d)
             /\ d.op \in {"mode", "on", "off"}
<1> DEFINE q == Appliance!Do("mode", m)
           d == Appliance!Decided(q)
<1>1. d = Appliance!HeaterDo(q)
  BY DEF Appliance!Decided
<1>2. CASE x1 = "heater"
  <2>1. d = q
    BY <1>1, <1>2 DEF Appliance!HeaterDo, Appliance!Do
  <2>2. q \in Appliance!Commands(x1)
    BY <1>2 DEF Appliance!Commands, Appliance!ModesOf
  <2>3. Appliance!Answers(x1, q, q)
    BY <1>2, AnswersAre, WantsAre
  <2>4. q.op = "mode"
    BY DEF Appliance!Do
  <2> QED BY <2>1, <2>2, <2>3, <2>4
<1>3. CASE x1 = "boiler"
  <2>1. d = Appliance!Do(IF m = "off" THEN "off" ELSE "on", None)
    BY <1>1, <1>3 DEF Appliance!HeaterDo, Appliance!Do
  <2>2. CASE m = "off"
    <3>1. d = Appliance!Do("off", None)
      BY <2>1, <2>2
    <3>2. d \in Appliance!Commands(x1) /\ d.op = "off"
      BY <3>1, <1>3 DEF Appliance!Commands, Appliance!Do
    <3>3. Appliance!Answers(x1, q, Appliance!Do("off", None))
      BY <1>3, <2>2, AnswersAre, WantsAre
    <3> QED BY <3>1, <3>2, <3>3
  <2>3. CASE m # "off"
    <3>1. d = Appliance!Do("on", None)
      BY <2>1, <2>3
    <3>2. d \in Appliance!Commands(x1) /\ d.op = "on"
      BY <3>1, <1>3 DEF Appliance!Commands, Appliance!Do
    <3>3. Appliance!Answers(x1, q, Appliance!Do("on", None))
      BY <1>3, <2>3, AnswersAre, WantsAre
    <3> QED BY <3>1, <3>2, <3>3
  <2> QED BY <2>2, <2>3
<1> QED
  BY <1>2, <1>3

\* A boiler is turned on and off.
LEMMA BoilerServed ==
  ASSUME x1 = "boiler", x1 \in Kinds, NEW o \in {"on", "off"}
  PROVE  LET q == Appliance!Do(o, None)
             d == Appliance!Decided(q)
         IN  d \in Appliance!Commands(x1) /\ Appliance!Answers(x1, q, d)
<1> DEFINE q == Appliance!Do(o, None)
           d == Appliance!Decided(q)
<1>1. d = q
  BY DEF Appliance!Decided, Appliance!HeaterDo, Appliance!Do
<1>2. q \in Appliance!Commands(x1)
  BY DEF Appliance!Commands
<1>3. Appliance!Answers(x1, q, q)
  BY AnswersAre, WantsAre
<1> QED
  BY <1>1, <1>2, <1>3

\* A robot gets the command its state needs.
LEMMA VacuumServed ==
  ASSUME x1 = "vacuum", x1 \in Kinds, NEW o \in {"start", "pause", "home"}
  PROVE  LET q == Appliance!Do(o, None)
             d == Appliance!Decided(q)
         IN  d \in Appliance!Commands(x1) /\ Appliance!Answers(x1, q, d)
<1> DEFINE q == Appliance!Do(o, None)
           d == Appliance!Decided(q)
           R == Appliance!RobotAfter
<1>1. d = Appliance!VacuumDo(q)
  BY DEF Appliance!Decided
<1>2. /\ R["wake_up"] = "standby" /\ R["resume"] = "working" /\ R["start"] = "working"
      /\ R["pause"] = "pause" /\ R["homing"] = "homing"
      /\ DOMAIN R = {"wake_up", "resume", "start", "pause", "homing"}
  BY DEF Appliance!RobotAfter
<1>3. \E x : /\ d = Appliance!Do("robot", x) /\ x \in DOMAIN R
             /\ o = "start" => x \in {"wake_up", "resume", "start"}
             /\ o = "pause" => x = "pause"
             /\ o = "home" => x = "homing"
  BY <1>1, <1>2 DEF Appliance!VacuumDo, Appliance!Do
<1>4. PICK x : /\ d = Appliance!Do("robot", x) /\ x \in DOMAIN R
               /\ o = "start" => x \in {"wake_up", "resume", "start"}
               /\ o = "pause" => x = "pause"
               /\ o = "home" => x = "homing"
  BY <1>3
<1>5. Appliance!Do("robot", x) \in Appliance!Commands(x1)
  BY <1>4 DEF Appliance!Commands
<1>6. ASSUME NEW b, b.mode = R[x] PROVE Appliance!Wants(x1, q, b)
  <2> HIDE DEF R
  <2>1. CASE o = "start"
    <3>1. R[x] \notin {"sleep", "pause"}
      BY <1>2, <1>4, <2>1
    <3> QED BY <3>1, <1>6, <2>1, WantsAre
  <2>2. CASE o = "pause"
    BY <1>2, <1>4, <1>6, <2>2, WantsAre
  <2>3. CASE o = "home"
    BY <1>2, <1>4, <1>6, <2>3, WantsAre
  <2> QED BY <2>1, <2>2, <2>3
<1>7. Appliance!Answers(x1, q, Appliance!Do("robot", x))
  BY <1>6, AnswersAre
<1> QED
  BY <1>4, <1>5, <1>7

\* What a request asks for: one thing, or an operation mode and then a temperature.
OneThing(r) == Len(r) = 1 /\ r = <<r[1]>>
ModeThenTemperature(r) ==
  /\ x1 \in {"heater", "boiler"}
  /\ \E m \in {"heat_pump", "turbo"}, t \in Levels[x1].min .. Levels[x1].max :
       /\ x1 = "boiler" => m = "heat_pump"
       /\ r = <<Appliance!Do("mode", m), Appliance!Do("temperature", t)>>

\* Each request the entities get asks for one of these.
LEMMA RequestsAre ==
  ASSUME x1 \in Kinds, NEW r \in Appliance!Requests(x1)
  PROVE  OneThing(r) \/ ModeThenTemperature(r)
<1> USE DEF OneThing
<1>1. CASE x1 \in {"fan", "hood", "humidifier", "vacuum"}
  BY <1>1 DEF Appliance!Requests
<1>2. CASE x1 = "heater"
  <2> DEFINE M == {"heat_pump", "turbo"}
             T == Levels[x1].min .. Levels[x1].max
  <2>1. \/ \E t \in T : r = <<Appliance!Do("temperature", t)>>
        \/ \E m \in M \cup {"off"} : r = <<Appliance!Do("mode", m)>>
        \/ \E m \in M, t \in T : r = <<Appliance!Do("mode", m), Appliance!Do("temperature", t)>>
    BY <1>2 DEF Appliance!Requests, Appliance!Temperatures
  <2> HIDE DEF T
  <2>2. CASE \E t \in T : r = <<Appliance!Do("temperature", t)>>
    BY <2>2
  <2>3. CASE \E m \in M \cup {"off"} : r = <<Appliance!Do("mode", m)>>
    BY <2>3
  <2>4. CASE \E m \in M, t \in T : r = <<Appliance!Do("mode", m), Appliance!Do("temperature", t)>>
    BY <2>4, <1>2 DEF ModeThenTemperature, T
  <2> QED BY <2>1, <2>2, <2>3, <2>4
<1>3. CASE x1 = "boiler"
  <2> DEFINE M == {"heat_pump"}
             T == Levels[x1].min .. Levels[x1].max
  <2>1. \/ \E t \in T : r = <<Appliance!Do("temperature", t)>>
        \/ \E m \in M \cup {"off"} : r = <<Appliance!Do("mode", m)>>
        \/ \E m \in M, t \in T : r = <<Appliance!Do("mode", m), Appliance!Do("temperature", t)>>
        \/ \E o \in {"on", "off"} : r = <<Appliance!Do(o, None)>>
    BY <1>3 DEF Appliance!Requests, Appliance!Temperatures
  <2> HIDE DEF T
  <2>2. CASE \E t \in T : r = <<Appliance!Do("temperature", t)>>
    BY <2>2
  <2>3. CASE \E m \in M \cup {"off"} : r = <<Appliance!Do("mode", m)>>
    BY <2>3
  <2>4. CASE \E m \in M, t \in T : r = <<Appliance!Do("mode", m), Appliance!Do("temperature", t)>>
    BY <2>4, <1>3 DEF ModeThenTemperature, T
  <2>5. CASE \E o \in {"on", "off"} : r = <<Appliance!Do(o, None)>>
    BY <2>5
  <2> QED BY <2>1, <2>2, <2>3, <2>4, <2>5
<1> QED
  BY <1>1, <1>2, <1>3, KindsAssumption

\* What a single request gets: nothing, for it is so already, an error, or the command
\* that does it.
Answered(q) ==
  LET d == Appliance!Decided(q) IN
  \/ d = Appliance!Skip /\ Appliance!Wants(x1, q, x3)
  \/ d.op = "fail"
  \/ d \in Appliance!Commands(x1) /\ Appliance!Answers(x1, q, d)

\* A request for one thing gets it, by one command or because it is so already.
LEMMA AloneServed ==
  ASSUME x1 \in Kinds, x3 \in Appliance!States(x1), NEW q, <<q>> \in Appliance!Requests(x1)
  PROVE  Answered(q)
<1>1. CASE x1 = "fan"
  BY <1>1, FanServed DEF Answered
<1>2. CASE x1 = "hood"
  BY <1>2, HoodServed DEF Answered
<1>3. CASE x1 = "humidifier"
  BY <1>3, HumidifierServed DEF Answered
<1>4. CASE x1 = "vacuum"
  <2>1. \E o \in {"start", "pause", "home"} : q = Appliance!Do(o, None)
    BY <1>4 DEF Appliance!Requests
  <2> QED BY <1>4, <2>1, VacuumServed DEF Answered
<1>5. CASE x1 \in {"heater", "boiler"}
  <2>1. \/ \E t \in Levels[x1].min .. Levels[x1].max : q = Appliance!Do("temperature", t)
        \/ \E m \in {"heat_pump", "turbo", "off"} : q = Appliance!Do("mode", m)
        \/ x1 = "boiler" /\ \E o \in {"on", "off"} : q = Appliance!Do(o, None)
    BY <1>5 DEF Appliance!Requests, Appliance!Temperatures
  <2>2. ASSUME NEW t \in Levels[x1].min .. Levels[x1].max, q = Appliance!Do("temperature", t)
        PROVE  Answered(q)
    BY <2>2, <1>5, TemperatureServed, WantsAre DEF Answered
  <2>3. ASSUME NEW m \in {"heat_pump", "turbo", "off"}, q = Appliance!Do("mode", m)
        PROVE  Answered(q)
    BY <2>3, <1>5, ModeServed DEF Answered
  <2>4. ASSUME x1 = "boiler", NEW o \in {"on", "off"}, q = Appliance!Do(o, None)
        PROVE  Answered(q)
    BY <2>4, BoilerServed DEF Answered
  <2> QED BY <2>1, <2>2, <2>3, <2>4
<1> QED
  BY <1>1, <1>2, <1>3, <1>4, <1>5, KindsAssumption

\* A command is none of these.
LEMMA CommandsAre ==
  ASSUME x1 \in Kinds, NEW d \in Appliance!Commands(x1)
  PROVE  d # Appliance!Skip /\ d.op # "fail"
<1>1. \E op \in {"on", "off", "level", "mode", "robot"} : \E arg : d = Appliance!Do(op, arg)
  BY KindsAssumption DEF Appliance!Commands
<1> QED
  BY <1>1 DEF Appliance!Skip, Appliance!Do

\* The call of the latest request.
Serving(q, asked) ==
  LET d == Appliance!Decided(q) IN
  IF d = Appliance!Skip \/ d.op = "fail" THEN Appliance!Idle
  ELSE [todo |-> <<>>, do |-> d, asked |-> asked]

\* The call of a request for one thing posts one command at most.
LEMMA GoesAlone ==
  ASSUME NEW u \in Calls, NEW q, NEW asked, Appliance!Goes(u, <<q>>, asked)
  PROVE  /\ x5' = [x5 EXCEPT ![u] = Serving(q, asked)]
         /\ Appliance!Decided(q) # Appliance!Skip /\ Appliance!Decided(q).op = "fail"
              => Appliance!Raises(<<q>>)
<1> DEFINE d == Appliance!Decided(q)
           W == Appliance!Wanted(<<q>>)
<1>1. W = IF d # Appliance!Skip THEN {1} ELSE {}
  BY DEF Appliance!Wanted
<1>2. CASE d = Appliance!Skip
  <2>1. W = {}
    BY <1>1, <1>2
  <2> QED BY <2>1, <1>2 DEF Appliance!Goes, Serving
<1>3. CASE d # Appliance!Skip
  <2>1. W = {1}
    BY <1>1, <1>3
  <2>2. Appliance!First(<<q>>) = 1
    <3> HIDE DEF W
    <3> QED BY <2>1 DEF Appliance!First, W
  <2>3. <<q>>[1] = q /\ SubSeq(<<q>>, 2, Len(<<q>>)) = <<>> /\ 1 + 1 = 2
    OBVIOUS
  <2>4. Appliance!Raises(<<q>>) <=> d.op = "fail"
    <3> HIDE DEF d
    <3> QED BY <2>1, <2>2, <2>3 DEF Appliance!Raises, d
  <2>5. x5' = [x5 EXCEPT ![u] = IF d.op = "fail" THEN Appliance!Idle
                                 ELSE [todo |-> <<>>, do |-> d, asked |-> asked]]
    <3>1. W # {}
      BY <2>1
    <3> HIDE DEF d, W
    <3> QED BY <3>1, <2>2, <2>3, <2>4 DEF Appliance!Goes, d, W
  <2> QED BY <2>4, <2>5, <1>3 DEF Serving
<1> QED
  BY <1>2, <1>3

\* The call of a mode and a temperature posts the mode first.
LEMMA GoesMode ==
  ASSUME NEW u \in Calls, NEW q, NEW t, NEW asked, Appliance!Goes(u, <<q, t>>, asked),
         Appliance!Decided(q) # Appliance!Skip, Appliance!Decided(q).op # "fail"
  PROVE  x5' = [x5 EXCEPT ![u] = [todo |-> <<t>>, do |-> Appliance!Decided(q), asked |-> asked]]
<1> DEFINE d == Appliance!Decided(q)
           s == <<q, t>>
           W == Appliance!Wanted(s)
<1>1. W \subseteq 1 .. 2 /\ 1 \in W
  BY DEF Appliance!Wanted
<1>2. Appliance!First(s) = 1
  <2>1. \A j \in W : 1 <= j
    BY <1>1
  <2>2. \A i \in W : (\A j \in W : i <= j) => i = 1
    BY <1>1
  <2> HIDE DEF W
  <2> QED BY <1>1, <2>1, <2>2 DEF Appliance!First, W
<1>3. s[1] = q /\ SubSeq(s, 2, Len(s)) = <<t>> /\ 1 + 1 = 2
  <2> DEFINE b == SubSeq(s, 2, 2)
  <2>1. s[1] = q /\ s[2] = t /\ Len(s) = 2
    OBVIOUS
  <2>2. \A i \in 2 .. 2 : s[i] \in {t}
    BY <2>1
  <2>3. /\ b \in Seq({t}) /\ Len(b) = IF 2 <= 2 THEN 2 - 2 + 1 ELSE 0
        /\ \A i \in 1 .. 2 - 2 + 1 : b[i] = s[2 + i - 1]
    <3> HIDE DEF s
    <3> QED BY <2>2, SubSeqProperties
  <2> HIDE DEF b, s
  <2>4. Len(b) = 1 /\ b[1] = t
    BY <2>1, <2>3
  <2>5. b = <<t>>
    BY <2>3, <2>4
  <2> QED BY <2>1, <2>5 DEF b
<1>4. W # {} /\ ~Appliance!Raises(s)
  <2> HIDE DEF s
  <2> QED BY <1>1, <1>2, <1>3 DEF Appliance!Raises
<1> HIDE DEF s, W
<1> QED
  BY <1>2, <1>3, <1>4 DEF Appliance!Goes, s, W

\* A call with no step to take posts nothing.
LEMMA GoesNowhere ==
  ASSUME NEW u \in Calls, NEW asked, Appliance!Goes(u, <<>>, asked)
  PROVE  x5' = [x5 EXCEPT ![u] = Appliance!Idle]
<1>1. Appliance!Wanted(<<>>) = {}
  BY DEF Appliance!Wanted
<1> QED
  BY <1>1 DEF Appliance!Goes

\* An appliance that obeys what it accepts is one of its kind.
LEMMA ObeyedTyped ==
  ASSUME x1 \in Kinds, NEW a \in Appliance!States(x1), NEW d \in Appliance!Commands(x1),
         Appliance!Accepts(d)
  PROVE  Appliance!Obeyed(a, d) \in Appliance!States(x1)
<1> DEFINE On == IF x1 \in {"hood", "vacuum"} THEN {TRUE} ELSE BOOLEAN
           b == Appliance!Obeyed(a, d)
<1>1. a.on \in On /\ a.mode \in Appliance!ModesOf(x1) /\ a.level \in Appliance!LevelsOf(x1)
  BY DEF Appliance!States
<1>2. ASSUME NEW on \in On, NEW m \in Appliance!ModesOf(x1), NEW l \in Appliance!LevelsOf(x1)
      PROVE  [on |-> on, mode |-> m, level |-> l] \in Appliance!States(x1)
  BY DEF Appliance!States
<1>3. PICK op, x :
        /\ op \in {"on", "off", "level", "mode", "robot"}
        /\ d = Appliance!Do(op, x)
        /\ op \in {"on", "off"} => x1 \notin {"hood", "vacuum"}
        /\ op = "level" => x1 \in {"hood", "humidifier", "heater", "boiler"}
        /\ op = "level" /\ x1 # "humidifier" => x \in Levels[x1].min .. Levels[x1].max
        /\ op = "level" /\ x1 = "humidifier" => x \in Int
        /\ op = "robot" => x1 = "vacuum" /\ x \in DOMAIN Appliance!RobotAfter
  <2>1. CASE x1 = "fan"
    BY <2>1 DEF Appliance!Commands
  <2>2. CASE x1 = "hood"
    BY <2>2 DEF Appliance!Commands
  <2>3. CASE x1 = "humidifier"
    <3>1. \A t \in Levels[x1].min .. Levels[x1].max :
            Appliance!Rounded(t, Levels[x1].step) * Levels[x1].step \in Int
      <4> DEFINE step == Levels[x1].step
      <4> TAKE t \in Levels[x1].min .. Levels[x1].max
      <4>1. t \in Int /\ step \in Nat \ {0}
        BY <2>3, LevelsAssumption
      <4> HIDE DEF step
      <4>2. Appliance!Rounded(t, step) \in Int
        BY <4>1, RoundedIsNear
      <4>3. Appliance!Rounded(t, step) * step \in Int
        BY <4>1, <4>2
      <4> QED BY <4>3 DEF step
    <3> QED BY <2>3, <3>1 DEF Appliance!Commands
  <2>4. CASE x1 = "heater"
    BY <2>4 DEF Appliance!Commands
  <2>5. CASE x1 = "boiler"
    BY <2>5 DEF Appliance!Commands
  <2>6. CASE x1 = "vacuum"
    BY <2>6 DEF Appliance!Commands
  <2> QED BY <2>1, <2>2, <2>3, <2>4, <2>5, <2>6, KindsAssumption
<1>4. CASE op = "on"
  <2>1. b = [on |-> TRUE, mode |-> a.mode, level |-> a.level]
    BY <1>3, <1>4, ObeyedIs
  <2>2. TRUE \in On
    OBVIOUS
  <2> HIDE DEF On
  <2> QED BY <2>1, <2>2, <1>1, <1>2
<1>5. CASE op = "off"
  <2>1. b = [on |-> FALSE, mode |-> a.mode, level |-> a.level]
    BY <1>3, <1>5, ObeyedIs
  <2>2. FALSE \in On
    BY <1>3, <1>5
  <2> HIDE DEF On
  <2> QED BY <2>1, <2>2, <1>1, <1>2
<1>6. CASE op = "level"
  <2>1. b = [on |-> a.on, mode |-> a.mode, level |-> x]
    BY <1>3, <1>6, ObeyedIs
  <2>2. Appliance!InProfile(x1, x)
    BY <1>3, <1>6 DEF Appliance!Accepts, Appliance!Do
  <2>3. x \in Appliance!LevelsOf(x1)
    BY <1>3, <1>6, <2>2, LevelsAssumption DEF Appliance!LevelsOf, Appliance!InProfile
  <2> HIDE DEF On
  <2> QED BY <2>1, <2>3, <1>1, <1>2
<1>7. CASE op = "mode"
  <2>1. b = [on |-> a.on, mode |-> x, level |-> a.level]
    BY <1>3, <1>7, ObeyedIs
  <2>2. x \in Appliance!ModesOf(x1)
    BY <1>3, <1>7 DEF Appliance!Accepts, Appliance!Do
  <2> HIDE DEF On
  <2> QED BY <2>1, <2>2, <1>1, <1>2
<1>8. CASE op = "robot"
  <2>1. b = [on |-> a.on, mode |-> Appliance!RobotAfter[x], level |-> a.level]
    BY <1>3, <1>8, ObeyedIs
  <2>2. Appliance!RobotAfter[x] \in Appliance!ModesOf(x1)
    BY <1>3, <1>8 DEF Appliance!RobotAfter, Appliance!ModesOf
  <2> HIDE DEF On
  <2> QED BY <2>1, <2>2, <1>1, <1>2
<1> QED
  BY <1>3, <1>4, <1>5, <1>6, <1>7, <1>8

\* A call that has just got its first command.
LEMMA NewCall ==
  ASSUME x1 \in Kinds, x3 \in Appliance!States(x1), NEW u \in Calls,
         NEW r \in Appliance!Requests(x1), Appliance!Goes(u, r, r)
  PROVE  \E c : /\ x5' = [x5 EXCEPT ![u] = c]
                /\ c = Appliance!Idle \/ Appliance!UnderWay(x1, c)
                /\ \A a : c = Appliance!Idle \/ Appliance!Following(x1, c, a, a)
<1>1. CASE OneThing(r)
  <2> DEFINE q == r[1]
             d == Appliance!Decided(q)
             c == Serving(q, r)
  <2>1. r = <<q>> /\ Len(r) = 1
    BY <1>1 DEF OneThing
  <2>2. x5' = [x5 EXCEPT ![u] = c]
    <3> HIDE DEF c, q
    <3> QED BY <2>1, GoesAlone DEF c
  <2>3. Answered(q)
    <3> HIDE DEF q
    <3> QED BY <2>1, AloneServed
  <2>4. c = Appliance!Idle \/ /\ c = [todo |-> <<>>, do |-> d, asked |-> r]
                              /\ d \in Appliance!Commands(x1) /\ Appliance!Answers(x1, q, d)
    <3> HIDE DEF q
    <3> QED BY <2>3 DEF Serving, Answered
  <2> HIDE DEF c, d
  <2>5. ASSUME c # Appliance!Idle PROVE c.todo = <<>> /\ c.do = d /\ c.asked = r
    BY <2>4, <2>5
  <2>6. c = Appliance!Idle \/ Appliance!UnderWay(x1, c)
    BY <2>1, <2>4, <2>5 DEF Appliance!UnderWay
  <2>7. \A a : c = Appliance!Idle \/ Appliance!Following(x1, c, a, a)
    BY <2>1, <2>4, <2>5 DEF Appliance!Following
  <2> QED BY <2>2, <2>6, <2>7
<1>2. CASE ModeThenTemperature(r)
  <2>1. PICK m \in {"heat_pump", "turbo"}, t \in Levels[x1].min .. Levels[x1].max :
          r = <<Appliance!Do("mode", m), Appliance!Do("temperature", t)>>
    BY <1>2 DEF ModeThenTemperature
  <2> DEFINE q == Appliance!Do("mode", m)
             p == Appliance!Do("temperature", t)
             d == Appliance!Decided(q)
             c == [todo |-> <<p>>, do |-> d, asked |-> r]
  <2>2. /\ d \in Appliance!Commands(x1) /\ Appliance!Answers(x1, q, d)
        /\ d.op \in {"mode", "on", "off"}
    BY <1>2, ModeServed DEF ModeThenTemperature
  <2>3. d # Appliance!Skip /\ d.op # "fail"
    BY <2>2, CommandsAre
  <2>4. x5' = [x5 EXCEPT ![u] = c]
    <3> HIDE DEF p, q
    <3> QED BY <2>1, <2>3, GoesMode DEF p, q
  <2>5. c.todo = <<p>> /\ c.do = d /\ c.asked = r /\ Len(r) = 2 /\ r[1] = q /\ r[2] = p
    BY <2>1
  <2>6. <<p>> # <<>>
    OBVIOUS
  <2> HIDE DEF c, d, p, q
  <2>7. Appliance!UnderWay(x1, c)
    BY <2>2, <2>5 DEF Appliance!UnderWay
  <2>8. \A a : Appliance!Following(x1, c, a, a)
    BY <2>2, <2>5, <2>6 DEF Appliance!Following
  <2> QED BY <2>4, <2>7, <2>8
<1> QED
  BY <1>1, <1>2, RequestsAre

\* A call whose command was obeyed: it ends, or goes on to the temperature.
LEMMA CallGoesOn ==
  ASSUME x1 \in Kinds, x2 \in Appliance!States(x1), x3 \in Appliance!States(x1),
         NEW u \in Calls, NEW c, Appliance!UnderWay(x1, c), Appliance!Goes(u, c.todo, c.asked),
         Appliance!Accepts(c.do)
  PROVE  \E e : /\ x5' = [x5 EXCEPT ![u] = e]
                /\ \/ e = Appliance!Idle
                   \/ /\ Appliance!UnderWay(x1, e)
                      /\ \A s : Appliance!Following(x1, c, x2, x3)
                           => Appliance!Following(x1, e, Appliance!Obeyed(x2, c.do), s)
<1> DEFINE after == Appliance!Obeyed(x2, c.do)
<1>1. /\ c.asked \in Appliance!Requests(x1) /\ c.do \in Appliance!Commands(x1)
      /\ \/ c.todo = <<>>
         \/ Len(c.asked) = 2 /\ c.todo = <<c.asked[2]>> /\ c.do.op # "level"
  BY DEF Appliance!UnderWay
<1>2. CASE c.todo = <<>>
  BY <1>2, GoesNowhere
<1>3. CASE Len(c.asked) = 2 /\ c.todo = <<c.asked[2]>> /\ c.do.op # "level"
  <2>1. ModeThenTemperature(c.asked)
    BY <1>1, <1>3, RequestsAre DEF OneThing
  <2>2. PICK m \in {"heat_pump", "turbo"}, t \in Levels[x1].min .. Levels[x1].max :
          c.asked = <<Appliance!Do("mode", m), Appliance!Do("temperature", t)>>
    BY <2>1 DEF ModeThenTemperature
  <2> DEFINE p == Appliance!Do("temperature", t)
             d == Appliance!Decided(p)
             e == Serving(p, c.asked)
  <2>3. c.asked[2] = p /\ c.todo = <<p>> /\ c.todo # <<>>
    BY <1>3, <2>2
  <2>4. x5' = [x5 EXCEPT ![u] = e]
    <3> HIDE DEF p
    <3> QED BY <2>3, GoesAlone
  <2>5. \/ d = Appliance!Skip \/ d.op = "fail"
        \/ /\ d = Appliance!Do("level", t) /\ d \in Appliance!Commands(x1)
           /\ Appliance!Answers(x1, p, d)
    BY <2>1, TemperatureServed DEF ModeThenTemperature
  <2>6. \/ e = Appliance!Idle
        \/ /\ e = [todo |-> <<>>, do |-> d, asked |-> c.asked] /\ d = Appliance!Do("level", t)
           /\ d \in Appliance!Commands(x1) /\ Appliance!Answers(x1, p, d)
    <3> HIDE DEF p
    <3> QED BY <2>5 DEF Serving
  <2>7. ASSUME e # Appliance!Idle
        PROVE  /\ Appliance!UnderWay(x1, e)
               /\ \A s : Appliance!Following(x1, c, x2, x3)
                    => Appliance!Following(x1, e, after, s)
    <3> HIDE DEF e, p
    <3>1. e.todo = <<>> /\ e.do = d /\ e.asked = c.asked
      BY <2>6, <2>7
    <3>2. d.op = "level"
      BY <2>6, <2>7 DEF Appliance!Do
    <3> HIDE DEF d
    <3>3. Appliance!UnderWay(x1, e)
      BY <3>1, <3>2, <1>1, <1>3, <2>6, <2>7 DEF Appliance!UnderWay
    <3>4. Appliance!Following(x1, c, x2, x3) => Appliance!Wants(x1, c.asked[1], after)
      BY <1>3, <2>3 DEF Appliance!Following, Appliance!Answers
    <3>5. Appliance!Answers(x1, c.asked[2], d)
      BY <2>3, <2>6, <2>7
    <3> QED BY <3>1, <3>3, <3>4, <3>5, <1>3 DEF Appliance!Following
  <2> HIDE DEF e
  <2> QED BY <2>4, <2>7
<1> QED
  BY <1>1, <1>2, <1>3

\* The appliance, its last report and its calls, as one step leaves them.
LEMMA AskStep ==
  ASSUME Appliance!AppliancesInv, NEW u \in Calls, Appliance!Ask(u)
  PROVE  Appliance!AppliancesInv'
<1> USE DEF Appliance!AppliancesInv
<1>1. /\ x1' = x1 /\ x2' = x2 /\ x3' = x3 /\ x4' = x4
      /\ x6' \subseteq Calls /\ (x6' # {} => x3 = x2 /\ x6' = {u})
  BY DEF Appliance!Ask
<1>2. PICK r \in Appliance!Requests(x1) : Appliance!Goes(u, r, r)
  BY DEF Appliance!Ask
<1>3. PICK c : /\ x5' = [x5 EXCEPT ![u] = c]
               /\ c = Appliance!Idle \/ Appliance!UnderWay(x1, c)
               /\ \A a : c = Appliance!Idle \/ Appliance!Following(x1, c, a, a)
  BY <1>2, NewCall DEF Appliance!TypeOK
<1>4. Appliance!TypeOK'
  BY <1>1 DEF Appliance!TypeOK
<1>5. Appliance!CallsInv'
  BY <1>1, <1>3 DEF Appliance!CallsInv
<1>6. Appliance!SyncedInv'
  BY <1>1, <1>3 DEF Appliance!SyncedInv, Appliance!CallsInv
<1> QED
  BY <1>4, <1>5, <1>6

\* The appliance obeys, or refuses, the command of one call.
LEMMA ObeysStep ==
  ASSUME Appliance!AppliancesInv, NEW u \in Calls, Appliance!Obeys(u)
  PROVE  Appliance!AppliancesInv'
<1> USE DEF Appliance!AppliancesInv
<1> DEFINE c == x5[u]
           after == Appliance!Obeyed(x2, c.do)
<1>1. /\ x1' = x1 /\ x2' = after /\ x3' = x3 /\ x4' = x4
      /\ x6' \subseteq x6 \cap {u} /\ x6' \subseteq Calls
  BY DEF Appliance!Obeys, Appliance!TypeOK
<1>2. /\ c # Appliance!Idle /\ Appliance!UnderWay(x1, c) /\ Appliance!Accepts(c.do)
      /\ Appliance!Goes(u, c.todo, c.asked)
  BY DEF Appliance!Obeys, Appliance!CallsInv
<1>3. PICK e : /\ x5' = [x5 EXCEPT ![u] = e]
               /\ \/ e = Appliance!Idle
                  \/ /\ Appliance!UnderWay(x1, e)
                     /\ \A s : Appliance!Following(x1, c, x2, x3)
                          => Appliance!Following(x1, e, after, s)
  <2> HIDE DEF c
  <2> QED BY <1>2, CallGoesOn DEF Appliance!TypeOK
<1>4. Appliance!TypeOK'
  <2>1. after \in Appliance!States(x1)
    <3> HIDE DEF c
    <3> QED BY <1>2, ObeyedTyped DEF Appliance!TypeOK, Appliance!UnderWay
  <2> QED BY <1>1, <2>1 DEF Appliance!TypeOK
<1>5. Appliance!CallsInv'
  BY <1>1, <1>3 DEF Appliance!CallsInv
<1>6. Appliance!SyncedInv'
  <2>1. u \in x6 => Appliance!Following(x1, c, x2, x3)
    BY <1>2 DEF Appliance!SyncedInv
  <2>2. u \in DOMAIN x5
    BY DEF Appliance!CallsInv
  <2> HIDE DEF after, c
  <2> QED BY <1>1, <1>3, <2>1, <2>2 DEF Appliance!SyncedInv
<1> QED
  BY <1>4, <1>5, <1>6

\* The other steps: a report, another hand, the end of a call.
LEMMA OtherApplianceStep ==
  ASSUME Appliance!AppliancesInv,
         \/ Appliance!Report \/ Appliance!Touched
         \/ (\E u \in Calls : Appliance!Refused(u))
         \/ UNCHANGED <<x1, x2, x3, x4, x5, x6>>
  PROVE  Appliance!AppliancesInv'
<1> USE DEF Appliance!AppliancesInv
<1>1. CASE Appliance!Report
  <2>1. /\ x1' = x1 /\ x2' = x2 /\ x3' = x2 /\ x4' \in BOOLEAN /\ x5' = x5 /\ x6' = x6
    <3>1. x4 \in BOOLEAN
      BY DEF Appliance!TypeOK
    <3>2. x2.on \in BOOLEAN
      BY StatesAre DEF Appliance!TypeOK
    <3>3. x4' = (x4 \/ x2.on)
      BY <1>1 DEF Appliance!Report
    <3>4. x4' \in BOOLEAN
      BY <3>3
    <3> QED BY <1>1, <3>4 DEF Appliance!Report
  <2>2. Appliance!TypeOK'
    BY <2>1 DEF Appliance!TypeOK
  <2>3. Appliance!CallsInv'
    BY <2>1 DEF Appliance!CallsInv
  <2>4. ASSUME NEW c, Appliance!Following(x1, c, x2, x3)
        PROVE  Appliance!Following(x1, c, x2, x2)
    BY <2>4 DEF Appliance!Following
  <2>5. Appliance!SyncedInv'
    BY <2>1, <2>4 DEF Appliance!SyncedInv
  <2> QED BY <2>2, <2>3, <2>5
<1>2. CASE Appliance!Touched
  <2>1. /\ x1' = x1 /\ x2' \in Appliance!States(x1) /\ x3' = x3 /\ x4' = x4 /\ x5' = x5
        /\ x6' = {}
    BY <1>2 DEF Appliance!Touched
  <2>2. Appliance!TypeOK'
    BY <2>1 DEF Appliance!TypeOK
  <2>3. Appliance!CallsInv'
    BY <2>1 DEF Appliance!CallsInv
  <2>4. Appliance!SyncedInv'
    BY <2>1 DEF Appliance!SyncedInv
  <2> QED BY <2>2, <2>3, <2>4
<1>3. ASSUME NEW u \in Calls, Appliance!Refused(u) PROVE Appliance!AppliancesInv'
  <2>1. /\ x1' = x1 /\ x2' = x2 /\ x3' = x3 /\ x4' = x4 /\ x6' = x6 \ {u}
        /\ x5' = [x5 EXCEPT ![u] = Appliance!Idle]
    BY <1>3 DEF Appliance!Refused
  <2>2. Appliance!TypeOK'
    BY <2>1 DEF Appliance!TypeOK
  <2>3. Appliance!CallsInv'
    BY <2>1 DEF Appliance!CallsInv
  <2>4. Appliance!SyncedInv'
    BY <2>1 DEF Appliance!SyncedInv, Appliance!CallsInv
  <2> QED BY <2>2, <2>3, <2>4
<1>4. CASE UNCHANGED <<x1, x2, x3, x4, x5, x6>>
  BY <1>4 DEF Appliance!TypeOK, Appliance!CallsInv, Appliance!SyncedInv
<1> QED
  BY <1>1, <1>2, <1>3, <1>4

\* Once obeyed to the end, all that was asked for is so.
LEMMA DoneOnceObeyed ==
  ASSUME Appliance!AppliancesInv PROVE Appliance!AskedIsDoneOnceObeyed
<1> SUFFICES ASSUME NEW u \in x6 \cap x6', Appliance!Obeys(u), x5'[u] = Appliance!Idle
             PROVE  \A i \in 1 .. Len(x5[u].asked) : Appliance!Wants(x1, x5[u].asked[i], x2')
  BY DEF Appliance!AskedIsDoneOnceObeyed
<1> USE DEF Appliance!AppliancesInv
<1> DEFINE c == x5[u]
           after == Appliance!Obeyed(x2, c.do)
<1>0. u \in Calls
  BY DEF Appliance!TypeOK
<1>1. /\ c # Appliance!Idle /\ Appliance!UnderWay(x1, c) /\ Appliance!Following(x1, c, x2, x3)
      /\ Appliance!Goes(u, c.todo, c.asked) /\ x2' = after /\ ~Appliance!Raises(c.todo)
  BY <1>0 DEF Appliance!Obeys, Appliance!CallsInv, Appliance!SyncedInv
<1>2. x1 \in Kinds /\ x2 \in Appliance!States(x1) /\ x3 \in Appliance!States(x1)
  BY DEF Appliance!TypeOK
<1>3. u \in DOMAIN x5
  BY <1>0 DEF Appliance!CallsInv
<1> HIDE DEF c
<1>4. c.asked \in Appliance!Requests(x1) /\ c.do \in Appliance!Commands(x1)
  BY <1>1 DEF Appliance!UnderWay
<1>5. CASE Len(c.asked) = 1
  <2>1. Appliance!Wants(x1, c.asked[1], after)
    BY <1>1, <1>2, <1>5 DEF Appliance!Following, Appliance!Answers
  <2>2. \A i \in 1 .. Len(c.asked) : i = 1
    BY <1>5
  <2> QED BY <1>1, <2>1, <2>2 DEF c
<1>6. ASSUME Len(c.asked) = 2 PROVE \A i \in 1 .. Len(c.asked) : Appliance!Wants(x1, c.asked[i], after)
  <2>1. PICK m \in {"heat_pump", "turbo"}, t \in Levels[x1].min .. Levels[x1].max :
          c.asked = <<Appliance!Do("mode", m), Appliance!Do("temperature", t)>>
    BY <1>2, <1>4, <1>6, RequestsAre DEF OneThing, ModeThenTemperature
  <2> DEFINE q == Appliance!Do("mode", m)
             p == Appliance!Do("temperature", t)
  <2>2. c.asked[1] = q /\ c.asked[2] = p
    BY <2>1
  <2>3. x1 \in {"heater", "boiler"}
    BY <1>2, <1>4, <1>6, RequestsAre DEF OneThing, ModeThenTemperature
  <2>4. CASE c.todo # <<>>
    <3>1. c.todo = <<p>> /\ c.do.op # "level" /\ Appliance!Answers(x1, q, c.do) /\ x3 = x2
      BY <2>2, <2>4, <1>1, <1>6 DEF Appliance!Following, Appliance!UnderWay
    <3>2. Appliance!Wants(x1, q, after)
      BY <3>1, <1>2 DEF Appliance!Answers
    <3> DEFINE d == Appliance!Decided(p)
    <3>3. \/ d = Appliance!Skip /\ x3.level = t
          \/ d.op = "fail"
          \/ d \in Appliance!Commands(x1)
      BY <1>2, <2>3, TemperatureServed
    <3>4. /\ x5' = [x5 EXCEPT ![u] = Serving(p, c.asked)]
          /\ d # Appliance!Skip /\ d.op = "fail" => Appliance!Raises(<<p>>)
      <4> HIDE DEF p
      <4> QED BY <1>0, <1>1, <3>1, GoesAlone
    <3>5. Serving(p, c.asked) = Appliance!Idle
      BY <1>3, <3>4
    <3>6. d = Appliance!Skip
      <4> SUFFICES ASSUME d # Appliance!Skip PROVE FALSE
        OBVIOUS
      <4>1. d.op # "fail"
        BY <3>4, <3>1, <1>1
      <4>2. Serving(p, c.asked) = [todo |-> <<>>, do |-> d, asked |-> c.asked]
        <5> HIDE DEF p
        <5> QED BY <4>1 DEF Serving
      <4>3. Appliance!Idle.do = Appliance!Skip
        BY DEF Appliance!Idle
      <4> HIDE DEF d, p
      <4> QED BY <3>5, <4>2, <4>3
    <3>7. x2.level = t
      <4>1. Appliance!Skip.op # "fail" /\ Appliance!Skip \notin Appliance!Commands(x1)
        BY <1>2, CommandsAre DEF Appliance!Skip, Appliance!Do
      <4> QED BY <3>1, <3>3, <3>6, <4>1
    <3>8. after.level = x2.level
      <4>1. \E op \in {"on", "off", "mode"} : \E arg : c.do = Appliance!Do(op, arg)
        <5>1. \E op \in {"on", "off", "mode", "level"} : \E arg : c.do = Appliance!Do(op, arg)
          BY <1>4, <2>3 DEF Appliance!Commands
        <5>2. PICK op, arg : op \in {"on", "off", "mode", "level"} /\ c.do = Appliance!Do(op, arg)
          BY <5>1
        <5>3. op # "level"
          BY <5>2, <3>1 DEF Appliance!Do
        <5>4. op \in {"on", "off", "mode"}
          BY <5>2, <5>3
        <5> QED BY <5>2, <5>4
      <4> QED BY <4>1, <1>2, ObeyedIs
    <3>9. Appliance!Wants(x1, p, after)
      <4> HIDE DEF after
      <4> QED BY <3>7, <3>8, WantsAre
    <3> HIDE DEF p, q, after
    <3> QED BY <3>2, <3>9, <2>2, <1>6
  <2>5. CASE c.todo = <<>>
    <3>1. c.do.op = "level" /\ Appliance!Wants(x1, q, x2) /\ Appliance!Answers(x1, p, c.do)
      BY <2>2, <2>5, <1>1, <1>6 DEF Appliance!Following, Appliance!UnderWay
    <3>2. Appliance!Wants(x1, p, after)
      BY <3>1, <1>2 DEF Appliance!Answers
    <3>3. after.on = x2.on /\ after.mode = x2.mode
      <4>1. \E arg : c.do = Appliance!Do("level", arg)
        <5>1. \E op \in {"on", "off", "mode", "level"} : \E arg : c.do = Appliance!Do(op, arg)
          BY <1>4, <2>3 DEF Appliance!Commands
        <5> QED BY <5>1, <3>1 DEF Appliance!Do
      <4>2. PICK arg : c.do = Appliance!Do("level", arg)
        BY <4>1
      <4>3. after = [on |-> x2.on, mode |-> x2.mode, level |-> arg]
        BY <4>2, <1>2, ObeyedIs
      <4> HIDE DEF after
      <4> QED BY <4>3
    <3>4. Appliance!Wants(x1, q, after)
      <4> HIDE DEF after
      <4> QED BY <3>1, <3>3 DEF Appliance!Wants, Appliance!Do
    <3> HIDE DEF p, q, after
    <3> QED BY <3>2, <3>4, <2>2, <1>6
  <2> QED BY <2>4, <2>5
<1>7. Len(c.asked) \in {1, 2}
  BY <1>1 DEF Appliance!UnderWay
<1> QED
  BY <1>1, <1>5, <1>6, <1>7 DEF c

\* A request that posts nothing asks for what is so.
LEMMA DoneWhenSkipped ==
  ASSUME Appliance!AppliancesInv PROVE Appliance!AskedIsDoneWhenSkipped
<1> SUFFICES ASSUME NEW r \in Appliance!Requests(x1), x3 = x2, Appliance!Wanted(r) = {}
             PROVE  \A i \in 1 .. Len(r) : Appliance!Wants(x1, r[i], x2)
  BY DEF Appliance!AskedIsDoneWhenSkipped
<1>1. x1 \in Kinds /\ x3 \in Appliance!States(x1)
  BY DEF Appliance!AppliancesInv, Appliance!TypeOK
<1>2. \A i \in 1 .. Len(r) : Appliance!Decided(r[i]) = Appliance!Skip
  BY DEF Appliance!Wanted
<1>3. CASE OneThing(r)
  <2> DEFINE q == r[1]
  <2>1. r = <<q>> /\ Len(r) = 1
    BY <1>3 DEF OneThing
  <2>2. Appliance!Decided(q) = Appliance!Skip
    BY <1>2, <2>1
  <2>3. Answered(q)
    <3> HIDE DEF q
    <3> QED BY <1>1, <2>1, AloneServed
  <2>4. Appliance!Skip.op # "fail" /\ Appliance!Skip \notin Appliance!Commands(x1)
    BY <1>1, CommandsAre DEF Appliance!Skip, Appliance!Do
  <2>5. Appliance!Wants(x1, q, x2)
    <3> HIDE DEF q
    <3> QED BY <2>2, <2>3, <2>4 DEF Answered
  <2>6. \A i \in 1 .. Len(r) : i = 1
    BY <2>1
  <2> QED BY <2>5, <2>6
<1>4. CASE ModeThenTemperature(r)
  <2>1. PICK m \in {"heat_pump", "turbo"}, t \in Levels[x1].min .. Levels[x1].max :
          r = <<Appliance!Do("mode", m), Appliance!Do("temperature", t)>>
    BY <1>4 DEF ModeThenTemperature
  <2>2. Appliance!Decided(Appliance!Do("mode", m)) = Appliance!Skip
    BY <2>1, <1>2
  <2>3. Appliance!Decided(Appliance!Do("mode", m)) \in Appliance!Commands(x1)
    BY <1>1, <1>4, ModeServed DEF ModeThenTemperature
  <2> QED BY <2>2, <2>3, <1>1, CommandsAre
<1> QED
  BY <1>1, <1>3, <1>4, RequestsAre

\* What a fan or a hood is sent is of its profile.
LEMMA CommandsOffered ==
  ASSUME Appliance!AppliancesInv PROVE Appliance!SpeedOffered
<1> SUFFICES ASSUME NEW u \in Calls, x1 \in {"fan", "hood"}, x5[u].do.op \in {"mode", "level"}
             PROVE  Appliance!Accepts(x5[u].do)
  BY DEF Appliance!SpeedOffered
<1> DEFINE d == x5[u].do
<1>1. x1 \in Kinds /\ d \in Appliance!Commands(x1)
  <2>1. Appliance!Idle.do.op = "nothing"
    BY DEF Appliance!Idle, Appliance!Skip, Appliance!Do
  <2>2. x5[u] # Appliance!Idle
    BY <2>1
  <2> QED BY <2>2 DEF Appliance!AppliancesInv, Appliance!TypeOK, Appliance!CallsInv,
                      Appliance!UnderWay
<1> HIDE DEF d
<1>2. CASE x1 = "fan" /\ d.op = "mode"
  <2>1. \E m \in Speeds : d = Appliance!Do("mode", m)
    BY <1>1, <1>2 DEF Appliance!Commands, Appliance!ModesOf, Appliance!Do
  <2> QED BY <2>1, <1>2 DEF Appliance!Accepts, Appliance!ModesOf, Appliance!Do, d
<1>3. CASE x1 = "hood" /\ d.op = "level"
  <2>1. PICK l \in Levels["hood"].min .. Levels["hood"].max : d = Appliance!Do("level", l)
    BY <1>1, <1>3 DEF Appliance!Commands
  <2>2. Appliance!InProfile("hood", l)
    BY <1>1, <1>3, LevelsAssumption DEF Appliance!InProfile
  <2> QED BY <2>1, <2>2, <1>3 DEF Appliance!Accepts, Appliance!Do, d
<1>4. ~(x1 = "fan" /\ d.op = "level") /\ ~(x1 = "hood" /\ d.op = "mode")
  <2>1. x1 = "fan" => \E op \in {"on", "off", "mode"} : \E arg : d = Appliance!Do(op, arg)
    BY <1>1 DEF Appliance!Commands
  <2>2. x1 = "hood" => \E arg : d = Appliance!Do("level", arg)
    BY <1>1 DEF Appliance!Commands
  <2> QED BY <2>1, <2>2 DEF Appliance!Do
<1> QED
  BY <1>2, <1>3, <1>4 DEF d

\* What is shown as the speed leads back to it.
LEMMA ShownSpeedIsKept ==
  ASSUME Appliance!AppliancesInv PROVE Appliance!SpeedRoundTrip
<1> DEFINE p == Appliance!ShownPercentage
           d == Appliance!Decided(Appliance!Do("percent", p))
<1> SUFFICES ASSUME x1 \in {"fan", "hood"}, p # 0
             PROVE  d.arg = (IF x1 = "hood" THEN x3.level ELSE x3.mode)
  BY DEF Appliance!SpeedRoundTrip
<1>1. x1 \in Kinds /\ x3 \in Appliance!States(x1)
  BY DEF Appliance!AppliancesInv, Appliance!TypeOK
<1>2. CASE x1 = "fan"
  <2> DEFINE N == Appliance!NamedSpeeds
             S == FanSpeeds \cap Speeds
  <2>1. x3.mode \notin FanPresets /\ p = Appliance!ItemToPercentage(N, x3.mode)
    BY <1>2 DEF Appliance!ShownPercentage
  <2>2. x3.mode \in S
    <3>1. x3.mode \in Speeds
      BY <1>1, <1>2 DEF Appliance!States, Appliance!ModesOf
    <3> QED BY <3>1, <2>1, <1>1, <1>2, FanAssumption DEF FanSpeeds
  <2>3. Lists(N, S) /\ Len(N) \in 1 .. 5
    BY <1>1, <1>2, NamedSpeedsList
  <2>4. PICK i \in 1 .. Len(N) : N[i] = x3.mode
    BY <2>2, <2>3 DEF Lists
  <2>5. p = (i * 100) \div Len(N)
    <3> HIDE DEF N, p
    <3> QED BY <2>1, <2>3, <2>4, PlaceToPercentage
  <2>6. d = Appliance!Do("mode", Appliance!PercentageToItem(N, p))
    <3> HIDE DEF p
    <3> QED BY <1>2 DEF Appliance!Decided, Appliance!FanDo, Appliance!Do
  <2>7. Appliance!PercentageToItem(N, p) = x3.mode
    <3> HIDE DEF N, p
    <3> QED BY <2>3, <2>4, <2>5, PercentageOfPlace
  <2> QED BY <2>6, <2>7, <1>2 DEF Appliance!Do
<1>3. CASE x1 = "hood"
  <2> DEFINE low == Levels["hood"].min
             n == Levels["hood"].max - low
             v == x3.level
  <2>1. low \in Int /\ n \in 1 .. 50 /\ Levels["hood"].max = low + n
    BY <1>1, <1>3, LevelsAssumption
  <2>2. v \in low .. low + n
    BY <1>1, <1>3, <2>1 DEF Appliance!States, Appliance!LevelsOf
  <2>3. p = ((v - low) * 100) \div n
    BY <1>3 DEF Appliance!ShownPercentage, Appliance!SpeedToPercentage, Appliance!SpeedCount
  <2>4. d = Appliance!Do("level", Appliance!Rounded(n * p + low * 100, 100))
    <3> HIDE DEF p
    <3> QED BY <1>3 DEF Appliance!Decided, Appliance!HoodDo, Appliance!HoodSpeed,
                        Appliance!PercentageToSpeed, Appliance!SpeedCount, Appliance!Do
  <2>5. Appliance!Rounded(n * p + low * 100, 100) = v
    <3> HIDE DEF p, n, low, v
    <3> QED BY <2>1, <2>2, <2>3, SpeedIsKept
  <2> QED BY <2>4, <2>5, <1>3 DEF Appliance!Do
<1> QED
  BY <1>2, <1>3

\* A step of the appliance's part is one of the appliance, its reports and its calls.
LEMMA AppliancePart ==
  ASSUME part = "appliance", [EntitiesNext]_all
  PROVE  part' = part /\ (Appliance!Next \/ UNCHANGED <<x1, x2, x3, x4, x5, x6>>)
BY DEF EntitiesNext, OthersNext, all, others

\* Every step keeps AppliancesInv.
LEMMA AppliancesInvStep ==
  ASSUME Appliance!AppliancesInv, part = "appliance", [EntitiesNext]_all
  PROVE  Appliance!AppliancesInv'
<1>1. CASE UNCHANGED <<x1, x2, x3, x4, x5, x6>>
  BY <1>1, OtherApplianceStep
<1>2. CASE Appliance!Next
  <2>1. \/ Appliance!Report \/ Appliance!Touched
        \/ \E u \in Calls : Appliance!Refused(u)
        \/ \E u \in Calls : Appliance!Ask(u)
        \/ \E u \in Calls : Appliance!Obeys(u)
    BY <1>2 DEF Appliance!Next
  <2> QED BY <2>1, OtherApplianceStep, AskStep, ObeysStep
<1> QED
  BY <1>1, <1>2, AppliancePart

\* AppliancesInv holds of an appliance that no call has reached.
LEMMA AppliancesInvInit ==
  ASSUME Appliance!Init PROVE Appliance!AppliancesInv
<1>1. x1 \in Kinds /\ x2 \in Appliance!States(x1) /\ x3 = x2 /\ x4 = x2.on /\ x6 = {}
      /\ x5 = [u \in Calls |-> Appliance!Idle]
  BY DEF Appliance!Init
<1>2. x4 \in BOOLEAN
  BY <1>1, StatesAre
<1>3. Appliance!TypeOK
  BY <1>1, <1>2 DEF Appliance!TypeOK
<1>4. Appliance!CallsInv /\ Appliance!SyncedInv
  BY <1>1 DEF Appliance!CallsInv, Appliance!SyncedInv
<1> QED
  BY <1>3, <1>4 DEF Appliance!AppliancesInv

\* SpeedRoundTrip: the speed a fan or a hood shows, set again, is the speed it has, and
\* no percentage makes it post one its profile lacks.
THEOREM SpeedsRoundTrip == EntitiesSpec => []SpeedRoundTrip
<1> DEFINE Inv == part = "appliance" => Appliance!AppliancesInv
<1>1. EntitiesInit => Inv
  BY AppliancesInvInit DEF EntitiesInit
<1>2. Inv /\ [EntitiesNext]_all => Inv'
  <2> SUFFICES ASSUME Inv, [EntitiesNext]_all, part' = "appliance"
               PROVE  Appliance!AppliancesInv'
    OBVIOUS
  <2>1. part = "appliance"
    BY DEF EntitiesNext, all
  <2> QED BY <2>1, AppliancesInvStep
<1>3. Inv => SpeedRoundTrip
  BY CommandsOffered, ShownSpeedIsKept DEF SpeedRoundTrip
<1> QED BY <1>1, <1>2, <1>3, PTL DEF EntitiesSpec

\* AskedIsDone: a service call that nothing disturbs or refuses leaves the appliance as
\* it asked, and one that posts nothing asked for what is so.
THEOREM AskedGetsDone == EntitiesSpec => AskedIsDone
<1> DEFINE Inv == part = "appliance" => Appliance!AppliancesInv
           Done == part = "appliance" => Appliance!AskedIsDoneStep
<1>1. EntitiesInit => Inv
  BY AppliancesInvInit DEF EntitiesInit
<1>2. Inv /\ [EntitiesNext]_all => Inv'
  <2> SUFFICES ASSUME Inv, [EntitiesNext]_all, part' = "appliance"
               PROVE  Appliance!AppliancesInv'
    OBVIOUS
  <2>1. part = "appliance"
    BY DEF EntitiesNext, all
  <2> QED BY <2>1, AppliancesInvStep
<1>3. Inv => Done
  BY DoneOnceObeyed, DoneWhenSkipped DEF Appliance!AskedIsDoneStep
<1>4. Inv /\ [EntitiesNext]_all => [Done]_all
  BY <1>3
<1> QED BY <1>1, <1>2, <1>4, PTL DEF EntitiesSpec, AskedIsDone

-----------------------------------------------------------------------------
(***************************************************************************)
(* The types of every part.  Most keep theirs by what is proved of them    *)
(* above: the times of an observed device are numbers because none begins  *)
(* after now, the mode of an air conditioner is one it has because the     *)
(* client lets no other pass, options are names in use because profiles    *)
(* list no others.                                                         *)
(***************************************************************************)
\* What an observed device is, and its last tick is past.
ObservedTyped(K, S) == Observed(K, S)!TypeOK /\ (x5 # None => x5 <= x1)

\* The seconds of an interval that fall on a day are a natural number.
LEMMA OverlapTyped ==
  ASSUME NEW K, NEW S, NEW from \in Observed(K, S)!Time, NEW to \in Nat, NEW d \in Observed(K, S)!Day
  PROVE  Observed(K, S)!Overlap(from, to, d) \in Nat
<1>1. d \in Nat /\ from \in Nat
  BY DEF Observed!Day, Observed!Time
<1>2. d * DayLength \in Nat /\ (d + 1) * DayLength \in Nat
  BY <1>1, ObservedAssumption
<1> QED
  BY <1>1, <1>2 DEF Observed!Overlap

\* Adding an interval, dropping old buckets and counting events leave a history of
\* natural numbers.
LEMMA HistoriesTyped ==
  ASSUME NEW K, NEW S, NEW h \in Observed(K, S)!History
  PROVE  /\ \A prev : \A from \in Observed(K, S)!Time, to \in Nat :
              Observed(K, S)!Accrue(h, prev, from, to) \in Observed(K, S)!History
         /\ Observed(K, S)!Trim(h) \in Observed(K, S)!History
         /\ \A events : Observed(K, S)!Bump(h, events) \in Observed(K, S)!History
<1>1. ASSUME NEW prev, NEW from \in Observed(K, S)!Time, NEW to \in Nat
      PROVE  Observed(K, S)!Accrue(h, prev, from, to) \in Observed(K, S)!History
  BY OverlapTyped DEF Observed!Accrue, Observed!History
<1>2. Observed(K, S)!Trim(h) \in Observed(K, S)!History
  BY DEF Observed!Trim, Observed!History, Observed!NoBucket
<1>3. ASSUME NEW events
      PROVE  Observed(K, S)!Bump(h, events) \in Observed(K, S)!History
  BY DEF Observed!Bump, Observed!History
<1> QED BY <1>1, <1>2, <1>3

\* So does the claim of a second, whoever it is for.
LEMMA ClaimedTyped ==
  ASSUME NEW K, NEW S, ObservedTyped(K, S), NEW h \in Observed(K, S)!History, NEW b
  PROVE  Observed(K, S)!Claimed(h, b) \in Observed(K, S)!History
<1>1. x1 \in Observed(K, S)!Time /\ x1 + 1 \in Nat
  BY DEF ObservedTyped, Observed!TypeOK, Observed!Time
<1>2. Observed(K, S)!Accrue(h, x14.held, x1, x1 + 1) \in Observed(K, S)!History
  BY <1>1, HistoriesTyped
<1>3. Observed(K, S)!NoBucket \in [Observed(K, S)!Metric -> Nat]
  BY DEF Observed!NoBucket
<1> QED BY <1>2, <1>3 DEF Observed!Claimed, Observed!History

\* So does advance, which never runs from a tick later than now.
LEMMA AdvancedTyped ==
  ASSUME NEW K, NEW S, ObservedTyped(K, S)
  PROVE  Observed(K, S)!Advanced \in Observed(K, S)!History
<1>1. CASE Observed(K, S)!Tracking
  <2>1. x5 \in Observed(K, S)!Time /\ x1 \in Nat /\ x7 \in Observed(K, S)!History
    BY <1>1 DEF ObservedTyped, Observed!TypeOK, Observed!Tracking, Observed!Time
  <2>2. Observed(K, S)!Accrue(x7, x2, x5, x1) \in Observed(K, S)!History
    BY <2>1, HistoriesTyped
  <2>3. Observed(K, S)!Trim(Observed(K, S)!Accrue(x7, x2, x5, x1)) \in Observed(K, S)!History
    BY <2>2, HistoriesTyped
  <2> QED
    BY <1>1, <2>3 DEF Observed!Advanced
<1>2. CASE ~Observed(K, S)!Tracking
  BY <1>2 DEF ObservedTyped, Observed!TypeOK, Observed!Advanced
<1> QED
  BY <1>1, <1>2

\* What observe records are natural numbers: no time it subtracts is later than now.
LEMMA RecordedTyped ==
  ASSUME NEW K, NEW S, ObservedTyped(K, S), DurationInv(K), NEW data
  PROVE  Observed(K, S)!ValuesAfter(data) \in Observed(K, S)!Values
<1> USE DEF Observed!Values
<1>1. x8 \in Observed(K, S)!Values /\ x1 \in Nat
  BY DEF ObservedTyped, Observed!TypeOK, DurationInv
<1>2. Observed(K, S)!Completes(data) => Observed(K, S)!CycleSeconds \in Nat \cup {None}
  BY DEF Observed!Completes, Observed!CycleSeconds, DurationInv, BegunSince
<1>3. ASSUME NEW k, NEW from, NEW to, from # None \/ to # None, NEW old \in Nat \cup {None}
      PROVE  Observed(K, S)!Elapsed(data, k, from, to, old) \in Nat \cup {None}
  <2>1. CASE Observed(K, S)!Turned(data, k, from, to) /\ x3[k] # None
    <3>1. k \in K
      BY <1>3, <2>1 DEF Observed!Turned, Observed!Lookup
    <3>2. x3[k] \in Nat /\ x3[k] <= x1 /\ x1 \in Nat
      BY <2>1, <3>1 DEF DurationInv, BegunSince
    <3>3. x1 - x3[k] \in Nat
      BY <3>2
    <3> QED
      BY <2>1, <3>3 DEF Observed!Elapsed
  <2>2. CASE ~(Observed(K, S)!Turned(data, k, from, to) /\ x3[k] # None)
    BY <1>3, <2>2 DEF Observed!Elapsed
  <2> QED
    BY <2>1, <2>2
<1>4. /\ Observed(K, S)!Elapsed(data, "door_state", "open", "close", x8.last_open) \in Nat \cup {None}
      /\ Observed(K, S)!Elapsed(data, "current_state", "preheating", "cooking_in_progress",
                                x8.last_preheat) \in Nat \cup {None}
      /\ Observed(K, S)!Elapsed(data, "current_state", "cooking_in_progress", "done",
                                x8.last_cooking) \in Nat \cup {None}
  BY <1>1, <1>3, NoneAssumption
<1> QED
  BY <1>1, <1>2, <1>4 DEF Observed!ValuesAfter

\* Every reading, tick, gap, save and restart keeps the types.
LEMMA ObservedKeepsType ==
  ASSUME NEW K, NEW S, ObservedTyped(K, S), DurationInv(K), DurationInv(K)',
         Observed(K, S)!Next \/ UNCHANGED others
  PROVE  ObservedTyped(K, S)'
<1> USE DEF Observed!device, Observed!saved, Observed!ghosts
<1>1. /\ x1 \in Observed(K, S)!Time /\ x1 \in Nat /\ x4 \in [start : Observed(K, S)!Time \cup {None}] \cup {None}
      /\ x9 \in [days : Observed(K, S)!History, values : Observed(K, S)!Values]
      /\ x7 \in Observed(K, S)!History /\ x8 \in Observed(K, S)!Values
  BY DEF ObservedTyped, Observed!TypeOK, DurationInv
<1>2. /\ Observed(K, S)!NoReading \in [K -> Observed(K, S)!Reading]
      /\ Observed(K, S)!NoReading \in [K -> Observed(K, S)!Time \cup {None}]
      /\ Observed(K, S)!NoHistory \in Observed(K, S)!History
  BY DEF Observed!NoReading, Observed!Reading, Observed!NoHistory, Observed!NoBucket,
         Observed!History
<1>3. ASSUME NEW data \in Observed(K, S)!Report, Observed(K, S)!Observe(data),
             UNCHANGED <<x1, x9, x11, x12>>, x10' \in BOOLEAN
      PROVE  ObservedTyped(K, S)'
  <2>1. x7' \in Observed(K, S)!History
    BY <1>3, AdvancedTyped, HistoriesTyped DEF Observed!Observe
  <2>2. x8' \in Observed(K, S)!Values
    BY <1>3, RecordedTyped DEF Observed!Observe
  <2>3. x2' \in [K -> Observed(K, S)!Reading]
    BY <1>3 DEF Observed!Observe, Observed!Report, Observed!Reading
  <2>4. x3' \in [K -> Observed(K, S)!Time \cup {None}]
    BY <1>3 DEF Observed!Observe, ObservedTyped, Observed!TypeOK
  <2>5. x4' \in [start : Observed(K, S)!Time \cup {None}] \cup {None}
    BY <1>1, <1>3 DEF Observed!Observe, Observed!CycleAfter, Observed!Begun
  <2>6. x13' \in BOOLEAN /\ x14' \in [held : [K -> Observed(K, S)!Reading], outage : BOOLEAN]
    BY <1>3, <2>3 DEF Observed!Observe, Observed!ActiveSeenAfter, ObservedTyped, Observed!TypeOK
  <2>7. x5' = x1 /\ x6' = TRUE
    BY <1>3 DEF Observed!Observe
  <2>8. Observed(K, S)!TypeOK'
    BY <1>1, <1>3, <2>1, <2>2, <2>3, <2>4, <2>5, <2>6, <2>7 DEF ObservedTyped, Observed!TypeOK
  <2> QED BY <1>1, <1>3, <2>7, <2>8 DEF ObservedTyped
<1>4. CASE Observed(K, S)!ClockStep
  <2>1. x1' \in Observed(K, S)!Time /\ x1' = x1 + 1
    <3>1. Observed(K, S)!MaxTime \in Int
      BY ObservedAssumption DEF Observed!MaxTime
    <3> QED BY <1>1, <1>4, <3>1 DEF Observed!ClockStep, Observed!Time
  <2>2. x11' \in [watched : Observed(K, S)!History, missed : Observed(K, S)!History]
    <3>1. x11.watched \in Observed(K, S)!History /\ x11.missed \in Observed(K, S)!History
      BY DEF ObservedTyped, Observed!TypeOK
    <3> QED BY <1>4, <3>1, ClaimedTyped DEF Observed!ClockStep
  <2>3. Observed(K, S)!TypeOK'
    BY <1>4, <2>1, <2>2 DEF Observed!ClockStep, ObservedTyped, Observed!TypeOK
  <2>4. x5 # None => x5 \in Nat
    BY DEF ObservedTyped, Observed!TypeOK, Observed!Time
  <2> QED BY <1>1, <1>4, <2>1, <2>3, <2>4 DEF Observed!ClockStep, ObservedTyped
<1>5. CASE Observed(K, S)!Tick
  <2>1. Observed(K, S)!TypeOK'
    BY <1>1, <1>5, AdvancedTyped DEF Observed!Tick, ObservedTyped, Observed!TypeOK
  <2> QED BY <1>1, <1>5, <2>1 DEF Observed!Tick, ObservedTyped
<1>6. ASSUME NEW data \in Observed(K, S)!Report,
             Observed(K, S)!ObserveReport(data) \/ Observed(K, S)!ObserveFetch(data)
      PROVE  ObservedTyped(K, S)'
  <2>1. x10' \in BOOLEAN
    BY <1>6 DEF Observed!ObserveReport, Observed!ObserveFetch, ObservedTyped, Observed!TypeOK
  <2> QED BY <1>3, <1>6, <2>1 DEF Observed!ObserveReport, Observed!ObserveFetch
<1>7. CASE Observed(K, S)!Connected \/ Observed(K, S)!Save \/ UNCHANGED others
  <2>1. CASE Observed(K, S)!Connected
    BY <2>1 DEF Observed!Connected, ObservedTyped, Observed!TypeOK
  <2>2. CASE Observed(K, S)!Save
    BY <1>1, <2>2 DEF Observed!Save, ObservedTyped, Observed!TypeOK
  <2>3. CASE UNCHANGED others
    BY <2>3 DEF others, ObservedTyped, Observed!TypeOK
  <2>4. Observed(K, S)!TypeOK' /\ x1' = x1 /\ x5' = x5
    BY <1>7, <2>1, <2>2, <2>3 DEF ObservedTyped, Observed!Connected, Observed!Save, others
  <2> QED BY <2>4 DEF ObservedTyped
<1>8. CASE Observed(K, S)!Disconnected
  <2>1. Observed(K, S)!TypeOK' /\ x5' = None
    BY <1>1, <1>2, <1>8, AdvancedTyped
       DEF Observed!Disconnected, Observed!Gap, ObservedTyped, Observed!TypeOK
  <2> QED BY <2>1 DEF ObservedTyped
<1>9. CASE Observed(K, S)!Restart
  <2>1. Observed(K, S)!TypeOK' /\ x5' = None
    BY <1>1, <1>2, <1>9 DEF Observed!Restart, ObservedTyped, Observed!TypeOK
  <2> QED BY <2>1 DEF ObservedTyped
<1> QED BY <1>4, <1>5, <1>6, <1>7, <1>8, <1>9 DEF Observed!Next

\* A new device has its types.
LEMMA ObservedBegins ==
  ASSUME NEW K, NEW S, Observed(K, S)!Init
  PROVE  ObservedTyped(K, S)
<1>1. Observed(K, S)!NoHistory \in Observed(K, S)!History
  BY DEF Observed!NoHistory, Observed!NoBucket, Observed!History
<1>2. /\ Observed(K, S)!NoReading \in [K -> Observed(K, S)!Reading]
      /\ Observed(K, S)!NoReading \in [K -> Observed(K, S)!Time \cup {None}]
  BY DEF Observed!NoReading, Observed!Reading
<1>3. Observed(K, S)!NoValues \in Observed(K, S)!Values
  BY DEF Observed!NoValues, Observed!Values
<1>4. 0 \in Observed(K, S)!Time
  <2>1. (MaxDay + 1) * DayLength - 1 \in Nat
    BY ObservedAssumption
  <2> QED BY <2>1 DEF Observed!Time, Observed!MaxTime
<1> QED
  BY <1>1, <1>2, <1>3, <1>4 DEF Observed!Init, ObservedTyped, Observed!TypeOK

\* The entry's variables keep their types.
LEMMA EntryTyped ==
  ASSUME TypeOK, Begun, [Next]_vars
  PROVE  TypeOK'
<1> USE DEF TypeOK, Phases, files, energy, ghosts
<1>1. CASE Start
  BY <1>1 DEF Start
<1>2. CASE Loaded
  <2>1. gen \in Generations
    BY <1>2 DEF Loaded, Begun
  <2> QED BY <1>2, <2>1, BoundsAssumption DEF Loaded
<1>3. CASE NotReady \/ NotConnected \/ Cleaned \/ NotUnloaded
  BY <1>3 DEF NotReady, NotConnected, Cleaned, NotUnloaded
<1>4. CASE Connected
  <2>1. gen \in Generations
    BY <1>4 DEF Connected, Begun
  <2> QED BY <1>4, <2>1 DEF Connected
<1>5. CASE Added
  <2>1. gen \in Generations
    BY <1>5 DEF Added, Begun
  <2> QED BY <1>5, <2>1 DEF Added
<1>6. CASE NotForwarded
  BY <1>6 DEF NotForwarded
<1>7. CASE Forwarded
  BY <1>7 DEF Forwarded
<1>8. CASE Observe
  BY <1>8, BoundsAssumption DEF Observe
<1>9. CASE Serve
  <2>1. gen \in Generations
    BY <1>9 DEF Serve, Begun
  <2> QED BY <1>9, <2>1 DEF Serve
<1>10. CASE Unload
  BY <1>10 DEF Unload
<1>11. CASE PlatformsUnloaded
  BY <1>11 DEF PlatformsUnloaded
<1>12. CASE Close
  <2>1. gen \in Generations
    BY <1>12 DEF Close, Begun
  <2> QED BY <1>12, <2>1 DEF Close
<1>13. ASSUME NEW g \in Generations, Tick(g) \/ Ask(g) \/ Answer(g)
       PROVE  TypeOK'
  BY <1>13 DEF Tick, Ask, Answer
<1>14. ASSUME NEW g \in Generations, Save(g)
       PROVE  TypeOK'
  BY <1>14 DEF Save
<1>15. ASSUME NEW g \in Generations, Served(g)
       PROVE  TypeOK'
  BY <1>15 DEF Served
<1>16. ASSUME NEW clean \in BOOLEAN, Restart(clean)
       PROVE  TypeOK'
  <2>1. disk' \in 0 .. MaxCount
    BY <1>16 DEF Restart
  <2> QED BY <1>16, <2>1 DEF Restart
<1>17. CASE UNCHANGED vars
  BY <1>17 DEF vars
<1> QED
  BY <1>1, <1>2, <1>3, <1>4, <1>5, <1>6, <1>7, <1>8, <1>9, <1>10, <1>11, <1>12, <1>13, <1>14,
     <1>15, <1>16, <1>17 DEF Next

\* So do the states of errors and notifications.
LEMMA EventTyped ==
  /\ Event!Init => Event!TypeOK
  /\ Event!TypeOK /\ (Event!Next \/ UNCHANGED others) => Event!TypeOK'
<1>1. Event!Init => Event!TypeOK
  BY EventAssumption DEF Event!Init, Event!TypeOK, Event!Fields
<1>2. ASSUME Event!TypeOK, Event!Next \/ UNCHANGED others
      PROVE  Event!TypeOK'
  <2> USE DEF Event!TypeOK
  <2>1. ASSUME Event!StatesUpdated, x4' \in Errors \cup {None}
        PROVE  x5'.error \in Errors \cup {None} /\ x5'.notification \in Messages \cup {None}
    BY <2>1 DEF Event!StatesUpdated
  <2>2. ASSUME NEW m \in Errors \cup Messages, Event!Given(m)
        PROVE  /\ x9' \in [last : Errors \cup Messages \cup {None}, at : 0 .. MaxEventTime,
                            last_error : Alarming \cup {None}, error_at : 0 .. MaxEventTime,
                            errors : 0 .. MaxErrors]
    <3>1. x9' \in {x9, Event!Noted(x9, m)} /\ x9'.errors <= MaxErrors
      BY <2>2 DEF Event!Given, Event!Recorded
    <3>2. CASE x9' = x9
      BY <1>2, <3>2
    <3>3. CASE x9' = Event!Noted(x9, m)
      <4>1. CASE m \in Alarming
        BY <1>2, <3>1, <3>3, <4>1, EventAssumption DEF Event!Noted
      <4>2. CASE m \notin Alarming
        BY <1>2, <3>1, <3>3, <4>2, EventAssumption DEF Event!Noted
      <4> QED BY <4>1, <4>2
    <3> QED BY <3>1, <3>2, <3>3
  <2>3. CASE Event!Fault \/ Event!Tick \/ Event!Failed \/ Event!Gap \/ UNCHANGED others
    BY <1>2, <2>3, EventAssumption
    DEF Event!Fault, Event!Tick, Event!Failed, Event!Gap, Event!states, Event!local, others
  <2>4. ASSUME Event!Observed, x5'.error \in Errors \cup {None}
        PROVE  x9' = x9 \/ \E m \in Errors \cup Messages : Event!Given(m)
    BY <2>4 DEF Event!Observed
  <2>5. ASSUME NEW b \in BOOLEAN, Event!Fetched(b)
        PROVE  Event!TypeOK'
    <3>1. /\ x1' = x1 /\ x8' = x8 /\ x4' = x1 /\ Event!StatesUpdated
          /\ Event!Observed \/ x9' = x9
      BY <2>5 DEF Event!Fetched, Event!local
    <3> QED BY <1>2, <2>1, <2>2, <2>4, <3>1
  <2>6. ASSUME NEW b \in BOOLEAN, Event!Reported(b)
        PROVE  Event!TypeOK'
    <3>1. /\ x1' = x1 /\ x8' = x8 /\ x4' \in {x1, None} /\ Event!StatesUpdated
          /\ Event!Observed
      BY <2>6 DEF Event!Reported
    <3> QED BY <1>2, <2>1, <2>2, <2>4, <3>1
  <2>7. ASSUME NEW m \in Messages, Event!Pushed(m)
        PROVE  Event!TypeOK'
    <3>1. /\ x1' = x1 /\ x8' = x8 /\ x4' = x4 /\ Event!Given(m)
          /\ x5' = [x5 EXCEPT !.notification = m]
      BY <2>7 DEF Event!Pushed
    <3>2. x5'.error \in Errors \cup {None} /\ x5'.notification \in Messages \cup {None}
      BY <1>2, <3>1
    <3> QED BY <1>2, <2>2, <3>1, <3>2
  <2> QED BY <1>2, <2>3, <2>5, <2>6, <2>7 DEF Event!Next
<1> QED BY <1>1, <1>2

Named == {Lower[v] : v \in DOMAIN Lower}

\* Options are names in lower case, whatever is readable or writable.
LEMMA OptionsNamed ==
  ASSUME NEW c \in Cases, NEW m
  PROVE  Property!Options(c, m) \subseteq Named
<1>1. CASE c.raw.type = "enum" /\ Property!Data(c, m)[1] = "list"
  <2>1. /\ ListOrNothing(c.raw.r) /\ ListOrNothing(c.raw.w)
    BY <1>1, CasesAssumption
  <2>2. \A b : Property!Flag(b)[1] = "flag" /\ Property!Nothing[1] = "none"
    BY DEF Property!Flag, Property!Nothing
  <2>3. Property!Data(c, m) \in {Property!Profile(c.raw).r, Property!Profile(c.raw).w}
    BY DEF Property!Data
  <2>4. \/ Property!Data(c, m) \in {Property!Parsed(c.raw).rv, Property!Parsed(c.raw).wv}
        \/ \E b : Property!Data(c, m) = Property!Flag(b)
    BY <2>3 DEF Property!Profile
  <2>5. Property!Data(c, m) \in {c.raw.r, c.raw.w, Property!Nothing}
    BY <1>1, <2>2, <2>4 DEF Property!Parsed
  <2>6. Property!Data(c, m)[2] \subseteq DOMAIN Lower
    BY <1>1, <2>1, <2>2, <2>5 DEF ListOrNothing, Property!Nothing
  <2>7. Property!Options(c, m) = {Lower[v] : v \in Property!Data(c, m)[2]}
    BY <1>1 DEF Property!Options
  <2> QED BY <2>6, <2>7 DEF Named
<1>2. CASE ~(c.raw.type = "enum" /\ Property!Data(c, m)[1] = "list")
  <2>1. Property!Options(c, m) \subseteq {"false", "true"}
    BY <1>2 DEF Property!Options
  <2> QED BY <2>1, NamesAssumption DEF Named
<1> QED BY <1>1, <1>2

\* A property's platforms are set up, then constructed, then added.
LEMMA PropertyTyped ==
  /\ Property!Init => Property!TypeOK
  /\ PropertyInv /\ Property!TypeOK /\ (Property!Next \/ UNCHANGED others) => Property!TypeOK'
<1>1. Property!Init => Property!TypeOK
  BY DEF Property!Init, Property!TypeOK, Property!NoCall, Property!Controls
<1>2. ASSUME PropertyInv, Property!TypeOK, Property!Next \/ UNCHANGED others
      PROVE  Property!TypeOK'
  <2> USE DEF Property!TypeOK
  <2>0. x1 \in Cases /\ x6 = [r \in Property!Capturing |-> x6[r]]
    BY <1>2 DEF PropertyInv, Constructed, Captured
  <2>1. ASSUME NEW p \in DOMAIN Property!ModeAsked, Property!SetUp(p)
        PROVE  Property!TypeOK'
    <3>1. /\ x1' = x1 /\ x3' = x3 \cup {p} /\ p \in x1.platforms /\ x5' = x5 /\ x9' = x9
          /\ x10' = x10 /\ Property!Controls' = Property!Controls
          /\ x4 \subseteq x4' /\ x4' \subseteq x4 \cup {p}
      BY <2>1 DEF Property!SetUp, Property!Kept, Property!Controls
    <3>2. x2' \in {"r", "w", None}
      BY <1>2, <2>1 DEF Property!SetUp, Property!ModeOf
    <3>3. ASSUME NEW q \in Property!Capturing
          PROVE  x6'[q] \subseteq Named \cup Property!Displays
      <4>1. \/ x6' = x6
            \/ x6' = [x6 EXCEPT ![p] = Property!Options(x1, x2')]
        BY <2>1 DEF Property!SetUp
      <4>2. x6'[q] \in {x6[q], Property!Options(x1, x2')}
        BY <2>0, <3>3, <4>1
      <4> QED BY <1>2, <2>0, <4>2, OptionsNamed DEF Named
    <3> QED BY <1>2, <3>1, <3>2, <3>3 DEF Named
  <2>2. ASSUME x6' = Property!Reselected
        PROVE  \A q \in Property!Capturing : x6'[q] \subseteq Named \cup Property!Displays
    <3>1. Property!CommandOptions \subseteq Named
      BY <2>0, OptionsNamed DEF Property!CommandOptions
    <3>2. /\ Property!OvenOptions(x10', Property!Value') \subseteq Named \cup Property!Displays
          /\ Property!LaundryOptions(x10') \subseteq Named \cup Property!Displays
      BY <3>1, DisplayNames DEF Property!OvenOptions, Property!LaundryOptions
    <3>3. \A q \in Property!Capturing : x6[q] \subseteq Named \cup Property!Displays
      BY <1>2 DEF Named
    <3> QED BY <2>0, <2>2, <3>2, <3>3 DEF Property!Reselected
  <2>3. ASSUME NEW p \in DOMAIN Property!ModeAsked, Property!Add(p)
        PROVE  Property!TypeOK'
    <3>1. /\ x1' = x1 /\ x2' = x2 /\ x3' = x3 /\ x4' = x4 /\ x9' = x9 /\ x10' = x10
          /\ x5' \subseteq x4 /\ x6' = Property!Reselected
      BY <1>2, <2>3 DEF Property!Add
    <3> QED BY <1>2, <2>2, <3>1 DEF Named, Property!Controls
  <2>4. ASSUME Property!Received, x9'.came \in {None, "posted", "posted_unnamed", "silent",
                    "refused", "no_command", "not_verified", "not_ready"}
        PROVE  Property!TypeOK'
    <3>1. /\ x1' = x1 /\ x2' = x2 /\ x3' = x3 /\ x4' = x4 /\ x5' = x5
          /\ x6' = Property!Reselected
          /\ x10' \in IF Property!Command THEN Property!Controls ELSE {x10}
      BY <2>4 DEF Property!Received
    <3>2. x10' \in Property!Controls
      BY <1>2, <3>1
    <3> QED BY <1>2, <2>2, <2>4, <3>1, <3>2 DEF Named, Property!Controls
  <2>5. ASSUME Property!Aside, x9'.came \in {None, "posted", "posted_unnamed", "silent",
                    "refused", "no_command", "not_verified", "not_ready"}
        PROVE  Property!TypeOK'
    BY <1>2, <2>5 DEF Property!Aside, Property!Controls
  <2>6. \A p, v : Property!Outcome(p, v).came \in {"posted", "posted_unnamed", "silent", "refused"}
    BY DEF Property!Outcome
  <2>7. CASE Property!Update
    BY <1>2, <2>4, <2>7 DEF Property!Update
  <2>8. CASE Property!SelectOption
    BY <2>4, <2>5, <2>6, <2>8 DEF Property!SelectOption, Property!Posts, Property!Stopped
  <2>9. CASE Property!SetNumber \/ Property!Turn
    BY <2>5, <2>6, <2>9 DEF Property!SetNumber, Property!Turn, Property!Posts
  <2>10. CASE UNCHANGED others
    BY <1>2, <2>10 DEF others, Property!Controls
  <2> QED BY <1>2, <2>1, <2>3, <2>7, <2>8, <2>9, <2>10 DEF Property!Next
<1> QED BY <1>1, <1>2

\* Of a climate entity, calls C, an appliance with modes M that N changes are made at.
ClimateTyped(C, M, N) ==
  /\ x1.mode \in M /\ x4.known \subseteq Climate!Presets
  /\ Len(x2) <= MaxReports /\ x6 \in 0 .. N /\ x7 \subseteq C

\* What a step of either instance does to them.
BoundsOf(C, M, N) ==
  /\ x7' \subseteq x7 \cup C
  /\ \/ UNCHANGED <<x1, x2, x4, x6>>
     \/ /\ Len(x2) < MaxReports /\ x2' = Append(x2, x1') /\ x4' = x4
        /\ x1'.mode \in M \cup {x1.mode} /\ x6' \in {x6, x6 + 1} /\ (x6' = x6 \/ x6 < N)
     \/ /\ x2 # <<>> /\ x2' = Tail(x2) /\ UNCHANGED <<x1, x6>>
        /\ x4'.known \subseteq x4.known \cup Climate!Presets

\* Settled or not, an appliance is in its mode.
LEMMA SettledMode ==
  ASSUME NEW a \in RawApps
  PROVE  Climate!Settled(a).mode = a.mode
BY DEF Climate!Settled, RawApps

\* A command changes the mode to what it asks for, or not at all.
LEMMA ObeyedMode ==
  ASSUME x1 \in RawApps, NEW op \in {"on", "off", "mode", "set"}, NEW arg
  PROVE  Climate!Obeyed(op, arg).mode = IF op = "mode" THEN arg ELSE x1.mode
BY DEF Climate!Obeyed, Climate!Settled, RawApps

\* The remote control leaves it in its mode or one of M.
LEMMA TouchedMode ==
  ASSUME x1 \in Apps, NEW M \in SUBSET AnyMode, TouchedOf(M)
  PROVE  x1'.mode \in M \cup {x1.mode}
<1>1. x1 \in RawApps
  BY DEF Apps
<1>2. CASE x1' = [x1 EXCEPT !.on = ~@]
  BY <1>1, <1>2 DEF RawApps
<1>3. ASSUME NEW m \in M, x1' = Climate!Settled([x1 EXCEPT !.mode = m])
      PROVE  x1'.mode = m
  <2>1. [x1 EXCEPT !.mode = m] \in RawApps /\ [x1 EXCEPT !.mode = m].mode = m
    BY <1>1 DEF RawApps
  <2> QED BY <1>3, <2>1, SettledMode
<1>4. CASE x1' = Climate!Settled([x1 EXCEPT !.two = ~@])
  <2>1. [x1 EXCEPT !.two = ~@] \in RawApps /\ [x1 EXCEPT !.two = ~@].mode = x1.mode
    BY <1>1 DEF RawApps
  <2> QED BY <1>4, <2>1, SettledMode
<1>5. ASSUME NEW t \in Temps, x1' = Climate!Settled([x1 EXCEPT !.sp[Climate!SetPoint(x1)] = t])
      PROVE  x1'.mode = x1.mode
  <2> DEFINE a == [x1 EXCEPT !.sp[Climate!SetPoint(x1)] = t]
  <2>1. a \in RawApps /\ a.mode = x1.mode
    BY <1>1 DEF RawApps
  <2> QED BY <1>5, <2>1, SettledMode
<1> QED BY <1>2, <1>3, <1>4, <1>5 DEF TouchedOf

\* So does a command that the appliance accepts.
LEMMA ObeyedBounds ==
  ASSUME NEW C, NEW R, NEW M, ClimateInv(C, R), NEW c \in C, x5[c].at = "posting",
         x5[c].do.op = "mode" => x5[c].do.arg \in M,
         x1' = Climate!Obeyed(x5[c].do.op, x5[c].do.arg)
  PROVE  x1'.mode \in M \cup {x1.mode}
<1>1. x1 \in RawApps /\ x5 \in [C -> Going(R)]
  BY DEF ClimateInv, Apps
<1>2. x5[c].do.op \in {"on", "off", "mode", "set"}
  BY <1>1, GoingTyped DEF Posts
<1> QED BY <1>1, <1>2, ObeyedMode

\* A step of the instance with several calls keeps to its bounds.
LEMMA ClimateBounds ==
  ASSUME ClimateInv(Calls, ClimateRequests), Climate!Next
  PROVE  BoundsOf(Calls, Modes, MaxChanges)
<1>1. ASSUME NEW c \in Calls, Climate!Obeys(c)
      PROVE  BoundsOf(Calls, Modes, MaxChanges)
  <2>1. x1'.mode \in Modes \cup {x1.mode}
    BY <1>1, ObeyedBounds DEF Climate!Obeys, Climate!Accepts
  <2> QED BY <1>1, <2>1 DEF Climate!Obeys, BoundsOf
<1>2. ASSUME NEW c \in Calls, Climate!Call(c) \/ Climate!Refused(c) \/ Climate!Wake(c)
      PROVE  BoundsOf(Calls, Modes, MaxChanges)
  BY <1>2 DEF Climate!Call, Climate!Refused, Climate!Wake, BoundsOf
<1>3. CASE Climate!Report
  <2>1. x4'.known \subseteq x4.known \cup Climate!Presets
    BY <1>3 DEF Climate!Report, Climate!Updated, Climate!Preset, Climate!Presets
  <2> QED BY <1>3, <2>1 DEF Climate!Report, BoundsOf
<1>4. CASE Climate!Touched
  <2>1. TouchedOf(Modes) /\ Modes \in SUBSET AnyMode /\ x1 \in Apps
    BY <1>4 DEF Climate!Touched, TouchedOf, AnyMode, ClimateInv
  <2>2. x1'.mode \in Modes \cup {x1.mode}
    BY <2>1, TouchedMode
  <2> QED BY <1>4, <2>2 DEF Climate!Touched, BoundsOf
<1> QED BY <1>1, <1>2, <1>3, <1>4 DEF Climate!Next

\* So does one of the instance with one call, whose appliance nobody touches.
LEMMA LoneBounds ==
  ASSUME ClimateInv({Alone}, AllRequests), Lone!Next
  PROVE  BoundsOf({Alone}, AllModes, 0)
<1>1. ASSUME NEW c \in {Alone}, Lone!Obeys(c)
      PROVE  BoundsOf({Alone}, AllModes, 0)
  <2>1. x1'.mode \in AllModes \cup {x1.mode}
    BY <1>1, ObeyedBounds, SameClimate DEF Lone!Obeys, Lone!Accepts
  <2> QED BY <1>1, <2>1 DEF Lone!Obeys, BoundsOf
<1>2. ASSUME NEW c \in {Alone}, Lone!Call(c) \/ Lone!Refused(c) \/ Lone!Wake(c)
      PROVE  BoundsOf({Alone}, AllModes, 0)
  BY <1>2 DEF Lone!Call, Lone!Refused, Lone!Wake, BoundsOf
<1>3. CASE Lone!Report
  <2>1. x4'.known \subseteq x4.known \cup Climate!Presets
    BY <1>3, SameClimate DEF Lone!Report, Climate!Updated, Climate!Preset, Climate!Presets
  <2> QED BY <1>3, <2>1 DEF Lone!Report, BoundsOf
<1>4. CASE Lone!Touched
  <2>1. TouchedOf(AllModes) /\ AllModes \in SUBSET AnyMode /\ x1 \in Apps
    BY <1>4, SameClimate DEF Lone!Touched, TouchedOf, AnyMode, ClimateInv
  <2>2. x1'.mode \in AllModes \cup {x1.mode}
    BY <2>1, TouchedMode
  <2> QED BY <1>4, <2>2 DEF Lone!Touched, BoundsOf
<1> QED BY <1>1, <1>2, <1>3, <1>4 DEF Lone!Next

\* Within the bounds, the types last.
LEMMA BoundsKeepTypes ==
  ASSUME NEW C, NEW R, NEW M, NEW N \in Nat, ClimateInv(C, R), ClimateTyped(C, M, N),
         BoundsOf(C, M, N)
  PROVE  ClimateTyped(C, M, N)'
<1>1. x2 \in Seq(Apps) /\ Len(x2) \in Nat /\ x6 \in 0 .. N
  BY LenProperties DEF ClimateInv, ClimateTyped
<1>2. x7' \subseteq C
  BY DEF ClimateTyped, BoundsOf
<1>3. CASE UNCHANGED <<x1, x2, x4, x6>>
  BY <1>2, <1>3 DEF ClimateTyped
<1>4. CASE /\ Len(x2) < MaxReports /\ x2' = Append(x2, x1') /\ x4' = x4
           /\ x1'.mode \in M \cup {x1.mode} /\ x6' \in {x6, x6 + 1} /\ (x6' = x6 \/ x6 < N)
  <2>1. Len(x2') = Len(x2) + 1
    BY <1>1, <1>4
  <2>2. x6' \in 0 .. N
    BY <1>1, <1>4
  <2>3. Len(x2') <= MaxReports
    BY <1>1, <1>4, <2>1, ChangesAssumption
  <2>4. x1'.mode \in M
    BY <1>4 DEF ClimateTyped
  <2>5. x4'.known \subseteq Climate!Presets
    BY <1>4 DEF ClimateTyped
  <2> QED BY <1>2, <2>2, <2>3, <2>4, <2>5 DEF ClimateTyped
<1>5. CASE /\ x2 # <<>> /\ x2' = Tail(x2) /\ UNCHANGED <<x1, x6>>
           /\ x4'.known \subseteq x4.known \cup Climate!Presets
  <2>1. Len(x2') = Len(x2) - 1
    BY <1>1, <1>5, HeadTailProperties
  <2>2. Len(x2') <= MaxReports
    BY <1>1, <2>1, ChangesAssumption DEF ClimateTyped
  <2> QED BY <1>2, <1>5, <2>2 DEF ClimateTyped
<1> QED BY <1>3, <1>4, <1>5 DEF BoundsOf

\* The two say what the types are.
LEMMA ClimateTypes ==
  /\ ClimateInv(Calls, ClimateRequests) /\ ClimateTyped(Calls, Modes, MaxChanges) => Climate!TypeOK
  /\ ClimateInv({Alone}, AllRequests) /\ ClimateTyped({Alone}, AllModes, 0) => Lone!TypeOK
<1>1. ASSUME NEW C, NEW R, ClimateInv(C, R)
      PROVE  /\ x1.sp \in [SetPoints -> Temps]
             /\ x4.held \in [Climate!Presets -> [Climate!Parts -> SetPoints \cup {None}]]
             /\ \A c \in C : x5[c].at \in {"idle", "posting", "asleep"}
  <2>1. \A g \in Going(R) : g.at \in {"idle", "posting", "asleep"}
    BY DEF Going, Climate!Idle
  <2> QED BY <1>1, <2>1 DEF ClimateInv, Apps, RawApps, Shows
<1>2. /\ Climate!Keys = SetPoints /\ Lone!Keys = SetPoints
      /\ Lone!Presets = Climate!Presets /\ Lone!Parts = Climate!Parts
  BY DEF Climate!Keys, Lone!Keys, SetPoints, Climate!Presets, Lone!Presets, Climate!Parts, Lone!Parts
<1>3. ClimateInv(Calls, ClimateRequests) /\ ClimateTyped(Calls, Modes, MaxChanges) => Climate!TypeOK
  BY <1>1, <1>2 DEF Climate!TypeOK, ClimateTyped
<1>4. ClimateInv({Alone}, AllRequests) /\ ClimateTyped({Alone}, AllModes, 0) => Lone!TypeOK
  BY <1>1, <1>2 DEF Lone!TypeOK, ClimateTyped
<1> QED BY <1>3, <1>4

\* What both instances keep of them.
ClimatesTyped ==
  /\ part = "climate" => ClimateTyped(Calls, Modes, MaxChanges)
  /\ part = "climate_alone" => ClimateTyped({Alone}, AllModes, 0)

\* They hold to begin with, and after every step.
LEMMA ClimatesKeepTypes ==
  /\ EntitiesInit => ClimatesTyped
  /\ ClimatesInv /\ ClimatesTyped /\ [EntitiesNext]_all => ClimatesTyped'
<1>1. ASSUME NEW C, NEW M, NEW N \in Nat, NEW a \in RawApps, a.mode \in M, x1 = Climate!Settled(a),
             x2 = <<>>, x4 = Climate!Updated(Climate!NoState, x1), x6 = 0, x7 = {}
      PROVE  ClimateTyped(C, M, N)
  <2>1. x1.mode \in M
    BY <1>1, SettledMode
  <2>2. x4.known \subseteq Climate!Presets
    BY <1>1 DEF Climate!Updated, Climate!NoState, Climate!Preset, Climate!Presets
  <2>3. Len(x2) = 0
    BY <1>1
  <2>4. 0 <= MaxReports /\ 0 \in 0 .. N
    BY ChangesAssumption
  <2> QED BY <1>1, <2>1, <2>2, <2>3, <2>4 DEF ClimateTyped
<1>2. Climate!Keys = SetPoints /\ Lone!Keys = SetPoints /\ Lone!NoState = Climate!NoState
  BY DEF Climate!Keys, Lone!Keys, SetPoints, Lone!NoState, Climate!NoState,
     Lone!Presets, Climate!Presets, Lone!Parts, Climate!Parts
<1>3. ASSUME EntitiesInit, part = "climate"
      PROVE  ClimateTyped(Calls, Modes, MaxChanges)
  <2>1. Climate!Init
    BY <1>3 DEF EntitiesInit
  <2>2. Modes \in SUBSET AnyMode
    BY DEF AnyMode
  <2>3. PICK a \in RawApps : a.mode \in Modes /\ x1 = Climate!Settled(a)
    <3>1. PICK on \in BOOLEAN, two \in BOOLEAN, m \in Modes, t \in Temps :
            x1 = Climate!Settled([on |-> on, mode |-> m, two |-> two, sp |-> [k \in SetPoints |-> t]])
      BY <1>2, <2>1 DEF Climate!Init
    <3> DEFINE a == [on |-> on, mode |-> m, two |-> two, sp |-> [k \in SetPoints |-> t]]
    <3>2. a \in RawApps /\ a.mode \in Modes
      BY <2>2 DEF RawApps
    <3>3. x1 = Climate!Settled(a)
      BY <3>1
    <3> HIDE DEF a
    <3> QED BY <3>2, <3>3
  <2> QED BY <1>1, <2>1, <2>3, ChangesAssumption DEF Climate!Init
<1>4. ASSUME EntitiesInit, part = "climate_alone"
      PROVE  ClimateTyped({Alone}, AllModes, 0)
  <2>1. Lone!Init
    BY <1>4 DEF EntitiesInit
  <2>2. AllModes \in SUBSET AnyMode
    BY DEF AnyMode
  <2>3. PICK a \in RawApps : a.mode \in AllModes /\ x1 = Climate!Settled(a)
    <3>1. PICK on \in BOOLEAN, two \in BOOLEAN, m \in AllModes, t \in Temps :
            x1 = Climate!Settled([on |-> on, mode |-> m, two |-> two, sp |-> [k \in SetPoints |-> t]])
      BY <1>2, <2>1, SameClimate DEF Lone!Init
    <3> DEFINE a == [on |-> on, mode |-> m, two |-> two, sp |-> [k \in SetPoints |-> t]]
    <3>2. a \in RawApps /\ a.mode \in AllModes
      BY <2>2 DEF RawApps
    <3>3. x1 = Climate!Settled(a)
      BY <3>1
    <3> HIDE DEF a
    <3> QED BY <3>2, <3>3
  <2>4. /\ x2 = <<>> /\ x4 = Climate!Updated(Climate!NoState, x1) /\ x6 = 0 /\ x7 = {}
    BY <1>2, <2>1, SameClimate DEF Lone!Init
  <2> QED BY <1>1, <2>3, <2>4
<1>5. ASSUME ClimatesInv, ClimatesTyped, [EntitiesNext]_all
      PROVE  ClimatesTyped'
  <2>1. part' = part
    BY <1>5, ClimatePart
  <2>2. ASSUME part = "climate"
        PROVE  ClimateTyped(Calls, Modes, MaxChanges)'
    <3>1. CASE Climate!Next
      BY <1>5, <2>2, <3>1, ClimateBounds, BoundsKeepTypes, ChangesAssumption DEF ClimatesInv, ClimatesTyped
    <3>2. CASE UNCHANGED Climate!vars
      BY <1>5, <2>2, <3>2 DEF Climate!vars, ClimatesTyped, ClimateTyped
    <3> QED BY <1>5, <2>2, <3>1, <3>2, ClimatePart
  <2>3. ASSUME part = "climate_alone"
        PROVE  ClimateTyped({Alone}, AllModes, 0)'
    <3>1. CASE Lone!Next
      BY <1>5, <2>3, <3>1, LoneBounds, BoundsKeepTypes DEF ClimatesInv, ClimatesTyped
    <3>2. CASE UNCHANGED Lone!vars
      BY <1>5, <2>3, <3>2 DEF Lone!vars, ClimatesTyped, ClimateTyped
    <3> QED BY <1>5, <2>3, <3>1, <3>2, ClimatePart
  <2> QED BY <2>1, <2>2, <2>3 DEF ClimatesTyped
<1> QED BY <1>3, <1>4, <1>5 DEF ClimatesTyped

\* What each part keeps, of which its types are a part.
PartInv ==
  /\ part = "property" => PropertyInv /\ Property!TypeOK
  /\ part = "timer" => TimerInv
  /\ ClimatesInv /\ ClimatesTyped
  /\ part = "appliance" => Appliance!AppliancesInv
  /\ part = "event" => Event!TypeOK
  /\ part = "door" => DurationInv(DoorKeys) /\ ObservedTyped(DoorKeys, {None})
  /\ part = "oven" => DurationInv(OvenKeys) /\ ObservedTyped(OvenKeys, OvenStates)

\* They keep it from the first state on.
LEMMA PartBegins ==
  ASSUME EntitiesInit PROVE PartInv
<1>1. part = "property" => PropertyInv /\ Property!TypeOK
  BY PropertyBegins, PropertyTyped DEF EntitiesInit
<1>2. part = "timer" => TimerInv
  BY TimerBegins DEF EntitiesInit
<1>3. ClimatesInv /\ ClimatesTyped
  BY ClimatesKept, ClimatesKeepTypes
<1>4. part = "appliance" => Appliance!AppliancesInv
  BY AppliancesInvInit DEF EntitiesInit
<1>5. part = "event" => Event!TypeOK
  BY EventTyped DEF EntitiesInit
<1>6. /\ part = "door" => DurationInv(DoorKeys) /\ ObservedTyped(DoorKeys, {None})
      /\ part = "oven" => DurationInv(OvenKeys) /\ ObservedTyped(OvenKeys, OvenStates)
  BY DurationsBegin, ObservedBegins DEF EntitiesInit, DoorKeys, OvenKeys
<1> QED BY <1>1, <1>2, <1>3, <1>4, <1>5, <1>6 DEF PartInv

\* Every step of any part, or of the entry beside it, keeps it.
LEMMA PartKept ==
  ASSUME PartInv, [EntitiesNext]_all PROVE PartInv'
<1> USE DEF PartInv
<1>1. part' = part
  BY ClimatePart
<1>2. ASSUME part = "property"
      PROVE  PropertyInv' /\ Property!TypeOK'
  <2>1. [Property!Next]_Property!vars /\ (Property!Next \/ UNCHANGED others)
    BY <1>2, PropertyPart DEF EntitiesNext, OthersNext, all, others
  <2> QED BY <1>2, <2>1, PropertyKept, PropertyTyped
<1>3. part = "timer" => TimerInv'
  BY TimerPart, TimerKept
<1>4. ClimatesInv' /\ ClimatesTyped'
  BY ClimatesKept, ClimatesKeepTypes
<1>5. part = "appliance" => Appliance!AppliancesInv'
  BY AppliancesInvStep
<1>6. ASSUME part = "event"
      PROVE  Event!TypeOK'
  <2>1. Event!Next \/ UNCHANGED others
    BY <1>6 DEF EntitiesNext, OthersNext, all, others
  <2> QED BY <1>6, <2>1, EventTyped
<1>7. ASSUME NEW K, NEW S, DurationInv(K), ObservedTyped(K, S), Observed(K, S)!Next \/ UNCHANGED others
      PROVE  DurationInv(K)' /\ ObservedTyped(K, S)'
  <2>1. DurationInv(K)'
    BY <1>7, DurationsKept
  <2> QED BY <1>7, <2>1, ObservedKeepsType
<1>8. part = "door" => DurationInv(DoorKeys)' /\ ObservedTyped(DoorKeys, {None})'
  BY <1>7, ObservedPart
<1>9. part = "oven" => DurationInv(OvenKeys)' /\ ObservedTyped(OvenKeys, OvenStates)'
  BY <1>7, ObservedPart
<1> QED BY <1>1, <1>2, <1>3, <1>4, <1>5, <1>6, <1>8, <1>9

\* EntitiesTypeOK: every variable of every part keeps its type, whatever the entry's
\* set-ups and unloads do.
THEOREM EntitiesTyped == EntitiesSpec => []EntitiesTypeOK
<1> DEFINE Inv == TypeOK /\ Owned /\ Begun /\ PartInv
<1>1. EntitiesInit => Inv
  <2> SUFFICES ASSUME EntitiesInit PROVE Inv
    OBVIOUS
  <2>1. Init
    BY DEF EntitiesInit
  <2>2. TypeOK /\ Owned /\ Begun
    BY <2>1, BoundsAssumption DEF Init, TypeOK, Phases, Owned, Begun
  <2> QED BY <2>2, PartBegins
<1>2. Inv /\ [EntitiesNext]_all => Inv'
  <2> SUFFICES ASSUME Inv, [EntitiesNext]_all PROVE Inv'
    OBVIOUS
  <2>1. [Next]_vars
    BY DEF EntitiesNext, all
  <2>2. TypeOK'
    BY <2>1, EntryTyped
  <2>3. Owned' /\ Begun'
    BY <2>1, OwnedStep, BegunStep, BoundsAssumption
  <2> QED BY <2>2, <2>3, PartKept
<1>3. Inv => EntitiesTypeOK
  <2> SUFFICES ASSUME Inv PROVE EntitiesTypeOK
    OBVIOUS
  <2>1. /\ part = "climate" => Climate!TypeOK
        /\ part = "climate_alone" => Lone!TypeOK
    BY ClimateTypes DEF PartInv, ClimatesInv, ClimatesTyped
  <2>2. /\ part = "door" => Observed({"door_state"}, {None})!TypeOK
        /\ part = "oven" => Observed({"current_state"}, OvenStates)!TypeOK
    BY DEF PartInv, ObservedTyped, DoorKeys, OvenKeys
  <2> QED BY <2>1, <2>2 DEF PartInv, EntitiesTypeOK, TimerInv, Appliance!AppliancesInv
<1> QED BY <1>1, <1>2, <1>3, PTL DEF EntitiesSpec
=============================================================================
