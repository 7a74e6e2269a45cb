----------------------------- MODULE EventStatus -----------------------------
(***************************************************************************)
(* The errors and notifications of a device: the error attribute of the    *)
(* client's device, the states HABridge keeps of both, the event entities  *)
(* that fire them, the status sensors that show them (event.py, sensor.py, *)
(* coordinator.py), and the device's local message history (metrics.py).   *)
(*                                                                         *)
(* The session is up, and what LG sends is handled when it comes.  Time is *)
(* in half minutes.                                                        *)
(***************************************************************************)
EXTENDS Integers, FiniteSets

CONSTANTS
  Errors,         \* error codes
  Messages,       \* notifications that LG pushes, none of them an error
  Alarming,       \* those of both whose text has "error" or "failed"
  None,
  Horizon,        \* bound on the clock
  MaxErrors       \* bound on the errors counted

VARIABLES
  fault,          \* what is wrong with the appliance
  told,           \* history: the error in the last report that had the field
  cached,         \* the error in the client's StateCache
  attr,           \* the error attribute of the device
  value,          \* the state of either property: [error, notification]
  shown,          \* the status sensors
  fired,          \* history: what the last step fired
  clock,
  history,        \* Observations.values: last message, last error, when, and how many errors
  previous,       \* Observations.previous of the error
  healthy,        \* DataUpdateCoordinator.last_update_success
  times,          \* history: how often the last notification pushed was fired
  given           \* history: what the monitoring has been given

states == <<cached, attr, value>>
entities == <<shown, fired, times>>
local == <<history, previous, given>>
vars == <<fault, told, states, entities, clock, local, healthy>>

Fields == {"error", "notification"}

\* ThinQEventEntity._update_status
FiredBy(v) == {<<f, v[f]>> : f \in {g \in Fields : v[g] # None}}

\* ThinQEventStatusSensor._update_status
Shown(v) == [f \in Fields |-> IF v[f] # None THEN v[f] ELSE "OK"]

\* Mutant: the entities are updated before the states.
UpdatedBefore ==
  /\ fired' = FiredBy(value)
  /\ shown' = Shown(value)

\* Every update of the coordinator reaches all its entities, whatever it is about.
Updated ==
  /\ fired' = FiredBy(value')
  /\ shown' = Shown(value')

\* async_set_updated_data, and a poll that succeeds.
SetUpdated == Updated /\ healthy' = TRUE

\* A notification fired counts on from n.
FiredFrom(n) ==
  times' = n + (IF \E e \in fired' : e[1] = "notification" THEN 1 ELSE 0)

\* Mutant: the states of device properties only are updated.
StatesUpdatedAllButNotification ==
  value' = [value EXCEPT !.error = attr']

\* HABridge.update_status, fetch_data: every state reads its property again; the device
\* has no attribute for a notification.
StatesUpdated == value' = [error |-> attr', notification |-> None]

\* A message noted as the last one, and an alarming one as the last error.
Noted(h, message) ==
  IF message \in Alarming
  THEN [last |-> message, at |-> clock, last_error |-> message, error_at |-> clock,
        errors |-> h.errors + 1]
  ELSE [h EXCEPT !.last = message, !.at = clock]

\* Mutant: no message is recorded within a minute of another.
RecordedOnceAMinute(h, message) ==
  IF h.last # None /\ clock - h.at < 2 THEN h ELSE Noted(h, message)

\* Observations.notification: the same message is not recorded again for a minute.
Recorded(h, message) ==
  IF h.last = message /\ clock - h.at < 2 THEN h ELSE Noted(h, message)

\* The monitoring is given a message: it is the last one, and the last alarming one.
Given(message) ==
  /\ history' = Recorded(history, message) /\ history'.errors <= MaxErrors
  /\ given' = IF message \in Alarming
              THEN [last |-> message, error |-> message, at |-> clock,
                    all |-> given.all \cup {message}]
              ELSE [given EXCEPT !.last = message]

\* Observations.observe, on the error.
Observed ==
  /\ previous' = value'.error
  /\ IF value'.error # None /\ value'.error # previous THEN Given(value'.error)
     ELSE /\ given' = [given EXCEPT !.all = @ \cup ({value'.error} \cap Alarming)]
          /\ UNCHANGED history

Init ==
  /\ fault \in Errors \cup {None}
  /\ told = None /\ cached = None /\ attr = None
  /\ value = [f \in Fields |-> None]
  /\ shown = Shown(value) /\ fired = {} /\ times = 0 /\ clock = 0
  /\ history = [last |-> None, at |-> 0, last_error |-> None, error_at |-> 0, errors |-> 0]
  /\ previous = None
  /\ given = [last |-> None, error |-> None, at |-> 0, all |-> {}]
  /\ healthy = TRUE

Fault ==
  /\ fault' \in (Errors \cup {None}) \ {fault}
  /\ fired' = {}
  /\ UNCHANGED <<told, states, shown, times, clock, local, healthy>>

Tick ==
  /\ clock < Horizon /\ clock' = clock + 1
  /\ fired' = {}
  /\ UNCHANGED <<fault, told, states, shown, times, local, healthy>>

\* A GET answered: one whose reading the monitoring is given (a poll, or
\* get_device_data), or a control guard's.
Fetched(observed) ==
  /\ told' = fault /\ cached' = fault /\ attr' = fault
  /\ StatesUpdated /\ SetUpdated /\ FiredFrom(times)
  /\ IF observed THEN Observed ELSE UNCHANGED local
  /\ UNCHANGED <<fault, clock>>

\* The first of a row of failed polls updates the entities with what there is.
Failed ==
  /\ healthy /\ healthy' = FALSE
  /\ UNCHANGED states /\ Updated /\ FiredFrom(times)
  /\ UNCHANGED <<fault, told, clock, local>>

\* handle_update_status: __set_error_status takes a report without an error for one
\* that there is none; merge_report does not.
Reported(withError) ==
  /\ IF withError THEN told' = fault /\ cached' = fault /\ attr' = fault
     ELSE attr' = None /\ UNCHANGED <<told, cached>>
  /\ StatesUpdated /\ SetUpdated /\ FiredFrom(times) /\ Observed
  /\ UNCHANGED <<fault, clock>>

\* handle_notification_message
Pushed(message) ==
  /\ Given(message)
  /\ value' = [value EXCEPT !.notification = message]
  /\ SetUpdated /\ FiredFrom(0)
  /\ UNCHANGED <<fault, told, cached, attr, clock, previous>>

\* Observations.gap, when the MQTT connection is lost.
Gap ==
  /\ previous' = None
  /\ fired' = {}
  /\ UNCHANGED <<fault, told, states, shown, times, clock, history, given, healthy>>

Next ==
  \/ Fault \/ Tick \/ Failed \/ Gap
  \/ \E b \in BOOLEAN : Fetched(b) \/ Reported(b)
  \/ \E m \in Messages : Pushed(m)

Spec == Init /\ [][Next]_vars

----------------------------------------------------------------------------
TypeOK ==
  /\ fault \in Errors \cup {None} /\ attr \in Errors \cup {None}
  /\ value.error \in Errors \cup {None} /\ value.notification \in Messages \cup {None}
  /\ clock \in 0 .. Horizon
  /\ history \in [last : Errors \cup Messages \cup {None}, at : 0 .. Horizon,
                  last_error : Alarming \cup {None}, error_at : 0 .. Horizon,
                  errors : 0 .. MaxErrors]

\* The device and the states hold the last error told, or none.
Told ==
  /\ attr \in {None, told}
  /\ DOMAIN value = Fields /\ value["error"] \in {None, told}

\* What the entities have made of the states.
Presented ==
  /\ shown["error"] \in {"OK", told}
  /\ \A e \in fired : e[1] = "error" => e[2] = told

\* A notification still in the states was fired once, unless a poll has just failed.
FiredTwiceAtMost ==
  /\ times \in 0 .. 2
  /\ healthy /\ value["notification"] # None => times <= 1

\* An event entity fires an error only if it is the last thing LG said of the error,
\* though it may fire it anew at every update, and a status sensor shows no other.
FiredIsLast ==
  /\ \A e \in fired : e[1] = "error" => e[2] = told
  /\ shown.error \in {"OK", told}

\* A notification is fired when it comes, and once more at most, if a poll fails before
\* any report: the next reading of the states takes it away, and nothing that was
\* fetched or reported fires it.
NotificationOnceStep ==
  /\ \A m \in Messages : <<"notification", m>> \in fired' => Pushed(m) \/ Failed
  /\ times' <= 2
NotificationOnce == [][NotificationOnceStep]_vars

\* What the monitoring has been given is in the local history: the last message, the
\* last one whose text alarms, with its time but for a minute, and each of those in
\* the count, however short after another message, across the gaps and the partial
\* reports that hide it, and also where only a reading repeats it.  An error whose
\* text says neither "error" nor "failed" is kept as the last message only.
GivenIsCounted ==
  /\ history.last = given.last
  /\ history.last_error = given.error
  /\ given.at - history.error_at \in {0, 1}
  /\ Cardinality(given.all) <= history.errors

\* "The event entity still records genuine notifications and errors with their
\* timestamps" (EVENT_STATUS.md): an error is fired when LG tells one.  The code fires
\* the error it still holds at the other updates too, with their time.
ErrorFiredWhenTold ==
  [][(\E e \in Errors : <<"error", e>> \in fired') =>
       Reported(TRUE) \/ \E b \in BOOLEAN : Fetched(b)]_vars
=============================================================================
