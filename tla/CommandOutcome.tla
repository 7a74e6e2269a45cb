--------------------------- MODULE CommandOutcome ---------------------------
(***************************************************************************)
(* The outcome of control commands to one appliance: the POST of           *)
(* ThinQGuardedApi (api.py), the record, timer and events of Insights      *)
(* (insights.py), and the readings that confirm a command, pushed by MQTT  *)
(* or fetched by the coordinator (coordinator.py).                         *)
(*                                                                         *)
(* Commands run in coroutines of their own and share one record.  LG and   *)
(* the appliance are the environment: a command may take effect before or  *)
(* after its answer, or without one, and readings arrive later than they   *)
(* were taken.                                                             *)
(***************************************************************************)
EXTENDS Naturals, Sequences

CONSTANTS
  Commands,       \* control commands that may be given
  Values,         \* values of the field they set
  None,           \* a write-only field; no command; no reading
  MaxPresses,     \* bound: changes made at the appliance
  MaxFetches,     \* bound: GETs of the state
  MaxRestarts     \* bound: restarts of Home Assistant

ASSUME NoneAssumption == None \notin Values /\ None \notin Commands
ASSUME BoundsAssumption == {MaxPresses, MaxFetches, MaxRestarts} \subseteq Nat

VARIABLES
  posts,          \* commands given: none, waiting for LG, or over
  payload,        \* what each command sets
  applied,        \* commands that have taken effect
  device,         \* the appliance's value
  reports,        \* readings on their way through MQTT
  fetched,        \* the reading a GET is bringing back, or None
  command,        \* Insights.command; of: the command it tells of
  confirm_cancel, \* is the 120-second timer running?
  saved,          \* the record in storage
  last,           \* history: the last event fired about each command
  counts          \* presses, fetches and restarts so far (bounds)

appliance == <<applied, device, reports>>
vars == <<posts, payload, appliance, fetched, command, confirm_cancel, saved,
          last, counts>>

\* A reading of the appliance; with it, as history, the commands for this value
\* that had been given when it was taken.
Readings == [value : Values, asked_by : SUBSET Commands]

Statuses == {"sending", "accepted", "failed", "state_confirmed",
             "accepted_unconfirmed", "unconfirmed_after_restart"}
NoCommand == [status |-> "none", of |-> None, payload |-> None]

Init ==
  /\ posts = [c \in Commands |-> "idle"]
  /\ payload = [c \in Commands |-> None]
  /\ applied = {}
  /\ device \in Values
  /\ reports = <<>>
  /\ fetched = None
  /\ command = NoCommand
  /\ confirm_cancel = FALSE
  /\ saved = NoCommand
  /\ last = [c \in Commands |-> "none"]
  /\ counts = [presses |-> 0, fetches |-> 0, restarts |-> 0]

Counted(what, limit) ==
  /\ counts[what] < limit
  /\ counts' = [counts EXCEPT ![what] = @ + 1]

-----------------------------------------------------------------------------
(***************************************************************************)
(* Insights                                                                *)
(***************************************************************************)
\* emit_command: every change of the record is an event.
Emit(record) ==
  /\ command' = record
  /\ last' = [last EXCEPT ![record.of] = record.status]

\* Mutant: the timer of the command before is left running.
OnCommandKeepsTimer(c, status, value) ==
  /\ confirm_cancel' = (confirm_cancel \/ status = "accepted")
  /\ Emit([status |-> status, of |-> c, payload |-> value])

\* Mutant: an accepted command is not given 120 seconds.
OnCommandNoTimer(c, status, value) ==
  /\ confirm_cancel' = FALSE
  /\ Emit([status |-> status, of |-> c, payload |-> value])

\* on_command: the running timer is cancelled whoever started it.
OnCommand(c, status, value) ==
  /\ confirm_cancel' = (status = "accepted")
  /\ Emit([status |-> status, of |-> c, payload |-> value])

\* Mutant: whatever became of the command, a matching reading confirms it.
ObserveAnyStatus(value) ==
  IF command.of # None /\ command.payload = value
  THEN /\ confirm_cancel' = FALSE
       /\ Emit([command EXCEPT !.status = "state_confirmed"])
  ELSE UNCHANGED <<command, confirm_cancel, last>>

\* observe and payload_confirmed; no reading matches a write-only field.
Observe(value) ==
  IF command.status = "accepted" /\ command.payload = value
  THEN /\ confirm_cancel' = FALSE
       /\ Emit([command EXCEPT !.status = "state_confirmed"])
  ELSE UNCHANGED <<command, confirm_cancel, last>>

\* The 120 seconds are over.
Unconfirmed ==
  /\ confirm_cancel
  /\ confirm_cancel' = FALSE
  /\ IF command.status = "accepted"
     THEN Emit([command EXCEPT !.status = "accepted_unconfirmed"])
     ELSE UNCHANGED <<command, last>>
  /\ UNCHANGED <<posts, payload, appliance, fetched, saved, counts>>

(***************************************************************************)
(* ThinQGuardedApi.async_post_device_control                               *)
(***************************************************************************)
Send(c) ==
  /\ posts[c] = "idle"
  /\ posts' = [posts EXCEPT ![c] = "waiting"]
  /\ \E value \in Values \cup {None} :
       /\ payload' = [payload EXCEPT ![c] = value]
       /\ OnCommand(c, "sending", value)
  /\ UNCHANGED <<appliance, fetched, saved, counts>>

\* LG accepts the command; or the gate refuses it, LG does, or the answer does
\* not come in time.
Answer(c) ==
  /\ posts[c] = "waiting"
  /\ posts' = [posts EXCEPT ![c] = "over"]
  /\ \E status \in {"accepted", "failed"} : OnCommand(c, status, payload[c])
  /\ UNCHANGED <<payload, appliance, fetched, saved, counts>>

(***************************************************************************)
(* The appliance, and the readings taken of it.                            *)
(***************************************************************************)
Reading(value) ==
  [value |-> value,
   asked_by |-> {c \in Commands : posts[c] # "idle" /\ payload[c] = value}]

Changes(value) ==
  /\ device' = value
  /\ reports' = Append(reports, Reading(value))

\* A command reaches the appliance, answered or not.
Apply(c) ==
  /\ posts[c] # "idle"
  /\ c \notin applied
  /\ applied' = applied \cup {c}
  /\ IF payload[c] # None THEN Changes(payload[c]) ELSE UNCHANGED <<device, reports>>
  /\ UNCHANGED <<posts, payload, fetched, command, confirm_cancel, saved, last, counts>>

\* Somebody uses the appliance itself.
Press ==
  /\ Counted("presses", MaxPresses)
  /\ \E value \in Values \ {device} : Changes(value)
  /\ UNCHANGED <<posts, payload, applied, fetched, command, confirm_cancel, saved, last>>

\* LG answers a GET with the value of that moment.
Fetch ==
  /\ fetched = None
  /\ Counted("fetches", MaxFetches)
  /\ fetched' = Reading(device)
  /\ UNCHANGED <<posts, payload, appliance, command, confirm_cancel, saved, last>>

(***************************************************************************)
(* The coordinator takes the readings in.                                  *)
(***************************************************************************)
\* handle_update_status
HandleReport ==
  /\ reports # <<>>
  /\ Observe(Head(reports).value)
  /\ reports' = Tail(reports)
  /\ UNCHANGED <<posts, payload, applied, device, fetched, saved, counts>>

\* _async_update_data; a GET may also end in UpdateFailed.
FetchDone ==
  /\ fetched # None
  /\ Observe(fetched.value) \/ UNCHANGED <<command, confirm_cancel, last>>
  /\ fetched' = None
  /\ UNCHANGED <<posts, payload, appliance, saved, counts>>

(***************************************************************************)
(* Storage                                                                 *)
(***************************************************************************)
\* The delayed save writes the record of that moment.
Save ==
  /\ saved # command
  /\ saved' = command
  /\ UNCHANGED <<posts, payload, appliance, fetched, command, confirm_cancel, last, counts>>

\* Mutant: the record is taken from storage as it was.
LoadAsSaved == saved

\* load: what was under way can no longer be followed.
Load ==
  IF saved.status \in {"sending", "accepted"}
  THEN [saved EXCEPT !.status = "unconfirmed_after_restart"]
  ELSE saved

\* Home Assistant stops and starts: coroutines, timer and readings are lost.  (A
\* reload of the entry alone, which spares the coroutines, is left out: their
\* answers go to the closed Insights.)
Restart ==
  /\ Counted("restarts", MaxRestarts)
  /\ command' = Load
  /\ confirm_cancel' = FALSE
  /\ posts' = [c \in Commands |-> IF posts[c] = "waiting" THEN "over" ELSE posts[c]]
  /\ fetched' = None
  /\ reports' = <<>>
  /\ UNCHANGED <<payload, applied, device, saved, last>>

-----------------------------------------------------------------------------
Next ==
  \/ \E c \in Commands : Send(c) \/ Answer(c) \/ Apply(c)
  \/ Unconfirmed
  \/ Press
  \/ Fetch
  \/ HandleReport
  \/ FetchDone
  \/ Save
  \/ Restart

Spec == Init /\ [][Next]_vars

\* A request has a total timeout of 15 seconds, and the timer one of 120.
FairSpec ==
  /\ Spec
  /\ \A c \in Commands : WF_vars(Answer(c))
  /\ WF_vars(Unconfirmed)

-----------------------------------------------------------------------------
(***************************************************************************)
(* Properties.                                                             *)
(***************************************************************************)
\* Every variable has its type.
TypeOK ==
  /\ posts \in [Commands -> {"idle", "waiting", "over"}]
  /\ payload \in [Commands -> Values \cup {None}]
  /\ applied \subseteq Commands
  /\ device \in Values
  /\ reports \in Seq(Readings)
  /\ fetched \in Readings \cup {None}
  /\ {command, saved} \subseteq
       [status : Statuses, of : Commands, payload : Values \cup {None}] \cup {NoCommand}
  /\ confirm_cancel \in BOOLEAN
  /\ last \in [Commands -> Statuses \cup {"none"}]
  /\ counts \in [{"presses", "fetches", "restarts"} -> Nat]

\* The record is never left waiting for something that will not come: while it
\* says "accepted" the timer runs, and the timer runs for nothing else; while
\* it says "sending" that command is waiting for LG.
OutcomePending ==
  /\ command.status = "accepted" <=> confirm_cancel
  /\ command.status = "sending" => posts[command.of] = "waiting"

\* "may remain accepted_unconfirmed after 120 seconds": no outcome stays
\* "sending" or "accepted" for ever.
Settles ==
  command.status \in {"sending", "accepted"} ~>
    command.status \notin {"sending", "accepted"}

\* The events of each command come in the order of CommandEvents, however the
\* commands overlap and whatever restart cuts them off.  Which reading confirms
\* a command is not its subject, but that of ConfirmedSubsequently.
Events == INSTANCE CommandEvents

EventsInOrder == Events!Spec

\* "Command confirmation requires a subsequent report/GET": a command is
\* confirmed only by a reading taken of the appliance after it was given.
\* The code compares with whatever arrives next (observe).
ConfirmedSubsequently ==
  [][\A c \in Commands :
       last[c] # "state_confirmed" /\ last'[c] = "state_confirmed" =>
         c \in (IF reports' # reports THEN Head(reports) ELSE fetched).asked_by]_vars
=============================================================================
