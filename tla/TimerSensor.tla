----------------------------- MODULE TimerSensor ----------------------------
(***************************************************************************)
(* The sensors of a TimerPropertyState (integration/homeassistant/state.py *)
(* and ThinQSensorEntity in sensor.py): hours and minutes an appliance     *)
(* reports become the moment a cycle ends, or began, or an oven's minutes. *)
(* Any update of the coordinator recomputes the moment from the last       *)
(* reading and the clock, and one that differs by a minute or less is      *)
(* dropped, so that the moment does not waver.                             *)
(*                                                                         *)
(* Time is in half minutes; the appliance reports whole minutes.  No time  *)
(* of an appliance's profile reaches 24 hours.                             *)
(***************************************************************************)
EXTENDS Integers

CONSTANTS
  Length,         \* of a cycle, in half minutes
  Horizon,        \* how long the appliance is watched
  None

VARIABLES
  key,            \* the TimerProperty of the sensor
  now,            \* the clock
  running,        \* whether the appliance counts
  left, spent,    \* what remains of the cycle and how long it has run
  on,             \* whether its current_state is other than power_off
  reading,        \* hour and minute attributes, as minutes; None when unreported
  device,         \* the current_state last reported
  shown,          \* native_value
  steady          \* history: every update since shown was set was of an even run

vars == <<key, now, running, left, spent, on, reading, device, shown, steady>>

Keys == {"remain", "running", "relative_to_stop", "target"}

\* TimerPropertyState.update: hours and minutes that are no numbers count as none.
Time == IF reading' = None THEN None ELSE 2 * reading'

\* A sensor with a moment, and TARGET and TIMER, which show minutes.
Moment(time) == IF key = "running" THEN now - time ELSE now + time

\* Mutants: only a later moment counts; any other moment counts.
FarLater(a, b) == a - b > 2
FarAtAll(a, b) == a # b

Far(a, b) == (IF a > b THEN a - b ELSE b - a) > 2

\* Mutant: that the appliance is off is not looked at.
UpdatedWhenOff ==
  CASE Time \in {None, 0} -> None
    [] Time \notin {None, 0} /\ key = "target" -> reading'
    [] OTHER -> IF shown # None /\ ~Far(Moment(Time), shown) THEN shown ELSE Moment(Time)

\* ThinQSensorEntity._update_status.  Midnight, or no time left, shows nothing, and
\* so do the remaining and the total time of an appliance that is off.
Updated ==
  CASE Time \in {None, 0} \/ (key = "remain" /\ device' = "power_off") -> None
    [] Time \notin {None, 0} /\ key = "target" -> reading'
    [] OTHER -> IF shown # None /\ ~Far(Moment(Time), shown) THEN shown ELSE Moment(Time)

Init ==
  /\ key \in Keys
  /\ now = 0 /\ on = TRUE /\ left = Length /\ spent = 0 /\ running = TRUE
  /\ reading = None /\ device = "power_off" /\ shown = None /\ steady = FALSE

\* What the appliance shows of itself, in minutes.
Minutes ==
  CASE key = "running" -> spent \div 2
    [] key = "target" -> Length \div 2
    [] OTHER -> left \div 2

Tick ==
  /\ now < Horizon
  /\ now' = now + 1
  /\ IF running /\ left > 0 THEN left' = left - 1 /\ spent' = spent + 1
     ELSE UNCHANGED <<left, spent>>
  /\ UNCHANGED <<key, running, on, reading, device, shown, steady>>

\* Somebody pauses or resumes the cycle, or the appliance extends it.
Disturb ==
  /\ on
  /\ \/ running' = ~running /\ UNCHANGED left
     \/ left > 0 /\ left + 5 <= Length /\ left' = left + 5 /\ UNCHANGED running
  /\ steady' = FALSE
  /\ UNCHANGED <<key, now, spent, on, reading, device, shown>>

Switch ==
  /\ on' = ~on /\ running' = on' /\ steady' = FALSE
  /\ left' = IF on' THEN Length ELSE 0
  /\ spent' = 0
  /\ UNCHANGED <<key, now, reading, device, shown>>

\* A full report, and the update of the entities it causes.
Report ==
  /\ reading' = Minutes /\ device' = IF on THEN "running" ELSE "power_off"
  /\ shown' = Updated
  /\ steady' = (IF shown = None \/ (shown' # shown /\ ~steady) THEN running ELSE steady)
  /\ UNCHANGED <<key, now, running, left, spent, on>>

\* A report without the time, or any other update of the coordinator's listeners:
\* the moment is computed anew from an old reading.
Refresh ==
  /\ device' \in {device, IF on THEN "running" ELSE "power_off"}
  /\ UNCHANGED reading
  /\ shown' = Updated
  /\ steady' = FALSE
  /\ UNCHANGED <<key, now, running, left, spent, on>>

Next == Tick \/ Disturb \/ Switch \/ Report \/ Refresh

Spec == Init /\ [][Next]_vars

----------------------------------------------------------------------------
TypeOK ==
  /\ now \in 0 .. Horizon /\ left \in 0 .. Length /\ spent \in 0 .. Horizon
  /\ reading \in Nat \cup {None} /\ shown \in Int \cup {None}
  /\ on \in BOOLEAN /\ running \in BOOLEAN /\ steady \in BOOLEAN

\* What an even run keeps: the moment shown is that of the run, cut to the minute.
Even ==
  /\ spent <= now
  /\ left > 0 => on
  /\ steady => running
  /\ steady /\ shown # None /\ left > 0 =>
       /\ key \in {"remain", "relative_to_stop"} => shown - (now + left) \in -1 .. 0
       /\ key = "running" => spent >= 2 /\ shown - (now - spent) \in 0 .. 1

\* After a full report the moment shown is at most a minute and a half from the
\* truth, whatever was paused, extended or shown before.
ReportTellsStep ==
  Report /\ key \in {"remain", "relative_to_stop"} /\ on /\ left >= 2 =>
    /\ shown' # None
    /\ shown' - (now + left) \in -3 .. 2
ReportTells == [][ReportTellsStep]_vars

\* While a cycle runs evenly and every update brings a reading, the moment it ends
\* or began never moves: readings cut to the minute stay within the minute allowed.
MomentSteadyStep ==
  steady /\ steady' /\ shown # None /\ key # "target" /\ running /\ left' > 1 =>
    shown' = shown
MomentSteady == [][MomentSteadyStep]_vars

\* A sensor of the remaining time shows nothing once the appliance has said it is
\* off, even if the report left the old time standing.
OffShowsNothing ==
  key = "remain" /\ device = "power_off" => shown = None
=============================================================================
