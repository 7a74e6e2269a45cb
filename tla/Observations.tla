---------------------------- MODULE Observations ----------------------------
(***************************************************************************)
(* The local history of one device: client-side durations, cycle counts    *)
(* and door statistics (metrics.py), the Monitoring object that feeds and  *)
(* stores them (monitoring.py) and the MQTT connection callback that marks *)
(* the intervals nobody observed (mqtt.py).                                *)
(*                                                                         *)
(* One current_state, one door_state and one express_mode property stand   *)
(* for the location-prefixed ones, which the code treats independently.    *)
(* Time is counted in whole seconds from 0; a day has DayLength of them.   *)
(***************************************************************************)
EXTENDS Integers, FiniteSets

CONSTANTS
  Keys,        \* the tracked properties the device has
  States,      \* the current_state readings the device can report, perhaps None
  None,        \* Python's None; also "key is not in the dict"
  DayLength,   \* seconds in a day
  Retention,   \* daily buckets kept (35 in the code)
  MaxDay,      \* bound: the clock stops at the end of this day
  MaxCount     \* bound: cycles, and openings a day, that are observed

ASSUME KeysAssumption == Keys \subseteq {"current_state", "door_state", "express_mode"}
ASSUME NoneAssumption == /\ None \notin {"running", "drying", "pause", "preheating",
                                          "cooking_in_progress", "open", "true"}
                         /\ None \notin Nat
ASSUME BoundsAssumption == /\ DayLength \in Nat \ {0}
                           /\ Retention \in Nat \ {0}
                           /\ MaxDay \in Nat
                           /\ MaxCount \in Nat

VARIABLES
  now,            \* dt_util.now()
  previous,       \* Observations.previous: last reading of each key
  since,          \* Observations.since: when that reading began
  cycle,          \* Observations.cycles: the cycle being observed, or None
  last_tick,      \* Observations.last_tick
  connected,      \* Observations.connected
  days,           \* Observations.saved["days"]; a missing bucket is all zeros
  values,         \* Observations.saved["values"]: counters and last durations
  stored,         \* what the Store holds on disk
  mqtt_connected, \* Monitoring.mqtt_connected
  claim,          \* history: seconds counted eagerly, those of outages apart
  lastGap,        \* history: time of the last gap or restart
  activeSeen,     \* history: an active reading since the last end, stop or gap
  watch           \* history: the last reading since then, and whether LG's broker
                  \* is known to be lost

device == <<previous, since, cycle, last_tick, connected>>
saved == <<days, values>>
ghosts == <<claim, lastGap, activeSeen, watch>>
vars == <<now, device, saved, stored, mqtt_connected, ghosts>>

MaxTime == (MaxDay + 1) * DayLength - 1
Time == 0 .. MaxTime
Day == 0 .. MaxDay

(***************************************************************************)
(* Readings.  "running" stands for every member of ACTIVE but "drying",    *)
(* which alone is accounted differently.                                   *)
(***************************************************************************)
ACTIVE == {"running", "drying"}
OVEN_ACTIVE == {"preheating", "cooking_in_progress"}
Idle == {"initial", "power_off", "end", "reserved"}

Readings(k) ==
  IF k = "current_state" THEN States
  ELSE IF k = "door_state" THEN {None, "open", "close"}
  ELSE {None, "true", "false"}

Report == {data \in [Keys -> {None, "open", "close", "true", "false"} \cup States] :
             \A k \in Keys : data[k] \in Readings(k)}

\* The duration counter a reading feeds, None when it feeds none.
Stage(v) ==
  CASE v = "drying" -> "drying"
    [] v \in ACTIVE \ {"drying"} -> "washing"
    [] v = "pause" -> "paused"
    [] v \in OVEN_ACTIVE -> v
    [] v = "open" -> "door_open"
    [] v = "true" -> "express"
    [] OTHER -> None

SecondsMetric == {Stage(v) : v \in UNION {Readings(k) : k \in Keys}} \ {None}
CountMetric == {"openings", "completed_cycles"}
Metric == SecondsMetric \cup CountMetric

Duration == {"last_cycle", "last_open", "last_preheat", "last_cooking"}

Lookup(f, k) == IF k \in Keys THEN f[k] ELSE None

DayOf(t) == t \div DayLength

\* Mutant: the whole interval goes to the day it began on.
OverlapUncut(from, to, d) == IF d = DayOf(from) THEN to - from ELSE 0

\* Seconds of [from, to) that fall on day d: the loop that cuts the interval
\* at every midnight it crosses.
Overlap(from, to, d) ==
  LET first == IF from > d * DayLength THEN from ELSE d * DayLength
      end   == IF to < (d + 1) * DayLength THEN to ELSE (d + 1) * DayLength
  IN  IF first < end THEN end - first ELSE 0

NoBucket == [m \in Metric |-> 0]
NoHistory == [d \in Day |-> NoBucket]
NoReading == [k \in Keys |-> None]

Buckets(ds) == {d \in Day : ds[d] # NoBucket}

\* Mutant: one bucket too many is kept.
TrimOneLess(ds) ==
  [d \in Day |-> IF Cardinality({e \in Buckets(ds) : e > d}) <= Retention
                 THEN ds[d] ELSE NoBucket]

\* The trailing clean-up of every add: only the newest buckets survive.
Trim(ds) ==
  [d \in Day |-> IF Cardinality({e \in Buckets(ds) : e > d}) < Retention
                 THEN ds[d] ELSE NoBucket]

\* Every counter fed by the readings in prev gains the seconds of [from, to).
Accrue(ds, prev, from, to) ==
  [d \in Day |-> [m \in Metric |->
     ds[d][m] + (IF \E k \in Keys : Stage(prev[k]) = m
                 THEN Overlap(from, to, d) ELSE 0)]]

\* A count metric gains one for each event of this moment.
Bump(ds, events) ==
  [d \in Day |-> [m \in Metric |->
     ds[d][m] + (IF d = DayOf(now) /\ m \in events THEN 1 ELSE 0)]]

-----------------------------------------------------------------------------
(***************************************************************************)
(* Observations.advance: seconds since the last tick go to the readings    *)
(* held during them.                                                       *)
(***************************************************************************)
Tracking == last_tick # None /\ connected

Advanced ==
  IF Tracking THEN Trim(Accrue(days, previous, last_tick, now)) ELSE days

(***************************************************************************)
(* Observations.observe, by the part of its effect.                        *)
(***************************************************************************)
Turned(data, k, from, to) ==
  /\ Lookup(previous, k) = from
  /\ Lookup(data, k) = to

\* The cycle in progress once this reading is taken, before END pops it.
Begun(data) ==
  LET old == Lookup(previous, "current_state")
  IN  IF /\ Lookup(data, "current_state") \in ACTIVE
         /\ old \notin ACTIVE \cup {"pause"}
      THEN [start |-> IF old \in Idle THEN now ELSE None]
      ELSE cycle

StateChanged(data) ==
  Lookup(data, "current_state") # Lookup(previous, "current_state")

Completes(data) ==
  /\ StateChanged(data)
  /\ Lookup(data, "current_state") = "end"
  /\ cycle # None

\* Mutant: END counts the cycle but does not pop it.
CycleAfterKeptByEnd(data) ==
  IF Lookup(data, "current_state") \in {"power_off", "error"} /\ StateChanged(data)
  THEN None ELSE Begun(data)

\* END, POWER_OFF and ERROR all drop the cycle in progress.
CycleAfter(data) ==
  IF Lookup(data, "current_state") \in {"end", "power_off", "error"} /\ StateChanged(data)
  THEN None ELSE Begun(data)

Events(data) ==
  {m \in CountMetric :
     \/ m = "openings" /\ Turned(data, "door_state", "close", "open")
     \/ m = "completed_cycles" /\ Completes(data)}

\* The duration a completed interval leaves behind, else the old value.
Elapsed(data, k, from, to, old) ==
  IF Turned(data, k, from, to) /\ since[k] # None THEN now - since[k] ELSE old

\* Mutant: the operands swapped.
CycleSecondsSwapped ==
  IF cycle.start # None THEN cycle.start - now ELSE None

\* The length of a completed cycle, unknown when its start was not seen.
CycleSeconds ==
  IF cycle.start # None THEN now - cycle.start ELSE None

ValuesAfter(data) ==
  [maintenance_observed |->
     values.maintenance_observed + (IF Completes(data) THEN 1 ELSE 0),
   last_cycle |->
     IF ~Completes(data) THEN values.last_cycle
     ELSE CycleSeconds,
   last_open |-> Elapsed(data, "door_state", "open", "close", values.last_open),
   last_preheat |-> Elapsed(data, "current_state", "preheating",
                            "cooking_in_progress", values.last_preheat),
   last_cooking |-> Elapsed(data, "current_state", "cooking_in_progress",
                            "done", values.last_cooking)]

ActiveSeenAfter(data) ==
  LET s == Lookup(data, "current_state")
  IN  \/ s \in ACTIVE
      \/ activeSeen /\ s \notin {"end", "power_off", "error"}

Observe(data) ==
  /\ days' = Trim(Bump(Advanced, Events(data)))
  /\ values' = ValuesAfter(data)
  /\ previous' = data
  /\ since' = [k \in Keys |-> IF data[k] # previous[k] THEN now ELSE since[k]]
  /\ cycle' = CycleAfter(data)
  /\ last_tick' = now
  /\ connected' = TRUE
  /\ activeSeen' = ActiveSeenAfter(data)
  /\ watch' = [watch EXCEPT !.held = data]

-----------------------------------------------------------------------------
NoValues == [maintenance_observed |-> 0, last_cycle |-> None, last_open |-> None,
             last_preheat |-> None, last_cooking |-> None]

Init ==
  /\ now = 0
  /\ previous = NoReading
  /\ since = NoReading
  /\ cycle = None
  /\ last_tick = None
  /\ connected = TRUE
  /\ days = NoHistory
  /\ values = NoValues
  /\ stored = [days |-> NoHistory, values |-> NoValues]
  /\ mqtt_connected = FALSE
  /\ claim = [watched |-> NoHistory, missed |-> NoHistory]
  /\ lastGap = 0
  /\ activeSeen = FALSE
  /\ watch = [held |-> NoReading, outage |-> FALSE]

\* A history with the second that begins now, if it is of this kind; days no longer
\* retained are dropped.
Claimed(history, ofThis) ==
  [d \in Day |-> IF d + Retention > DayOf(now + 1)
                 THEN IF ofThis THEN Accrue(history, watch.held, now, now + 1)[d]
                      ELSE history[d]
                 ELSE NoBucket]

\* A second passes; the history variables count it at once for the reading last
\* taken, and apart when the broker is known to be lost.
ClockStep ==
  /\ now < MaxTime
  /\ now' = now + 1
  /\ claim' = [watched |-> Claimed(claim.watched, ~watch.outage),
               missed |-> Claimed(claim.missed, watch.outage)]
  /\ UNCHANGED <<device, saved, stored, mqtt_connected,
                 lastGap, activeSeen, watch>>

\* The 30-second timer.
Tick ==
  /\ days' = Advanced
  /\ last_tick' = now
  /\ UNCHANGED <<now, previous, since, cycle, connected, values, stored,
                 mqtt_connected, ghosts>>

WithinBounds ==
  /\ values'.maintenance_observed <= MaxCount
  /\ \A d \in Day : days'[d]["openings"] <= MaxCount

\* A DEVICE_STATUS push; the broker session must be up.
ObserveReport(data) ==
  /\ mqtt_connected
  /\ Observe(data)
  /\ WithinBounds
  /\ UNCHANGED <<now, stored, mqtt_connected, claim, lastGap>>

\* A GET answer: set-up, unit change or the get_device_data service.
ObserveFetch(data) ==
  /\ Observe(data)
  /\ WithinBounds
  /\ UNCHANGED <<now, stored, mqtt_connected, claim, lastGap>>

\* Mutant: the cycle in progress survives the gap.
GapKeepsCycle ==
  /\ previous' = NoReading
  /\ since' = NoReading
  /\ last_tick' = None
  /\ connected' = FALSE
  /\ UNCHANGED cycle

\* Mutant: the readings survive the gap.
GapKeepsReadings ==
  /\ cycle' = None
  /\ last_tick' = None
  /\ connected' = FALSE
  /\ UNCHANGED <<previous, since>>

\* Observations.gap
Gap ==
  /\ previous' = NoReading
  /\ since' = NoReading
  /\ cycle' = None
  /\ last_tick' = None
  /\ connected' = FALSE

Connected ==
  /\ mqtt_connected' = TRUE
  /\ watch' = [watch EXCEPT !.outage = FALSE]
  /\ UNCHANGED <<now, device, saved, stored, claim, lastGap, activeSeen>>

Disconnected ==
  /\ mqtt_connected' = FALSE
  /\ days' = Advanced
  /\ Gap
  /\ lastGap' = now
  /\ activeSeen' = FALSE
  /\ watch' = [held |-> NoReading, outage |-> TRUE]
  /\ UNCHANGED <<now, values, stored, claim>>

\* The delayed save (or the one of Monitoring.close) reaches the disk.
Save ==
  /\ stored' = [days |-> days, values |-> values]
  /\ UNCHANGED <<now, device, saved, mqtt_connected, ghosts>>

\* Home Assistant stops, cleanly or not, and the entry is set up again.
Restart ==
  /\ previous' = NoReading
  /\ since' = NoReading
  /\ cycle' = None
  /\ last_tick' = None
  /\ connected' = TRUE
  /\ days' = stored.days
  /\ values' = stored.values
  /\ mqtt_connected' = FALSE
  /\ claim' = [watched |-> stored.days, missed |-> NoHistory]
  /\ lastGap' = now
  /\ activeSeen' = FALSE
  /\ watch' = [held |-> NoReading, outage |-> FALSE]
  /\ UNCHANGED <<now, stored>>

Next ==
  \/ ClockStep
  \/ Tick
  \/ \E data \in Report : ObserveReport(data)
  \/ \E data \in Report : ObserveFetch(data)
  \/ Connected
  \/ Disconnected
  \/ Save
  \/ Restart

Spec == Init /\ [][Next]_vars

\* Observations.duration for the states in active, as the sensors show it.
CurrentDuration(k, active) ==
  IF ~connected \/ previous[k] = None THEN None
  ELSE IF previous[k] \notin active THEN 0
  ELSE now - since[k]

-----------------------------------------------------------------------------
(***************************************************************************)
(* Properties.                                                             *)
(***************************************************************************)
Reading == {None, "open", "close", "true", "false"} \cup States
History == [Day -> [Metric -> Nat]]
Values == [maintenance_observed : Nat, last_cycle : Nat \cup {None},
           last_open : Nat \cup {None}, last_preheat : Nat \cup {None},
           last_cooking : Nat \cup {None}]

\* Every variable keeps its type; in particular no duration is negative.
TypeOK ==
  /\ now \in Time
  /\ previous \in [Keys -> Reading]
  /\ since \in [Keys -> Time \cup {None}]
  /\ cycle \in [start : Time \cup {None}] \cup {None}
  /\ last_tick \in Time \cup {None}
  /\ connected \in BOOLEAN
  /\ days \in History
  /\ values \in Values
  /\ stored \in [days : History, values : Values]
  /\ mqtt_connected \in BOOLEAN
  /\ claim \in [watched : History, missed : History]
  /\ lastGap \in Time
  /\ activeSeen \in BOOLEAN
  /\ watch \in [held : [Keys -> Reading], outage : BOOLEAN]

\* The seconds in the buckets, with those the next tick will add.
Counting == IF Tracking THEN Accrue(days, previous, last_tick, now) ELSE days

\* In the buckets of the retained days, with the next tick, are the seconds a clock
\* ticking every second would have counted for the reading last taken since the last
\* loss of the broker or restart: no interval is lost, counted twice, put on the wrong
\* day or bridged over a gap, whatever the order of ticks, reports, losses and
\* restarts.  Among them are the seconds of a known outage for which a GET had
\* brought a reading (OutagesExcluded).
AccrualExact ==
  \A d \in Day, m \in SecondsMetric :
    d + Retention > DayOf(now) =>
      Counting[d][m] = claim.watched[d][m] + claim.missed[d][m]

\* "They exclude known MQTT disconnects", "leave a gap, not count the disconnected
\* interval" (MONITORING.md): none of those seconds passed in a known outage.  The
\* code counts them once a GET is answered in one, which marks the device connected.
OutagesExcluded ==
  \A d \in Day, m \in SecondsMetric :
    d + Retention > DayOf(now) => Counting[d][m] = claim.watched[d][m]

\* The history holds at most Retention buckets, however long it runs.
BoundedHistory == Cardinality(Buckets(days)) <= Retention

\* A cycle is counted only if an active reading was taken since the last END,
\* stop, gap or restart: repeated ENDs and unwatched cycles count nothing.
CompletionFollowsActive ==
  [][values'.maintenance_observed > values.maintenance_observed => activeSeen]_vars

\* A duration that observe records lies after the last gap or restart.
NoDurationBridgesStep ==
  \A m \in Duration :
    values'[m] \notin {values[m], stored.values[m], None} =>
      values'[m] <= now - lastGap
NoDurationBridges == [][NoDurationBridgesStep]_vars

\* Nor does a duration shown as current reach back over a gap or restart.
CurrentDurationWatched ==
  \A k \in Keys :
    LET shown == CurrentDuration(k, Readings(k))
    IN  shown # None => shown <= now - lastGap
=============================================================================
