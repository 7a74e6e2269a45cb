------------------------------ MODULE Entities ------------------------------
(***************************************************************************)
(* What has to do with entities: a property and the platforms that list    *)
(* it, a timer sensor, climate and the other appliances' services, errors  *)
(* and notifications, the config entry, and the durations of a door and of *)
(* an oven.                                                                *)
(*                                                                         *)
(* None of them shares state with another, so a behaviour is one of any of *)
(* them: "part" tells which.  The entry is this module's own; the others   *)
(* take turns in the variables x1 ..., while it stays as it begins.        *)
(***************************************************************************)
EXTENDS EntryLifecycle, Sequences

CONSTANTS
  None,
  Cases, Lower, Upper, Asked, RunStates,             \* of PropertyControl
  Length, Horizon,                                   \* of TimerSensor
  Calls, ClimateRequests, Modes,                     \* of ClimateControl, and of its
  Alone, AllRequests, AllModes,                      \* instance with a single call
  Temps, Limits, MaxReports, MaxChanges,
  Kinds, Speeds, FanPresets, Percents, Levels,       \* of Appliances, with Calls
  Errors, Messages, Alarming,                        \* of EventStatus
  MaxEventTime, MaxErrors,
  OvenStates, DayLength, Retention, MaxDay,          \* of Observations
  MaxObserved

ASSUME NoneAssumption ==
  None \notin Int \cup {"select", "number", "running", "drying", "pause", "preheating",
                     "cooking_in_progress", "open", "true"}
ASSUME TimerAssumption == Length \in Nat /\ Horizon \in Nat
ASSUME EventAssumption ==
  /\ MaxEventTime \in Nat /\ MaxErrors \in Nat
  /\ Messages \cap Errors = {} /\ None \notin Messages \cup Errors
  /\ Alarming \subseteq Messages \cup Errors
ASSUME ChangesAssumption == MaxReports \in Nat /\ MaxChanges \in Nat
ASSUME ObservedAssumption == DayLength \in Nat \ {0} /\ MaxDay \in Nat

\* The profiles LG sends: the values of an enumeration are lists of names in use; a range
\* whose step is a whole number begins and ends at one.  A select lists enumerations
\* with a setter that takes an option, and shares them with no sensor that reads; a number
\* lists ranges.
ListOrNothing(d) == (d[1] = "list" /\ d[2] \subseteq DOMAIN Lower) \/ d = <<"none">>
WholeRange(d) ==
  /\ d[1] = "range" /\ d[2] \in [min : Int, max : Int, step : Nat \ {0}] /\ d[2] # None
  /\ d[2].step % 2 = 0 => d[2].min % 2 = 0 /\ d[2].max % 2 = 0
ASSUME AskedAssumption == Asked \subseteq Int
ASSUME NamesAssumption ==
  {"True", "False"} \subseteq DOMAIN Lower /\ Lower["True"] = "true" /\ Lower["False"] = "false"
ASSUME CasesAssumption ==
  \A c \in Cases :
    /\ c.raw.type = "enum" => ListOrNothing(c.raw.r) /\ ListOrNothing(c.raw.w)
    /\ c.raw.type = "range" => /\ "r" \in c.raw.mode => WholeRange(c.raw.r)
                               /\ "w" \in c.raw.mode => WholeRange(c.raw.w)
    /\ "select" \in c.platforms =>
         /\ "reading" \notin c.platforms
         /\ c.raw.type = "enum" /\ c.setter \notin {"none", "range", "pair"}
         /\ c.raw.w[1] = "list" => \A v \in c.raw.w[2] : Upper[Lower[v]] = v
    /\ "number" \in c.platforms => c.raw.type = "range"

\* What Home Assistant passes to the climate services, and the ranges of the profile: the
\* mode of a temperature is one of its own, never a preset of LG's.
IsRequest(r) ==
  /\ r = [op |-> r.op, mode |-> r.mode, temp |-> r.temp, range |-> r.range]
  /\ r.temp \in Temps \cup {None} /\ r.range \in (Temps \X Temps) \cup {None}
  /\ r.op = "temperature" => r.mode \notin {"energy_saving", "air_clean", "aroma"}
SetPoints == {"TARGET", "HEAT", "COOL", "AUTO", "TWO_HEAT", "TWO_COOL"}
ASSUME RequestsAssumption ==
  /\ None \notin Temps /\ None \notin SetPoints
  /\ \A r \in ClimateRequests \cup AllRequests : IsRequest(r)
ASSUME LimitsAssumption ==
  \A k \in SetPoints : Limits[k].min \in Int /\ Limits[k].max \in Int


\* The appliances LG sells, and what Home Assistant asks of them: a fan offers at least
\* one speed that is no preset, and its speeds have the names the entity knows; a hood has
\* so few speeds, each one more than the one before, that a percentage tells them apart.
ASSUME KindsAssumption ==
  Kinds \subseteq {"fan", "hood", "humidifier", "heater", "boiler", "vacuum"}
ASSUME PercentsAssumption == Percents \subseteq 0 .. 100
ASSUME FanAssumption ==
  "fan" \in Kinds =>
    /\ FanPresets \subseteq Speeds /\ ~(Speeds \subseteq FanPresets)
    /\ Speeds \ FanPresets \subseteq {"low", "mid", "high", "turbo", "power"}
ASSUME LevelsAssumption ==
  /\ \A k \in Kinds \ {"fan", "vacuum"} :
       Levels[k].min \in Int /\ Levels[k].max \in Int /\ Levels[k].step \in Nat \ {0}
  /\ "hood" \in Kinds =>
       Levels["hood"].step = 1 /\ Levels["hood"].max - Levels["hood"].min \in 1 .. 50

VARIABLES
  part,           \* the one this behaviour is of
  x1, x2, x3, x4, x5, x6, x7, x8, x9, x10, x11, x12, x13, x14

others == <<x1, x2, x3, x4, x5, x6, x7, x8, x9, x10, x11, x12, x13, x14>>
all == <<part, vars, others>>

----------------------------------------------------------------------------
(* The instances.                                                          *)

Property == INSTANCE PropertyControl WITH
  case <- x1, rw <- x2, done <- x3, entities <- x4, added <- x5, options <- x6,
  range <- x7, status <- x8, last <- x9, control <- x10

Timer == INSTANCE TimerSensor WITH
  key <- x1, now <- x2, running <- x3, left <- x4, spent <- x5, on <- x6,
  reading <- x7, device <- x8, shown <- x9, steady <- x10

Climate == INSTANCE ClimateControl WITH
  Requests <- ClimateRequests,
  app <- x1, wire <- x2, dev <- x3, st <- x4, call <- x5, changes <- x6, calm <- x7

Lone == INSTANCE ClimateControl WITH
  Calls <- {Alone}, Requests <- AllRequests, Modes <- AllModes, MaxChanges <- 0,
  app <- x1, wire <- x2, dev <- x3, st <- x4, call <- x5, changes <- x6, calm <- x7

Appliance == INSTANCE Appliances WITH
  Users <- Calls, Presets <- FanPresets,
  kind <- x1, unit <- x2, seen <- x3, held <- x4, calls <- x5, synced <- x6

Event == INSTANCE EventStatus WITH
  Horizon <- MaxEventTime,
  fault <- x1, told <- x2, cached <- x3, attr <- x4, value <- x5, shown <- x6,
  fired <- x7, clock <- x8, history <- x9, previous <- x10, healthy <- x11, times <- x12,
  given <- x13

\* A device with the properties K, whose current_state is one of S.
Observed(K, S) == INSTANCE Observations WITH
  Keys <- K, States <- S, MaxCount <- MaxObserved,
  now <- x1, previous <- x2, since <- x3, cycle <- x4, last_tick <- x5,
  connected <- x6, days <- x7, values <- x8, stored <- x9, mqtt_connected <- x10,
  claim <- x11, lastGap <- x12, activeSeen <- x13, watch <- x14

----------------------------------------------------------------------------
EntitiesInit ==
  /\ Init
  /\ \/ /\ part = "property" /\ Property!Init
        /\ x11 = None /\ x12 = None /\ x13 = None /\ x14 = None
     \/ /\ part = "timer" /\ Timer!Init
        /\ x11 = None /\ x12 = None /\ x13 = None /\ x14 = None
     \/ /\ part = "climate" /\ Climate!Init
        /\ x8 = None /\ x9 = None /\ x10 = None /\ x11 = None /\ x12 = None
        /\ x13 = None /\ x14 = None
     \/ /\ part = "climate_alone" /\ Lone!Init
        /\ x8 = None /\ x9 = None /\ x10 = None /\ x11 = None /\ x12 = None
        /\ x13 = None /\ x14 = None
     \/ /\ part = "appliance" /\ Appliance!Init
        /\ x7 = None /\ x8 = None /\ x9 = None /\ x10 = None /\ x11 = None
        /\ x12 = None /\ x13 = None /\ x14 = None
     \/ /\ part = "event" /\ Event!Init
        /\ x14 = None
     \/ /\ part = "door" /\ Observed({"door_state"}, {None})!Init
     \/ /\ part = "oven" /\ Observed({"current_state"}, OvenStates)!Init
     \/ /\ part = "lifecycle"
        /\ x1 = None /\ x2 = None /\ x3 = None /\ x4 = None /\ x5 = None
        /\ x6 = None /\ x7 = None /\ x8 = None /\ x9 = None /\ x10 = None
        /\ x11 = None /\ x12 = None /\ x13 = None /\ x14 = None

OthersNext ==
  \/ part = "property" /\ Property!Next /\ UNCHANGED <<x11, x12, x13, x14>>
  \/ part = "timer" /\ Timer!Next /\ UNCHANGED <<x11, x12, x13, x14>>
  \/ part = "climate" /\ Climate!Next /\ UNCHANGED <<x8, x9, x10, x11, x12, x13, x14>>
  \/ part = "climate_alone" /\ Lone!Next /\ UNCHANGED <<x8, x9, x10, x11, x12, x13, x14>>
  \/ part = "appliance" /\ Appliance!Next /\ UNCHANGED <<x7, x8, x9, x10, x11, x12, x13, x14>>
  \/ part = "event" /\ Event!Next /\ UNCHANGED x14
  \/ part = "door" /\ Observed({"door_state"}, {None})!Next
  \/ part = "oven" /\ Observed({"current_state"}, OvenStates)!Next

EntitiesNext ==
  /\ UNCHANGED part
  /\ \/ part = "lifecycle" /\ Next /\ UNCHANGED others
     \/ OthersNext /\ UNCHANGED vars

EntitiesSpec == EntitiesInit /\ [][EntitiesNext]_all

----------------------------------------------------------------------------
(* The properties, each of its part.  NothingLeft and CountsKept are the    *)
(* entry's own.                                                             *)

\* Every variable of every part keeps its type.
EntitiesTypeOK ==
  /\ TypeOK
  /\ part = "property" => Property!TypeOK
  /\ part = "timer" => Timer!TypeOK
  /\ part = "climate" => Climate!TypeOK
  /\ part = "climate_alone" => Lone!TypeOK
  /\ part = "appliance" => Appliance!TypeOK
  /\ part = "event" => Event!TypeOK
  /\ part = "door" => Observed({"door_state"}, {None})!TypeOK
  /\ part = "oven" => Observed({"current_state"}, OvenStates)!TypeOK

\* Entities keep to the profile, in whatever order the platforms of a property were set
\* up: the device class never refuses an option a select offers (what is not posted is a
\* state an oven's or laundry select displays, or the guard's to refuse), what a number
\* sends is a value the profile allows even where the setter checks no range (unless a
\* sensor shares the holder), and a sensor of an enumeration shows one of its options,
\* whichever value of its profile LG reports, for Home Assistant raises for any other.
ProfileKept ==
  part = "property" =>
    Property!OfferedIsAccepted /\ Property!SentIsWritable /\ Property!SensorAmongOptions

\* A control a platform offers has a setter in its device class, and the setter of a
\* part says which part it is of: of all the tables, only the hours of an air
\* conditioner post nothing, and only those of a washtower's dryer leave the part out.
ControlsHaveSetters == part = "property" => Property!ControlsHaveSetters

\* The moment a timer sensor shows tells the truth and does not waver: after a full
\* report it is at most a minute and a half off, whatever was paused, extended or shown
\* before; while a cycle runs evenly it never moves; and there is none once the appliance
\* has said it is off.
MomentTells ==
  [][part = "timer" =>
       Timer!ReportTellsStep /\ Timer!MomentSteadyStep /\ Timer!OffShowsNothing']_all

\* Once every report has arrived, the entity shows what the appliance does (its mode, the
\* set point of the mode, both bounds in auto with two set points, no temperature while
\* it is off), and the range Home Assistant checks a temperature against is that of the
\* property the temperature would be written to: the setters check none.
ShownTruth ==
  /\ part = "climate" => Climate!ShownTruth /\ Climate!RangeOfHolder
  /\ part = "climate_alone" => Lone!ShownTruth /\ Lone!RangeOfHolder

\* A call of async_set_temperature that nothing disturbs, and whose own reports arrive
\* while it sleeps, ends with the appliance on, in the mode and at the temperature asked
\* for, for it goes on with the holder and the reading of the new mode.  A command for
\* one of two bounds carries both, and leaves the other as the appliance has it.
AskedIsReached ==
  [][/\ part = "climate" => Climate!AskedIsReachedStep /\ Climate!OtherBoundKeptStep
     /\ part = "climate_alone" => Lone!AskedIsReachedStep /\ Lone!OtherBoundKeptStep]_all

\* What a fan or a hood shows as its speed, set again, posts the speed it has: the two
\* roundings undo each other; and no percentage makes it post a speed it does not offer.
SpeedRoundTrip == part = "appliance" => Appliance!SpeedRoundTrip /\ Appliance!SpeedOffered

\* A call that begins with the appliance's last report in hand, and that nothing
\* disturbs or refuses, leaves the appliance as it asked: what it skips is so
\* already, and a robot gets the command its state needs.
AskedIsDone == [][part = "appliance" => Appliance!AskedIsDoneStep]_all

\* An event entity fires an error only if it is the last thing LG said of the error,
\* though it may fire it anew at every update (ErrorFiredWhenTold), and a status sensor
\* shows no other; a notification is fired when it comes, and once more at most, if a
\* poll fails first.
FiredWasSaid == [][part = "event" => Event!FiredIsLast' /\ Event!NotificationOnceStep]_all

\* What the monitoring has been given is in the local history: the last message, the
\* last alarming one with its time but for a minute, and each of those in the count,
\* however short after another message, and across gaps and partial reports.
GivenIsCounted == part = "event" => Event!GivenIsCounted

\* No open, preheat or cooking time, whether recorded or shown as current, reaches back
\* over a gap or a restart.
DurationsWatched ==
  [][/\ part = "door" => /\ Observed({"door_state"}, {None})!NoDurationBridgesStep
                        /\ Observed({"door_state"}, {None})!CurrentDurationWatched'
     /\ part = "oven" => /\ Observed({"current_state"}, OvenStates)!NoDurationBridgesStep
                        /\ Observed({"current_state"}, OvenStates)!CurrentDurationWatched']_all
=============================================================================
