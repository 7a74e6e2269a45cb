----------------------------- MODULE Appliances -----------------------------
(***************************************************************************)
(* Fan, hood, humidifier, water heater, boiler and robot cleaner: service  *)
(* calls that decide by what the appliance last reported, and post at most *)
(* two commands (fan.py, humidifier.py, water_heater.py, vacuum.py, and    *)
(* the states of integration/homeassistant/state.py).                      *)
(*                                                                         *)
(* An appliance is [on, mode, level]: the speed of a fan is its level, a   *)
(* robot's state its mode.  A report carries the whole of it.              *)
(***************************************************************************)
EXTENDS Integers, Sequences, FiniteSets

CONSTANTS
  Kinds,          \* the kinds of appliance
  Users,          \* service calls that may overlap
  Speeds,         \* the wind strengths the profile of a fan offers
  Presets,        \* those of them its entity treats as preset modes
  Percents,       \* percentages a user may ask for
  Levels,         \* per kind: min, max and step of its speed, humidity or temperature
  None

ORDERED_NAMED_FAN_SPEEDS == <<"low", "mid", "high", "turbo", "power">>

VARIABLES
  kind,           \* of the appliance
  unit,           \* the appliance
  seen,           \* its last report, as the state and the entity have it
  held,           \* whether the target temperature helper has a holder
  calls,          \* the service calls
  synced          \* history: calls that have only seen the appliance as it was

vars == <<kind, unit, seen, held, calls, synced>>

\* Mutant: the names the profile lacks are not left out.
NamedSpeedsAll == ORDERED_NAMED_FAN_SPEEDS

\* ThinQFanEntity.__init__: the named speeds the profile offers, in their order; the
\* names it lacks are removed at the first option that is no preset.
Kept(i) == LET s == ORDERED_NAMED_FAN_SPEEDS[i] IN IF s \in Speeds THEN <<s>> ELSE <<>>
NamedSpeeds == IF Speeds \subseteq Presets THEN ORDERED_NAMED_FAN_SPEEDS
               ELSE Kept(1) \o Kept(2) \o Kept(3) \o Kept(4) \o Kept(5)

ModesOf(k) ==
  CASE k = "fan" -> Speeds
    [] k = "hood" -> {"hood"}
    [] k = "vacuum" -> {"sleep", "standby", "working", "pause", "homing"}
    [] k = "humidifier" -> {"auto", "sleep"}
    [] k = "heater" -> {"heat_pump", "turbo"}
    [] k = "boiler" -> {"heat"}
LevelsOf(k) ==
  CASE k \in {"fan", "vacuum"} -> {0}
    [] k = "hood" -> Levels[k].min .. Levels[k].max
    [] OTHER -> {l \in Levels[k].min .. Levels[k].max :
                   (l - Levels[k].min) % Levels[k].step = 0}
States(k) == [on : IF k \in {"hood", "vacuum"} THEN {TRUE} ELSE BOOLEAN,
              mode : ModesOf(k), level : LevelsOf(k)]

----------------------------------------------------------------------------
(* What the entities show.                                                 *)

\* ordered_list_item_to_percentage and percentage_to_ordered_list_item
ItemToPercentage(list, item) ==
  ((CHOOSE i \in 1 .. Len(list) : list[i] = item) * 100) \div Len(list)
\* Mutant: the item whose percentage is more than p.
PercentageToNextItem(list, p) ==
  LET more == {i \in 1 .. Len(list) : p < (i * 100) \div Len(list)} IN
  list[IF more = {} THEN Len(list) ELSE CHOOSE i \in more : \A j \in more : i <= j]

PercentageToItem(list, p) ==
  LET enough == {i \in 1 .. Len(list) : p <= (i * 100) \div Len(list)} IN
  list[IF enough = {} THEN Len(list) ELSE CHOOSE i \in enough : \A j \in enough : i <= j]

\* round(): half to even.
Rounded(n, d) ==
  LET q == n \div d
      r == n % d
  IN  IF 2 * r < d \/ (2 * r = d /\ q % 2 = 0) THEN q ELSE q + 1

\* The speeds of a hood without the lowest, which is off; ranged_value_to_percentage,
\* percentage_to_ranged_value and the round() of async_set_percentage.
SpeedCount == Levels["hood"].max - Levels["hood"].min
SpeedToPercentage(v) == ((v - Levels["hood"].min) * 100) \div SpeedCount
PercentageToSpeed(p) == Rounded(SpeedCount * p + Levels["hood"].min * 100, 100)

\* percentage, as _update_status leaves it
ShownPercentage ==
  CASE kind = "hood" -> IF seen.level = Levels["hood"].min THEN 0
                        ELSE SpeedToPercentage(seen.level)
    [] kind = "fan" -> IF seen.on /\ seen.mode \notin Presets
                       THEN ItemToPercentage(NamedSpeeds, seen.mode) ELSE 0

\* WaterHeaterPropertyState.target_temp
ShownTarget == IF kind = "humidifier" \/ seen.on THEN seen.level ELSE None

----------------------------------------------------------------------------
(* The services: a list of commands, each decided when its turn comes.     *)

Do(op, arg) == [op |-> op, arg |-> arg]
Skip == Do("nothing", None)

HoodSpeed(p) == IF p = 0 THEN Do("level", Levels["hood"].min)
                ELSE Do("level", PercentageToSpeed(p))

FanDo(r) ==
  CASE r.op \in {"on", "off"} \/ (r.op = "percent" /\ r.arg = 0) ->
         Do(IF r.op = "on" THEN "on" ELSE "off", None)
    [] r.op = "percent" /\ r.arg # 0 -> Do("mode", PercentageToItem(NamedSpeeds, r.arg))
    [] r.op = "preset" -> Do("mode", r.arg)

HoodDo(r) ==
  CASE r.op = "percent" -> HoodSpeed(r.arg)
    [] r.op = "on" -> Do("level", Levels["hood"].min + 1)
    [] r.op = "off" -> Do("level", Levels["hood"].min)

\* Mutant: both do nothing while it is on.
HumidifierDoUnlessOn(r) ==
  LET step == Levels["humidifier"].step
      h == Rounded(r.arg, step) * step
  IN  CASE r.op \in {"on", "off"} -> IF seen.on THEN Skip ELSE Do(r.op, None)
        [] r.op = "mode" -> Do("mode", r.arg)
        [] r.op = "humidity" -> IF h = ShownTarget THEN Skip ELSE Do("level", h)

\* async_turn_on and async_turn_off drop what is so already, async_set_humidity a
\* humidity that is the target already.
HumidifierDo(r) ==
  LET step == Levels["humidifier"].step
      h == Rounded(r.arg, step) * step
  IN  CASE r.op \in {"on", "off"} -> IF seen.on = (r.op = "on") THEN Skip ELSE Do(r.op, None)
        [] r.op = "mode" -> Do("mode", r.arg)
        [] r.op = "humidity" -> IF h = ShownTarget THEN Skip ELSE Do("level", h)

\* A boiler turns a mode into on or off; HOT_WATER_MODE into ON and OFF.
HeaterDo(r) ==
  CASE r.op \in {"on", "off"} -> Do(r.op, None)
    [] r.op = "mode" -> IF kind = "heater" THEN Do("mode", r.arg)
                        ELSE Do(IF r.arg = "off" THEN "off" ELSE "on", None)
    [] r.op = "temperature" -> CASE r.arg = ShownTarget -> Skip
                                 [] r.arg # ShownTarget /\ ~held -> Do("fail", None)
                                 [] OTHER -> Do("level", r.arg)

\* async_start wakes a sleeping robot and resumes a paused one.
VacuumDo(r) ==
  Do("robot", CASE r.op = "start" -> IF seen.mode = "sleep" THEN "wake_up"
                                     ELSE IF seen.mode = "pause" THEN "resume" ELSE "start"
                [] r.op = "pause" -> "pause"
                [] r.op = "home" -> "homing")

Decided(r) ==
  CASE kind = "fan" -> FanDo(r)
    [] kind = "hood" -> HoodDo(r)
    [] kind = "humidifier" -> HumidifierDo(r)
    [] kind \in {"heater", "boiler"} -> HeaterDo(r)
    [] kind = "vacuum" -> VacuumDo(r)

\* What may be asked for; a temperature may come with an operation mode, which is
\* set first, and "off" ends the call there.
Temperatures(k, modes) ==
  {<<Do("temperature", t)>> : t \in Levels[k].min .. Levels[k].max}
    \cup {<<Do("mode", m)>> : m \in modes \cup {"off"}}
    \cup {<<Do("mode", m), Do("temperature", t)>> :
            m \in modes, t \in Levels[k].min .. Levels[k].max}
Requests(k) ==
  CASE k = "fan" -> {<<Do(o, None)>> : o \in {"on", "off"}}
                      \cup {<<Do("percent", p)>> : p \in Percents}
                      \cup {<<Do("preset", m)>> : m \in Presets}
    [] k = "hood" -> {<<Do(o, None)>> : o \in {"on", "off"}}
                       \cup {<<Do("percent", p)>> : p \in Percents}
    [] k = "humidifier" -> {<<Do(o, None)>> : o \in {"on", "off"}}
                       \cup {<<Do("mode", m)>> : m \in {"auto", "sleep"}}
                       \cup {<<Do("humidity", h)>> : h \in Levels[k].min .. Levels[k].max}
    [] k = "heater" -> Temperatures(k, {"heat_pump", "turbo"})
    [] k = "boiler" -> Temperatures(k, {"heat_pump"})
                         \cup {<<Do(o, None)>> : o \in {"on", "off"}}
    [] k = "vacuum" -> {<<Do(o, None)>> : o \in {"start", "pause", "home"}}

----------------------------------------------------------------------------
(* The appliance, of which only its reports and refusals are known.        *)

InProfile(k, l) == /\ Levels[k].min <= l /\ l <= Levels[k].max
                   /\ (l - Levels[k].min) % Levels[k].step = 0

Accepts(do) ==
  CASE do.op = "level" -> InProfile(kind, do.arg)
    [] do.op = "mode" -> do.arg \in ModesOf(kind)
    [] do.op = "robot" -> CASE do.arg = "wake_up" -> unit.mode = "sleep"
                            [] do.arg = "resume" -> unit.mode = "pause"
                            [] do.arg = "start" -> unit.mode \in {"standby", "working", "homing"}
                            [] OTHER -> unit.mode # "sleep"
    [] OTHER -> do.op # "fail"

RobotAfter == [wake_up |-> "standby", resume |-> "working", start |-> "working",
               pause |-> "pause", homing |-> "homing"]

\* What a becomes of it.
Obeyed(a, do) ==
  CASE do.op \in {"on", "off"} -> [a EXCEPT !.on = (do.op = "on")]
    [] do.op = "level" -> [a EXCEPT !.level = do.arg]
    [] do.op = "mode" -> [a EXCEPT !.mode = do.arg]
    [] do.op = "robot" -> [a EXCEPT !.mode = RobotAfter[do.arg]]

----------------------------------------------------------------------------
Idle == [todo |-> <<>>, do |-> Skip, asked |-> <<>>]

\* The call comes to its next request: what it need not post is passed over, and
\* what cannot be set raises.
Wanted(todo) == {i \in 1 .. Len(todo) : Decided(todo[i]) # Skip}
First(todo) == CHOOSE i \in Wanted(todo) : \A j \in Wanted(todo) : i <= j
Raises(todo) == Wanted(todo) # {} /\ Decided(todo[First(todo)]).op = "fail"
Goes(u, todo, asked) ==
  calls' = [calls EXCEPT ![u] =
              IF Wanted(todo) = {} \/ Raises(todo) THEN Idle
              ELSE [todo |-> SubSeq(todo, First(todo) + 1, Len(todo)),
                    do |-> Decided(todo[First(todo)]), asked |-> asked]]

Init ==
  /\ kind \in Kinds /\ unit \in States(kind) /\ seen = unit /\ held = unit.on
  /\ calls = [u \in Users |-> Idle] /\ synced = {}

Ask(u) ==
  /\ calls[u] = Idle
  /\ \E r \in Requests(kind) : Goes(u, r, r)
  /\ synced' = IF seen = unit /\ \A v \in Users : calls[v] = Idle THEN {u} ELSE {}
  /\ UNCHANGED <<kind, unit, seen, held>>

Obeys(u) ==
  /\ calls[u] # Idle /\ Accepts(calls[u].do)
  /\ unit' = Obeyed(unit, calls[u].do)
  /\ Goes(u, calls[u].todo, calls[u].asked)
  /\ synced' = IF Raises(calls[u].todo) THEN {} ELSE synced \cap {u}
  /\ UNCHANGED <<kind, seen, held>>

Refused(u) ==
  /\ calls[u] # Idle
  /\ calls' = [calls EXCEPT ![u] = Idle] /\ synced' = synced \ {u}
  /\ UNCHANGED <<kind, unit, seen, held>>

\* WaterHeaterPropertyState.update: the helper is updated only while it is on.
Report ==
  /\ seen # unit
  /\ seen' = unit /\ held' = (held \/ unit.on)
  /\ UNCHANGED <<kind, unit, calls, synced>>

Touched ==
  /\ unit' \in States(kind) \ {unit}
  /\ Cardinality({f \in DOMAIN unit : unit'[f] # unit[f]}) = 1
  /\ synced' = {}
  /\ UNCHANGED <<kind, seen, held, calls>>

Next == Report \/ Touched \/ \E u \in Users : Ask(u) \/ Obeys(u) \/ Refused(u)

Spec == Init /\ [][Next]_vars

----------------------------------------------------------------------------
TypeOK ==
  /\ kind \in Kinds /\ unit \in States(kind) /\ seen \in States(kind)
  /\ held \in BOOLEAN /\ synced \subseteq Users

\* What a fan or a hood shows as its speed, set again, posts the speed it has: the
\* two roundings undo each other.
SpeedRoundTrip ==
  kind \in {"fan", "hood"} /\ ShownPercentage # 0 =>
    LET do == Decided(Do("percent", ShownPercentage)) IN
    do.arg = (IF kind = "hood" THEN seen.level ELSE seen.mode)

\* A fan is sent only wind strengths its profile offers, a hood only speeds of its
\* range, whatever percentage is asked for.
SpeedOffered ==
  \A u \in Users : kind \in {"fan", "hood"} /\ calls[u].do.op \in {"mode", "level"} =>
    Accepts(calls[u].do)

\* What a request wants of an appliance of kind k.
Wants(k, r, a) ==
  CASE r.op \in {"on", "off"} -> IF k = "hood" THEN (a.level # Levels["hood"].min) = (r.op = "on")
                                 ELSE a.on = (r.op = "on")
    [] r.op = "humidity" -> 2 * a.level \in 2 * r.arg - Levels[k].step ..
                                            2 * r.arg + Levels[k].step
    [] r.op = "temperature" -> a.level = r.arg
    [] r.op = "mode" -> IF k = "boiler" THEN a.on = (r.arg # "off") ELSE a.mode = r.arg
    [] r.op = "preset" -> a.mode = r.arg
    [] r.op = "start" -> a.mode \notin {"sleep", "pause"}
    [] r.op = "pause" -> a.mode = "pause"
    [] r.op = "home" -> a.mode = "homing"
    [] r.op = "percent" -> IF r.arg = 0 THEN k = "hood" \/ ~a.on
                           ELSE IF k = "fan" THEN ItemToPercentage(NamedSpeeds, a.mode) >= r.arg
                           ELSE LET off == SpeedCount * r.arg - 100 * (a.level - Levels["hood"].min)
                                IN  -50 <= off /\ off <= 50

\* A call that nothing disturbed or refused, or one that posts nothing.
AskedIsDoneOnceObeyed ==
  \A u \in synced \cap synced' : Obeys(u) /\ calls'[u] = Idle =>
    \A i \in 1 .. Len(calls[u].asked) : Wants(kind, calls[u].asked[i], unit')
AskedIsDoneWhenSkipped ==
  \A r \in Requests(kind) : seen = unit /\ Wanted(r) = {} =>
    \A i \in 1 .. Len(r) : Wants(kind, r[i], unit)

\* A call that begins with the appliance's last report in hand, and that nothing
\* disturbs or refuses, leaves the appliance as it asked: what it skips is so
\* already, and a robot gets the command its state needs.
AskedIsDoneStep == AskedIsDoneOnceObeyed /\ AskedIsDoneWhenSkipped
AskedIsDone == [][AskedIsDoneStep]_vars

----------------------------------------------------------------------------
(* The invariant these rest on.                                            *)

\* What is posted to an appliance of kind k.
Commands(k) ==
  LET switches == {Do(o, None) : o \in {"on", "off"}}
      modes == {Do("mode", m) : m \in ModesOf(k)}
      levels == {Do("level", l) : l \in Levels[k].min .. Levels[k].max}
      rounded == {Do("level", Rounded(l, Levels[k].step) * Levels[k].step) :
                    l \in Levels[k].min .. Levels[k].max}
  IN CASE k = "fan" -> switches \cup modes
       [] k = "hood" -> levels
       [] k = "humidifier" -> switches \cup modes \cup rounded
       [] k = "heater" -> modes \cup {Do("mode", "off")} \cup levels
       [] k = "boiler" -> switches \cup levels
       [] k = "vacuum" -> {Do("robot", r) : r \in DOMAIN RobotAfter}

\* A call under way has one command at hand; of two requests the second, if it comes
\* to it, is the temperature.
UnderWay(k, c) ==
  /\ c.asked \in Requests(k) /\ c.do \in Commands(k)
  /\ \/ Len(c.asked) = 1 /\ c.todo = <<>>
     \/ Len(c.asked) = 2 /\ c.todo = <<c.asked[2]>> /\ c.do.op # "level"
     \/ Len(c.asked) = 2 /\ c.todo = <<>> /\ c.do.op = "level"
CallsInv ==
  /\ DOMAIN calls = Users
  /\ \A u \in Users : calls[u] = Idle \/ UnderWay(kind, calls[u])

\* Whatever the appliance is like, it is as r wants once it has obeyed.
Answers(k, r, do) == \A a \in States(k) : Wants(k, r, Obeyed(a, do))

\* Of a call that has only seen the appliance as it was, a being how it is and s its
\* last report: what comes before the command at hand is so, the command does the next,
\* and what is left is decided by how it was.
Following(k, c, a, s) ==
  \/ Len(c.asked) = 1 /\ c.todo = <<>> /\ Answers(k, c.asked[1], c.do)
  \/ Len(c.asked) = 2 /\ c.todo # <<>> /\ Answers(k, c.asked[1], c.do) /\ s = a
  \/ /\ Len(c.asked) = 2 /\ c.todo = <<>>
     /\ Wants(k, c.asked[1], a) /\ Answers(k, c.asked[2], c.do)
SyncedInv ==
  \A u \in synced : calls[u] # Idle => Following(kind, calls[u], unit, seen)

AppliancesInv == TypeOK /\ CallsInv /\ SyncedInv
=============================================================================
