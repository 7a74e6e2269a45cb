--------------------------- MODULE ClimateControl ---------------------------
(***************************************************************************)
(* An air conditioner's climate entity: service calls that post several    *)
(* commands with sleeps between them (climate.py), the ClimatePropertyState *)
(* that turns reports into what is shown and into the property each        *)
(* command writes (integration/homeassistant/state.py, temperature.py,     *)
(* specification.py), and the device's setters (air_conditioner.py).       *)
(*                                                                         *)
(* Each report carries the appliance's whole state (the merge of partial   *)
(* ones is StateFeed's), in order and none lost.  Temperatures are in the  *)
(* one unit the device keeps, and the profile offers every property.       *)
(***************************************************************************)
EXTENDS Integers, Sequences, FiniteSets

CONSTANTS
  Calls,          \* service calls that may overlap
  Requests,       \* what they may ask: [op, mode, temp, range]
  Modes,          \* the job modes of the appliance
  Temps,          \* temperatures
  Limits,         \* the range the profile gives each property
  None,           \* no value, no holder
  MaxReports,     \* reports that may be on their way together
  MaxChanges      \* changes made at the appliance

Presets == {"single", "double"}          \* TWO_SET_ENABLED false, true
Parts == {"target", "low", "high", "auto"}
Keys == {"TARGET", "HEAT", "COOL", "AUTO", "TWO_HEAT", "TWO_COOL"}

VARIABLES
  app,            \* the appliance
  wire,           \* its reports on their way
  dev,            \* the attributes of AirConditionerDevice
  st,             \* the ClimatePropertyState
  call,           \* the service calls
  changes,        \* changes made at the appliance so far
  calm            \* history: calls nothing has disturbed so far

vars == <<app, wire, dev, st, call, changes, calm>>

\* CLIMATE_STATE_MAP: the property each part reads and writes, by job mode.
SingleMap ==
  [target |-> [m \in {"auto", "energy_saving", "cool", "heat"} |-> "TARGET"],
   low    |-> [m \in {"heat"} |-> "HEAT"],
   high   |-> [m \in {"cool"} |-> "COOL"],
   auto   |-> [m \in {"auto"} |-> "AUTO"]]
DoubleMap ==
  [target |-> [m \in {"energy_saving", "cool", "heat"} |->
                 IF m = "heat" THEN "TWO_HEAT" ELSE "TWO_COOL"],
   low    |-> [m \in {"auto", "heat"} |-> "TWO_HEAT"],
   high   |-> [m \in {"auto", "cool"} |-> "TWO_COOL"],
   auto   |-> [m \in {} |-> "AUTO"]]
HvacMap(preset) == IF preset = "double" THEN DoubleMap ELSE SingleMap

\* ClimateTemperatureHelper._update: a helper's holder, if its map has the mode.
HolderFor(preset, part, mode) ==
  IF mode \in DOMAIN HvacMap(preset)[part] THEN HvacMap(preset)[part][mode] ELSE None

----------------------------------------------------------------------------
(* ClimatePropertyState.  "held" is the current_holder of every helper,    *)
(* "known" the presets whose helpers have a unit.                          *)

Preset(d) == IF d.two THEN "double" ELSE "single"

NoState ==
  [on |-> FALSE, mode |-> "off", preset |-> "single",
   held |-> [p \in Presets |-> [part \in Parts |-> None]], known |-> {}]

\* Mutant: the preset of the first update stays.
UpdatedPresetKept(s, d) ==
  LET p == IF s.known = {} THEN Preset(d) ELSE s.preset IN
  [on |-> d.on, mode |-> d.mode, preset |-> p,
   held |-> IF d.on
            THEN [s.held EXCEPT ![p] = [part \in Parts |-> HolderFor(p, part, d.mode)]]
            ELSE s.held,
   known |-> IF d.on THEN s.known \cup {p} ELSE s.known]

\* update: the target helpers of the preset follow the mode only while it is on.
Updated(s, d) ==
  LET p == Preset(d) IN
  [on |-> d.on, mode |-> d.mode, preset |-> p,
   held |-> IF d.on
            THEN [s.held EXCEPT ![p] = [part \in Parts |-> HolderFor(p, part, d.mode)]]
            ELSE s.held,
   known |-> IF d.on THEN s.known \cup {p} ELSE s.known]

Held(part) == st.held[st.preset][part]

\* target_temp, target_temp_low, target_temp_high
Shown(part) == IF st.on /\ Held(part) # None THEN dev.sp[Held(part)] ELSE None

\* ThinQClimateEntity._update_status: three job modes are presets of another.
THINQ_PRESET_MODE == [energy_saving |-> "cool", air_clean |-> "fan", aroma |-> "fan"]
HvacOf(m) == IF m \in DOMAIN THINQ_PRESET_MODE THEN THINQ_PRESET_MODE[m] ELSE m
ShownMode == IF st.on THEN HvacOf(st.mode) ELSE "off"

\* ClimateTemperatureHelper.get_holder("cool") of the high helper: by its unit.
CoolHolder ==
  IF st.preset \in st.known THEN HolderFor(st.preset, "high", "cool") ELSE None

\* Mutant: the target temperature's property in auto.
ControlHolderTarget ==
  CASE st.mode = "cool" -> Held("high")
    [] st.mode = "heat" -> Held("low")
    [] st.mode = "auto" -> Held("target")
    [] OTHER -> CoolHolder

\* get_target_temp_control_holder
ControlHolder ==
  CASE st.mode = "cool" -> Held("high")
    [] st.mode = "heat" -> Held("low")
    [] st.mode = "auto" -> Held("auto")
    [] OTHER -> CoolHolder

\* min, max and step; a profile's step is a number, so only its presence counts.
Active == {Held(part) : part \in {"low", "high", "auto"}} \ {None}
Ranged == IF Active # {} THEN Active ELSE {CoolHolder} \ {None}
ShownMin == LET S == {Limits[k].min : k \in Ranged} IN CHOOSE x \in S : \A y \in S : x <= y
ShownMax == LET S == {Limits[k].max : k \in Ranged} IN CHOOSE x \in S : \A y \in S : x >= y
HasStep == ControlHolder # None \/ CoolHolder # None

----------------------------------------------------------------------------
(* The device's setters.                                                   *)

\* Mutant: the bound itself, where the other belongs.
PutTwice(key, t) ==
  IF key \in {"TWO_HEAT", "TWO_COOL"}
  THEN [k \in {"TWO_HEAT", "TWO_COOL"} |-> IF k = key THEN t ELSE dev.sp[key]]
  ELSE [k \in {key} |-> t]

\* _set_two_set_heat_target_temperature and _cool_ send the other bound too, as
\* the last report had it.
Put(key, t) ==
  CASE key = "TWO_HEAT" -> [k \in {"TWO_HEAT", "TWO_COOL"} |->
                              IF k = key THEN t ELSE dev.sp["TWO_COOL"]]
    [] key = "TWO_COOL" -> [k \in {"TWO_HEAT", "TWO_COOL"} |->
                              IF k = key THEN t ELSE dev.sp["TWO_HEAT"]]
    [] OTHER -> [k \in {key} |-> t]

\* _set_two_set_heat_cool_target_temperature
PutRange(low, high) ==
  [k \in {"TWO_HEAT", "TWO_COOL"} |-> IF k = "TWO_HEAT" THEN low ELSE high]

----------------------------------------------------------------------------
(* The services.  What a coroutine does next: post a command, then nap or  *)
(* not, then go on at a label; or end, or fail with an exception.          *)

Post(op, arg, nap, then) ==
  [does |-> "post", op |-> op, arg |-> arg, nap |-> nap, then |-> then]
End == [does |-> "end"]
Fail == [does |-> "fail"]

\* The rest of async_set_temperature once the temperature is dealt with.
AtRange(r) ==
  CASE r.range = None -> End
    [] ~HasStep -> Fail
    [] OTHER -> Post("set", PutRange(r.range[1], r.range[2]), FALSE, "end")

\* HABridge.async_set_target_temperature raises when there is no holder.
AtTemp(r) ==
  CASE r.temp = None -> AtRange(r)
    [] r.temp # None /\ ~HasStep -> Fail
    [] r.temp # None /\ HasStep /\ r.temp = Shown("target") -> AtRange(r)
    [] OTHER -> IF ControlHolder = None THEN Fail
                ELSE Post("set", Put(ControlHolder, r.temp), FALSE, "range")

\* Mutant: it goes on at once.
AtJobAwake(r) == Post("mode", r.mode, FALSE, IF r.op = "temperature" THEN "temp" ELSE "end")

\* async_set_hvac_mode; async_set_temperature sleeps after it.
AtJob(r) == Post("mode", r.mode, r.op = "temperature",
                 IF r.op = "temperature" THEN "temp" ELSE "end")

AtHvac(r) == IF st.on THEN AtJob(r) ELSE Post("on", None, TRUE, "job")

AtMode(r) == IF r.mode # None /\ r.mode # ShownMode THEN AtHvac(r) ELSE AtTemp(r)

\* async_set_preset_mode turns nothing on; without a preset, it is the mode shown that
\* is set, or fan.
AtPreset(r) ==
  AtJob([r EXCEPT !.mode = CASE @ # "none" -> @
                             [] @ = "none" /\ st.on /\ st.mode = "energy_saving" -> "cool"
                             [] OTHER -> "fan"])

\* async_turn_on, async_turn_off, async_set_hvac_mode, async_set_temperature
Starting(r) ==
  CASE r.op = "on" -> Post("on", None, FALSE, "end")
    [] r.op = "off" \/ r.mode = "off" -> Post("off", None, FALSE, "end")
    [] r.op = "preset" -> AtPreset(r)
    [] r.op = "mode" /\ r.mode # "off" -> AtHvac(r)
    [] OTHER -> IF st.on THEN AtMode(r) ELSE Post("on", None, TRUE, "mode")

Resuming(r, label) ==
  CASE label = "mode" -> AtMode(r)
    [] label = "job" -> AtJob(r)
    [] label = "temp" -> AtTemp(r)
    [] label = "range" -> AtRange(r)
    [] label = "end" -> End

----------------------------------------------------------------------------
(* The appliance, of which only its reports and refusals are known.        *)

\* The set point of the mode it is in.
SetPoint(a) ==
  CASE a.mode = "heat" -> IF a.two THEN "TWO_HEAT" ELSE "HEAT"
    [] a.mode \in {"cool", "energy_saving"} -> IF a.two THEN "TWO_COOL" ELSE "COOL"
    [] a.mode = "auto" /\ ~a.two -> "AUTO"
    [] OTHER -> None

\* TARGET shows the set point of the mode.
Settled(a) ==
  IF SetPoint(a) # None THEN [a EXCEPT !.sp["TARGET"] = a.sp[SetPoint(a)]] ELSE a

\* COMMAND_NOT_SUPPORTED_IN_STATE, ..._IN_POWER_OFF; the client lets no mode pass that
\* the profile lacks.
Accepts(op, arg) ==
  /\ (op = "on") # app.on
  /\ op = "mode" => arg \in Modes
  /\ op = "set" => (app.two <=> DOMAIN arg = {"TWO_HEAT", "TWO_COOL"})

Obeyed(op, arg) ==
  Settled(CASE op = "on" -> [app EXCEPT !.on = TRUE]
            [] op = "off" -> [app EXCEPT !.on = FALSE]
            [] op = "mode" -> [app EXCEPT !.mode = arg]
            [] op = "set" -> [app EXCEPT !.sp =
                                [k \in Keys |-> IF k \in DOMAIN arg THEN arg[k] ELSE @[k]]])

----------------------------------------------------------------------------
Idle == [at |-> "idle", req |-> None]

\* A coroutine goes on: it posts, or it is over.
Goes(c, r, do) ==
  call' = [call EXCEPT ![c] = IF do.does = "post"
                              THEN [at |-> "posting", req |-> r, do |-> do]
                              ELSE Idle]

Quiet == wire = <<>> /\ \A c \in Calls : call[c].at # "posting"

Init ==
  /\ \E on \in BOOLEAN, two \in BOOLEAN, m \in Modes, t \in Temps :
       app = Settled([on |-> on, mode |-> m, two |-> two, sp |-> [k \in Keys |-> t]])
  /\ wire = <<>> /\ dev = app /\ st = Updated(NoState, app)
  /\ call = [c \in Calls |-> Idle] /\ changes = 0 /\ calm = {}

\* Home Assistant checks the temperatures asked for against min and max.
InRange(r) ==
  (r.temp # None /\ Ranged # {}) => r.temp \in ShownMin .. ShownMax

Call(c) ==
  /\ call[c].at = "idle"
  /\ \E r \in Requests :
       /\ InRange(r)
       /\ Goes(c, r, Starting(r))
       /\ calm' = IF Quiet /\ \A d \in Calls : call[d] = Idle THEN {c} ELSE {}
  /\ UNCHANGED <<app, wire, dev, st, changes>>

\* The appliance obeys; the answer lets the coroutine sleep, or go on at once.
Obeys(c) ==
  /\ call[c].at = "posting" /\ Len(wire) < MaxReports
  /\ LET do == call[c].do IN
     /\ Accepts(do.op, do.arg)
     /\ app' = Obeyed(do.op, do.arg)
     /\ wire' = Append(wire, app')
     /\ calm' = calm \ (Calls \ {c})
     /\ IF do.nap THEN call' = [call EXCEPT ![c].at = "asleep"]
        ELSE Goes(c, call[c].req, Resuming(call[c].req, do.then))
  /\ UNCHANGED <<dev, st, changes>>

\* An error ends the call; async_turn_on and async_turn_off swallow one of them.
Refused(c) ==
  /\ call[c].at = "posting"
  /\ LET do == call[c].do IN
     \/ Goes(c, call[c].req, Fail)
     \/ /\ do.op \in {"on", "off"} /\ ~Accepts(do.op, do.arg)
        /\ IF do.nap THEN call' = [call EXCEPT ![c].at = "asleep"]
           ELSE Goes(c, call[c].req, Resuming(call[c].req, do.then))
  /\ calm' = calm \ {c}
  /\ UNCHANGED <<app, wire, dev, st, changes>>

\* asyncio.sleep(2) is over.
Wake(c) ==
  /\ call[c].at = "asleep"
  /\ Goes(c, call[c].req, Resuming(call[c].req, call[c].do.then))
  /\ calm' = IF wire = <<>> THEN calm ELSE calm \ {c}
  /\ UNCHANGED <<app, wire, dev, st, changes>>

Report ==
  /\ wire # <<>>
  /\ wire' = Tail(wire) /\ dev' = Head(wire) /\ st' = Updated(st, dev')
  /\ UNCHANGED <<app, call, changes, calm>>

\* Somebody uses the remote control.
Touched ==
  /\ changes < MaxChanges /\ Len(wire) < MaxReports
  /\ \/ app' = [app EXCEPT !.on = ~@]
     \/ \E m \in Modes : app' = Settled([app EXCEPT !.mode = m])
     \/ app' = Settled([app EXCEPT !.two = ~@])
     \/ \E t \in Temps : /\ SetPoint(app) # None
                         /\ app' = Settled([app EXCEPT !.sp[SetPoint(app)] = t])
  /\ app' # app
  /\ wire' = Append(wire, app') /\ changes' = changes + 1 /\ calm' = {}
  /\ UNCHANGED <<dev, st, call>>

Next ==
  \/ \E c \in Calls : Call(c) \/ Obeys(c) \/ Refused(c) \/ Wake(c)
  \/ Report \/ Touched

Spec == Init /\ [][Next]_vars

----------------------------------------------------------------------------
TypeOK ==
  /\ app.mode \in Modes /\ app.sp \in [Keys -> Temps]
  /\ st.held \in [Presets -> [Parts -> Keys \cup {None}]] /\ st.known \subseteq Presets
  /\ Len(wire) <= MaxReports /\ changes \in 0 .. MaxChanges
  /\ \A c \in Calls : call[c].at \in {"idle", "posting", "asleep"}
  /\ calm \subseteq Calls

\* Once every report has arrived, the entity shows what the appliance does: its mode,
\* or the one its preset is shown as, the set point of the mode, both bounds in auto
\* with two set points, and no temperature while it is off.
ShownTruth ==
  wire = <<>> =>
    /\ ShownMode = IF app.on THEN HvacOf(app.mode) ELSE "off"
    /\ Shown("target") = None <=> ~app.on \/ SetPoint(app) = None
    /\ Shown("target") # None => Shown("target") = app.sp[SetPoint(app)]
    /\ app.on /\ app.two /\ app.mode = "auto" =>
         Shown("low") = app.sp["TWO_HEAT"] /\ Shown("high") = app.sp["TWO_COOL"]
    /\ ~app.on => Shown("low") = None /\ Shown("high") = None

\* Once every report has arrived, the range Home Assistant checks a temperature
\* against is the range of the property the temperature would be written to: the
\* setters of an air conditioner check none.
RangeOfHolder ==
  wire = <<>> /\ app.on /\ SetPoint(app) # None =>
    /\ ControlHolder = SetPoint(app)
    /\ app.mode # "energy_saving" => ShownMin = Limits[ControlHolder].min
                                     /\ ShownMax = Limits[ControlHolder].max

\* The command c has just decided to post, if it sets a temperature.
Sets(c) ==
  /\ call'[c].at = "posting" /\ call'[c] # call[c]
  /\ call'[c].do.op = "set" /\ call'[c].req.range = None

\* A command for one bound leaves the other as the appliance has it, if no report
\* and no command is on its way when it is posted: it carries both.
OtherBoundKeptStep ==
  \A c \in Calls : Sets(c) /\ Quiet =>
    LET arg == call'[c].do.arg
        changed == {k \in DOMAIN arg : arg[k] # app.sp[k]}
    IN  Cardinality(changed) <= 1 /\ \A k \in changed : arg[k] = call'[c].req.temp
OtherBoundKept == [][OtherBoundKeptStep]_vars

\* A call of async_set_temperature that nothing disturbs, and whose own reports
\* arrive while it sleeps, ends with the appliance on, in the mode (or a preset of it)
\* and at the temperature asked for: the holder it writes, and the reading it compares
\* with, are those of the new mode.
AskedIsReachedStep ==
  \A c \in calm : call[c].at # "idle" /\ call'[c] = Idle /\ c \in calm'
    /\ call[c].req.op = "temperature" /\ call[c].req.mode # "off"
    /\ Resuming(call[c].req, call[c].do.then).does # "fail" =>
    LET r == call[c].req IN
    /\ app'.on
    /\ r.mode # None => HvacOf(app'.mode) = r.mode
    /\ r.temp # None /\ SetPoint(app') # None /\ r.range = None =>
         app'.sp[SetPoint(app')] = r.temp
    /\ r.range # None => app'.sp["TWO_HEAT"] = r.range[1]
                         /\ app'.sp["TWO_COOL"] = r.range[2]
AskedIsReached == [][AskedIsReachedStep]_vars
=============================================================================
