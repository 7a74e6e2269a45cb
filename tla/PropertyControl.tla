--------------------------- MODULE PropertyControl --------------------------
(***************************************************************************)
(* One property of a device from its LG profile to the entities of Home    *)
(* Assistant and back: ConnectDeviceProfile parses the profile, a          *)
(* PropertyHolder serves it, platforms create entities in whatever order   *)
(* they are set up and share the holder's rw_mode, and a service call is   *)
(* converted, checked against the writable values and posted.              *)
(*                                                                         *)
(* Numbers are in halves, so that a step of 0.5 is 1 and int() truncates.  *)
(* Names of enumerations are strings whose lower() and upper() are given.  *)
(***************************************************************************)
EXTENDS Integers, FiniteSets

CONSTANTS
  Cases,          \* properties of LG profiles, with the platforms that list them:
                  \* [type, part, key, raw, setter, named, platforms, codes]
  Lower, Upper,   \* str.lower and str.upper on the names in use
  Asked,          \* numbers a user may ask for
  RunStates,      \* values of the current_state beside the property
  None

VARIABLES
  case,           \* the property
  rw,             \* PropertyHolder.rw_mode
  done,           \* platforms set up so far
  entities,       \* platforms that have constructed an entity of the property
  added,          \* those whose entity has been added to Home Assistant
  options,        \* what select, sensor and event read when constructed; a
                  \* select of commands reads them again at every update
  range,          \* min, max and step of the number entity
  status,         \* the device attribute
  control,        \* the run state of its location, and whether remote start is on
  last            \* the last service call: what it asked, what came of it

vars == <<case, rw, done, entities, added, options, range, status, control, last>>

----------------------------------------------------------------------------
(* ConnectDeviceProfile.  A value of a profile is tagged: a list, a range, *)
(* a flag, or nothing.                                                     *)

List(S) == <<"list", S>>
Nothing == <<"none">>
Flag(b) == <<"flag", b>>
Truthy(d) == CASE d[1] = "list" -> d[2] # {}
               [] d[1] = "flag" -> d[2]
               [] OTHER -> d[1] = "range"

\* _get_properties: readability, writability and, of an enum or a range, the values.
Parsed(raw) ==
  LET readable == "r" \in raw.mode
      writable == "w" \in raw.mode
      valued == raw.type \in {"enum", "range"}
  IN  [readable |-> readable, writable |-> writable,
       rv |-> IF valued /\ readable THEN raw.r ELSE Nothing,
       wv |-> IF valued /\ writable THEN raw.w ELSE Nothing]

\* _convert_property_to_profile
Profile(raw) ==
  LET p == Parsed(raw) IN
  IF Truthy(p.rv) \/ Truthy(p.wv) THEN [r |-> p.rv, w |-> p.wv]
  ELSE [r |-> Flag(p.readable), w |-> Flag(p.writable)]

\* generate_properties, generate_property_map: one that is neither readable nor
\* writable has no holder.
HasHolder(raw) == Parsed(raw).readable \/ Parsed(raw).writable

\* check_range_attribute_writable, check_enum_attribute_writable,
\* check_attribute_writable: by the setter of the device class.  A setter of
\* several attributes checks no range.
PayloadAccepted(c, v) ==
  LET p == Parsed(c.raw) IN
  CASE c.setter \in {"range", "pair"} -> /\ Truthy(p.wv)
                                         /\ p.wv[2].min <= v /\ v <= p.wv[2].max
                                         /\ (v - p.wv[2].min) % p.wv[2].step = 0
    [] c.setter = "enum" -> p.writable /\ v \in p.wv[2]
    [] OTHER -> p.writable

----------------------------------------------------------------------------
(* PropertyHolder.                                                         *)

CanActivate(c, mode) ==
  LET r == Truthy(Profile(c.raw).r)
      w == Truthy(Profile(c.raw).w)
  IN  CASE mode = "READ_ONLY" -> r /\ ~w
        [] mode = "READABLE" -> r
        [] mode = "WRITABLE" -> w
        [] mode = "READ_WRITE" -> r /\ w

\* set_rw_mode
ModeOf(mode) == IF mode \in {"READ_ONLY", "READABLE"} THEN "r" ELSE "w"

\* _get_profile_data
Data(c, m) ==
  LET p == Profile(c.raw) IN
  CASE m = "r" -> p.r
    [] m = "w" -> p.w
    [] OTHER -> IF Truthy(p.w) THEN p.w ELSE p.r

\* Mutant: options as the profile spells them.
OptionsAsSpelled(c, m) ==
  LET d == Data(c, m) IN
  CASE c.raw.type = "enum" /\ d[1] = "list" -> d[2]
    [] c.raw.type = "boolean" /\ d = Flag(TRUE) -> {"false", "true"}
    [] OTHER -> {}

\* options; min, max and step
Options(c, m) ==
  LET d == Data(c, m) IN
  CASE c.raw.type = "enum" /\ d[1] = "list" -> {Lower[v] : v \in d[2]}
    [] c.raw.type = "boolean" /\ d = Flag(TRUE) -> {"false", "true"}
    [] OTHER -> {}

RangeOf(c, m) == LET d == Data(c, m) IN IF d[1] = "range" THEN d[2] ELSE None

\* get_value
Value == IF status # None /\ case.raw.type \in {"enum", "boolean"} THEN Lower[status]
         ELSE status

Whole(x) == IF x >= 0 THEN 2 * (x \div 2) ELSE -(2 * ((-x) \div 2))      \* int(x)

\* _convert_value: the step is that of the data rw_mode selects.
Converted(v) ==
  CASE case.raw.type = "range" -> IF RangeOf(case, rw) # None
                                     /\ RangeOf(case, rw).step % 2 = 0
                                  THEN Whole(v) ELSE v
    [] case.raw.type = "enum" -> Upper[v]
    [] OTHER -> v

----------------------------------------------------------------------------
(* Selects of commands: an oven's, and the operations of laundry.  They    *)
(* show the run state, which is no command, among their options.           *)

OvenCommand == case.type = "OVEN" /\ case.key \in {"COOK_MODE", "OVEN_OPERATION_MODE"}
LaundryCommand ==
  /\ case.type \in {"WASHER", "DRYER", "WASHCOMBO_MAIN", "WASHCOMBO_MINI", "WASHTOWER",
                    "WASHTOWER_WASHER", "WASHTOWER_DRYER"}
  /\ case.key \in {"WASHER_OPERATION_MODE", "DRYER_OPERATION_MODE"}
Command == OvenCommand \/ LaundryCommand

Controls == [run : RunStates \cup {None}, remote : BOOLEAN]

\* oven_display_state
OvenDisplay(c) == CASE c.run = None -> None
                    [] c.run = "initial" -> IF c.remote THEN "off_remote_ready" ELSE "off"
                    [] OTHER -> "on"

\* oven_command_allowed
OvenAllowed(c) == c.run # None /\ (c.remote \/ c.run # "initial")

\* laundry_operation_display
LaundryNames ==
  [power_off |-> "off", initial |-> "ready", end |-> "finished", pause |-> "paused",
   paused |-> "paused", reserved |-> "delayed", error |-> "error"]
LaundryDisplay(c) == CASE c.run = None -> None
                       [] c.run \in DOMAIN LaundryNames -> LaundryNames[c.run]
                       [] OTHER -> "running"

Displays == {"on", "off", "off_remote_ready", "ready", "finished", "paused", "delayed",
             "error", "running"}

CommandOptions == Options(case, rw)

\* What an oven's select offers: its state, or the cook mode that is on, and the commands
\* that would be taken.
OvenOptions(c, value) ==
  LET cooks == case.key = "COOK_MODE" /\ c.run # "initial" /\ value \in CommandOptions
  IN  IF OvenDisplay(c) = None THEN {}
      ELSE {IF cooks THEN value ELSE OvenDisplay(c)}
             \cup (IF OvenAllowed(c) THEN CommandOptions ELSE {})

LaundryOptions(c) == CommandOptions \cup ({LaundryDisplay(c)} \ {None})

\* async_require_oven_remote_ready; async_require_laundry_remote_ready, for START only
Guarded(o) == OvenCommand \/ (LaundryCommand /\ Upper[o] = "START")
Ready(c) == IF OvenCommand THEN OvenAllowed(c) ELSE c.remote

----------------------------------------------------------------------------
\* Mutant: select asks for what is readable.
ModeAskedForSelects ==
  [select |-> "READABLE", switch |-> "WRITABLE", number |-> "READ_WRITE",
   sensor |-> "READ_ONLY", reading |-> "READABLE", binary_sensor |-> "READ_ONLY",
   event |-> "READ_ONLY"]

\* The mode each platform's async_setup_entry asks for; "reading" is the sensor of
\* a cooktop or of a timer.
ModeAsked ==
  [select |-> "WRITABLE", switch |-> "WRITABLE", number |-> "READ_WRITE",
   sensor |-> "READ_ONLY", reading |-> "READABLE", binary_sensor |-> "READ_ONLY",
   event |-> "READ_ONLY"]

Capturing == {"select", "sensor", "reading", "event"}

NoCall == [by |-> None, asked |-> None, sent |-> None, came |-> None]

Init ==
  /\ case \in {c \in Cases : HasHolder(c.raw)}
  /\ rw = None /\ done = {} /\ entities = {} /\ added = {}
  /\ options = [p \in Capturing |-> {}] /\ range = None
  /\ status = None /\ control = [run |-> None, remote |-> FALSE] /\ last = NoCall

\* _check_deprecated_fan_speed_entity: the old number of a fan entity's speed stays only
\* while somebody has it enabled.
Kept(p) == IF p = "number" /\ case.key = "FAN_SPEED" THEN BOOLEAN ELSE {TRUE}

\* async_setup_entry: get_active_idx sets rw_mode on the shared holder, whether or
\* not the entity is kept, and then constructs it.
SetUp(p) ==
  /\ p \in case.platforms \ done
  /\ done' = done \cup {p}
  /\ IF CanActivate(case, ModeAsked[p])
     THEN /\ rw' = ModeOf(ModeAsked[p])
          /\ \E kept \in Kept(p) : entities' = IF kept THEN entities \cup {p} ELSE entities
          /\ options' = IF p \in Capturing
                        THEN [options EXCEPT ![p] = Options(case, rw')] ELSE options
     ELSE UNCHANGED <<rw, entities, options>>
  /\ UNCHANGED <<case, added, range, status, control, last>>

\* Mutant: min, max and step are those of Home Assistant.
RefreshedNever == range

\* ThinQNumberEntity._update_status
Refreshed == IF "number" \in added' /\ RangeOf(case, rw) # None
             THEN RangeOf(case, rw) ELSE range

\* ThinQSelectEntity._update_status
Reselected ==
  CASE "select" \in added' /\ OvenCommand ->
         [options EXCEPT !["select"] = OvenOptions(control', Value')]
    [] "select" \in added' /\ LaundryCommand ->
         [options EXCEPT !["select"] = LaundryOptions(control')]
    [] OTHER -> options

\* Mutant: an entity that was not constructed.
AddUnconstructed(p) ==
  /\ UNCHANGED <<case, rw, done, entities, status, control, last>>
  /\ p \in done \ added
  /\ added' = added \cup {p} /\ range' = Refreshed /\ options' = Reselected

\* async_added_to_hass, before any service can reach the entity.
Add(p) ==
  /\ UNCHANGED <<case, rw, done, entities, status, control, last>>
  /\ p \in entities \ added
  /\ added' = added \cup {p} /\ range' = Refreshed /\ options' = Reselected

\* What LG reports within the profile: a readable value, or nothing of the property.
Reported ==
  LET rv == Parsed(case.raw).rv IN
  CASE rv[1] = "list" -> rv[2]
    [] rv[1] = "range" -> {rv[2].min, rv[2].max}
    [] OTHER -> IF Parsed(case.raw).readable /\ case.raw.type = "boolean"
                THEN {"True", "False"} ELSE {}

\* New data reach every entity; the run state matters to selects of commands.
Received ==
  /\ UNCHANGED <<case, rw, done, entities, added>>
  /\ status' \in Reported \cup {None}
  /\ control' \in IF Command THEN Controls ELSE {control}
  /\ range' = Refreshed /\ options' = Reselected

Update == Received /\ UNCHANGED last

\* HABridge.post, SinglePropertyState.async_set, PropertyHolder.async_set: a property
\* without a setter is passed over, and nobody is told.
Outcome(p, v) ==
  [by |-> p, asked |-> v, sent |-> Converted(v),
   came |-> CASE case.setter = "none" -> "silent"
              [] case.setter # "none" /\ PayloadAccepted(case, Converted(v)) ->
                   IF case.named THEN "posted" ELSE "posted_unnamed"
              [] OTHER -> "refused"]

Aside == UNCHANGED <<case, rw, done, entities, added, options, range, status, control>>

Posts(p, v) == last' = Outcome(p, v) /\ Aside

\* ServiceValidationError before anything is posted.
Stopped(o, why) == last' = [by |-> "select", asked |-> o, sent |-> None, came |-> why]

\* async_select_option: Home Assistant lets only options pass.  A display state is no
\* command; the guard reads the appliance, and its data reach the entities (what may
\* happen while it waits is the matter of ControlGuard).
SelectOption ==
  /\ "select" \in added
  /\ \E o \in options["select"] :
       IF Command /\ o \notin CommandOptions THEN Stopped(o, "no_command") /\ Aside
       ELSE IF ~Guarded(o) THEN Posts("select", o)
       ELSE \/ Stopped(o, "not_verified") /\ Aside
            \/ /\ Received
               /\ IF Ready(control') THEN last' = Outcome("select", o)
                  ELSE Stopped(o, "not_ready")

\* async_set_native_value, of a number in the range shown; a refrigerator's goes
\* through validate_profile_number first.
Shown == IF range = None THEN [min |-> 0, max |-> 200, step |-> 2] ELSE range
Validated(x) ==
  LET d == RangeOf(case, rw) IN
  d # None /\ d.min <= x /\ x <= d.max /\ (x - d.min) % d.step = 0
SetNumber ==
  /\ "number" \in added
  /\ \E x \in Asked :
       /\ Shown.min <= x /\ x <= Shown.max
       /\ case.type = "REFRIGERATOR" => Validated(x)
       /\ Posts("number", IF Shown.step % 2 = 0 THEN Whole(x) ELSE x)

\* async_turn_on, async_turn_off: on_key and off_key of the description, or POWER_ON and
\* POWER_OFF.
Turn == "switch" \in added /\ \E k \in case.codes : Posts("switch", k)

Next == \/ \E p \in DOMAIN ModeAsked : SetUp(p) \/ Add(p)
        \/ Update \/ SelectOption \/ SetNumber \/ Turn

Spec == Init /\ [][Next]_vars

----------------------------------------------------------------------------
TypeOK ==
  /\ HasHolder(case.raw) /\ rw \in {"r", "w", None}
  /\ added \subseteq entities /\ entities \subseteq done /\ done \subseteq case.platforms
  /\ \A p \in Capturing : options[p] \subseteq {Lower[v] : v \in DOMAIN Lower} \cup Displays
  /\ control \in Controls
  /\ last.came \in {None, "posted", "posted_unnamed", "silent", "refused", "no_command",
                    "not_verified", "not_ready"}

Posted == last.came \in {"posted", "posted_unnamed"}

\* An option a select offers is posted, and never refused by the device class, in
\* whatever order the platforms of the property were set up and whatever was reported
\* between the offer and the call, as long as LG spells its values in capitals.  The
\* selects of commands are excepted only as far as they say: what they do not post is a
\* state they display, or the guard's to refuse.
OfferedIsAccepted ==
  last.by = "select" =>
    \/ Posted /\ Lower[last.sent] = last.asked
    \/ last.came = "no_command" /\ Command /\ last.asked \in Displays
    \/ last.came \in {"not_verified", "not_ready"} /\ Guarded(last.asked)

\* What a number sends is a value the profile allows, even where the setter checks
\* no range, unless a sensor shares the holder and was set up last: the number then
\* shows the readable range.
SentIsWritable ==
  last.by = "number" /\ Posted /\ "reading" \notin entities =>
    LET w == Parsed(case.raw).wv[2] IN
    w.min <= last.sent /\ last.sent <= w.max

\* A sensor of an enumeration shows one of its options, whichever value of its profile
\* LG reports, for Home Assistant raises for any other; and an event entity knows the
\* type it is to fire.  (A value the profile does not list is shown as it comes.)
SensorAmongOptions ==
  case.raw.type = "enum" /\ status # None =>
    \A p \in {"sensor", "reading", "event"} \cap entities : Value \in options[p]

Hours == {"RELATIVE_HOUR_TO_START", "RELATIVE_HOUR_TO_STOP"}

\* A control a platform offers has a setter in its device class, and the setter of a
\* part says which part it is of: of all the tables, only the hours of an air
\* conditioner post nothing, and only those of a washtower's dryer leave the part out.
ControlsHaveSetters ==
  /\ last.came = "silent" => case.type = "AIR_CONDITIONER" /\ case.key \in Hours
  /\ last.came = "posted_unnamed" => case.type = "WASHTOWER" /\ case.key \in Hours
=============================================================================
