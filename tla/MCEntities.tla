----------------------------- MODULE MCEntities -----------------------------
(***************************************************************************)
(* A small instance of each part of Entities.                              *)
(***************************************************************************)
EXTENDS Entities, EntityTables, TLC

----------------------------------------------------------------------------
(* PropertyControl over every property the tables give to a platform, each *)
(* with the profiles LG may send for it.                                   *)

MCLower == [ON |-> "on", OFF |-> "off", AUTO |-> "auto", START |-> "start", STOP |-> "stop",
            True |-> "true", False |-> "false"]
MCUpper == [on |-> "ON", off |-> "OFF", auto |-> "AUTO", start |-> "START", stop |-> "STOP"]

List(S) == <<"list", S>>
Nothing == <<"none">>
Raw(type, mode, r, w) == [type |-> type, mode |-> mode, r |-> r, w |-> w]
Bounds(min, max, step) == <<"range", [min |-> min, max |-> max, step |-> step]>>
RWModes == {{"r"}, {"w"}, {"r", "w"}, {}}
CommandKeys == {"COOK_MODE", "OVEN_OPERATION_MODE", "WASHER_OPERATION_MODE",
                "DRYER_OPERATION_MODE"}

\* An enumeration with more readable than writable values; a range whose writable part
\* is smaller, its step a half, one or two; what is only shown is only readable.
Raws(T, key, platforms) ==
  CASE "number" \in platforms ->
         {Raw("range", m, Bounds(-8, 8, s), Bounds(lo, 6, s)) :
            m \in RWModes, s \in {1, 2, 4}, lo \in {-6, 2}}
    [] platforms = {"switch"} /\ Listed(Switches, T, key) /\ key \in MainOf[T].plain ->
         {Raw("boolean", m, Nothing, Nothing) : m \in RWModes}
    [] platforms = {"binary_sensor"} ->
         {Raw("boolean", m, Nothing, Nothing) : m \in {{"r"}, {"r", "w"}}}
    [] platforms = {"event"} \/ Listed(EnumTemperatures, T, key) ->
         {Raw("enum", {"r"}, List({"AUTO", "ON"}), Nothing)}
    [] "select" \in platforms /\ key \in CommandKeys ->
         {Raw("enum", m, List({"AUTO", "START"}), List({"START", "STOP"})) : m \in RWModes}
    [] platforms \cap {"select", "switch"} # {} \/ key \in EnumSensors ->
         {Raw("enum", m, List({"AUTO", "ON", "OFF"}), List({"ON", "OFF"})) : m \in RWModes}
    [] OTHER -> {Raw("range", {"r"}, Bounds(0, 8, 2), Nothing)}

Codes(raw) == IF raw.type = "boolean" THEN {"true", "false"} ELSE {"on", "off"}

CasesOf(T, d, where) ==
  UNION {LET platforms == ListedBy(T, key) IN
         {[type |-> T, part |-> where, key |-> key, raw |-> raw, setter |-> SetterOf(d, key),
           named |-> where = "main" \/ key \notin d.unnamed, platforms |-> platforms,
           codes |-> Codes(raw)] : raw \in Raws(T, key, platforms)} :
         key \in {k \in KeysOf(d) : ListedBy(T, k) # {}}}

MCCases == UNION {CasesOf(T, MainOf[T], "main")
                    \cup CasesOf(T, [Bare EXCEPT !.shown = EventKeys(T)], "main")
                    \cup UNION {CasesOf(T, d, "part") : d \in Sub(T)} : T \in DeviceTypes}

MCAsked == -9 .. 9

----------------------------------------------------------------------------
(* An air conditioner whose heating may be set lower, its cooling higher.  *)

ClimateKeys == {"TARGET", "HEAT", "COOL", "AUTO", "TWO_HEAT", "TWO_COOL"}
MCLimits == [k \in ClimateKeys |->
               IF k \in {"HEAT", "TWO_HEAT"} THEN [min |-> 1, max |-> 2]
               ELSE IF k = "AUTO" THEN [min |-> 2, max |-> 2] ELSE [min |-> 2, max |-> 3]]

Request(op, mode, temp, range) == [op |-> op, mode |-> mode, temp |-> temp, range |-> range]
MCRequests ==
  {Request("temperature", None, 2, None), Request("temperature", "heat", 1, None),
   Request("temperature", "auto", None, <<1, 2>>)}
MCAllRequests ==
  MCRequests \cup
  {Request("on", None, None, None), Request("off", None, None, None),
   Request("mode", "auto", None, None), Request("mode", "off", None, None),
   Request("temperature", "off", 2, None), Request("temperature", "cool", 2, None),
   Request("temperature", None, 1, <<1, 2>>),
   Request("preset", "energy_saving", None, None), Request("preset", "none", None, None)}

MCLevels == [hood |-> [min |-> 0, max |-> 5, step |-> 1],
             humidifier |-> [min |-> 30, max |-> 40, step |-> 5],
             heater |-> [min |-> 35, max |-> 37, step |-> 1],
             boiler |-> [min |-> 35, max |-> 37, step |-> 1]]

----------------------------------------------------------------------------
\* The calls differ in nothing but their name.
Symmetry == Permutations(Calls)
=============================================================================
