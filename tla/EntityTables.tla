---------------------------- MODULE EntityTables ----------------------------
(***************************************************************************)
(* The tables of the integration: what each device class of the client     *)
(* reads and has setters for (client/devices/), which classes make up a    *)
(* device type, and which of their properties each platform lists.         *)
(*                                                                         *)
(* A temperature kept in C and in F is one property, and an hour and a     *)
(* minute are one timer.  A property is listed by the check its setter     *)
(* makes: none beyond writability (plain), a range, an enumeration, none   *)
(* on several properties together (multi), ranges of two (pair); "shown"   *)
(* ones have no setter of their name.  The setters of a part wrap their     *)
(* command in the part's name, but for those in "unnamed".                  *)
(***************************************************************************)
EXTENDS FiniteSets

Bare == [shown |-> {}, plain |-> {}, range |-> {}, enum |-> {}, multi |-> {}, pair |-> {},
         timers |-> {}, unnamed |-> {}]

AirConditionerDevice ==
  [Bare EXCEPT !.shown = {"CURRENT_TEMPERATURE", "TARGET_TEMPERATURE",
                       "MIN_TARGET_TEMPERATURE", "MAX_TARGET_TEMPERATURE",
                       "TWO_SET_ENABLED", "PM1", "PM2", "PM10", "ODOR", "ODOR_LEVEL",
                       "HUMIDITY", "TOTAL_POLLUTION", "TOTAL_POLLUTION_LEVEL", "USED_TIME",
                       "FILTER_LIFETIME", "FILTER_REMAIN_PERCENT"},
               !.enum = {"CURRENT_JOB_MODE", "AIR_CON_OPERATION_MODE",
                       "AIR_CLEAN_OPERATION_MODE", "WIND_STRENGTH", "MONITORING_ENABLED",
                       "DISPLAY_LIGHT"},
               !.plain = {"POWER_SAVE_ENABLED", "WIND_AIR_GUIDE", "WIND_AUTO_FIT",
                       "WIND_CONCENTRATION", "WIND_FOREST", "WIND_HIGH_CEILING",
                       "WIND_LONG_POWER", "WIND_MANNER", "WIND_ROTATE_UP_DOWN",
                       "WIND_ROTATE_LEFT_RIGHT", "WIND_SWIRL"},
               !.range = {"WIND_STEP"},
               !.multi = {"HEAT_TARGET_TEMPERATURE", "COOL_TARGET_TEMPERATURE",
                       "AUTO_TARGET_TEMPERATURE", "TWO_SET_HEAT_TARGET_TEMPERATURE",
                       "TWO_SET_COOL_TARGET_TEMPERATURE"},
               !.timers = {"RELATIVE_TO_START", "RELATIVE_TO_STOP", "ABSOLUTE_TO_START",
                       "ABSOLUTE_TO_STOP", "SLEEP_TIMER_RELATIVE_TO_STOP"}]

AirPurifierDevice ==
  [Bare EXCEPT !.shown = {"PERSONALIZATION_MODE", "MONITORING_ENABLED", "PM1", "PM1_LEVEL",
                       "PM2", "PM2_LEVEL", "PM10", "PM10_LEVEL", "ODOR", "ODOR_LEVEL",
                       "HUMIDITY", "TOTAL_POLLUTION", "TOTAL_POLLUTION_LEVEL",
                       "TOP_FILTER_REMAIN_PERCENT", "FILTER_REMAIN_PERCENT"},
               !.enum = {"CURRENT_JOB_MODE", "AIR_PURIFIER_OPERATION_MODE",
                       "WIND_STRENGTH"},
               !.timers = {"ABSOLUTE_TO_START", "ABSOLUTE_TO_STOP",
                       "SLEEP_TIMER_RELATIVE_TO_STOP"}]

AirPurifierFanDevice ==
  [Bare EXCEPT !.shown = {"MONITORING_ENABLED", "PM1", "PM2", "PM10", "HUMIDITY",
                       "TEMPERATURE", "ODOR", "ODOR_LEVEL", "TOTAL_POLLUTION",
                       "TOTAL_POLLUTION_LEVEL"},
               !.enum = {"CURRENT_JOB_MODE", "AIR_FAN_OPERATION_MODE", "WARM_MODE",
                       "WIND_STRENGTH", "WIND_ANGLE", "DISPLAY_LIGHT", "UV_NANO"},
               !.plain = {"WIND_TEMPERATURE"},
               !.timers = {"ABSOLUTE_TO_START", "ABSOLUTE_TO_STOP",
                       "SLEEP_TIMER_RELATIVE_TO_STOP"}]

CeilingFanDevice ==
  [Bare EXCEPT !.enum = {"WIND_STRENGTH", "CEILING_FAN_OPERATION_MODE"}]

CooktopDevice ==
  [Bare EXCEPT !.enum = {"OPERATION_MODE"}]

CooktopSubDevice ==
  [Bare EXCEPT !.shown = {"CURRENT_STATE", "REMOTE_CONTROL_ENABLED"},
               !.pair = {"POWER_LEVEL", "REMAIN_HOUR", "REMAIN_MINUTE"},
               !.timers = {"REMAIN"}]

DehumidifierDevice ==
  [Bare EXCEPT !.shown = {"CURRENT_HUMIDITY"},
               !.enum = {"DEHUMIDIFIER_OPERATION_MODE", "CURRENT_JOB_MODE",
                       "WIND_STRENGTH"},
               !.plain = {"TARGET_HUMIDITY"}]

DishWasherDevice ==
  [Bare EXCEPT !.shown = {"CURRENT_STATE", "RINSE_REFILL", "RINSE_LEVEL",
                       "SOFTENING_LEVEL", "MACHINE_CLEAN_REMINDER", "SIGNAL_LEVEL",
                       "CLEAN_LIGHT_REMINDER", "DOOR_STATE", "REMOTE_CONTROL_ENABLED",
                       "CURRENT_DISH_WASHING_COURSE"},
               !.enum = {"DISH_WASHER_OPERATION_MODE"},
               !.plain = {"RELATIVE_HOUR_TO_START"},
               !.timers = {"RELATIVE_TO_START", "REMAIN", "TOTAL"}]

DryerDevice ==
  [Bare EXCEPT !.shown = {"CURRENT_STATE", "REMOTE_CONTROL_ENABLED"},
               !.enum = {"DRYER_OPERATION_MODE"},
               !.plain = {"RELATIVE_HOUR_TO_START"},
               !.range = {"RELATIVE_HOUR_TO_STOP"},
               !.timers = {"REMAIN", "TOTAL", "RELATIVE_TO_STOP", "RELATIVE_TO_START"}]

\* The dryer of a washtower names itself in its commands, but its setters of hours are
\* called set_relative_time_to_start and _stop: those of DryerDevice are not overridden.
DryerDeviceSingle ==
  [DryerDevice EXCEPT !.unnamed = {"RELATIVE_HOUR_TO_START", "RELATIVE_HOUR_TO_STOP"}]

HomeBrewDevice ==
  [Bare EXCEPT !.shown = {"CURRENT_STATE", "BEER_REMAIN", "FLAVOR_INFO",
                       "FLAVOR_CAPSULE_1", "FLAVOR_CAPSULE_2", "HOP_OIL_INFO",
                       "HOP_OIL_CAPSULE_1", "HOP_OIL_CAPSULE_2", "WORT_INFO", "YEAST_INFO",
                       "RECIPE_NAME", "ELAPSED_DAY_STATE", "ELAPSED_DAY_TOTAL"}]

HoodDevice ==
  [Bare EXCEPT !.shown = {"HOOD_OPERATION_MODE"},
               !.pair = {"FAN_SPEED", "LAMP_BRIGHTNESS"}]

HumidifierDevice ==
  [Bare EXCEPT !.shown = {"MONITORING_ENABLED", "TOTAL_POLLUTION", "TOTAL_POLLUTION_LEVEL",
                       "PM1", "PM2", "PM10", "HUMIDITY", "TEMPERATURE"},
               !.enum = {"CURRENT_JOB_MODE", "HUMIDIFIER_OPERATION_MODE", "AUTO_MODE",
                       "SLEEP_MODE", "HYGIENE_DRY_MODE", "WARM_MODE", "WIND_STRENGTH",
                       "DISPLAY_LIGHT", "MOOD_LAMP_STATE"},
               !.plain = {"TARGET_HUMIDITY"},
               !.timers = {"ABSOLUTE_TO_START", "ABSOLUTE_TO_STOP",
                       "SLEEP_TIMER_RELATIVE_TO_STOP"}]

KimchiRefrigeratorDevice ==
  [Bare EXCEPT !.shown = {"ONE_TOUCH_FILTER", "FRESH_AIR_FILTER"}]

KimchiRefrigeratorSubDevice ==
  [Bare EXCEPT !.shown = {"TARGET_TEMPERATURE"}]

MicrowaveOvenDevice ==
  [Bare EXCEPT !.shown = {"CURRENT_STATE"},
               !.pair = {"FAN_SPEED", "LAMP_BRIGHTNESS"},
               !.timers = {"REMAIN"}]

OvenDevice ==
  [Bare EXCEPT !.shown = {"OVEN_TYPE"}]

OvenSubDevice ==
  [Bare EXCEPT !.shown = {"CURRENT_STATE", "REMOTE_CONTROL_ENABLED"},
               !.enum = {"OVEN_OPERATION_MODE", "COOK_MODE"},
               !.range = {"TARGET_TEMPERATURE"},
               !.timers = {"REMAIN", "TARGET", "TIMER"}]

PlantCultivatorDevice == Bare

PlantCultivatorSubDevice ==
  [Bare EXCEPT !.shown = {"CURRENT_STATE", "GROWTH_MODE", "WIND_VOLUME", "BRIGHTNESS",
                       "DURATION", "DAY_TARGET_TEMPERATURE", "NIGHT_TARGET_TEMPERATURE",
                       "TEMPERATURE_STATE"},
               !.timers = {"LIGHT_START"}]

RefrigeratorDevice ==
  [Bare EXCEPT !.shown = {"POWER_SAVE_ENABLED", "ECO_FRIENDLY_MODE", "SABBATH_MODE",
                       "EXPRESS_MODE_NAME", "FRESH_AIR_FILTER_REMAIN_PERCENT", "USED_TIME",
                       "WATER_FILTER_STATE", "WATER_FILTER_1_REMAIN_PERCENT",
                       "WATER_FILTER_2_REMAIN_PERCENT", "WATER_FILTER_3_REMAIN_PERCENT"},
               !.enum = {"FRESH_AIR_FILTER"},
               !.plain = {"RAPID_FREEZE", "EXPRESS_MODE", "EXPRESS_FRIDGE"}]

RefrigeratorSubDevice ==
  [Bare EXCEPT !.shown = {"DOOR_STATE"},
               !.range = {"TARGET_TEMPERATURE"}]

RobotCleanerDevice ==
  [Bare EXCEPT !.shown = {"CURRENT_STATE", "CURRENT_JOB_MODE", "BATTERY_LEVEL",
                       "BATTERY_PERCENT"},
               !.enum = {"CLEAN_OPERATION_MODE"},
               !.timers = {"ABSOLUTE_TO_START", "RUNNING"}]

StickCleanerDevice ==
  [Bare EXCEPT !.shown = {"CURRENT_STATE", "CURRENT_JOB_MODE", "BATTERY_LEVEL",
                       "BATTERY_PERCENT"}]

StylerDevice ==
  [Bare EXCEPT !.shown = {"CURRENT_STATE", "REMOTE_CONTROL_ENABLED"},
               !.enum = {"STYLER_OPERATION_MODE"},
               !.range = {"RELATIVE_HOUR_TO_STOP"},
               !.timers = {"RELATIVE_TO_STOP", "REMAIN", "TOTAL"}]

SystemBoilerDevice ==
  [Bare EXCEPT !.shown = {"ROOM_TEMP_MODE", "ROOM_WATER_MODE",
                       "HOT_WATER_CURRENT_TEMPERATURE", "HOT_WATER_MAX_TEMPERATURE",
                       "HOT_WATER_MIN_TEMPERATURE", "ROOM_CURRENT_TEMPERATURE",
                       "ROOM_AIR_CURRENT_TEMPERATURE",
                       "ROOM_OUT_WATER_CURRENT_TEMPERATURE",
                       "ROOM_IN_WATER_CURRENT_TEMPERATURE", "ROOM_TARGET_TEMPERATURE",
                       "ROOM_AIR_HEAT_MAX_TEMPERATURE", "ROOM_AIR_HEAT_MIN_TEMPERATURE",
                       "ROOM_AIR_COOL_MAX_TEMPERATURE", "ROOM_AIR_COOL_MIN_TEMPERATURE",
                       "ROOM_WATER_HEAT_MAX_TEMPERATURE",
                       "ROOM_WATER_HEAT_MIN_TEMPERATURE",
                       "ROOM_WATER_COOL_MAX_TEMPERATURE",
                       "ROOM_WATER_COOL_MIN_TEMPERATURE"},
               !.enum = {"CURRENT_JOB_MODE", "BOILER_OPERATION_MODE", "HOT_WATER_MODE"},
               !.multi = {"HOT_WATER_TARGET_TEMPERATURE",
                       "ROOM_AIR_COOL_TARGET_TEMPERATURE",
                       "ROOM_AIR_HEAT_TARGET_TEMPERATURE",
                       "ROOM_WATER_COOL_TARGET_TEMPERATURE",
                       "ROOM_WATER_HEAT_TARGET_TEMPERATURE"}]

VentilatorDevice ==
  [Bare EXCEPT !.shown = {"CURRENT_TEMPERATURE", "PM1", "PM2", "PM10", "CO2"},
               !.enum = {"CURRENT_JOB_MODE", "VENTILATOR_OPERATION_MODE", "WIND_STRENGTH"},
               !.timers = {"ABSOLUTE_TO_STOP", "ABSOLUTE_TO_START", "RELATIVE_TO_STOP",
                       "RELATIVE_TO_START", "SLEEP_TIMER_RELATIVE_TO_STOP"}]

WashcomboDevice ==
  [Bare EXCEPT !.shown = {"CURRENT_STATE", "REMOTE_CONTROL_ENABLED", "DETERGENT_SETTING",
                       "CYCLE_COUNT"},
               !.enum = {"WASHER_OPERATION_MODE", "WASHER_MODE"},
               !.range = {"RELATIVE_HOUR_TO_STOP", "RELATIVE_HOUR_TO_START"},
               !.timers = {"REMAIN", "TOTAL", "RELATIVE_TO_STOP", "RELATIVE_TO_START"}]

WasherDevice == Bare

WasherSubDevice ==
  [Bare EXCEPT !.shown = {"CURRENT_STATE", "REMOTE_CONTROL_ENABLED", "DETERGENT_SETTING",
                       "CYCLE_COUNT"},
               !.enum = {"WASHER_OPERATION_MODE"},
               !.range = {"RELATIVE_HOUR_TO_STOP", "RELATIVE_HOUR_TO_START"},
               !.timers = {"REMAIN", "TOTAL", "RELATIVE_TO_STOP", "RELATIVE_TO_START"}]

WasherDeviceSingle == WasherSubDevice

WaterHeaterDevice ==
  [Bare EXCEPT !.shown = {"WATER_HEATER_OPERATION_MODE", "CURRENT_TEMPERATURE"},
               !.enum = {"CURRENT_JOB_MODE"},
               !.multi = {"TARGET_TEMPERATURE"}]

WaterPurifierDevice ==
  [Bare EXCEPT !.shown = {"COCK_STATE", "STERILIZING_STATE", "WATER_TYPE"}]

WineCellarDevice ==
  [Bare EXCEPT !.shown = {"SABBATH_MODE"},
               !.enum = {"LIGHT_BRIGHTNESS", "OPTIMAL_HUMIDITY"},
               !.range = {"LIGHT_STATUS"}]

WineCellarSubDevice ==
  [Bare EXCEPT !.range = {"TARGET_TEMPERATURE"}]

----------------------------------------------------------------------------
(* The platforms: DEVICE_TYPE_..._MAP.                                      *)

BinarySensors == [
  COOKTOP |-> {"REMOTE_CONTROL_ENABLED"},
  DISH_WASHER |-> {"DOOR_STATE", "RINSE_REFILL", "REMOTE_CONTROL_ENABLED",
       "MACHINE_CLEAN_REMINDER", "SIGNAL_LEVEL", "CLEAN_LIGHT_REMINDER"},
  DRYER |-> {"REMOTE_CONTROL_ENABLED"},
  HOOD |-> {"HOOD_OPERATION_MODE"},
  OVEN |-> {"REMOTE_CONTROL_ENABLED"},
  REFRIGERATOR |-> {"DOOR_STATE", "ECO_FRIENDLY_MODE", "POWER_SAVE_ENABLED",
       "SABBATH_MODE"},
  KIMCHI_REFRIGERATOR |-> {"ONE_TOUCH_FILTER"},
  STYLER |-> {"REMOTE_CONTROL_ENABLED"},
  WASHCOMBO_MAIN |-> {"REMOTE_CONTROL_ENABLED"},
  WASHCOMBO_MINI |-> {"REMOTE_CONTROL_ENABLED"},
  WASHER |-> {"REMOTE_CONTROL_ENABLED"},
  WASHTOWER_DRYER |-> {"REMOTE_CONTROL_ENABLED"},
  WASHTOWER |-> {"REMOTE_CONTROL_ENABLED"},
  WASHTOWER_WASHER |-> {"REMOTE_CONTROL_ENABLED"},
  WATER_HEATER |-> {"WATER_HEATER_OPERATION_MODE"},
  WINE_CELLAR |-> {"SABBATH_MODE"}]

Events == [
  AIR_CONDITIONER |-> {"NOTIFICATION"},
  AIR_PURIFIER_FAN |-> {"NOTIFICATION"},
  AIR_PURIFIER |-> {"NOTIFICATION"},
  DEHUMIDIFIER |-> {"NOTIFICATION"},
  DISH_WASHER |-> {"ERROR", "NOTIFICATION"},
  DRYER |-> {"ERROR", "NOTIFICATION"},
  HUMIDIFIER |-> {"NOTIFICATION"},
  KIMCHI_REFRIGERATOR |-> {"NOTIFICATION"},
  MICROWAVE_OVEN |-> {"NOTIFICATION"},
  OVEN |-> {"NOTIFICATION"},
  REFRIGERATOR |-> {"NOTIFICATION"},
  ROBOT_CLEANER |-> {"ERROR", "NOTIFICATION"},
  STICK_CLEANER |-> {"NOTIFICATION"},
  STYLER |-> {"ERROR", "NOTIFICATION"},
  WASHCOMBO_MAIN |-> {"ERROR", "NOTIFICATION"},
  WASHCOMBO_MINI |-> {"ERROR", "NOTIFICATION"},
  WASHER |-> {"ERROR", "NOTIFICATION"},
  WASHTOWER_DRYER |-> {"ERROR", "NOTIFICATION"},
  WASHTOWER |-> {"ERROR", "NOTIFICATION"},
  WASHTOWER_WASHER |-> {"ERROR", "NOTIFICATION"},
  WINE_CELLAR |-> {"NOTIFICATION"}]

Numbers == [
  AIR_CONDITIONER |-> {"RELATIVE_HOUR_TO_START", "RELATIVE_HOUR_TO_STOP",
       "SLEEP_TIMER_RELATIVE_HOUR_TO_STOP"},
  AIR_PURIFIER |-> {"SLEEP_TIMER_RELATIVE_HOUR_TO_STOP"},
  AIR_PURIFIER_FAN |-> {"WIND_TEMPERATURE", "SLEEP_TIMER_RELATIVE_HOUR_TO_STOP"},
  DRYER |-> {"RELATIVE_HOUR_TO_START", "RELATIVE_HOUR_TO_STOP"},
  HOOD |-> {"LAMP_BRIGHTNESS", "FAN_SPEED"},
  HUMIDIFIER |-> {"TARGET_HUMIDITY", "SLEEP_TIMER_RELATIVE_HOUR_TO_STOP"},
  MICROWAVE_OVEN |-> {"LAMP_BRIGHTNESS", "FAN_SPEED"},
  OVEN |-> {"TARGET_TEMPERATURE"},
  REFRIGERATOR |-> {"TARGET_TEMPERATURE"},
  STYLER |-> {"RELATIVE_HOUR_TO_STOP"},
  WASHCOMBO_MAIN |-> {"RELATIVE_HOUR_TO_START", "RELATIVE_HOUR_TO_STOP"},
  WASHCOMBO_MINI |-> {"RELATIVE_HOUR_TO_START", "RELATIVE_HOUR_TO_STOP"},
  WASHER |-> {"RELATIVE_HOUR_TO_START", "RELATIVE_HOUR_TO_STOP"},
  WASHTOWER_DRYER |-> {"RELATIVE_HOUR_TO_START", "RELATIVE_HOUR_TO_STOP"},
  WASHTOWER |-> {"RELATIVE_HOUR_TO_START", "RELATIVE_HOUR_TO_STOP"},
  WASHTOWER_WASHER |-> {"RELATIVE_HOUR_TO_START", "RELATIVE_HOUR_TO_STOP"},
  WATER_HEATER |-> {"TARGET_TEMPERATURE"},
  WINE_CELLAR |-> {"LIGHT_STATUS", "TARGET_TEMPERATURE"},
  VENTILATOR |-> {"SLEEP_TIMER_RELATIVE_HOUR_TO_STOP"}]

Selects == [
  AIR_CONDITIONER |-> {"MONITORING_ENABLED", "AIR_CLEAN_OPERATION_MODE"},
  AIR_PURIFIER_FAN |-> {"WIND_STRENGTH", "WIND_ANGLE", "DISPLAY_LIGHT", "CURRENT_JOB_MODE"},
  AIR_PURIFIER |-> {"WIND_STRENGTH", "CURRENT_JOB_MODE"},
  DEHUMIDIFIER |-> {"WIND_STRENGTH", "CURRENT_JOB_MODE"},
  DISH_WASHER |-> {"DISH_WASHER_OPERATION_MODE"},
  DRYER |-> {"DRYER_OPERATION_MODE"},
  HUMIDIFIER |-> {"WIND_STRENGTH", "DISPLAY_LIGHT", "CURRENT_JOB_MODE", "HYGIENE_DRY_MODE"},
  OVEN |-> {"COOK_MODE", "OVEN_OPERATION_MODE"},
  REFRIGERATOR |-> {"FRESH_AIR_FILTER"},
  STYLER |-> {"STYLER_OPERATION_MODE"},
  VENTILATOR |-> {"CURRENT_JOB_MODE"},
  WASHCOMBO_MAIN |-> {"WASHER_OPERATION_MODE"},
  WASHCOMBO_MINI |-> {"WASHER_OPERATION_MODE"},
  WASHER |-> {"WASHER_OPERATION_MODE"},
  WASHTOWER_DRYER |-> {"DRYER_OPERATION_MODE"},
  WASHTOWER |-> {"DRYER_OPERATION_MODE", "WASHER_OPERATION_MODE"},
  WASHTOWER_WASHER |-> {"WASHER_OPERATION_MODE"},
  WATER_HEATER |-> {"CURRENT_JOB_MODE"},
  WINE_CELLAR |-> {"LIGHT_BRIGHTNESS"}]

Sensors == [
  AIR_CONDITIONER |-> {"PM1", "PM2", "PM10", "HUMIDITY", "ODOR_LEVEL",
       "TOTAL_POLLUTION_LEVEL", "FILTER_LIFETIME", "FILTER_REMAIN_PERCENT",
       "RELATIVE_TO_START", "RELATIVE_TO_STOP", "SLEEP_TIMER_RELATIVE_TO_STOP",
       "ABSOLUTE_TO_START", "ABSOLUTE_TO_STOP"},
  AIR_PURIFIER_FAN |-> {"PM1", "PM2", "PM10", "HUMIDITY", "TEMPERATURE",
       "MONITORING_ENABLED", "ODOR_LEVEL", "TOTAL_POLLUTION_LEVEL",
       "SLEEP_TIMER_RELATIVE_TO_STOP", "ABSOLUTE_TO_START", "ABSOLUTE_TO_STOP"},
  AIR_PURIFIER |-> {"PM1", "PM2", "PM10", "HUMIDITY", "MONITORING_ENABLED", "ODOR_LEVEL",
       "TOTAL_POLLUTION_LEVEL", "FILTER_REMAIN_PERCENT", "TOP_FILTER_REMAIN_PERCENT",
       "CURRENT_JOB_MODE", "PERSONALIZATION_MODE", "ABSOLUTE_TO_START", "ABSOLUTE_TO_STOP"},
  COOKTOP |-> {"CURRENT_STATE", "POWER_LEVEL", "REMAIN"},
  DEHUMIDIFIER |-> {"CURRENT_JOB_MODE", "CURRENT_HUMIDITY"},
  DISH_WASHER |-> {"CURRENT_DISH_WASHING_COURSE", "RINSE_LEVEL", "SOFTENING_LEVEL",
       "CURRENT_STATE", "TOTAL", "RELATIVE_TO_START", "REMAIN"},
  DRYER |-> {"CYCLE_COUNT", "CURRENT_STATE", "TOTAL", "RELATIVE_TO_START",
       "RELATIVE_TO_STOP", "REMAIN"},
  HOME_BREW |-> {"RECIPE_NAME", "WORT_INFO", "YEAST_INFO", "HOP_OIL_INFO",
       "HOP_OIL_CAPSULE_1", "HOP_OIL_CAPSULE_2", "FLAVOR_INFO", "FLAVOR_CAPSULE_1",
       "FLAVOR_CAPSULE_2", "BEER_REMAIN", "CURRENT_STATE", "ELAPSED_DAY_STATE",
       "ELAPSED_DAY_TOTAL"},
  HUMIDIFIER |-> {"PM1", "PM2", "PM10", "HUMIDITY", "TEMPERATURE", "MONITORING_ENABLED",
       "TOTAL_POLLUTION_LEVEL", "SLEEP_TIMER_RELATIVE_TO_STOP", "ABSOLUTE_TO_START",
       "ABSOLUTE_TO_STOP"},
  KIMCHI_REFRIGERATOR |-> {"FRESH_AIR_FILTER"},
  MICROWAVE_OVEN |-> {"CURRENT_STATE"},
  OVEN |-> {"CURRENT_STATE", "TARGET_TEMPERATURE", "REMAIN", "TARGET", "TIMER"},
  PLANT_CULTIVATOR |-> {"BRIGHTNESS", "DURATION", "CURRENT_STATE", "GROWTH_MODE",
       "WIND_VOLUME", "DAY_TARGET_TEMPERATURE", "NIGHT_TARGET_TEMPERATURE",
       "TEMPERATURE_STATE", "LIGHT_START"},
  REFRIGERATOR |-> {"FRESH_AIR_FILTER", "FRESH_AIR_FILTER_REMAIN_PERCENT", "USED_TIME",
       "WATER_FILTER_STATE", "WATER_FILTER_1_REMAIN_PERCENT",
       "WATER_FILTER_2_REMAIN_PERCENT", "WATER_FILTER_3_REMAIN_PERCENT"},
  ROBOT_CLEANER |-> {"CURRENT_STATE", "CURRENT_JOB_MODE", "RUNNING", "ABSOLUTE_TO_START"},
  STICK_CLEANER |-> {"BATTERY_PERCENT", "CURRENT_JOB_MODE", "CURRENT_STATE"},
  STYLER |-> {"CYCLE_COUNT", "CURRENT_STATE", "TOTAL", "RELATIVE_TO_START",
       "RELATIVE_TO_STOP", "REMAIN"},
  SYSTEM_BOILER |-> {"ROOM_AIR_CURRENT_TEMPERATURE", "ROOM_IN_WATER_CURRENT_TEMPERATURE",
       "ROOM_OUT_WATER_CURRENT_TEMPERATURE"},
  VENTILATOR |-> {"CO2", "PM1", "PM2", "PM10", "CURRENT_TEMPERATURE", "ABSOLUTE_TO_START",
       "ABSOLUTE_TO_STOP", "SLEEP_TIMER_RELATIVE_TO_STOP"},
  WASHCOMBO_MAIN |-> {"CYCLE_COUNT", "CURRENT_STATE", "TOTAL", "RELATIVE_TO_START",
       "RELATIVE_TO_STOP", "REMAIN"},
  WASHCOMBO_MINI |-> {"CYCLE_COUNT", "CURRENT_STATE", "TOTAL", "RELATIVE_TO_START",
       "RELATIVE_TO_STOP", "REMAIN"},
  WASHER |-> {"CYCLE_COUNT", "CURRENT_STATE", "TOTAL", "RELATIVE_TO_START",
       "RELATIVE_TO_STOP", "REMAIN"},
  WASHTOWER_DRYER |-> {"CYCLE_COUNT", "CURRENT_STATE", "TOTAL", "RELATIVE_TO_START",
       "RELATIVE_TO_STOP", "REMAIN"},
  WASHTOWER |-> {"CYCLE_COUNT", "CURRENT_STATE", "TOTAL", "RELATIVE_TO_START",
       "RELATIVE_TO_STOP", "REMAIN"},
  WASHTOWER_WASHER |-> {"CYCLE_COUNT", "CURRENT_STATE", "TOTAL", "RELATIVE_TO_START",
       "RELATIVE_TO_STOP", "REMAIN"},
  WATER_HEATER |-> {"CURRENT_TEMPERATURE"},
  WATER_PURIFIER |-> {"COCK_STATE", "STERILIZING_STATE", "WATER_TYPE"}]

Switches == [
  AIR_CONDITIONER |-> {"AIR_CON_OPERATION_MODE", "DISPLAY_LIGHT", "POWER_SAVE_ENABLED",
       "AIR_CLEAN_OPERATION_MODE"},
  AIR_PURIFIER_FAN |-> {"AIR_FAN_OPERATION_MODE", "UV_NANO", "WARM_MODE"},
  AIR_PURIFIER |-> {"AIR_PURIFIER_OPERATION_MODE"},
  DEHUMIDIFIER |-> {"DEHUMIDIFIER_OPERATION_MODE"},
  DISH_WASHER |-> {"DISH_WASHER_OPERATION_MODE"},
  DRYER |-> {"DRYER_OPERATION_MODE"},
  HUMIDIFIER |-> {"HUMIDIFIER_OPERATION_MODE", "WARM_MODE", "MOOD_LAMP_STATE", "AUTO_MODE",
       "SLEEP_MODE"},
  REFRIGERATOR |-> {"EXPRESS_MODE", "RAPID_FREEZE", "EXPRESS_FRIDGE"},
  SYSTEM_BOILER |-> {"BOILER_OPERATION_MODE", "HOT_WATER_MODE"},
  STYLER |-> {"STYLER_OPERATION_MODE"},
  VENTILATOR |-> {"VENTILATOR_OPERATION_MODE"},
  WASHCOMBO_MAIN |-> {"WASHER_OPERATION_MODE"},
  WASHCOMBO_MINI |-> {"WASHER_OPERATION_MODE"},
  WASHER |-> {"WASHER_OPERATION_MODE"},
  WASHTOWER |-> {"DRYER_OPERATION_MODE", "WASHER_OPERATION_MODE"},
  WASHTOWER_DRYER |-> {"DRYER_OPERATION_MODE"},
  WASHTOWER_WASHER |-> {"WASHER_OPERATION_MODE"},
  WINE_CELLAR |-> {"OPTIMAL_HUMIDITY"}]

----------------------------------------------------------------------------
(* DEVICE_TYPE_API_MAP, and the sub devices each class makes.              *)

MainOf == [
  AIR_CONDITIONER |-> AirConditionerDevice, AIR_PURIFIER_FAN |-> AirPurifierFanDevice,
  AIR_PURIFIER |-> AirPurifierDevice, CEILING_FAN |-> CeilingFanDevice,
  COOKTOP |-> CooktopDevice, DEHUMIDIFIER |-> DehumidifierDevice,
  DISH_WASHER |-> DishWasherDevice, DRYER |-> DryerDevice, HOME_BREW |-> HomeBrewDevice,
  HOOD |-> HoodDevice, HUMIDIFIER |-> HumidifierDevice,
  KIMCHI_REFRIGERATOR |-> KimchiRefrigeratorDevice, MICROWAVE_OVEN |-> MicrowaveOvenDevice,
  OVEN |-> OvenDevice, PLANT_CULTIVATOR |-> PlantCultivatorDevice,
  REFRIGERATOR |-> RefrigeratorDevice, ROBOT_CLEANER |-> RobotCleanerDevice,
  STICK_CLEANER |-> StickCleanerDevice, STYLER |-> StylerDevice,
  SYSTEM_BOILER |-> SystemBoilerDevice, VENTILATOR |-> VentilatorDevice,
  WASHER |-> WasherDevice, WASHCOMBO_MAIN |-> WashcomboDevice,
  WASHCOMBO_MINI |-> WashcomboDevice, WASHTOWER_DRYER |-> DryerDevice, WASHTOWER |-> Bare,
  WASHTOWER_WASHER |-> WasherDevice, WATER_HEATER |-> WaterHeaterDevice,
  WATER_PURIFIER |-> WaterPurifierDevice, WINE_CELLAR |-> WineCellarDevice]

PartsOf == [
  COOKTOP |-> {CooktopSubDevice}, KIMCHI_REFRIGERATOR |-> {KimchiRefrigeratorSubDevice},
  OVEN |-> {OvenSubDevice}, PLANT_CULTIVATOR |-> {PlantCultivatorSubDevice},
  REFRIGERATOR |-> {RefrigeratorSubDevice}, WASHER |-> {WasherSubDevice},
  WASHTOWER |-> {DryerDeviceSingle, WasherDeviceSingle},
  WASHTOWER_WASHER |-> {WasherSubDevice}, WINE_CELLAR |-> {WineCellarSubDevice}]

DeviceTypes == DOMAIN MainOf
Sub(T) == IF T \in DOMAIN PartsOf THEN PartsOf[T] ELSE {}

----------------------------------------------------------------------------
(* What HABridge and the platforms make of them.                           *)

\* TIMER_STATE_MAP: the property that holds the hours of a timer.
HourKey == [
  ABSOLUTE_TO_START |-> "ABSOLUTE_HOUR_TO_START", ABSOLUTE_TO_STOP |-> "ABSOLUTE_HOUR_TO_STOP",
  LIGHT_START |-> "START_HOUR", RELATIVE_TO_START |-> "RELATIVE_HOUR_TO_START",
  RELATIVE_TO_STOP |-> "RELATIVE_HOUR_TO_STOP",
  SLEEP_TIMER_RELATIVE_TO_STOP |-> "SLEEP_TIMER_RELATIVE_HOUR_TO_STOP",
  REMAIN |-> "REMAIN_HOUR", RUNNING |-> "RUNNING_HOUR", TARGET |-> "TARGET_HOUR",
  TIMER |-> "TIMER_HOUR", TOTAL |-> "TOTAL_HOUR"]

\* The errors and notifications of a profile.
EventKeys(T) == IF T \in DOMAIN Events THEN Events[T] ELSE {}

\* Mutant: PROPERTY_OPTION_MAP is empty.
SetterOfOwnName(d, key) ==
  CASE key \in d.plain -> "plain"
    [] key \in d.range -> "range"
    [] key \in d.enum -> "enum"
    [] key \in d.multi -> "multi"
    [] key \in d.pair -> "pair"
    [] OTHER -> "none"

\* PropertyHolder._retrieve_setter, and the alt_setter of PROPERTY_OPTION_MAP.
SetterOf(d, key) ==
  CASE key \in d.plain -> "plain"
    [] key \in d.range -> "range"
    [] key \in d.enum -> "enum"
    [] key \in d.multi -> "multi"
    [] key \in d.pair -> "pair"
    [] key = "SLEEP_TIMER_RELATIVE_HOUR_TO_STOP" -> "multi"
    [] OTHER -> "none"

\* What a class reads or sets, an hour for each timer.
KeysOf(d) == UNION {d.shown, d.plain, d.range, d.enum, d.multi, d.pair,
                    {HourKey[t] : t \in d.timers}}

\* The sensors of device class ENUM; those of timers.
EnumSensors == {
  "MONITORING_ENABLED", "ODOR_LEVEL", "TOTAL_POLLUTION_LEVEL", "CO2",
  "CURRENT_DISH_WASHING_COURSE", "CURRENT_JOB_MODE", "PERSONALIZATION_MODE", "RINSE_LEVEL",
  "SOFTENING_LEVEL", "RECIPE_NAME", "WORT_INFO", "YEAST_INFO", "HOP_OIL_CAPSULE_1",
  "HOP_OIL_CAPSULE_2", "FLAVOR_CAPSULE_1", "FLAVOR_CAPSULE_2", "FRESH_AIR_FILTER",
  "CURRENT_STATE", "COCK_STATE", "STERILIZING_STATE", "GROWTH_MODE", "TEMPERATURE_STATE"}
TimerSensors == DOMAIN HourKey
EnumTemperatures == [KIMCHI_REFRIGERATOR |-> {"TARGET_TEMPERATURE"}]

\* The platforms that list a property of a device type; "reading" is the sensor of a
\* cooktop, or of a timer that shows the property.
Listed(table, T, key) == T \in DOMAIN table /\ key \in table[T]
ListedBy(T, key) ==
  LET sensor == IF T = "COOKTOP" THEN "reading" ELSE "sensor"
      timer == {t \in TimerSensors : HourKey[t] = key} IN
  UNION {IF Listed(BinarySensors, T, key) THEN {"binary_sensor"} ELSE {},
         IF Listed(Numbers, T, key) THEN {"number"} ELSE {},
         IF Listed(Selects, T, key) THEN {"select"} ELSE {},
         IF Listed(Switches, T, key) THEN {"switch"} ELSE {},
         IF Listed(Events, T, key) THEN {"event"} ELSE {},
         IF Listed(Sensors, T, key) \/ Listed(EnumTemperatures, T, key) THEN {sensor} ELSE {},
         IF \E t \in timer : Listed(Sensors, T, t) THEN {"reading"} ELSE {}}
=============================================================================
