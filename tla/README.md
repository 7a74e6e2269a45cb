# LG ThinQ Extended: a TLA+ model

This directory holds TLA+ specifications of the Home Assistant integration in
`src/custom_components/lg_thinq_extended`, the TLC configurations that check
them on small instances, and theorems about them that TLAPS proves for every
value of the constants. Paths below are relative to that directory unless they
begin with `docs/` or end in `.md`.

    tlc -workers 2 -config MCInventoryCheck_bursts.cfg MCInventoryCheck
    tlapm InventoryCheckProofs.tla

## 1. The system

The integration is one asyncio program inside Home Assistant. Almost everything
runs on one event loop, so that an atomic step of the models is a stretch of
code between two awaits. Two things break that picture: Paho's network threads,
which call back into the loop with `call_soon_threadsafe`, and the LG cloud with
the appliances behind it, which answer late, out of order, or never.

### 1.1 Inventory of components

**HTTP transport** (`client/transport.py`, `class ThinQApi`).
State: `_auth_failed`, `_blocked_until`.
Operations: `async_request` and its wrappers, one per route.
Used by every other component, by any number of coroutines at once.
Hard: requests that passed the gate are still under way when an answer closes it.
Correct when: nothing is sent while the gate is closed, a late answer does not
reopen it, and a cooldown is bounded.

**Command outcome** (`api.py`, `insights.py`, `insight_helpers.py`).
State: `command`, `confirm_cancel`, the listeners of the API object, the store.
Operations: `on_command`, `observe`, the 120-second callback, `load`, `close`.
Called around every control POST, and by the coordinator with every reading.
Hard: commands overlap, readings are older than they look, Home Assistant stops
half-way.
Correct when: events about a command come in order, a reading confirms only the commands
it came after, no record waits for something that cannot happen, and none waits for ever.

**MQTT session** (`client/mqtt_client.py`, `mqtt.py:33-190`).
State: `_client`, `_connected`, `_registered`, `_expires`, `_closing`, `_ready`.
Operations: `async_prepare_mqtt`, `async_connect_mqtt`, `async_refresh_certificate`,
`async_disconnect`, the four Paho callbacks.
Hard: threads and loop share the object; a renewal, a timeout and an unload can meet.
Correct when: there is one session, the coordinators know whether it is up, and
nothing of it is left after the unload.

**Inventory reconciliation** (`mqtt.py:192-315`, `device_inventory.py`, `services.py:116-122`).
State: `_known_inventory`, `_inventory_check_pending`, `_inventory_task`, `_closing`.
Operations: `_schedule_inventory_check`, `_async_check_device_inventory`, the message
handler that triggers it, the service `refresh_devices`.
Interacts with set-up and unload: the check asks for a reload of its own entry.
Hard: notifications arrive while the list is being fetched; the reload cancels
the tasks of the entry, and the task that asked for it is one.
Correct when: an announced change is loaded in the end, by one check at a time.

**Local observations** (`metrics.py`, `monitoring.py`).
State: `previous`, `since`, `cycles`, `last_tick`, `connected`, `saved`, the store.
Operations: `observe`, `advance` (every 30 s), `gap`, `load`, the delayed save.
Fed by the coordinator (readings) and by MQTT (disconnects).
Hard: intervals cross midnight, outages and restarts; repeated and late readings.
Correct when: a second is counted once, on its day, and only if somebody watched.

**State feed** (`coordinator.py`, `client/integration/homeassistant/api.py:651-692`,
`client/devices/connect_device.py`, `insight_helpers.py:99-123`).
State: the device's attributes, the coordinator's `data`, listeners, the raw cache of `api.py`.
Operations: GET of the state by four callers, MQTT reports and notifications, unit changes.
Hard: a GET is answered after a newer report was taken in; a report is partial and
is merged into device and cache by different code; reports are lost with the session.
Correct when: once everything has arrived both views show what the appliance has,
and they say the same.

**Control guards** (`entity.py`, `select.py`, `number.py`, `switch.py`, `oven_control.py`,
`laundry_status.py`, `value_validation.py`, `services.py:79-88`, the throttle of
`client/integration/homeassistant/api.py:182-192`).
State: `control_lock`, `_state_set_lock`, `_state_set_last_called`, the bridge's state.
Operations: a fresh GET, the check of remote start and run state, the wait in the
throttle, the command; cancellation at any of these awaits.
Hard: the check is made before an await, the command is sent after it; locks must
survive failures and cancellations.
Correct when: no guarded command is sent that the appliance did not allow since it
was given, two POSTs of a bridge keep their distance, and every call ends.

**Energy** (`sensor.py:882-993`, `client/energy.py`, `insights.py` history refresh).
State: the timer of each energy sensor, the day of the last history refresh.
Hard: a self-arming timer, a removal during a request, retries after a failure.
Correct when: one timer is armed while the sensor exists and none afterwards, and a
failed refresh is made up for.

**Entry lifecycle** (`__init__.py`, `config_flow.py`, the Stores of `monitoring.py` and `insights.py`).
State: the entry's coordinators, MQTT object, monitorings, timers, stop listener.
Operations: set-up with a failure at each step, unload, reload, Home Assistant's stop.
Hard: each set-up makes new objects with a Store on the same file, while coroutines of the
earlier set-up may still be waiting for LG.
Correct when: a failed set-up or an unload leaves nothing running, and history survives it.

**Errors and notifications** (`event.py`, `sensor.py` status sensors, `metrics.py` notification,
`client/devices/connect_device.py` error status).
State: the error attribute, the cache's error, the two states of the bridge, the local history.
Hard: partial reports that say nothing of the error, gaps, polls that fail, updates about something else.
Correct when: what is fired or shown is what LG said last, and an error that was given is recorded.

**Services** (`services.py`). Validation and dispatch to the components above.

**Property and profile mapping** (`client/integration/homeassistant/{property,api,state,
temperature,specification}.py`, `client/devices/connect_device.py`, `const.py`).
State: the `rw_mode` of every `PropertyHolder`, the holders of climate and water heater
helpers, the attribute values. Operations: parsing of profiles, `get_active_idx`, reading, posting.
Hard: platforms are set up in any order and share a holder whose `rw_mode` each of them sets;
halves, steps and `int()`; enumerations with more readable than writable values.
Correct when: what an entity offers is accepted, and what it shows is among what it declared.

**Device classes** (`client/devices/*.py`). Tables of resources per appliance, a setter
per property.
Hard: a table and its setters per class, written by hand; parts of appliances whose setters must name the part.
Correct when: every property a platform lists for a device type can be set the way it is listed.

**Entity platforms** (`binary_sensor.py`, `climate.py`, `fan.py`, `humidifier.py`, `sensor.py`,
`vacuum.py`, `water_heater.py`, ...).
State: what each entity shows, computed from the last update; coroutines of services.
Hard: a service posts several commands with sleeps between them and decides each by the
last report; percentages and steps are rounded twice; moments are computed from minutes.
Correct when: the entity shows the appliance once all reports are in, and an undisturbed
call leaves the appliance as it was asked.

**Configuration flow, diagnostics, country tables.** No behaviour of their own over time.

### 1.2 How they interact

    LG cloud --HTTP--> transport <-- api.py <-- entities, services, guards
        |                                |
        |                                +--> Insights (sending/accepted/failed)
        +--MQTT--> Paho thread --queue--> mqtt.py --+--> coordinators --> Observations
                                                    |                 +-> Insights.observe
                                                    +--> inventory check --> reload
    __init__.py: creates all of it, wires timers (30 s, 12 h, daily), tears it down.

Shared between components: the transport's gate (all calls), the API object's
listeners (commands), the coordinator (readings of every origin), and the one
event loop. Components do not lock each other out, except `control_lock` for
oven and laundry commands.

## 2. The modules

| Module | Models | Checked by | Proved in |
|---|---|---|---|
| `Observations` | `metrics.py`, `monitoring.py`, `mqtt.py:56-72` | `MCLink`; `MCObservations` for finding 5 | `ObservationsProofs` |
| `InventoryCheck` | `mqtt.py:192-315`, `device_inventory.py`, `__init__.py` set-up/unload | `MCInventoryCheck` | `InventoryCheckProofs` |
| `MqttSession` | `client/mqtt_client.py`, `mqtt.py:74-138`, `__init__.py:149-204` | `MCLink`; `MCMqttSession` for findings 2 and 3 | `MqttSessionProofs` |
| `RequestGate` | `client/transport.py:125-175` | `MCLink` | `RequestGateProofs` |
| `Breaker` | what `DIRECT_CLIENT.md` promises of the transport (abstract) | through `RequestGate` | `RequestGateProofs` |
| `CommandOutcome` | `api.py`, `insights.py:26-90`, `insight_helpers.py:88-96` | `MCCommandOutcome` | `CommandOutcomeProofs` |
| `StateFeed` | `coordinator.py`, `client/integration/homeassistant/api.py:651-692`, `client/devices/connect_device.py:407-455,583-621`, `insight_helpers.py:99-123` | `MCLink` | `StateFeedProofs` |
| `ControlGuard` | `entity.py:103-158`, `select.py`, `number.py`, `oven_control.py`, `laundry_status.py`, `services.py:79-88`, `client/integration/homeassistant/api.py:182-192,708-715` | `MCControlGuard` | `ControlGuardProofs` |
| `EntryLifecycle` | `__init__.py:67-215`, `monitoring.py`, `sensor.py:882-993`, the two refreshing services | `MCEntities` | `EntitiesProofs` |
| `EventStatus` | `event.py`, the status sensors, the error and notification paths of `coordinator.py`, `connect_device.py`, `metrics.py` | `MCEntities`; `MCEventStatus` for finding 7 | `EntitiesProofs` |
| `EntityTables` | the resource tables of `client/devices/*.py` and the `DEVICE_TYPE_*_MAP` tables of the platforms | `MCEntities` | data |
| `PropertyControl` | profile parsing in `connect_device.py`, `property.py`, `select.py` with `oven_control.py` and `laundry_status.py`, `number.py`, `switch.py`, the set-up of every platform | `MCEntities` | `EntitiesProofs` |
| `ClimateControl` | `climate.py`, the climate half of `state.py`, `temperature.py`, `specification.py`, the setters of `air_conditioner.py` | `MCEntities` | `EntitiesProofs` |
| `TimerSensor` | `sensor.py:804-879`, `TimerPropertyState` | `MCEntities` | `EntitiesProofs` |
| `Appliances` | `fan.py`, `humidifier.py`, `water_heater.py`, `vacuum.py` and their states | `MCEntities` | `EntitiesProofs` |
| `Entities` | the entry side by side with `EventStatus`, `PropertyControl`, `ClimateControl` (twice), `TimerSensor`, `Appliances` and two devices of `Observations` | `MCEntities` | `EntitiesProofs` |
| `CommandEvents` | the order of the events of each command (abstract) | through `CommandOutcome` | `CommandOutcomeProofs` |
| `Link` | `Observations` (a washer) side by side with `RequestGate`, `MqttSession` and `StateFeed` | `MCLink` | the proofs of the four |

Variables keep the names of the attributes they stand for; variables marked
"history" in a module record something the code does not, for a property only.
Operators whose comment begins with "Mutant" are altered versions of the
definition that follows them. They are used by nothing in the model; each shows
that the property it is paired with in PROJECT.json is sensitive to that code.

### 2.1 Observations

One device, one location. Time is in seconds and a day has `DayLength` of them, so
that two days of two seconds contain every crossing of midnight. `Readings`
keeps one member of each class of states the code tells apart (`ACTIVE`,
`OVEN_ACTIVE`, pause, end, error, idle, ...).

| Action | Code |
|---|---|
| `Tick` | `Monitoring.tick`, the 30-second timer: `advance` |
| `ObserveReport`, `ObserveFetch` | `Monitoring.observe` called by `handle_update_status` and by `_async_update_data`; `advance`, then every change of `observe`, with the trailing trim of `add` |
| `Disconnected`, `Connected` | `_connection_changed`: `advance` and `gap` on a disconnect |
| `Save`, `Restart` | `save_later` or `close` reaching the store; `load` into new objects |
| `ClockStep` | the wall clock; it also counts `claim`, second by second |

`watch` and `claim` are the reference definition for accrual, and use nothing of the code's own bookkeeping: `watch`
holds the reading last taken since the last loss of the broker or restart, and whether the broker is known to
be lost; `claim` counts each second at the moment it passes for that reading, those of an outage apart
(`missed`). The code, which counts whole intervals at the next event, must agree with the two together at every
moment (`AccrualExact`): nothing is lost, doubled, bridged or put on the wrong day. That nothing of an outage is among it
(`OutagesExcluded`) is what `MONITORING.md` says, and not so: finding 5.

### 2.2 InventoryCheck

The LG account changes (`CloudChange`), announces it if the entry is subscribed
(`DeliverNotice`), and the check task goes through sleep, GET and comparison (`Wake`,
`Answer`, `Unchanged`, `Changed`, `Fail`). `ReloadStarts`, `Unloaded`, `SetupList`,
`SetupConnect` and `SetupDone` are the reload it asks for, which waits for the
set-up lock and disconnects first. Several check tasks exist at once only while
earlier ones wait for or carry out their reload. `ReloadPointless` is the reload of an entry that was
unloaded meanwhile.

### 2.3 MqttSession

Three coroutines (set-up, 12-hour refresh, close) are cut at their awaits and
share one client object. Each Paho client is a state machine of its own (`OnConnect`,
`OnSubscribe`, `OnDisconnect`, `PahoStops`) and talks to the loop only through a
FIFO of callbacks, which is how asyncio runs `call_soon_threadsafe`. The end of a
`to_thread` call is such a callback too; its order relative to the callbacks of
the stopped client is what makes `ConnectionShown` and `WokenBySubscription` true.
`AllowOverlap` decides whether the refresh may run while the entry is being closed. In the code nothing
prevents it: the timer is removed by an `on_unload` callback only after `async_disconnect` has been awaited. The run `link` and
the theorems about `Serial` say what holds while the turns do not overlap, and `session_overlap` what then does not.
A certificate that cannot be used fails the set-up or the renewal after its expiry has been stored (`PrepareFails`).

### 2.4 RequestGate and Breaker

`Send` and `Refuse` are the guard at the top of `async_request`; `Answered`, `TimedOut`,
`Rejected` and `Limited` are its outcomes. Between sending and outcome any other
request may run. `Breaker` is the circuit breaker a reader of `DIRECT_CLIENT.md` has in mind.
The refinement maps the latch and the deadline to `rejected`, `cooling` and `open`.

### 2.5 CommandOutcome and CommandEvents

`Send` and `Answer` are the two sides of the wrapped POST, with `on_command` for all
three statuses; `Unconfirmed` is the 120-second callback; `HandleReport` and `FetchDone`
hand readings to `observe`; `Save` and `Restart` store and load the record. `Apply`, `Press`
and `Fetch` are the appliance and LG: a command may take effect before, after or
without its answer. `CommandEvents` keeps for each command the last event fired
about it and says which event may follow which. It is about their order only. Whether the reading that confirms a command was
taken after it was given is the matter of `ConfirmedSubsequently`: a reading carries, as history, the commands for its value
that had been given when LG took it (`asked_by`), and the code confirms others too (finding 6).
`Restart` is a stop of Home Assistant. On a reload of the entry the coroutine of a waiting POST lives on and tells the closed
`Insights` of its answer, not the new one; the record the new one loaded has then become `unconfirmed_after_restart` as after a stop.

### 2.6 StateFeed

The appliance has locations with fields; `Change` raises the value of some fields of
some locations and queues the report of them, so that a value says how new it is.
`Ask`, `Answer`, `GetFails` and `GetDone` are the GET of one caller, cut at its await; an answer
may hold no state (HTTP 204 or `"response": null`). `HandleReport` is `handle_update_status`:
`UpdateStatus` is the device's way of taking a report in (`__set_property_status` of the
sub device of each location) and `MergeReport` the cache's (`merge_report`). They are different
code on different data, and `ViewsAgree` compares them. `LoseReport` is a report dropped while the
session is down. `late` and `reported` are history: which fields of a view are known to
be behind, because a report of them was lost or an answer older than a report
was taken in last. The code repairs neither before the next report or GET, so
`DeviceCurrent` and `CacheCurrent` claim nothing of these fields and everything of the others.
There is one coordinator; a wash tower's or combo's two coordinators share a device id and
a raw cache, which is not modelled.

### 2.7 ControlGuard

Every call is a coroutine: `Give` starts it, and what follows depends on its kind. An
oven command and a laundry START (`GuardDone`) fetch, check the fetched state and go through the
throttle (`BridgePost`, `Through`, `Acquire`, `Wake`); a plain command goes there at once;
`start_laundry_mode` (`GiveMode`, `ModeDone`) fetches and POSTs under `control_lock`, without the
throttle. `Over` is the end of a call in every way, with the release of its locks, and
`Cancel` may bring it about at any await. The two locks are `asyncio.Lock`s; `behind` holds who
waits before whom. One bridge; `Init` chooses whether it is an oven or a laundry
appliance. Nothing counts calls: a call returns to `idle` and can be given again, so a
run covers histories of any length with two calls at a time. Time is kept as
the seconds since the last POST (at most `Gap`), what a sleeper still sleeps, and the
seconds a decision has been waiting.

### 2.8 EntryLifecycle

| Action | Code |
|---|---|
| `Start`, `Loaded`, `NotReady`, `Connected`, `NotConnected`, `NotForwarded`, `Forwarded`, `Cleaned` | `async_setup_entry`, one action per await and one per way it fails |
| `Added`, `Ask`, `Answer` | the energy entity: first fetch while the platforms are set up, timer, and the answer that sets the timer again in any case |
| `Observe`, `Tick`, `Save` | the `Monitoring` of a set-up and its delayed save |
| `Serve`, `Served` | a service that refreshes and waits for LG |
| `Unload`, `PlatformsUnloaded`, `NotUnloaded`, `Close` | `async_unload_entry`; a platform that does not unload leaves the entry stuck |
| `Restart` | Home Assistant stops, with or without its Stores written |

Everything but the entry's phase is kept per set-up (`gen`), because objects of an earlier
set-up live on while a coroutine of theirs does. `closed`, `overwritten` and `orphans` are
history. Of a device's history only a count is kept. `Unload` drops the MQTT session in one step: the awaits of
`async_disconnect`, and the session that a refresh meeting it leaves behind, are those of `MqttSession` (finding 2).

### 2.9 EventStatus

An error takes four steps from LG to the screen, and each keeps its own copy: `cached`
(the `StateCache`), `attr` (the device), `value` (the bridge's states) and what `Updated` makes
the entities fire and show. `Fetched`, `Failed`, `Reported` and `Pushed` are the four ways an
update of the coordinator comes about; each reaches every entity, whatever it is about. All but `Failed`, a refresh that fails, set
`last_update_success` (`SetUpdated`), so that another failed one updates the entities again.
`Recorded` is `Observations.notification`, with its minute in which the same message is not recorded
again: the last message, and, if its text says "error" or "failed" (`Alarming`), the last error and the count of errors. What LG
calls an error need not be alarming (`need_water_drain`, `need_water_replenishment`), and a pushed message may be (`drying_failed`). `Gap` is the
lost session. `fired`, `told`, `times` (how often a notification was fired) and `given` (what the monitoring was given) are history.

### 2.10 EntityTables and PropertyControl

`EntityTables` has one record for each device class (what is only shown, and what has a setter, by
the check the setter makes), the classes that make up each device type, and the keys each
platform lists for it. A temperature kept in two units is one property, and so are the hour and the
minute of a timer.

`PropertyControl` is one property of one of them: `Parsed`, `Profile` and `Data` are what
`ConnectDeviceProfile` and `PropertyHolder` make of a profile, `SetUp` is a platform's
`async_setup_entry` (which sets `rw_mode` on the shared holder), `Add` an entity added to Home
Assistant, `Update` new data of the coordinator, and `SelectOption`, `SetNumber` and `Turn` a service call: conversion by
`rw_mode`, the check of the setter, the POST. The selects of commands, an oven's and the operations of laundry, rebuild their
options at every update from the run state and the remote flag (`Reselected`), and show a state among them that is no
command: choosing it is an error, and so is a command that the appliance, read again, does not allow (`Stopped`). Numbers are in halves, so that a step of 0.5 is an integer
and `int()` a truncation.

### 2.11 ClimateControl

`st` is the `ClimatePropertyState` with the holder of every helper, `dev` the attributes of the
device, `app` the appliance. A service call is a coroutine: `Starting` and `Resuming` say what it
posts next, by the state as it is then; `Obeys` and `Refused` end a POST, `Wake` one of the two-second sleeps of
`climate.py`. Two calls may overlap, and somebody may use the remote control (`Touched`). `calm` is
history: the calls nothing has disturbed. `Settled` and `Accepts` are the appliance, known
only by its reports and refusals: a set point belongs to a mode, and `TARGET` follows the one of
the mode. A mode the profile lacks never reaches it, because the client raises first
(`client/devices/connect_device.py:314`); the caller cannot tell the two apart.

### 2.12 TimerSensor

`Updated` is `_update_status` of a timer sensor. It runs at every update of the
coordinator (`Refresh`), with a new reading only at some (`Report`). `shown` is a moment for the remaining,
relative and running times, and minutes for an oven's. `steady` is history.

### 2.13 Appliances

One appliance of six kinds. `Ask` begins a service call, which decides each of its commands by `seen`
when its turn comes (`Decided`, one operator per platform) and skips what it thinks is so already. The
roundings of the percentages are those of the code and of Home Assistant's helpers
(`PercentageToItem`, `PercentageToSpeed`). `held` tells whether the water heater's helper has
a holder, which it gets at the first report with the heater on.

### 2.14 Entities

The models of 2.8 to 2.13, and a door and an oven of `Observations`, share no state. One module
puts them side by side and one run, of `MCEntities`, checks them all: a behaviour is of one of nine parts, and `part` says which. The module extends
`EntryLifecycle`, whose variables and properties are its own; the other parts are instances that take turns
in the variables `x1` to `x14`, with the entry as it begins. `Observed(K, S)` is the instance of a device with the
properties `K` and the oven states `S`: the door and the oven are two of it. Where a property of `Entities` consists
of several of a module, its name is the more general: `ProfileKept` (`OfferedIsAccepted`, `SentIsWritable`,
`SensorAmongOptions`), `MomentTells` (`ReportTells`, `MomentSteady`, `OffShowsNothing`), `ShownTruth` (with
`RangeOfHolder`), `AskedIsReached` (with `OtherBoundKept`), `SpeedRoundTrip` (with `SpeedOffered`),
`FiredWasSaid` (`FiredIsLast`, `NotificationOnce`), `DurationsWatched` (`NoDurationBridges`, `CurrentDurationWatched`).
The constants are those of the parts. `MCEntities` gives them values: the tables of `EntityTables`, profiles, limits
and requests. What the proofs ask of them is in named assumptions (section 4).

### 2.15 Link

The models of 2.1, 2.3, 2.4 and 2.6 side by side: `Link` extends all four, a behaviour is of one of
them (`part`), its steps are that module's, and the variables of the other three stay as they begin. The
properties are the modules' own. What connects the four in the code (the session up or down for the
readings of the history, reports lost with it) each module takes as nondeterministic, so that nothing is
lost by checking them one by one.

## 3. What the runs show

| Run | Question | Result |
|---|---|---|
| `link` | Are the washer's seconds, cycles and daily buckets exact under every order of ticks, reports, GETs, outages, saves and restarts? Does the transport implement the circuit breaker with a bounded cooldown? Is there one MQTT session, truthfully shown, and torn down in the end? With GETs, reports, losses and empty answers in any order, do device and cache show the appliance once all has arrived, and do they agree? | holds; for the session while refresh and close do not overlap, for the views except where a report was lost or overtook an answer, and only `start_laundry_mode` parts them |
| `outage` | Are the seconds of a known outage left out? | no, when a GET is answered in it: finding 5 |
| `entities` | Do entities offer what is accepted, show what the appliance does, and do what they are asked? Are errors fired and recorded, timers truthful, and an unloaded entry gone? Does any duration of a door or an oven, recorded or shown, reach over an interval nobody watched? | holds, with the exceptions section 5 lists |
| `inventory_bursts` | One check at a time, stopped by unload? No reload that cancels itself? Every flagged check served, and every announced change loaded in the end? | holds; a failed GET suspends the last two until the next request |
| `inventory_dropped` | Is a notification ever dropped? | yes, when the GET under way fails: finding 1 |
| `session_overlap` | Is the session torn down when refresh and close overlap? | no, finding 2 |
| `session_renewal` | Is a failed renewal tried again at the next one? | no, finding 3 |
| `outcome_racing` | Do the events of overlapping commands come in order, is every record pending on something, and is it resolved in the end? | holds |
| `outcome_stale` | Is a command confirmed only by a reading taken after it was given? | no, finding 6 |
| `control` | Are POSTs spaced, decisions recent, guards effective, permissions used once, and locks given back, whatever overlaps or is cancelled? | holds |
| `control_unread` | Is a guarded command ever sent by a stale flag? | yes, when the GET brings no state: finding 4 |
| `event_refired` | Is an error fired only when LG tells of one? | no, finding 7 |

### 3.1 Bounds, and why they are enough

- *link*, the washer (also *outage*): two days of two seconds, one retained bucket. An interval can lie in a
  day, touch midnight or span it; with one bucket retained every trim is observable.
  Two completed cycles: a repeated END can only be miscounted after a first one.
- *link*, the session: three Paho clients (set-up and two renewals) and two lost sessions,
  so that a session can be lost in the one and in the next.
- *link*, the gate: four requests: two in flight when the gate closes, one refused, one after
  it opens. Headers below, at, inside and above the accepted range; the clock runs past
  the longest cooldown.
- *link*, the feed: two locations to mix up and two fields, so that a report can be partial in
  both directions. Two changes: a report that overtakes another's answer. Three GETs: the
  refresh of set-up, and one before and one after a report.
- *link* as a whole shares nothing between its four parts, so each has bounds of its own. It does not check for deadlock:
  requests and sessions come to an end.
- *entities*: nothing is shared by the nine parts, so each has its own bounds.
  - Every property every table gives to a platform, in all four modes a profile may
    declare; enumerations with one value only readable; ranges whose writable part is smaller, with
    steps of a half, one and two, and numbers asked for beyond either end.
  - Timers: a cycle and a horizon of twelve half minutes, several times the minute and
    a half within which a moment may waver.
  - Climate: two temperatures, limits that differ between heating and cooling, two reports
    on their way. Two overlapping callers with the three requests that post most and one change at the
    appliance; and one caller with every request, modes with a preset among them.
  - Appliances: two callers; speeds with a name that the profile lacks; percentages at, between
    and beside the boundaries of the roundings.
  - Errors (also *event_refired*): two errors and two notifications, one of each alarming, and a clock that passes the minute in which a
    repeated message is dropped.
  - Selects of commands: three run states, none among them, with and without the remote flag: an oven is off, ready
    or on, and a washer's state is shown by its own name or as running.
  - Lifecycle: three set-ups, so that one older than the last may still write, and a
    count up to two.
  - Door and oven: three seconds of one day tell an interval that begins before a gap from one
    that begins after it.
  - Calls and errors are interchangeable (`Symmetry`); only invariants and properties of single steps
    are checked. The run does not check for deadlock: a clock stops at its horizon and an entry
    may be stuck, or gone for the last time.
- *inventory*: two inventories (a change and its reversal), three changes and three
  requests: one before, one during and one after a GET. Four tasks: one looping and one waiting
  per change, so no burst is cut short by the bound.
- *outcome_racing*, *outcome_stale*: two commands and two values: an outcome can be confirmed by the reading
  of another command only when their values agree or differ. One press,
  one GET and one restart at any point.
- *control*: two calls, each given again without bound, and a gap of two seconds, so that a
  sleep can be entered with either second left. A call given again may meet the other one
  waiting for a lock that is free, the one case where the order of waiters matters. The
  theorems hold for any number of calls and any gap.

TLC's bounds on counters are guards of the environment's actions (changes
of the account, drops, presses, restarts, readings). In `EntryLifecycle` and `EventStatus` they also
bound how often something is counted (`MaxCount`, `MaxErrors`), and in `EntryLifecycle` how often the
entry is set up (`Generations`).

### 3.2 Fairness

`InventoryCheck!FairSpec`: asyncio runs every ready task and callback, `asyncio.sleep`
ends, and a request ends because the session's total timeout is 15 seconds. Nothing
is assumed of the account: it need not change, and no user acts. A
GET may fail each time; `Converges` and `PendingServed` then claim nothing until the next request,
because the code does nothing until then (finding 1).
`CommandOutcome!FairSpec`: the POST ends by the same timeout, `async_call_later` fires.
No fairness is assumed of readings: a command must settle without any.
`ControlGuard!FairSpec`: requests end by the same timeout, the loop runs a coroutine that was
handed a lock or whose sleep is over, and time passes. No fairness between calls is
assumed: that a waiter has its turn follows from the queues.
The other modules state no fairness: their properties are of states and steps.

## 4. What is proved

TLAPS checks these for every value of the constants that satisfies the named
assumptions (`BoundsAssumption`, `NoneAssumption`, ...), which say that bounds are
natural numbers and that `None` differs from all data. TLC evaluates them in each run.

| Theorem | Statement |
|---|---|
| `ObservationsProofs!TypeCorrect` | types; in particular no counter or duration is negative |
| `ObservationsProofs!CompletionNeedsActive` | `CompletionFollowsActive` |
| `ObservationsProofs!DurationsWatched` | `NoDurationBridges` |
| `ObservationsProofs!CurrentIsWatched` | `CurrentDurationWatched` |
| `ObservationsProofs!HistoryIsBounded` | `BoundedHistory` |
| `InventoryCheckProofs!ChecksAreOwned` | `ChecksOwned` |
| `InventoryCheckProofs!ReloadNotCancelled` | `ReloadSurvives` |
| `InventoryCheckProofs!RequestsServed` | `PendingServed` |
| `RequestGateProofs!CooldownIsBounded` | `CooldownBounded` |
| `RequestGateProofs!ClosesByAnswer` | `ClosedByAnswer` |
| `RequestGateProofs!Refines` | `RequestGate` implements `Breaker` |
| `CommandOutcomeProofs!OutcomesArePending` | `OutcomePending` |
| `CommandOutcomeProofs!EventsRefine` | the events implement `CommandEvents`: their order, not that confirmations are subsequent |
| `StateFeedProofs!TypeCorrect` | types; a report of an unknown location never enters a view |
| `StateFeedProofs!DeviceIsCurrent`, `!CacheIsCurrent` | `DeviceCurrent`, `CacheCurrent` |
| `StateFeedProofs!ViewsPartOnlyThere` | `ViewsAgree` |
| `ControlGuardProofs!TypeCorrect` | types |
| `ControlGuardProofs!PostsAreSpaced` | `PostsSpaced` |
| `ControlGuardProofs!GuardsHold` | `SentOnlyIfAllowed` |
| `ControlGuardProofs!PermissionsNotShared` | `PermissionNotShared` |
| `EntitiesProofs!NothingIsLeft` | `NothingLeft` |
| `EntitiesProofs!HistoryKept` | `CountsKept` |
| `EntitiesProofs!EntryBeside` | `EntitiesSpec` implements `EntryLifecycle!Spec`, hence both of the entry's |
| `EntitiesProofs!LastErrorFired` | `FiredWasSaid` |
| `EntitiesProofs!GivenErrorsCounted` | `GivenIsCounted` |
| `EntitiesProofs!TimerTells` | `MomentTells` |
| `EntitiesProofs!ProfilesKept` | `ProfileKept` |
| `EntitiesProofs!ClimateTells` | `ShownTruth` |
| `EntitiesProofs!AskedReached` | `AskedIsReached` |
| `EntitiesProofs!DurationsSeen` | `DurationsWatched`, for a door and an oven |
| `EntitiesProofs!SpeedsRoundTrip` | `SpeedRoundTrip` |
| `EntitiesProofs!AskedGetsDone` | `AskedIsDone` |
| `EntitiesProofs!EntitiesTyped` | `EntitiesTypeOK` |
| `MqttSessionProofs!TypeCorrect` | types, also when turns overlap |
| `MqttSessionProofs!SessionsTakeTurns` | `OneSession`, while `Serial` |
| `MqttSessionProofs!ConnectionIsShown` | `ConnectionShown`, while `Serial` |
| `MqttSessionProofs!CloseTearsDown` | `TornDown`, while `Serial` |
| `MqttSessionProofs!WokenByOwnTopics` | `WokenBySubscription`, while `Serial` |
| `ObservationsProofs!AccrualIsExact` | `AccrualExact`, the seconds of outages after a GET among it |
| `ControlGuardProofs!DecisionsRecent` | `DecisionRecent` |

Besides types, `Entities` assumes of its constants what the code's input has:

- `CasesAssumption`: LG's profile gives an enumeration lists of names in use (those `Lower` and `Upper` are about) and a range bounds, with a positive
  step, that are whole numbers if the step is (numbers are in halves, as in `PropertyControl`). A select lists
  only enumerations whose setter takes an option and a number only ranges, as the platforms' tables do:
  `MCEntities` enumerates every entry of them, and TLC evaluates the assumption over all.
- `RequestsAssumption`: a call of a climate service has an operation, a mode and temperatures or none, which Home
  Assistant's service schema sees to; the mode that goes with a temperature is one of Home Assistant's, never a preset. `LimitsAssumption`: the range of a set point consists of numbers.
- `FanAssumption`: a fan has a speed that is no preset, and its speeds have the names `fan.py` knows. With presets only
  the entity would compute a percentage of an empty list of speeds, and post a name the profile lacks.
- `LevelsAssumption`: ranges consist of numbers, with a positive step; the speeds of a hood are 1 apart, and there are at most
  51 of them. Beyond that the percentages, which Home Assistant cuts to whole ones, are too close to tell the speeds apart. The run's has six.
- `EventAssumption`: a pushed notification is no error, for the profile lists them apart. `NamesAssumption`: a switch's `True` and
  `False` become `true` and `false`. `ChangesAssumption` and `ObservedAssumption`: the bounds are natural numbers, and a day is not empty.

The arguments:

- *Observations.* A duration is `now - since`. That it is natural and does not reach over
  a gap needs every time on record to lie between the last gap and now
  (`WatchedTimes`); the same for one shown, since a reading held has a known beginning (`SinceKnown`). That a completion follows an active reading needs a cycle in
  progress to have been seen active, and not to survive a stop (`CycleSeen`).
  Restarts need the stored counters to be no larger than those in memory (`StoredBehind`). The history is bounded
  because of finitely many days those with fewer than `Retention` later ones are at most
  `Retention` (`NewestAreFew`), and because what was stored is bounded too (`StoredBounded`).
- *InventoryCheck.* `ChecksOwned` is not inductive: a task that let go of the handle must
  not loop again, a reload must be carried out by a task that is no longer the
  handle's, and after an unload the old tasks must be gone before a new object starts
  others. `IInv` says so, and `SchedulePreserves` and `DisconnectPreserves` are the two handlers
  that touch all of it.
- *RequestGate.* Step simulation: `StepRefines` takes each action to `Send`, `Settle`,
  `CoolDown` or a stutter of `Breaker`; a tick is `CoolDown` exactly when the deadline passes.
- *CommandOutcome.* Besides `OutcomePending` the invariant ties the record to the last event of
  its command and a waiting POST to the event `sending`; without it nothing would keep
  `Unconfirmed` from resolving a command twice. The invariant is split into the
  environment's half and the record's half, so that steps of the appliance disturb only one.
- *MqttSession.* Two coroutines that overlap break `OneSession` and `TornDown`: that is finding 2, which
  the run `session_overlap` shows, and TLC finds the other two broken then as well. So the theorems have `[]Serial`, that refresh and
  close never run at once, as their hypothesis: it is a condition on the run of the timer, which nothing in the code sees to.
  The invariant says who has a Paho thread (`Held`: the client, or the one a coroutine is stopping), whose callbacks
  are left in the queue (`Left`: those of that client, none after the end of a stop), and that the last callback of
  the queue to tell of the connection tells the truth (`Announces`). The sensor is right once the queue is empty
  because the last one told it; a waiting coroutine is woken by its own acknowledgement because no other client's is left.
- *Observations, counted exactly.* What is in the buckets plus what the next tick would add is `claim`, at every moment and for each
  day that is still retained (`Exact`), and the reading the code holds is the last one taken (`Held`). An interval's seconds
  add up however it is cut (`OverlapAdds`) and fall on no day before it (`OverlapNotBefore`), no bucket is ahead of the clock (`NotAhead`),
  and trimming drops only days that are no longer retained (`TrimKeepsRetained`); the same holds of what was stored, for a restart.
- *Entities: the entry.* `Owned` says for each phase what the set-up has started and stopped;
  `NothingLeft` is read off it and `OrphansWereAsking`, which is inductive. `CountsKept` speaks of the
  file, and needs the Monitoring loaded from it to hold as much (`Held`), and that whatever may still save
  belongs to a set-up that has begun (`Begun`), so that a save that loses something
  is that of an older one.
- *Entities: events.* The device and the states hold the last error told or none (`Told`), at every step
  together with what the entities make of them (`Presented`). A notification is in the states only until the next reading, and
  while the coordinator is healthy it has been fired once at most, so a failed refresh makes it twice (`FiredTwiceAtMost`). What the monitoring was
  given is recorded or was recorded within the minute (`Kept`), and a reading that stands has been given before (`Standing`).
- *Entities: a timer sensor.* That a moment is not far off after a report follows from the code of `Updated` and from
  its threshold. That it stays while a cycle runs evenly needs to know how far it is off between reports:
  `Even` bounds the difference of the moment shown from that told of by the time since, within the minute.
- *Entities: a property.* The entities that exist could be constructed from this profile (`Constructed`); a select,
  an event or an enumeration sensor has captured the options of the mode its platform asked for (`Captured`), whatever mode the holder they share is in by now;
  a select of commands offers those and the state it displays (`Offered`, `DisplayNames`); and
  the range of a number is that of writing unless a sensor has joined (`NumberAlone`), which is the exception `SentIsWritable` makes.
- *Entities: climate.* The device has what the last report said, the queue ends with what the appliance has, and the entity's
  holders are those of the mode it was in at its last report with the power on (`Shows`). Of the appliance: `TARGET` reads as the set point
  of the mode does (`TargetShown`), in every report there is. `StepOf` states a step of either instance, with two calls or one, once, and
  `SameClimate` that the instances' operators agree. A call that nothing has disturbed is the only one, and what it is about
  to post, or has posted before it fell asleep, says how far it has come (`ToPost`, `Sleeps`, in `Undisturbed`): the power, then the
  mode, then the temperature for the set point of that mode, then both bounds. `GoesWell` says that each decision of the
  coroutine leads on, which rests on `ShownTruth` and `RangeOfHolder` at the moment it wakes. That the other bound is left
  alone is that every command for one temperature comes from `Put` (`SetsOne`), with a device that is up to date.
- *Entities: durations.* `DurationInv` is `WatchedTimes` of `ObservationsProofs` for the two keys of a door and an oven, with less of the history.
- *Entities: speeds.* A percentage shown is the speed's share cut to a whole number, and what is set is rounded to half even, as
  Python's `round` does. A quotient rounded so is at most half the divisor off (`RoundedIsNear`); cutting loses less than one part
  of at most fifty, so it leads back to the same speed (`SpeedIsKept`). A fan goes by the place of a speed's name in the list of
  those it offers (`NamedSpeedsList`: every offered name once and nothing else), and place to percentage and back is the identity (`PercentageOfPlace`).
- *Entities: the other appliances.* That an undisturbed call ends with the appliance as asked is shown in three steps.
  What is decided for a request does it, whatever the appliance is like (`Answers`, proved for each kind: `FanServed`, `HoodServed`,
  `HumidifierServed`, `TemperatureServed`, `ModeServed`, `BoilerServed`, `VacuumServed`). A call under way has at most one more request to
  go, the temperature after a mode (`UnderWay`). And while nothing disturbs it, what comes before the command at hand is so already, and what is left is
  decided by a reading that was true when the call began (`Following`). The three make up `AppliancesInv`, an invariant that TLC confirms.
- *Entities: types.* `PartInv` has for each part what the other theorems rest on, and the types. Most follow from the assignments, but not all:
  a recorded time is a natural number because none begins after now (`DurationInv`) and the last tick is past (`ObservedTyped`);
  what saves, ticks or asks is always a set-up there has been (`Begun`);
  the mode of an air conditioner is one it has because no other passes the client (`BoundsOf`); and the options captured are
  names in use because the profile lists only such (`OptionsNamed`). One lemma serves the door and the oven, one both climates.
- *StateFeed.* That a view is current when everything has arrived follows from three facts that hold
  all the time: the last queued report of a field says what the appliance has, or
  what was reported does (`Settled`); nothing anywhere is newer than the appliance (`Below`); and a view
  is as new as what was reported unless it is known to be late (`NotBehind`). Before that,
  `UpdateFacts` and `MergeFacts` say field by field what taking in a report does to each view;
  `ViewsAgree` is read off them.
- *ControlGuard.* Posts are spaced because a sleeper holds the throttle's lock and sleeps
  exactly until the gap is over (`Sleeper`), also when the one before it is cancelled. A
  command is allowed because its answer is a state the appliance had since it was
  given (`AllowedWhen`). Permissions are not shared because a `start_laundry_mode` call holds the
  control lock from its GET to its POST (`Controller`). A decision is recent by a budget (`Budget`): the time a call
  has spent, the rest of the running gap and a gap for each POST before its own never exceed a gap for each call it met
  and one for itself. It needs the waiters to be in line (`InLine`) and the lock to be held by sleepers only (`Holding`).

Only model-checked:

- the liveness properties `Converges`, `Settles` and `CallsEnd`: liveness under fairness is beyond TLAPS;
- `ControlsHaveSetters`, a fact of the tables in `EntityTables`, which are data: TLC evaluates it over every entry, and there is nothing to generalise.

Every other property of the passing runs is stated by a theorem.

## 5. Findings

1. `mqtt.py:289`. A notification during a GET only sets the flag; when the GET fails the task ends
   without looking at it. The docstring at line 257 promises not to drop the final change.
2. `client/mqtt_client.py:153`. `async_disconnect` does not stop a renewal that is waiting for LG. The
   renewal then registers the client again and starts a Paho thread after the unload.
3. `client/mqtt_client.py:93`. The new expiry is stored before the new session is up, so a failed
   reconnect is not retried until the new certificate is due.
4. `client/integration/homeassistant/api.py:662`. A GET that succeeds without a state leaves the old state
   in place and returns it. The guards take it for a fresh one, although `entity.py:121` and
   `OVEN_REMOTE_BEHAVIOR.md:7` say that they read the current one.

5. `metrics.py:85`. `observe` marks the device connected, also for a GET that is answered while the MQTT connection is
   known to be lost, and the ticks then count the outage. `MONITORING.md:20` and `:38` say that known disconnects are excluded.
6. `insights.py:79`. A reading that LG gave before a command, and that is taken in after its acceptance, confirms it.
   `AUTOMATION_AND_INSIGHTS.md:22` requires a subsequent one; the reading carries no time by which the code could tell.
7. `event.py:107`. The event entity of errors fires what the device holds at every update of the coordinator, also a pushed
   notification's or a failed refresh's, with that update's time. `EVENT_STATUS.md:5` says that it records errors with their timestamps.

Each is the counterexample of the run that names it in section 3.

Where the documents say nothing, the models take the code's side: the late answer to an older command
replaces the record of a newer one (`insights.py:56`).

What else the models of the entities take over from the code, and a reader might not expect:

- The `rw_mode` of a holder belongs to all platforms that use it. A number and a sensor of one
  property are set up in either order; if the sensor is last, the number shows the readable range.
- The setters of an air conditioner that send several attributes check no range, so only the range the entity
  shows guards them (`ShownTruth`).
- The hours to start and to stop of an air conditioner are offered as numbers, but the device class has only
  setters of hour and minute: nothing is posted, and nobody told. Those of a washtower's dryer
  are posted without naming the dryer: `washtower.py:52-61` has other names, so the inherited setters run.
  `ControlsHaveSetters` names both as the only ones.
- `async_turn_on` of a fan ignores the percentage and the preset it is given; a small percentage of
  a hood rounds to the speed that is off (`fan.py:264`).
- A water heater that was off when Home Assistant started has no property to write: its
  temperature cannot be set until it reports that it is on.
- A command for one of two set points carries the other as last reported: two quick commands, or one
  and the remote control, can undo each other. `OtherBoundKept` claims what is left.
- `energy_saving` is shown as cool, so `set_temperature` with the mode cool leaves it on.
- An absolute time of 00:00 is shown as none.
- After a partial report the status sensor shows OK while the cache keeps the error.
- The errors `need_water_drain` and `need_water_replenishment` are recorded as the last message, but neither as the last
  error nor in the count: their texts say neither "error" nor "failed" (`metrics.py:164`). The pushed `drying_failed` and
  `error_has_occurred` count as errors.
- The selects of an oven and of laundry show a state among their options that is no command: choosing it is an error.
- The energy entity of an unloaded entry sets its timer again if it was waiting for LG. Its
  Monitoring then saves its old history over the new one (`overwritten`). `NothingLeft` and `CountsKept` except these two, and say
  that nothing else is left and nothing else loses history; whether they should happen no document says.

## 6. Plan

The order is that of consequence: first what loses or invents data, then what acts
on appliances, then what only presents.

1. Done: observations, inventory, MQTT session, transport, command outcome, state feed, control guards.
2. Done: `EntryLifecycle`, with the timer of the energy entities; `EventStatus`.
3. Done: `EntityTables` and `PropertyControl`, `ClimateControl`, `TimerSensor`, `Appliances`.
4. Energy: the daily refresh and its retries, dates and rolling totals against a reference definition.
5. `ClimateControl` with the system boiler, fan and swing modes; `PropertyControl` with units and their conversion.
6. Pure operators over bounded inputs: schedule arithmetic (`metrics.py:12-24`), combo-wash
   payloads (`insight_helpers.py`), inventory parsing.
7. `StateFeed` with dict reports, unit changes and the two coordinators of a
   wash tower; `ControlGuard` with the payloads and value validation of the commands.
8. Done: every safety invariant and action property of the runs is proved, but for the fact of the tables.
   Open: the same for what 4 to 7 add.

## 7. Not modelled

- Text, names, icons, translations, redaction and formatting: no state.
- Routes, headers, TLS and certificates as data: the models tell apart only the outcomes of
  a request and whether a certificate is due.
- Home Assistant's own registries, config-entry store and delayed-write store: external,
  modelled by what the code may assume of them.
- A reload of the entry while a control POST waits for LG (2.5): its answer reaches the closed `Insights` only.
- Cancellation of a command's caller: `CancelledError` passes both `except` clauses of `api.py`,
  so the record stays `sending` until the next command. Nothing documents what is
  expected, and `Settles` is checked without it.
- `cycle_count` and `*_today` totals of `metrics.py`; history refresh, maintenance
  baseline and close of `insights.py`; energy records, dates and totals.
- Mixed oven commands (`client/integration/homeassistant/api.py:717-784`), `refresh_capabilities`,
  `configure_monitoring` and `reset_maintenance`: payloads and forms without an interleaving of their own.
- `DeviceState` (`state.py:886-946`), timer setters, `async_set_target_temperature_low` and `_high`,
  and `refresh_status` of the coordinator: nothing calls them.
- The climate of a system boiler; fan and swing modes of climate; `WIND_STEP` and the
  kimchi temperatures as special cases of `PropertyHolder`; conversion of units,
  `SelectivePropertyState` and `TemperaturePropertyState`.
- Diagnostics, the capability inventory, country tables and forms of the
  configuration flow: computed from data that is modelled, or constant.
