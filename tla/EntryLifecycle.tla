---------------------------- MODULE EntryLifecycle ---------------------------
(***************************************************************************)
(* The config entry: set-up in steps that may fail, unload, reload, and    *)
(* restart (__init__.py, coordinator.py), and what outlives its entities:  *)
(* each set-up makes a Monitoring of its own with a Store on the same file *)
(* (monitoring.py, insights.py), and the coroutines of energy sensors and  *)
(* services that are waiting for LG go on when the entry is unloaded       *)
(* (sensor.py, services.py).                                               *)
(*                                                                         *)
(* One device; of its history, a count of what was observed.               *)
(***************************************************************************)
EXTENDS Integers

CONSTANTS
  Generations,    \* 1 .. n: set-ups since the start
  MaxCount        \* bound on the count

ASSUME BoundsAssumption == Generations \subseteq Nat /\ MaxCount \in Nat

VARIABLES
  phase,          \* of the entry
  gen,            \* the set-up under way or loaded
  disk,           \* the count in the file of the Stores
  count,          \* the count each Monitoring holds
  dirty,          \* set-ups whose Store has a delayed save pending
  mqtt,           \* set-ups with an MQTT session
  ticking,        \* set-ups whose 30 second timer runs
  entity,         \* set-ups whose energy entity is in Home Assistant
  armed,          \* set-ups whose energy entity has a timer
  asking,         \* set-ups whose energy entity waits for LG
  serving,        \* set-ups a service call is waiting with
  closed,         \* history: the count at the last close
  overwritten,    \* history: an older set-up has saved since
  orphans         \* history: set-ups that were unloaded while they asked

files == <<disk, count, dirty>>
energy == <<entity, armed, asking, orphans>>
ghosts == <<closed, overwritten>>
vars == <<phase, gen, files, mqtt, ticking, energy, serving, ghosts>>

Phases == {"out", "inventory", "mqtt", "platforms", "cleanup", "in", "unloading",
           "closing", "stuck"}

Init ==
  /\ phase = "out" /\ gen = 0 /\ disk = 0
  /\ count = [g \in Generations |-> 0] /\ dirty = {}
  /\ mqtt = {} /\ ticking = {} /\ entity = {} /\ armed = {} /\ asking = {} /\ serving = {}
  /\ closed = 0 /\ overwritten = FALSE /\ orphans = {}

----------------------------------------------------------------------------
(* async_setup_entry.                                                      *)

Start ==
  /\ phase = "out" /\ gen + 1 \in Generations
  /\ gen' = gen + 1 /\ phase' = "inventory"
  /\ UNCHANGED <<files, mqtt, ticking, energy, serving, ghosts>>

\* async_setup_coordinators, Monitoring.load; the first refresh is observed, unless LG
\* does not answer.
Loaded ==
  /\ phase = "inventory" /\ phase' = "mqtt"
  /\ \/ count' = [count EXCEPT ![gen] = disk] /\ UNCHANGED dirty
     \/ /\ disk < MaxCount
        /\ \E n \in {disk, disk + 1} : count' = [count EXCEPT ![gen] = n]
        /\ dirty' = dirty \cup {gen}
  /\ UNCHANGED <<gen, disk, mqtt, ticking, energy, serving, ghosts>>

NotReady ==
  /\ phase = "inventory" /\ phase' = "out"
  /\ UNCHANGED <<gen, files, mqtt, ticking, energy, serving, ghosts>>

\* async_setup_mqtt
Connected ==
  /\ phase = "mqtt" /\ phase' = "platforms"
  /\ mqtt' = mqtt \cup {gen}
  /\ UNCHANGED <<gen, files, ticking, energy, serving, ghosts>>

\* ... disconnects what has come up, whatever fails.
NotConnected ==
  /\ phase = "mqtt" /\ phase' = "out"
  /\ UNCHANGED <<gen, files, mqtt, ticking, energy, serving, ghosts>>

\* ThinQEnergySensorEntity.async_added_to_hass: the platforms wait for its first fetch.
Added ==
  /\ phase = "platforms" /\ gen \notin entity
  /\ entity' = entity \cup {gen} /\ asking' = asking \cup {gen}
  /\ UNCHANGED <<phase, gen, files, mqtt, ticking, armed, orphans, serving, ghosts>>

\* Mutant: a failure leaves the session as it is.
NotForwardedConnected ==
  /\ phase = "platforms" /\ phase' = "out"
  /\ UNCHANGED <<gen, files, mqtt, ticking, energy, serving, ghosts>>

\* Home Assistant keeps the platforms that did come up.
NotForwarded ==
  /\ phase = "platforms" /\ phase' = "out"
  /\ mqtt' = mqtt \ {gen}
  /\ UNCHANGED <<gen, files, ticking, energy, serving, ghosts>>

Forwarded ==
  /\ phase = "platforms" /\ gen \in entity \ asking
  /\ phase' = "cleanup" /\ ticking' = ticking \cup {gen}
  /\ UNCHANGED <<gen, files, mqtt, energy, serving, ghosts>>

\* async_cleanup_device_registry has its answer, or does without.
Cleaned ==
  /\ phase = "cleanup" /\ phase' = "in"
  /\ UNCHANGED <<gen, files, mqtt, ticking, energy, serving, ghosts>>

----------------------------------------------------------------------------
(* While it is loaded, and after.                                          *)

\* Monitoring.observe, of a report.
Observe ==
  /\ gen \in mqtt /\ count[gen] < MaxCount
  /\ count' = [count EXCEPT ![gen] = @ + 1] /\ dirty' = dirty \cup {gen}
  /\ UNCHANGED <<phase, gen, disk, mqtt, ticking, energy, serving, ghosts>>

\* Monitoring.tick
Tick(g) ==
  /\ g \in ticking \ dirty
  /\ dirty' = dirty \cup {g}
  /\ UNCHANGED <<phase, gen, disk, count, mqtt, ticking, energy, serving, ghosts>>

\* async_delay_save runs out.
Old(g) == g < gen \/ phase = "out"
Save(g) ==
  /\ g \in dirty
  /\ disk' = count[g] /\ dirty' = dirty \ {g}
  /\ overwritten' = (overwritten \/ (Old(g) /\ count[g] < closed))
  /\ UNCHANGED <<phase, gen, count, mqtt, ticking, energy, serving, closed>>

\* The energy entity's timer.
Ask(g) ==
  /\ g \in armed \ asking
  /\ armed' = armed \ {g} /\ asking' = asking \cup {g}
  /\ UNCHANGED <<phase, gen, files, mqtt, ticking, entity, orphans, serving, ghosts>>

\* _async_update_and_schedule: a value or an error is recorded, and in any case the
\* timer is set again.
Answer(g) ==
  /\ g \in asking
  /\ asking' = asking \ {g} /\ armed' = armed \cup {g} /\ dirty' = dirty \cup {g}
  /\ UNCHANGED <<phase, gen, disk, count, mqtt, ticking, entity, orphans, serving, ghosts>>

\* get_device_data with a refresh, refresh_energy_history.
Serve ==
  /\ phase = "in" /\ gen \notin serving /\ serving' = serving \cup {gen}
  /\ UNCHANGED <<phase, gen, files, mqtt, ticking, energy, ghosts>>
Served(g) ==
  /\ g \in serving /\ serving' = serving \ {g}
  /\ \/ dirty' = dirty \cup {g}
     \/ UNCHANGED dirty
  /\ UNCHANGED <<phase, gen, disk, count, mqtt, ticking, energy, ghosts>>

----------------------------------------------------------------------------
(* async_unload_entry.                                                     *)

Unload ==
  /\ phase = "in" /\ phase' = "unloading"
  /\ mqtt' = mqtt \ {gen}
  /\ UNCHANGED <<gen, files, ticking, energy, serving, ghosts>>

\* Mutant: the timer of the removed entity is left.
PlatformsUnloadedTimerKept ==
  /\ phase = "unloading" /\ phase' = "closing"
  /\ entity' = entity \ {gen} /\ UNCHANGED armed
  /\ orphans' = IF gen \in asking THEN orphans \cup {gen} ELSE orphans
  /\ UNCHANGED <<gen, files, mqtt, ticking, asking, serving, ghosts>>

\* async_will_remove_from_hass stops the timer; what the entity asks goes on.
PlatformsUnloaded ==
  /\ phase = "unloading" /\ phase' = "closing"
  /\ entity' = entity \ {gen} /\ armed' = armed \ {gen}
  /\ orphans' = IF gen \in asking THEN orphans \cup {gen} ELSE orphans
  /\ UNCHANGED <<gen, files, mqtt, ticking, asking, serving, ghosts>>

\* A platform does not unload: Home Assistant gives the entry up until a restart.
NotUnloaded ==
  /\ phase = "unloading" /\ phase' = "stuck"
  /\ UNCHANGED <<gen, files, mqtt, ticking, energy, serving, ghosts>>

\* Mutant: the close relies on the delayed save.
CloseWithoutSaving ==
  /\ phase = "closing" /\ phase' = "out"
  /\ ticking' = ticking \ {gen} /\ closed' = count[gen] /\ overwritten' = FALSE
  /\ UNCHANGED <<gen, files, mqtt, energy, serving>>

\* Monitoring.close
Close ==
  /\ phase = "closing" /\ phase' = "out"
  /\ ticking' = ticking \ {gen}
  /\ disk' = count[gen] /\ dirty' = dirty \ {gen}
  /\ closed' = count[gen] /\ overwritten' = FALSE
  /\ UNCHANGED <<gen, count, mqtt, energy, serving>>

\* Home Assistant stops; its Stores write what is pending if it stops cleanly.
Restart(clean) ==
  /\ phase # "out" \/ dirty # {} \/ armed # {}
  /\ phase' = "out"
  /\ mqtt' = {} /\ ticking' = {} /\ entity' = {} /\ armed' = {} /\ asking' = {}
  /\ serving' = {} /\ orphans' = {} /\ dirty' = {}
  /\ IF clean /\ dirty # {} THEN \E g \in dirty : disk' = count[g] ELSE UNCHANGED disk
  /\ closed' = IF disk' < closed THEN disk' ELSE closed
  /\ overwritten' = FALSE
  /\ UNCHANGED <<gen, count>>

Next ==
  \/ Start \/ Loaded \/ NotReady \/ Connected \/ NotConnected \/ Added \/ NotForwarded
  \/ Forwarded \/ Cleaned \/ Observe \/ Serve \/ Unload \/ PlatformsUnloaded
  \/ NotUnloaded \/ Close
  \/ \E g \in Generations : Tick(g) \/ Save(g) \/ Ask(g) \/ Answer(g) \/ Served(g)
  \/ \E clean \in BOOLEAN : Restart(clean)

Spec == Init /\ [][Next]_vars

----------------------------------------------------------------------------
TypeOK ==
  /\ phase \in Phases /\ gen \in Generations \cup {0}
  /\ disk \in 0 .. MaxCount /\ count \in [Generations -> 0 .. MaxCount]
  /\ dirty \cup mqtt \cup ticking \cup entity \cup armed \cup asking \cup serving
       \subseteq Generations

\* An energy entity that was removed has a timer, or a request, only if it was waiting
\* for LG when it was removed: the answer sets the timer again, for good.
OrphansWereAsking ==
  \A g \in armed \cup asking : g \in entity \/ g \in orphans

\* A set-up that failed or was unloaded leaves no MQTT session and no running timer of
\* its own, whatever step failed, and there is one session at a time; what is left is an
\* energy entity that was waiting for LG.
NothingLeft ==
  /\ mqtt \subseteq {gen} /\ ticking \subseteq {gen}
  /\ phase = "out" => mqtt = {} /\ ticking = {}
  /\ OrphansWereAsking

\* What was observed until an entry was unloaded is there when it is set up again,
\* unless a Monitoring of an earlier set-up has written its own history over it: one
\* whose energy entity or service call was waiting for LG when it was unloaded, or
\* whose set-up failed with a save pending.
CountsKept == phase = "inventory" /\ ~overwritten => disk >= closed
=============================================================================
