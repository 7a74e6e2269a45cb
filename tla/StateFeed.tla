----------------------------- MODULE StateFeed -----------------------------
(***************************************************************************)
(* How the state of one appliance reaches the integration: reports pushed  *)
(* through MQTT and GETs asked for by four callers, taken in by one        *)
(* coordinator (coordinator.py) into two views, the attributes of the      *)
(* device (client/devices/connect_device.py) and the raw cache (api.py,    *)
(* insight_helpers.py).                                                    *)
(*                                                                         *)
(* The appliance has locations (cavities, drums); its state and its        *)
(* reports are lists with an item per location.  A report holds the fields *)
(* that changed, a GET answer all of them.  A field's value is the number  *)
(* of times it changed, so that newer and older can be told apart.         *)
(***************************************************************************)
EXTENDS Integers, Sequences

CONSTANTS
  Locations,      \* locationName of each item
  Fields,         \* readable properties of a location
  Missing,        \* no value, no answer, no cache
  Empty,          \* an answer without a state (HTTP 204, or null)
  MaxChanges,     \* bound: changes of the appliance
  MaxGets         \* bound: GETs of the state

VARIABLES
  truth,          \* the appliance
  changes,        \* changes so far (bound)
  reports,        \* DEVICE_STATUS messages on their way, in order
  asked,          \* callers whose GET has not reached LG yet
  answer,         \* the state a caller's GET is bringing back, or None
  gets,           \* GETs so far (bound)
  attributes,     \* attributes of the sub device of each location
  cache,          \* ThinQGuardedApi.states of the device, or None
  reported,       \* history: newest value of each field reported or lost
  late            \* history: fields of each view that missed a newer value

lg == <<truth, changes, reports>>
requests == <<asked, answer, gets>>
views == <<attributes, cache>>
feed_ghosts == <<reported, late>>
feed_vars == <<lg, requests, views, feed_ghosts>>

\* Who asks: async_refresh of the coordinator, get_device_data, the guard of an
\* oven or laundry command, and start_laundry_mode.
Caller == {"refresh", "get_device_data", "guard", "start_laundry_mode"}

State == [Locations -> [Fields -> Nat]]
NoFields == [f \in Fields |-> Missing]

\* A report: the changed fields of the locations that changed.
Items(locations, fields, state) ==
  [l \in locations |-> [f \in fields |-> state[l][f]]]

FeedInit ==
  /\ truth = [l \in Locations |-> [f \in Fields |-> 0]]
  /\ changes = 0
  /\ reports = <<>>
  /\ asked = {"refresh"}
  /\ answer = [c \in Caller |-> Missing]
  /\ gets = 1
  /\ attributes = [l \in Locations |-> NoFields]
  /\ cache = Missing
  /\ reported = [l \in Locations |-> [f \in Fields |-> 0]]
  /\ late = [device |-> {}, cache |-> {}]

-----------------------------------------------------------------------------
(***************************************************************************)
(* LG and the appliance.                                                   *)
(***************************************************************************)
Change ==
  /\ changes < MaxChanges
  /\ changes' = changes + 1
  /\ \E locations \in SUBSET Locations \ {{}}, fields \in SUBSET Fields \ {{}} :
       /\ truth' = [l \in Locations |-> [f \in Fields |->
                      truth[l][f] + (IF l \in locations /\ f \in fields THEN 1 ELSE 0)]]
       /\ reports' = Append(reports, Items(locations, fields, truth'))
  /\ UNCHANGED <<requests, views, feed_ghosts>>

Tagged(report) == UNION {{l} \X DOMAIN report[l] : l \in DOMAIN report}

\* The newest values of the fields in a report, taken in or lost.
Newest(report) ==
  [l \in Locations |-> [f \in Fields |->
     IF <<l, f>> \in Tagged(report) THEN report[l][f] ELSE reported[l][f]]]

\* A report is lost, with the session or before it.
LoseReport ==
  /\ reports # <<>>
  /\ reports' = Tail(reports)
  /\ reported' = Newest(Head(reports))
  /\ late' = [v \in DOMAIN late |-> late[v] \cup Tagged(Head(reports))]
  /\ UNCHANGED <<truth, changes, requests, views>>

\* The state leaves LG with the values of this moment, or without any.
Answer(c) ==
  /\ c \in asked
  /\ asked' = asked \ {c}
  /\ \E state \in {truth, Empty} : answer' = [answer EXCEPT ![c] = state]
  /\ UNCHANGED <<lg, gets, views, feed_ghosts>>

-----------------------------------------------------------------------------
(***************************************************************************)
(* GETs.                                                                   *)
(***************************************************************************)
Ask(c) ==
  /\ gets < MaxGets
  /\ c \notin asked
  /\ answer[c] = Missing
  /\ asked' = asked \cup {c}
  /\ gets' = gets + 1
  /\ UNCHANGED <<lg, answer, views, feed_ghosts>>

\* UpdateFailed, or the error of a service call: neither view changes.
GetFails(c) ==
  /\ c \in asked
  /\ asked' = asked \ {c}
  /\ UNCHANGED <<lg, answer, gets, views, feed_ghosts>>

\* The fields of an answer that a report has overtaken.
Overtaken(state) ==
  UNION {{l} \X {f \in Fields : state[l][f] < reported[l][f]} : l \in Locations}

\* Mutant: a GET is not kept in the cache.
KeptNot(state) == cache

\* async_get_device_status keeps every answer, also an empty one.
Kept(state) == IF state = Empty THEN Missing ELSE state

\* fetch_data: set_status overwrites the whole device, if there is a state; but
\* start_laundry_mode only looks at the answer.
GetDone(c) ==
  /\ answer[c] # Missing
  /\ cache' = Kept(answer[c])
  /\ IF answer[c] = Empty
     THEN UNCHANGED <<attributes, late>>
     ELSE IF c = "start_laundry_mode"
     THEN late' = [late EXCEPT !.cache = Overtaken(answer[c])] /\ UNCHANGED attributes
     ELSE late' = [v \in DOMAIN late |-> Overtaken(answer[c])] /\ attributes' = answer[c]
  /\ answer' = [answer EXCEPT ![c] = Missing]
  /\ UNCHANGED <<lg, asked, gets, reported>>

-----------------------------------------------------------------------------
(***************************************************************************)
(* Reports: handle_update_status.                                          *)
(***************************************************************************)
\* The fields of an item, where there are any, over those already known.
Over(fields, item) ==
  [f \in DOMAIN fields \cup DOMAIN item |->
     IF f \in DOMAIN item THEN item[f] ELSE fields[f]]

\* Mutant: every location takes the first item, whichever location it tags.
UpdateStatusAnyLocation(report) ==
  [l \in Locations |->
     Over(attributes[l], report[CHOOSE m \in DOMAIN report : TRUE])]

\* update_status of every sub device: the item of its location, if any.
UpdateStatus(report) ==
  [l \in Locations |->
     IF l \in DOMAIN report THEN Over(attributes[l], report[l]) ELSE attributes[l]]

\* Mutant: the items are taken by position, not by location.
MergeReportAnyLocation(report) ==
  IF cache = Missing
  THEN report
  ELSE [l \in DOMAIN cache |-> Over(cache[l], report[CHOOSE m \in DOMAIN report : TRUE])]

\* merge_report: without a cached list the report becomes it, partial as it is;
\* an item of a location that is not cached is dropped.
MergeReport(report) ==
  IF cache = Missing
  THEN report
  ELSE [l \in DOMAIN cache |->
          IF l \in DOMAIN report THEN Over(cache[l], report[l]) ELSE cache[l]]

HandleReport ==
  /\ reports # <<>>
  /\ cache' = MergeReport(Head(reports))
  /\ attributes' = UpdateStatus(Head(reports))
  /\ reported' = Newest(Head(reports))
  /\ late' = [v \in DOMAIN late |-> late[v] \ Tagged(Head(reports))]
  /\ reports' = Tail(reports)
  /\ UNCHANGED <<truth, changes, requests>>

-----------------------------------------------------------------------------
FeedNext ==
  \/ Change
  \/ LoseReport
  \/ HandleReport
  \/ \E c \in Caller : Ask(c) \/ Answer(c) \/ GetFails(c) \/ GetDone(c)

FeedSpec == FeedInit /\ [][FeedNext]_feed_vars

-----------------------------------------------------------------------------
(***************************************************************************)
(* Properties.                                                             *)
(***************************************************************************)
\* Reports hold fields of known locations, answers and device all of them; the
\* cache holds what it was given.
Item == UNION {[fields -> Nat] : fields \in SUBSET Fields}
Partial == UNION {[locations -> Item] : locations \in SUBSET Locations}

FeedTypeOK ==
  /\ truth \in State
  /\ changes \in Nat
  /\ reports \in Seq(Partial)
  /\ asked \subseteq Caller
  /\ answer \in [Caller -> State \cup {Missing, Empty}]
  /\ gets \in Nat
  /\ attributes \in [Locations -> [Fields -> Nat \cup {Missing}]]
  /\ cache \in Partial \cup {Missing}
  /\ reported \in State
  /\ late \in [{"device", "cache"} -> SUBSET (Locations \X Fields)]

Quiet == reports = <<>> /\ asked = {} /\ \A c \in Caller : answer[c] = Missing

\* Once everything under way has arrived, every field shown is the appliance's,
\* in whatever order reports and answers were taken in, except one that a report
\* was lost of, or whose last answer was overtaken by a report.
DeviceCurrent ==
  Quiet => \A l \in Locations, f \in Fields :
             attributes[l][f] # Missing /\ <<l, f>> \notin late["device"] =>
               attributes[l][f] = truth[l][f]

Cached(l, f) == cache # Missing /\ l \in DOMAIN cache /\ f \in DOMAIN cache[l]

\* "Keep location-tagged cached state current without mixing cavities"
\* (merge_report): the same of the cache, which is merged in another way.
CacheCurrent ==
  Quiet => \A l \in Locations, f \in Fields :
             Cached(l, f) /\ <<l, f>> \notin late["cache"] =>
               cache[l][f] = truth[l][f]

Parted(l, f) == Cached(l, f) /\ cache[l][f] # attributes[l][f]

\* Only start_laundry_mode parts the two views: otherwise what the diagnostics
\* and the laundry mode sensor say of a field is what its entity says.
ViewsAgreeStep ==
  \A l \in Locations, f \in Fields :
    Parted(l, f)' /\ ~Parted(l, f) =>
      answer'["start_laundry_mode"] # answer["start_laundry_mode"]
ViewsAgree == [][ViewsAgreeStep]_feed_vars
=============================================================================
