------------------------- MODULE ObservationsProofs -------------------------
(***************************************************************************)
(* Theorems about Observations, for every choice of the constants.         *)
(***************************************************************************)
EXTENDS Observations, FiniteSetTheorems, NaturalsInduction, TLAPS

\* Times on record lie between the last gap or restart and the present.
Watched(t) == t # None => t >= lastGap /\ t <= now

WatchedTimes ==
  /\ lastGap <= now
  /\ last_tick # None => last_tick <= now
  /\ \A k \in Keys : Watched(since[k])
  /\ cycle # None => Watched(cycle.start)

\* A cycle in progress was seen active, and none is in progress on a machine
\* last seen stopped.
CycleSeen ==
  cycle # None =>
    /\ activeSeen
    /\ Lookup(previous, "current_state") \notin {"end", "power_off", "error"}

\* What is on disk is never ahead of what is in memory.
StoredBehind ==
  stored.values.maintenance_observed <= values.maintenance_observed

\* The inductive invariant: none of its parts is inductive without the others,
\* since a duration is non-negative only because the times are in order.
IInv == TypeOK /\ WatchedTimes /\ CycleSeen /\ StoredBehind

USE DEF Time, MaxTime

\* The seconds of an interval that fall on a day are a natural number.
LEMMA OverlapType ==
  ASSUME NEW from \in Time, NEW to \in Nat, NEW d \in Day
  PROVE  Overlap(from, to, d) \in Nat
<1>1. d * DayLength \in Int /\ (d + 1) * DayLength \in Int
  BY BoundsAssumption DEF Day
<1>2. QED
  BY <1>1 DEF Overlap

\* Adding an interval leaves a history of natural numbers.
LEMMA AccrueType ==
  ASSUME NEW ds \in History, NEW prev, NEW from \in Time, NEW to \in Nat
  PROVE  Accrue(ds, prev, from, to) \in History
BY OverlapType DEF Accrue, History

\* So does the claim of a second, whoever it is for.
LEMMA ClaimedType ==
  ASSUME TypeOK, now < MaxTime, NEW history \in History, NEW ofThis
  PROVE  Claimed(history, ofThis) \in History
<1>1. now \in Time /\ now + 1 \in Nat
  BY BoundsAssumption DEF TypeOK
<1>2. Accrue(history, watch.held, now, now + 1) \in History
  BY <1>1, AccrueType
<1>3. NoBucket \in [Metric -> Nat]
  BY DEF NoBucket
<1> QED BY <1>2, <1>3 DEF Claimed, History

\* So does dropping old buckets.
LEMMA TrimType ==
  ASSUME NEW ds \in History
  PROVE  Trim(ds) \in History
BY DEF Trim, History, NoBucket

\* So does counting events.
LEMMA BumpType ==
  ASSUME NEW ds \in History, NEW events
  PROVE  Bump(ds, events) \in History
BY DEF Bump, History

\* So does advance, which never runs from a tick later than now.
LEMMA AdvancedType ==
  ASSUME TypeOK
  PROVE  Advanced \in History
<1>1. CASE Tracking
  <2>1. last_tick \in Time /\ now \in Nat
    BY <1>1 DEF TypeOK, Tracking
  <2>2. Accrue(days, previous, last_tick, now) \in History
    BY <2>1, AccrueType DEF TypeOK
  <2>3. QED
    BY <1>1, <2>2, TrimType DEF Advanced
<1>2. CASE ~Tracking
  BY <1>2 DEF Advanced, TypeOK
<1>3. QED
  BY <1>1, <1>2

\* The empty history of a new device satisfies the invariant.
LEMMA InitialInvariant == Init => IInv
<1> SUFFICES ASSUME Init PROVE IInv
  OBVIOUS
<1>1. NoHistory \in History
  BY DEF NoHistory, NoBucket, History
<1>2. NoReading \in [Keys -> Reading] /\ NoReading \in [Keys -> Time \cup {None}]
  BY DEF NoReading, Reading
<1>3. NoValues \in Values
  BY DEF NoValues, Values
<1>4. 0 \in Time
  BY BoundsAssumption
<1>5. TypeOK
  BY <1>1, <1>2, <1>3, <1>4 DEF Init, TypeOK
<1>6. WatchedTimes
  BY <1>4 DEF Init, WatchedTimes, Watched, NoReading
<1>7. CycleSeen /\ StoredBehind
  BY DEF Init, CycleSeen, StoredBehind, NoValues
<1>8. QED
  BY <1>5, <1>6, <1>7 DEF IInv

\* What observe records is well typed: every time it subtracts is not later
\* than now.
LEMMA ValuesAfterType ==
  ASSUME IInv, NEW data \in Report
  PROVE  /\ ValuesAfter(data) \in Values
         /\ ValuesAfter(data).maintenance_observed >= values.maintenance_observed
<1> USE DEF IInv, TypeOK, WatchedTimes, Watched
<1>1. CycleSeconds \in Nat \cup {None} \/ cycle = None
  BY DEF CycleSeconds
<1>2. Completes(data) => CycleSeconds \in Nat \cup {None}
  BY <1>1 DEF Completes
<1>3. ASSUME NEW k \in {"current_state", "door_state", "express_mode"},
             NEW from, NEW to, from # None \/ to # None,
             NEW old \in Nat \cup {None}
      PROVE  Elapsed(data, k, from, to, old) \in Nat \cup {None}
  <2>1. CASE Turned(data, k, from, to) /\ since[k] # None
    <3>1. k \in Keys
      BY <1>3, <2>1 DEF Turned, Lookup
    <3>2. since[k] \in Time /\ since[k] <= now /\ now \in Time
      BY <2>1, <3>1
    <3>3. now - since[k] \in Nat
      BY <3>2
    <3>4. QED
      BY <2>1, <3>3 DEF Elapsed
  <2>2. CASE ~(Turned(data, k, from, to) /\ since[k] # None)
    BY <1>3, <2>2 DEF Elapsed
  <2>3. QED
    BY <2>1, <2>2
<1>4. Elapsed(data, "door_state", "open", "close", values.last_open)
        \in Nat \cup {None}
  BY <1>3, NoneAssumption DEF Values
<1>5. Elapsed(data, "current_state", "preheating", "cooking_in_progress",
              values.last_preheat) \in Nat \cup {None}
  BY <1>3, NoneAssumption DEF Values
<1>6. Elapsed(data, "current_state", "cooking_in_progress", "done",
              values.last_cooking) \in Nat \cup {None}
  BY <1>3, NoneAssumption DEF Values
<1>7. QED
  BY <1>2, <1>4, <1>5, <1>6 DEF ValuesAfter, Values

\* The effect of a reading on the invariant, whichever way it arrived.
LEMMA ObservePreserves ==
  ASSUME IInv, NEW data \in Report, Observe(data),
         UNCHANGED <<now, stored, claim, lastGap>>,
         mqtt_connected' \in BOOLEAN
  PROVE  IInv'
<1> USE DEF Observe
<1>1. days' \in History
  BY AdvancedType, BumpType, TrimType DEF IInv
<1>2. values' \in Values
      /\ values'.maintenance_observed >= values.maintenance_observed
  BY ValuesAfterType
<1>3. previous' \in [Keys -> Reading]
  BY DEF Report, Reading
<1>4. since' \in [Keys -> Time \cup {None}]
  BY DEF IInv, TypeOK
<1>5. CycleAfter(data) \in [start : Time \cup {None}] \cup {None}
  BY DEF IInv, TypeOK, CycleAfter, Begun
<1>6. activeSeen' \in BOOLEAN
  BY DEF ActiveSeenAfter, IInv, TypeOK
<1>7. watch' \in [held : [Keys -> Reading], outage : BOOLEAN]
  BY <1>3 DEF IInv, TypeOK
<1>8. TypeOK'
  BY <1>1, <1>2, <1>3, <1>4, <1>5, <1>6, <1>7 DEF IInv, TypeOK
<1>9. WatchedTimes'
  <2>1. \A k \in Keys : Watched(since[k])'
    BY DEF IInv, TypeOK, WatchedTimes, Watched
  <2>2. cycle' # None => Watched(cycle.start)'
    BY DEF IInv, TypeOK, WatchedTimes, Watched, CycleAfter, Begun
  <2>3. QED
    BY <2>1, <2>2 DEF IInv, TypeOK, WatchedTimes
<1>10. CycleSeen'
  <2>1. CASE Lookup(data, "current_state") \in {"end", "power_off", "error"}
    BY <2>1 DEF IInv, CycleSeen, CycleAfter, Begun, StateChanged, ACTIVE, Lookup
  <2>2. CASE Lookup(data, "current_state") \notin {"end", "power_off", "error"}
    BY <2>2 DEF IInv, CycleSeen, CycleAfter, Begun, ActiveSeenAfter, Lookup
  <2>3. QED
    BY <2>1, <2>2
<1>11. StoredBehind'
  BY <1>2 DEF IInv, TypeOK, StoredBehind, Values
<1>12. QED
  BY <1>8, <1>9, <1>10, <1>11 DEF IInv

\* Every reading, tick, gap, save and restart keeps the invariant.
LEMMA StepInvariant == IInv /\ [Next]_vars => IInv'
<1> SUFFICES ASSUME IInv, [Next]_vars PROVE IInv'
  OBVIOUS
<1> USE DEF device, saved, ghosts
<1>1. CASE ClockStep
  <2>1. now' \in Time /\ now' = now + 1
    BY <1>1, BoundsAssumption DEF ClockStep, IInv, TypeOK
  <2>2. claim' \in [watched : History, missed : History]
    BY <1>1, ClaimedType DEF ClockStep, IInv, TypeOK
  <2>3. TypeOK'
    BY <1>1, <2>1, <2>2 DEF ClockStep, IInv, TypeOK
  <2>4. WatchedTimes'
    BY <1>1, <2>1 DEF ClockStep, IInv, TypeOK, WatchedTimes, Watched
  <2>5. QED
    BY <1>1, <2>3, <2>4 DEF ClockStep, IInv, CycleSeen, StoredBehind
<1>2. CASE Tick
  <2>1. days' \in History
    BY <1>2, AdvancedType DEF Tick, IInv
  <2>2. TypeOK'
    BY <1>2, <2>1 DEF Tick, IInv, TypeOK
  <2>3. WatchedTimes'
    BY <1>2 DEF Tick, IInv, TypeOK, WatchedTimes, Watched
  <2>4. QED
    BY <1>2, <2>2, <2>3 DEF Tick, IInv, CycleSeen, StoredBehind
<1>3. ASSUME NEW data \in Report, ObserveReport(data)
      PROVE  IInv'
  BY <1>3, ObservePreserves DEF ObserveReport, IInv, TypeOK
<1>4. ASSUME NEW data \in Report, ObserveFetch(data)
      PROVE  IInv'
  BY <1>4, ObservePreserves DEF ObserveFetch, IInv, TypeOK
<1>5. CASE Connected
  BY <1>5 DEF Connected, IInv, TypeOK, WatchedTimes, Watched, CycleSeen, StoredBehind
<1>6. CASE Disconnected
  <2>1. days' \in History
    BY <1>6, AdvancedType DEF Disconnected, IInv
  <2>2. NoReading \in [Keys -> Reading] /\ NoReading \in [Keys -> Time \cup {None}]
    BY DEF NoReading, Reading
  <2>3. TypeOK'
    BY <1>6, <2>1, <2>2 DEF Disconnected, Gap, IInv, TypeOK
  <2>4. WatchedTimes'
    BY <1>6 DEF Disconnected, Gap, NoReading, IInv, TypeOK, WatchedTimes, Watched
  <2>5. QED
    BY <1>6, <2>3, <2>4 DEF Disconnected, Gap, IInv, CycleSeen, StoredBehind
<1>7. CASE Save
  <2>1. TypeOK'
    BY <1>7 DEF Save, IInv, TypeOK
  <2>2. WatchedTimes' /\ CycleSeen'
    BY <1>7 DEF Save, IInv, TypeOK, WatchedTimes, Watched, CycleSeen
  <2>3. StoredBehind'
    BY <1>7 DEF Save, IInv, TypeOK, StoredBehind, Values
  <2>4. QED
    BY <2>1, <2>2, <2>3 DEF IInv
<1>8. CASE Restart
  <2>1. NoReading \in [Keys -> Reading] /\ NoReading \in [Keys -> Time \cup {None}]
    BY DEF NoReading, Reading
  <2>2. TypeOK'
    <3>1. NoHistory \in History
      BY DEF NoHistory, NoBucket, History
    <3> QED BY <1>8, <2>1, <3>1 DEF Restart, IInv, TypeOK
  <2>3. WatchedTimes'
    BY <1>8 DEF Restart, NoReading, IInv, TypeOK, WatchedTimes, Watched
  <2>4. StoredBehind'
    BY <1>8 DEF Restart, IInv, TypeOK, StoredBehind, Values
  <2>5. QED
    BY <1>8, <2>2, <2>3, <2>4 DEF Restart, IInv, CycleSeen
<1>9. CASE UNCHANGED vars
  BY <1>9 DEF vars, IInv, TypeOK, WatchedTimes, Watched, CycleSeen, StoredBehind
<1>10. QED
  BY <1>1, <1>2, <1>3, <1>4, <1>5, <1>6, <1>7, <1>8, <1>9 DEF Next

\* Types, watched times, the cycle in progress and what storage holds are as IInv
\* says in every reachable state.
THEOREM Invariance == Spec => []IInv
BY InitialInvariant, StepInvariant, PTL DEF Spec

\* Monitoring keeps every counter and time well typed, in whatever order ticks,
\* readings, disconnects, saves and restarts come; no duration is negative.
THEOREM TypeCorrect == Spec => []TypeOK
BY Invariance, PTL DEF IInv

\* A cycle is counted only after an active reading in the same watched stretch,
\* and at most once for it: MONITORING.md's "requires an observed active cycle
\* followed by END".
THEOREM CompletionNeedsActive == Spec => CompletionFollowsActive
<1>1. ASSUME IInv, [Next]_vars
      PROVE  [values'.maintenance_observed > values.maintenance_observed
                => activeSeen]_vars
  <2>1. ASSUME NEW data \in Report, Observe(data)
        PROVE  values'.maintenance_observed > values.maintenance_observed => activeSeen
    BY <1>1, <2>1 DEF Observe, ValuesAfter, Completes, IInv, TypeOK, Values, CycleSeen
  <2>2. CASE Restart
    BY <1>1, <2>2 DEF Restart, IInv, TypeOK, Values, StoredBehind
  <2>3. CASE UNCHANGED values
    BY <1>1, <2>3 DEF IInv, TypeOK, Values
  <2>4. CASE UNCHANGED vars
    BY <2>4
  <2>5. QED
    BY <1>1, <2>1, <2>2, <2>3, <2>4
    DEF Next, ClockStep, Tick, ObserveReport, ObserveFetch, Connected,
        Disconnected, Save, saved
<1>2. QED
  BY <1>1, Invariance, PTL DEF Spec, CompletionFollowsActive

\* No duration recorded by observe reaches back over a gap or a restart.
THEOREM DurationsWatched == Spec => NoDurationBridges
<1>1. ASSUME IInv, [Next]_vars
      PROVE  [NoDurationBridgesStep]_vars
  <2>1. ASSUME NEW data \in Report, Observe(data)
        PROVE  NoDurationBridgesStep
    <3>1. ASSUME NEW m \in Duration,
                 values'[m] \notin {values[m], stored.values[m], None}
          PROVE  values'[m] <= now - lastGap
      <4>1. CASE m = "last_cycle"
        BY <1>1, <2>1, <3>1, <4>1
        DEF Observe, ValuesAfter, CycleSeconds, Completes, IInv, TypeOK,
            WatchedTimes, Watched
      <4>2. ASSUME NEW k \in {"current_state", "door_state"}, NEW from, NEW to,
                   from # None \/ to # None,
                   values'[m] = Elapsed(data, k, from, to, values[m])
            PROVE  values'[m] <= now - lastGap
        <5>1. Turned(data, k, from, to) /\ since[k] # None
          BY <3>1, <4>2 DEF Elapsed
        <5>2. k \in Keys
          BY <4>2, <5>1 DEF Turned, Lookup
        <5>3. QED
          BY <1>1, <4>2, <5>1, <5>2 DEF Elapsed, IInv, TypeOK, WatchedTimes, Watched
      <4>3. CASE m = "last_open"
        BY <2>1, <4>2, <4>3, NoneAssumption DEF Observe, ValuesAfter
      <4>4. CASE m = "last_preheat"
        BY <2>1, <4>2, <4>4, NoneAssumption DEF Observe, ValuesAfter
      <4>5. CASE m = "last_cooking"
        BY <2>1, <4>2, <4>5, NoneAssumption DEF Observe, ValuesAfter
      <4>6. QED
        BY <4>1, <4>3, <4>4, <4>5 DEF Duration
    <3>2. QED
      BY <3>1 DEF NoDurationBridgesStep
  <2>2. CASE Restart
    BY <2>2 DEF Restart, NoDurationBridgesStep
  <2>3. CASE UNCHANGED values
    BY <2>3 DEF NoDurationBridgesStep
  <2>4. QED
    BY <1>1, <2>1, <2>2, <2>3
    DEF Next, ClockStep, Tick, ObserveReport, ObserveFetch, Connected,
        Disconnected, Save, saved, vars
<1>2. QED
  BY <1>1, Invariance, PTL DEF Spec, NoDurationBridges

\* A reading held is one whose beginning is known.
SinceKnown == \A k \in Keys : previous[k] # None => since[k] # None

\* No duration shown as current reaches back over a gap or a restart
\* (Observations.duration, Observations.gap, Monitoring.load).
THEOREM CurrentIsWatched == Spec => []CurrentDurationWatched
<1>1. Init => SinceKnown
  BY DEF Init, SinceKnown, NoReading
<1>2. IInv /\ SinceKnown /\ [Next]_vars => SinceKnown'
  <2> SUFFICES ASSUME IInv, SinceKnown, [Next]_vars PROVE SinceKnown'
    OBVIOUS
  <2>1. ASSUME NEW data \in Report, Observe(data) PROVE SinceKnown'
    <3>1. ASSUME NEW k \in Keys, previous'[k] # None PROVE since'[k] # None
      BY <2>1, <3>1, NoneAssumption DEF Observe, SinceKnown, IInv, TypeOK
    <3>2. QED
      BY <3>1 DEF SinceKnown
  <2>2. CASE UNCHANGED <<previous, since>>
    BY <2>2 DEF SinceKnown
  <2>3. CASE Disconnected \/ Restart
    BY <2>3 DEF Disconnected, Gap, Restart, SinceKnown, NoReading
  <2>4. QED
    BY <2>1, <2>2, <2>3
    DEF Next, ClockStep, Tick, ObserveReport, ObserveFetch, Connected, Save, vars, device
<1>3. IInv /\ SinceKnown => CurrentDurationWatched
  <2> SUFFICES ASSUME IInv, SinceKnown, NEW k \in Keys,
                      CurrentDuration(k, Readings(k)) # None
               PROVE  CurrentDuration(k, Readings(k)) <= now - lastGap
    BY DEF CurrentDurationWatched
  <2>1. /\ since[k] \in Time /\ since[k] >= lastGap
        /\ now \in Time /\ lastGap \in Time /\ lastGap <= now
    BY DEF CurrentDuration, SinceKnown, IInv, TypeOK, WatchedTimes, Watched
  <2>2. QED
    BY <2>1 DEF CurrentDuration
<1>4. QED
  BY <1>1, <1>2, <1>3, Invariance, PTL DEF Spec

-----------------------------------------------------------------------------
\* Of a finite set of days, those with fewer than n later ones are at most n.
LEMMA NewestAreFew ==
  ASSUME NEW S \in SUBSET Nat, IsFiniteSet(S), NEW n \in Nat,
         NEW T, T = {d \in S : Cardinality({e \in S : e > d}) < n}
  PROVE  IsFiniteSet(T) /\ Cardinality(T) <= n
<1>1. IsFiniteSet(T)
  BY FS_Subset
<1>2. CASE T = {}
  <2>1. Cardinality({}) = 0
    BY FS_EmptySet
  <2>2. Cardinality(T) = 0
    BY <1>2, <2>1, Zenon
  <2>3. QED
    BY <1>1, <2>2
<1>3. CASE T # {}
  <2> DEFINE Less == OpToRel(<, Nat)
  <2>1. PICK m \in T : \A d \in T : m <= d
    <3>1. PICK m \in T : \A d \in T : <<d, m>> \notin Less
      <4>1. IsWellFoundedOn(Less, Nat)
        BY NatLessThanWellFounded
      <4> HIDE DEF Less
      <4>2. QED
        BY <1>3, <4>1, WFMin
    <3>2. ASSUME NEW d \in T PROVE m <= d
      <4>1. d \in Nat /\ m \in Nat /\ <<d, m>> \notin Less
        BY <3>1
      <4>2. QED
        BY <4>1 DEF OpToRel
    <3>3. QED
      BY <3>2
  <2> DEFINE Later == {e \in S : e > m}
  <2>2. IsFiniteSet(Later) /\ Cardinality(Later) \in Nat /\ Cardinality(Later) < n
    BY <2>1, FS_Subset, FS_CardinalityType
  <2>3. ASSUME NEW d \in T \ {m} PROVE d \in Later
    <3>1. d \in S /\ d \in Nat /\ m \in Nat /\ m <= d /\ d # m
      BY <2>1
    <3>2. QED
      BY <3>1
  <2>4. T \ {m} \in SUBSET Later
    BY <2>3
  <2> HIDE DEF Later
  <2>5. /\ IsFiniteSet(T \ {m}) /\ Cardinality(T \ {m}) <= Cardinality(Later)
        /\ Cardinality(T \ {m}) \in Nat
    BY <2>2, <2>4, FS_Subset, FS_CardinalityType
  <2>6. Cardinality(T) \in Nat /\ Cardinality(T \ {m}) = Cardinality(T) - 1
    BY <1>1, <2>1, FS_RemoveElement, FS_CardinalityType
  <2>7. QED
    BY <1>1, <2>2, <2>5, <2>6
<1>4. QED
  BY <1>2, <1>3

\* Dropping old buckets leaves at most Retention of them.
LEMMA TrimBounds ==
  ASSUME NEW ds \in History
  PROVE  Cardinality(Buckets(Trim(ds))) <= Retention
<1> DEFINE S == Buckets(ds)
           T == {d \in S : Cardinality({e \in S : e > d}) < Retention}
<1>1. S \in SUBSET Nat /\ IsFiniteSet(S)
  <2>1. IsFiniteSet(0 .. MaxDay)
    BY BoundsAssumption, FS_Interval
  <2>2. S \in SUBSET (0 .. MaxDay)
    BY DEF Buckets, Day
  <2> HIDE DEF S
  <2>3. IsFiniteSet(S)
    BY <2>1, <2>2, FS_Subset
  <2>4. QED
    BY <2>2, <2>3, BoundsAssumption
<1>2. Buckets(Trim(ds)) \subseteq T
  BY DEF Trim, Buckets
<1>3. IsFiniteSet(T) /\ Cardinality(T) <= Retention
  BY <1>1, NewestAreFew, BoundsAssumption
<1>4. /\ Cardinality(Buckets(Trim(ds))) <= Cardinality(T)
      /\ Cardinality(Buckets(Trim(ds))) \in Nat /\ Cardinality(T) \in Nat
  BY <1>2, <1>3, FS_Subset, FS_CardinalityType
<1>5. QED
  BY <1>3, <1>4, BoundsAssumption

\* The history on disk is bounded too, or a restart would undo the trimming.
StoredBounded ==
  BoundedHistory /\ Cardinality(Buckets(stored.days)) <= Retention

\* The history never outgrows its retention, however long it runs and whatever it is
\* restarted from (Observations.add).
THEOREM HistoryIsBounded == Spec => []BoundedHistory
<1>1. Init => StoredBounded
  <2>1. Buckets(NoHistory) = {}
    BY DEF Buckets, NoHistory
  <2>2. QED
    BY <2>1, FS_EmptySet, BoundsAssumption DEF Init, StoredBounded, BoundedHistory
<1>2. IInv /\ StoredBounded /\ [Next]_vars => StoredBounded'
  <2> SUFFICES ASSUME IInv, StoredBounded, [Next]_vars PROVE StoredBounded'
    OBVIOUS
  <2>1. Cardinality(Buckets(Advanced)) <= Retention
    <3>1. CASE Tracking
      <4>1. Accrue(days, previous, last_tick, now) \in History
        BY <3>1, AccrueType DEF IInv, TypeOK, Tracking
      <4>2. QED
        BY <3>1, <4>1, TrimBounds DEF Advanced
    <3>2. CASE ~Tracking
      BY <3>2 DEF Advanced, StoredBounded, BoundedHistory
    <3>3. QED
      BY <3>1, <3>2
  <2>2. ASSUME NEW data \in Report, Observe(data), UNCHANGED stored
        PROVE  StoredBounded'
    <3>1. Bump(Advanced, Events(data)) \in History
      BY AdvancedType, BumpType DEF IInv
    <3>2. QED
      BY <2>2, <3>1, TrimBounds DEF Observe, StoredBounded, BoundedHistory, Buckets
  <2>3. CASE Tick \/ Disconnected
    BY <2>1, <2>3 DEF Tick, Disconnected, StoredBounded, BoundedHistory, Buckets
  <2>4. CASE Save \/ Restart
    BY <2>4 DEF Save, Restart, saved, StoredBounded, BoundedHistory, Buckets
  <2>5. CASE UNCHANGED <<days, stored>>
    BY <2>5 DEF StoredBounded, BoundedHistory, Buckets
  <2>6. QED
    BY <2>2, <2>3, <2>4, <2>5
    DEF Next, ClockStep, ObserveReport, ObserveFetch, Connected, vars, saved
<1>3. StoredBounded => BoundedHistory
  BY DEF StoredBounded
<1>4. QED
  BY <1>1, <1>2, <1>3, Invariance, PTL DEF Spec

-----------------------------------------------------------------------------
(***************************************************************************)
(* The seconds in the buckets are those a clock would have counted.        *)
(***************************************************************************)
\* A day begins and ends where it should.
LEMMA DayFacts ==
  ASSUME NEW t \in Nat
  PROVE  /\ DayOf(t) \in Nat
         /\ DayOf(t) * DayLength <= t
         /\ t < (DayOf(t) + 1) * DayLength
BY BoundsAssumption DEF DayOf

\* Days are in order.
LEMMA DayOrder ==
  ASSUME NEW d \in Nat, NEW e \in Nat, d < e
  PROVE  /\ d * DayLength \in Nat /\ e * DayLength \in Nat
         /\ (d + 1) * DayLength = d * DayLength + DayLength
         /\ (d + 1) * DayLength <= e * DayLength
<1>1. PICK k \in Nat : e = d + 1 + k
  <2>1. e - d - 1 \in Nat /\ e = d + 1 + (e - d - 1)
    OBVIOUS
  <2> QED BY <2>1
<1>2. /\ d * DayLength \in Nat /\ k * DayLength \in Nat
      /\ e * DayLength = d * DayLength + DayLength + k * DayLength
      /\ (d + 1) * DayLength = d * DayLength + DayLength
  BY <1>1, BoundsAssumption
<1> QED BY <1>2, BoundsAssumption

\* Time never goes back to an earlier day.
LEMMA DayMonotone ==
  ASSUME NEW t \in Nat
  PROVE  DayOf(t) <= DayOf(t + 1)
<1> SUFFICES ASSUME DayOf(t + 1) < DayOf(t) PROVE FALSE
  BY DayFacts
<1>1. (DayOf(t + 1) + 1) * DayLength <= DayOf(t) * DayLength
      /\ (DayOf(t + 1) + 1) * DayLength \in Int /\ DayOf(t) * DayLength \in Nat
  BY DayFacts, DayOrder, BoundsAssumption
<1>2. t + 1 < (DayOf(t + 1) + 1) * DayLength /\ DayOf(t) * DayLength <= t
  BY DayFacts
<1> QED BY <1>1, <1>2

\* An interval cut anywhere has the seconds of its pieces, on every day; none of an
\* empty one; and none on a day that has not begun.
LEMMA OverlapAdds ==
  ASSUME NEW a \in Nat, NEW b \in Nat, a <= b, NEW d \in Day
  PROVE  Overlap(a, b + 1, d) = Overlap(a, b, d) + Overlap(b, b + 1, d)
<1> DEFINE lo == d * DayLength
           hi == (d + 1) * DayLength
<1>1. lo \in Nat /\ hi \in Nat /\ lo <= hi
  BY BoundsAssumption, DayOrder DEF Day
<1> DEFINE First(x) == IF x > lo THEN x ELSE lo
           End(y) == IF y < hi THEN y ELSE hi
           Seconds(x, y) == IF First(x) < End(y) THEN End(y) - First(x) ELSE 0
<1>2. /\ Overlap(a, b, d) = Seconds(a, b)
      /\ Overlap(b, b + 1, d) = Seconds(b, b + 1)
      /\ Overlap(a, b + 1, d) = Seconds(a, b + 1)
  BY DEF Overlap
<1> HIDE DEF lo, hi
<1>3. Seconds(a, b + 1) = Seconds(a, b) + Seconds(b, b + 1)
  BY <1>1
<1> QED BY <1>2, <1>3

LEMMA OverlapEmpty ==
  ASSUME NEW a \in Nat, NEW d \in Day
  PROVE  Overlap(a, a, d) = 0
<1>1. d * DayLength \in Nat /\ (d + 1) * DayLength \in Nat
  BY BoundsAssumption, DayOrder DEF Day
<1> QED BY <1>1 DEF Overlap

LEMMA OverlapNotBefore ==
  ASSUME NEW a \in Nat, NEW b \in Nat, NEW d \in Day, d > DayOf(b)
  PROVE  Overlap(a, b, d) = 0
<1>1. /\ d * DayLength \in Nat /\ (d + 1) * DayLength \in Nat
      /\ (DayOf(b) + 1) * DayLength <= d * DayLength
      /\ b < (DayOf(b) + 1) * DayLength
      /\ (DayOf(b) + 1) * DayLength \in Nat
  BY BoundsAssumption, DayFacts, DayOrder DEF Day
<1> QED BY <1>1 DEF Overlap

\* The seconds claimed for a metric on a day.
Due(d, m) == claim.watched[d][m] + claim.missed[d][m]

\* No bucket is of a day to come.
NotAhead(ds) == \A d \in Day : d > DayOf(now) => ds[d] = NoBucket

\* Trimming a history that is not ahead drops no day that is retained.
LEMMA TrimKeepsRetained ==
  ASSUME now \in Nat, NEW ds \in History, NotAhead(ds)
  PROVE  /\ NotAhead(Trim(ds))
         /\ \A d \in Day : d + Retention > DayOf(now) => Trim(ds)[d] = ds[d]
<1>1. NotAhead(Trim(ds))
  BY DEF NotAhead, Trim
<1>2. ASSUME NEW d \in Day, d + Retention > DayOf(now)
      PROVE  Trim(ds)[d] = ds[d]
  <2> DEFINE Later == {e \in Buckets(ds) : e > d}
  <2>1. d \in Nat /\ DayOf(now) \in Nat /\ d + 1 \in Int
    BY BoundsAssumption, DayFacts DEF Day
  <2>2. Later \in SUBSET (d + 1 .. DayOf(now))
    <3> SUFFICES ASSUME NEW e \in Later PROVE e \in d + 1 .. DayOf(now)
      OBVIOUS
    <3>1. e \in Day /\ e > d /\ ~(e > DayOf(now)) /\ e \in Nat
      BY BoundsAssumption DEF Buckets, NotAhead, Day
    <3> QED BY <2>1, <3>1
  <2> HIDE DEF Later
  <2>3. /\ IsFiniteSet(d + 1 .. DayOf(now))
        /\ Cardinality(d + 1 .. DayOf(now)) =
             IF d + 1 > DayOf(now) THEN 0 ELSE DayOf(now) - (d + 1) + 1
    <3>1. d + 1 \in Int /\ DayOf(now) \in Int
      BY <2>1
    <3> QED BY <3>1, FS_Interval, Zenon
  <2>4. IsFiniteSet(Later) /\ Cardinality(Later) <= Cardinality(d + 1 .. DayOf(now))
    BY <2>2, <2>3, FS_Subset
  <2>5. Cardinality(Later) \in Nat
    BY <2>4, FS_CardinalityType
  <2>6. Cardinality(Later) < Retention
    BY <1>2, <2>1, <2>3, <2>4, <2>5, BoundsAssumption
  <2>7. Trim(ds)[d] = IF Cardinality(Later) < Retention THEN ds[d] ELSE NoBucket
    BY DEF Trim, Later
  <2> QED BY <2>6, <2>7
<1> QED BY <1>1, <1>2

\* Neither does adding the seconds of an interval that has passed.
LEMMA AccrueNotAhead ==
  ASSUME now \in Nat, NEW ds \in History, NotAhead(ds), NEW prev, NEW from \in Nat
  PROVE  NotAhead(Accrue(ds, prev, from, now))
<1> SUFFICES ASSUME NEW d \in Day, d > DayOf(now)
             PROVE  Accrue(ds, prev, from, now)[d] = NoBucket
  BY DEF NotAhead
<1>1. Overlap(from, now, d) = 0
  BY OverlapNotBefore
<1>2. ds[d] = NoBucket
  BY DEF NotAhead
<1>3. \A m \in Metric : ds[d][m] = 0
  BY <1>2 DEF NoBucket
<1>4. Accrue(ds, prev, from, now)[d] =
        [m \in Metric |-> ds[d][m] + (IF \E k \in Keys : Stage(prev[k]) = m
                                      THEN Overlap(from, now, d) ELSE 0)]
  BY DEF Accrue
<1>5. \A m \in Metric : ds[d][m] + (IF \E k \in Keys : Stage(prev[k]) = m
                                    THEN Overlap(from, now, d) ELSE 0) = 0
  BY <1>1, <1>3
<1> QED BY <1>4, <1>5 DEF NoBucket

\* The device that is being watched holds the reading last taken, any other none.
Held ==
  /\ watch.held = previous
  /\ ~Tracking => previous = NoReading

\* What Trim drops is gone for good, so the counts are exact for the days retained.
Exact ==
  /\ Held
  /\ NotAhead(days) /\ NotAhead(stored.days)
  /\ \A d \in Day, m \in SecondsMetric :
       d + Retention > DayOf(now) => Counting[d][m] = Due(d, m)

\* A reading feeds no count.
LEMMA SecondsAreNotCounts ==
  ASSUME NEW m \in SecondsMetric
  PROVE  m \in Metric /\ m \notin CountMetric
<1>1. m \in {"drying", "washing", "paused", "door_open", "express"} \cup OVEN_ACTIVE
  BY DEF SecondsMetric, Stage, OVEN_ACTIVE
<1> QED BY <1>1 DEF Metric, CountMetric, OVEN_ACTIVE

\* No reading feeds no metric.
LEMMA NoneIsNoMetric ==
  ASSUME NEW m \in SecondsMetric
  PROVE  Stage(None) # m
BY NoneAssumption DEF SecondsMetric, Stage, ACTIVE, OVEN_ACTIVE

\* advance puts in the buckets what was still to be counted.
LEMMA AdvancedExact ==
  ASSUME IInv, Exact
  PROVE  /\ NotAhead(Advanced)
         /\ \A d \in Day, m \in SecondsMetric :
              d + Retention > DayOf(now) => Advanced[d][m] = Due(d, m)
<1>1. now \in Nat /\ days \in History
  BY BoundsAssumption DEF IInv, TypeOK
<1>2. CASE Tracking
  <2>1. last_tick \in Time
    BY <1>2 DEF IInv, TypeOK, Tracking
  <2>2. Counting \in History /\ Counting = Accrue(days, previous, last_tick, now)
    BY <1>1, <1>2, <2>1, AccrueType DEF Counting
  <2>3. NotAhead(Counting)
    BY <1>1, <2>1, <2>2, AccrueNotAhead DEF Exact
  <2>4. Advanced = Trim(Counting)
    BY <1>2, <2>2 DEF Advanced
  <2> QED BY <1>1, <2>2, <2>3, <2>4, TrimKeepsRetained DEF Exact
<1>3. CASE ~Tracking
  BY <1>3 DEF Advanced, Counting, Exact
<1> QED BY <1>2, <1>3

\* Nothing is still to be counted just after a tick.
LEMMA NothingLeftToCount ==
  ASSUME NEW ds \in History, NEW prev, now \in Nat, NEW d \in Day, NEW m \in SecondsMetric
  PROVE  Accrue(ds, prev, now, now)[d][m] = ds[d][m]
<1>1. m \in Metric /\ Overlap(now, now, d) = 0 /\ ds[d][m] \in Nat
  BY SecondsAreNotCounts, OverlapEmpty DEF History
<1> QED BY <1>1 DEF Accrue

\* A second is claimed once, for the readings held.
LEMMA ClaimGrows ==
  ASSUME IInv, Held, ClockStep, NEW d \in Day, NEW m \in Metric,
         d + Retention > DayOf(now + 1)
  PROVE  Due(d, m)' = Due(d, m) + (IF \E k \in Keys : Stage(previous[k]) = m
                                   THEN Overlap(now, now + 1, d) ELSE 0)
<1> DEFINE more == IF \E k \in Keys : Stage(previous[k]) = m
                   THEN Overlap(now, now + 1, d) ELSE 0
<1>1. claim.watched[d][m] \in Nat /\ claim.missed[d][m] \in Nat
  BY DEF IInv, TypeOK, History
<1>2. more \in Nat
  <2>1. now \in Time /\ now + 1 \in Nat
    BY BoundsAssumption DEF IInv, TypeOK
  <2>2. Overlap(now, now + 1, d) \in Nat
    BY <2>1, OverlapType
  <2>3. CASE \E k \in Keys : Stage(previous[k]) = m
    BY <2>2, <2>3
  <2>4. CASE ~\E k \in Keys : Stage(previous[k]) = m
    BY <2>4
  <2> QED BY <2>3, <2>4
<1>3. /\ claim'.watched[d][m] = IF ~watch.outage THEN claim.watched[d][m] + more
                                ELSE claim.watched[d][m]
      /\ claim'.missed[d][m] = IF watch.outage THEN claim.missed[d][m] + more
                               ELSE claim.missed[d][m]
  <2>1. Accrue(claim.watched, watch.held, now, now + 1)[d][m] = claim.watched[d][m] + more
        /\ Accrue(claim.missed, watch.held, now, now + 1)[d][m] = claim.missed[d][m] + more
    BY DEF Accrue, Held
  <2> HIDE DEF more
  <2> QED BY <2>1 DEF ClockStep, Claimed
<1> HIDE DEF more
<1>4. CASE watch.outage
  <2>1. claim'.watched[d][m] = claim.watched[d][m]
        /\ claim'.missed[d][m] = claim.missed[d][m] + more
    BY <1>3, <1>4, Zenon
  <2>2. Due(d, m)' = claim.watched[d][m] + (claim.missed[d][m] + more)
    BY <2>1, Zenon DEF Due
  <2> QED BY <1>1, <1>2, <2>2 DEF Due, more
<1>5. CASE ~watch.outage
  <2>1. claim'.missed[d][m] = claim.missed[d][m]
        /\ claim'.watched[d][m] = claim.watched[d][m] + more
    BY <1>3, <1>5, Zenon
  <2>2. Due(d, m)' = (claim.watched[d][m] + more) + claim.missed[d][m]
    BY <2>1, Zenon DEF Due
  <2> QED BY <1>1, <1>2, <2>2 DEF Due, more
<1> QED BY <1>4, <1>5

\* A second more is counted the same way at once and by the next tick.
LEMMA ClockExact ==
  ASSUME IInv, Exact, ClockStep
  PROVE  Exact'
<1>1. /\ now \in Nat /\ now' = now + 1 /\ now + 1 \in Nat
      /\ DayOf(now) \in Nat /\ DayOf(now + 1) \in Nat /\ DayOf(now) <= DayOf(now')
      /\ UNCHANGED <<days, stored, previous, last_tick, connected, watch>>
  BY BoundsAssumption, DayMonotone, DayFacts
  DEF ClockStep, IInv, TypeOK, device, saved
<1>2. NotAhead(days)' /\ NotAhead(stored.days)'
  BY <1>1, BoundsAssumption DEF NotAhead, Exact, Day
<1>3. ASSUME NEW d \in Day, NEW m \in SecondsMetric, d + Retention > DayOf(now')
      PROVE  Counting'[d][m] = Due(d, m)'
  <2> DEFINE fed == \E k \in Keys : Stage(previous[k]) = m
  <2>1. d + Retention > DayOf(now) /\ m \in Metric
    BY <1>1, <1>3, BoundsAssumption, SecondsAreNotCounts DEF Day
  <2>2. Counting[d][m] = Due(d, m)
    BY <2>1 DEF Exact
  <2>3. /\ Due(d, m)' = Due(d, m) + (IF fed THEN Overlap(now, now + 1, d) ELSE 0)
        /\ Due(d, m) \in Nat
    <3>1. Due(d, m)' = Due(d, m) + (IF fed THEN Overlap(now, now + 1, d) ELSE 0)
      BY <1>1, <1>3, <2>1, ClaimGrows DEF Exact
    <3> QED BY <2>1, <3>1 DEF Due, IInv, TypeOK, History
  <2>4. CASE Tracking
    <3>1. last_tick \in Nat /\ last_tick <= now
      BY <2>4, BoundsAssumption DEF IInv, TypeOK, WatchedTimes, Tracking
    <3>2. Overlap(last_tick, now + 1, d) = Overlap(last_tick, now, d) + Overlap(now, now + 1, d)
      BY <1>1, <3>1, OverlapAdds
    <3>3. /\ Counting[d][m] = days[d][m] + (IF fed THEN Overlap(last_tick, now, d) ELSE 0)
          /\ Counting'[d][m] = days[d][m] + (IF fed THEN Overlap(last_tick, now + 1, d) ELSE 0)
      BY <1>1, <2>1, <2>4 DEF Counting, Tracking, Accrue
    <3>4. /\ days[d][m] \in Nat
          /\ Overlap(last_tick, now, d) \in Nat /\ Overlap(now, now + 1, d) \in Nat
      BY <1>1, <2>1, <2>4, OverlapType DEF IInv, TypeOK, History, Tracking
    <3>5. CASE fed
      <4>1. /\ Counting[d][m] = days[d][m] + Overlap(last_tick, now, d)
            /\ Counting'[d][m] = days[d][m] + Overlap(last_tick, now + 1, d)
            /\ Due(d, m)' = Due(d, m) + Overlap(now, now + 1, d)
        BY <2>3, <3>3, <3>5, Zenon
      <4>2. Due(d, m)' = (days[d][m] + Overlap(last_tick, now, d)) + Overlap(now, now + 1, d)
        BY <2>2, <4>1, Zenon
      <4>3. Counting'[d][m] = days[d][m] + (Overlap(last_tick, now, d) + Overlap(now, now + 1, d))
        BY <3>2, <4>1, Zenon
      <4> QED BY <3>4, <4>2, <4>3
    <3>6. CASE ~fed
      <4>1. /\ Counting[d][m] = days[d][m] + 0
            /\ Counting'[d][m] = days[d][m] + 0
            /\ Due(d, m)' = Due(d, m) + 0
        BY <2>3, <3>3, <3>6, Zenon
      <4>2. Due(d, m) + 0 = Due(d, m)
        BY <2>3
      <4> QED BY <2>2, <4>1, <4>2, Zenon
    <3> QED BY <3>5, <3>6
  <2>5. CASE ~Tracking
    <3>1. ~fed
      BY <2>5, NoneIsNoMetric DEF Exact, Held, NoReading
    <3>2. Due(d, m)' = Due(d, m) + 0
      BY <2>3, <3>1, Zenon
    <3>3. Counting'[d][m] = Counting[d][m]
      BY <1>1, <2>5 DEF Counting, Tracking
    <3> QED BY <2>2, <2>3, <3>2, <3>3
  <2> QED BY <2>4, <2>5
<1>4. Held'
  BY <1>1 DEF Exact, Held, Tracking
<1> QED BY <1>2, <1>3, <1>4 DEF Exact

\* A reading adds a count at most.
LEMMA ObserveExact ==
  ASSUME IInv, Exact, NEW data, Observe(data), UNCHANGED <<now, stored, claim>>
  PROVE  Exact'
<1> DEFINE bumped == Bump(Advanced, Events(data))
<1>1. now \in Nat /\ DayOf(now) \in Nat
  BY BoundsAssumption, DayFacts DEF IInv, TypeOK
<1>2. Advanced \in History /\ bumped \in History
  BY AdvancedType, BumpType DEF IInv
<1>3. NotAhead(bumped)
  <2> SUFFICES ASSUME NEW d \in Day, d > DayOf(now) PROVE bumped[d] = NoBucket
    BY DEF NotAhead
  <2>1. Advanced[d] = NoBucket /\ d # DayOf(now)
    BY <1>1, AdvancedExact DEF NotAhead, Day
  <2> QED BY <2>1 DEF Bump, NoBucket
<1>4. ASSUME NEW d \in Day, NEW m \in SecondsMetric PROVE bumped[d][m] = Advanced[d][m]
  <2>1. m \in Metric /\ m \notin Events(data)
    BY SecondsAreNotCounts DEF Events
  <2>2. Advanced[d][m] \in Nat
    BY <1>2, <2>1 DEF History
  <2> QED BY <2>1, <2>2 DEF Bump
<1>5. days' = Trim(bumped) /\ last_tick' = now /\ now' = now /\ claim' = claim
      /\ stored' = stored
  BY DEF Observe
<1> HIDE DEF bumped
<1>6. days' \in History
  BY <1>2, <1>5, TrimType
<1>7. NotAhead(days)' /\ NotAhead(stored.days)'
  BY <1>1, <1>2, <1>3, <1>5, TrimKeepsRetained DEF NotAhead, Exact
<1>8. ASSUME NEW d \in Day, NEW m \in SecondsMetric, d + Retention > DayOf(now)
      PROVE  Counting'[d][m] = Due(d, m)
  <2>1. Counting'[d][m] = days'[d][m]
    BY <1>1, <1>5, <1>6, NothingLeftToCount DEF Counting, Tracking
  <2>2. days'[d][m] = bumped[d][m]
    BY <1>1, <1>2, <1>3, <1>5, <1>8, TrimKeepsRetained
  <2> QED BY <1>4, <1>8, <2>1, <2>2, AdvancedExact
<1>9. Held'
  BY <1>1, <1>5, NoneAssumption DEF Observe, Held, Exact, Tracking, IInv, TypeOK
<1> QED BY <1>5, <1>7, <1>8, <1>9 DEF Exact, Due

\* Neither do the timer and the loss of the connection.
LEMMA TickExact ==
  ASSUME IInv, Exact, Tick \/ Disconnected
  PROVE  Exact'
<1>1. now \in Nat /\ Advanced \in History
  BY BoundsAssumption, AdvancedType DEF IInv, TypeOK
<1>2. /\ days' = Advanced /\ UNCHANGED <<now, stored, claim>>
      /\ last_tick' = now \/ connected' = FALSE
  BY DEF Tick, Disconnected, Gap, ghosts
<1>3. NotAhead(days)' /\ NotAhead(stored.days)'
  BY <1>2, AdvancedExact DEF NotAhead, Exact
<1>4. ASSUME NEW d \in Day, NEW m \in SecondsMetric, d + Retention > DayOf(now)
      PROVE  Counting'[d][m] = Due(d, m)
  <2>1. Counting'[d][m] = days'[d][m]
    BY <1>1, <1>2, NothingLeftToCount DEF Counting, Tracking
  <2> QED BY <1>2, <1>4, <2>1, AdvancedExact
<1>5. Held'
  <2>1. CASE Tick
    BY <1>1, <2>1, NoneAssumption DEF Tick, ghosts, Held, Exact, Tracking, IInv, TypeOK
  <2>2. CASE Disconnected
    BY <2>2 DEF Disconnected, Gap, Held, Tracking
  <2> QED BY <2>1, <2>2
<1> QED BY <1>2, <1>3, <1>4, <1>5 DEF Exact, Due

\* No interval is lost, counted twice, put on the wrong day or bridged over a gap, in
\* whatever order ticks, readings, losses, saves and restarts come (Observations.advance,
\* Observations.add, Observations.gap, Monitoring.load).
THEOREM AccrualIsExact == Spec => []AccrualExact
<1>1. Init => Exact
  <2> SUFFICES ASSUME Init PROVE Exact
    OBVIOUS
  <2>1. NotAhead(days) /\ NotAhead(stored.days) /\ Held
    BY DEF Init, NotAhead, NoHistory, Held
  <2>2. ASSUME NEW d \in Day, NEW m \in SecondsMetric PROVE Counting[d][m] = Due(d, m)
    BY SecondsAreNotCounts DEF Init, Counting, Tracking, Due, NoHistory, NoBucket
  <2> QED BY <2>1, <2>2 DEF Exact
<1>2. IInv /\ Exact /\ [Next]_vars => Exact'
  <2> SUFFICES ASSUME IInv, Exact, [Next]_vars PROVE Exact'
    OBVIOUS
  <2>1. ASSUME NEW data \in Report, ObserveReport(data) \/ ObserveFetch(data) PROVE Exact'
    BY <2>1, ObserveExact DEF ObserveReport, ObserveFetch
  <2>2. CASE Tick \/ Disconnected
    BY <2>2, TickExact
  <2>3. CASE ClockStep
    BY <2>3, ClockExact
  <2>4. CASE Save
    BY <2>4 DEF Save, device, saved, ghosts, Exact, Held, Due, Counting, Tracking, NotAhead
  <2>5. CASE Restart
    <3>1. ASSUME NEW d \in Day, NEW m \in SecondsMetric
          PROVE  Counting'[d][m] = Due(d, m)'
      <4>1. /\ Counting'[d][m] = stored.days[d][m]
            /\ Due(d, m)' = stored.days[d][m] + 0
        BY <2>5, SecondsAreNotCounts DEF Restart, Counting, Tracking, Due, NoHistory, NoBucket
      <4>2. stored.days[d][m] \in Nat
        BY SecondsAreNotCounts DEF IInv, TypeOK, History
      <4> QED BY <4>1, <4>2
    <3>2. NotAhead(days)' /\ NotAhead(stored.days)' /\ Held'
      BY <2>5 DEF Restart, Exact, Held, Tracking, NotAhead
    <3> QED BY <3>1, <3>2 DEF Exact
  <2>6. CASE Connected \/ UNCHANGED vars
    <3>1. UNCHANGED <<now, device, saved, stored, claim>> /\ watch'.held = watch.held
      BY <2>6 DEF Connected, vars, ghosts, IInv, TypeOK
    <3> QED BY <3>1 DEF device, saved, Exact, Held, Due, Counting, Tracking, NotAhead
  <2> QED BY <2>1, <2>2, <2>3, <2>4, <2>5, <2>6 DEF Next
<1>3. Exact => AccrualExact
  BY DEF Exact, Due, AccrualExact
<1> QED BY <1>1, <1>2, <1>3, Invariance, PTL DEF Spec
=============================================================================
