-------------------------- MODULE StateFeedProofs ---------------------------
(***************************************************************************)
(* What StateFeed promises for any locations, fields, reports and GETs:    *)
(* the device and the raw cache show the appliance's state once everything *)
(* has arrived, and say the same.                                          *)
(***************************************************************************)
EXTENDS StateFeed, TLAPS

-----------------------------------------------------------------------------
(***************************************************************************)
(* Reports and items.                                                      *)
(***************************************************************************)
\* What it means to be an item.
LEMMA ItemFacts ==
  ASSUME NEW item
  PROVE  item \in Item <=>
           /\ DOMAIN item \in SUBSET Fields
           /\ item \in [DOMAIN item -> Nat]
<1>1. ASSUME item \in Item
      PROVE  DOMAIN item \in SUBSET Fields /\ item \in [DOMAIN item -> Nat]
  <2>1. PICK fields \in SUBSET Fields : item \in [fields -> Nat]
    BY <1>1 DEF Item
  <2> QED BY <2>1
<1>2. ASSUME DOMAIN item \in SUBSET Fields, item \in [DOMAIN item -> Nat]
      PROVE  item \in Item
  BY <1>2 DEF Item
<1> QED BY <1>1, <1>2

\* What it means to be a report, or a cached state.
LEMMA PartialFacts ==
  ASSUME NEW report
  PROVE  report \in Partial <=>
           /\ DOMAIN report \in SUBSET Locations
           /\ report \in [DOMAIN report -> Item]
<1>1. ASSUME report \in Partial
      PROVE  DOMAIN report \in SUBSET Locations /\ report \in [DOMAIN report -> Item]
  <2>1. PICK locations \in SUBSET Locations : report \in [locations -> Item]
    BY <1>1 DEF Partial
  <2> QED BY <2>1
<1>2. ASSUME DOMAIN report \in SUBSET Locations, report \in [DOMAIN report -> Item]
      PROVE  report \in Partial
  BY <1>2 DEF Partial
<1> QED BY <1>1, <1>2

\* A full state is a report of everything.
LEMMA StateIsPartial ==
  ASSUME NEW state \in State
  PROVE  state \in Partial
<1>1. ASSUME NEW l \in Locations PROVE state[l] \in Item
  BY ItemFacts DEF State
<1> QED BY <1>1, PartialFacts DEF State

\* The report of a change is a report, and tags what changed.
LEMMA ItemsFacts ==
  ASSUME NEW locations \in SUBSET Locations, NEW fields \in SUBSET Fields,
         NEW state \in State
  PROVE  /\ Items(locations, fields, state) \in Partial
         /\ Tagged(Items(locations, fields, state)) = locations \X fields
         /\ \A l \in locations, f \in fields :
              Items(locations, fields, state)[l][f] = state[l][f]
<1> DEFINE report == Items(locations, fields, state)
<1>1. ASSUME NEW l \in locations
      PROVE  report[l] \in Item /\ DOMAIN report[l] = fields
             /\ \A f \in fields : report[l][f] = state[l][f]
  <2>1. report[l] = [f \in fields |-> state[l][f]]
    BY DEF Items
  <2> HIDE DEF report
  <2> QED BY <2>1, ItemFacts DEF State
<1>2. DOMAIN report = locations
  BY DEF Items
<1>3. report \in [locations -> Item]
  BY <1>1, <1>2 DEF Items
<1> HIDE DEF report
<1>4. report \in Partial
  BY <1>2, <1>3, PartialFacts
<1>5. Tagged(report) = locations \X fields
  BY <1>1, <1>2 DEF Tagged
<1> QED BY <1>1, <1>4, <1>5 DEF report

\* An item over fields has those of both, the item's values where it has any.
LEMMA OverValues ==
  ASSUME NEW old, NEW item
  PROVE  /\ DOMAIN Over(old, item) = DOMAIN old \cup DOMAIN item
         /\ Over(old, item) = [f \in DOMAIN Over(old, item) |-> Over(old, item)[f]]
         /\ \A f \in DOMAIN old \cup DOMAIN item :
              Over(old, item)[f] = IF f \in DOMAIN item THEN item[f] ELSE old[f]
BY DEF Over

\* An item over another is an item.
LEMMA OverFacts ==
  ASSUME NEW old \in Item, NEW item \in Item
  PROVE  Over(old, item) \in Item
<1> DEFINE new == Over(old, item)
<1>1. /\ DOMAIN new = DOMAIN old \cup DOMAIN item
      /\ \A f \in DOMAIN old \cup DOMAIN item :
           new[f] = IF f \in DOMAIN item THEN item[f] ELSE old[f]
      /\ new = [f \in DOMAIN old \cup DOMAIN item |-> new[f]]
  BY OverValues
<1> HIDE DEF new
<1>2. DOMAIN old \in SUBSET Fields /\ DOMAIN item \in SUBSET Fields
      /\ old \in [DOMAIN old -> Nat] /\ item \in [DOMAIN item -> Nat]
  BY ItemFacts
<1>3. \A f \in DOMAIN new : new[f] \in Nat
  BY <1>1, <1>2
<1>4. DOMAIN new \in SUBSET Fields /\ new \in [DOMAIN new -> Nat]
  BY <1>1, <1>2, <1>3
<1>5. new \in Item
  BY <1>4, ItemFacts
<1> QED BY <1>5 DEF new

-----------------------------------------------------------------------------
(***************************************************************************)
(* The inductive invariant.                                                *)
(***************************************************************************)
\* What a report, or the cache, says of a field.
Says(report, l, f) == l \in DOMAIN report /\ f \in DOMAIN report[l]

\* Tagged lists what a report says.
LEMMA TaggedFacts ==
  ASSUME NEW report \in Partial
  PROVE  /\ Tagged(report) \subseteq Locations \X Fields
         /\ \A l, f : <<l, f>> \in Tagged(report) <=> Says(report, l, f)
         /\ \A l \in Locations, f \in Fields :
              Says(report, l, f) => report[l][f] \in Nat
<1>1. DOMAIN report \subseteq Locations
      /\ \A l \in DOMAIN report : report[l] \in Item
  BY PartialFacts
<1>2. \A l \in DOMAIN report : DOMAIN report[l] \subseteq Fields
                               /\ \A f \in DOMAIN report[l] : report[l][f] \in Nat
  BY <1>1, ItemFacts
<1>3. \A l, f : <<l, f>> \in Tagged(report) <=> Says(report, l, f)
  BY DEF Tagged, Says
<1>4. Tagged(report) \subseteq Locations \X Fields
  BY <1>1, <1>2 DEF Tagged
<1> QED BY <1>2, <1>3, <1>4 DEF Says

\* The last report that says something of a field says what the appliance has,
\* and if there is none, what was reported is what it has.
Settled ==
  \A l \in Locations, f \in Fields :
    /\ (\A i \in 1..Len(reports) : ~Says(reports[i], l, f)) =>
         reported[l][f] = truth[l][f]
    /\ \A i \in 1..Len(reports) :
         /\ Says(reports[i], l, f)
         /\ \A j \in (i+1)..Len(reports) : ~Says(reports[j], l, f)
         => reports[i][l][f] = truth[l][f]

\* Nothing is newer than the appliance.
Below ==
  \A l \in Locations, f \in Fields :
    /\ \A i \in 1..Len(reports) :
         Says(reports[i], l, f) => reports[i][l][f] <= truth[l][f]
    /\ \A c \in Caller : answer[c] \notin {Missing, Empty} => answer[c][l][f] <= truth[l][f]
    /\ attributes[l][f] # Missing => attributes[l][f] <= truth[l][f]
    /\ Cached(l, f) => cache[l][f] <= truth[l][f]

\* A view is as new as what was reported, except where it is known to be late.
NotBehind ==
  \A l \in Locations, f \in Fields :
    /\ attributes[l][f] # Missing /\ <<l, f>> \notin late["device"] =>
         reported[l][f] <= attributes[l][f]
    /\ Cached(l, f) /\ <<l, f>> \notin late["cache"] =>
         reported[l][f] <= cache[l][f]

IInv == FeedTypeOK /\ Settled /\ Below /\ NotBehind

-----------------------------------------------------------------------------
(***************************************************************************)
(* What taking in a report does, field by field.                           *)
(***************************************************************************)
\* What is reported becomes newer.
LEMMA NewestFacts ==
  ASSUME FeedTypeOK, NEW report \in Partial
  PROVE  /\ Newest(report) \in State
         /\ \A l \in Locations, f \in Fields :
              Newest(report)[l][f] =
                IF Says(report, l, f) THEN report[l][f] ELSE reported[l][f]
<1>1. \A l \in Locations, f \in Fields :
        Newest(report)[l][f] = IF Says(report, l, f) THEN report[l][f] ELSE reported[l][f]
  BY TaggedFacts DEF Newest
<1>2. \A l \in Locations, f \in Fields : reported[l][f] \in Nat
  BY DEF FeedTypeOK, State
<1>3. \A l \in Locations, f \in Fields : Newest(report)[l][f] \in Nat
  BY <1>1, <1>2, TaggedFacts
<1>4. Newest(report) = [l \in Locations |-> [f \in Fields |-> Newest(report)[l][f]]]
  BY DEF Newest
<1>5. Newest(report) \in State
  BY <1>3, <1>4 DEF State
<1> QED BY <1>1, <1>5

\* The device takes what the report says.
LEMMA UpdateFacts ==
  ASSUME FeedTypeOK, NEW report \in Partial
  PROVE  /\ UpdateStatus(report) \in [Locations -> [Fields -> Nat \cup {Missing}]]
         /\ \A l \in Locations, f \in Fields :
              UpdateStatus(report)[l][f] =
                IF Says(report, l, f) THEN report[l][f] ELSE attributes[l][f]
<1> DEFINE new == UpdateStatus(report)
<1>1. new = [l \in Locations |->
               IF l \in DOMAIN report THEN Over(attributes[l], report[l]) ELSE attributes[l]]
  BY DEF UpdateStatus
<1>2. ASSUME NEW l \in Locations
      PROVE  /\ new[l] \in [Fields -> Nat \cup {Missing}]
             /\ \A f \in Fields :
                  new[l][f] = IF Says(report, l, f) THEN report[l][f] ELSE attributes[l][f]
  <2>1. attributes[l] \in [Fields -> Nat \cup {Missing}]
    BY DEF FeedTypeOK
  <2>2. CASE l \in DOMAIN report
    <3>1. DOMAIN report[l] \subseteq Fields
      BY <2>2, PartialFacts, ItemFacts
    <3>2. \A f \in Fields : Says(report, l, f) <=> f \in DOMAIN report[l]
      BY <2>2 DEF Says
    <3>3. new[l] = Over(attributes[l], report[l])
      BY <1>1, <2>2
    <3> HIDE DEF new
    <3>4. DOMAIN attributes[l] \cup DOMAIN report[l] = Fields
      BY <2>1, <3>1
    <3>5. LET over == Over(attributes[l], report[l]) IN
          /\ DOMAIN over = DOMAIN attributes[l] \cup DOMAIN report[l]
          /\ over = [f \in DOMAIN over |-> over[f]]
          /\ \A f \in DOMAIN attributes[l] \cup DOMAIN report[l] : over[f] =
               IF f \in DOMAIN report[l] THEN report[l][f] ELSE attributes[l][f]
      BY OverValues
    <3>6. /\ DOMAIN new[l] = DOMAIN attributes[l] \cup DOMAIN report[l]
          /\ new[l] = [f \in DOMAIN new[l] |-> new[l][f]]
          /\ \A f \in DOMAIN attributes[l] \cup DOMAIN report[l] : new[l][f] =
               IF f \in DOMAIN report[l] THEN report[l][f] ELSE attributes[l][f]
      BY <3>3, <3>5
    <3>7. /\ DOMAIN new[l] = Fields
          /\ new[l] = [f \in DOMAIN new[l] |-> new[l][f]]
          /\ \A f \in Fields : new[l][f] =
               IF f \in DOMAIN report[l] THEN report[l][f] ELSE attributes[l][f]
      BY <3>4, <3>6, Zenon
    <3>8. \A f \in Fields : new[l][f] =
               IF Says(report, l, f) THEN report[l][f] ELSE attributes[l][f]
      BY <3>2, <3>7
    <3>9. \A f \in Fields : new[l][f] \in Nat \cup {Missing}
      BY <2>1, <3>8, TaggedFacts
    <3> QED BY <3>7, <3>8, <3>9
  <2>3. CASE l \notin DOMAIN report
    <3>1. new[l] = attributes[l]
      BY <1>1, <2>3
    <3> HIDE DEF new
    <3> QED BY <2>1, <2>3, <3>1 DEF Says
  <2> QED BY <2>2, <2>3
<1> HIDE DEF new
<1>3. new \in [Locations -> [Fields -> Nat \cup {Missing}]]
  BY <1>1, <1>2
<1> QED BY <1>2, <1>3 DEF new

\* The cache takes what the report says of what it has, or of everything.
LEMMA MergeFacts ==
  ASSUME FeedTypeOK, NEW report \in Partial
  PROVE  /\ MergeReport(report) \in Partial
         /\ \A l, f : Says(MergeReport(report), l, f) =>
              IF Says(report, l, f)
              THEN MergeReport(report)[l][f] = report[l][f]
              ELSE Cached(l, f) /\ MergeReport(report)[l][f] = cache[l][f]
<1> DEFINE new == MergeReport(report)
<1>1. CASE cache = Missing
  <2>1. new = report
    BY <1>1 DEF MergeReport
  <2> HIDE DEF new
  <2> QED BY <2>1 DEF new
<1>2. CASE cache # Missing
  <2>1. new = [l \in DOMAIN cache |->
                 IF l \in DOMAIN report THEN Over(cache[l], report[l]) ELSE cache[l]]
    BY <1>2 DEF MergeReport
  <2> HIDE DEF new
  <2>2. /\ cache \in Partial
        /\ DOMAIN cache \in SUBSET Locations
        /\ \A l \in DOMAIN cache : cache[l] \in Item
        /\ \A l \in DOMAIN report : report[l] \in Item
    BY <1>2, PartialFacts DEF FeedTypeOK
  <2>3. ASSUME NEW l \in DOMAIN cache
        PROVE  new[l] \in Item
    BY <2>1, <2>2, OverFacts
  <2>4. new \in Partial
    BY <2>1, <2>2, <2>3, PartialFacts
  <2>5. ASSUME NEW l, NEW f, Says(new, l, f)
        PROVE  IF Says(report, l, f)
               THEN new[l][f] = report[l][f]
               ELSE Cached(l, f) /\ new[l][f] = cache[l][f]
    <3>1. l \in DOMAIN cache
      BY <2>1, <2>5 DEF Says
    <3>2. CASE l \in DOMAIN report
      <4>1. new[l] = Over(cache[l], report[l])
        BY <2>1, <3>1, <3>2
      <4>2. LET over == Over(cache[l], report[l]) IN
            /\ DOMAIN over = DOMAIN cache[l] \cup DOMAIN report[l]
            /\ \A g \in DOMAIN cache[l] \cup DOMAIN report[l] : over[g] =
                 IF g \in DOMAIN report[l] THEN report[l][g] ELSE cache[l][g]
        BY OverValues
      <4>3. /\ DOMAIN new[l] = DOMAIN cache[l] \cup DOMAIN report[l]
            /\ \A g \in DOMAIN cache[l] \cup DOMAIN report[l] : new[l][g] =
                 IF g \in DOMAIN report[l] THEN report[l][g] ELSE cache[l][g]
        BY <4>1, <4>2
      <4>4. f \in DOMAIN cache[l] \cup DOMAIN report[l]
            /\ new[l][f] = IF f \in DOMAIN report[l] THEN report[l][f] ELSE cache[l][f]
        BY <2>5, <4>3 DEF Says
      <4> QED BY <1>2, <3>1, <3>2, <4>4 DEF Says, Cached
    <3>3. CASE l \notin DOMAIN report
      BY <1>2, <2>1, <2>5, <3>1, <3>3 DEF Says, Cached
    <3> QED BY <3>2, <3>3
  <2> QED BY <2>4, <2>5 DEF new
<1> QED BY <1>1, <1>2

-----------------------------------------------------------------------------
(***************************************************************************)
(* Each action keeps the invariant.                                        *)
(***************************************************************************)
\* The first report of a queue, and the queue without it.
LEMMA QueueFacts ==
  ASSUME FeedTypeOK, reports # <<>>
  PROVE  /\ Head(reports) \in Partial
         /\ Head(reports) = reports[1]
         /\ 1 \in 1..Len(reports)
         /\ Tail(reports) \in Seq(Partial)
         /\ Len(Tail(reports)) = Len(reports) - 1
         /\ \A i \in 1..Len(Tail(reports)) :
              i+1 \in 1..Len(reports) /\ Tail(reports)[i] = reports[i+1]
BY DEF FeedTypeOK

\* A change raises the fields it reports and no others.
LEMMA ChangeKeeps ==
  ASSUME IInv, Change
  PROVE  IInv'
<1> USE DEF IInv
<1>1. PICK locations \in SUBSET Locations, fields \in SUBSET Fields :
        /\ truth' = [l \in Locations |-> [f \in Fields |->
                       truth[l][f] + (IF l \in locations /\ f \in fields THEN 1 ELSE 0)]]
        /\ reports' = Append(reports, Items(locations, fields, truth'))
  BY DEF Change
<1> DEFINE report == Items(locations, fields, truth')
<1>2. \A l \in Locations, f \in Fields :
        /\ truth[l][f] \in Nat
        /\ truth'[l][f] = truth[l][f] + (IF l \in locations /\ f \in fields THEN 1 ELSE 0)
  BY <1>1 DEF FeedTypeOK, State
<1>3. truth' \in State
  BY <1>1, <1>2 DEF State
<1>4. \A l \in Locations, f \in Fields :
        truth'[l][f] \in Nat /\ truth[l][f] <= truth'[l][f]
  BY <1>2
<1>5. /\ report \in Partial
      /\ \A l \in Locations, f \in Fields :
           /\ Says(report, l, f) <=> l \in locations /\ f \in fields
           /\ Says(report, l, f) => report[l][f] = truth'[l][f]
  <2>1. /\ report \in Partial
        /\ Tagged(report) = locations \X fields
        /\ \A l \in locations, f \in fields : report[l][f] = truth'[l][f]
    BY <1>3, ItemsFacts
  <2> HIDE DEF report
  <2>2. \A l, f : <<l, f>> \in Tagged(report) <=> Says(report, l, f)
    BY <2>1, TaggedFacts
  <2> QED BY <2>1, <2>2
<1>6. reports' = Append(reports, report)
  BY <1>1
<1> HIDE DEF report
<1>7. /\ reports' \in Seq(Partial)
      /\ Len(reports') = Len(reports) + 1
      /\ Len(reports) \in Nat
      /\ reports'[Len(reports) + 1] = report
      /\ \A i \in 1..Len(reports) : reports'[i] = reports[i]
  BY <1>5, <1>6 DEF FeedTypeOK
<1>8. UNCHANGED <<requests, views, feed_ghosts>> /\ changes' \in Nat
  BY DEF Change, FeedTypeOK
<1>9. FeedTypeOK'
  BY <1>3, <1>7, <1>8 DEF FeedTypeOK, requests, views, feed_ghosts
<1>10. Settled'
  <2>1. SUFFICES ASSUME NEW l \in Locations, NEW f \in Fields
                 PROVE  /\ (\A i \in 1..Len(reports') : ~Says(reports'[i], l, f)) =>
                              reported'[l][f] = truth'[l][f]
                        /\ \A i \in 1..Len(reports') :
                             /\ Says(reports'[i], l, f)
                             /\ \A j \in (i+1)..Len(reports') : ~Says(reports'[j], l, f)
                             => reports'[i][l][f] = truth'[l][f]
    BY DEF Settled
  <2>2. CASE Says(report, l, f)
    <3>1. \A i \in 1..Len(reports) : Len(reports) + 1 \in (i+1)..Len(reports')
      BY <1>7
    <3>2. Len(reports) + 1 \in 1..Len(reports')
      BY <1>7
    <3>3. \A i \in 1..Len(reports') : i \in 1..Len(reports) \/ i = Len(reports) + 1
      BY <1>7
    <3> QED BY <1>5, <1>7, <2>2, <3>1, <3>2, <3>3
  <2>3. CASE ~Says(report, l, f)
    <3>1. truth'[l][f] = truth[l][f]
      BY <1>2, <1>5, <2>3
    <3>2. ASSUME \A i \in 1..Len(reports') : ~Says(reports'[i], l, f)
          PROVE  reported'[l][f] = truth'[l][f]
      BY <1>7, <1>8, <3>1, <3>2 DEF Settled, feed_ghosts
    <3>3. ASSUME NEW i \in 1..Len(reports'), Says(reports'[i], l, f),
                 \A j \in (i+1)..Len(reports') : ~Says(reports'[j], l, f)
          PROVE  reports'[i][l][f] = truth'[l][f]
      <4>1. i \in 1..Len(reports)
        BY <1>7, <2>3, <3>3
      <4>2. \A j \in (i+1)..Len(reports) : ~Says(reports[j], l, f)
        BY <1>7, <3>3
      <4> QED BY <1>7, <3>1, <3>3, <4>1, <4>2 DEF Settled
    <3> QED BY <3>2, <3>3
  <2> QED BY <2>2, <2>3
<1>11. Below'
  <2>1. ASSUME NEW l \in Locations, NEW f \in Fields
        PROVE  /\ \A i \in 1..Len(reports') :
                    Says(reports'[i], l, f) => reports'[i][l][f] <= truth'[l][f]
               /\ \A c \in Caller :
                    answer[c] \notin {Missing, Empty} => answer[c][l][f] <= truth'[l][f]
               /\ attributes[l][f] # Missing => attributes[l][f] <= truth'[l][f]
               /\ Cached(l, f) => cache[l][f] <= truth'[l][f]
    <3>1. ASSUME NEW i \in 1..Len(reports'), Says(reports'[i], l, f)
          PROVE  reports'[i][l][f] <= truth'[l][f]
      <4>1. CASE i = Len(reports) + 1
        BY <1>4, <1>5, <1>7, <3>1, <4>1
      <4>2. CASE i \in 1..Len(reports)
        <5>1. reports'[i] = reports[i] /\ reports[i] \in Partial
          BY <1>7, <4>2 DEF FeedTypeOK
        <5>2. reports[i][l][f] \in Nat
          BY <3>1, <5>1, TaggedFacts
        <5> QED BY <1>2, <1>4, <3>1, <4>2, <5>1, <5>2 DEF Below
      <4> QED BY <1>7, <4>1, <4>2
    <3>2. ASSUME NEW c \in Caller, answer[c] \notin {Missing, Empty}
          PROVE  answer[c][l][f] <= truth'[l][f]
      <4>1. answer[c][l][f] \in Nat
        BY <3>2 DEF State, FeedTypeOK
      <4> QED BY <1>2, <1>4, <3>2, <4>1 DEF Below
    <3>3. ASSUME attributes[l][f] # Missing PROVE attributes[l][f] <= truth'[l][f]
      <4>1. attributes[l][f] \in Nat
        BY <3>3 DEF FeedTypeOK
      <4> QED BY <1>2, <1>4, <3>3, <4>1 DEF Below
    <3>4. ASSUME Cached(l, f) PROVE cache[l][f] <= truth'[l][f]
      <4>1. cache[l][f] \in Nat
        BY <3>4, TaggedFacts DEF FeedTypeOK, Cached, Says
      <4> QED BY <1>2, <1>4, <3>4, <4>1 DEF Below
    <3> QED BY <3>1, <3>2, <3>3, <3>4
  <2> QED BY <1>8, <2>1 DEF Below, Cached, requests, views
<1>12. NotBehind'
  BY <1>8 DEF NotBehind, Cached, views, feed_ghosts
<1> QED BY <1>9, <1>10, <1>11, <1>12

\* A report leaves the queue, taken in or lost.
LEMMA QueueKeeps ==
  ASSUME IInv, reports # <<>>,
         reports' = Tail(reports), reported' = Newest(Head(reports)), truth' = truth
  PROVE  /\ Settled'
         /\ \A l \in Locations, f \in Fields, i \in 1..Len(reports') :
              Says(reports'[i], l, f) => reports'[i][l][f] <= truth'[l][f]
<1> USE DEF IInv
<1>1. \A i \in 1..Len(reports') :
        i+1 \in 1..Len(reports) /\ reports'[i] = reports[i+1]
  BY QueueFacts
<1>2. Len(reports') = Len(reports) - 1 /\ Len(reports) \in Nat
  BY QueueFacts DEF FeedTypeOK
<1>3. Head(reports) \in Partial /\ Head(reports) = reports[1] /\ 1 \in 1..Len(reports)
  BY QueueFacts
<1>4. ASSUME NEW l \in Locations, NEW f \in Fields,
             \A i \in 1..Len(reports') : ~Says(reports'[i], l, f)
      PROVE  reported'[l][f] = truth'[l][f]
  <2>1. \A j \in 2..Len(reports) : ~Says(reports[j], l, f)
    <3>1. ASSUME NEW j \in 2..Len(reports) PROVE ~Says(reports[j], l, f)
      <4>1. j-1 \in 1..Len(reports') /\ (j-1)+1 = j
        BY <1>2
      <4> QED BY <1>1, <1>4, <4>1
    <3> QED BY <3>1
  <2>2. CASE Says(reports[1], l, f)
    <3>1. reports[1][l][f] = truth[l][f]
      BY <1>3, <2>1, <2>2 DEF Settled
    <3> QED BY <1>3, <2>2, <3>1, NewestFacts
  <2>3. CASE ~Says(reports[1], l, f)
    <3>1. \A i \in 1..Len(reports) : i = 1 \/ i \in 2..Len(reports)
      BY <1>2
    <3>2. reported[l][f] = truth[l][f]
      BY <2>1, <2>3, <3>1 DEF Settled
    <3> QED BY <1>3, <2>3, <3>2, NewestFacts
  <2> QED BY <2>2, <2>3
<1>5. ASSUME NEW l \in Locations, NEW f \in Fields,
             NEW i \in 1..Len(reports'), Says(reports'[i], l, f),
             \A j \in (i+1)..Len(reports') : ~Says(reports'[j], l, f)
      PROVE  reports'[i][l][f] = truth'[l][f]
  <2>1. ASSUME NEW j \in ((i+1)+1)..Len(reports) PROVE ~Says(reports[j], l, f)
    <3>1. j-1 \in 1..Len(reports') /\ j-1 \in (i+1)..Len(reports') /\ (j-1)+1 = j
      BY <1>2
    <3> QED BY <1>1, <1>5, <3>1
  <2> QED BY <1>1, <1>5, <2>1 DEF Settled
<1>6. Settled'
  BY <1>4, <1>5 DEF Settled
<1>7. ASSUME NEW l \in Locations, NEW f \in Fields,
             NEW i \in 1..Len(reports'), Says(reports'[i], l, f)
      PROVE  reports'[i][l][f] <= truth'[l][f]
  BY <1>1, <1>7 DEF Below
<1> QED BY <1>6, <1>7

\* A lost report leaves both views late for what it said.
LEMMA LoseReportKeeps ==
  ASSUME IInv, LoseReport
  PROVE  IInv'
<1> USE DEF IInv
<1> DEFINE report == Head(reports)
<1>1. /\ reports # <<>>
      /\ reports' = Tail(reports)
      /\ reported' = Newest(report)
      /\ late' = [v \in DOMAIN late |-> late[v] \cup Tagged(report)]
      /\ UNCHANGED <<truth, changes, requests, views>>
  BY DEF LoseReport
<1>2. report \in Partial
  BY <1>1, QueueFacts
<1> HIDE DEF report
<1>3. /\ late' \in [{"device", "cache"} -> SUBSET (Locations \X Fields)]
      /\ \A v \in {"device", "cache"} : \A l, f :
           <<l, f>> \in late'[v] <=> <<l, f>> \in late[v] \/ Says(report, l, f)
  BY <1>1, <1>2, TaggedFacts DEF FeedTypeOK
<1>4. FeedTypeOK'
  BY <1>1, <1>2, <1>3, QueueFacts, NewestFacts DEF FeedTypeOK, requests, views
<1>5. /\ Settled'
      /\ \A l \in Locations, f \in Fields, i \in 1..Len(reports') :
           Says(reports'[i], l, f) => reports'[i][l][f] <= truth'[l][f]
  BY <1>1, QueueKeeps DEF report
<1>6. Below'
  BY <1>1, <1>5 DEF Below, Cached, requests, views
<1>7. NotBehind'
  BY <1>1, <1>2, <1>3, NewestFacts DEF NotBehind, Cached, views
<1> QED BY <1>4, <1>5, <1>6, <1>7

\* A report taken in is as new in both views as what was reported.
LEMMA HandleReportKeeps ==
  ASSUME IInv, HandleReport
  PROVE  IInv'
<1> USE DEF IInv
<1> DEFINE report == Head(reports)
<1>1. /\ reports # <<>>
      /\ cache' = MergeReport(report)
      /\ attributes' = UpdateStatus(report)
      /\ reported' = Newest(report)
      /\ late' = [v \in DOMAIN late |-> late[v] \ Tagged(report)]
      /\ reports' = Tail(reports)
      /\ UNCHANGED <<truth, changes, requests>>
  BY DEF HandleReport
<1>2. /\ report \in Partial
      /\ \A l \in Locations, f \in Fields : Says(report, l, f) =>
           report[l][f] \in Nat /\ report[l][f] <= truth[l][f]
  BY <1>1, QueueFacts, TaggedFacts DEF Below
<1> HIDE DEF report
<1>3. /\ late' \in [{"device", "cache"} -> SUBSET (Locations \X Fields)]
      /\ \A v \in {"device", "cache"} : \A l, f :
           <<l, f>> \in late'[v] <=> <<l, f>> \in late[v] /\ ~Says(report, l, f)
  BY <1>1, <1>2, TaggedFacts DEF FeedTypeOK
<1>4. FeedTypeOK'
  <2>1. reports' \in Seq(Partial)
    BY <1>1, QueueFacts
  <2>2. reported' \in State
    BY <1>1, <1>2, NewestFacts
  <2>3. attributes' \in [Locations -> [Fields -> Nat \cup {Missing}]]
    BY <1>1, <1>2, UpdateFacts
  <2>4. cache' \in Partial
    BY <1>1, <1>2, MergeFacts
  <2> QED BY <1>1, <1>3, <2>1, <2>2, <2>3, <2>4 DEF FeedTypeOK, requests
<1>5. /\ Settled'
      /\ \A l \in Locations, f \in Fields, i \in 1..Len(reports') :
           Says(reports'[i], l, f) => reports'[i][l][f] <= truth'[l][f]
  BY <1>1, QueueKeeps DEF report
<1>6. \A l \in Locations, f \in Fields :
        /\ attributes'[l][f] = IF Says(report, l, f) THEN report[l][f] ELSE attributes[l][f]
        /\ reported'[l][f] = IF Says(report, l, f) THEN report[l][f] ELSE reported[l][f]
        /\ Cached(l, f)' =>
             IF Says(report, l, f)
             THEN cache'[l][f] = report[l][f]
             ELSE Cached(l, f) /\ cache'[l][f] = cache[l][f]
  <2>1. ASSUME NEW l \in Locations, NEW f \in Fields, Cached(l, f)'
        PROVE  Says(cache', l, f)
    BY <2>1 DEF Cached, Says
  <2>2. \A l, f : Says(cache', l, f) =>
          IF Says(report, l, f)
          THEN cache'[l][f] = report[l][f]
          ELSE Cached(l, f) /\ cache'[l][f] = cache[l][f]
    BY <1>1, <1>2, MergeFacts
  <2> QED BY <1>1, <1>2, <2>1, <2>2, NewestFacts, UpdateFacts
<1>7. Below'
  BY <1>1, <1>2, <1>5, <1>6 DEF Below, requests
<1>8. NotBehind'
  <2>1. ASSUME NEW l \in Locations, NEW f \in Fields,
               attributes'[l][f] # Missing, <<l, f>> \notin late'["device"]
        PROVE  reported'[l][f] <= attributes'[l][f]
    <3>1. CASE Says(report, l, f)
      BY <1>2, <1>6, <3>1
    <3>2. CASE ~Says(report, l, f)
      BY <1>3, <1>6, <2>1, <3>2 DEF NotBehind
    <3> QED BY <3>1, <3>2
  <2>2. ASSUME NEW l \in Locations, NEW f \in Fields,
               Cached(l, f)', <<l, f>> \notin late'["cache"]
        PROVE  reported'[l][f] <= cache'[l][f]
    <3>1. CASE Says(report, l, f)
      BY <1>2, <1>6, <2>2, <3>1
    <3>2. CASE ~Says(report, l, f)
      BY <1>3, <1>6, <2>2, <3>2 DEF NotBehind
    <3> QED BY <3>1, <3>2
  <2> QED BY <2>1, <2>2 DEF NotBehind
<1> QED BY <1>4, <1>5, <1>7, <1>8

\* Asking changes nothing that is shown, an answer has the state of its moment.
LEMMA RequestKeeps ==
  ASSUME IInv, NEW c \in Caller, Ask(c) \/ Answer(c) \/ GetFails(c)
  PROVE  IInv'
<1> USE DEF IInv
<1>1. /\ UNCHANGED <<lg, views, feed_ghosts>>
      /\ gets' \in Nat
      /\ asked' \subseteq Caller
      /\ answer' = answer \/ answer' = [answer EXCEPT ![c] = truth]
                         \/ answer' = [answer EXCEPT ![c] = Empty]
  BY DEF Ask, Answer, GetFails, FeedTypeOK
<1>2. FeedTypeOK'
  BY <1>1 DEF FeedTypeOK, lg, views, feed_ghosts
<1>3. Settled' /\ NotBehind'
  BY <1>1 DEF Settled, NotBehind, Cached, lg, views, feed_ghosts
<1>4. \A l \in Locations, f \in Fields, d \in Caller :
        answer'[d] \notin {Missing, Empty} => answer'[d][l][f] <= truth[l][f]
  <2>1. \A l \in Locations, f \in Fields : truth[l][f] \in Nat
    BY DEF FeedTypeOK, State
  <2>2. ASSUME NEW d \in Caller
        PROVE  answer'[d] = answer[d] \/ answer'[d] = truth \/ answer'[d] = Empty
    BY <1>1 DEF FeedTypeOK
  <2> QED BY <2>1, <2>2 DEF Below
<1>5. Below'
  BY <1>1, <1>4 DEF Below, Cached, lg, views
<1> QED BY <1>2, <1>3, <1>5

\* An answer is late for what has been reported since it left LG, no more.
LEMMA GetDoneKeeps ==
  ASSUME IInv, NEW c \in Caller, GetDone(c)
  PROVE  IInv'
<1> USE DEF IInv
<1>1. /\ answer[c] # Missing
      /\ cache' = Kept(answer[c])
      /\ answer' = [answer EXCEPT ![c] = Missing]
      /\ UNCHANGED <<lg, asked, gets, reported>>
  BY DEF GetDone
<1>2. /\ answer' \in [Caller -> State \cup {Missing, Empty}]
      /\ \A d \in Caller : answer'[d] # Missing => answer'[d] = answer[d]
  BY <1>1 DEF FeedTypeOK
<1>3. Settled'
  BY <1>1 DEF Settled, lg
<1>4. \A l \in Locations, f \in Fields : reported[l][f] \in Nat
  BY DEF FeedTypeOK, State
<1>5. CASE answer[c] = Empty
  <2>1. cache' = Missing /\ UNCHANGED <<attributes, late>>
    BY <1>1, <1>5 DEF GetDone, Kept
  <2>2. FeedTypeOK'
    BY <1>1, <1>2, <2>1 DEF FeedTypeOK, lg
  <2>3. Below' /\ NotBehind'
    BY <1>1, <1>2, <2>1 DEF Below, NotBehind, Cached, lg
  <2> QED BY <1>3, <2>2, <2>3
<1>6. CASE answer[c] # Empty
  <2> DEFINE state == answer[c]
             over == Overtaken(state)
  <2>1. /\ state \in State
        /\ \A l \in Locations, f \in Fields :
             state[l][f] \in Nat /\ state[l][f] <= truth[l][f]
    BY <1>1, <1>6 DEF FeedTypeOK, State, Below
  <2>2. /\ over \subseteq Locations \X Fields
        /\ \A l \in Locations, f \in Fields :
             <<l, f>> \in over <=> state[l][f] < reported[l][f]
    BY DEF Overtaken
  <2>3. cache' = state
    BY <1>1, <1>6 DEF Kept
  <2>4. \/ /\ late' = [late EXCEPT !.cache = over]
           /\ attributes' = attributes
        \/ /\ late' = [v \in DOMAIN late |-> over]
           /\ attributes' = state
    BY <1>6 DEF GetDone
  <2> HIDE DEF state, over
  <2>5. /\ late' \in [{"device", "cache"} -> SUBSET (Locations \X Fields)]
        /\ late'["cache"] = over
        /\ \/ late'["device"] = late["device"] /\ attributes' = attributes
           \/ late'["device"] = over /\ attributes' = state
    BY <2>2, <2>4 DEF FeedTypeOK
  <2>6. FeedTypeOK'
    <3>1. attributes' \in [Locations -> [Fields -> Nat \cup {Missing}]]
      BY <2>1, <2>5 DEF FeedTypeOK, State
    <3>2. cache' \in Partial
      BY <2>1, <2>3, StateIsPartial
    <3> QED BY <1>1, <1>2, <2>5, <3>1, <3>2 DEF FeedTypeOK, lg
  <2>7. Below'
    BY <1>1, <1>2, <2>1, <2>3, <2>5 DEF Below, Cached, lg
  <2>8. NotBehind'
    <3>1. \A l \in Locations, f \in Fields :
            <<l, f>> \notin over => reported[l][f] <= state[l][f]
      BY <1>4, <2>1, <2>2
    <3>2. reported' = reported
      BY <1>1
    <3> QED BY <2>3, <2>5, <3>1, <3>2 DEF NotBehind
  <2> QED BY <1>3, <2>6, <2>7, <2>8
<1> QED BY <1>5, <1>6

\* Every step keeps the invariant.
LEMMA Inductive == IInv /\ [FeedNext]_feed_vars => IInv'
<1> SUFFICES ASSUME IInv, [FeedNext]_feed_vars PROVE IInv'
  OBVIOUS
<1>1. CASE Change
  BY <1>1, ChangeKeeps
<1>2. CASE LoseReport
  BY <1>2, LoseReportKeeps
<1>3. CASE HandleReport
  BY <1>3, HandleReportKeeps
<1>4. ASSUME NEW c \in Caller, Ask(c) \/ Answer(c) \/ GetFails(c)
      PROVE  IInv'
  BY <1>4, RequestKeeps
<1>5. ASSUME NEW c \in Caller, GetDone(c)
      PROVE  IInv'
  BY <1>5, GetDoneKeeps
<1>6. CASE UNCHANGED feed_vars
  BY <1>6 DEF IInv, FeedTypeOK, Settled, Below, NotBehind, Cached, feed_vars, lg, requests,
              views, feed_ghosts
<1> QED BY <1>1, <1>2, <1>3, <1>4, <1>5, <1>6 DEF FeedNext

\* The first states satisfy the invariant.
LEMMA InitHolds == FeedInit => IInv
<1> SUFFICES ASSUME FeedInit PROVE IInv
  OBVIOUS
<1>1. \A l \in Locations, f \in Fields :
        truth[l][f] = 0 /\ reported[l][f] = 0 /\ attributes[l][f] = Missing
  BY DEF FeedInit, NoFields
<1>2. truth \in State /\ reported \in State
  BY DEF FeedInit, State
<1>3. attributes \in [Locations -> [Fields -> Nat \cup {Missing}]]
  BY DEF FeedInit, NoFields
<1>4. FeedTypeOK
  BY <1>2, <1>3 DEF FeedInit, FeedTypeOK, Caller
<1>5. reports = <<>> /\ Len(reports) = 0 /\ cache = Missing
      /\ \A c \in Caller : answer[c] = Missing
  BY DEF FeedInit
<1>6. Settled
  BY <1>1, <1>5 DEF Settled
<1>7. Below /\ NotBehind
  BY <1>1, <1>5 DEF Below, NotBehind, Cached
<1> QED BY <1>4, <1>6, <1>7 DEF IInv

-----------------------------------------------------------------------------
(***************************************************************************)
(* The theorems.                                                           *)
(***************************************************************************)
\* The invariant holds in every state.
LEMMA InvariantHolds == FeedSpec => []IInv
BY InitHolds, Inductive, PTL DEF FeedSpec

\* The variables keep their types: reports only hold known locations and fields,
\* and so does the cache, which a report without a cached state becomes.
THEOREM TypeCorrect == FeedSpec => []FeedTypeOK
<1>1. IInv => FeedTypeOK
  BY DEF IInv
<1> QED BY <1>1, InvariantHolds, PTL

\* In every queue and every state that is quiet, the reports have all arrived.
LEMMA QuietFacts ==
  ASSUME IInv, Quiet
  PROVE  \A l \in Locations, f \in Fields :
           reported[l][f] = truth[l][f] /\ truth[l][f] \in Nat
<1>1. Len(reports) = 0
  BY DEF Quiet
<1> QED BY <1>1 DEF IInv, Settled, FeedTypeOK, State

\* Once everything has arrived, the entities show the appliance's state, however
\* reports and the answers of GETs were interleaved.
THEOREM DeviceIsCurrent == FeedSpec => []DeviceCurrent
<1>1. ASSUME IInv PROVE DeviceCurrent
  <2>1. ASSUME Quiet, NEW l \in Locations, NEW f \in Fields,
               attributes[l][f] # Missing, <<l, f>> \notin late["device"]
        PROVE  attributes[l][f] = truth[l][f]
    <3>1. reported[l][f] <= attributes[l][f] /\ attributes[l][f] <= truth[l][f]
      BY <1>1, <2>1 DEF IInv, Below, NotBehind
    <3>2. attributes[l][f] \in Nat
      BY <1>1, <2>1 DEF IInv, FeedTypeOK
    <3> QED BY <1>1, <2>1, <3>1, <3>2, QuietFacts
  <2> QED BY <2>1 DEF DeviceCurrent
<1> QED BY <1>1, InvariantHolds, PTL

\* The same of the raw cache, which diagnostics and command outcomes read.
THEOREM CacheIsCurrent == FeedSpec => []CacheCurrent
<1>1. ASSUME IInv PROVE CacheCurrent
  <2>1. ASSUME Quiet, NEW l \in Locations, NEW f \in Fields,
               Cached(l, f), <<l, f>> \notin late["cache"]
        PROVE  cache[l][f] = truth[l][f]
    <3>1. reported[l][f] <= cache[l][f] /\ cache[l][f] <= truth[l][f]
      BY <1>1, <2>1 DEF IInv, Below, NotBehind
    <3>2. cache[l][f] \in Nat
      BY <1>1, <2>1, TaggedFacts DEF IInv, FeedTypeOK, Cached, Says
    <3> QED BY <1>1, <2>1, <3>1, <3>2, QuietFacts
  <2> QED BY <2>1 DEF CacheCurrent
<1> QED BY <1>1, InvariantHolds, PTL

\* What one step may do to a field the views agree on.
LEMMA StepKeepsAgreement ==
  ASSUME FeedTypeOK, [FeedNext]_feed_vars, NEW l \in Locations, NEW f \in Fields,
         Parted(l, f)', ~Parted(l, f)
  PROVE  answer'["start_laundry_mode"] # answer["start_laundry_mode"]
<1>1. CASE UNCHANGED views
  BY <1>1 DEF Parted, Cached, views
<1>2. CASE HandleReport
  <2> DEFINE report == Head(reports)
  <2>1. /\ cache' = MergeReport(report)
        /\ attributes' = UpdateStatus(report)
        /\ report \in Partial
    BY <1>2, QueueFacts DEF HandleReport
  <2> HIDE DEF report
  <2>2. Cached(l, f)' /\ Says(cache', l, f)
    BY DEF Parted, Cached, Says
  <2>3. attributes'[l][f] = IF Says(report, l, f) THEN report[l][f] ELSE attributes[l][f]
    BY <2>1, UpdateFacts
  <2>4. IF Says(report, l, f)
        THEN cache'[l][f] = report[l][f]
        ELSE Cached(l, f) /\ cache'[l][f] = cache[l][f]
    BY <2>1, <2>2, MergeFacts
  <2> QED BY <2>3, <2>4 DEF Parted
<1>3. ASSUME NEW c \in Caller, GetDone(c)
      PROVE  answer'["start_laundry_mode"] # answer["start_laundry_mode"]
  <2>1. answer[c] # Missing /\ cache' = Kept(answer[c]) /\ answer' = [answer EXCEPT ![c] = Missing]
    BY <1>3 DEF GetDone
  <2>2. CASE c = "start_laundry_mode"
    BY <2>1, <2>2 DEF FeedTypeOK
  <2>3. CASE c # "start_laundry_mode"
    <3>1. answer[c] # Empty
      BY <2>1 DEF Kept, Parted, Cached
    <3>2. attributes' = answer[c] /\ cache' = answer[c]
      BY <1>3, <2>1, <2>3, <3>1 DEF GetDone, Kept
    <3> QED BY <3>2 DEF Parted
  <2> QED BY <2>2, <2>3
<1>4. CASE FeedNext
  <2>1. \/ HandleReport
        \/ \E c \in Caller : GetDone(c)
        \/ UNCHANGED views
    BY <1>4 DEF FeedNext, Change, LoseReport, Ask, Answer, GetFails
  <2> QED BY <1>1, <1>2, <1>3, <2>1
<1> QED BY <1>1, <1>4 DEF feed_vars

\* Diagnostics and entities say the same of every field, until the service that
\* only looks at its answer replaces the cache.
THEOREM ViewsPartOnlyThere == FeedSpec => ViewsAgree
<1>1. FeedTypeOK /\ [FeedNext]_feed_vars => [ViewsAgreeStep]_feed_vars
  BY StepKeepsAgreement DEF ViewsAgreeStep
<1> QED BY <1>1, TypeCorrect, PTL DEF FeedSpec, ViewsAgree
=============================================================================
