------------------------ MODULE CommandOutcomeProofs ------------------------
(***************************************************************************)
(* Proofs about CommandOutcome for any commands and values, overlapping or *)
(* not: no record is left waiting for nothing, and the events of each      *)
(* command come in order.                                                  *)
(***************************************************************************)
EXTENDS CommandOutcome, TLAPS

Records == [status : Statuses, of : Commands, payload : Values \cup {None}]

\* What the coroutines have told of each command so far: the record's status,
\* while it is pending, is the last event of its command.
Told ==
  /\ \A c \in Commands : /\ posts[c] = "idle" => last[c] = "none"
                         /\ posts[c] = "waiting" => last[c] = "sending"
  /\ command.status \in {"sending", "accepted"} => last[command.of] = command.status

IInv == TypeOK /\ OutcomePending /\ Told

-----------------------------------------------------------------------------
\* An event replaces the record and the last event of its command only.
LEMMA EmitTypes ==
  ASSUME TypeOK, NEW record \in Records, Emit(record)
  PROVE  /\ command' = record
         /\ last' \in [Commands -> Statuses \cup {"none"}]
         /\ last'[record.of] = record.status
         /\ \A c \in Commands : c # record.of => last'[c] = last[c]
  BY DEF TypeOK, Emit, Records

\* A record that is pending, or any but the empty one, tells of a command.
LEMMA RecordTypes ==
  ASSUME TypeOK, command.status # "none"
  PROVE  /\ command \in Records
         /\ command.of \in Commands
         /\ \A status \in Statuses :
              /\ [command EXCEPT !.status = status] \in Records
              /\ [command EXCEPT !.status = status].status = status
              /\ [command EXCEPT !.status = status].of = command.of
<1>1. command \in Records
  BY DEF TypeOK, Records, NoCommand
<1> QED
  BY <1>1 DEF Records

\* A record just made tells of the command it was made for.
LEMMA NewRecord ==
  ASSUME NEW c \in Commands, NEW status \in Statuses,
         NEW value \in Values \cup {None}
  PROVE  /\ [status |-> status, of |-> c, payload |-> value] \in Records
         /\ [status |-> status, of |-> c, payload |-> value].of = c
         /\ [status |-> status, of |-> c, payload |-> value].status = status
  BY DEF Records

\* What load makes of a stored record is a record that waits for nothing.
LEMMA LoadTypes ==
  ASSUME TypeOK
  PROVE  /\ Load \in Records \cup {NoCommand}
         /\ Load.status \notin {"sending", "accepted"}
<1>1. CASE saved = NoCommand
  BY <1>1 DEF Load, NoCommand
<1>2. CASE saved \in Records
  <2>1. CASE saved.status \in {"sending", "accepted"}
    BY <1>2, <2>1 DEF Load, Records, Statuses
  <2>2. CASE saved.status \notin {"sending", "accepted"}
    BY <1>2, <2>2 DEF Load
  <2> QED
    BY <2>1, <2>2
<1> QED
  BY <1>1, <1>2 DEF TypeOK, Records

\* A reading of the moment.
LEMMA ReadingTypes ==
  ASSUME NEW value \in Values
  PROVE  Reading(value) \in Readings
  BY DEF Reading, Readings

\* The counters keep their type.
LEMMA CountedTypes ==
  ASSUME TypeOK, NEW what \in {"presses", "fetches", "restarts"}, NEW limit,
         Counted(what, limit)
  PROVE  counts' \in [{"presses", "fetches", "restarts"} -> Nat]
  BY DEF TypeOK, Counted

-----------------------------------------------------------------------------
\* The types of the environment's variables, which the record never touches.
EnvTypes ==
  /\ applied \subseteq Commands
  /\ device \in Values
  /\ reports \in Seq(Readings)
  /\ fetched \in Readings \cup {None}

\* The types of the coroutines' variables.
OwnTypes ==
  /\ posts \in [Commands -> {"idle", "waiting", "over"}]
  /\ payload \in [Commands -> Values \cup {None}]
  /\ command \in Records \cup {NoCommand}
  /\ saved \in Records \cup {NoCommand}
  /\ confirm_cancel \in BOOLEAN
  /\ last \in [Commands -> Statuses \cup {"none"}]
  /\ counts \in [{"presses", "fetches", "restarts"} -> Nat]

\* The two halves make the type invariant.
LEMMA SplitTypes == TypeOK <=> EnvTypes /\ OwnTypes
  BY DEF TypeOK, EnvTypes, OwnTypes, Records

\* The invariant holds initially.
LEMMA InitInvariant == Init => IInv
<1> SUFFICES ASSUME Init PROVE IInv
  OBVIOUS
<1>1. EnvTypes
  BY DEF Init, EnvTypes
<1>2. OwnTypes
  <2>1. confirm_cancel \in BOOLEAN
    BY Zenon DEF Init
  <2>2. counts \in [{"presses", "fetches", "restarts"} -> Nat]
    BY DEF Init
  <2> QED
    BY <2>1, <2>2 DEF Init, OwnTypes
<1>3. OutcomePending
  BY DEF Init, OutcomePending, NoCommand
<1>4. Told
  BY DEF Init, Told, NoCommand
<1> QED
  BY <1>1, <1>2, <1>3, <1>4, SplitTypes DEF IInv

\* What a command tells leaves every record answered for: the effect of
\* on_command on the record, the timer and the events.
LEMMA OnCommandInvariant ==
  ASSUME IInv, NEW c \in Commands, NEW status \in {"sending", "accepted", "failed"},
         NEW value \in Values \cup {None}, OnCommand(c, status, value),
         NEW label \in {"waiting", "over"}, posts' = [posts EXCEPT ![c] = label],
         status = "sending" <=> label = "waiting"
  PROVE  /\ command' \in Records /\ confirm_cancel' \in BOOLEAN
         /\ last' \in [Commands -> Statuses \cup {"none"}]
         /\ posts' \in [Commands -> {"idle", "waiting", "over"}]
         /\ OutcomePending' /\ Told'
<1> DEFINE record == [status |-> status, of |-> c, payload |-> value]
<1>1. /\ record \in Records
      /\ record.of = c
      /\ record.status = status
  BY NewRecord DEF Statuses
<1>2. Emit(record) /\ confirm_cancel' = (status = "accepted")
  BY DEF OnCommand
<1>3. TypeOK
  BY DEF IInv
<1>4. /\ command' = record
      /\ last' \in [Commands -> Statuses \cup {"none"}]
      /\ last'[c] = status
      /\ \A d \in Commands : d # c => last'[d] = last[d]
  BY <1>1, <1>2, <1>3, EmitTypes
<1>5. /\ posts' \in [Commands -> {"idle", "waiting", "over"}]
      /\ posts'[c] = label
      /\ \A d \in Commands : d # c => posts'[d] = posts[d]
  BY <1>3 DEF TypeOK
<1>6. command'.of = c /\ command'.status = status
  BY <1>1, <1>4
<1> HIDE DEF record
<1>7. OutcomePending'
  <2>1. command'.status = "accepted" <=> confirm_cancel'
    BY <1>2, <1>6
  <2>2. command'.status = "sending" => posts'[command'.of] = "waiting"
    BY <1>5, <1>6
  <2> QED
    BY <2>1, <2>2 DEF OutcomePending
<1>8. Told'
  BY <1>4, <1>5, <1>6 DEF Told, IInv
<1>9. command' \in Records /\ confirm_cancel' \in BOOLEAN
  BY <1>1, <1>2, <1>4, Zenon
<1> QED
  BY <1>4, <1>5, <1>7, <1>8, <1>9

\* The effect of giving up or confirming a command that was accepted.
LEMMA ResolveInvariant ==
  ASSUME IInv, command.status = "accepted",
         NEW status \in {"state_confirmed", "accepted_unconfirmed"},
         Emit([command EXCEPT !.status = status]), confirm_cancel' = FALSE,
         posts' = posts
  PROVE  /\ command' \in Records /\ confirm_cancel' \in BOOLEAN
         /\ last' \in [Commands -> Statuses \cup {"none"}]
         /\ OutcomePending' /\ Told'
<1> DEFINE record == [command EXCEPT !.status = status]
<1>1. TypeOK
  BY DEF IInv
<1>2. /\ record \in Records
      /\ record.status = status
      /\ record.of = command.of
      /\ command.of \in Commands
  BY <1>1, RecordTypes DEF Statuses
<1>3. /\ command' = record
      /\ last' \in [Commands -> Statuses \cup {"none"}]
      /\ \A c \in Commands : c # command.of => last'[c] = last[c]
  BY <1>1, <1>2, EmitTypes
<1> HIDE DEF record
<1>4. posts[command.of] \notin {"idle", "waiting"}
  BY <1>2 DEF IInv, Told
<1>5. OutcomePending'
  BY <1>2, <1>3 DEF OutcomePending
<1>6. Told'
  BY <1>2, <1>3, <1>4 DEF IInv, Told
<1>7. command' \in Records /\ confirm_cancel' \in BOOLEAN
  BY <1>2, <1>3, Zenon
<1> QED
  BY <1>3, <1>5, <1>6, <1>7

\* The effect of a reading.
LEMMA ObserveInvariant ==
  ASSUME IInv, NEW value, Observe(value), posts' = posts
  PROVE  /\ command' \in Records \cup {NoCommand} /\ confirm_cancel' \in BOOLEAN
         /\ last' \in [Commands -> Statuses \cup {"none"}]
         /\ OutcomePending' /\ Told'
<1>1. CASE command.status = "accepted" /\ command.payload = value
  BY <1>1, ResolveInvariant DEF Observe
<1>2. CASE ~(command.status = "accepted" /\ command.payload = value)
  <2>1. UNCHANGED <<command, confirm_cancel, last, posts>>
    BY <1>2 DEF Observe
  <2>2. OwnTypes /\ OutcomePending /\ Told
    BY SplitTypes DEF IInv
  <2>3. OutcomePending' /\ Told'
    BY <2>1, <2>2 DEF OutcomePending, Told
  <2> QED
    BY <2>1, <2>2, <2>3 DEF OwnTypes
<1> QED
  BY <1>1, <1>2

-----------------------------------------------------------------------------
\* Steps of the appliance leave the record alone, and it keeps its invariant.
LEMMA AsideInvariant ==
  ASSUME IInv, UNCHANGED <<posts, command, confirm_cancel, last>>
  PROVE  OutcomePending' /\ Told'
  BY DEF IInv, OutcomePending, Told

\* Every step keeps the invariant: the steps that touch the record by the
\* lemmas above, the others because they leave it alone.
LEMMA StepInvariant == IInv /\ [Next]_vars => IInv'
<1> SUFFICES ASSUME IInv, [Next]_vars PROVE IInv'
  OBVIOUS
<1>0. TypeOK /\ EnvTypes /\ OwnTypes
  BY SplitTypes DEF IInv
<1>q. EnvTypes' /\ OwnTypes' /\ OutcomePending' /\ Told' => IInv'
  BY DEF IInv, TypeOK, EnvTypes, OwnTypes, Records
<1>1. ASSUME NEW c \in Commands, Send(c) PROVE IInv'
  <2>1. PICK value \in Values \cup {None} :
          payload' = [payload EXCEPT ![c] = value] /\ OnCommand(c, "sending", value)
    BY <1>1 DEF Send
  <2>2. posts' = [posts EXCEPT ![c] = "waiting"]
    BY <1>1 DEF Send
  <2>3. /\ command' \in Records /\ confirm_cancel' \in BOOLEAN
        /\ last' \in [Commands -> Statuses \cup {"none"}]
        /\ posts' \in [Commands -> {"idle", "waiting", "over"}]
        /\ OutcomePending' /\ Told'
    BY <2>1, <2>2, OnCommandInvariant
  <2>4. payload' \in [Commands -> Values \cup {None}]
    BY <1>0, <2>1 DEF OwnTypes
  <2>5. EnvTypes'
    BY <1>0, <1>1 DEF Send, appliance, EnvTypes
  <2>6. UNCHANGED <<saved, counts>>
    BY <1>1 DEF Send
  <2> QED
    BY <1>0, <1>q, <2>3, <2>4, <2>5, <2>6 DEF OwnTypes
<1>2. ASSUME NEW c \in Commands, Answer(c) PROVE IInv'
  <2>1. PICK status \in {"accepted", "failed"} : OnCommand(c, status, payload[c])
    BY <1>2 DEF Answer
  <2>2. posts' = [posts EXCEPT ![c] = "over"] /\ payload[c] \in Values \cup {None}
    BY <1>0, <1>2 DEF Answer, OwnTypes
  <2>3. /\ command' \in Records /\ confirm_cancel' \in BOOLEAN
        /\ last' \in [Commands -> Statuses \cup {"none"}]
        /\ posts' \in [Commands -> {"idle", "waiting", "over"}]
        /\ OutcomePending' /\ Told'
    BY <2>1, <2>2, OnCommandInvariant
  <2>4. EnvTypes'
    BY <1>0, <1>2 DEF Answer, appliance, EnvTypes
  <2>5. UNCHANGED <<payload, saved, counts>>
    BY <1>2 DEF Answer
  <2> QED
    BY <1>0, <1>q, <2>3, <2>4, <2>5 DEF OwnTypes
<1>3. ASSUME NEW c \in Commands, Apply(c) PROVE IInv'
  <2>1. UNCHANGED <<posts, payload, fetched, command, confirm_cancel, saved, last, counts>>
    BY <1>3 DEF Apply
  <2>2. applied' \subseteq Commands
    BY <1>0, <1>3 DEF Apply, EnvTypes
  <2>3. /\ device' \in Values
        /\ reports' \in Seq(Readings)
    <3>1. CASE payload[c] = None
      BY <1>0, <1>3, <3>1 DEF Apply, EnvTypes
    <3>2. CASE payload[c] # None
      <4>1. payload[c] \in Values /\ Changes(payload[c])
        BY <1>0, <1>3, <3>2 DEF Apply, OwnTypes
      <4> QED
        BY <1>0, <4>1, ReadingTypes DEF Changes, EnvTypes
    <3> QED
      BY <3>1, <3>2
  <2>4. OutcomePending' /\ Told'
    BY <2>1, AsideInvariant
  <2> QED
    BY <1>0, <1>q, <2>1, <2>2, <2>3, <2>4 DEF EnvTypes, OwnTypes
<1>4. CASE Unconfirmed
  <2>1. command.status = "accepted"
    BY <1>4 DEF Unconfirmed, IInv, OutcomePending
  <2>2. /\ Emit([command EXCEPT !.status = "accepted_unconfirmed"])
        /\ confirm_cancel' = FALSE
        /\ posts' = posts
    BY <1>4, <2>1 DEF Unconfirmed
  <2>3. /\ command' \in Records /\ confirm_cancel' \in BOOLEAN
        /\ last' \in [Commands -> Statuses \cup {"none"}]
        /\ OutcomePending' /\ Told'
    BY <2>1, <2>2, ResolveInvariant
  <2>4. EnvTypes'
    BY <1>0, <1>4 DEF Unconfirmed, appliance, EnvTypes
  <2>5. UNCHANGED <<posts, payload, saved, counts>>
    BY <1>4 DEF Unconfirmed
  <2> QED
    BY <1>0, <1>q, <2>3, <2>4, <2>5 DEF OwnTypes
<1>5. CASE Press
  <2>1. PICK value \in Values : Changes(value)
    BY <1>5 DEF Press
  <2>2. UNCHANGED <<posts, payload, applied, fetched, command, confirm_cancel, saved, last>>
    BY <1>5 DEF Press
  <2>3. counts' \in [{"presses", "fetches", "restarts"} -> Nat]
    BY <1>0, <1>5, CountedTypes DEF Press
  <2>4. OutcomePending' /\ Told'
    BY <2>2, AsideInvariant
  <2>5. EnvTypes'
    BY <1>0, <2>1, <2>2, ReadingTypes DEF Changes, EnvTypes
  <2> QED
    BY <1>0, <1>q, <2>2, <2>3, <2>4, <2>5 DEF OwnTypes
<1>6. CASE Fetch
  <2>1. UNCHANGED <<posts, payload, appliance, command, confirm_cancel, saved, last>>
    BY <1>6 DEF Fetch
  <2>2. fetched' \in Readings
    BY <1>0, <1>6, ReadingTypes DEF Fetch, EnvTypes
  <2>3. counts' \in [{"presses", "fetches", "restarts"} -> Nat]
    BY <1>0, <1>6, CountedTypes DEF Fetch
  <2>4. OutcomePending' /\ Told'
    BY <2>1, AsideInvariant
  <2> QED
    BY <1>0, <1>q, <2>1, <2>2, <2>3, <2>4 DEF appliance, EnvTypes, OwnTypes
<1>7. CASE HandleReport
  <2>1. Observe(Head(reports).value) /\ posts' = posts
    BY <1>7 DEF HandleReport
  <2>2. /\ command' \in Records \cup {NoCommand} /\ confirm_cancel' \in BOOLEAN
        /\ last' \in [Commands -> Statuses \cup {"none"}]
        /\ OutcomePending' /\ Told'
    BY <2>1, ObserveInvariant
  <2>3. EnvTypes'
    BY <1>0, <1>7 DEF HandleReport, EnvTypes
  <2>4. UNCHANGED <<posts, payload, saved, counts>>
    BY <1>7 DEF HandleReport
  <2> QED
    BY <1>0, <1>q, <2>2, <2>3, <2>4 DEF OwnTypes
<1>8. CASE FetchDone
  <2>1. UNCHANGED <<posts, payload, saved, counts>>
    BY <1>8 DEF FetchDone
  <2>2. EnvTypes'
    BY <1>0, <1>8 DEF FetchDone, appliance, EnvTypes
  <2>3. CASE Observe(fetched.value)
    <3>1. /\ command' \in Records \cup {NoCommand} /\ confirm_cancel' \in BOOLEAN
          /\ last' \in [Commands -> Statuses \cup {"none"}]
          /\ OutcomePending' /\ Told'
      BY <2>1, <2>3, ObserveInvariant
    <3> QED
      BY <1>0, <1>q, <2>1, <2>2, <3>1 DEF OwnTypes
  <2>4. CASE UNCHANGED <<command, confirm_cancel, last>>
    <3>1. OutcomePending' /\ Told'
      BY <2>1, <2>4, AsideInvariant
    <3> QED
      BY <1>0, <1>q, <2>1, <2>2, <2>4, <3>1 DEF OwnTypes
  <2> QED
    BY <1>8, <2>3, <2>4 DEF FetchDone
<1>9. CASE Save
  <2>1. saved' = command /\ UNCHANGED <<posts, payload, appliance, fetched, command,
                                        confirm_cancel, last, counts>>
    BY <1>9 DEF Save
  <2>2. OutcomePending' /\ Told'
    BY <2>1, AsideInvariant
  <2> QED
    BY <1>0, <1>q, <2>1, <2>2 DEF appliance, EnvTypes, OwnTypes
<1>10. CASE Restart
  <2>1. /\ command' = Load
        /\ confirm_cancel' = FALSE
        /\ posts' = [c \in Commands |-> IF posts[c] = "waiting" THEN "over" ELSE posts[c]]
        /\ UNCHANGED <<payload, applied, device, saved, last>>
        /\ fetched' = None /\ reports' = <<>>
    BY <1>10 DEF Restart
  <2>2. /\ command' \in Records \cup {NoCommand}
        /\ command'.status \notin {"sending", "accepted"}
    BY <1>0, <2>1, LoadTypes
  <2>3. counts' \in [{"presses", "fetches", "restarts"} -> Nat]
    BY <1>0, <1>10, CountedTypes DEF Restart
  <2>4. confirm_cancel' \in BOOLEAN
    BY <2>1, Zenon
  <2>5. /\ posts' \in [Commands -> {"idle", "waiting", "over"}]
        /\ \A c \in Commands : posts'[c] # "waiting"
                              /\ (posts'[c] = "idle" => posts[c] = "idle")
    BY <1>0, <2>1 DEF OwnTypes
  <2>6. OutcomePending'
    BY <2>1, <2>2 DEF OutcomePending
  <2>7. Told'
    BY <2>1, <2>2, <2>5 DEF IInv, Told
  <2>8. EnvTypes'
    BY <1>0, <2>1 DEF EnvTypes
  <2> QED
    BY <1>0, <1>q, <2>1, <2>2, <2>3, <2>4, <2>5, <2>6, <2>7, <2>8 DEF OwnTypes
<1>11. CASE UNCHANGED vars
  <2>1. OutcomePending' /\ Told'
    BY <1>11, AsideInvariant DEF vars
  <2> QED
    BY <1>0, <1>q, <1>11, <2>1 DEF vars, appliance, EnvTypes, OwnTypes
<1> QED
  BY <1>1, <1>2, <1>3, <1>4, <1>5, <1>6, <1>7, <1>8, <1>9, <1>10, <1>11 DEF Next

\* The types, the pending outcomes and what has been told of each command hold
\* in every reachable state.
THEOREM Invariance == Spec => []IInv
  BY InitInvariant, StepInvariant, PTL DEF Spec

\* Type correctness.
THEOREM TypeCorrect == Spec => []TypeOK
<1>1. IInv => TypeOK
  BY DEF IInv
<1> QED
  BY <1>1, Invariance, PTL

\* An accepted command always has its timer and a command being sent its
\* coroutine, so that no record waits for something that will not come.
THEOREM OutcomesArePending == Spec => []OutcomePending
<1>1. IInv => OutcomePending
  BY DEF IInv
<1> QED
  BY <1>1, Invariance, PTL

-----------------------------------------------------------------------------
(***************************************************************************)
(* The events refine CommandEvents.                                        *)
(***************************************************************************)
\* An event that follows the last one of its command is a step of CommandEvents.
LEMMA EmitRefines ==
  ASSUME NEW record \in Records, Emit(record),
         Events!Follows(last[record.of], record.status)
  PROVE  Events!Next
  BY DEF Emit, Records, Events!Follows, Events!Next, Events!Event

\* A command is announced once, and answered once.
LEMMA OnCommandRefines ==
  ASSUME IInv, NEW c \in Commands, NEW status \in {"sending", "accepted", "failed"},
         NEW value \in Values \cup {None}, OnCommand(c, status, value),
         posts[c] = (IF status = "sending" THEN "idle" ELSE "waiting")
  PROVE  Events!Next
<1> DEFINE record == [status |-> status, of |-> c, payload |-> value]
<1>1. /\ record \in Records
      /\ record.of = c
      /\ record.status = status
  BY NewRecord DEF Statuses
<1>2. Emit(record)
  BY DEF OnCommand
<1>3. last[c] = (IF status = "sending" THEN "none" ELSE "sending")
  BY DEF IInv, Told
<1>4. Events!Follows(last[record.of], record.status)
  BY <1>1, <1>3 DEF Events!Follows
<1> QED
  BY <1>1, <1>2, <1>4, EmitRefines

\* Only a command that was accepted, and not resolved yet, is resolved.
LEMMA ResolveRefines ==
  ASSUME IInv, command.status = "accepted",
         NEW status \in {"state_confirmed", "accepted_unconfirmed"},
         Emit([command EXCEPT !.status = status])
  PROVE  Events!Next
<1> DEFINE record == [command EXCEPT !.status = status]
<1>1. /\ record \in Records
      /\ record.status = status
      /\ record.of = command.of
  BY RecordTypes DEF IInv, Statuses
<1>2. last[command.of] = "accepted"
  BY DEF IInv, Told
<1>3. Events!Follows(last[record.of], record.status)
  BY <1>1, <1>2 DEF Events!Follows
<1> QED
  BY <1>1, <1>3, EmitRefines

\* A reading resolves the accepted command or fires nothing.
LEMMA ObserveRefines ==
  ASSUME IInv, NEW value, Observe(value)
  PROVE  Events!Next \/ UNCHANGED last
  BY ResolveRefines DEF Observe

\* Every step of the record is a step of CommandEvents, or none.
LEMMA StepRefines == IInv /\ [Next]_vars => [Events!Next]_last
<1> SUFFICES ASSUME IInv, [Next]_vars PROVE Events!Next \/ UNCHANGED last
  OBVIOUS
<1>1. ASSUME NEW c \in Commands, Send(c) PROVE Events!Next
  BY <1>1, OnCommandRefines DEF Send
<1>2. ASSUME NEW c \in Commands, Answer(c) PROVE Events!Next
  <2>1. payload[c] \in Values \cup {None}
    BY DEF IInv, TypeOK
  <2> QED
    BY <1>2, <2>1, OnCommandRefines DEF Answer
<1>3. ASSUME NEW c \in Commands, Apply(c) PROVE UNCHANGED last
  BY <1>3 DEF Apply
<1>4. CASE Unconfirmed
  <2>1. command.status = "accepted"
    BY <1>4 DEF Unconfirmed, IInv, OutcomePending
  <2> QED
    BY <1>4, <2>1, ResolveRefines DEF Unconfirmed
<1>5. CASE HandleReport
  BY <1>5, ObserveRefines DEF HandleReport
<1>6. CASE FetchDone
  BY <1>6, ObserveRefines DEF FetchDone
<1>7. CASE Press \/ Fetch \/ Save \/ Restart \/ UNCHANGED vars
  BY <1>7 DEF Press, Fetch, Save, Restart, vars
<1> QED
  BY <1>1, <1>2, <1>3, <1>4, <1>5, <1>6, <1>7 DEF Next

\* However the commands overlap and whenever Home Assistant restarts, the events
\* of each command come in the order of CommandEvents: none is confirmed, given
\* up or answered twice, or without having been accepted or announced.  (By which
\* reading one is confirmed is another matter: see ConfirmedSubsequently.)
THEOREM EventsRefine == Spec => EventsInOrder
<1>1. Init => Events!Init
  BY DEF Init, Events!Init
<1> QED
  BY <1>1, StepRefines, Invariance, PTL DEF Spec, EventsInOrder, Events!Spec
=============================================================================
