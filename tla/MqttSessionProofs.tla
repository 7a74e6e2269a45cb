------------------------- MODULE MqttSessionProofs --------------------------
(***************************************************************************)
(* Theorems about MqttSession, for any number of Paho clients, lost        *)
(* sessions and renewals: as long as close and refresh do not overlap, an  *)
(* entry has one session, shows it truthfully, reports a connection only   *)
(* for topics of its own that were granted, and leaves nothing behind.     *)
(***************************************************************************)
EXTENDS MqttSession, FiniteSetTheorems, SequenceTheorems, TLAPS

\* The coroutine waits for its client to stop.
Stops(co) == pc[co] \in {"stopping", "aborting"}

\* close and the 12-hour refresh are not under way at once.
Serial == pc["refresh"] # "idle" => pc["close"] = "idle"

\* The coroutines take turns: set-up, then refreshes, and close at the end.
OneAtATime ==
  /\ pc["setup"] \notin {"done", "failed"} => pc["refresh"] = "idle" /\ pc["close"] = "idle"
  /\ pc["setup"] = "failed" => pc["refresh"] = "idle" /\ pc["close"] # "idle"
  /\ Serial

\* Whoever has a network thread: it is that of the client, or one being stopped.
Held ==
  /\ \A p \in Pahos : paho[p] \in Live => p = client \/ \E co \in Coroutine : stopping[co] = p
  /\ client # NoClient => paho[client] \in Live
  /\ \A co \in Coroutine :
       /\ Stops(co) => client = NoClient
       /\ stopping[co] # NoClient => Stops(co) /\ paho[stopping[co]] \in Live
       /\ pc[co] \in {"waiting", "woken"} => client # NoClient
  /\ pc["setup"] \in {"register", "certificate", "subscribe"} => client = NoClient
  /\ pc["close"] \in {"delete", "done"} => client = NoClient
  /\ pc["close"] = "done" => ~registered

\* The callbacks left are those of the client, or of the one being stopped, and
\* nothing follows the end of a stop.
Left ==
  /\ client # NoClient =>
       \A i \in 1 .. Len(queue) : queue[i][1] # "stopped" /\ queue[i][2] = client
  /\ client = NoClient /\ (\A co \in Coroutine : ~Stops(co)) => queue = <<>>
  /\ \A co \in Coroutine, i \in 1 .. Len(queue) :
       queue[i] = <<"stopped", co>> => i = Len(queue) /\ Stops(co) /\ stopping[co] = NoClient

Announced == \E p \in Pahos : paho[p] \in {"connected", "subscribed"}
Tells(c) == c[1] \in {"connected", "disconnected"}

\* The last callback to tell of the connection, or without one the sensor, says
\* whether there is a session that has been announced.
Announces ==
  /\ (\A i \in 1 .. Len(queue) : ~Tells(queue[i])) => (monitor_connected <=> Announced)
  /\ \A i \in 1 .. Len(queue) :
       Tells(queue[i]) /\ (\A j \in i + 1 .. Len(queue) : ~Tells(queue[j])) =>
         (queue[i][1] = "connected" <=> Announced)

\* The inductive invariant.
Order == OneAtATime /\ Held /\ Left /\ Announces
IInv == SessionTypeOK /\ Order

-----------------------------------------------------------------------------
(***************************************************************************)
(* Consequences of the invariant.                                          *)
(***************************************************************************)
\* One coroutine at a time waits for a stop.
LEMMA OneStops ==
  ASSUME SessionTypeOK, OneAtATime, NEW co \in Coroutine, Stops(co),
         NEW other \in Coroutine, Stops(other)
  PROVE  other = co
BY DEF SessionTypeOK, OneAtATime, Serial, Stops, Coroutine

\* One client has a network thread.
LEMMA OneLives ==
  ASSUME IInv, NEW p \in Pahos, paho[p] \in Live, NEW q \in Pahos, paho[q] \in Live
  PROVE  p = q
<1>1. CASE client # NoClient
  <2>1. \A co \in Coroutine : stopping[co] = NoClient
    BY <1>1 DEF IInv, Order, Held
  <2> QED BY <2>1, NoClientAssumption DEF IInv, Order, Held
<1>2. CASE client = NoClient
  <2>1. PICK co \in Coroutine : stopping[co] = p
    BY <1>2, NoClientAssumption DEF IInv, Order, Held
  <2>2. PICK other \in Coroutine : stopping[other] = q
    BY <1>2, NoClientAssumption DEF IInv, Order, Held
  <2>3. Stops(co) /\ Stops(other)
    BY <2>1, <2>2, NoClientAssumption DEF IInv, Order, Held
  <2> QED BY <2>1, <2>2, <2>3, OneStops DEF IInv, Order
<1> QED BY <1>1, <1>2

\* While a thread lives nobody has been told of a stop.
LEMMA NoStopTold ==
  ASSUME IInv, NEW p \in Pahos, paho[p] \in Live
  PROVE  \A i \in 1 .. Len(queue) : queue[i][1] # "stopped"
<1>1. CASE client # NoClient
  BY <1>1 DEF IInv, Order, Left
<1>2. CASE client = NoClient
  <2>1. PICK co \in Coroutine : stopping[co] = p
    BY <1>2, NoClientAssumption DEF IInv, Order, Held
  <2>2. Stops(co)
    BY <2>1, NoClientAssumption DEF IInv, Order, Held
  <2> SUFFICES ASSUME NEW i \in 1 .. Len(queue), queue[i][1] = "stopped" PROVE FALSE
    OBVIOUS
  <2>3. queue[i] \in Callback
    BY ElementOfSeq DEF IInv, SessionTypeOK
  <2>4. PICK other \in Coroutine : queue[i] = <<"stopped", other>>
    BY <2>3 DEF Callback
  <2>5. Stops(other) /\ stopping[other] = NoClient
    BY <2>4 DEF IInv, Order, Left
  <2> QED BY <2>1, <2>2, <2>5, OneStops, NoClientAssumption DEF IInv, Order
<1> QED BY <1>1, <1>2

\* What the queue looks like when the loop takes the end of a stop from it.
LEMMA StopIsLast ==
  ASSUME IInv, NEW co \in Coroutine, queue # <<>>, Head(queue) = <<"stopped", co>>
  PROVE  /\ Len(queue) = 1 /\ Tail(queue) = <<>>
         /\ Stops(co) /\ client = NoClient
         /\ \A other \in Coroutine : stopping[other] = NoClient
         /\ \A p \in Pahos : paho[p] \notin Live
         /\ ~monitor_connected
<1>1. queue \in Seq(Callback)
  BY DEF IInv, SessionTypeOK
<1>2. 1 \in 1 .. Len(queue) /\ queue[1] = <<"stopped", co>>
  BY <1>1
<1>3. Len(queue) = 1 /\ Stops(co) /\ stopping[co] = NoClient
  BY <1>2 DEF IInv, Order, Left
<1>4. Tail(queue) = <<>>
  <2>1. Tail(queue) \in Seq(Callback) /\ Len(Tail(queue)) = Len(queue) - 1
    BY <1>1, HeadTailProperties
  <2>2. \A s \in Seq(Callback) : s # <<>> => Len(s) \in Nat \ {0}
    BY EmptySeq, Zenon
  <2>3. Len(Tail(queue)) = 0
    BY <1>3, <2>1
  <2> QED BY <2>1, <2>2, <2>3, Zenon
<1>5. client = NoClient /\ \A other \in Coroutine : stopping[other] = NoClient
  BY <1>3, OneStops DEF IInv, Order, Held
<1>6. \A p \in Pahos : paho[p] \notin Live
  BY <1>5, NoClientAssumption DEF IInv, Order, Held
<1>7. ~Tells(queue[1])
  BY <1>2 DEF Tells
<1>8. ~monitor_connected
  BY <1>3, <1>6, <1>7 DEF IInv, Order, Announces, Announced, Live
<1> QED BY <1>3, <1>4, <1>5, <1>6, <1>8

-----------------------------------------------------------------------------
(***************************************************************************)
(* What appending and taking a callback do to the sensor.                  *)
(***************************************************************************)
\* Callbacks that tell nothing, while the session stays as announced as it was.
LEMMA QuietGrowth ==
  ASSUME IInv, NEW c \in Callback, ~Tells(c), queue' = Append(queue, c),
         monitor_connected' = monitor_connected, Announced' <=> Announced
  PROVE  Announces'
<1>1. queue \in Seq(Callback)
  BY DEF IInv, SessionTypeOK
<1>2. /\ Len(queue') = Len(queue) + 1 /\ Len(queue) \in Nat
      /\ queue'[Len(queue) + 1] = c
      /\ \A i \in 1 .. Len(queue) : queue'[i] = queue[i]
  BY <1>1
<1>3. (\A i \in 1 .. Len(queue') : ~Tells(queue'[i])) => (monitor_connected' <=> Announced')
  BY <1>2 DEF IInv, Order, Announces
<1>4. ASSUME NEW i \in 1 .. Len(queue'), Tells(queue'[i]),
             \A j \in i + 1 .. Len(queue') : ~Tells(queue'[j])
      PROVE  queue'[i][1] = "connected" <=> Announced'
  <2>1. i \in 1 .. Len(queue) /\ queue'[i] = queue[i]
    BY <1>2, <1>4
  <2>2. \A j \in i + 1 .. Len(queue) : ~Tells(queue[j])
    BY <1>2, <1>4, <2>1
  <2> QED BY <1>4, <2>1, <2>2 DEF IInv, Order, Announces
<1> QED BY <1>3, <1>4 DEF Announces, Tells

\* Callbacks whose last to tell says what has become of the session.
LEMMA TellingGrowth ==
  ASSUME IInv, NEW s \in Seq(Callback), queue' = queue \o s, Len(s) # 0,
         Tells(s[1]), \A i \in 2 .. Len(s) : ~Tells(s[i]),
         s[1][1] = "connected" <=> Announced'
  PROVE  Announces'
<1>1. queue \in Seq(Callback)
  BY DEF IInv, SessionTypeOK
<1>2. /\ Len(queue') = Len(queue) + Len(s) /\ Len(queue) \in Nat /\ Len(s) \in Nat
      /\ \A i \in 1 .. Len(queue') :
           queue'[i] = IF i <= Len(queue) THEN queue[i] ELSE s[i - Len(queue)]
  BY <1>1, ConcatProperties, LenProperties
<1> DEFINE k == Len(queue) + 1
<1>3. k \in 1 .. Len(queue') /\ queue'[k] = s[1] /\ Tells(queue'[k])
  BY <1>2
<1>4. \A i \in k + 1 .. Len(queue') : ~Tells(queue'[i])
  BY <1>2
<1>5. ASSUME NEW i \in 1 .. Len(queue'), Tells(queue'[i]),
             \A j \in i + 1 .. Len(queue') : ~Tells(queue'[j])
      PROVE  queue'[i][1] = "connected" <=> Announced'
  <2>1. i = k
    BY <1>2, <1>3, <1>4, <1>5
  <2> QED BY <1>3, <2>1
<1> QED BY <1>3, <1>5 DEF Announces, Tells

\* The loop takes a callback: the connection sensor follows one that tells.
LEMMA Shrinkage ==
  ASSUME IInv, queue # <<>>, queue' = Tail(queue), UNCHANGED paho,
         monitor_connected' = IF Tells(Head(queue)) THEN Head(queue)[1] = "connected"
                           ELSE monitor_connected
  PROVE  Announces'
<1>1. queue \in Seq(Callback)
  BY DEF IInv, SessionTypeOK
<1>2. /\ Len(queue) \in Nat /\ Len(queue) # 0 /\ Head(queue) = queue[1]
      /\ Len(queue') = Len(queue) - 1
      /\ \A i \in 1 .. Len(queue') : queue'[i] = queue[i + 1]
  BY <1>1, HeadTailProperties
<1>3. Announced' <=> Announced
  BY DEF Announced
<1>4. ASSUME \A i \in 1 .. Len(queue') : ~Tells(queue'[i])
      PROVE  monitor_connected' <=> Announced'
  <2>1. \A j \in 2 .. Len(queue) : ~Tells(queue[j])
    <3> SUFFICES ASSUME NEW j \in 2 .. Len(queue) PROVE ~Tells(queue[j])
      OBVIOUS
    <3>1. j - 1 \in 1 .. Len(queue') /\ queue'[j - 1] = queue[j]
      BY <1>2
    <3> QED BY <1>4, <3>1
  <2>2. CASE Tells(queue[1])
    <3>1. queue[1][1] = "connected" <=> Announced
      BY <1>2, <2>1, <2>2 DEF IInv, Order, Announces
    <3> QED BY <1>2, <1>3, <2>2, <3>1
  <2>3. CASE ~Tells(queue[1])
    <3>1. \A j \in 1 .. Len(queue) : ~Tells(queue[j])
      BY <1>2, <2>1, <2>3
    <3> QED BY <1>2, <1>3, <2>3, <3>1 DEF IInv, Order, Announces
  <2> QED BY <2>2, <2>3
<1>5. ASSUME NEW i \in 1 .. Len(queue'), Tells(queue'[i]),
             \A j \in i + 1 .. Len(queue') : ~Tells(queue'[j])
      PROVE  queue'[i][1] = "connected" <=> Announced'
  <2>1. i + 1 \in 1 .. Len(queue) /\ queue'[i] = queue[i + 1]
    BY <1>2
  <2>2. ASSUME NEW j \in (i + 1) + 1 .. Len(queue) PROVE ~Tells(queue[j])
    <3>1. j - 1 \in i + 1 .. Len(queue') /\ queue'[j - 1] = queue[j]
      BY <1>2
    <3> QED BY <1>5, <3>1
  <2> QED BY <1>3, <1>5, <2>1, <2>2 DEF IInv, Order, Announces
<1> QED BY <1>4, <1>5 DEF Announces, Tells

\* Nothing the sensor depends on changes.
LEMMA NoTelling ==
  ASSUME IInv, UNCHANGED <<queue, monitor_connected>>, Announced' <=> Announced
  PROVE  Announces'
BY DEF IInv, Order, Announces, Tells

-----------------------------------------------------------------------------
(***************************************************************************)
(* Types.                                                                  *)
(***************************************************************************)
\* Every client a step creates, and every callback, is of its type.
LEMMA LostType ==
  ASSUME NEW p \in Pahos
  PROVE  Lost(p) \in Seq(Callback) /\ Len(Lost(p)) = 2
         /\ Lost(p)[1] = <<"disconnected", p>> /\ Lost(p)[2] = <<"unready", p>>
BY DEF Lost, Callback

Label == {"idle", "register", "certificate", "subscribe", "waiting", "woken", "aborting",
          "stopping", "events", "ending", "delete", "done", "failed"}

\* The labels of a coroutine.
LabelOf(co) ==
  CASE co = "setup" -> Label \ {"idle", "stopping", "events", "ending", "delete"}
    [] co = "refresh" -> Label \ {"subscribe", "ending", "delete", "done", "failed"}
    [] co = "close" -> {"idle", "ending", "stopping", "delete", "done"}

\* The types of what a stop and a new client change.
PcType == pc \in [Coroutine -> Label] /\ \A co \in Coroutine : pc[co] \in LabelOf(co)
ClientType ==
  /\ closing \in BOOLEAN
  /\ client \in Pahos \cup {NoClient}
  /\ client_connected \in BOOLEAN
  /\ ready \in BOOLEAN
  /\ paho \in [Pahos -> Live \cup {"unused", "stopped"}]

Types ==
  /\ PcType /\ ClientType
  /\ stopping \in [Coroutine -> Pahos \cup {NoClient}]
  /\ registered \in BOOLEAN
  /\ expires \in {"none", "valid", "due"}
  /\ queue \in Seq(Callback)
  /\ monitor_connected \in BOOLEAN
  /\ drops \in Nat
  /\ refreshes \in Nat
  /\ owed \in BOOLEAN

LEMMA TypeParts == SessionTypeOK <=> Types
<1>1. PcType <=> /\ pc \in [Coroutine -> Label]
                 /\ pc["setup"] \notin {"idle", "stopping", "events", "ending", "delete"}
                 /\ pc["refresh"] \notin {"subscribe", "ending", "delete", "done", "failed"}
                 /\ pc["close"] \in {"idle", "ending", "stopping", "delete", "done"}
  BY DEF PcType, LabelOf, Label, Coroutine
<1> QED BY <1>1 DEF SessionTypeOK, Types, ClientType, Label

LEMMA TypePartsNext == SessionTypeOK' <=> Types'
BY TypeParts, PTL

LEMMA GotoType ==
  ASSUME PcType, NEW co \in Coroutine, NEW label \in LabelOf(co), Goto(co, label)
  PROVE  PcType'
<1>1. label \in Label
  BY DEF LabelOf, Label, Coroutine
<1> QED BY <1>1 DEF PcType, Goto

LEMMA RaiseType ==
  ASSUME PcType, NEW co \in {"setup", "refresh"}, Raise(co), owed \in BOOLEAN
  PROVE  PcType' /\ owed' \in BOOLEAN
BY DEF PcType, Raise, Goto, LabelOf, Label, Coroutine

LEMMA StartType ==
  ASSUME ClientType, StartClient, client_connected' \in BOOLEAN
  PROVE  ClientType'
BY DEF ClientType, StartClient, Live

LEMMA AfterStopType ==
  ASSUME SessionTypeOK, NEW co \in Coroutine, NEW isClosing \in BOOLEAN, AfterStop(co, isClosing)
  PROVE  PcType' /\ ClientType' /\ owed' \in BOOLEAN
<1> USE TypeParts DEF Types
<1>1. CASE pc[co] \in {"certificate", "stopping"} /\ co = "refresh"
  <2>1. StartClient /\ Goto(co, "waiting") /\ client_connected' = FALSE /\ owed' = owed
    BY <1>1 DEF AfterStop
  <2>2. "waiting" \in LabelOf(co)
    BY <1>1 DEF LabelOf, Label
  <2> QED BY <2>1, <2>2, GotoType, StartType
<1>2. CASE ~(pc[co] \in {"certificate", "stopping"} /\ co = "refresh")
  <2>1. ClientType'
    BY <1>2 DEF AfterStop, ClientType
  <2>2. CASE co = "close"
    <3>1. Goto(co, IF registered THEN "delete" ELSE "done") /\ owed' = owed
      BY <1>2, <2>2 DEF AfterStop
    <3>2. (IF registered THEN "delete" ELSE "done") \in LabelOf(co)
      BY <2>2 DEF LabelOf
    <3> QED BY <2>1, <3>1, <3>2, GotoType
  <2>3. CASE co # "close"
    <3>1. Raise(co) /\ co \in {"setup", "refresh"}
      BY <1>2, <2>3 DEF AfterStop, Coroutine
    <3> QED BY <2>1, <3>1, RaiseType
  <2> QED BY <2>2, <2>3
<1> QED BY <1>1, <1>2

LEMMA BeginStopType ==
  ASSUME SessionTypeOK, NEW co \in Coroutine, NEW label \in LabelOf(co), BeginStop(co, label)
  PROVE  /\ PcType' /\ ClientType' /\ owed' \in BOOLEAN
         /\ stopping' \in [Coroutine -> Pahos \cup {NoClient}]
<1>1. CASE client # NoClient
  <2>1. Goto(co, label) /\ UNCHANGED <<client_connected, ready, paho, owed>>
        /\ closing' = TRUE /\ client' = NoClient
        /\ stopping' = [stopping EXCEPT ![co] = client]
    BY <1>1 DEF BeginStop
  <2>2. PcType'
    BY <2>1, GotoType, TypeParts DEF Types
  <2> QED BY <2>1, <2>2, TypeParts DEF Types, ClientType
<1>2. CASE client = NoClient
  <2>1. AfterStop(co, TRUE) /\ UNCHANGED stopping
    BY <1>2 DEF BeginStop
  <2> QED BY <2>1, AfterStopType, TypeParts DEF Types
<1> QED BY <1>1, <1>2

LEMMA TypeStep == SessionTypeOK /\ [SessionNext]_session_vars => SessionTypeOK'
<1> SUFFICES ASSUME SessionTypeOK, [SessionNext]_session_vars PROVE SessionTypeOK'
  OBVIOUS
<1> USE DEF coroutines, object, threads, counters, Goto
<1>1. ASSUME NEW co \in {"setup", "refresh"}, Registered(co) \/ PrepareFails(co)
      PROVE  SessionTypeOK'
  <2>1. CASE Registered(co)
    BY <2>1 DEF SessionTypeOK, Registered, Coroutine
  <2>2. CASE PrepareFails(co)
    BY <2>2, RaiseType, TypeParts, TypePartsNext DEF Types, ClientType, PrepareFails
  <2> QED BY <1>1, <2>1, <2>2
<1>2. ASSUME NEW co \in {"setup", "refresh"}, ConnectDone(co)
      PROVE  SessionTypeOK'
  BY <1>2 DEF SessionTypeOK, ConnectDone, Coroutine
<1>3. ASSUME NEW co \in {"setup", "refresh"}, ConnectTimeout(co)
      PROVE  SessionTypeOK'
  <2>1. co \in Coroutine /\ "aborting" \in LabelOf(co) /\ BeginStop(co, "aborting")
    BY <1>3 DEF ConnectTimeout, Coroutine, LabelOf, Label
  <2> QED BY <1>3, <2>1, BeginStopType, TypeParts, TypePartsNext DEF Types, ConnectTimeout
<1>4. CASE RenewCertificate
  <2>1. /\ "refresh" \in Coroutine /\ "stopping" \in LabelOf("refresh")
        /\ BeginStop("refresh", "stopping")
    BY <1>4 DEF RenewCertificate, Coroutine, LabelOf, Label
  <2> QED BY <1>4, <2>1, BeginStopType, TypeParts, TypePartsNext DEF Types, RenewCertificate
<1>5. CASE CloseStops
  <2>1. /\ "close" \in Coroutine /\ "stopping" \in LabelOf("close")
        /\ BeginStop("close", "stopping")
    BY <1>5 DEF CloseStops, Coroutine, LabelOf
  <2> QED BY <1>5, <2>1, BeginStopType, TypeParts, TypePartsNext DEF Types, CloseStops
<1>6. CASE SetupCertificate \/ RefreshTimer \/ RefreshDone \/ CloseBegins
           \/ CloseDeletes \/ CertificateDue
  <2>1. CASE SetupCertificate
    BY <2>1 DEF SessionTypeOK, SetupCertificate, Coroutine
  <2>2. CASE RefreshTimer
    BY <2>2 DEF SessionTypeOK, RefreshTimer, Coroutine
  <2>3. CASE RefreshDone \/ CloseBegins
    BY <2>3 DEF SessionTypeOK, RefreshDone, CloseBegins, Coroutine
  <2>4. CASE CloseDeletes
    BY <2>4 DEF SessionTypeOK, CloseDeletes, Coroutine
  <2>5. CASE CertificateDue
    BY <2>5 DEF SessionTypeOK, CertificateDue
  <2> QED BY <1>6, <2>1, <2>2, <2>3, <2>4, <2>5
<1>7. CASE SetupConnect
  BY <1>7 DEF SessionTypeOK, SetupConnect, StartClient, Coroutine, Live
<1>8. ASSUME NEW p \in Pahos, OnConnect(p) PROVE SessionTypeOK'
  <2>1. <<"connected", p>> \in Callback
    BY DEF Callback
  <2>2. queue' = queue \/ queue' = Append(queue, <<"connected", p>>)
    BY <1>8 DEF OnConnect
  <2>3. queue' \in Seq(Callback)
    BY <2>1, <2>2 DEF SessionTypeOK
  <2>4. paho' \in [Pahos -> Live \cup {"unused", "stopped"}] /\ client_connected' \in BOOLEAN
    BY <1>8 DEF SessionTypeOK, OnConnect, Live
  <2> QED BY <1>8, <2>3, <2>4 DEF SessionTypeOK, OnConnect
<1>9. ASSUME NEW p \in Pahos, OnSubscribe(p) PROVE SessionTypeOK'
  <2>1. <<"ready", p>> \in Callback
    BY DEF Callback
  <2> QED BY <1>9, <2>1 DEF SessionTypeOK, OnSubscribe, Live
<1>10. ASSUME NEW p \in Pahos, OnDisconnect(p) PROVE SessionTypeOK'
  <2>1. queue' \in Seq(Callback)
    BY <1>10, LostType, ConcatProperties DEF SessionTypeOK, OnDisconnect
  <2>2. paho' \in [Pahos -> Live \cup {"unused", "stopped"}]
    BY <1>10 DEF SessionTypeOK, OnDisconnect, Live
  <2>3. drops' \in Nat
    BY <1>10 DEF SessionTypeOK, OnDisconnect
  <2> QED BY <1>10, <2>1, <2>2, <2>3, TypeParts, TypePartsNext
           DEF Types, PcType, ClientType, OnDisconnect
<1>11. ASSUME NEW co \in Coroutine, PahoStops(co) PROVE SessionTypeOK'
  <2>1. stopping[co] \in Pahos /\ <<"stopped", co>> \in Callback
    BY <1>11 DEF PahoStops, SessionTypeOK, Callback
  <2>2. <<<<"stopped", co>>>> \in Seq(Callback) /\ queue \in Seq(Callback)
    BY <2>1 DEF SessionTypeOK
  <2>3. queue \o Lost(stopping[co]) \in Seq(Callback)
    BY <2>1, <2>2, LostType, ConcatProperties
  <2>4. queue \o Lost(stopping[co]) \o <<<<"stopped", co>>>> \in Seq(Callback)
    BY <2>2, <2>3, ConcatProperties
  <2>5. Append(queue, <<"stopped", co>>) \in Seq(Callback)
    BY <2>1, <2>2
  <2>6. queue' \in Seq(Callback)
    BY <1>11, <2>4, <2>5 DEF PahoStops
  <2> QED BY <1>11, <2>1, <2>6 DEF SessionTypeOK, PahoStops
<1>12. CASE ConnectionChanged \/ ReadyChanged
  <2>1. queue # <<>> /\ queue' = Tail(queue)
    BY <1>12 DEF ConnectionChanged, ReadyChanged
  <2>2. queue' \in Seq(Callback)
    BY <2>1, HeadTailProperties DEF SessionTypeOK
  <2>3. CASE ConnectionChanged
    BY <2>2, <2>3 DEF SessionTypeOK, ConnectionChanged
  <2>4. CASE ReadyChanged
    BY <2>2, <2>4 DEF SessionTypeOK, ReadyChanged, Coroutine
  <2> QED BY <1>12, <2>3, <2>4
<1>13. ASSUME NEW co \in Coroutine, StopDone(co) PROVE SessionTypeOK'
  <2>1. queue' \in Seq(Callback)
    BY <1>13, HeadTailProperties DEF SessionTypeOK, StopDone
  <2>2. AfterStop(co, closing) /\ UNCHANGED stopping /\ closing \in BOOLEAN
    BY <1>13 DEF StopDone, SessionTypeOK
  <2> QED BY <1>13, <2>1, <2>2, AfterStopType, TypeParts, TypePartsNext
           DEF Types, StopDone
<1>14. CASE UNCHANGED session_vars
  BY <1>14 DEF SessionTypeOK, session_vars
<1> QED BY <1>1, <1>2, <1>3, <1>4, <1>5, <1>6, <1>7, <1>8, <1>9, <1>10, <1>11, <1>12,
           <1>13, <1>14 DEF SessionNext, LoopStep

-----------------------------------------------------------------------------
(***************************************************************************)
(* The coroutines' steps keep the invariant.                               *)
(***************************************************************************)
\* A client with a thread begins to be stopped.
LEMMA StopBegins ==
  ASSUME IInv, client # NoClient, NEW co \in Coroutine,
         pc[co] \in {"waiting", "certificate", "ending"},
         NEW label \in {"stopping", "aborting"}, Goto(co, label),
         client' = NoClient, stopping' = [stopping EXCEPT ![co] = client],
         UNCHANGED <<paho, queue, monitor_connected, registered>>
  PROVE  Order'
<1> USE DEF IInv, Order
<1>1. pc' = [pc EXCEPT ![co] = label] /\ pc \in [Coroutine -> Label]
      /\ stopping \in [Coroutine -> Pahos \cup {NoClient}]
  BY DEF Goto, SessionTypeOK, Label
<1>2. \A other \in Coroutine \ {co} : pc[other] \notin {"waiting", "woken"}
  BY DEF OneAtATime, Serial, SessionTypeOK, Coroutine
<1>3. \A other \in Coroutine : stopping[other] = NoClient
  BY DEF Held
<1>4. OneAtATime'
  BY <1>1 DEF OneAtATime, Serial, SessionTypeOK, Coroutine
<1>5. Held'
  <2>1. \A p \in Pahos : paho'[p] \in Live => stopping'[co] = p
    BY <1>1, <1>3, NoClientAssumption DEF Held
  <2>2. \A other \in Coroutine :
          /\ stopping'[other] # NoClient => Stops(other)' /\ paho'[stopping'[other]] \in Live
          /\ pc'[other] \notin {"waiting", "woken"}
    BY <1>1, <1>2, <1>3 DEF Held, Stops
  <2>3. pc'["close"] = "done" => ~registered'
    BY <1>1 DEF Held
  <2> QED BY <2>1, <2>2, <2>3 DEF Held
<1>6. Left'
  <2>1. Stops(co)'
    BY <1>1 DEF Stops
  <2>2. \A i \in 1 .. Len(queue) : queue[i][1] # "stopped"
    BY DEF Left
  <2> QED BY <2>1, <2>2 DEF Left
<1>7. Announces'
  BY NoTelling DEF Announced
<1> QED BY <1>4, <1>5, <1>6, <1>7

\* A coroutine has no thread to wait for any more.
LEMMA StopEnds ==
  ASSUME IInv, NEW co \in Coroutine, NEW isClosing, AfterStop(co, isClosing),
         Stops(co) \/ pc[co] \in {"certificate", "ending"},
         client = NoClient, queue' = <<>>, ~monitor_connected,
         \A p \in Pahos : paho[p] \notin Live,
         UNCHANGED <<stopping, monitor_connected, registered>>
  PROVE  Order'
<1> USE DEF IInv, Order
<1>1. /\ \A other \in Coroutine : stopping[other] = NoClient
      /\ stopping' = stopping
  BY NoClientAssumption DEF Held, SessionTypeOK
<1>2. \A other \in Coroutine \ {co} : /\ ~Stops(other)
                                      /\ pc[other] \notin {"waiting", "woken"}
  BY DEF OneAtATime, Serial, SessionTypeOK, Coroutine, Stops
<1>3. CASE pc[co] \in {"certificate", "stopping"} /\ co = "refresh"
  <2>1. StartClient /\ pc' = [pc EXCEPT !["refresh"] = "waiting"]
    BY <1>3 DEF AfterStop, Goto
  <2>2. PICK p \in Pahos : /\ paho[p] = "unused" /\ client' = p
                           /\ paho' = [paho EXCEPT ![p] = "trying"]
    BY <2>1 DEF StartClient
  <2>3. OneAtATime'
    BY <1>3, <2>1 DEF OneAtATime, Serial, SessionTypeOK, Coroutine
  <2>4. \A q \in Pahos : paho'[q] \in Live <=> q = p
    BY <2>2 DEF SessionTypeOK, Live
  <2>5. \A other \in Coroutine : ~Stops(other)'
    BY <1>2, <1>3, <2>1 DEF SessionTypeOK, Stops
  <2>6. Held'
    <3>1. pc'["setup"] = pc["setup"] /\ pc'["close"] = "idle" /\ pc["setup"] = "done"
      BY <1>3, <2>1 DEF OneAtATime, Serial, SessionTypeOK, Coroutine
    <3> QED BY <1>1, <2>2, <2>4, <2>5, <3>1, NoClientAssumption DEF Held
  <2>7. Left'
    BY <2>2, NoClientAssumption DEF Left
  <2>8. Announces'
    BY <2>2 DEF Announces, Announced, Tells, SessionTypeOK, Live
  <2> QED BY <2>3, <2>6, <2>7, <2>8
<1>4. CASE ~(pc[co] \in {"certificate", "stopping"} /\ co = "refresh")
  <2>1. /\ UNCHANGED <<client, paho>>
        /\ IF co = "close" THEN Goto(co, IF registered THEN "delete" ELSE "done")
           ELSE Raise(co)
    BY <1>4 DEF AfterStop
  <2>2. /\ OneAtATime'
        /\ \A other \in Coroutine : /\ ~Stops(other)'
                                    /\ pc'[other] \notin {"waiting", "woken"}
        /\ pc'["close"] = "done" => ~registered'
    <3>1. CASE co = "close"
      BY <1>2, <2>1, <3>1 DEF OneAtATime, Serial, SessionTypeOK, Coroutine, Goto, Stops
    <3>2. CASE co = "setup"
      BY <1>2, <2>1, <3>2 DEF OneAtATime, Serial, SessionTypeOK, Coroutine, Raise, Stops, Held
    <3>3. CASE co = "refresh"
      BY <1>2, <2>1, <3>3 DEF OneAtATime, Serial, SessionTypeOK, Coroutine, Raise, Goto, Stops, Held
    <3> QED BY <3>1, <3>2, <3>3 DEF Coroutine
  <2>3. Held'
    BY <1>1, <2>1, <2>2 DEF Held
  <2>4. Left'
    BY <2>1 DEF Left
  <2>5. Announces'
    BY <2>1 DEF Announces, Announced, Tells, Live
  <2> QED BY <2>2, <2>3, <2>4, <2>5
<1> QED BY <1>3, <1>4

\* _stop_connection, of a coroutine that is not waiting for one.
LEMMA BeginStopOrder ==
  ASSUME IInv, NEW co \in Coroutine, NEW label \in {"stopping", "aborting"},
         BeginStop(co, label),
         \/ pc[co] \in {"certificate", "ending"}
         \/ pc[co] = "waiting" /\ client # NoClient,
         UNCHANGED <<queue, monitor_connected, registered>>
  PROVE  Order'
<1>1. CASE client # NoClient
  BY <1>1, StopBegins DEF BeginStop
<1>2. CASE client = NoClient
  <2>1. AfterStop(co, TRUE) /\ UNCHANGED stopping /\ pc[co] \in {"certificate", "ending"}
    BY <1>2 DEF BeginStop
  <2>2. \A other \in Coroutine : ~Stops(other)
    BY <2>1 DEF IInv, Order, OneAtATime, Serial, SessionTypeOK, Coroutine, Stops
  <2>3. queue = <<>>
    BY <1>2, <2>2 DEF IInv, Order, Left
  <2>4. \A p \in Pahos : paho[p] \notin Live
    BY <1>2, <2>2, NoClientAssumption DEF IInv, Order, Held
  <2>5. ~monitor_connected
    BY <2>3, <2>4 DEF IInv, Order, Announces, Announced, Live
  <2> QED BY <1>2, <2>1, <2>3, <2>4, <2>5, StopEnds
<1> QED BY <1>1, <1>2

\* A coroutine goes on without touching the client.
LEMMA GoesOn ==
  ASSUME IInv, Serial', UNCHANGED <<stopping, client, paho, queue, monitor_connected>>,
         \/ \E co \in {"setup", "refresh"} : Registered(co) \/ PrepareFails(co) \/ ConnectDone(co)
         \/ SetupCertificate \/ RefreshTimer \/ RefreshDone \/ CloseBegins \/ CloseDeletes
         \/ CertificateDue
  PROVE  Order'
<1> USE DEF IInv, Order
<1>1. /\ OneAtATime'
      /\ \A co \in Coroutine : /\ Stops(co)' <=> Stops(co)
                               /\ pc'[co] \in {"waiting", "woken"} => pc[co] \in {"waiting", "woken"}
      /\ pc'["setup"] \in {"register", "certificate", "subscribe"} =>
           pc["setup"] \in {"register", "certificate", "subscribe"}
      /\ pc'["close"] \in {"delete", "done"} => pc["close"] \in {"delete", "done"}
      /\ pc'["close"] = "done" => ~registered'
  <2> USE DEF OneAtATime, Serial, SessionTypeOK, Coroutine, Stops, Held
  <2>1. ASSUME NEW co \in {"setup", "refresh"}, Registered(co) PROVE <1>1!:
    BY <2>1 DEF Registered, Goto
  <2>2. ASSUME NEW co \in {"setup", "refresh"}, PrepareFails(co) PROVE <1>1!:
    BY <2>2 DEF PrepareFails, Raise, Goto
  <2>3. ASSUME NEW co \in {"setup", "refresh"}, ConnectDone(co) PROVE <1>1!:
    BY <2>3 DEF ConnectDone, Goto, object
  <2>4. CASE SetupCertificate
    BY <2>4 DEF SetupCertificate, Goto
  <2>5. CASE RefreshTimer
    BY <2>5 DEF RefreshTimer, Goto, object
  <2>6. CASE RefreshDone \/ CloseBegins
    BY <2>6 DEF RefreshDone, CloseBegins, Goto, object
  <2>7. CASE CloseDeletes
    BY <2>7 DEF CloseDeletes, Goto
  <2>8. CASE CertificateDue
    <3>1. pc' = pc /\ registered' = registered
      BY <2>8 DEF CertificateDue, coroutines
    <3> QED BY <3>1
  <2> QED BY <2>1, <2>2, <2>3, <2>4, <2>5, <2>6, <2>7, <2>8
<1>2. Held'
  BY <1>1 DEF Held
<1>3. Left'
  BY <1>1 DEF Left
<1>4. Announces'
  BY NoTelling DEF Announced
<1> QED BY <1>1, <1>2, <1>3, <1>4

\* Set-up creates the first client: no callback is left of an earlier one.
LEMMA ConnectOrder ==
  ASSUME IInv, SetupConnect
  PROVE  Order'
<1> USE DEF IInv, Order
<1>1. PICK p \in Pahos : /\ paho[p] = "unused" /\ client' = p
                         /\ paho' = [paho EXCEPT ![p] = "trying"]
  BY DEF SetupConnect, StartClient
<1>2. /\ pc["setup"] = "subscribe" /\ pc["refresh"] = "idle" /\ pc["close"] = "idle"
      /\ pc' = [pc EXCEPT !["setup"] = "waiting"]
      /\ UNCHANGED <<stopping, queue, monitor_connected, registered>> /\ client = NoClient
  BY DEF SetupConnect, Goto, OneAtATime, Held
<1>3. \A co \in Coroutine : ~Stops(co) /\ ~Stops(co)' /\ stopping[co] = NoClient
  BY <1>2 DEF Stops, SessionTypeOK, Coroutine, Held
<1>4. queue = <<>> /\ \A q \in Pahos : paho[q] \notin Live
  BY <1>2, <1>3, NoClientAssumption DEF Left, Held
<1>5. \A q \in Pahos : paho'[q] \in Live <=> q = p
  BY <1>1, <1>4 DEF SessionTypeOK, Live
<1>6. OneAtATime'
  BY <1>2 DEF OneAtATime, Serial, SessionTypeOK, Coroutine
<1>7. Held'
  BY <1>1, <1>2, <1>3, <1>5, NoClientAssumption DEF Held, SessionTypeOK, Coroutine
<1>8. Left'
  BY <1>1, <1>2, <1>4, NoClientAssumption DEF Left
<1>9. Announced' <=> Announced
  BY <1>1 DEF Announced, SessionTypeOK
<1>10. Announces'
  BY <1>2, <1>9, NoTelling
<1> QED BY <1>6, <1>7, <1>8, <1>10

-----------------------------------------------------------------------------
(***************************************************************************)
(* The threads' steps and the loop's keep it.                              *)
(***************************************************************************)
\* A thread that goes on living leaves a callback, or several.
LEMMA ThreadLeaves ==
  ASSUME IInv, NEW p \in Pahos, paho[p] \in Live, NEW state \in Live,
         paho' = [paho EXCEPT ![p] = state],
         NEW s \in Seq(Callback), queue' = queue \o s,
         \A i \in 1 .. Len(s) : s[i][1] # "stopped" /\ s[i][2] = p,
         UNCHANGED <<pc, stopping, client, registered>>
  PROVE  OneAtATime' /\ Held' /\ Left'
<1> USE DEF IInv, Order
<1>1. queue \in Seq(Callback)
  BY DEF SessionTypeOK
<1>2. /\ Len(queue') = Len(queue) + Len(s) /\ Len(queue) \in Nat /\ Len(s) \in Nat
      /\ \A i \in 1 .. Len(queue') :
           queue'[i] = IF i <= Len(queue) THEN queue[i] ELSE s[i - Len(queue)]
  BY <1>1, ConcatProperties, LenProperties
<1>3. OneAtATime'
  BY DEF OneAtATime, Serial
<1>4. \A q \in Pahos : paho'[q] \in Live <=> paho[q] \in Live
  BY DEF SessionTypeOK
<1>5. Held'
  BY <1>4 DEF Held, Stops, SessionTypeOK
<1>6. \A i \in 1 .. Len(queue) : queue[i][1] # "stopped"
  BY NoStopTold
<1>7. \A i \in 1 .. Len(queue') : queue'[i][1] # "stopped"
  BY <1>2, <1>6
<1>8. ASSUME client # NoClient, NEW i \in 1 .. Len(queue') PROVE queue'[i][2] = client
  <2>1. p = client
    BY <1>8, OneLives DEF Held, SessionTypeOK
  <2> QED BY <1>2, <1>8, <2>1 DEF Left
<1>9. client # NoClient \/ \E co \in Coroutine : Stops(co)
  BY NoClientAssumption DEF Held
<1>10. Left'
  BY <1>7, <1>8, <1>9 DEF Left, Stops
<1> QED BY <1>3, <1>5, <1>10

LEMMA ConnectedOrder ==
  ASSUME IInv, NEW p \in Pahos, OnConnect(p)
  PROVE  Order'
<1> USE DEF IInv, Order
<1>1. paho[p] \in Live /\ paho[p] = "trying" /\ UNCHANGED <<pc, stopping, client, registered>>
  BY DEF OnConnect, Live, coroutines
<1>2. CASE closing
  <2>1. paho' = [paho EXCEPT ![p] = "mute"] /\ UNCHANGED <<queue, monitor_connected>>
    BY <1>2 DEF OnConnect
  <2>2. \A q \in Pahos : paho'[q] \in Live <=> paho[q] \in Live
    BY <1>1, <2>1 DEF SessionTypeOK, Live
  <2>3. Held'
    BY <1>1, <2>2 DEF Held, Stops, SessionTypeOK
  <2>4. OneAtATime' /\ Left'
    BY <1>1, <2>1 DEF OneAtATime, Serial, Left, Stops
  <2>5. Announced' <=> Announced
    BY <1>1, <2>1 DEF Announced, SessionTypeOK
  <2> QED BY <2>1, <2>3, <2>4, <2>5, NoTelling
<1>3. CASE ~closing
  <2> DEFINE s == <<<<"connected", p>>>>
  <2>1. /\ paho' = [paho EXCEPT ![p] = "connected"] /\ monitor_connected' = monitor_connected
        /\ queue' = Append(queue, <<"connected", p>>)
    BY <1>3 DEF OnConnect
  <2>2. s \in Seq(Callback) /\ Len(s) = 1 /\ s[1] = <<"connected", p>>
        /\ <<"connected", p>> \in Callback
    BY DEF Callback
  <2>3. Append(queue, <<"connected", p>>) = queue \o s
    BY <2>2, AppendIsConcat DEF SessionTypeOK
  <2> HIDE DEF s
  <2>4. queue' = queue \o s /\ \A i \in 1 .. Len(s) : s[i][1] # "stopped" /\ s[i][2] = p
    BY <2>1, <2>2, <2>3
  <2>5. OneAtATime' /\ Held' /\ Left'
    BY <1>1, <2>1, <2>2, <2>4, ThreadLeaves DEF Live
  <2>6. Announced'
    BY <2>1 DEF Announced, SessionTypeOK
  <2>7. Announces'
    BY <2>2, <2>4, <2>6, TellingGrowth DEF Tells
  <2> QED BY <2>5, <2>7
<1> QED BY <1>2, <1>3

LEMMA SubscribedOrder ==
  ASSUME IInv, NEW p \in Pahos, OnSubscribe(p)
  PROVE  Order'
<1> USE DEF IInv, Order
<1> DEFINE s == <<<<"ready", p>>>>
<1>1. /\ paho[p] = "connected" /\ paho' = [paho EXCEPT ![p] = "subscribed"]
      /\ queue' = Append(queue, <<"ready", p>>)
      /\ UNCHANGED <<pc, stopping, client, registered, monitor_connected>>
  BY DEF OnSubscribe, coroutines, object
<1>2. s \in Seq(Callback) /\ Len(s) = 1 /\ s[1] = <<"ready", p>> /\ <<"ready", p>> \in Callback
  BY DEF Callback
<1>3. queue' = queue \o s
  BY <1>1, <1>2, AppendIsConcat DEF SessionTypeOK
<1> HIDE DEF s
<1>4. \A i \in 1 .. Len(s) : s[i][1] # "stopped" /\ s[i][2] = p
  BY <1>2
<1>5. OneAtATime' /\ Held' /\ Left'
  BY <1>1, <1>2, <1>3, <1>4, ThreadLeaves DEF Live
<1>6. Announced' <=> Announced
  BY <1>1 DEF Announced, SessionTypeOK
<1>7. Announces'
  BY <1>1, <1>2, <1>6, QuietGrowth DEF Tells
<1> QED BY <1>5, <1>7

\* The one session is over: none is announced any more.
LEMMA SessionOver ==
  ASSUME IInv, NEW p \in Pahos, paho[p] \in Live, NEW state \in {"trying", "stopped"},
         paho' = [paho EXCEPT ![p] = state]
  PROVE  ~Announced'
<1> SUFFICES ASSUME NEW q \in Pahos, paho'[q] \in {"connected", "subscribed"} PROVE FALSE
  BY DEF Announced
<1>1. q # p /\ paho[q] \in Live
  BY DEF IInv, SessionTypeOK, Live
<1> QED BY <1>1, OneLives

LEMMA DisconnectedOrder ==
  ASSUME IInv, NEW p \in Pahos, OnDisconnect(p)
  PROVE  Order'
<1> USE DEF IInv, Order
<1>1. /\ paho[p] \in Live /\ paho' = [paho EXCEPT ![p] = "trying"]
      /\ queue' = queue \o Lost(p)
      /\ UNCHANGED <<pc, stopping, client, registered, monitor_connected>>
  BY DEF OnDisconnect, coroutines, InSession, Live
<1>2. \A i \in 1 .. Len(Lost(p)) : Lost(p)[i][1] # "stopped" /\ Lost(p)[i][2] = p
  BY LostType
<1>3. OneAtATime' /\ Held' /\ Left'
  BY <1>1, <1>2, LostType, ThreadLeaves DEF Live
<1>4. ~Announced'
  BY <1>1, SessionOver
<1>5. /\ Lost(p) \in Seq(Callback) /\ Len(Lost(p)) # 0 /\ Tells(Lost(p)[1])
      /\ Lost(p)[1][1] # "connected"
      /\ \A i \in 2 .. Len(Lost(p)) : ~Tells(Lost(p)[i])
  BY LostType DEF Tells
<1>6. Announces'
  BY <1>1, <1>4, <1>5, TellingGrowth
<1> QED BY <1>3, <1>6

\* A thread is joined, and what it leaves ends with the word for who waits.
LEMMA StoppedOrder ==
  ASSUME IInv, NEW co \in Coroutine, PahoStops(co)
  PROVE  Order'
<1> USE DEF IInv, Order
<1> DEFINE p == stopping[co]
           c == <<"stopped", co>>
<1>1. /\ p \in Pahos /\ paho[p] \in Live /\ Stops(co) /\ client = NoClient
      /\ c \in Callback /\ queue \in Seq(Callback)
  BY DEF PahoStops, Held, SessionTypeOK, Callback
<1>2. /\ paho' = [paho EXCEPT ![p] = "stopped"]
      /\ stopping' = [stopping EXCEPT ![co] = NoClient]
      /\ UNCHANGED <<pc, client, registered, monitor_connected>>
  BY DEF PahoStops
<1>3. \A i \in 1 .. Len(queue) : queue[i][1] # "stopped"
  BY <1>1, NoStopTold
<1>4. \A other \in Coroutine : Stops(other) => other = co
  BY <1>1, OneStops
<1>5. \A q \in Pahos : paho'[q] \notin Live
  BY <1>1, <1>2, OneLives DEF SessionTypeOK, Live
<1>6. \A other \in Coroutine : stopping'[other] = NoClient
  BY <1>2, <1>4, NoClientAssumption DEF Held, SessionTypeOK
<1>7. OneAtATime' /\ Held'
  BY <1>1, <1>2, <1>5, <1>6 DEF OneAtATime, Serial, Held, Stops
<1>8. ~Announced'
  BY <1>1, <1>2, SessionOver
<1>9. PICK s \in Seq(Callback) :
        /\ queue' = Append(s, c)
        /\ \A i \in 1 .. Len(s) : s[i][1] # "stopped"
        /\ Announces'
  <2>1. CASE paho[p] \in InSession
    <3> DEFINE s == queue \o Lost(p)
               t == Lost(p) \o <<c>>
    <3>1. queue' = s \o <<c>>
      BY <2>1 DEF PahoStops
    <3>2. /\ <<c>> \in Seq(Callback) /\ Len(<<c>>) = 1 /\ <<c>>[1] = c
          /\ Lost(p) \in Seq(Callback) /\ Len(Lost(p)) = 2
          /\ Lost(p)[1] = <<"disconnected", p>> /\ Lost(p)[2] = <<"unready", p>>
      BY <1>1, LostType
    <3>3. /\ s \in Seq(Callback) /\ Len(s) = Len(queue) + Len(Lost(p))
          /\ \A i \in 1 .. Len(queue) + Len(Lost(p)) :
               s[i] = IF i <= Len(queue) THEN queue[i] ELSE Lost(p)[i - Len(queue)]
      BY <1>1, <3>2, ConcatProperties
    <3>4. /\ t \in Seq(Callback) /\ Len(t) = 3
          /\ \A i \in 1 .. 3 : t[i] = IF i <= 2 THEN Lost(p)[i] ELSE <<c>>[i - 2]
      BY <3>2, ConcatProperties
    <3>5. queue' = Append(s, c)
      BY <1>1, <3>1, <3>3, AppendIsConcat
    <3>6. queue' = queue \o t
      BY <1>1, <3>1, <3>2, ConcatAssociative
    <3> HIDE DEF s, t
    <3>7. \A i \in 1 .. Len(s) : s[i][1] # "stopped"
      <4> SUFFICES ASSUME NEW i \in 1 .. Len(s) PROVE s[i][1] # "stopped"
        OBVIOUS
      <4>1. Len(queue) \in Nat
        BY <1>1
      <4>2. CASE i <= Len(queue)
        BY <1>3, <3>3, <4>1, <4>2
      <4>3. CASE ~(i <= Len(queue))
        <5>1. i - Len(queue) \in {1, 2} /\ s[i] = Lost(p)[i - Len(queue)]
          BY <3>2, <3>3, <4>1, <4>3
        <5> QED BY <3>2, <5>1
      <4> QED BY <4>2, <4>3
    <3>8. t[1] = <<"disconnected", p>> /\ t[2] = <<"unready", p>> /\ t[3] = c
      BY <3>2, <3>4
    <3>9. /\ Len(t) # 0 /\ Tells(t[1]) /\ t[1][1] # "connected"
          /\ \A i \in 2 .. Len(t) : ~Tells(t[i])
      BY <3>4, <3>8 DEF Tells
    <3>10. Announces'
      BY <1>8, <3>4, <3>6, <3>9, TellingGrowth
    <3> QED BY <3>3, <3>5, <3>7, <3>10
  <2>2. CASE paho[p] \notin InSession
    <3>1. queue' = Append(queue, c) /\ ~Tells(c)
      BY <2>2 DEF PahoStops, Tells
    <3>2. ~Announced
      <4> SUFFICES ASSUME NEW q \in Pahos, paho[q] \in {"connected", "subscribed"}
                   PROVE  FALSE
        BY DEF Announced
      <4> QED BY <1>1, <2>2, OneLives DEF Live, InSession
    <3>3. Announces'
      BY <1>1, <1>2, <1>8, <3>1, <3>2, QuietGrowth
    <3> QED BY <1>1, <1>3, <3>1, <3>3
  <2> QED BY <2>1, <2>2
<1>10. Len(queue') = Len(s) + 1 /\ Len(s) \in Nat /\ queue'[Len(s) + 1] = c
       /\ \A i \in 1 .. Len(s) : queue'[i] = s[i]
  BY <1>1, <1>9, AppendProperties
<1>11. Left'
  <2>1. Stops(co)' /\ client' = NoClient
    BY <1>1, <1>2 DEF Stops
  <2>2. ASSUME NEW other \in Coroutine, NEW i \in 1 .. Len(queue'),
               queue'[i] = <<"stopped", other>>
        PROVE  i = Len(queue') /\ Stops(other)' /\ stopping'[other] = NoClient
    <3>1. i = Len(queue')
      BY <1>9, <1>10, <2>2
    <3>2. other = co
      BY <1>10, <2>2, <3>1
    <3> QED BY <1>6, <2>1, <3>1, <3>2
  <2> QED BY <2>1, <2>2 DEF Left
<1> QED BY <1>7, <1>9, <1>11

\* The loop takes a callback that is not the end of a stop.
LEMMA TakenOrder ==
  ASSUME IInv, ConnectionChanged \/ ReadyChanged
  PROVE  Order'
<1> USE DEF IInv, Order
<1>1. /\ queue # <<>> /\ queue' = Tail(queue) /\ queue \in Seq(Callback)
      /\ UNCHANGED <<stopping, client, paho, registered>>
  BY DEF ConnectionChanged, ReadyChanged, SessionTypeOK, coroutines, object
<1>2. /\ Len(queue) \in Nat /\ Len(queue') = Len(queue) - 1
      /\ \A i \in 1 .. Len(queue') : queue'[i] = queue[i + 1]
      /\ Head(queue) = queue[1]
  BY <1>1, HeadTailProperties
<1>3. /\ \A co \in Coroutine :
           pc'[co] = IF ReadyChanged /\ ready' /\ pc[co] = "waiting" THEN "woken" ELSE pc[co]
  BY DEF ConnectionChanged, ReadyChanged, coroutines
<1>4. OneAtATime'
  BY <1>3 DEF OneAtATime, Serial, Coroutine
<1>5. Held'
  BY <1>1, <1>3 DEF Held, Stops, Coroutine
<1>6. Left'
  <2>1. \A co \in Coroutine : Stops(co)' <=> Stops(co)
    BY <1>3 DEF Stops
  <2>2. client # NoClient => \A i \in 1 .. Len(queue') : queue'[i][1] # "stopped"
                                                     /\ queue'[i][2] = client
    BY <1>2 DEF Left
  <2>3. client # NoClient \/ \E co \in Coroutine : Stops(co)
    BY <1>1 DEF Left
  <2>4. ASSUME NEW co \in Coroutine, NEW i \in 1 .. Len(queue'), queue'[i] = <<"stopped", co>>
        PROVE  i = Len(queue') /\ Stops(co)' /\ stopping'[co] = NoClient
    <3>1. i + 1 \in 1 .. Len(queue) /\ queue[i + 1] = <<"stopped", co>>
      BY <1>2, <2>4
    <3>2. i + 1 = Len(queue) /\ Stops(co) /\ stopping[co] = NoClient
      BY <3>1 DEF Left
    <3>3. i = Len(queue')
      BY <1>2, <3>2
    <3>4. Stops(co)' /\ stopping'[co] = NoClient
      BY <1>1, <2>1, <3>2
    <3> QED BY <3>3, <3>4
  <2> QED BY <1>1, <2>1, <2>2, <2>3, <2>4 DEF Left
<1>7. monitor_connected' = IF Tells(Head(queue)) THEN Head(queue)[1] = "connected"
                        ELSE monitor_connected
  BY DEF ConnectionChanged, ReadyChanged, Tells
<1>8. Announces'
  BY <1>1, <1>7, Shrinkage
<1> QED BY <1>4, <1>5, <1>6, <1>8

-----------------------------------------------------------------------------
(***************************************************************************)
(* The theorems.                                                           *)
(***************************************************************************)
LEMMA InitInvariant == SessionInit => IInv
<1> SUFFICES ASSUME SessionInit PROVE IInv
  OBVIOUS
<1>1. SessionTypeOK
  <2>1. queue \in Seq(Callback) /\ paho \in [Pahos -> Live \cup {"unused", "stopped"}]
        /\ stopping \in [Coroutine -> Pahos \cup {NoClient}]
    BY DEF SessionInit
  <2>2. PcType
    BY DEF SessionInit, PcType, Label, LabelOf, Coroutine
  <2> QED BY <2>1, <2>2, TypeParts DEF SessionInit, Types, ClientType
<1>2. OneAtATime
  BY DEF SessionInit, OneAtATime, Serial, Coroutine
<1>3. Held
  BY NoClientAssumption DEF SessionInit, Held, Stops, Coroutine, Live
<1>4. Left
  BY DEF SessionInit, Left
<1>5. Announces
  BY DEF SessionInit, Announces, Announced
<1> QED BY <1>1, <1>2, <1>3, <1>4, <1>5 DEF IInv, Order

LEMMA StepInvariant == IInv /\ Serial' /\ [SessionNext]_session_vars => IInv'
<1> SUFFICES ASSUME IInv, Serial', [SessionNext]_session_vars PROVE Order'
  BY TypeStep DEF IInv
<1> USE DEF object, threads, coroutines, counters
<1>1. ASSUME NEW co \in {"setup", "refresh"},
             Registered(co) \/ PrepareFails(co) \/ ConnectDone(co)
      PROVE  Order'
  BY <1>1, GoesOn DEF Registered, PrepareFails, ConnectDone
<1>2. CASE SetupCertificate \/ RefreshTimer \/ RefreshDone \/ CloseBegins \/ CloseDeletes
           \/ CertificateDue
  BY <1>2, GoesOn DEF SetupCertificate, RefreshTimer, RefreshDone, CloseBegins, CloseDeletes,
                      CertificateDue
<1>3. ASSUME NEW co \in {"setup", "refresh"}, ConnectTimeout(co)
      PROVE  Order'
  <2>1. client # NoClient /\ co \in Coroutine
    BY <1>3 DEF ConnectTimeout, IInv, Order, Held, Coroutine
  <2> QED BY <1>3, <2>1, BeginStopOrder DEF ConnectTimeout
<1>4. CASE RenewCertificate
  BY <1>4, BeginStopOrder DEF RenewCertificate, Coroutine
<1>5. CASE CloseStops
  BY <1>5, BeginStopOrder DEF CloseStops, Coroutine
<1>6. CASE SetupConnect
  BY <1>6, ConnectOrder
<1>7. ASSUME NEW p \in Pahos, OnConnect(p) \/ OnSubscribe(p) \/ OnDisconnect(p)
      PROVE  Order'
  BY <1>7, ConnectedOrder, SubscribedOrder, DisconnectedOrder
<1>8. ASSUME NEW co \in Coroutine, PahoStops(co) PROVE Order'
  BY <1>8, StoppedOrder
<1>9. CASE ConnectionChanged \/ ReadyChanged
  BY <1>9, TakenOrder
<1>10. ASSUME NEW co \in Coroutine, StopDone(co) PROVE Order'
  <2>1. queue # <<>> /\ Head(queue) = <<"stopped", co>> /\ queue' = Tail(queue)
        /\ AfterStop(co, closing) /\ UNCHANGED <<stopping, registered, monitor_connected>>
    BY <1>10 DEF StopDone
  <2> QED BY <2>1, StopIsLast, StopEnds
<1>11. CASE UNCHANGED session_vars
  BY <1>11 DEF session_vars, IInv, Order, OneAtATime, Serial, Held, Left, Announces, Announced, Stops, Tells
<1> QED BY <1>1, <1>2, <1>3, <1>4, <1>5, <1>6, <1>7, <1>8, <1>9, <1>10, <1>11
        DEF SessionNext, LoopStep

LEMMA Invariance == SessionSpec /\ []Serial => []IInv
BY InitInvariant, StepInvariant, PTL DEF SessionSpec

\* Every variable keeps its type, and no coroutine stands at a label of another, whether
\* or not close and refresh overlap.
THEOREM TypeCorrect == SessionSpec => []SessionTypeOK
<1>1. SessionInit => SessionTypeOK
  BY InitInvariant DEF IInv
<1> QED BY <1>1, TypeStep, PTL DEF SessionSpec

\* As long as close and refresh do not overlap, an entry never has two Paho clients on
\* the air: async_connect_mqtt is reached only once _stop_connection has joined the
\* thread of the client before.
THEOREM SessionsTakeTurns == SessionSpec /\ []Serial => []OneSession
<1>1. IInv => OneSession
  <2> SUFFICES ASSUME IInv PROVE OneSession
    OBVIOUS
  <2> DEFINE S == {p \in Pahos : paho[p] \in Live}
  <2>1. CASE S = {}
    <3>1. Cardinality(S) = 0
      BY <2>1, FS_EmptySet
    <3> QED BY <3>1 DEF OneSession
  <2>2. CASE S # {}
    <3>1. PICK p : p \in S
      BY <2>2
    <3>2. S = {p}
      BY <3>1, OneLives
    <3>3. Cardinality(S) = 1
      BY <3>2, FS_Singleton
    <3> QED BY <3>3 DEF OneSession
  <2> QED BY <2>1, <2>2
<1> QED BY <1>1, Invariance, PTL

\* The connection sensor tells the truth once the loop has caught up
\* (_connection_changed): no callback of an earlier session arrives after one of a later.
THEOREM ConnectionIsShown == SessionSpec /\ []Serial => []ConnectionShown
<1>1. IInv => ConnectionShown
  BY DEF IInv, Order, Announces, Announced, ConnectionShown
<1> QED BY <1>1, Invariance, PTL

\* async_disconnect leaves no thread but one being stopped, and no registration.
THEOREM CloseTearsDown == SessionSpec /\ []Serial => []TornDown
<1>1. IInv => TornDown
  BY NoClientAssumption DEF IInv, SessionTypeOK, Order, Held, TornDown
<1> QED BY <1>1, Invariance, PTL

\* Nothing but the event wakes who waits for it.
LEMMA WokenByReady ==
  ASSUME SessionTypeOK, [SessionNext]_session_vars, NEW co \in {"setup", "refresh"},
         pc[co] = "waiting", pc'[co] = "woken"
  PROVE  ReadyChanged
<1> USE DEF SessionTypeOK, Coroutine, Goto, coroutines
<1>1. \A other \in Coroutine, label \in Label \ {"woken"} : ~Goto(other, label)
  BY DEF Label
<1>2. ASSUME NEW other \in Coroutine, NEW b, AfterStop(other, b) PROVE FALSE
  BY <1>2 DEF AfterStop, Raise
<1>3. ASSUME NEW other \in Coroutine, NEW label \in {"stopping", "aborting"},
             BeginStop(other, label)
      PROVE  FALSE
  BY <1>2, <1>3 DEF BeginStop
<1>4. ASSUME NEW other \in {"setup", "refresh"},
             Registered(other) \/ PrepareFails(other) \/ ConnectTimeout(other)
               \/ ConnectDone(other)
      PROVE  FALSE
  BY <1>3, <1>4 DEF Registered, PrepareFails, Raise, ConnectTimeout, ConnectDone
<1>5. CASE SetupCertificate \/ SetupConnect \/ RefreshTimer \/ RefreshDone \/ CloseBegins
           \/ CloseDeletes \/ CertificateDue \/ RenewCertificate \/ CloseStops
  BY <1>3, <1>5 DEF SetupCertificate, SetupConnect, RefreshTimer, RefreshDone, CloseBegins,
     CloseDeletes, CertificateDue, RenewCertificate, CloseStops
<1>6. ASSUME NEW p \in Pahos, OnConnect(p) \/ OnSubscribe(p) \/ OnDisconnect(p)
      PROVE  FALSE
  BY <1>6 DEF OnConnect, OnSubscribe, OnDisconnect
<1>7. ASSUME NEW other \in Coroutine, PahoStops(other) \/ StopDone(other) PROVE FALSE
  BY <1>2, <1>7 DEF PahoStops, StopDone
<1>8. CASE ConnectionChanged \/ UNCHANGED session_vars
  BY <1>8 DEF ConnectionChanged, session_vars
<1> QED BY <1>4, <1>5, <1>6, <1>7, <1>8 DEF SessionNext, LoopStep

\* _ready wakes a coroutine that waits only for the topics of the client it has just
\* created: the queue holds no acknowledgement of another.
THEOREM WokenByOwnTopics == SessionSpec /\ []Serial => WokenBySubscription
<1>1. ASSUME IInv, [SessionNext]_session_vars, NEW co \in {"setup", "refresh"},
             pc[co] = "waiting", pc'[co] = "woken"
      PROVE  Head(queue) = <<"ready", client>>
  <2>1. ReadyChanged
    BY <1>1, WokenByReady DEF IInv
  <2>2. queue \in Seq(Callback) /\ queue # <<>> /\ Head(queue)[1] = "ready"
    BY <1>1, <2>1 DEF ReadyChanged, IInv, SessionTypeOK, Coroutine
  <2>3. client # NoClient
    BY <1>1 DEF IInv, Order, Held, Coroutine
  <2>4. Head(queue) = queue[1] /\ 1 \in 1 .. Len(queue) /\ queue[1] \in Callback
    BY <2>2
  <2>5. queue[1][2] = client
    <3>1. \A i \in 1 .. Len(queue) : queue[i][2] = client
      BY <1>1, <2>3 DEF IInv, Order, Left
    <3> QED BY <2>4, <3>1, Zenon
  <2>6. queue[1] = <<queue[1][1], queue[1][2]>>
    BY <2>4 DEF Callback
  <2> QED BY <2>2, <2>4, <2>5, <2>6
<1>2. IInv /\ [SessionNext]_session_vars => [WokenBySubscriptionStep]_session_vars
  BY <1>1 DEF WokenBySubscriptionStep
<1> QED BY <1>2, Invariance, PTL DEF SessionSpec, WokenBySubscription
=============================================================================
