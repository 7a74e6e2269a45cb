---------------------------- MODULE MqttSession ----------------------------
(***************************************************************************)
(* The MQTT session of an entry: ThinQMQTTClient (client/mqtt_client.py),  *)
(* the parts of ThinQMQTT that connect, renew and disconnect it (mqtt.py)  *)
(* and the set-up and unload that call them (__init__.py).                 *)
(*                                                                         *)
(* Three coroutines share one client object on the event loop: set-up, the *)
(* 12-hour refresh and close (unload, Home Assistant stop or failed        *)
(* set-up).  Each is cut at its awaits.  Paho clients run in threads of    *)
(* their own and talk to the loop through a FIFO of callbacks, in which    *)
(* the end of a to_thread call takes its turn like any other.              *)
(***************************************************************************)
EXTENDS Naturals, Sequences, FiniteSets

CONSTANTS
  Pahos,          \* Paho client objects that may be created (bound)
  NoClient,       \* Python's None in the place of one
  AllowOverlap,   \* may close and refresh run at the same time?
  MaxDrops,       \* bound: sessions lost or refused
  MaxRefreshes    \* bound: runs of the 12-hour timer

ASSUME NoClientAssumption == NoClient \notin Pahos

VARIABLES
  pc,             \* where each coroutine stands
  stopping,       \* the Paho client a coroutine is waiting to see stopped
  closing,        \* ThinQMQTTClient._closing
  client,         \* ThinQMQTTClient._client
  client_connected, \* ThinQMQTTClient._connected
  registered,     \* ThinQMQTTClient._registered
  expires,        \* ThinQMQTTClient._expires: none, valid, or due in a day
  ready,          \* the asyncio event ThinQMQTTClient._ready
  paho,           \* state of each Paho client and its network thread
  queue,          \* callbacks the threads have left for the event loop
  monitor_connected, \* Monitoring.mqtt_connected, as every coordinator shows it
  drops,          \* sessions lost or refused so far (bound)
  refreshes,      \* timer runs so far (bound)
  owed            \* history: the last refresh logged "retry at next renewal"

coroutines == <<pc, stopping>>
object == <<closing, client, client_connected, registered, expires, ready>>
threads == <<paho, queue>>
counters == <<drops, refreshes, owed>>
session_vars == <<coroutines, object, threads, monitor_connected, counters>>

Coroutine == {"setup", "refresh", "close"}
Live == {"trying", "connected", "subscribed", "mute"}
InSession == {"connected", "subscribed", "mute"}

\* The callbacks left by _on_disconnect.
Lost(p) == <<<<"disconnected", p>>, <<"unready", p>>>>

SessionInit ==
  /\ pc = [co \in Coroutine |-> IF co = "setup" THEN "register" ELSE "idle"]
  /\ stopping = [co \in Coroutine |-> NoClient]
  /\ closing = FALSE
  /\ client = NoClient
  /\ client_connected = FALSE
  /\ registered = FALSE
  /\ expires = "none"
  /\ ready = FALSE
  /\ paho = [p \in Pahos |-> "unused"]
  /\ queue = <<>>
  /\ monitor_connected = FALSE
  /\ drops = 0
  /\ refreshes = 0
  /\ owed = FALSE

Goto(co, label) == pc' = [pc EXCEPT ![co] = label]

-----------------------------------------------------------------------------
(***************************************************************************)
(* Building blocks of the coroutines.                                      *)
(***************************************************************************)
\* Where a coroutine goes when what it is doing raises: set-up disconnects,
\* refresh logs the failure and goes on to the event subscriptions.
Raise(co) ==
  IF co = "setup"
  THEN /\ pc' = [pc EXCEPT !["setup"] = "failed", !["close"] = "ending"]
       /\ UNCHANGED owed
  ELSE /\ Goto(co, "events")
       /\ owed' = TRUE

\* async_connect_mqtt up to the wait for the first subscription.
StartClient ==
  /\ closing' = FALSE
  /\ ready' = FALSE
  /\ \E p \in Pahos : /\ paho[p] = "unused"
                      /\ client' = p
                      /\ paho' = [paho EXCEPT ![p] = "trying"]

\* What follows _stop_connection in the coroutine that called it.  isClosing
\* is the value the stop leaves in _closing.
AfterStop(co, isClosing) ==
  /\ client_connected' = FALSE
  /\ IF pc[co] \in {"certificate", "stopping"} /\ co = "refresh"
     THEN /\ StartClient
          /\ Goto(co, "waiting")
          /\ UNCHANGED owed
     ELSE /\ ready' = FALSE
          /\ closing' = isClosing
          /\ UNCHANGED <<client, paho>>
          /\ IF co = "close"
             THEN /\ Goto(co, IF registered THEN "delete" ELSE "done")
                  /\ UNCHANGED owed
             ELSE Raise(co)

\* Mutant: only an open session is disconnected.
BeginStopIfConnected(co, label) ==
  IF client # NoClient /\ client_connected
  THEN /\ closing' = TRUE
       /\ stopping' = [stopping EXCEPT ![co] = client]
       /\ client' = NoClient
       /\ Goto(co, label)
       /\ UNCHANGED <<client_connected, ready, paho, owed>>
  ELSE /\ AfterStop(co, TRUE)
       /\ UNCHANGED stopping

\* _stop_connection up to its first await; without a client it has none.
BeginStop(co, label) ==
  IF client # NoClient
  THEN /\ closing' = TRUE
       /\ stopping' = [stopping EXCEPT ![co] = client]
       /\ client' = NoClient
       /\ Goto(co, label)
       /\ UNCHANGED <<client_connected, ready, paho, owed>>
  ELSE /\ AfterStop(co, TRUE)
       /\ UNCHANGED stopping

-----------------------------------------------------------------------------
(***************************************************************************)
(* async_prepare_mqtt, called by set-up and by the refresh.                *)
(***************************************************************************)
\* POST /client succeeds.
Registered(co) ==
  /\ pc[co] = "register"
  /\ registered' = TRUE
  /\ Goto(co, "certificate")
  /\ UNCHANGED <<stopping, closing, client, client_connected, expires, ready, threads,
                 monitor_connected, counters>>

\* A POST fails, times out or has a malformed answer; or the certificate cannot
\* be used, and its expiry is stored already.
PrepareFails(co) ==
  /\ pc[co] \in {"register", "certificate"}
  /\ Raise(co)
  /\ expires' \in IF pc[co] = "certificate" THEN {expires, "valid"} ELSE {expires}
  /\ UNCHANGED <<stopping, closing, client, client_connected, registered, ready, threads,
                 monitor_connected, drops, refreshes>>

\* The certificate arrives during set-up; the subscriptions are posted next
\* and cannot fail the set-up.
SetupCertificate ==
  /\ pc["setup"] = "certificate"
  /\ expires' = "valid"
  /\ Goto("setup", "subscribe")
  /\ UNCHANGED <<stopping, closing, client, client_connected, registered, ready,
                 threads, monitor_connected, counters>>

SetupConnect ==
  /\ pc["setup"] = "subscribe"
  /\ StartClient
  /\ Goto("setup", "waiting")
  /\ UNCHANGED <<stopping, client_connected, registered, expires, queue,
                 monitor_connected, counters>>

\* The certificate arrives during a renewal: the old session is stopped.
RenewCertificate ==
  /\ pc["refresh"] = "certificate"
  /\ expires' = "valid"
  /\ BeginStop("refresh", "stopping")
  /\ UNCHANGED <<registered, queue, monitor_connected, drops, refreshes>>

(***************************************************************************)
(* The wait of async_connect_mqtt.                                         *)
(***************************************************************************)
ConnectTimeout(co) ==
  /\ pc[co] = "waiting"
  /\ BeginStop(co, "aborting")
  /\ UNCHANGED <<registered, expires, queue, monitor_connected, drops, refreshes>>

\* The topics were granted in time.
ConnectDone(co) ==
  /\ pc[co] = "woken"
  /\ Goto(co, IF co = "setup" THEN "done" ELSE "events")
  /\ owed' = FALSE
  /\ UNCHANGED <<stopping, object, threads, monitor_connected, drops, refreshes>>

(***************************************************************************)
(* async_refresh_subscribe                                                 *)
(***************************************************************************)
\* The 12-hour timer fires.  It is removed by on_unload, after close, once the
\* platforms are unloaded and the monitoring is closed.
RefreshTimer ==
  /\ pc["setup"] = "done"
  /\ pc["refresh"] = "idle"
  /\ AllowOverlap \/ pc["close"] = "idle"
  /\ refreshes < MaxRefreshes
  /\ refreshes' = refreshes + 1
  /\ Goto("refresh", IF expires = "due" THEN "register" ELSE "events")
  /\ UNCHANGED <<stopping, object, threads, monitor_connected, drops, owed>>

\* The event subscriptions have been posted again, successfully or not.
RefreshDone ==
  /\ pc["refresh"] = "events"
  /\ Goto("refresh", "idle")
  /\ UNCHANGED <<stopping, object, threads, monitor_connected, counters>>

(***************************************************************************)
(* async_disconnect, called by unload, by Home Assistant's stop event and  *)
(* by a set-up that fails later on.                                        *)
(***************************************************************************)
CloseBegins ==
  /\ pc["setup"] = "done"
  /\ pc["close"] = "idle"
  /\ AllowOverlap \/ pc["refresh"] = "idle"
  /\ Goto("close", "ending")
  /\ UNCHANGED <<stopping, object, threads, monitor_connected, counters>>

\* The unsubscriptions have been answered; the client is disconnected.
CloseStops ==
  /\ pc["close"] = "ending"
  /\ BeginStop("close", "stopping")
  /\ UNCHANGED <<registered, expires, queue, monitor_connected, drops, refreshes>>

\* DELETE /client has been answered or has failed.
CloseDeletes ==
  /\ pc["close"] = "delete"
  /\ registered' = FALSE
  /\ Goto("close", "done")
  /\ UNCHANGED <<stopping, closing, client, client_connected, expires, ready, threads,
                 monitor_connected, counters>>

\* A day is left on the certificate.
CertificateDue ==
  /\ expires = "valid"
  /\ expires' = "due"
  /\ UNCHANGED <<coroutines, closing, client, client_connected, registered, ready,
                 threads, monitor_connected, counters>>

-----------------------------------------------------------------------------
(***************************************************************************)
(* Paho's network threads.                                                 *)
(***************************************************************************)
\* _on_connect: while closing it neither reports nor subscribes.
OnConnect(p) ==
  /\ paho[p] = "trying"
  /\ IF closing
     THEN /\ paho' = [paho EXCEPT ![p] = "mute"]
          /\ UNCHANGED <<client_connected, queue>>
     ELSE /\ paho' = [paho EXCEPT ![p] = "connected"]
          /\ client_connected' = TRUE
          /\ queue' = Append(queue, <<"connected", p>>)
  /\ UNCHANGED <<coroutines, closing, client, registered, expires, ready,
                 monitor_connected, counters>>

\* _on_subscribe: the topics are granted.
OnSubscribe(p) ==
  /\ paho[p] = "connected"
  /\ paho' = [paho EXCEPT ![p] = "subscribed"]
  /\ queue' = Append(queue, <<"ready", p>>)
  /\ UNCHANGED <<coroutines, object, monitor_connected, counters>>

\* Mutant: a lost session is not announced to the coordinators.
OnDisconnectSilent(p) ==
  /\ paho[p] \in InSession
  /\ drops < MaxDrops
  /\ drops' = drops + 1
  /\ paho' = [paho EXCEPT ![p] = "trying"]
  /\ client_connected' = FALSE
  /\ queue' = Append(queue, <<"unready", p>>)
  /\ UNCHANGED <<coroutines, closing, client, registered, expires, ready,
                 monitor_connected, refreshes, owed>>

\* _on_disconnect: the session is lost and Paho starts to reconnect.
OnDisconnect(p) ==
  /\ paho[p] \in InSession
  /\ drops < MaxDrops
  /\ drops' = drops + 1
  /\ paho' = [paho EXCEPT ![p] = "trying"]
  /\ client_connected' = FALSE
  /\ queue' = queue \o Lost(p)
  /\ UNCHANGED <<coroutines, closing, client, registered, expires, ready,
                 monitor_connected, refreshes, owed>>

\* Mutant: the coroutine does not wait for disconnect and loop_stop.
PahoStopsUnawaited(co) ==
  /\ stopping[co] # NoClient
  /\ queue' = Append(queue, <<"stopped", co>>)
  /\ stopping' = [stopping EXCEPT ![co] = NoClient]
  /\ UNCHANGED <<pc, object, paho, monitor_connected, counters>>

\* disconnect() and loop_stop(): an open session ends with _on_disconnect, the
\* thread is joined, and then the coroutine that waits is told.
PahoStops(co) ==
  /\ stopping[co] # NoClient
  /\ LET p == stopping[co] IN
       /\ paho' = [paho EXCEPT ![p] = "stopped"]
       /\ IF paho[p] \in InSession
          THEN /\ client_connected' = FALSE
               /\ queue' = queue \o Lost(p) \o <<<<"stopped", co>>>>
          ELSE /\ queue' = Append(queue, <<"stopped", co>>)
               /\ UNCHANGED client_connected
  /\ stopping' = [stopping EXCEPT ![co] = NoClient]
  /\ UNCHANGED <<pc, closing, client, registered, expires, ready,
                 monitor_connected, counters>>

(***************************************************************************)
(* The event loop runs the callbacks the threads left, in order.           *)
(***************************************************************************)
\* ThinQMQTT._connection_changed, for every coordinator.
ConnectionChanged ==
  /\ queue # <<>>
  /\ Head(queue)[1] \in {"connected", "disconnected"}
  /\ monitor_connected' = (Head(queue)[1] = "connected")
  /\ queue' = Tail(queue)
  /\ UNCHANGED <<coroutines, object, paho, counters>>

\* _ready.set wakes whoever waits for it; _ready.clear wakes nobody.
ReadyChanged ==
  /\ queue # <<>>
  /\ Head(queue)[1] \in {"ready", "unready"}
  /\ ready' = (Head(queue)[1] = "ready")
  /\ pc' = [co \in Coroutine |->
              IF ready' /\ pc[co] = "waiting" THEN "woken" ELSE pc[co]]
  /\ queue' = Tail(queue)
  /\ UNCHANGED <<stopping, closing, client, client_connected, registered, expires, paho,
                 monitor_connected, counters>>

\* The to_thread call of a stop is over: the coroutine goes on.
StopDone(co) ==
  /\ queue # <<>>
  /\ Head(queue) = <<"stopped", co>>
  /\ AfterStop(co, closing)
  /\ queue' = Tail(queue)
  /\ UNCHANGED <<stopping, registered, expires, monitor_connected, drops, refreshes>>

-----------------------------------------------------------------------------
LoopStep ==
  \/ \E co \in Coroutine : StopDone(co)
  \/ ConnectionChanged
  \/ ReadyChanged

SessionNext ==
  \/ \E co \in {"setup", "refresh"} :
       Registered(co) \/ PrepareFails(co) \/ ConnectTimeout(co) \/ ConnectDone(co)
  \/ SetupCertificate
  \/ SetupConnect
  \/ RenewCertificate
  \/ RefreshTimer
  \/ RefreshDone
  \/ CloseBegins
  \/ CloseStops
  \/ CloseDeletes
  \/ CertificateDue
  \/ \E p \in Pahos : OnConnect(p) \/ OnSubscribe(p) \/ OnDisconnect(p)
  \/ \E co \in Coroutine : PahoStops(co)
  \/ LoopStep

SessionSpec == SessionInit /\ [][SessionNext]_session_vars

-----------------------------------------------------------------------------
(***************************************************************************)
(* Properties.                                                             *)
(***************************************************************************)
Callback == ({"connected", "disconnected", "ready", "unready"} \X Pahos)
            \cup ({"stopped"} \X Coroutine)

\* Every variable has its type, and no coroutine stands at a label of another.
SessionTypeOK ==
  /\ pc \in [Coroutine -> {"idle", "register", "certificate", "subscribe",
                           "waiting", "woken", "aborting", "stopping", "events",
                           "ending", "delete", "done", "failed"}]
  /\ pc["setup"] \notin {"idle", "stopping", "events", "ending", "delete"}
  /\ pc["refresh"] \notin {"subscribe", "ending", "delete", "done", "failed"}
  /\ pc["close"] \in {"idle", "ending", "stopping", "delete", "done"}
  /\ stopping \in [Coroutine -> Pahos \cup {NoClient}]
  /\ closing \in BOOLEAN
  /\ client \in Pahos \cup {NoClient}
  /\ client_connected \in BOOLEAN
  /\ registered \in BOOLEAN
  /\ expires \in {"none", "valid", "due"}
  /\ ready \in BOOLEAN
  /\ paho \in [Pahos -> Live \cup {"unused", "stopped"}]
  /\ queue \in Seq(Callback)
  /\ monitor_connected \in BOOLEAN
  /\ drops \in Nat
  /\ refreshes \in Nat
  /\ owed \in BOOLEAN

\* LG accepts one session per client id: two Paho clients of one entry would
\* keep disconnecting each other.
OneSession == Cardinality({p \in Pahos : paho[p] \in Live}) <= 1

\* The connection sensor follows the session: once the loop has caught up with
\* the threads it shows a connection exactly when one has been announced.
ConnectionShown ==
  queue = <<>> =>
    (monitor_connected <=> \E p \in Pahos : paho[p] \in {"connected", "subscribed"})

\* Set-up and renewal report success only for a client whose own topics were
\* granted, never on a left-over acknowledgement of an earlier session.
WokenBySubscriptionStep ==
  \A co \in {"setup", "refresh"} :
    pc[co] = "waiting" /\ pc'[co] = "woken" => Head(queue) = <<"ready", client>>
WokenBySubscription == [][WokenBySubscriptionStep]_session_vars

\* "Unregister client and disconnects handlers" (async_disconnect): when it is
\* over the client is not registered, and no network thread is left but one that
\* is being stopped.
TornDown ==
  pc["close"] = "done" =>
    /\ \A p \in Pahos : paho[p] \in Live => \E co \in Coroutine : stopping[co] = p
    /\ ~registered

\* "Could not renew LG MQTT certificate; retry at next renewal": the run of the
\* timer after a failed renewal tries again.
RetriedAtNextRenewal ==
  [][owed /\ pc["refresh"] = "idle" /\ pc'["refresh"] # "idle"
       => pc'["refresh"] = "register"]_session_vars
=============================================================================
