-------------------------------- MODULE Link --------------------------------
(***************************************************************************)
(* What an entry does with LG's servers: the gate its requests pass, its   *)
(* MQTT session, the states that come back, and the local history of a     *)
(* washer that is fed with them.                                           *)
(*                                                                         *)
(* Each is checked by itself, with its own properties: "part" tells which  *)
(* one a behaviour is of, and the others stay as they begin.               *)
(***************************************************************************)
EXTENDS Observations, RequestGate, MqttSession, StateFeed

VARIABLE part

all == <<part, vars, gate_vars, session_vars, feed_vars>>

LinkInit ==
  /\ part \in {"washer", "gate", "session", "feed"}
  /\ Init /\ GateInit /\ SessionInit /\ FeedInit

WasherStep ==
  /\ part = "washer"
  /\ Next
  /\ UNCHANGED <<gate_vars, session_vars, feed_vars>>

GateStep ==
  /\ part = "gate"
  /\ GateNext
  /\ UNCHANGED <<vars, session_vars, feed_vars>>

SessionStep ==
  /\ part = "session"
  /\ SessionNext
  /\ UNCHANGED <<vars, gate_vars, feed_vars>>

FeedStep ==
  /\ part = "feed"
  /\ FeedNext
  /\ UNCHANGED <<vars, gate_vars, session_vars>>

LinkNext ==
  /\ UNCHANGED part
  /\ WasherStep \/ GateStep \/ SessionStep \/ FeedStep

LinkSpec == LinkInit /\ [][LinkNext]_all
=============================================================================
