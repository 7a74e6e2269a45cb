---------------------------- MODULE MCMqttSession ----------------------------
(***************************************************************************)
(* Instances of MqttSession.  A Paho client is created by set-up and by    *)
(* each renewal, so two refreshes need three of them.                      *)
(***************************************************************************)
EXTENDS MqttSession
=============================================================================
