---------------------------- MODULE MCMqttBridge ----------------------------
(* Instances of MqttBridge for TLC. *)
EXTENDS MqttBridge, TLC
=============================================================================
