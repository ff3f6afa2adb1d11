---------------------------- MODULE MCMqttClient ----------------------------
(* Instances of MqttClient for TLC. *)
EXTENDS MqttClientProperties, TLC

=============================================================================
