---------------------------- MODULE MCMqttStream ----------------------------
(***************************************************************************)
(* Instances of MqttStream for TLC.                                        *)
(***************************************************************************)
EXTENDS MqttStream, TLC
=============================================================================
