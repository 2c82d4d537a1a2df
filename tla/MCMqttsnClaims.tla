---------------------------- MODULE MCMqttsnClaims ----------------------------
(* Instances of MqttsnClaims for TLC. *)
EXTENDS MqttsnClaims

CONSTANTS c1, a1, t1

NoWills == {NoWill}

=============================================================================
