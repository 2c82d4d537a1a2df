--------------------------- MODULE MCMqttsnGateway ---------------------------
(* Instances of MqttsnGateway for TLC. *)
EXTENDS MqttsnGateway

CONSTANTS c1, c2, a1, a2, t1, t2, t3

NoWildcards == {}
OneWildcard == {Topics}

NoWills == {NoWill}
EmptyOrRetained == {NoWill, [topic |-> t1, retain |-> TRUE]}
AllWills == Will

Symmetry == Permutations(Clients) \cup Permutations(Addrs)
TopicSymmetry == Permutations(Topics)

=============================================================================
