----------------------------- MODULE MCWsFraming -----------------------------
(* Instances of WsFraming for TLC. *)
EXTENDS WsFraming

F(opcode, size) == [opcode |-> opcode, pld_size |-> size]

Kinds == {F("BINARY", 1), F("BINARY", 3), F("PING", 0), F("PONG", 2), F("CONNECTION_CLOSE", 0)}

ScriptsToCheck == UNION {[1..n -> Kinds] : n \in 1..3}

=============================================================================
