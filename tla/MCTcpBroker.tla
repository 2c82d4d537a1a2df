------------------------------ MODULE MCTcpBroker ------------------------------
(* Instances of TcpBroker for TLC. *)
EXTENDS TcpBroker

CONSTANTS a1, a2, t1

\* Two connections from one address and one from another.
AddrOfConn == <<a1, a1, a2>>

OneUser == "known" :> TRUE @@ "reader" :> FALSE

Hello == [type |-> "CONNECT", version_ok |-> TRUE, id_ok |-> TRUE, user |-> "known",
          keep_alive_timer |-> 0, will |-> NoWill]
Dying == [Hello EXCEPT !.keep_alive_timer = 1, !.will = [topic |-> t1, retain |-> TRUE]]
Unknown == [Hello EXCEPT !.user = "unknown"]
Reader == [Hello EXCEPT !.user = "reader"]
Old == [Hello EXCEPT !.version_ok = FALSE]
Nameless == [Hello EXCEPT !.id_ok = FALSE]

Pub(qos, retain) ==
  [type |-> "PUBLISH", topic |-> t1, qos |-> qos, retain |-> retain, empty |-> FALSE]
Sub == [type |-> "SUBSCRIBE", subs |-> <<[filter |-> {t1}, qos |-> 1]>>]
Unsub == [type |-> "UNSUBSCRIBE", filters |-> <<{t1}>>]
P(type) == [type |-> type]

\* What the two clients of the one address and the client of the other may send.
Earlier == {<<Dying, Sub>>, <<Unknown, Sub>>}
Later == {<<Dying, P("PUBREC")>>, <<Reader, Pub(0, FALSE)>>, <<P("PINGREQ"), Old>>,
          <<Nameless>>, <<Hello, Unsub>>, <<Hello, Pub(1, TRUE)>>, <<Hello, Hello>>}
Other == {<<Hello, Sub, P("DISCONNECT")>>}

ScriptsToCheck == <<Earlier, Later, Other>>

=============================================================================
