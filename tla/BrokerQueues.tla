----------------------------- MODULE BrokerQueues -----------------------------
(***************************************************************************)
(* The two queues between the "tcp" thread, which owns the sockets of the  *)
(* MQTT clients, and the "mqtt" thread, which owns their sessions          *)
(* (msgs.c, msg_tcp_mqtt.c, msg_mqtt_tcp.c).  Both carry a copy of the     *)
(* client's address and either packets or a close flag; neither names a    *)
(* connection, and an address is used again by later connections.          *)
(*                                                                         *)
(* A connection is one accepted socket.  The field "conn" of a message is  *)
(* not in the code: it records which connection a message was made for.    *)
(***************************************************************************)
EXTENDS Integers, FiniteSets, SequencesExt

CONSTANTS
  Addrs,    \* addresses (and ports) of clients
  Conns,    \* the connections made during a run, numbered
  AddrOf,   \* the address each connection is made from
  NoConn,   \* connection of a notice that answers an order without a match
  Topics,   \* topic names
  NoTopic,  \* no will topic
  Users     \* mqtt_users: user names with their publish_enable, may be empty

ASSUME ConnsAssumption ==
  /\ Conns \subseteq Nat
  /\ NoConn \notin Conns
  /\ AddrOf \in [Conns -> Addrs]

VARIABLES
  tcp_mqtt,  \* packets read and connections closed, for the mqtt thread
  mqtt_tcp   \* packets to send and connections to close, for the tcp thread

queues == <<tcp_mqtt, mqtt_tcp>>

-----------------------------------------------------------------------------
(* Packets, with the fields the handlers branch on *)

\* A filter is the set of the topics it matches (see TopicFilters).
Filters == SUBSET Topics
Subscription == [filter : Filters, qos : 0..2]

NoWill == [topic |-> NoTopic, retain |-> FALSE]
Will == [topic : Topics, retain : BOOLEAN] \cup {NoWill}

ConnectPacket ==
  [type : {"CONNECT"}, version_ok : BOOLEAN, id_ok : BOOLEAN,
   user : STRING, keep_alive_timer : Nat, will : Will]
PublishPacket ==
  [type : {"PUBLISH"}, topic : Topics, qos : 0..2, retain : BOOLEAN, empty : BOOLEAN]
SubscribePacket == [type : {"SUBSCRIBE"}, subs : Seq(Subscription)]
UnsubscribePacket == [type : {"UNSUBSCRIBE"}, filters : Seq(Filters)]

\* Packets whose type is all the broker looks at.
BareTypes == {"PUBACK", "PUBREC", "PUBREL", "PUBCOMP", "PINGREQ", "DISCONNECT"}
BarePacket == [type : BareTypes]

Packet == ConnectPacket \cup PublishPacket \cup SubscribePacket
            \cup UnsubscribePacket \cup BarePacket

-----------------------------------------------------------------------------
(* Messages: the queues are first in, first out *)

Received(k, packets) ==
  [addr |-> AddrOf[k], close |-> FALSE, conn |-> k, packets |-> packets]

\* msg_tcp_mqtt_add_close_conn: the connection at an address is gone.
Notice(a, k) == [addr |-> a, close |-> TRUE, conn |-> k, packets |-> <<>>]

ToSend(a, packet) == [addr |-> a, close |-> FALSE, packet |-> packet]

\* msg_mqtt_tcp_add_close_conn: close the connection at an address.
Order(a) == [addr |-> a, close |-> TRUE]

OrderFor(a) == \E i \in DOMAIN mqtt_tcp : mqtt_tcp[i] = Order(a)

=============================================================================
