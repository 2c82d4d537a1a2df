------------------------------- MODULE TcpBroker -------------------------------
(***************************************************************************)
(* The tcp thread and the mqtt thread together.  They share nothing but    *)
(* the two queues; each step of one may come between any two of the other. *)
(***************************************************************************)
EXTENDS TcpThread, MqttBroker

vars == <<queues, tcp_vars, mqtt_vars>>

Init ==
  /\ tcp_mqtt = <<>>
  /\ mqtt_tcp = <<>>
  /\ TcpInit
  /\ MqttInit

Next ==
  \/ TcpNext /\ UNCHANGED mqtt_vars
  \/ MqttNext /\ UNCHANGED tcp_vars

Spec == Init /\ [][Next]_vars

\* The mqtt thread polls its queue and its clock without waiting for anything,
\* and select times out again and again as long as clients pause, if only for
\* a hundredth of a second.  Nothing is assumed of clients and new connections.
FairSpec ==
  /\ Spec
  /\ WF_vars(HandleNotice /\ UNCHANGED tcp_vars)
  /\ WF_vars(HandlePacket /\ UNCHANGED tcp_vars)
  /\ WF_vars(Timer /\ UNCHANGED tcp_vars)
  /\ WF_vars(Serve /\ UNCHANGED mqtt_vars)

-----------------------------------------------------------------------------

Message ==
  [addr : Addrs, close : BOOLEAN, conn : Conns \cup {NoConn}, packets : Seq(Packet)]

\* Every variable has the values its declaration describes.
TypeOK ==
  /\ tcp_mqtt \in Seq(Message)
  /\ \A i \in DOMAIN mqtt_tcp : mqtt_tcp[i].addr \in Addrs
  /\ sock \in [Conns -> {"new", "open", "closed"}]
  /\ \A k \in Conns : script[k] \in Scripts[k] \cup {<<>>}
  /\ recvd \in [Conns -> Nat]
  /\ passed \in [Conns -> Nat]
  /\ mqtt_conns \in Seq(Addrs)
  /\ mqtt_conn \in [Addrs -> Session]
  /\ pub_list \in Seq([topic : Topics, retain : BOOLEAN])
  /\ proc \in Nat
  /\ handled \in [Conns -> Nat]
  /\ past \subseteq Conns
  /\ ordered \subseteq Conns

-----------------------------------------------------------------------------
(* Safety *)

Owner(a) == mqtt_conn[a].conn

IsNotice(i, a) == tcp_mqtt[i].close /\ tcp_mqtt[i].addr = a
IsPacketOf(i, k) == ~tcp_mqtt[i].close /\ tcp_mqtt[i].conn = k

\* conn_close and mqtt_conn_remove are two threads apart: the session of a
\* connection that is closed is there only as long as the close notice is on
\* its way, and no packet of a newer connection from the address is ahead of it.
SessionFollowsConnection ==
  \A a \in Live :
    sock[Owner(a)] = "closed" =>
      \E i \in DOMAIN tcp_mqtt :
        /\ IsNotice(i, a)
        /\ \A j \in 1..(i - 1) : tcp_mqtt[j].addr = a /\ ~tcp_mqtt[j].close
                                   => tcp_mqtt[j].conn = Owner(a)

\* mqtt_message_handle and the loop of thread_run: of each connection the
\* packets that were received whole and not handled yet are in the queue, each
\* once and in order, however the reads cut the stream.
PacketsOf(k) ==
  FlattenSeq([i \in DOMAIN tcp_mqtt |->
                IF IsPacketOf(i, k) THEN tcp_mqtt[i].packets ELSE <<>>])

Unhandled(k) ==
  IF tcp_mqtt # <<>> /\ ~First.close /\ From = k
  THEN SubSeq(PacketsOf(k), proc + 1, Len(PacketsOf(k)))
  ELSE PacketsOf(k)

HandledInOrder ==
  \A k \in Conns : Unhandled(k) = SubSeq(script[k], handled[k] + 1, passed[k])

\* A packet is handled in the session of its own connection or in none:
\* mqtt_conn_find_addr never finds the session of an older connection that
\* came from the same address.
OwnSession ==
  [][\A k \in Conns : handled'[k] # handled[k] /\ AddrOf[k] \in Live
                        => Owner(AddrOf[k]) = k]_vars

\* A client that is refused, breaks the protocol, says goodbye or expires is
\* disconnected: until its socket is closed an order for its address is queued.
OrderOnItsWay ==
  \A k \in ordered : sock[k] = "open" => OrderFor(AddrOf[k])

\* mqtt_conn_close, on a timeout, a broken protocol or a broken connection
\* alike: the will of a session that ends is in the store and with each other
\* subscriber once, and is not sent to the address itself, where a newer
\* connection may be.  A client that said goodbye is left out: the code
\* publishes its will too, where MQTT 3.1.1 [MQTT-3.14.4-3] wants it discarded.
SaidGoodbye(k) ==
  \E i, j \in 1..handled[k] :
    i < j /\ script[k][i].type = "CONNECT" /\ script[k][j].type = "DISCONNECT"

PublicationsTo(q, a, topic) ==
  {i \in DOMAIN q : ~q[i].close /\ q[i].addr = a
                      /\ q[i].packet.type = "PUBLISH" /\ q[i].packet.topic = topic}

WillPublished ==
  [][\A a \in Live :
       LET will == mqtt_conn[a].will
           NewTo(b) == Cardinality(PublicationsTo(mqtt_tcp', b, will.topic))
                         - Cardinality(PublicationsTo(mqtt_tcp, b, will.topic))
       IN  a \notin Live' /\ will # NoWill /\ ~SaidGoodbye(Owner(a))
             => /\ \E i \in DOMAIN pub_list' : pub_list'[i] = will
                /\ \A b \in Addrs :
                     NewTo(b) = IF b \in Live \ {a} /\ MatchesIn(b, will.topic) # {}
                                THEN 1 ELSE 0]_vars

-----------------------------------------------------------------------------
(* Liveness *)

\* An order to close is carried out, also when newer ones follow.
OrderedIsClosed == \A k \in Conns : k \in ordered ~> sock[k] = "closed"

\* A client with a keep-alive that falls silent, as every client does here when
\* its script is over or before, loses its session, whether or not its
\* connection stays open.
SilentClientEnds ==
  \A k \in Conns :
    (AddrOf[k] \in Live /\ Owner(AddrOf[k]) = k
       /\ mqtt_conn[AddrOf[k]].keepalivesec # 0) ~> k \in past

-----------------------------------------------------------------------------
(* The abstract specification *)

SessionOf(k) ==
  IF k \in past THEN "ended"
  ELSE IF AddrOf[k] \in Live /\ Owner(AddrOf[k]) = k THEN "live"
  ELSE "none"

Sessions == INSTANCE ConnectionSessions WITH session <- [k \in Conns |-> SessionOf(k)]

\* The two threads give each connection the one session ConnectionSessions
\* describes, and end it.
ImplementsSessions == Sessions!FairSpec

=============================================================================
