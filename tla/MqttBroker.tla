------------------------------ MODULE MqttBroker ------------------------------
(***************************************************************************)
(* The MQTT half of the "mqtt" thread (thread_mqtt.c with mqtt.c,          *)
(* list_mqtt_conn.c and lists.c): the sessions, the retained publications, *)
(* the packet handlers and the MQTT part of timer_handle.                  *)
(*                                                                         *)
(* A publication also goes to the MQTT-SN sessions, to the rules engine    *)
(* and, on the rules topic, to the rules file; those parts and the topic   *)
(* ids are in MqttsnGateway and RulesEngine.  Message ids are left out:    *)
(* the broker copies the client's and looks at none it has sent itself.    *)
(* The filters of one SUBSCRIBE are taken to be distinct.                  *)
(***************************************************************************)
EXTENDS BrokerQueues

CONSTANT MaxQueue  \* the timer does not outrun the queues: longest it may meet

ASSUME UsersAssumption == \A u \in DOMAIN Users : Users[u] \in BOOLEAN
ASSUME QueueAssumption == MaxQueue \in Nat \ {0}

VARIABLES
  mqtt_conns,  \* addresses with a session, in list order
  mqtt_conn,   \* the session record of each address
  pub_list,    \* topics ever published, in list order, with their retain flag
  proc,        \* packets of the first message handled (proc_msg_cnt)
  handled,     \* history: packets of each connection handled
  past,        \* history: connections whose session has ended
  ordered      \* history: connections the broker has ordered to close

history == <<handled, past, ordered>>
mqtt_vars == <<mqtt_conns, mqtt_conn, pub_list, proc, handled, past, ordered>>

\* list_mqtt_conn_t; conn is history: the connection that brought the CONNECT.
Session == [keepalivesec : Nat, remainsec : Nat, publish_enable : BOOLEAN,
            sub_list : Seq(Subscription), will : Will, conn : Conns \cup {NoConn}]

\* A record as list_mqtt_conn_add_new makes it.
NewSession(k) == [keepalivesec |-> 0, remainsec |-> 0, publish_enable |-> FALSE,
                  sub_list |-> <<>>, will |-> NoWill, conn |-> k]
NoSession == NewSession(NoConn)

MqttInit ==
  /\ mqtt_conns = <<>>
  /\ mqtt_conn = [a \in Addrs |-> NoSession]
  /\ pub_list = <<>>
  /\ proc = 0
  /\ handled = [k \in Conns |-> 0]
  /\ past = {}
  /\ ordered = {}

Live == ToSet(mqtt_conns)

-----------------------------------------------------------------------------
(* Publications *)

\* The elements of the finite set R in ascending order of rank.
InOrder(R, rank) ==
  [n \in 1..Cardinality(R) |->
     CHOOSE x \in R : Cardinality({y \in R : rank[y] =< rank[x]}) = n]

\* The elements of s at the places in I, in the order of s.
Picked(s, I) ==
  LET place == InOrder(I, [i \in I |-> i])
  IN  [n \in 1..Cardinality(I) |-> s[place[n]]]

\* list_pub_add_replace: the retain flag of the last publication counts.
PubAddReplace(topic, retain) ==
  IF \E i \in DOMAIN pub_list : pub_list[i].topic = topic
  THEN [i \in DOMAIN pub_list |->
          IF pub_list[i].topic = topic THEN [pub_list[i] EXCEPT !.retain = retain]
                                       ELSE pub_list[i]]
  ELSE Append(pub_list, [topic |-> topic, retain |-> retain])

PublishTo(a, topic, qos, retain) ==
  ToSend(a, [type |-> "PUBLISH", topic |-> topic, qos |-> qos, retain |-> retain])

\* list_pub_sub_matches: places of the subscriptions of a session to a topic.
MatchesIn(a, topic) ==
  {i \in DOMAIN mqtt_conn[a].sub_list : topic \in mqtt_conn[a].sub_list[i].filter}

\* The first matching subscription gives the quality of service.
QosFor(a, topic) ==
  mqtt_conn[a].sub_list[CHOOSE i \in MatchesIn(a, topic) :
                          \A j \in MatchesIn(a, topic) : i =< j].qos

\* mqtt_publish_send, to the subscribers in the set of addresses among.
PublishSend(topic, retain, among) ==
  LET to == {i \in DOMAIN mqtt_conns :
               mqtt_conns[i] \in among /\ MatchesIn(mqtt_conns[i], topic) # {}}
      subscribers == Picked(mqtt_conns, to)
  IN  [n \in DOMAIN subscribers |->
         PublishTo(subscribers[n], topic, QosFor(subscribers[n], topic), retain)]

-----------------------------------------------------------------------------
(* The first message of the queue *)

First == Head(tcp_mqtt)
HasFirst(close) == tcp_mqtt # <<>> /\ First.close = close

Current == First.packets[proc + 1]
Sender == First.addr
From == First.conn

\* One turn of the loop around mqtt_packet_handle: a message goes when all
\* its packets are handled.
Take ==
  /\ HasFirst(FALSE)
  /\ IF proc + 1 < Len(First.packets)
     THEN proc' = proc + 1 /\ UNCHANGED tcp_mqtt
     ELSE proc' = 0 /\ tcp_mqtt' = Tail(tcp_mqtt)
  /\ handled' = [handled EXCEPT ![From] = @ + 1]

Answer(packets) ==
  mqtt_tcp' = mqtt_tcp \o [i \in DOMAIN packets |-> ToSend(Sender, packets[i])]

\* Mutant of OrderClose: the answer is sent and the connection left open.
OrderForgotten(packets) == Answer(packets)

\* Packets to the sender and, behind them, the order to close its connection.
OrderClose(packets) ==
  mqtt_tcp' = Append(mqtt_tcp \o [i \in DOMAIN packets |-> ToSend(Sender, packets[i])],
                     Order(Sender))

\* A packet whose type is all the client sees of it.
Bare(type) == <<[type |-> type]>>

-----------------------------------------------------------------------------
(* The end of a session *)

\* Mutant of WillTo: the will goes to the session that ends as well.
WillToAll(a) == Live

\* mqtt_conn_close hides the subscriptions of the session itself.
WillTo(a) == Live \ {a}

\* Mutant of EndSession: the will is published, the record is not removed.
EndSessionKeeping(a) ==
  LET will == mqtt_conn[a].will IN
  /\ IF will = NoWill
     THEN UNCHANGED <<pub_list, mqtt_tcp>>
     ELSE /\ pub_list' = PubAddReplace(will.topic, will.retain)
          /\ mqtt_tcp' = mqtt_tcp \o PublishSend(will.topic, will.retain, WillTo(a))
  /\ UNCHANGED <<mqtt_conns, mqtt_conn, past>>

\* mqtt_conn_close and mqtt_conn_remove
EndSession(a) ==
  LET will == mqtt_conn[a].will IN
  /\ IF will = NoWill
     THEN UNCHANGED <<pub_list, mqtt_tcp>>
     ELSE /\ pub_list' = PubAddReplace(will.topic, will.retain)
          /\ mqtt_tcp' = mqtt_tcp \o PublishSend(will.topic, will.retain, WillTo(a))
  /\ mqtt_conns' = RemoveFirst(mqtt_conns, a)
  /\ mqtt_conn' = [mqtt_conn EXCEPT ![a] = NoSession]
  /\ past' = past \cup {mqtt_conn[a].conn}

\* A close notice; without a session at its address it decodes to nothing.
HandleNotice ==
  /\ HasFirst(TRUE)
  /\ tcp_mqtt' = Tail(tcp_mqtt)
  /\ IF Sender \in Live
     THEN EndSession(Sender)
     ELSE UNCHANGED <<pub_list, mqtt_tcp, mqtt_conns, mqtt_conn, past>>
  /\ UNCHANGED <<proc, handled, ordered>>

-----------------------------------------------------------------------------
(* Packets of a sender without a session *)

\* Before its CONNECT a client is not heard.
Ignore ==
  /\ Take
  /\ Sender \notin Live
  /\ Current.type # "CONNECT"
  /\ UNCHANGED <<mqtt_tcp, mqtt_conns, mqtt_conn, pub_list, past, ordered>>

\* mqtt_connect_decode
ConnectCode(p) ==
  IF ~p.version_ok THEN "REFUSED_PROTOCOL_VERSION"
  ELSE IF ~p.id_ok THEN "REFUSED_IDENTIFIER_REJECTED"
  ELSE IF DOMAIN Users # {} /\ p.user \notin DOMAIN Users
       THEN "REFUSED_BAD_USER_NAME_PASSWORD"
  ELSE "ACCEPTED"

MayPublish(p) == DOMAIN Users = {} \/ Users[p.user]

Connack(code) == <<[type |-> "CONNACK", code |-> code]>>

\* A CONNECT that is refused leaves its record, and the order to close.
Connect ==
  /\ Take
  /\ Sender \notin Live
  /\ Current.type = "CONNECT"
  /\ mqtt_conns' = Append(mqtt_conns, Sender)
  /\ LET p == Current
         code == ConnectCode(p)
     IN  IF code = "ACCEPTED"
         THEN /\ mqtt_conn' = [mqtt_conn EXCEPT ![Sender] =
                   [NewSession(From) EXCEPT !.keepalivesec = p.keep_alive_timer,
                                            !.remainsec = p.keep_alive_timer,
                                            !.publish_enable = MayPublish(p),
                                            !.will = p.will]]
              /\ Answer(Connack(code))
              /\ UNCHANGED ordered
         ELSE /\ mqtt_conn' = [mqtt_conn EXCEPT ![Sender] = NewSession(From)]
              /\ OrderClose(Connack(code))
              /\ ordered' = ordered \cup {From}
  /\ UNCHANGED <<pub_list, past>>

-----------------------------------------------------------------------------
(* Packets of a session *)

HasSession == Take /\ Sender \in Live

\* A second CONNECT is the one packet that does not count as a sign of life.
ConnectAgain ==
  /\ HasSession
  /\ Current.type = "CONNECT"
  /\ OrderClose(Connack("REFUSED_PROTOCOL_VERSION"))
  /\ ordered' = ordered \cup {From}
  /\ UNCHANGED <<mqtt_conns, mqtt_conn, pub_list, past>>

\* list_mqtt_conn_reset_remainsec, and the subscriptions the packet leaves.
Heard(subs) ==
  mqtt_conn' = [mqtt_conn EXCEPT ![Sender].remainsec = mqtt_conn[Sender].keepalivesec,
                                 ![Sender].sub_list = subs]

Subs == mqtt_conn[Sender].sub_list

PublishForbidden ==
  /\ HasSession
  /\ Current.type = "PUBLISH"
  /\ ~mqtt_conn[Sender].publish_enable
  /\ Heard(Subs)
  /\ OrderClose(<<>>)
  /\ ordered' = ordered \cup {From}
  /\ UNCHANGED <<mqtt_conns, pub_list, past>>

PublishAnswer(qos) == CASE qos = 0 -> <<>>
                        [] qos = 1 -> Bare("PUBACK")
                        [] qos = 2 -> Bare("PUBREC")

\* The publisher is among the subscribers.
Publish ==
  /\ HasSession
  /\ Current.type = "PUBLISH"
  /\ mqtt_conn[Sender].publish_enable
  /\ Heard(Subs)
  /\ LET p == Current
         retain == p.retain /\ ~p.empty
         answer == PublishAnswer(p.qos)
     IN  /\ pub_list' = PubAddReplace(p.topic, retain)
         /\ mqtt_tcp' = mqtt_tcp \o [i \in DOMAIN answer |-> ToSend(Sender, answer[i])]
                                 \o PublishSend(p.topic, retain, Live)
  /\ UNCHANGED <<mqtt_conns, past, ordered>>

\* list_sub_add_replace for every subscription of the packet.
SubAddReplaceAll(subs, new) ==
  LET NewFor(f) == {n \in DOMAIN new : new[n].filter = f}
      added == Picked(new, {n \in DOMAIN new :
                              \A i \in DOMAIN subs : subs[i].filter # new[n].filter})
  IN  [i \in DOMAIN subs |->
         IF NewFor(subs[i].filter) = {} THEN subs[i]
         ELSE new[CHOOSE n \in NewFor(subs[i].filter) : TRUE]]
      \o added

\* list_sub_pub_matches for each subscription of the packet: the retained
\* publications, with the first quality of service of the session.
RetainedFor(new, subs) ==
  LET pairs == {x \in (DOMAIN new) \X (DOMAIN pub_list) :
                  /\ pub_list[x[2]].retain
                  /\ pub_list[x[2]].topic \in new[x[1]].filter}
      order == InOrder(pairs, [x \in pairs |-> x[1] * (Len(pub_list) + 1) + x[2]])
  IN  [n \in DOMAIN order |->
         PublishTo(Sender, pub_list[order[n][2]].topic, subs[1].qos, TRUE)]

Subscribe ==
  /\ HasSession
  /\ Current.type = "SUBSCRIBE"
  /\ LET new == Current.subs
         subs == SubAddReplaceAll(Subs, new)
         suback == [type |-> "SUBACK", qos |-> [i \in DOMAIN new |-> new[i].qos]]
     IN  /\ Heard(subs)
         /\ mqtt_tcp' = Append(mqtt_tcp, ToSend(Sender, suback)) \o RetainedFor(new, subs)
  /\ UNCHANGED <<mqtt_conns, pub_list, past, ordered>>

Unsubscribe ==
  /\ HasSession
  /\ Current.type = "UNSUBSCRIBE"
  /\ Heard(Picked(Subs, {i \in DOMAIN Subs : Subs[i].filter \notin ToSet(Current.filters)}))
  /\ Answer(Bare("UNSUBACK"))
  /\ UNCHANGED <<mqtt_conns, pub_list, past, ordered>>

\* What the broker answers to a packet it keeps no state for.
Reply == [PUBACK |-> <<>>, PUBCOMP |-> <<>>,
          PUBREC |-> Bare("PUBREL"), PUBREL |-> Bare("PUBCOMP"),
          PINGREQ |-> Bare("PINGRESP")]

Stateless ==
  /\ HasSession
  /\ Current.type \in DOMAIN Reply
  /\ Heard(Subs)
  /\ Answer(Reply[Current.type])
  /\ UNCHANGED <<mqtt_conns, pub_list, past, ordered>>

\* Mutant of Disconnect: the session is removed at once.
DisconnectAtOnce ==
  /\ HasSession
  /\ Current.type = "DISCONNECT"
  /\ mqtt_conns' = RemoveFirst(mqtt_conns, Sender)
  /\ mqtt_conn' = [mqtt_conn EXCEPT ![Sender] = NoSession]
  /\ past' = past \cup {From}
  /\ OrderClose(<<>>)
  /\ ordered' = ordered \cup {From}
  /\ UNCHANGED pub_list

\* The session stays until the tcp thread reports the connection closed.
Disconnect ==
  /\ HasSession
  /\ Current.type = "DISCONNECT"
  /\ Heard(Subs)
  /\ OrderClose(<<>>)
  /\ ordered' = ordered \cup {From}
  /\ UNCHANGED <<mqtt_conns, pub_list, past>>

HandlePacket ==
  \/ Ignore \/ Connect \/ ConnectAgain \/ PublishForbidden \/ Publish
  \/ Subscribe \/ Unsubscribe \/ Stateless \/ Disconnect

-----------------------------------------------------------------------------
(* timer_handle: once a second, between two messages *)

\* Mutant of Expired: a client that waits for publications is not timed.
ExpiredIdle(a) ==
  /\ mqtt_conn[a].keepalivesec # 0
  /\ mqtt_conn[a].remainsec = 0
  /\ mqtt_conn[a].sub_list = <<>>

Expired(a) == mqtt_conn[a].keepalivesec # 0 /\ mqtt_conn[a].remainsec = 0

\* Mutant of CountedDown: the countdown goes below 0.
CountedDownPast(a) ==
  IF a \in Live /\ mqtt_conn[a].keepalivesec # 0
  THEN [mqtt_conn[a] EXCEPT !.remainsec = @ - 1]
  ELSE mqtt_conn[a]

CountedDown(a) ==
  IF a \in Live /\ mqtt_conn[a].keepalivesec # 0 /\ mqtt_conn[a].remainsec # 0
  THEN [mqtt_conn[a] EXCEPT !.remainsec = @ - 1]
  ELSE mqtt_conn[a]

\* An expired session has its connection closed, in every second it is there.
Timer ==
  LET late == {i \in DOMAIN mqtt_conns : Expired(mqtt_conns[i])}
      addrs == Picked(mqtt_conns, late)
  IN  /\ proc = 0
      /\ Len(mqtt_tcp) + Len(tcp_mqtt) < MaxQueue
      /\ mqtt_tcp' = mqtt_tcp \o [n \in DOMAIN addrs |-> Order(addrs[n])]
      /\ mqtt_conn' = [a \in Addrs |-> CountedDown(a)]
      /\ ordered' = ordered \cup {mqtt_conn[mqtt_conns[i]].conn : i \in late}
      /\ UNCHANGED <<mqtt_conns, pub_list, proc, handled, past, tcp_mqtt>>

MqttNext == HandleNotice \/ HandlePacket \/ Timer

=============================================================================
