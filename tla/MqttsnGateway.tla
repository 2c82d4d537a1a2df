---------------------------- MODULE MqttsnGateway ----------------------------
(***************************************************************************)
(* The MQTT-SN side of the gateway: the session records of                 *)
(* list_mqttsn_conn.c, the topic store (pub_list) of lists.c, and the      *)
(* handlers of thread_mqtt.c that read and change them.  All handlers run  *)
(* on the one "mqtt" thread, so a handler is one step; timer_handle, which *)
(* walks the whole connection list, is one step per connection visited,    *)
(* and nothing else runs until the walk is over.                           *)
(*                                                                         *)
(* The network is the environment.  Datagrams may be lost, repeated,       *)
(* delayed and reordered, and clients may be wrong: any client may send    *)
(* any packet at any moment, and an acknowledgement may carry any message  *)
(* id and any topic id.  The build is the Makefile's default one, with     *)
(* assert() compiled out (-DNDEBUG).                                       *)
(*                                                                         *)
(* The order of pub_list is left out.  When topic ids have wrapped, a      *)
(* packet that names a topic by its id may mean any topic with the id (the *)
(* code takes the first in the list).                                      *)
(***************************************************************************)
EXTENDS Integers, FiniteSets, SequencesExt

CONSTANTS
  Clients,      \* client identifiers carried by CONNECT
  Addrs,        \* UDP source addresses
  NoAddr,       \* address field of a record that does not exist
  Topics,       \* topic names
  NoTopic,      \* no will topic
  Wildcards,    \* subscriptions with '+' or '#': the sets of topics they match
  QoS,          \* qualities of service subscribers ask for
  Wills,        \* wills clients set, NoWill for an empty WILLTOPIC
  RetainFlags,  \* retain flags publications carry
  Durations,    \* keep-alive and sleep durations, in seconds
  SendTimeout,  \* MQTTSN_PUBLISH_SEND_TIMEOUT, in seconds (5 in the code)
  MaxMsgId,     \* last message id before the counter wraps (65535)
  MaxTopicId    \* last topic id before the counter wraps (65535)

ASSUME NamesAssumption ==
  /\ NoAddr \notin Addrs
  /\ NoTopic \notin Topics
  /\ Wildcards \subseteq SUBSET Topics

ASSUME NumbersAssumption ==
  /\ QoS \subseteq 0..2
  /\ Durations \subseteq Nat
  /\ SendTimeout \in Nat \ {0}
  /\ MaxMsgId \in Nat \ {0}
  /\ MaxTopicId \in Nat \ {0}

\* There may be more topics than topic ids.
ASSUME TopicsAssumption == IsFiniteSet(Topics)

VARIABLES
  mqttsn_conns,    \* list of the sessions, in list order
  conn,            \* the session record of each client
  topic_id,        \* topic id of each topic of pub_list, 0: not in pub_list
  retain,          \* retain flag of each topic of pub_list
  mqttsn_msg_id,   \* next message id
  mqttsn_topic_id, \* next topic id
  visit            \* sessions timer_handle has still to visit

store == <<topic_id, retain, mqttsn_topic_id>>
vars == <<mqttsn_conns, conn, topic_id, retain, mqttsn_msg_id, mqttsn_topic_id, visit>>

-----------------------------------------------------------------------------
(* Data *)

MsgIds == 1..MaxMsgId
TopicIds == 1..MaxTopicId

\* MQTTSN_CLIENT_LOST is declared too, but no code sets it.
States == {"DISCONNECTED", "CONNECTED", "ACTIVE", "ASLEEP", "AWAKE"}

\* list_msg_t: an element of reg_msg_list or of pub_msg_list.
Msg == [topic_id : TopicIds, msg_id : 0..MaxMsgId, qos : QoS,
        tts : 0..SendTimeout, dup : BOOLEAN]

Subscription == [filter : Topics \cup Wildcards, qos : QoS]

NoWill == [topic |-> NoTopic, retain |-> FALSE]
Will == [topic : Topics, retain : BOOLEAN] \cup {NoWill}

\* list_mqttsn_conn_t.  told is not in the code: it is the set of topic ids
\* the client has been sent in the session, in REGISTER, REGACK or SUBACK.
Conn == [addr : Addrs \cup {NoAddr}, state : States,
         keepalivesec : Nat, remainsec : Nat,
         sub_list : Seq(Subscription), will : Will,
         reg_list : SUBSET TopicIds,
         reg_msg_list : Seq(Msg), pub_msg_list : Seq(Msg),
         told : SUBSET TopicIds]

NoConn == [addr |-> NoAddr, state |-> "DISCONNECTED",
           keepalivesec |-> 0, remainsec |-> 0,
           sub_list |-> <<>>, will |-> NoWill, reg_list |-> {},
           reg_msg_list |-> <<>>, pub_msg_list |-> <<>>, told |-> {}]

Live == ToSet(mqttsn_conns)

\* Mutant of MsgIdAfter: the counter wraps to 0, which stands for "no id".
MsgIdAfterFromZero(m, n) == (m + n) % (MaxMsgId + 1)

\* Message id after n more ids were used: 65535 is followed by 1.
MsgIdAfter(m, n) == ((m - 1 + n) % MaxMsgId) + 1

\* The tolerance given to a duration: 10% above a minute, 50% below.
Tolerated(d) == IF d > 60 THEN (d * 11) \div 10 ELSE (d * 3) \div 2

ASSUME InputsAssumption ==
  /\ Wills \subseteq Will
  /\ RetainFlags \subseteq BOOLEAN

-----------------------------------------------------------------------------
(* Lists of messages to send *)

TopicIdsOf(q) == {q[i].topic_id : i \in DOMAIN q}

NewMsg(id, qos) ==
  [topic_id |-> id, msg_id |-> 0, qos |-> qos, tts |-> 0, dup |-> FALSE]

\* A topic published again while it waits keeps the message id last sent.
Requeued(e, qos) == [e EXCEPT !.qos = qos, !.tts = 0, !.dup = FALSE]

\* The orders in which the elements of S may stand in pub_list.
Orders(S) == {s \in [1..Cardinality(S) -> S] : \A i, j \in DOMAIN s : s[i] = s[j] => i = j}

\* Mutant of MsgAddAll: new messages are put before the ones in flight.
MsgAddAllInFront(q, S, qos, new) ==
  [i \in DOMAIN new |-> NewMsg(new[i], qos)]
  \o [i \in DOMAIN q |->
       IF q[i].topic_id \in S THEN Requeued(q[i], qos) ELSE q[i]]

\* list_msg_add for the topic ids of S: a topic already in the list keeps its
\* place and its last message id, the others (new, in order) go to the end.
MsgAddAll(q, S, qos, new) ==
  [i \in DOMAIN q |->
     IF q[i].topic_id \in S THEN Requeued(q[i], qos) ELSE q[i]]
  \o [i \in DOMAIN new |-> NewMsg(new[i], qos)]

MsgAdd(q, id, qos) ==
  MsgAddAll(q, {id}, qos, IF id \in TopicIdsOf(q) THEN <<>> ELSE <<id>>)

\* list_msg_find_msg_id: place of the first message with the id, 0 if none.
\* Id 0 finds the first message that was never sent.
MsgFind(q, m) == SelectInSeq(q, LAMBDA e : e.msg_id = m)

\* Place of the first message that waits for an acknowledgement.
FirstQos(q) ==
  LET i == SelectInSeq(q, LAMBDA e : e.qos # 0)
  IN  IF i = 0 THEN Len(q) + 1 ELSE i

-----------------------------------------------------------------------------
(* mqttsn_send_buffered_msgs, as a function of the session record r and of *)
(* the next message id m: the record afterwards and the ids it used.       *)

\* The queues are drained: a client that was woken up goes back to sleep
\* (PINGRESP), a client that was connecting is accepted (CONNACK).
Drained(state) ==
  CASE state = "AWAKE"     -> "ASLEEP"
    [] state = "CONNECTED" -> "ACTIVE"
    [] OTHER               -> state

\* A first transmission takes a new id, a repetition keeps the old one.
Transmitted(e, m) ==
  [e EXCEPT !.msg_id = IF e.dup THEN e.msg_id ELSE m, !.dup = TRUE, !.tts = SendTimeout]

\* What is left of pub_msg_list when its leading QoS 0 messages are sent.
AfterQos0(q) == SubSeq(q, FirstQos(q), Len(q))

\* Mutant of SendBuffered: no return after the REGISTER is sent.
SendBufferedGoesOn(r, m) ==
  IF r.reg_msg_list # <<>>
  THEN [r EXCEPT !.reg_msg_list[1].msg_id = m, !.state = Drained(@),
                 !.told = @ \cup {r.reg_msg_list[1].topic_id}]
  ELSE [r EXCEPT !.pub_msg_list = <<>>, !.state = Drained(@)]

SendBuffered(r, m) ==
  LET rest == AfterQos0(r.pub_msg_list)
      sent == Transmitted(rest[1], MsgIdAfter(m, FirstQos(r.pub_msg_list) - 1))
  IN  IF r.reg_msg_list # <<>>
      THEN [r EXCEPT !.reg_msg_list[1].msg_id = m,
                     !.told = @ \cup {r.reg_msg_list[1].topic_id}]
      ELSE IF rest = <<>>
      THEN [r EXCEPT !.pub_msg_list = <<>>, !.state = Drained(@)]
      ELSE [r EXCEPT !.pub_msg_list =
              IF rest[1].tts # 0 THEN rest ELSE [rest EXCEPT ![1] = sent]]

IdsUsed(r) ==
  LET rest == AfterQos0(r.pub_msg_list)
  IN  IF r.reg_msg_list # <<>> THEN 1
      ELSE FirstQos(r.pub_msg_list) - 1
           + (IF rest # <<>> /\ rest[1].tts = 0 THEN 1 ELSE 0)

-----------------------------------------------------------------------------
(* mqttsn_publish_send *)

Covers(f, t) == f = t \/ (f \in Wildcards /\ t \in f)

\* The first subscription of the list that covers topic t, 0 if none.
SubOf(r, t) == SelectInSeq(r.sub_list, LAMBDA e : Covers(e.filter, t))

\* Mutant of Queued: the topic is taken for registered.
QueuedUnregistered(r, t, id) ==
  LET i == SubOf(r, t)
  IN  IF i = 0 THEN r
               ELSE [r EXCEPT !.pub_msg_list = MsgAdd(@, id, r.sub_list[i].qos)]

\* Topic t, with the id given, is queued for session r if r subscribes to it;
\* only an active client is sent anything at once.
Queued(r, t, id) ==
  LET i == SubOf(r, t)
  IN  IF i = 0 THEN r
      ELSE IF id \in r.reg_list
      THEN [r EXCEPT !.pub_msg_list = MsgAdd(@, id, r.sub_list[i].qos)]
      ELSE [r EXCEPT !.reg_msg_list = MsgAdd(@, id, r.sub_list[i].qos)]

\* Mutant of SentAtOnce: the state of the client is not looked at.
SentToAnyone(r, t) == SubOf(r, t) # 0

SentAtOnce(r, t) == SubOf(r, t) # 0 /\ r.state = "ACTIVE"

Delivered(r, t, id, m) ==
  IF SentAtOnce(r, t) THEN SendBuffered(Queued(r, t, id), m) ELSE Queued(r, t, id)

IdsForDelivery(r, t, id) ==
  IF SentAtOnce(r, t) THEN IdsUsed(Queued(r, t, id)) ELSE 0

\* Place of a session in the list, 0 if it is not there.
PlaceIn(list, c) == SelectInSeq(list, LAMBDA d : d = c)

\* The fan-out of topic t over the sessions of list, whose records are cs:
\* base[i] is the next message id when the i-th session is reached.
PublishSend(list, cs, t, id) ==
  \E base \in [1..Len(list) + 1 -> MsgIds] :
    /\ base[1] = mqttsn_msg_id
    /\ \A i \in DOMAIN list :
         base[i + 1] = MsgIdAfter(base[i], IdsForDelivery(cs[list[i]], t, id))
    /\ mqttsn_msg_id' = base[Len(list) + 1]
    /\ conn' = [c \in Clients |->
                  IF c \in ToSet(list)
                  THEN Delivered(cs[c], t, id, base[PlaceIn(list, c)])
                  ELSE cs[c]]

\* Mutants of AssignTopicId: the id of a known topic is changed; the counter
\* is not moved on.
AssignTopicIdAnew(t) ==
  /\ topic_id' = [topic_id EXCEPT ![t] = mqttsn_topic_id]
  /\ mqttsn_topic_id' = IF mqttsn_topic_id = MaxTopicId THEN 1 ELSE mqttsn_topic_id + 1

AssignSameTopicId(t) ==
  /\ topic_id' = [topic_id EXCEPT ![t] = IF @ = 0 THEN mqttsn_topic_id ELSE @]
  /\ UNCHANGED mqttsn_topic_id

\* A topic that enters pub_list is given the next topic id.
AssignTopicId(t) ==
  IF topic_id[t] = 0
  THEN /\ topic_id' = [topic_id EXCEPT ![t] = mqttsn_topic_id]
       /\ mqttsn_topic_id' = IF mqttsn_topic_id = MaxTopicId THEN 1 ELSE mqttsn_topic_id + 1
  ELSE UNCHANGED <<topic_id, mqttsn_topic_id>>

-----------------------------------------------------------------------------
(* Steps shared by the handlers *)

\* The mqtt thread is not inside timer_handle.
Idle == visit = <<>>

\* A packet of c arrived and its keep-alive countdown starts again.
Heard(c) == [conn[c] EXCEPT !.remainsec = conn[c].keepalivesec]

\* The record of c becomes r, then mqttsn_send_buffered_msgs runs on it.
Flush(c, r) ==
  /\ conn' = [conn EXCEPT ![c] = SendBuffered(r, mqttsn_msg_id)]
  /\ mqttsn_msg_id' = MsgIdAfter(mqttsn_msg_id, IdsUsed(r))

\* Mutant of Close: the record, and the will in it, are forgotten first.
CloseForgetting(c) ==
  /\ mqttsn_conns' = RemoveFirst(mqttsn_conns, c)
  /\ conn' = [conn EXCEPT ![c] = NoConn]
  /\ UNCHANGED <<store, mqttsn_msg_id>>

\* mqttsn_conn_close, then mqttsn_conn_remove: the will of c is published to
\* the other sessions, and the record is forgotten.
Close(c) ==
  LET will == conn[c].will
      rest == RemoveFirst(mqttsn_conns, c)
      forgotten == [conn EXCEPT ![c] = NoConn]
  IN  /\ mqttsn_conns' = rest
      /\ \/ /\ will.topic = NoTopic
            /\ conn' = forgotten
            /\ UNCHANGED <<store, mqttsn_msg_id>>
         \/ /\ will.topic # NoTopic
            /\ AssignTopicId(will.topic)
            /\ retain' = [retain EXCEPT ![will.topic] = will.retain]
            /\ PublishSend(rest, forgotten, will.topic, topic_id'[will.topic])

-----------------------------------------------------------------------------
(* Packets of the clients: CONNECT *)

FindAddr(a) == {c \in Live : conn[c].addr = a}

\* Mutant of SessionOf: the client id is looked up before the address.
SessionOfIdFirst(a, x) ==
  IF x \in Live \/ FindAddr(a) = {} THEN x ELSE CHOOSE c \in FindAddr(a) : TRUE

\* The session a CONNECT from address a with client id x gets: the one of the
\* address, whatever its client id, else the one of the client id.
SessionOf(a, x) == IF FindAddr(a) # {} THEN CHOOSE c \in FindAddr(a) : TRUE ELSE x

\* Its record once the address is the one the CONNECT came from.
RecordOf(a, x) == [conn[SessionOf(a, x)] EXCEPT !.addr = a]

\* list_mqttsn_conn_topics_clear
TopicsCleared(r) ==
  [r EXCEPT !.sub_list = <<>>, !.will = NoWill, !.reg_list = {},
            !.reg_msg_list = <<>>, !.pub_msg_list = <<>>, !.told = {}]

\* Mutant of WithKeepalive: the countdown is not started again.
WithKeepaliveOnly(r, d) == [r EXCEPT !.keepalivesec = Tolerated(d)]

WithKeepalive(r, d) ==
  [r EXCEPT !.keepalivesec = Tolerated(d), !.remainsec = Tolerated(d)]

Connected(r, d, clean) ==
  LET timed == WithKeepalive([r EXCEPT !.state = "CONNECTED"], d)
  IN  IF clean THEN TopicsCleared(timed) ELSE timed

\* An unknown client must ask for a clean session.  A duration of 0 is refused
\* after the record was created.  With the will flag the gateway asks for the
\* will (WILLTOPICREQ) before it sends anything else.
Connect(a, x, d, clean, will) ==
  LET c == SessionOf(a, x)
  IN  /\ Idle
      /\ c \in Live \/ clean
      /\ mqttsn_conns' = IF c \in Live THEN mqttsn_conns ELSE Append(mqttsn_conns, c)
      /\ \/ /\ d = 0
            /\ conn' = [conn EXCEPT ![c] = RecordOf(a, x)]
            /\ UNCHANGED mqttsn_msg_id
         \/ /\ d # 0 /\ will
            /\ conn' = [conn EXCEPT ![c] = Connected(RecordOf(a, x), d, clean)]
            /\ UNCHANGED mqttsn_msg_id
         \/ /\ d # 0 /\ ~will
            /\ Flush(c, Connected(RecordOf(a, x), d, clean))
      /\ UNCHANGED <<store, visit>>

-----------------------------------------------------------------------------
(* Packets of the clients: the session, its will and its sleep *)

\* Packets that do nothing to the session but restart its countdown: PINGREQ
\* of a client that does not sleep, WILLMSGUPD, PUBREC, PUBREL, a refused
\* REGACK, REGISTER or SUBSCRIBE, a PUBLISH to an unknown topic id, and a
\* REGACK or PUBACK whose message id is not in the list.
Touch(c) ==
  /\ Idle /\ c \in Live
  /\ conn' = [conn EXCEPT ![c] = Heard(c)]
  /\ UNCHANGED <<mqttsn_conns, store, mqttsn_msg_id, visit>>

\* WILLTOPIC and WILLTOPICUPD; w = NoWill for the empty one.
WillTopic(c, w) ==
  /\ Idle /\ c \in Live
  /\ conn' = [conn EXCEPT ![c] = [Heard(c) EXCEPT !.will = w]]
  /\ UNCHANGED <<mqttsn_conns, store, mqttsn_msg_id, visit>>

WillMsg(c) ==
  /\ Idle /\ c \in Live
  /\ Flush(c, Heard(c))
  /\ UNCHANGED <<mqttsn_conns, store, visit>>

\* PINGREQ of a sleeping client
Pingreq(c) ==
  /\ Idle /\ c \in Live
  /\ conn[c].state = "ASLEEP"
  /\ Flush(c, [Heard(c) EXCEPT !.state = "AWAKE"])
  /\ UNCHANGED <<mqttsn_conns, store, visit>>

\* DISCONNECT with a duration: the client goes to sleep.
Sleep(c, d) ==
  /\ Idle /\ c \in Live
  /\ d # 0
  /\ conn' = [conn EXCEPT ![c] = WithKeepalive([conn[c] EXCEPT !.state = "ASLEEP"], d)]
  /\ UNCHANGED <<mqttsn_conns, store, mqttsn_msg_id, visit>>

\* DISCONNECT without a duration: the session ends, and its will is published.
Disconnect(c) ==
  /\ Idle /\ c \in Live
  /\ Close(c)
  /\ UNCHANGED visit

-----------------------------------------------------------------------------
(* Packets of the clients: topics and publications *)

\* REGISTER
Register(c, t) ==
  /\ Idle /\ c \in Live
  /\ AssignTopicId(t)
  /\ conn' = [conn EXCEPT ![c] = [Heard(c) EXCEPT !.reg_list = @ \cup {topic_id'[t]},
                                                  !.told = @ \cup {topic_id'[t]}]]
  /\ UNCHANGED <<mqttsn_conns, retain, mqttsn_msg_id, visit>>

\* Mutant of Registered: the publication does not move to pub_msg_list.
RegisteredAndLost(r, m, id) ==
  [r EXCEPT !.reg_msg_list = RemoveAt(@, MsgFind(@, m))]

\* list_pub_find_topic_id finds a topic.
TopicFound(id) == id # 0 /\ \E t \in Topics : topic_id[t] = id

\* REGACK (accepted) with message id m and topic id id: the message found by m
\* leaves reg_msg_list, and the topic that id names, whichever it is, is queued
\* in pub_msg_list with its quality; if id names none, nothing is.  The id does
\* not enter reg_list: the handler looks it up there instead of adding it.
Registered(r, m, id) ==
  LET i == MsgFind(r.reg_msg_list, m)
      qos == r.reg_msg_list[i].qos
  IN  [r EXCEPT !.reg_msg_list = RemoveAt(@, i),
                !.pub_msg_list = IF TopicFound(id) THEN MsgAdd(@, id, qos) ELSE @]

Regack(c, m, id) ==
  /\ Idle /\ c \in Live
  /\ MsgFind(conn[c].reg_msg_list, m) # 0
  /\ Flush(c, Registered(Heard(c), m, id))
  /\ UNCHANGED <<mqttsn_conns, store, visit>>

\* PUBLISH to a topic of pub_list
Publish(c, t, r) ==
  /\ Idle /\ c \in Live
  /\ topic_id[t] # 0
  /\ retain' = [retain EXCEPT ![t] = r]
  /\ PublishSend(mqttsn_conns, [conn EXCEPT ![c] = Heard(c)], t, topic_id[t])
  /\ UNCHANGED <<mqttsn_conns, topic_id, mqttsn_topic_id, visit>>

\* list_msg_remove_msg_id
MsgRemove(q, m) == IF MsgFind(q, m) = 0 THEN q ELSE RemoveAt(q, MsgFind(q, m))

\* PUBACK of a message in the list
Puback(c, m) ==
  /\ Idle /\ c \in Live
  /\ MsgFind(conn[c].pub_msg_list, m) # 0
  /\ Flush(c, [Heard(c) EXCEPT !.pub_msg_list = MsgRemove(@, m)])
  /\ UNCHANGED <<mqttsn_conns, store, visit>>

\* PUBCOMP: the buffered messages are sent even if the id is not in the list.
Pubcomp(c, m) ==
  /\ Idle /\ c \in Live
  /\ Flush(c, [Heard(c) EXCEPT !.pub_msg_list = MsgRemove(@, m)])
  /\ UNCHANGED <<mqttsn_conns, store, visit>>

SubAddReplace(list, f, q) ==
  LET i == SelectInSeq(list, LAMBDA e : e.filter = f)
  IN  IF i = 0 THEN Append(list, [filter |-> f, qos |-> q])
               ELSE [list EXCEPT ![i].qos = q]

\* The session r after SUBSCRIBE to f; id is the topic id SUBACK carries, 0
\* for a wildcard.
Subscribed(r, f, q, id) ==
  [r EXCEPT !.sub_list = SubAddReplace(@, f, q),
            !.told = @ \cup ({id} \ {0})]

\* Queues the retained topics with the ids of S for session r; regNew and
\* pubNew are the ones that were not in the list yet, in pub_list order.
RetainedQueued(r, S, q, regNew, pubNew) ==
  [r EXCEPT !.reg_msg_list = MsgAddAll(@, S \ r.reg_list, q, regNew),
            !.pub_msg_list = MsgAddAll(@, S \cap r.reg_list, q, pubNew)]

\* SUBSCRIBE by name (f a topic or a wildcard) or by predefined topic id (f
\* the topic); a topic named for the first time enters pub_list.
Subscribe(c, f, q) ==
  /\ Idle /\ c \in Live
  /\ IF f \in Topics THEN AssignTopicId(f) ELSE UNCHANGED <<topic_id, mqttsn_topic_id>>
  /\ LET r == Subscribed(Heard(c), f, q, IF f \in Topics THEN topic_id'[f] ELSE 0)
         S == {topic_id'[t] : t \in {u \in Topics : retain[u] /\ Covers(f, u)}}
     IN  \E regNew \in Orders((S \ r.reg_list) \ TopicIdsOf(r.reg_msg_list)),
            pubNew \in Orders((S \cap r.reg_list) \ TopicIdsOf(r.pub_msg_list)) :
           Flush(c, RetainedQueued(r, S, q, regNew, pubNew))
  /\ UNCHANGED <<mqttsn_conns, retain, visit>>

\* UNSUBSCRIBE by name or by topic id
Unsubscribe(c, f) ==
  /\ Idle /\ c \in Live
  /\ LET i == SelectInSeq(conn[c].sub_list, LAMBDA e : e.filter = f)
     IN  /\ i # 0
         /\ conn' = [conn EXCEPT ![c] = [Heard(c) EXCEPT !.sub_list = RemoveAt(@, i)]]
  /\ UNCHANGED <<mqttsn_conns, store, mqttsn_msg_id, visit>>

-----------------------------------------------------------------------------
(* A PUBLISH of an MQTT client, or the will of one *)

BrokerPublish(t, r) ==
  /\ Idle
  /\ AssignTopicId(t)
  /\ retain' = [retain EXCEPT ![t] = r]
  /\ PublishSend(mqttsn_conns, conn, t, topic_id'[t])
  /\ UNCHANGED <<mqttsn_conns, visit>>

-----------------------------------------------------------------------------
(* timer_handle, once a second *)

TimerStart ==
  /\ Idle
  /\ mqttsn_conns # <<>>
  /\ visit' = mqttsn_conns
  /\ UNCHANGED <<mqttsn_conns, conn, store, mqttsn_msg_id>>

\* Mutant of Timed: a sleeping client is not timed.
TimedAwake(r) == r.state \in {"ACTIVE", "CONNECTED"} /\ r.keepalivesec # 0

\* The countdown runs in these states; an awake client is not timed.
Timed(r) == r.state \in {"ACTIVE", "CONNECTED", "ASLEEP"} /\ r.keepalivesec # 0

Expired(r) == Timed(r) /\ r.remainsec = 0

\* Nothing was heard of the session for its whole keep-alive: it is lost.
Expire(c) ==
  /\ Expired(conn[c])
  /\ Close(c)

CountedDown(r) == IF Timed(r) THEN [r EXCEPT !.remainsec = @ - 1] ELSE r

\* Mutant of Retrying: only while the session is being resumed.
RetryingResumed(r) == r.pub_msg_list # <<>> /\ r.state \in {"CONNECTED", "AWAKE"}

\* The retransmission clock of pub_msg_list runs
Retrying(r) ==
  r.pub_msg_list # <<>> /\ r.state \in {"ACTIVE", "CONNECTED", "AWAKE"}

Count(c) ==
  LET r == CountedDown(conn[c])
  IN  /\ ~Expired(conn[c])
      /\ UNCHANGED <<mqttsn_conns, store>>
      /\ \/ /\ ~Retrying(r)
            /\ conn' = [conn EXCEPT ![c] = r]
            /\ UNCHANGED mqttsn_msg_id
         \/ /\ Retrying(r)
            /\ r.pub_msg_list[1].tts # 0
            /\ conn' = [conn EXCEPT ![c] = [r EXCEPT !.pub_msg_list[1].tts = @ - 1]]
            /\ UNCHANGED mqttsn_msg_id
         \/ /\ Retrying(r)
            /\ r.pub_msg_list[1].tts = 0
            /\ Flush(c, r)

\* Mutant of TimerVisit: the walk goes on from the session it has removed.
TimerVisitRemoved ==
  /\ visit # <<>>
  /\ visit' = IF Expired(conn[Head(visit)]) THEN visit ELSE Tail(visit)
  /\ Expire(Head(visit)) \/ Count(Head(visit))

\* The next session of the walk
TimerVisit ==
  /\ visit # <<>>
  /\ visit' = Tail(visit)
  /\ Expire(Head(visit)) \/ Count(Head(visit))

-----------------------------------------------------------------------------
(* The specification *)

Init ==
  /\ mqttsn_conns = <<>>
  /\ conn = [c \in Clients |-> NoConn]
  /\ topic_id = [t \in Topics |-> 0]
  /\ retain = [t \in Topics |-> FALSE]
  /\ mqttsn_msg_id = 1
  /\ mqttsn_topic_id = 1
  /\ visit = <<>>

\* A packet from the client of session c
PacketOf(c) ==
  \/ Touch(c)
  \/ \E w \in Wills : WillTopic(c, w)
  \/ WillMsg(c)
  \/ Pingreq(c)
  \/ \E d \in Durations : Sleep(c, d)
  \/ Disconnect(c)
  \/ \E t \in Topics : Register(c, t)
  \/ \E m \in 0..MaxMsgId : Puback(c, m) \/ Pubcomp(c, m)
  \/ \E m \in 0..MaxMsgId, id \in 0..MaxTopicId : Regack(c, m, id)
  \/ \E t \in Topics, r \in RetainFlags : Publish(c, t, r)
  \/ \E f \in Topics \cup Wildcards, q \in QoS : Subscribe(c, f, q)
  \/ \E f \in Topics \cup Wildcards : Unsubscribe(c, f)

ConnectOf(x) ==
  \E a \in Addrs, d \in Durations, clean, will \in BOOLEAN : Connect(a, x, d, clean, will)

Timer == TimerStart \/ TimerVisit

Next ==
  \/ \E x \in Clients : ConnectOf(x)
  \/ \E c \in Clients : PacketOf(c)
  \/ \E t \in Topics, r \in RetainFlags : BrokerPublish(t, r)
  \/ Timer

Spec == Init /\ [][Next]_vars

\* thread_run calls timer_handle every 100 turns of its loop, and the walk
\* over the list ends before anything else is handled.
FairSpec == Spec /\ WF_vars(TimerStart) /\ WF_vars(TimerVisit)

-----------------------------------------------------------------------------
(* Invariants *)

\* Every variable has its type.
TypeOK ==
  /\ mqttsn_conns \in Seq(Clients)
  /\ conn \in [Clients -> Conn]
  /\ topic_id \in [Topics -> 0..MaxTopicId]
  /\ retain \in [Topics -> BOOLEAN]
  /\ mqttsn_msg_id \in MsgIds
  /\ mqttsn_topic_id \in TopicIds
  /\ visit \in Seq(Clients)

\* No two sessions have the same address, so that list_mqttsn_conn_find_addr
\* finds the session of the sender of a datagram, whoever reconnected from where.
AddrUnique ==
  \A c, d \in Live : conn[c].addr = conn[d].addr => c = d

\* Only the head of a list has ever been sent: the code keeps one REGISTER and
\* one QoS 1 or 2 PUBLISH of a client in flight (mqttsn_send_buffered_msgs
\* returns after the first), so an acknowledgement with a message id other than
\* 0 can only find the head.
NeverSent(e) == e.msg_id = 0 /\ e.tts = 0 /\ ~e.dup
OneInFlight ==
  \A c \in Clients :
    /\ \A i \in 2..Len(conn[c].reg_msg_list) : NeverSent(conn[c].reg_msg_list[i])
    /\ \A i \in 2..Len(conn[c].pub_msg_list) : NeverSent(conn[c].pub_msg_list[i])

\* Every topic id a session keeps is the id of a topic of pub_list, so that
\* list_pub_find_topic_id finds the topic of every message it sends.
UsedTopicIds(r) ==
  r.reg_list \cup r.told \cup TopicIdsOf(r.reg_msg_list) \cup TopicIdsOf(r.pub_msg_list)
TopicsExist ==
  \A c \in Clients : \A id \in UsedTopicIds(conn[c]) : \E t \in Topics : topic_id[t] = id

\* Until pub_list has more topics than there are ids, two of them never have
\* the same topic id (mqttsn_topic_id then wraps without looking which ids are
\* taken, and ids are never given back).
NamedTopics == {t \in Topics : topic_id[t] # 0}
TopicIdsUnique ==
  Cardinality(NamedTopics) =< MaxTopicId =>
    \A t, u \in NamedTopics : topic_id[t] = topic_id[u] => t = u

\* A session in a protocol state has a keep-alive, and its countdown is within it.
KeepaliveArmed ==
  \A c \in Live : conn[c].state # "DISCONNECTED" =>
                    conn[c].keepalivesec > 0 /\ conn[c].remainsec =< conn[c].keepalivesec

\* What timer_handle has still to visit is the end of the list: its walk never
\* reaches a session that was removed, nor misses one.
WalkFollowsList ==
  /\ Len(visit) =< Len(mqttsn_conns)
  /\ visit = SubSeq(mqttsn_conns, Len(mqttsn_conns) - Len(visit) + 1, Len(mqttsn_conns))

-----------------------------------------------------------------------------
(* Action properties *)

\* The session r becomes s without a datagram to its client: what waited still
\* waits, as it was, and what was added has never been sent.
NothingSent(r, s) ==
  /\ \A i \in DOMAIN r.reg_msg_list :
       i \in DOMAIN s.reg_msg_list /\ s.reg_msg_list[i].msg_id = r.reg_msg_list[i].msg_id
  /\ \A i \in DOMAIN r.pub_msg_list :
       /\ i \in DOMAIN s.pub_msg_list
       /\ s.pub_msg_list[i].msg_id = r.pub_msg_list[i].msg_id
       /\ s.pub_msg_list[i].dup => r.pub_msg_list[i].dup
  /\ \A i \in DOMAIN s.reg_msg_list \ DOMAIN r.reg_msg_list : NeverSent(s.reg_msg_list[i])
  /\ \A i \in DOMAIN s.pub_msg_list \ DOMAIN r.pub_msg_list : NeverSent(s.pub_msg_list[i])

\* Publications and the timer send nothing to a client that is asleep: what
\* they queue for it waits for its own next packet.
SleepersUndisturbed ==
  [][\A c \in Live :
       conn[c].state = "ASLEEP" /\ conn'[c].state = "ASLEEP"
         => NothingSent(conn[c], conn'[c]) \/ PacketOf(c)]_vars

\* PINGRESP ends an awake period, and CONNACK a connection, only when there
\* is nothing left to send to the client.
DrainedBeforeAnswer ==
  [][\A c \in Live :
       \/ conn[c].state = "CONNECTED" /\ conn'[c].state = "ACTIVE"
       \/ /\ conn[c].state = "AWAKE" /\ conn'[c].state = "ASLEEP"
          /\ \A d \in Durations : ~Sleep(c, d)
       => conn'[c].reg_msg_list = <<>> /\ conn'[c].pub_msg_list = <<>>]_vars

\* A PUBLISH is put in line for a client only with a topic id the client was
\* told in the session, by REGISTER, REGACK or SUBACK, unless the client asks
\* for it with a REGACK that answers no REGISTER it was sent (message id 0
\* finds a publication whose REGISTER was never sent) or that names another
\* topic than the REGISTER it answers.
Untold(r) == TopicIdsOf(r.pub_msg_list) \ r.told
StrayRegack(c) ==
  \E m \in 0..MaxMsgId, id \in 0..MaxTopicId :
    /\ Regack(c, m, id)
    /\ m = 0 \/ id # conn[c].reg_msg_list[MsgFind(conn[c].reg_msg_list, m)].topic_id
TopicIdTold ==
  [][\A c \in Clients : Untold(conn'[c]) \subseteq Untold(conn[c]) \/ StrayRegack(c)]_vars

\* When a session ends, by DISCONNECT or by silence, its will is in the store
\* and is queued for, or was sent to, every other session that subscribes to it.
WillPublished(c) ==
  LET t == conn[c].will.topic
      id == topic_id'[t]
  IN  /\ id # 0
      /\ retain'[t] = conn[c].will.retain
      /\ \A d \in Live \ {c} :
           LET i == SubOf(conn[d], t)
           IN  i # 0 =>
                 \/ id \in TopicIdsOf(conn'[d].reg_msg_list)
                 \/ id \in TopicIdsOf(conn'[d].pub_msg_list)
                 \/ conn[d].state = "ACTIVE" /\ conn[d].sub_list[i].qos = 0
WillDelivered ==
  [][\A c \in Live :
       c \notin Live' /\ conn[c].will.topic # NoTopic => WillPublished(c)]_vars

\* While the session lasts, a publication of QoS 1 or 2 that was never sent to
\* the client stays in one of its two lists, unless its topic is queued again
\* with QoS 0 (the store keeps one publication of a topic): for a subscription
\* with QoS 0, or by the REGACK of a REGISTER that was queued for one.  Only
\* the client itself can take it away, with an acknowledgement that is wrong: a
\* REGACK that names another topic than the message it finds, which loses that
\* message and gives its QoS to the topic named, or a PUBACK or PUBCOMP with
\* message id 0, which finds what was never sent.  A step that the REGACK with
\* the right topic makes as well is not excused.
Waiting(r) == ToSet(r.reg_msg_list) \cup {e \in ToSet(r.pub_msg_list) : e.msg_id = 0}
Kept(r) == TopicIdsOf(r.reg_msg_list) \cup TopicIdsOf(r.pub_msg_list)
Demoted(r, s, id) ==
  \/ \E e \in ToSet(r.reg_msg_list) : e.topic_id = id /\ e.qos = 0
  \/ \E t \in Topics, i \in DOMAIN s.sub_list :
       topic_id'[t] = id /\ Covers(s.sub_list[i].filter, t) /\ s.sub_list[i].qos = 0
Crossed(c, id) ==
  \E m \in 0..MaxMsgId, n \in 0..MaxTopicId :
    LET found == conn[c].reg_msg_list[MsgFind(conn[c].reg_msg_list, m)]
    IN  /\ Regack(c, m, n)
        /\ n # found.topic_id /\ ~Regack(c, m, found.topic_id)
        /\ id = found.topic_id \/ (id = n /\ found.qos = 0)
AckedUnsent(c, id) ==
  /\ Puback(c, 0) \/ Pubcomp(c, 0)
  /\ MsgFind(conn[c].pub_msg_list, 0) # 0
  /\ conn[c].pub_msg_list[MsgFind(conn[c].pub_msg_list, 0)].topic_id = id
KeptUntilSent ==
  [][\A c \in Live \cap Live' :
       conn'[c] # TopicsCleared(conn'[c]) =>
         \A e \in Waiting(conn[c]) :
           \/ e.qos = 0
           \/ e.topic_id \in Kept(conn'[c])
           \/ Demoted(conn[c], conn'[c], e.topic_id)
           \/ Crossed(c, e.topic_id)
           \/ AckedUnsent(c, e.topic_id)]_vars

-----------------------------------------------------------------------------
(* Liveness *)

\* A client that is not heard of any more does not keep its session for ever
\* (timer_handle removes it), unless it is awake or has no keep-alive.
SilentClientExpires ==
  \A c \in Clients :
    <>[][~PacketOf(c) /\ ~ConnectOf(c)]_vars =>
      []<>(c \notin Live \/ conn[c].state = "AWAKE" \/ conn[c].keepalivesec = 0)

\* A PUBLISH an active client does not acknowledge is sent again and again, as
\* long as no REGISTER stands before it.
AwaitsAck(c) ==
  /\ conn[c].state = "ACTIVE"
  /\ conn[c].reg_msg_list = <<>>
  /\ conn[c].pub_msg_list # <<>>
Repeated(c) ==
  /\ conn[c].pub_msg_list # <<>> /\ conn'[c].pub_msg_list # <<>>
  /\ conn[c].pub_msg_list[1].tts = 0
  /\ conn'[c].pub_msg_list[1].tts = SendTimeout
Retransmission ==
  \A c \in Clients : <>[]AwaitsAck(c) => []<><<Repeated(c)>>_vars

=============================================================================
