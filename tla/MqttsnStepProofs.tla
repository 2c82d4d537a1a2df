--------------------------- MODULE MqttsnStepProofs ---------------------------
(***************************************************************************)
(* Theorems about what a step of MqttsnGateway may do to a session, for    *)
(* every value of its constants.                                           *)
(***************************************************************************)
EXTENDS MqttsnGatewayProofs

-----------------------------------------------------------------------------
(* What the list operations keep *)

\* Topic id waits in the session: a REGISTER or a PUBLISH of QoS 1 or 2 of it.
Waits(s, id) ==
  \/ \E i \in 1..Len(s.reg_msg_list) : s.reg_msg_list[i].topic_id = id
  \/ \E i \in 1..Len(s.pub_msg_list) :
       s.pub_msg_list[i].topic_id = id /\ s.pub_msg_list[i].qos # 0

\* Nothing that waits in r is missing from s, unless it was demoted.
Holding(r, s) ==
  /\ \A i \in 1..Len(r.reg_msg_list) :
       LET e == r.reg_msg_list[i]
       IN  e.qos # 0 => Waits(s, e.topic_id) \/ Demoted(r, s, e.topic_id)
  /\ \A i \in 1..Len(r.pub_msg_list) :
       LET e == r.pub_msg_list[i]
       IN  e.msg_id = 0 /\ e.qos # 0 => Waits(s, e.topic_id) \/ Demoted(r, s, e.topic_id)

\* The same, but for the topics of X.
HoldingBut(X, r, s) ==
  /\ \A i \in 1..Len(r.reg_msg_list) :
       LET e == r.reg_msg_list[i]
       IN  e.qos # 0 => e.topic_id \in X \/ Waits(s, e.topic_id) \/ Demoted(r, s, e.topic_id)
  /\ \A i \in 1..Len(r.pub_msg_list) :
       LET e == r.pub_msg_list[i]
       IN  e.msg_id = 0 /\ e.qos # 0 =>
             e.topic_id \in X \/ Waits(s, e.topic_id) \/ Demoted(r, s, e.topic_id)

LEMMA HoldingAll ==
  ASSUME NEW X, NEW r, NEW s, Holding(r, s)
  PROVE  HoldingBut(X, r, s)
BY DEF Holding, HoldingBut

\* What s has more to publish than r are topics the client was told.
Tells(r, s) ==
  /\ r.told \subseteq s.told
  /\ TopicIdsOf(s.pub_msg_list) \subseteq TopicIdsOf(r.pub_msg_list) \cup s.told

LEMMA TellsSame ==
  ASSUME NEW r, NEW s, s.told = r.told, s.pub_msg_list = r.pub_msg_list
  PROVE  Tells(r, s)
BY DEF Tells

LEMMA TellsTwice ==
  ASSUME NEW r, NEW s, NEW u, Tells(r, s), Tells(s, u)
  PROVE  Tells(r, u)
BY DEF Tells

\* The list all begins with q, whose topics in S have a new quality of
\* service; what follows was never sent.
Extends(all, q, S, qos) ==
  /\ all \in Seq(Msg) /\ Len(q) =< Len(all)
  /\ \A i \in 1..Len(q) :
       /\ all[i].topic_id = q[i].topic_id
       /\ all[i].msg_id = q[i].msg_id
       /\ all[i].dup => q[i].dup
       /\ all[i].qos = IF q[i].topic_id \in S THEN qos ELSE q[i].qos
  /\ \A i \in 1..Len(all) : i > Len(q) => NeverSent(all[i])

LEMMA MsgAddAllExtends ==
  ASSUME NEW q \in Seq(Msg), NEW S, NEW qos \in QoS, NEW new \in Seq(TopicIds)
  PROVE  Extends(MsgAddAll(q, S, qos, new), q, S, qos)
<1> DEFINE all == MsgAddAll(q, S, qos, new)
<1>0. /\ Len(q) \in Nat /\ Len(new) \in Nat
      /\ \A i \in 1..Len(q) : q[i] \in Msg
  BY LenProperties, ElementOfSeq
<1>1. Adds(all, q, S, qos, new)
  BY MsgAddAllType, Zenon
<1> HIDE DEF all
<1>2. /\ all \in Seq(Msg) /\ Len(all) = Len(q) + Len(new)
      /\ \A i \in 1..Len(q) :
           all[i] = IF q[i].topic_id \in S THEN Requeued(q[i], qos) ELSE q[i]
      /\ \A i \in 1..Len(new) : all[Len(q) + i] = NewMsg(new[i], qos)
  BY <1>1 DEF Adds
<1>3. ASSUME NEW i \in 1..Len(q)
      PROVE  /\ all[i].topic_id = q[i].topic_id
             /\ all[i].msg_id = q[i].msg_id
             /\ all[i].dup => q[i].dup
             /\ all[i].qos = IF q[i].topic_id \in S THEN qos ELSE q[i].qos
  <2>1. /\ Requeued(q[i], qos).topic_id = q[i].topic_id
        /\ Requeued(q[i], qos).msg_id = q[i].msg_id
        /\ Requeued(q[i], qos).qos = qos
        /\ ~Requeued(q[i], qos).dup
    BY <1>0 DEF Requeued, Msg
  <2>2. all[i] = IF q[i].topic_id \in S THEN Requeued(q[i], qos) ELSE q[i]
    BY <1>2
  <2> QED  BY <2>1, <2>2
<1>4. ASSUME NEW i \in 1..Len(all), i > Len(q)
      PROVE  NeverSent(all[i])
  <2>1. i - Len(q) \in 1..Len(new) /\ i = Len(q) + (i - Len(q))
    BY <1>0, <1>2, <1>4
  <2>2. all[Len(q) + (i - Len(q))] = NewMsg(new[i - Len(q)], qos)
    BY <1>2, <2>1
  <2>3. NeverSent(NewMsg(new[i - Len(q)], qos))
    BY NewMsgNeverSent
  <2> QED  BY <2>1, <2>2, <2>3
<1>5. Len(q) =< Len(all)
  BY <1>0, <1>2
<1> QED  BY <1>2, <1>3, <1>4, <1>5 DEF Extends, all

\* The topic is in the list with the quality of service given.
Holds(q, id, qos) == \E i \in 1..Len(q) : q[i].topic_id = id /\ q[i].qos = qos

\* list_msg_add leaves the topic in the list with the quality of service given.
LEMMA MsgAddExtends ==
  ASSUME NEW q \in Seq(Msg), NEW id \in TopicIds, NEW qos \in QoS
  PROVE  /\ Extends(MsgAdd(q, id, qos), q, {id}, qos)
         /\ Holds(MsgAdd(q, id, qos), id, qos)
<1> DEFINE new == IF id \in TopicIdsOf(q) THEN <<>> ELSE <<id>>
           all == MsgAdd(q, id, qos)
<1>0. Len(q) \in Nat /\ DOMAIN q = 1..Len(q)
  BY LenProperties
<1>1. new \in Seq(TopicIds)
  BY EmptyTyped, OneTyped
<1>2. all = MsgAddAll(q, {id}, qos, new)
  BY DEF MsgAdd
<1>3. id \notin TopicIdsOf(q) => Len(new) = 1 /\ new[1] = id
  OBVIOUS
<1> HIDE DEF new, all
<1>4. Extends(all, q, {id}, qos)
  BY <1>1, <1>2, MsgAddAllExtends
<1>5. /\ all \in Seq(Msg) /\ Len(all) = Len(q) + Len(new) /\ Len(new) \in Nat
      /\ \A i \in 1..Len(new) : all[Len(q) + i] = NewMsg(new[i], qos)
  <2>1. Adds(all, q, {id}, qos, new)
    BY <1>1, <1>2, MsgAddAllType, Zenon
  <2> QED  BY <1>1, <2>1, LenProperties DEF Adds
<1>6. \E i \in 1..Len(all) : all[i].topic_id = id /\ all[i].qos = qos
  <2>1. CASE id \in TopicIdsOf(q)
    <3>1. PICK i \in 1..Len(q) : q[i].topic_id = id
      BY <1>0, <2>1 DEF TopicIdsOf
    <3>2. all[i].topic_id = id /\ all[i].qos = qos
      BY <1>4, <3>1 DEF Extends
    <3>3. i \in 1..Len(all)
      BY <1>0, <1>5
    <3> QED  BY <3>2, <3>3
  <2>2. CASE id \notin TopicIdsOf(q)
    <3>0. Len(new) = 1
      BY <1>3, <2>2
    <3>1. Len(q) + 1 \in 1..Len(all) /\ 1 \in 1..Len(new)
      BY <1>0, <1>5, <3>0
    <3>2. all[Len(q) + 1] = NewMsg(id, qos)
      BY <1>3, <1>5, <2>2, <3>1
    <3>3. all[Len(q) + 1].topic_id = id /\ all[Len(q) + 1].qos = qos
      BY <3>2 DEF NewMsg
    <3> QED  BY <3>1, <3>3
  <2> QED  BY <2>1, <2>2
<1> QED  BY <1>4, <1>6 DEF all, Holds

\* list_msg_add adds no topics but the new ones.
LEMMA MsgAddAllTopics ==
  ASSUME NEW q \in Seq(Msg), NEW S, NEW qos \in QoS, NEW new \in Seq(TopicIds),
         NEW B, \A i \in 1..Len(new) : new[i] \in B
  PROVE  TopicIdsOf(MsgAddAll(q, S, qos, new)) \subseteq TopicIdsOf(q) \cup B
<1> DEFINE all == MsgAddAll(q, S, qos, new)
<1>0. /\ Len(q) \in Nat /\ Len(new) \in Nat /\ DOMAIN q = 1..Len(q)
      /\ \A i \in 1..Len(q) : q[i] \in Msg
  BY LenProperties, ElementOfSeq
<1>1. Adds(all, q, S, qos, new)
  BY MsgAddAllType, Zenon
<1> HIDE DEF all
<1>2. /\ all \in Seq(Msg) /\ Len(all) = Len(q) + Len(new) /\ DOMAIN all = 1..Len(all)
      /\ \A i \in 1..Len(q) :
           all[i] = IF q[i].topic_id \in S THEN Requeued(q[i], qos) ELSE q[i]
      /\ \A i \in 1..Len(new) : all[Len(q) + i] = NewMsg(new[i], qos)
  BY <1>1, LenProperties DEF Adds
<1>3. ASSUME NEW i \in 1..Len(all)
      PROVE  all[i].topic_id \in TopicIdsOf(q) \cup B
  <2>1. CASE i \in 1..Len(q)
    <3>1. Requeued(q[i], qos).topic_id = q[i].topic_id
      BY <1>0, <2>1 DEF Requeued, Msg
    <3> QED  BY <1>0, <1>2, <2>1, <3>1 DEF TopicIdsOf
  <2>2. CASE i \notin 1..Len(q)
    <3>1. i - Len(q) \in 1..Len(new) /\ i = Len(q) + (i - Len(q))
      BY <1>0, <1>2, <2>2
    <3>2. all[Len(q) + (i - Len(q))] = NewMsg(new[i - Len(q)], qos)
      BY <1>2, <3>1
    <3>3. all[i].topic_id = new[i - Len(q)]
      BY <3>1, <3>2, NewMsgNeverSent
    <3> QED  BY <3>1, <3>3
  <2> QED  BY <2>1, <2>2
<1> QED  BY <1>2, <1>3 DEF TopicIdsOf, all

LEMMA MsgAddTopics ==
  ASSUME NEW q \in Seq(Msg), NEW id \in TopicIds, NEW qos \in QoS
  PROVE  TopicIdsOf(MsgAdd(q, id, qos)) \subseteq TopicIdsOf(q) \cup {id}
<1> DEFINE new == IF id \in TopicIdsOf(q) THEN <<>> ELSE <<id>>
<1>1. new \in Seq(TopicIds) /\ \A i \in 1..Len(new) : new[i] \in {id}
  BY EmptyTyped, OneTyped
<1>2. MsgAdd(q, id, qos) = MsgAddAll(q, {id}, qos, new)
  BY DEF MsgAdd
<1> HIDE DEF new
<1> QED  BY <1>1, <1>2, MsgAddAllTopics

-----------------------------------------------------------------------------
(* mqttsn_send_buffered_msgs *)

\* It leaves the subscriptions alone, and changes the state of the client only
\* when its lists are empty.
LEMMA SendBufferedState ==
  ASSUME NEW r \in Conn, NEW m \in MsgIds
  PROVE  LET s == SendBuffered(r, m)
         IN  /\ s.sub_list = r.sub_list
             /\ \/ s.state = r.state
                \/ /\ s.state = Drained(r.state)
                   /\ s.reg_msg_list = <<>> /\ s.pub_msg_list = <<>>
<1> DEFINE s == SendBuffered(r, m)
           rest == AfterQos0(r.pub_msg_list)
<1>1. CASE r.reg_msg_list # <<>>
  <2>1. s = [r EXCEPT !.reg_msg_list[1].msg_id = m,
                      !.told = @ \cup {r.reg_msg_list[1].topic_id}]
    BY <1>1 DEF SendBuffered
  <2> HIDE DEF s
  <2>2. s.sub_list = r.sub_list /\ s.state = r.state
    BY <2>1 DEF Conn
  <2> QED  BY <2>2 DEF s
<1>2. CASE r.reg_msg_list = <<>> /\ rest = <<>>
  <2>1. s = [r EXCEPT !.pub_msg_list = <<>>, !.state = Drained(@)]
    BY <1>2 DEF SendBuffered
  <2> HIDE DEF s
  <2>2. /\ s.sub_list = r.sub_list /\ s.state = Drained(r.state)
        /\ s.reg_msg_list = <<>> /\ s.pub_msg_list = <<>>
    BY <1>2, <2>1 DEF Conn
  <2> QED  BY <2>2 DEF s
<1>3. CASE r.reg_msg_list = <<>> /\ rest # <<>>
  <2> DEFINE list == IF rest[1].tts # 0 THEN rest
                     ELSE [rest EXCEPT ![1] =
                             Transmitted(rest[1], MsgIdAfter(m, FirstQos(r.pub_msg_list) - 1))]
  <2>1. s = [r EXCEPT !.pub_msg_list = list]
    BY <1>3 DEF SendBuffered
  <2> HIDE DEF s, list
  <2>2. s.sub_list = r.sub_list /\ s.state = r.state
    BY <2>1 DEF Conn
  <2> QED  BY <2>2 DEF s
<1> QED  BY <1>1, <1>2, <1>3

\* It drops nothing but publications of QoS 0.
LEMMA SendBufferedKeeps ==
  ASSUME NEW r \in Conn, NEW m \in MsgIds, NEW id, Waits(r, id)
  PROVE  id \in Kept(SendBuffered(r, m))
<1> DEFINE s == SendBuffered(r, m)
           q == r.pub_msg_list
           rest == AfterQos0(q)
<1>0. /\ r.reg_msg_list \in Seq(Msg) /\ q \in Seq(Msg)
      /\ Len(r.reg_msg_list) \in Nat /\ DOMAIN r.reg_msg_list = 1..Len(r.reg_msg_list)
      /\ Len(q) \in Nat /\ DOMAIN q = 1..Len(q)
  BY LenProperties DEF Conn
<1>1. CASE r.reg_msg_list # <<>>
  <2> DEFINE head == [r.reg_msg_list[1] EXCEPT !.msg_id = m]
             list == [r.reg_msg_list EXCEPT ![1] = head]
  <2>1. s = [r EXCEPT !.reg_msg_list = list,
                      !.told = @ \cup {r.reg_msg_list[1].topic_id}]
    BY <1>1 DEF SendBuffered
  <2>2. r.reg_msg_list[1] \in Msg /\ 1 \in 1..Len(r.reg_msg_list)
    BY <1>0, <1>1, FirstElement
  <2>3. head.topic_id = r.reg_msg_list[1].topic_id
    BY <2>2 DEF Msg
  <2> HIDE DEF head
  <2>4. /\ DOMAIN list = 1..Len(r.reg_msg_list)
        /\ \A i \in 1..Len(r.reg_msg_list) : list[i].topic_id = r.reg_msg_list[i].topic_id
    BY <1>0, <2>2, <2>3
  <2> HIDE DEF s, list
  <2>5. s.reg_msg_list = list /\ s.pub_msg_list = q
    BY <2>1 DEF Conn
  <2>6. CASE \E i \in 1..Len(r.reg_msg_list) : r.reg_msg_list[i].topic_id = id
    BY <2>4, <2>5, <2>6 DEF Kept, TopicIdsOf, s
  <2>7. CASE \E i \in 1..Len(q) : q[i].topic_id = id
    BY <1>0, <2>5, <2>7 DEF Kept, TopicIdsOf, s
  <2> QED  BY <2>6, <2>7 DEF Waits
<1>2. CASE r.reg_msg_list = <<>>
  <2>1. PICK i \in 1..Len(q) : q[i].topic_id = id /\ q[i].qos # 0
    BY <1>0, <1>2, EmptyTyped DEF Waits
  <2>2. /\ FirstQos(q) \in 1..Len(q) + 1
        /\ \A j \in 1..FirstQos(q) - 1 : q[j].qos = 0
        /\ rest \in Seq(Msg) /\ Len(rest) = Len(q) - FirstQos(q) + 1
        /\ \A j \in 1..Len(rest) : rest[j] = q[FirstQos(q) + j - 1]
    BY <1>0, FirstQosFirst, AfterQos0Type
  <2>3. FirstQos(q) =< i
    BY <1>0, <2>1, <2>2
  <2> DEFINE k == i - FirstQos(q) + 1
  <2>4. k \in 1..Len(rest) /\ FirstQos(q) + k - 1 = i
    BY <1>0, <2>2, <2>3
  <2>5. rest[k].topic_id = id
    BY <2>1, <2>2, <2>4
  <2>6. rest # <<>> /\ DOMAIN rest = 1..Len(rest)
    BY <2>2, <2>4, EmptyTyped, LenProperties
  <2> HIDE DEF k
  <2> DEFINE sent == Transmitted(rest[1], MsgIdAfter(m, FirstQos(q) - 1))
             list == IF rest[1].tts # 0 THEN rest ELSE [rest EXCEPT ![1] = sent]
  <2>7. s = [r EXCEPT !.pub_msg_list = list]
    BY <1>2, <2>6 DEF SendBuffered
  <2>8. rest[1] \in Msg /\ 1 \in 1..Len(rest)
    BY <2>2, <2>6, FirstElement
  <2>9. sent.topic_id = rest[1].topic_id
    BY <2>8 DEF Transmitted, Msg
  <2> HIDE DEF sent, rest
  <2>10. DOMAIN list = 1..Len(rest) /\ list[k].topic_id = id
    BY <2>4, <2>5, <2>6, <2>8, <2>9
  <2> HIDE DEF s, list
  <2>11. s.pub_msg_list = list
    BY <2>7 DEF Conn
  <2> QED  BY <2>4, <2>10, <2>11 DEF Kept, TopicIdsOf, s
<1> QED  BY <1>1, <1>2

\* It puts no topic in line, and what it registers is told.
LEMMA SendBufferedTells ==
  ASSUME NEW r \in Conn, NEW m \in MsgIds
  PROVE  Tells(r, SendBuffered(r, m))
<1> DEFINE s == SendBuffered(r, m)
           q == r.pub_msg_list
           rest == AfterQos0(q)
<1>0. q \in Seq(Msg) /\ Len(q) \in Nat /\ DOMAIN q = 1..Len(q)
  BY LenProperties DEF Conn
<1>1. CASE r.reg_msg_list # <<>>
  <2>1. s = [r EXCEPT !.reg_msg_list[1].msg_id = m,
                      !.told = @ \cup {r.reg_msg_list[1].topic_id}]
    BY <1>1 DEF SendBuffered
  <2> HIDE DEF s
  <2>2. r.told \subseteq s.told /\ s.pub_msg_list = r.pub_msg_list
    BY <2>1 DEF Conn
  <2> QED  BY <2>2 DEF Tells, s
<1>2. CASE r.reg_msg_list = <<>> /\ rest = <<>>
  <2>1. s = [r EXCEPT !.pub_msg_list = <<>>, !.state = Drained(@)]
    BY <1>2 DEF SendBuffered
  <2> HIDE DEF s
  <2>2. s.told = r.told /\ s.pub_msg_list = <<>>
    BY <2>1 DEF Conn
  <2> QED  BY <2>2 DEF Tells, TopicIdsOf, s
<1>3. CASE r.reg_msg_list = <<>> /\ rest # <<>>
  <2> DEFINE sent == Transmitted(rest[1], MsgIdAfter(m, FirstQos(q) - 1))
             list == IF rest[1].tts # 0 THEN rest ELSE [rest EXCEPT ![1] = sent]
  <2>1. s = [r EXCEPT !.pub_msg_list = list]
    BY <1>3 DEF SendBuffered
  <2>2. /\ rest \in Seq(Msg) /\ Len(rest) = Len(q) - FirstQos(q) + 1
        /\ \A i \in 1..Len(rest) : rest[i] = q[FirstQos(q) + i - 1]
        /\ FirstQos(q) \in 1..Len(q) + 1
    BY <1>0, FirstQosFirst, AfterQos0Type
  <2>3. rest[1] \in Msg /\ 1 \in 1..Len(rest) /\ DOMAIN rest = 1..Len(rest)
    BY <1>3, <2>2, FirstElement, LenProperties
  <2>4. sent.topic_id = rest[1].topic_id
    BY <2>3 DEF Transmitted, Msg
  <2> HIDE DEF sent, rest
  <2>5. /\ DOMAIN list = 1..Len(rest)
        /\ \A i \in 1..Len(rest) : list[i].topic_id = rest[i].topic_id
    BY <2>2, <2>3, <2>4
  <2> HIDE DEF s, list
  <2>6. s.told = r.told /\ s.pub_msg_list = list
    BY <2>1 DEF Conn
  <2>7. ASSUME NEW i \in 1..Len(rest)
        PROVE  list[i].topic_id \in TopicIdsOf(q)
    <3>1. FirstQos(q) + i - 1 \in 1..Len(q)
      BY <1>0, <2>2
    <3> QED  BY <1>0, <2>2, <2>5, <3>1 DEF TopicIdsOf
  <2> QED  BY <2>5, <2>6, <2>7 DEF Tells, TopicIdsOf, s
<1> QED  BY <1>1, <1>2, <1>3

-----------------------------------------------------------------------------
(* The operations on a session record *)

LEMMA HoldingSame ==
  ASSUME NEW r, NEW s, s.reg_msg_list = r.reg_msg_list, s.pub_msg_list = r.pub_msg_list
  PROVE  Holding(r, s)
BY DEF Holding, Waits

\* What holds of the lists of r holds of any record with the same lists.
LEMMA HoldingFrom ==
  ASSUME NEW r, NEW s, NEW u, Holding(s, u),
         s.reg_msg_list = r.reg_msg_list, s.pub_msg_list = r.pub_msg_list
  PROVE  Holding(r, u)
BY DEF Holding, Demoted

LEMMA HoldingButFrom ==
  ASSUME NEW X, NEW r, NEW s, NEW u, HoldingBut(X, s, u),
         s.reg_msg_list = r.reg_msg_list, s.pub_msg_list = r.pub_msg_list
  PROVE  HoldingBut(X, r, u)
BY DEF HoldingBut, Demoted

LEMMA NothingSentSame ==
  ASSUME NEW r, NEW s, s.reg_msg_list = r.reg_msg_list, s.pub_msg_list = r.pub_msg_list
  PROVE  NothingSent(r, s)
BY DEF NothingSent

\* The subscription found is one to the topic.
LEMMA SubOfCovers ==
  ASSUME NEW r \in Conn, NEW t, SubOf(r, t) # 0
  PROVE  /\ SubOf(r, t) \in 1..Len(r.sub_list)
         /\ SubOf(r, t) \in DOMAIN r.sub_list
         /\ Covers(r.sub_list[SubOf(r, t)].filter, t)
         /\ r.sub_list[SubOf(r, t)].qos \in QoS
<1> DEFINE I == {i \in 1..Len(r.sub_list) : Covers(r.sub_list[i].filter, t)}
<1>0. /\ r.sub_list \in Seq(Subscription) /\ I \subseteq Nat
      /\ DOMAIN r.sub_list = 1..Len(r.sub_list)
  BY LenProperties DEF Conn
<1>1. SubOf(r, t) = IF I # {} THEN Min(I) ELSE 0
  BY DEF SubOf, SelectInSeq
<1>2. I # {} => Min(I) \in I
  BY <1>0, LeastPosition, Zenon
<1>3. SubOf(r, t) \in I
  BY <1>1, <1>2
<1>4. r.sub_list[SubOf(r, t)] \in Subscription
  BY <1>0, <1>3, ElementOfSeq
<1> QED  BY <1>0, <1>3, <1>4 DEF Subscription

\* What mqttsn_publish_send queues.
LEMMA QueuedLists ==
  ASSUME NEW r \in Conn, NEW t, NEW id \in TopicIds, SubOf(r, t) # 0
  PROVE  LET s == Queued(r, t, id)
             qos == r.sub_list[SubOf(r, t)].qos
         IN  /\ s.state = r.state /\ s.sub_list = r.sub_list /\ s.told = r.told
             /\ s.reg_msg_list = IF id \in r.reg_list THEN r.reg_msg_list
                                 ELSE MsgAdd(r.reg_msg_list, id, qos)
             /\ s.pub_msg_list = IF id \in r.reg_list THEN MsgAdd(r.pub_msg_list, id, qos)
                                 ELSE r.pub_msg_list
<1> DEFINE s == Queued(r, t, id)
           qos == r.sub_list[SubOf(r, t)].qos
<1>1. s = IF id \in r.reg_list
          THEN [r EXCEPT !.pub_msg_list = MsgAdd(r.pub_msg_list, id, qos)]
          ELSE [r EXCEPT !.reg_msg_list = MsgAdd(r.reg_msg_list, id, qos)]
  BY DEF Queued
<1> HIDE DEF s, qos
<1>2. /\ s.state = r.state /\ s.sub_list = r.sub_list /\ s.told = r.told
      /\ s.reg_msg_list = IF id \in r.reg_list THEN r.reg_msg_list
                          ELSE MsgAdd(r.reg_msg_list, id, qos)
      /\ s.pub_msg_list = IF id \in r.reg_list THEN MsgAdd(r.pub_msg_list, id, qos)
                          ELSE r.pub_msg_list
  BY <1>1 DEF Conn
<1> QED  BY <1>2 DEF s, qos

\* A list that is extended loses no topic, and sends nothing.
LEMMA ExtendedQuietly ==
  ASSUME NEW q \in Seq(Msg), NEW all, NEW S, NEW qos, Extends(all, q, S, qos)
  PROVE  /\ \A i \in DOMAIN q :
              /\ i \in DOMAIN all
              /\ all[i].msg_id = q[i].msg_id
              /\ all[i].dup => q[i].dup
         /\ \A i \in DOMAIN all \ DOMAIN q : NeverSent(all[i])
<1>1. /\ Len(q) \in Nat /\ Len(all) \in Nat
      /\ DOMAIN q = 1..Len(q) /\ DOMAIN all = 1..Len(all)
  BY LenProperties DEF Extends
<1> QED  BY <1>1 DEF Extends

\* Queueing a topic sends nothing, and loses nothing.
LEMMA QueuedQuietly ==
  ASSUME NEW r \in Conn, NEW t, NEW id \in TopicIds
  PROVE  NothingSent(r, Queued(r, t, id)) /\ Queued(r, t, id).state = r.state
<1> DEFINE s == Queued(r, t, id)
           qos == r.sub_list[SubOf(r, t)].qos
<1>1. CASE SubOf(r, t) = 0
  <2>1. s = r
    BY <1>1 DEF Queued
  <2> QED  BY <2>1, NothingSentSame
<1>2. CASE SubOf(r, t) # 0
  <2>1. /\ s.state = r.state
        /\ s.reg_msg_list = IF id \in r.reg_list THEN r.reg_msg_list
                            ELSE MsgAdd(r.reg_msg_list, id, qos)
        /\ s.pub_msg_list = IF id \in r.reg_list THEN MsgAdd(r.pub_msg_list, id, qos)
                            ELSE r.pub_msg_list
    BY <1>2, QueuedLists
  <2>2. qos \in QoS /\ r.reg_msg_list \in Seq(Msg) /\ r.pub_msg_list \in Seq(Msg)
    BY <1>2, SubOfCovers DEF Conn
  <2> HIDE DEF s, qos
  <2>3. /\ Extends(MsgAdd(r.reg_msg_list, id, qos), r.reg_msg_list, {id}, qos)
        /\ Extends(MsgAdd(r.pub_msg_list, id, qos), r.pub_msg_list, {id}, qos)
    BY <2>2, MsgAddExtends
  <2>4. CASE id \in r.reg_list
    <3>1. s.reg_msg_list = r.reg_msg_list /\ s.pub_msg_list = MsgAdd(r.pub_msg_list, id, qos)
      BY <2>1, <2>4
    <3> QED  BY <2>1, <2>2, <2>3, <3>1, ExtendedQuietly DEF NothingSent, s
  <2>5. CASE id \notin r.reg_list
    <3>1. s.pub_msg_list = r.pub_msg_list /\ s.reg_msg_list = MsgAdd(r.reg_msg_list, id, qos)
      BY <2>1, <2>5
    <3> QED  BY <2>1, <2>2, <2>3, <3>1, ExtendedQuietly DEF NothingSent, s
  <2> QED  BY <2>4, <2>5
<1> QED  BY <1>1, <1>2

\* QoS 0 demotes the topics of B.
Allowed(r, s, B, qos) ==
  \A i \in 1..Len(r.pub_msg_list) :
    r.pub_msg_list[i].topic_id \in B /\ qos = 0 => Demoted(r, s, r.pub_msg_list[i].topic_id)

\* In lists that were extended everything still waits, unless its topic was
\* queued again with QoS 0.
LEMMA HoldingExtended ==
  ASSUME NEW r \in Conn, NEW s, NEW A, NEW B, NEW qosA, NEW qosB,
         Extends(s.reg_msg_list, r.reg_msg_list, A, qosA),
         Extends(s.pub_msg_list, r.pub_msg_list, B, qosB),
         Allowed(r, s, B, qosB)
  PROVE  Holding(r, s)
<1>1. /\ r.reg_msg_list \in Seq(Msg) /\ r.pub_msg_list \in Seq(Msg)
      /\ Len(r.reg_msg_list) \in Nat /\ Len(r.pub_msg_list) \in Nat
      /\ Len(s.reg_msg_list) \in Nat /\ Len(s.pub_msg_list) \in Nat
  BY LenProperties DEF Conn, Extends
<1>2. ASSUME NEW i \in 1..Len(r.reg_msg_list)
      PROVE  Waits(s, r.reg_msg_list[i].topic_id)
  BY <1>1 DEF Extends, Waits
<1>3. ASSUME NEW i \in 1..Len(r.pub_msg_list), r.pub_msg_list[i].qos # 0
      PROVE  \/ Waits(s, r.pub_msg_list[i].topic_id)
             \/ Demoted(r, s, r.pub_msg_list[i].topic_id)
  <2>1. /\ i \in 1..Len(s.pub_msg_list)
        /\ s.pub_msg_list[i].topic_id = r.pub_msg_list[i].topic_id
        /\ s.pub_msg_list[i].qos = IF r.pub_msg_list[i].topic_id \in B THEN qosB
                                   ELSE r.pub_msg_list[i].qos
    BY <1>1 DEF Extends
  <2>2. CASE s.pub_msg_list[i].qos = 0
    BY <1>3, <2>1, <2>2 DEF Allowed
  <2>3. CASE s.pub_msg_list[i].qos # 0
    BY <2>1, <2>3 DEF Waits
  <2> QED  BY <2>2, <2>3
<1> QED  BY <1>2, <1>3 DEF Holding

LEMMA ExtendsItself ==
  ASSUME NEW q \in Seq(Msg), NEW qos
  PROVE  Extends(q, q, {}, qos)
BY LenProperties DEF Extends

\* A topic goes straight to pub_msg_list if it is registered, so told.
LEMMA QueuedTells ==
  ASSUME NEW K, NEW r \in GoodConn(K), NEW t, NEW id \in TopicIds
  PROVE  Tells(r, Queued(r, t, id))
<1> DEFINE s == Queued(r, t, id)
           qos == r.sub_list[SubOf(r, t)].qos
<1>0. r \in Conn /\ r.pub_msg_list \in Seq(Msg) /\ r.reg_list \subseteq r.told
  BY DEF GoodConn, Conn
<1>1. CASE SubOf(r, t) = 0
  <2>1. s = r
    BY <1>1 DEF Queued
  <2> QED  BY <2>1, TellsSame
<1>2. CASE SubOf(r, t) # 0
  <2>1. /\ s.told = r.told
        /\ s.pub_msg_list = IF id \in r.reg_list THEN MsgAdd(r.pub_msg_list, id, qos)
                            ELSE r.pub_msg_list
    BY <1>0, <1>2, QueuedLists
  <2>2. qos \in QoS
    BY <1>0, <1>2, SubOfCovers
  <2> HIDE DEF s, qos
  <2>3. TopicIdsOf(MsgAdd(r.pub_msg_list, id, qos)) \subseteq TopicIdsOf(r.pub_msg_list) \cup {id}
    BY <1>0, <2>2, MsgAddTopics
  <2>4. Tells(r, s)
    BY <1>0, <2>1, <2>3 DEF Tells
  <2> QED  BY <2>4 DEF s
<1> QED  BY <1>1, <1>2

\* A topic is demoted by a subscription with QoS 0 only.
LEMMA QueuedHolding ==
  ASSUME NEW r \in Conn, NEW t \in Topics, NEW id \in TopicIds, topic_id'[t] = id
  PROVE  Holding(r, Queued(r, t, id))
<1> DEFINE s == Queued(r, t, id)
           qos == r.sub_list[SubOf(r, t)].qos
<1>0. r.reg_msg_list \in Seq(Msg) /\ r.pub_msg_list \in Seq(Msg)
  BY DEF Conn
<1>1. CASE SubOf(r, t) = 0
  <2>1. s = r
    BY <1>1 DEF Queued
  <2> QED  BY <2>1, HoldingSame
<1>2. CASE SubOf(r, t) # 0
  <2>1. /\ s.sub_list = r.sub_list
        /\ s.reg_msg_list = IF id \in r.reg_list THEN r.reg_msg_list
                            ELSE MsgAdd(r.reg_msg_list, id, qos)
        /\ s.pub_msg_list = IF id \in r.reg_list THEN MsgAdd(r.pub_msg_list, id, qos)
                            ELSE r.pub_msg_list
    BY <1>0, <1>2, QueuedLists
  <2>2. /\ qos \in QoS /\ SubOf(r, t) \in DOMAIN r.sub_list
        /\ Covers(r.sub_list[SubOf(r, t)].filter, t)
    BY <1>0, <1>2, SubOfCovers
  <2>3. ASSUME qos = 0
        PROVE  Demoted(r, s, id)
    BY <2>1, <2>2, <2>3 DEF Demoted
  <2> HIDE DEF s, qos
  <2>4. /\ Extends(MsgAdd(r.reg_msg_list, id, qos), r.reg_msg_list, {id}, qos)
        /\ Extends(MsgAdd(r.pub_msg_list, id, qos), r.pub_msg_list, {id}, qos)
        /\ Extends(r.reg_msg_list, r.reg_msg_list, {}, 0)
        /\ Extends(r.pub_msg_list, r.pub_msg_list, {}, 0)
    BY <1>0, <2>2, MsgAddExtends, ExtendsItself
  <2>5. CASE id \in r.reg_list
    <3>1. /\ Extends(s.reg_msg_list, r.reg_msg_list, {}, 0)
          /\ Extends(s.pub_msg_list, r.pub_msg_list, {id}, qos)
      BY <2>1, <2>4, <2>5
    <3>2. Allowed(r, s, {id}, qos)
      BY <1>0, <2>3 DEF Allowed
    <3>3. Holding(r, s)
      BY <1>0, <3>1, <3>2, HoldingExtended
    <3> QED  BY <3>3 DEF s
  <2>6. CASE id \notin r.reg_list
    <3>1. /\ Extends(s.reg_msg_list, r.reg_msg_list, {id}, qos)
          /\ Extends(s.pub_msg_list, r.pub_msg_list, {}, 0)
      BY <2>1, <2>4, <2>6
    <3>2. Allowed(r, s, {}, 0)
      BY DEF Allowed
    <3>3. Holding(r, s)
      BY <1>0, <3>1, <3>2, HoldingExtended
    <3> QED  BY <3>3 DEF s
  <2> QED  BY <2>5, <2>6
<1> QED  BY <1>1, <1>2

\* What a REGACK may lose that names another topic than the message it finds.
CrossedIds(r, m, n) ==
  LET found == r.reg_msg_list[MsgFind(r.reg_msg_list, m)]
  IN  {id \in TopicIds : n # found.topic_id /\ (id = found.topic_id \/ (id = n /\ found.qos = 0))}

\* REGACK: the topic it names, if pub_list has it, takes the place of one of
\* the same topic in pub_msg_list.
LEMMA RegisteredHolding ==
  ASSUME NEW r \in GoodConn(Known), NEW m, NEW id \in 0..MaxTopicId,
         MsgFind(r.reg_msg_list, m) # 0
  PROVE  /\ HoldingBut(CrossedIds(r, m, id), r, Registered(r, m, id))
         /\ Registered(r, m, id) \in Conn
         /\ Registered(r, m, id).state = r.state
<1> DEFINE i == MsgFind(r.reg_msg_list, m)
           e == r.reg_msg_list[i]
           X == CrossedIds(r, m, id)
           reg == RemoveAt(r.reg_msg_list, i)
           pub == IF TopicFound(id) THEN MsgAdd(r.pub_msg_list, id, e.qos) ELSE r.pub_msg_list
           s == [r EXCEPT !.reg_msg_list = reg, !.pub_msg_list = pub]
<1>1. /\ r \in Conn
      /\ r.reg_msg_list \in Seq(Msg) /\ r.pub_msg_list \in Seq(Msg)
      /\ Len(r.reg_msg_list) \in Nat /\ Len(r.pub_msg_list) \in Nat
      /\ \A j \in 1..Len(r.reg_msg_list) : r.reg_msg_list[j].topic_id \in Known
      /\ \A j \in 1..Len(r.pub_msg_list) : r.pub_msg_list[j].topic_id \in TopicIds
  <2>1. /\ r \in Conn /\ r.reg_msg_list \in Seq(Msg) /\ r.pub_msg_list \in Seq(Msg)
        /\ r.reg_msg_list \in Queues(Known, r.told)
    BY DEF GoodConn, Conn
  <2>2. \A j \in 1..Len(r.pub_msg_list) : r.pub_msg_list[j] \in Msg
    BY <2>1, ElementOfSeq
  <2> QED  BY <2>1, <2>2, LenProperties DEF Queues, Msg
<1>2. i \in 1..Len(r.reg_msg_list)
  <2>1. MsgFind(r.reg_msg_list, m) \in 0..Len(r.reg_msg_list)
    BY <1>1, MsgFindFirst
  <2> QED  BY <1>1, <2>1
<1>3. /\ e \in Msg /\ e.topic_id \in TopicIds /\ e.qos \in QoS
      /\ TopicFound(id) => id \in TopicIds
      /\ id = e.topic_id => TopicFound(id)
  <2>1. e \in Msg /\ e.topic_id \in Known
    BY <1>1, <1>2, ElementOfSeq
  <2>2. TopicFound(id) => id \in TopicIds
    BY NumbersAssumption DEF TopicFound, TopicIds
  <2> QED  BY <2>1, <2>2 DEF Msg, Known, IdsOf, TopicFound
<1>4. Registered(r, m, id) = s
  BY DEF Registered
<1>5. id = e.topic_id /\ e.qos = 0 => Demoted(r, s, id)
  <2>1. i \in DOMAIN r.reg_msg_list
    BY <1>1, <1>2, LenProperties
  <2> HIDE DEF i
  <2> QED  BY <2>1 DEF Demoted, ToSet
<1>6. /\ id # e.topic_id => e.topic_id \in X
      /\ id # e.topic_id /\ e.qos = 0 /\ id \in TopicIds => id \in X
  BY <1>3 DEF CrossedIds
<1> HIDE DEF i, e, X
<1>7. /\ reg \in Seq(Msg)
      /\ Len(reg) = Len(r.reg_msg_list) - 1
      /\ \A j \in 1..Len(r.reg_msg_list) - 1 :
           reg[j] = IF j < i THEN r.reg_msg_list[j] ELSE r.reg_msg_list[j + 1]
  BY <1>1, <1>2, RemoveAtProperties, Zenon
<1>8. /\ TopicFound(id) =>
           Extends(pub, r.pub_msg_list, {id}, e.qos) /\ Holds(pub, id, e.qos)
      /\ ~TopicFound(id) => Extends(pub, r.pub_msg_list, {}, 0)
  BY <1>1, <1>3, MsgAddExtends, ExtendsItself
<1> HIDE DEF reg, pub
<1>9. s \in Conn
  <2>1. reg \in Seq(Msg) /\ pub \in Seq(Msg)
    BY <1>7, <1>8 DEF Extends
  <2> QED  BY <1>1, <2>1, Zenon DEF Conn
<1>10. s.reg_msg_list = reg /\ s.pub_msg_list = pub /\ s.state = r.state
  BY <1>1 DEF Conn
<1> HIDE DEF s
<1>11. ASSUME NEW j \in 1..Len(r.reg_msg_list), r.reg_msg_list[j].qos # 0
       PROVE  r.reg_msg_list[j].topic_id \in X \/ Waits(s, r.reg_msg_list[j].topic_id)
  <2>1. CASE j = i
    <3>1. r.reg_msg_list[j] = e
      BY <2>1 DEF e
    <3>2. CASE id = e.topic_id
      <4>1. \E k \in 1..Len(pub) : pub[k].topic_id = e.topic_id /\ pub[k].qos = e.qos
        BY <1>3, <1>8, <3>2 DEF Holds
      <4> QED  BY <1>10, <1>11, <3>1, <4>1 DEF Waits
    <3>3. CASE id # e.topic_id
      BY <1>6, <3>1, <3>3
    <3> QED  BY <3>2, <3>3
  <2>2. CASE j # i
    <3>1. \E k \in 1..Len(reg) : reg[k] = r.reg_msg_list[j]
      <4>1. CASE j < i
        <5>1. j \in 1..Len(r.reg_msg_list) - 1 /\ j \in 1..Len(reg)
          BY <1>1, <1>2, <1>7, <4>1
        <5>2. reg[j] = r.reg_msg_list[j]
          BY <1>7, <4>1, <5>1
        <5> QED  BY <5>1, <5>2
      <4>2. CASE ~(j < i)
        <5>1. j - 1 \in 1..Len(r.reg_msg_list) - 1 /\ ~(j - 1 < i) /\ (j - 1) + 1 = j
          BY <1>1, <1>2, <2>2, <4>2
        <5> QED  BY <1>7, <5>1
      <4> QED  BY <4>1, <4>2
    <3> QED  BY <1>10, <3>1 DEF Waits
  <2> QED  BY <2>1, <2>2
<1>12. ASSUME NEW j \in 1..Len(r.pub_msg_list), r.pub_msg_list[j].qos # 0
       PROVE  \/ r.pub_msg_list[j].topic_id \in X
              \/ Waits(s, r.pub_msg_list[j].topic_id)
              \/ Demoted(r, s, r.pub_msg_list[j].topic_id)
  <2>1. /\ j \in 1..Len(pub)
        /\ pub[j].topic_id = r.pub_msg_list[j].topic_id
        /\ \/ pub[j].qos = r.pub_msg_list[j].qos
           \/ r.pub_msg_list[j].topic_id = id /\ pub[j].qos = e.qos
    <3>1. Len(pub) \in Nat
      BY <1>8, LenProperties DEF Extends
    <3> QED  BY <1>1, <1>8, <3>1 DEF Extends
  <2>2. CASE pub[j].qos = 0
    <3>1. r.pub_msg_list[j].topic_id = id /\ e.qos = 0 /\ id \in TopicIds
      BY <1>1, <1>12, <2>1, <2>2
    <3> QED  BY <1>5, <1>6, <3>1 DEF s
  <2>3. CASE pub[j].qos # 0
    BY <1>10, <2>1, <2>3 DEF Waits
  <2> QED  BY <2>2, <2>3
<1>13. HoldingBut(X, r, s)
  BY <1>11, <1>12 DEF HoldingBut
<1> QED  BY <1>4, <1>9, <1>10, <1>13 DEF X

\* A REGACK that answers a REGISTER puts a topic in line that was told.
LEMMA RegisteredTells ==
  ASSUME NEW K, NEW r \in GoodConn(K), NEW m \in MsgIds,
         MsgFind(r.reg_msg_list, m) # 0
  PROVE  LET id == r.reg_msg_list[MsgFind(r.reg_msg_list, m)].topic_id
         IN  Tells(r, Registered(r, m, id))
<1> DEFINE i == MsgFind(r.reg_msg_list, m)
           e == r.reg_msg_list[i]
           id == e.topic_id
           reg == RemoveAt(r.reg_msg_list, i)
           pub == IF TopicFound(id) THEN MsgAdd(r.pub_msg_list, id, e.qos) ELSE r.pub_msg_list
           s == [r EXCEPT !.reg_msg_list = reg, !.pub_msg_list = pub]
<1>1. /\ r \in Conn /\ r.reg_msg_list \in Queues(K, r.told)
      /\ r.reg_msg_list \in Seq(Msg) /\ r.pub_msg_list \in Seq(Msg)
  BY DEF GoodConn, Conn
<1>2. i \in 1..Len(r.reg_msg_list) /\ e.msg_id = m
  <2>1. /\ MsgFind(r.reg_msg_list, m) \in 0..Len(r.reg_msg_list)
        /\ r.reg_msg_list[MsgFind(r.reg_msg_list, m)].msg_id = m
        /\ Len(r.reg_msg_list) \in Nat
    BY <1>1, MsgFindFirst, LenProperties
  <2> QED  BY <2>1
<1>3. e \in Msg /\ m # 0
  BY <1>1, <1>2, ElementOfSeq DEF MsgIds
<1>4. id \in r.told /\ id \in TopicIds /\ e.qos \in QoS
  BY <1>1, <1>2, <1>3 DEF Queues, Msg
<1>5. Registered(r, m, id) = s
  BY DEF Registered
<1> HIDE DEF i, e, id, reg
<1>6. TopicIdsOf(pub) \subseteq TopicIdsOf(r.pub_msg_list) \cup {id}
  BY <1>1, <1>4, MsgAddTopics
<1> HIDE DEF pub
<1>7. s.told = r.told /\ s.pub_msg_list = pub
  BY <1>1 DEF Conn
<1> HIDE DEF s
<1>8. Tells(r, s)
  BY <1>4, <1>6, <1>7 DEF Tells
<1> QED  BY <1>5, <1>8 DEF id, e, i

\* What a PUBACK or PUBCOMP with message id 0 loses.
UnsentIds(q, m) ==
  {id \in TopicIds : m = 0 /\ MsgFind(q, m) # 0 /\ q[MsgFind(q, m)].topic_id = id}

\* PUBACK and PUBCOMP remove one publication, which was sent if their message
\* id is not 0.
LEMMA MsgRemoveHolding ==
  ASSUME NEW r \in Conn, NEW m
  PROVE  LET s == [r EXCEPT !.pub_msg_list = MsgRemove(@, m)]
         IN  /\ HoldingBut(UnsentIds(r.pub_msg_list, m), r, s) /\ Tells(r, s)
             /\ s \in Conn /\ s.state = r.state
<1> DEFINE q == r.pub_msg_list
           X == UnsentIds(q, m)
           i == MsgFind(q, m)
           pub == MsgRemove(q, m)
           s == [r EXCEPT !.pub_msg_list = pub]
<1>1. /\ q \in Seq(Msg) /\ Len(q) \in Nat /\ DOMAIN q = 1..Len(q)
      /\ \A j \in 1..Len(q) : q[j] \in Msg
  BY LenProperties, ElementOfSeq DEF Conn
<1>2. i \in 0..Len(q) /\ (i # 0 => q[i].msg_id = m)
  BY <1>1, MsgFindFirst
<1>3. pub = IF i = 0 THEN q ELSE RemoveAt(q, i)
  BY DEF MsgRemove
<1>4. \A j \in 1..Len(q) : q[j].topic_id \in TopicIds
  BY <1>1 DEF Msg
<1>5. \A j \in 1..Len(q) : j = i /\ q[j].msg_id = 0 => q[j].topic_id \in X
  <2> SUFFICES ASSUME NEW j \in 1..Len(q), j = i, q[j].msg_id = 0
               PROVE  q[j].topic_id \in X
    OBVIOUS
  <2>1. i # 0 /\ m = 0
    BY <1>1, <1>2
  <2> QED  BY <1>4, <2>1 DEF UnsentIds
<1> HIDE DEF pub, i, X
<1>6. /\ pub \in Seq(Msg)
      /\ \A j \in 1..Len(q) : j # i => \E k \in 1..Len(pub) : pub[k] = q[j]
      /\ \A k \in 1..Len(pub) : \E j \in 1..Len(q) : pub[k] = q[j]
  <2>1. CASE i = 0
    BY <1>1, <1>3, <2>1
  <2>2. CASE i # 0
    <3>1. i \in 1..Len(q) /\ pub = RemoveAt(q, i)
      BY <1>1, <1>2, <1>3, <2>2
    <3>2. /\ pub \in Seq(Msg) /\ Len(pub) = Len(q) - 1
          /\ \A j \in 1..Len(q) - 1 : pub[j] = IF j < i THEN q[j] ELSE q[j + 1]
      BY <1>1, <3>1, RemoveAtProperties
    <3>3. ASSUME NEW j \in 1..Len(q), j # i
          PROVE  \E k \in 1..Len(pub) : pub[k] = q[j]
      <4>1. CASE j < i
        BY <1>1, <3>1, <3>2, <4>1
      <4>2. CASE ~(j < i)
        <5>1. j - 1 \in 1..Len(q) - 1 /\ ~(j - 1 < i) /\ (j - 1) + 1 = j
          BY <1>1, <3>1, <3>3, <4>2
        <5> QED  BY <3>2, <5>1
      <4> QED  BY <4>1, <4>2
    <3>4. ASSUME NEW k \in 1..Len(pub)
          PROVE  \E j \in 1..Len(q) : pub[k] = q[j]
      BY <1>1, <3>2
    <3> QED  BY <3>2, <3>3, <3>4
  <2> QED  BY <2>1, <2>2
<1>7. s \in Conn
  BY <1>6, Zenon DEF Conn
<1>8. /\ s.reg_msg_list = r.reg_msg_list /\ s.pub_msg_list = pub
      /\ s.state = r.state /\ s.told = r.told
  BY DEF Conn
<1>9. [r EXCEPT !.pub_msg_list = MsgRemove(@, m)] = s
  BY DEF pub
<1> HIDE DEF s
<1>10. ASSUME NEW j \in 1..Len(q), q[j].msg_id = 0, q[j].qos # 0
       PROVE  q[j].topic_id \in X \/ Waits(s, q[j].topic_id)
  BY <1>5, <1>6, <1>8, <1>10 DEF Waits
<1>11. HoldingBut(X, r, s)
  BY <1>8, <1>10 DEF HoldingBut, Waits
<1>12. Tells(r, s)
  <2>1. DOMAIN pub = 1..Len(pub)
    BY <1>6, LenProperties
  <2> QED  BY <1>1, <1>6, <1>8, <2>1 DEF Tells, TopicIdsOf
<1> QED  BY <1>7, <1>8, <1>9, <1>11, <1>12 DEF X

\* A subscription with QoS 0 covers every topic with an id of S.
QosZero(r, S) ==
  \A id \in S : \E t \in Topics, i \in DOMAIN r.sub_list :
    topic_id'[t] = id /\ Covers(r.sub_list[i].filter, t) /\ r.sub_list[i].qos = 0

\* The retained topics of a SUBSCRIBE are queued with its quality of service.
LEMMA RetainedHolding ==
  ASSUME NEW r \in Conn, NEW S, S \subseteq TopicIds, NEW q \in QoS,
         NEW regNew \in Orders((S \ r.reg_list) \ TopicIdsOf(r.reg_msg_list)),
         NEW pubNew \in Orders((S \cap r.reg_list) \ TopicIdsOf(r.pub_msg_list)),
         q = 0 => QosZero(r, S), r.reg_list \subseteq r.told
  PROVE  LET s == RetainedQueued(r, S, q, regNew, pubNew)
         IN  Holding(r, s) /\ Tells(r, s) /\ s \in Conn /\ s.state = r.state
<1> DEFINE R == (S \ r.reg_list) \ TopicIdsOf(r.reg_msg_list)
           P == (S \cap r.reg_list) \ TopicIdsOf(r.pub_msg_list)
           reg == MsgAddAll(r.reg_msg_list, S \ r.reg_list, q, regNew)
           pub == MsgAddAll(r.pub_msg_list, S \cap r.reg_list, q, pubNew)
           s == [r EXCEPT !.reg_msg_list = reg, !.pub_msg_list = pub]
<1>1. /\ R \subseteq TopicIds /\ P \subseteq TopicIds /\ P \subseteq r.told
      /\ regNew \in Orders(R) /\ pubNew \in Orders(P)
      /\ r.reg_msg_list \in Seq(Msg) /\ r.pub_msg_list \in Seq(Msg)
  BY DEF Conn
<1> HIDE DEF R, P
<1>2. /\ regNew \in Seq(TopicIds) /\ pubNew \in Seq(TopicIds)
      /\ \A i \in 1..Len(pubNew) : pubNew[i] \in r.told
  BY <1>1, OrdersType
<1>3. /\ TopicIdsOf(pub) \subseteq TopicIdsOf(r.pub_msg_list) \cup r.told
      /\ Extends(reg, r.reg_msg_list, S \ r.reg_list, q)
      /\ Extends(pub, r.pub_msg_list, S \cap r.reg_list, q)
  BY <1>1, <1>2, MsgAddAllExtends, MsgAddAllTopics
<1>4. RetainedQueued(r, S, q, regNew, pubNew) = s
  BY DEF RetainedQueued
<1> HIDE DEF reg, pub
<1>5. reg \in Seq(Msg) /\ pub \in Seq(Msg)
  BY <1>3 DEF Extends
<1>6. s \in Conn
  BY <1>5, Zenon DEF Conn
<1>7. /\ s.reg_msg_list = reg /\ s.pub_msg_list = pub
      /\ s.state = r.state /\ s.sub_list = r.sub_list /\ s.told = r.told
  BY DEF Conn
<1> HIDE DEF s
<1>8. Allowed(r, s, S \cap r.reg_list, q)
  BY <1>7 DEF Allowed, Demoted, QosZero
<1>9. Holding(r, s)
  <2>1. /\ Extends(s.reg_msg_list, r.reg_msg_list, S \ r.reg_list, q)
        /\ Extends(s.pub_msg_list, r.pub_msg_list, S \cap r.reg_list, q)
    BY <1>3, <1>7
  <2> QED  BY <1>8, <2>1, HoldingExtended
<1>10. Tells(r, s)
  BY <1>3, <1>7 DEF Tells
<1> QED  BY <1>4, <1>6, <1>7, <1>9, <1>10

LEMMA SubAddReplaceType ==
  ASSUME NEW list \in Seq(Subscription), NEW f \in Topics \cup Wildcards, NEW q \in QoS
  PROVE  SubAddReplace(list, f, q) \in Seq(Subscription)
<1> DEFINE i == SelectInSeq(list, LAMBDA e : e.filter = f)
           I == {j \in 1..Len(list) : list[j].filter = f}
           sub == [list[i] EXCEPT !.qos = q]
<1>1. I \subseteq Nat /\ i = IF I # {} THEN Min(I) ELSE 0
  BY DEF SelectInSeq
<1>2. CASE i = 0
  <2>1. SubAddReplace(list, f, q) = Append(list, [filter |-> f, qos |-> q])
    BY <1>2 DEF SubAddReplace
  <2>2. [filter |-> f, qos |-> q] \in Subscription
    BY DEF Subscription
  <2> QED  BY <2>1, <2>2, AppendProperties
<1>3. CASE i # 0
  <2>1. i \in 1..Len(list)
    BY <1>1, <1>3, LeastPosition, Zenon
  <2>2. SubAddReplace(list, f, q) = [list EXCEPT ![i] = sub]
    BY <1>3 DEF SubAddReplace
  <2> HIDE DEF i
  <2>3. list[i] \in Subscription
    BY <2>1, ElementOfSeq
  <2>4. sub \in Subscription
    BY <2>3, Zenon DEF Subscription
  <2> HIDE DEF sub
  <2> QED  BY <2>1, <2>2, <2>4, ExceptSeq
<1> QED  BY <1>2, <1>3

\* The list has a subscription with the filter and the quality given.
Subscribes(list, f, q) == \E i \in DOMAIN list : list[i].filter = f /\ list[i].qos = q

\* SUBSCRIBE leaves a subscription with the filter and quality it asks for.
LEMMA SubscribedCovers ==
  ASSUME NEW list \in Seq(Subscription), NEW f, NEW q
  PROVE  Subscribes(SubAddReplace(list, f, q), f, q)
<1> DEFINE i == SelectInSeq(list, LAMBDA e : e.filter = f)
           I == {j \in 1..Len(list) : list[j].filter = f}
<1>1. /\ Len(list) \in Nat /\ DOMAIN list = 1..Len(list) /\ I \subseteq Nat
      /\ i = IF I # {} THEN Min(I) ELSE 0
  BY LenProperties DEF SelectInSeq
<1>2. CASE i = 0
  <2>1. SubAddReplace(list, f, q) = Append(list, [filter |-> f, qos |-> q])
    BY <1>2 DEF SubAddReplace
  <2>2. /\ DOMAIN Append(list, [filter |-> f, qos |-> q]) = 1..Len(list) + 1
        /\ Append(list, [filter |-> f, qos |-> q])[Len(list) + 1] = [filter |-> f, qos |-> q]
    BY <1>1
  <2>3. Len(list) + 1 \in 1..Len(list) + 1
    BY <1>1
  <2> QED  BY <2>1, <2>2, <2>3 DEF Subscribes
<1>3. CASE i # 0
  <2>1. i \in I
    BY <1>1, <1>3, LeastPosition, Zenon
  <2>2. SubAddReplace(list, f, q) = [list EXCEPT ![i].qos = q]
    BY <1>3 DEF SubAddReplace
  <2>3. i \in DOMAIN list /\ list[i].filter = f
    BY <1>1, <2>1
  <2>4. list[i] \in Subscription
    BY <1>1, <2>3, ElementOfSeq
  <2> HIDE DEF i
  <2> QED  BY <2>2, <2>3, <2>4 DEF Subscription, Subscribes
<1> QED  BY <1>2, <1>3

-----------------------------------------------------------------------------
(* What a step does to a session record *)

\* What the acknowledgement of c, if it is wrong, may take away
Excused(c) == {id \in TopicIds : Crossed(c, id) \/ AckedUnsent(c, id)}

\* The record of c is forgotten, or becomes s, after which its messages may be
\* sent: s still holds what waited, unless the client took it away, and has
\* nothing to publish that was not told, unless the client asked for it, or a
\* CONNECT cleared it; its protocol state, and what is sent to a sleeping
\* client, are restricted.
StepOf(c) ==
  \/ conn'[c] = NoConn
  \/ \E s \in Conn, m \in MsgIds :
       /\ conn'[c] = s \/ conn'[c] = SendBuffered(s, m)
       /\ \/ /\ HoldingBut(Excused(c), conn[c], s)
             /\ Tells(conn[c], s) \/ StrayRegack(c)
          \/ s = TopicsCleared(s)
       /\ conn[c].state \in {"CONNECTED", "AWAKE"} =>
            \/ s.state \in {conn[c].state, "CONNECTED"}
            \/ \E d \in Durations : Sleep(c, d)
       /\ conn[c].state = "ASLEEP" =>
            \/ PacketOf(c)
            \/ s.state = "CONNECTED"
            \/ conn'[c] = s /\ NothingSent(conn[c], s)

LEMMA RecordTyped ==
  ASSUME IInv, NEW c \in Clients
  PROVE  conn[c] \in Conn /\ conn[c] \in GoodConn(Known) /\ mqttsn_msg_id \in MsgIds
BY DEF IInv, TypeOK

\* A record that does not change
LEMMA Unmoved ==
  ASSUME IInv, NEW c \in Clients, conn'[c] = conn[c]
  PROVE  StepOf(c)
<1>1. conn[c] \in Conn /\ mqttsn_msg_id \in MsgIds
  BY RecordTyped
<1>2. /\ HoldingBut(Excused(c), conn[c], conn[c])
      /\ Tells(conn[c], conn[c]) /\ NothingSent(conn[c], conn[c])
  BY HoldingSame, HoldingAll, TellsSame, NothingSentSame
<1> QED  BY <1>1, <1>2 DEF StepOf

\* The fan-out of a topic
LEMMA FanOut ==
  ASSUME NEW list \in Seq(Clients), NEW cs, NEW t, NEW id, PublishSend(list, cs, t, id),
         NEW c \in Clients
  PROVE  IF c \in ToSet(list) THEN \E m \in MsgIds : conn'[c] = Delivered(cs[c], t, id, m)
                              ELSE conn'[c] = cs[c]
<1>0. Len(list) \in Nat
  BY LenProperties
<1>1. PICK base \in [1..Len(list) + 1 -> MsgIds] :
        conn' = [d \in Clients |->
                   IF d \in ToSet(list)
                   THEN Delivered(cs[d], t, id, base[PlaceIn(list, d)])
                   ELSE cs[d]]
  BY DEF PublishSend
<1>2. CASE c \in ToSet(list)
  <2>1. PICK j \in 1..Len(list) : list[j] = c
    BY <1>2, LenProperties DEF ToSet
  <2>2. /\ PlaceIn(list, c) \in 0..Len(list)
        /\ PlaceIn(list, c) = 0 => \A k \in 1..Len(list) : list[k] # c
    BY PlaceOf
  <2>3. PlaceIn(list, c) \in 1..Len(list) + 1
    BY <1>0, <2>1, <2>2
  <2>4. base[PlaceIn(list, c)] \in MsgIds
    BY <2>3
  <2> QED  BY <1>1, <1>2, <2>4
<1>3. CASE c \notin ToSet(list)
  BY <1>1, <1>3
<1> QED  BY <1>2, <1>3

LEMMA FanOutStep ==
  ASSUME IInv, NEW list \in Seq(Clients), NEW cs, NEW t \in Topics, NEW id \in TopicIds,
         PublishSend(list, cs, t, id), topic_id'[t] = id,
         NEW c \in Clients, cs[c] \in GoodConn(Known), cs[c].state = conn[c].state,
         cs[c].reg_msg_list = conn[c].reg_msg_list,
         cs[c].pub_msg_list = conn[c].pub_msg_list, cs[c].told = conn[c].told
  PROVE  StepOf(c)
<1> DEFINE r == cs[c]
           s == Queued(r, t, id)
<1>0. r \in Conn /\ mqttsn_msg_id \in MsgIds
  BY RecordTyped DEF GoodConn
<1>1. conn'[c] = r \/ \E m \in MsgIds : conn'[c] = Delivered(r, t, id, m)
  BY FanOut
<1>2. CASE conn'[c] = r
  <2>1. /\ HoldingBut(Excused(c), conn[c], r)
        /\ Tells(conn[c], r) /\ NothingSent(conn[c], r)
    BY HoldingSame, HoldingAll, TellsSame, NothingSentSame
  <2> QED  BY <1>0, <1>2, <2>1 DEF StepOf
<1>3. ASSUME NEW m \in MsgIds, conn'[c] = Delivered(r, t, id, m)
      PROVE  StepOf(c)
  <2>1. /\ Holding(r, s) /\ Tells(r, s) /\ NothingSent(r, s)
        /\ s.state = r.state /\ s \in Conn
    BY <1>0, QueuedHolding, QueuedTells, QueuedQuietly, QueuedType
  <2>2. conn'[c] = IF SentAtOnce(r, t) THEN SendBuffered(s, m) ELSE s
    BY <1>3 DEF Delivered
  <2> HIDE DEF s
  <2>3. HoldingBut(Excused(c), conn[c], s) /\ Tells(conn[c], s)
    BY <2>1, HoldingFrom, HoldingAll, TellsSame, TellsTwice
  <2>4. NothingSent(conn[c], s)
    BY <2>1 DEF NothingSent
  <2>5. r.state = "ASLEEP" => conn'[c] = s
    BY <2>2 DEF SentAtOnce
  <2> QED  BY <2>1, <2>2, <2>3, <2>4, <2>5 DEF StepOf
<1> QED  BY <1>1, <1>2, <1>3

\* A topic of pub_list has an id.
LEMMA AssignedId ==
  ASSUME IInv, NEW t \in Topics, AssignTopicId(t)
  PROVE  topic_id'[t] \in TopicIds
<1>1. StoreTyped /\ TopicIdsUnique /\ IdsCounted
  BY DEF IInv, TypeOK, StoreInv, StoreTyped
<1>2. StoreTyped' /\ topic_id'[t] # 0
  BY <1>1, AssignTopicIdGood
<1> QED  BY <1>2, IdsOfTyped DEF StoreTyped

\* The list without a session keeps the others.
LEMMA RemovedOnly ==
  ASSUME IInv, NEW x
  PROVE  LET rest == RemoveFirst(mqttsn_conns, x)
         IN  /\ rest \in Seq(Clients)
             /\ x \notin ToSet(rest)
             /\ \A d \in Live : d # x => d \in ToSet(rest)
<1> DEFINE list == mqttsn_conns
           rest == RemoveFirst(list, x)
<1>0. list \in Seq(Clients) /\ NoRepeats(list) /\ Len(list) \in Nat
  BY LenProperties DEF IInv, ListInv, TypeOK
<1>1. CASE \E i \in 1..Len(list) : list[i] = x
  <2>1. PICK p \in 1..Len(list) : list[p] = x
    BY <1>1
  <2>2. /\ rest \in Seq(Clients) /\ Len(rest) = Len(list) - 1
        /\ \A j \in 1..Len(list) - 1 : rest[j] = IF j < p THEN list[j] ELSE list[j + 1]
        /\ \A i \in 1..Len(rest) : rest[i] # x
    <3>1. /\ RemoveFirst(list, list[p]) \in Seq(Clients)
          /\ Len(RemoveFirst(list, list[p])) = Len(list) - 1
          /\ \A j \in 1..Len(list) - 1 :
               RemoveFirst(list, list[p])[j] = IF j < p THEN list[j] ELSE list[j + 1]
      BY <1>0, RemoveFirstProperties, ZenonT(40)
    <3>2. \A i \in 1..Len(RemoveFirst(list, list[p])) : RemoveFirst(list, list[p])[i] # list[p]
      BY <1>0, RemovedNoRepeats, ZenonT(40)
    <3> QED  BY <2>1, <3>1, <3>2, Zenon
  <2> HIDE DEF rest
  <2>3. DOMAIN rest = 1..Len(rest)
    BY <2>2, LenProperties
  <2>4. ASSUME NEW d \in Live, d # x
        PROVE  d \in ToSet(rest)
    <3>1. PICK j \in 1..Len(list) : list[j] = d
      BY LivePlace
    <3>2. j # p
      BY <2>1, <2>4, <3>1
    <3>3. \E k \in 1..Len(rest) : rest[k] = d
      <4>1. CASE j < p
        BY <1>0, <2>2, <3>1, <4>1
      <4>2. CASE ~(j < p)
        <5>1. j - 1 \in 1..Len(list) - 1 /\ ~(j - 1 < p) /\ (j - 1) + 1 = j
          BY <1>0, <3>2, <4>2
        <5>2. rest[j - 1] = d
          BY <2>2, <3>1, <5>1
        <5> QED  BY <2>2, <5>1, <5>2
      <4> QED  BY <4>1, <4>2
    <3> QED  BY <2>3, <3>3 DEF ToSet
  <2> QED  BY <2>2, <2>3, <2>4 DEF ToSet, rest
<1>2. CASE ~ \E i \in 1..Len(list) : list[i] = x
  <2>1. rest = list
    BY <1>0, <1>2 DEF RemoveFirst
  <2>2. DOMAIN list = 1..Len(list)
    BY <1>0, LenProperties
  <2> QED  BY <1>0, <1>2, <2>1, <2>2 DEF ToSet, Live
<1> QED  BY <1>1, <1>2

\* The end of session x
LEMMA CloseStepOf ==
  ASSUME IInv, NEW x \in Clients, Close(x), NEW c \in Clients
  PROVE  StepOf(c)
<1> DEFINE w == conn[x].will
           t == w.topic
           id == topic_id'[t]
           rest == RemoveFirst(mqttsn_conns, x)
<1>0. rest \in Seq(Clients) /\ x \notin ToSet(rest)
  BY RemovedOnly
<1>1. CASE conn' = Forgotten(x)
  <2>1. CASE c = x
    BY <1>1, <2>1 DEF StepOf, Forgotten, IInv
  <2>2. CASE c # x
    BY <1>1, <2>2, Unmoved DEF Forgotten, IInv
  <2> QED  BY <2>1, <2>2
<1>2. CASE /\ t # NoTopic
           /\ AssignTopicId(t)
           /\ PublishSend(rest, Forgotten(x), t, id)
  <2>1. w \in Will
    BY RecordTyped DEF Conn
  <2>2. t \in Topics
    BY <1>2, <2>1 DEF Will, NoWill
  <2> HIDE DEF w, t, rest
  <2>3. id \in TopicIds /\ topic_id'[t] = id
    BY <1>2, <2>2, AssignedId
  <2> HIDE DEF id
  <2>4. CASE c = x
    <3>1. conn'[c] = Forgotten(x)[c]
      BY <1>0, <1>2, <2>4, FanOut
    <3> QED  BY <2>4, <3>1 DEF StepOf, Forgotten, IInv
  <2>5. CASE c # x
    <3>1. Forgotten(x)[c] = conn[c] /\ conn[c] \in GoodConn(Known)
      BY <2>5 DEF Forgotten, IInv
    <3> QED  BY <1>0, <1>2, <2>2, <2>3, <3>1, FanOutStep
  <2> QED  BY <2>4, <2>5
<1> QED  BY <1>1, <1>2 DEF Close, Forgotten

-----------------------------------------------------------------------------
(* The steps *)

\* A packet that replaces the record of its client
LEMMA OwnRecord ==
  ASSUME IInv, NEW c \in Clients, PacketOf(c), NEW s \in Conn,
         conn' = [conn EXCEPT ![c] = s] \/ Flush(c, s),
         HoldingBut(Excused(c), conn[c], s), Tells(conn[c], s) \/ StrayRegack(c),
         \/ s.state = conn[c].state
         \/ conn[c].state = "ASLEEP"
         \/ \E d \in Durations : Sleep(c, d),
         NEW e \in Clients
  PROVE  StepOf(e)
<1>0. conn \in [Clients -> Conn] /\ mqttsn_msg_id \in MsgIds
  BY DEF IInv, TypeOK
<1>1. PICK y : conn' = [conn EXCEPT ![c] = y] /\ (y = s \/ y = SendBuffered(s, mqttsn_msg_id))
  BY DEF Flush
<1>2. CASE e = c
  <2>1. conn'[e] = s \/ conn'[e] = SendBuffered(s, mqttsn_msg_id)
    BY <1>0, <1>1, <1>2
  <2> QED  BY <1>0, <1>2, <2>1 DEF StepOf
<1>3. CASE e # c
  BY <1>0, <1>1, <1>3, Unmoved
<1> QED  BY <1>2, <1>3

LEMMA HeardSame ==
  ASSUME IInv, NEW c \in Clients
  PROVE  /\ Heard(c) \in GoodConn(Known) /\ Heard(c) \in Conn
         /\ Heard(c).state = conn[c].state /\ Heard(c).sub_list = conn[c].sub_list
         /\ Heard(c).reg_list = conn[c].reg_list /\ Heard(c).told = conn[c].told
         /\ Heard(c).reg_msg_list = conn[c].reg_msg_list
         /\ Heard(c).pub_msg_list = conn[c].pub_msg_list
<1>1. conn[c] \in GoodConn(Known) /\ conn[c] \in Conn
  BY RecordTyped
<1>2. Heard(c) \in GoodConn(Known)
  BY <1>1, HeardGood DEF Follows
<1>3. Heard(c) \in Conn
  BY <1>2 DEF GoodConn
<1> QED  BY <1>1, <1>2, <1>3 DEF Heard, Conn

\* REGISTER: a topic more is registered, and known to the client.
LEMMA RegisterStepOf ==
  ASSUME IInv, NEW c \in Clients, NEW t \in Topics, Register(c, t), NEW e \in Clients
  PROVE  StepOf(e)
<1> DEFINE h == Heard(c)
           reg == h.reg_list \cup {topic_id'[t]}
           told == h.told \cup {topic_id'[t]}
           s == [h EXCEPT !.reg_list = reg, !.told = told]
<1>0. PacketOf(c)
  BY DEF PacketOf
<1>1. AssignTopicId(t) /\ conn' = [conn EXCEPT ![c] = s]
  BY DEF Register
<1>2. /\ h \in Conn /\ h.state = conn[c].state /\ h.told = conn[c].told
      /\ h.reg_msg_list = conn[c].reg_msg_list /\ h.pub_msg_list = conn[c].pub_msg_list
  BY HeardSame
<1>3. topic_id'[t] \in TopicIds
  BY <1>1, AssignedId
<1> HIDE DEF h
<1>4. reg \in SUBSET TopicIds /\ told \in SUBSET TopicIds
  BY <1>2, <1>3 DEF Conn
<1> HIDE DEF reg
<1>5. s \in Conn
  <2> HIDE DEF told
  <2> QED  BY <1>2, <1>4, Zenon DEF Conn
<1>6. /\ s.state = h.state /\ h.told \subseteq s.told
      /\ s.reg_msg_list = h.reg_msg_list /\ s.pub_msg_list = h.pub_msg_list
  BY <1>2 DEF Conn
<1> HIDE DEF s
<1>7. /\ HoldingBut(Excused(c), conn[c], s) /\ Tells(conn[c], s)
      /\ s.state = conn[c].state
  BY <1>2, <1>6, HoldingSame, HoldingAll DEF Tells
<1> QED  BY <1>0, <1>1, <1>5, <1>7, OwnRecord

\* SUBSCRIBE
LEMMA SubscribeStepOf ==
  ASSUME IInv, NEW c \in Clients, NEW f \in Topics \cup Wildcards, NEW q \in QoS,
         Subscribe(c, f, q), NEW e \in Clients
  PROVE  StepOf(e)
<1> DEFINE h == Heard(c)
           id == IF f \in Topics THEN topic_id'[f] ELSE 0
           r == Subscribed(h, f, q, id)
           S == {topic_id'[t] : t \in {u \in Topics : retain[u] /\ Covers(f, u)}}
<1>0. /\ PacketOf(c)
      /\ StoreTyped /\ TopicIdsUnique /\ IdsCounted
      /\ \A u \in Topics : retain[u] => topic_id[u] # 0
  BY DEF PacketOf, IInv, TypeOK, StoreInv, StoreTyped
<1>1. IF f \in Topics THEN AssignTopicId(f) ELSE UNCHANGED <<topic_id, mqttsn_topic_id>>
  BY DEF Subscribe
<1>2. PICK regNew \in Orders((S \ r.reg_list) \ TopicIdsOf(r.reg_msg_list)),
           pubNew \in Orders((S \cap r.reg_list) \ TopicIdsOf(r.pub_msg_list)) :
        Flush(c, RetainedQueued(r, S, q, regNew, pubNew))
  BY DEF Subscribe
<1>3. /\ \A u \in Topics : topic_id[u] # 0 => topic_id'[u] = topic_id[u]
      /\ f \in Topics => topic_id'[f] \in TopicIds
  <2>1. CASE f \in Topics
    BY <1>0, <1>1, <2>1, AssignTopicIdGood, AssignedId
  <2>2. CASE f \notin Topics
    BY <1>1, <2>2
  <2> QED  BY <2>1, <2>2
<1>4. \A k \in S : \E t \in Topics : topic_id'[t] = k /\ k \in TopicIds /\ Covers(f, t)
  <2> SUFFICES ASSUME NEW t \in Topics, retain[t], Covers(f, t)
               PROVE  topic_id'[t] \in TopicIds
    OBVIOUS
  <2>1. topic_id[t] # 0
    BY <1>0
  <2>2. topic_id[t] \in TopicIds
    BY <1>0, <2>1, IdsOfTyped DEF StoreTyped
  <2> QED  BY <1>3, <2>1, <2>2
<1>5. /\ h \in Conn /\ h.state = conn[c].state /\ h.told = conn[c].told
      /\ h.reg_list \subseteq h.told
      /\ h.reg_msg_list = conn[c].reg_msg_list /\ h.pub_msg_list = conn[c].pub_msg_list
      /\ h.sub_list \in Seq(Subscription)
  BY HeardSame DEF Conn, GoodConn
<1> HIDE DEF h, S
<1> DEFINE subs == SubAddReplace(h.sub_list, f, q)
           told == h.told \cup ({id} \ {0})
<1>6. r = [h EXCEPT !.sub_list = subs, !.told = told]
  BY DEF Subscribed
<1>7. Subscribes(subs, f, q)
  BY <1>5, SubscribedCovers
<1>8. told \in SUBSET TopicIds
  BY <1>3, <1>5 DEF Conn
<1>9. subs \in Seq(Subscription)
  BY <1>5, SubAddReplaceType
<1>10. h.told \subseteq told
  OBVIOUS
<1> HIDE DEF subs, told, id, r
<1>11. r \in Conn
  BY <1>5, <1>6, <1>8, <1>9, Zenon DEF Conn
<1>12. /\ r.state = h.state /\ r.sub_list = subs
       /\ h.told \subseteq r.told /\ r.reg_list \subseteq r.told
       /\ r.reg_msg_list = h.reg_msg_list /\ r.pub_msg_list = h.pub_msg_list
  BY <1>5, <1>6, <1>10 DEF Conn
<1>13. q = 0 => QosZero(r, S)
  BY <1>4, <1>7, <1>12 DEF Subscribes, QosZero
<1>14. S \subseteq TopicIds
  BY <1>4
<1> DEFINE s == RetainedQueued(r, S, q, regNew, pubNew)
<1>15. Holding(r, s) /\ Tells(r, s) /\ s \in Conn /\ s.state = r.state
  BY <1>11, <1>12, <1>13, <1>14, RetainedHolding
<1>16. Flush(c, s)
  BY <1>2
<1> HIDE DEF s
<1>17. /\ HoldingBut(Excused(c), conn[c], s) /\ s.state = conn[c].state
  BY <1>5, <1>12, <1>15, HoldingFrom, HoldingAll
<1>18. Tells(conn[c], s)
  BY <1>5, <1>12, <1>15 DEF Tells
<1> QED  BY <1>0, <1>15, <1>16, <1>17, <1>18, OwnRecord

\* A publication of a client, or one that comes from the broker
LEMMA PublishStepOf ==
  ASSUME IInv, NEW c \in Clients, NEW t \in Topics, NEW r, Publish(c, t, r), NEW e \in Clients
  PROVE  StepOf(e)
<1> DEFINE cs == [conn EXCEPT ![c] = Heard(c)]
<1>0. /\ mqttsn_conns \in Seq(Clients) /\ conn \in [Clients -> Conn]
      /\ topic_id \in [Topics -> 0..MaxTopicId]
  BY DEF IInv, TypeOK
<1>1. /\ topic_id[t] # 0 /\ topic_id' = topic_id
      /\ PublishSend(mqttsn_conns, cs, t, topic_id[t])
  BY DEF Publish
<1>2. topic_id[t] \in TopicIds
  BY <1>0, <1>1, IdsOfTyped
<1>3. cs[e] = IF e = c THEN Heard(c) ELSE conn[e]
  BY <1>0
<1>4. /\ cs[e] \in GoodConn(Known) /\ cs[e].state = conn[e].state
      /\ cs[e].reg_msg_list = conn[e].reg_msg_list
      /\ cs[e].pub_msg_list = conn[e].pub_msg_list /\ cs[e].told = conn[e].told
  BY <1>3, HeardSame, RecordTyped
<1> HIDE DEF cs
<1> DEFINE id == topic_id[t]
<1>5. id \in TopicIds /\ PublishSend(mqttsn_conns, cs, t, id) /\ topic_id'[t] = id
  BY <1>1, <1>2
<1> HIDE DEF id
<1> QED  BY <1>0, <1>4, <1>5, FanOutStep

LEMMA BrokerPublishStepOf ==
  ASSUME IInv, NEW t \in Topics, NEW r, BrokerPublish(t, r), NEW e \in Clients
  PROVE  StepOf(e)
<1> DEFINE id == topic_id'[t]
<1>1. AssignTopicId(t) /\ PublishSend(mqttsn_conns, conn, t, id)
  BY DEF BrokerPublish
<1>2. id \in TopicIds /\ topic_id'[t] = id
  BY <1>1, AssignedId
<1>3. mqttsn_conns \in Seq(Clients) /\ conn[e] \in GoodConn(Known)
  BY DEF IInv, TypeOK
<1> HIDE DEF id
<1> QED  BY <1>1, <1>2, <1>3, FanOutStep

\* REGACK: it names the topic of the message it finds, or what the REGACK with
\* that topic would not do is excused.
LEMMA RegackStepOf ==
  ASSUME IInv, NEW c \in Clients, PacketOf(c), NEW e \in Clients,
         NEW m \in 0..MaxMsgId, NEW id \in 0..MaxTopicId, Regack(c, m, id),
         LET tid == conn[c].reg_msg_list[MsgFind(conn[c].reg_msg_list, m)].topic_id
         IN  id = tid \/ ~Regack(c, m, tid)
  PROVE  StepOf(e)
<1> DEFINE h == Heard(c)
           s == Registered(h, m, id)
           X == CrossedIds(h, m, id)
           found == h.reg_msg_list[MsgFind(h.reg_msg_list, m)]
<1>0. /\ h \in GoodConn(Known) /\ h \in Conn
      /\ h.state = conn[c].state /\ h.sub_list = conn[c].sub_list /\ h.told = conn[c].told
      /\ h.reg_msg_list = conn[c].reg_msg_list /\ h.pub_msg_list = conn[c].pub_msg_list
      /\ conn[c] \in Conn /\ conn[c] \in GoodConn(Known)
  BY HeardSame, RecordTyped
<1>1. HoldingBut(Excused(c), conn[c], h) /\ Tells(conn[c], h)
  BY <1>0, HoldingSame, HoldingAll, TellsSame
<1>2. Flush(c, s) /\ MsgFind(h.reg_msg_list, m) # 0
  BY <1>0 DEF Regack
<1>3. X \subseteq Excused(c)
  <2>1. found = conn[c].reg_msg_list[MsgFind(conn[c].reg_msg_list, m)]
    BY <1>0
  <2> HIDE DEF h
  <2> QED  BY <2>1 DEF CrossedIds, Excused, Crossed
<1>4. m = 0 \/ id # found.topic_id => StrayRegack(c)
  <2>1. found = conn[c].reg_msg_list[MsgFind(conn[c].reg_msg_list, m)]
    BY <1>0
  <2> HIDE DEF h
  <2> QED  BY <2>1 DEF StrayRegack
<1> HIDE DEF h
<1>5. HoldingBut(X, h, s) /\ s \in Conn /\ s.state = h.state
  BY <1>0, <1>2, RegisteredHolding
<1>6. m # 0 /\ id = found.topic_id => Tells(h, s)
  <2> SUFFICES ASSUME m # 0, id = found.topic_id
               PROVE  Tells(h, s)
    OBVIOUS
  <2>1. m \in MsgIds
    BY NumbersAssumption DEF MsgIds
  <2> QED  BY <1>0, <1>2, <2>1, RegisteredTells
<1> HIDE DEF s, X, found
<1>7. HoldingBut(Excused(c), conn[c], s)
  <2>1. HoldingBut(Excused(c), h, s)
    BY <1>3, <1>5 DEF HoldingBut
  <2> QED  BY <1>0, <2>1, HoldingButFrom
<1>8. Tells(conn[c], s) \/ StrayRegack(c)
  BY <1>1, <1>4, <1>6, TellsTwice
<1> QED  BY <1>0, <1>2, <1>5, <1>7, <1>8, OwnRecord

LEMMA PacketStepOf ==
  ASSUME IInv, NEW c \in Clients, PacketOf(c), NEW e \in Clients
  PROVE  StepOf(e)
<1> DEFINE h == Heard(c)
<1>0. /\ h \in GoodConn(Known) /\ h \in Conn
      /\ h.state = conn[c].state /\ h.sub_list = conn[c].sub_list /\ h.told = conn[c].told
      /\ h.reg_msg_list = conn[c].reg_msg_list /\ h.pub_msg_list = conn[c].pub_msg_list
      /\ conn[c] \in Conn /\ conn[c] \in GoodConn(Known)
  BY HeardSame, RecordTyped
<1>1. HoldingBut(Excused(c), conn[c], h) /\ Tells(conn[c], h)
  BY <1>0, HoldingSame, HoldingAll, TellsSame
<1>2. CASE Touch(c)
  BY <1>0, <1>1, <1>2, OwnRecord DEF Touch
<1>3. ASSUME NEW w \in Wills, WillTopic(c, w)
      PROVE  StepOf(e)
  <2> DEFINE s == [h EXCEPT !.will = w]
  <2>1. conn' = [conn EXCEPT ![c] = s] /\ w \in Will
    BY <1>3, InputsAssumption DEF WillTopic
  <2> HIDE DEF h
  <2>2. s \in Conn
    BY <1>0, <2>1, Zenon DEF Conn
  <2>3. /\ s.state = h.state /\ s.told = h.told
        /\ s.reg_msg_list = h.reg_msg_list /\ s.pub_msg_list = h.pub_msg_list
    BY <1>0 DEF Conn
  <2> HIDE DEF s
  <2>4. HoldingBut(Excused(c), conn[c], s) /\ Tells(conn[c], s)
    BY <1>0, <2>3, HoldingSame, HoldingAll, TellsSame
  <2> QED  BY <1>0, <2>1, <2>2, <2>3, <2>4, OwnRecord
<1>4. CASE WillMsg(c)
  BY <1>0, <1>1, <1>4, OwnRecord DEF WillMsg
<1>5. CASE Pingreq(c)
  <2> DEFINE s == [h EXCEPT !.state = "AWAKE"]
  <2>1. Flush(c, s) /\ conn[c].state = "ASLEEP" /\ "AWAKE" \in States
    BY <1>5 DEF Pingreq, States
  <2> HIDE DEF h
  <2>2. s \in Conn
    BY <1>0, <2>1, Zenon DEF Conn
  <2>3. s.reg_msg_list = h.reg_msg_list /\ s.pub_msg_list = h.pub_msg_list /\ s.told = h.told
    BY <1>0 DEF Conn
  <2> HIDE DEF s
  <2>4. HoldingBut(Excused(c), conn[c], s) /\ Tells(conn[c], s)
    BY <1>0, <2>3, HoldingSame, HoldingAll, TellsSame
  <2> QED  BY <2>1, <2>2, <2>4, OwnRecord
<1>6. ASSUME NEW d \in Durations, Sleep(c, d)
      PROVE  StepOf(e)
  <2> DEFINE s == WithKeepalive([conn[c] EXCEPT !.state = "ASLEEP"], d)
  <2>1. conn' = [conn EXCEPT ![c] = s] /\ d \in Nat /\ d # 0 /\ "ASLEEP" \in States
    BY <1>6, NumbersAssumption DEF Sleep, States
  <2>2. s \in Conn
    BY <1>0, <2>1, KeepaliveGood DEF Follows, GoodConn
  <2>3. /\ s.reg_msg_list = conn[c].reg_msg_list /\ s.pub_msg_list = conn[c].pub_msg_list
        /\ s.told = conn[c].told
    BY <1>0 DEF WithKeepalive, Conn
  <2> HIDE DEF s
  <2>4. HoldingBut(Excused(c), conn[c], s) /\ Tells(conn[c], s)
    BY <2>3, HoldingSame, HoldingAll, TellsSame
  <2> QED  BY <1>6, <2>1, <2>2, <2>4, OwnRecord
<1>7. CASE Disconnect(c)
  BY <1>7, CloseStepOf DEF Disconnect
<1>8. ASSUME NEW t \in Topics, Register(c, t)
      PROVE  StepOf(e)
  BY <1>8, RegisterStepOf
<1>9. ASSUME NEW m \in 0..MaxMsgId, NEW id \in 0..MaxTopicId, Regack(c, m, id)
      PROVE  StepOf(e)
  <2> DEFINE found == conn[c].reg_msg_list[MsgFind(conn[c].reg_msg_list, m)]
  <2>1. found.topic_id \in 0..MaxTopicId
    <3>1. /\ MsgFind(h.reg_msg_list, m) # 0 /\ h.reg_msg_list \in Seq(Msg)
          /\ h.reg_msg_list = conn[c].reg_msg_list
      BY <1>0, <1>9 DEF Regack, Conn
    <3> HIDE DEF h
    <3>2. found \in Msg
      <4>1. MsgFind(conn[c].reg_msg_list, m) \in 1..Len(conn[c].reg_msg_list)
        BY <3>1, MsgFindFirst, LenProperties
      <4> QED  BY <3>1, <4>1, ElementOfSeq
    <3> QED  BY <3>2, NumbersAssumption DEF Msg, TopicIds
  <2>2. CASE found.topic_id = id \/ ~Regack(c, m, found.topic_id)
    BY <1>9, <2>2, RegackStepOf
  <2>3. CASE Regack(c, m, found.topic_id)
    <3> DEFINE tid == found.topic_id
    <3>1. tid = conn[c].reg_msg_list[MsgFind(conn[c].reg_msg_list, m)].topic_id
      OBVIOUS
    <3> HIDE DEF tid
    <3> QED  BY <2>1, <2>3, <3>1, RegackStepOf DEF tid
  <2> QED  BY <2>2, <2>3
<1>10. ASSUME NEW m \in 0..MaxMsgId, Puback(c, m) \/ Pubcomp(c, m)
       PROVE  StepOf(e)
  <2> DEFINE s == [h EXCEPT !.pub_msg_list = MsgRemove(@, m)]
             X == UnsentIds(h.pub_msg_list, m)
  <2>1. Flush(c, s)
    BY <1>10 DEF Puback, Pubcomp
  <2>2. X \subseteq Excused(c)
    <3>1. h.pub_msg_list = conn[c].pub_msg_list
      BY <1>0
    <3> HIDE DEF h
    <3> QED  BY <1>10, <3>1 DEF UnsentIds, Excused, AckedUnsent
  <2> HIDE DEF h
  <2>3. HoldingBut(X, h, s) /\ Tells(h, s) /\ s \in Conn /\ s.state = h.state
    BY <1>0, MsgRemoveHolding
  <2> HIDE DEF s, X
  <2>4. HoldingBut(Excused(c), conn[c], s)
    <3>1. HoldingBut(Excused(c), h, s)
      BY <2>2, <2>3 DEF HoldingBut
    <3> QED  BY <1>0, <3>1, HoldingButFrom
  <2>5. Tells(conn[c], s)
    BY <1>1, <2>3, TellsTwice
  <2> QED  BY <1>0, <2>1, <2>3, <2>4, <2>5, OwnRecord
<1>11. ASSUME NEW t \in Topics, NEW r \in RetainFlags, Publish(c, t, r)
       PROVE  StepOf(e)
  BY <1>11, PublishStepOf
<1>12. ASSUME NEW f \in Topics \cup Wildcards, NEW q \in QoS, Subscribe(c, f, q)
       PROVE  StepOf(e)
  BY <1>12, SubscribeStepOf
<1>13. ASSUME NEW f \in Topics \cup Wildcards, Unsubscribe(c, f)
       PROVE  StepOf(e)
  <2> DEFINE i == SelectInSeq(conn[c].sub_list, LAMBDA x : x.filter = f)
             I == {j \in 1..Len(conn[c].sub_list) : conn[c].sub_list[j].filter = f}
             s == [h EXCEPT !.sub_list = RemoveAt(@, i)]
  <2>1. i # 0 /\ conn' = [conn EXCEPT ![c] = s]
    BY <1>13 DEF Unsubscribe
  <2>2. I \subseteq Nat /\ i = IF I # {} THEN Min(I) ELSE 0
    BY DEF SelectInSeq
  <2>3. i \in 1..Len(conn[c].sub_list)
    BY <2>1, <2>2, LeastPosition, Zenon
  <2> HIDE DEF i, h
  <2>4. Follows(s, h, Known)
    BY <1>0, <2>3, UnsubscribedGood
  <2>5. s \in Conn
    BY <2>4 DEF Follows, GoodConn
  <2>6. /\ s.state = h.state /\ s.told = h.told
        /\ s.reg_msg_list = h.reg_msg_list /\ s.pub_msg_list = h.pub_msg_list
    BY <1>0 DEF Conn
  <2> HIDE DEF s
  <2>7. HoldingBut(Excused(c), conn[c], s) /\ Tells(conn[c], s)
    BY <1>0, <2>6, HoldingSame, HoldingAll, TellsSame
  <2> QED  BY <1>0, <2>1, <2>5, <2>6, <2>7, OwnRecord
<1> QED  BY <1>2, <1>3, <1>4, <1>5, <1>6, <1>7, <1>8, <1>9, <1>10, <1>11, <1>12, <1>13
         DEF PacketOf

\* CONNECT: the session it gets becomes CONNECTED, or only moves.
LEMMA ConnectStepOf ==
  ASSUME IInv, NEW a \in Addrs, NEW x \in Clients, NEW d \in Durations,
         NEW clean, NEW will, Connect(a, x, d, clean, will), NEW e \in Clients
  PROVE  StepOf(e)
<1> DEFINE c == SessionOf(a, x)
           r == RecordOf(a, x)
           b == Connected(r, d, clean)
<1>0. conn \in [Clients -> Conn] /\ mqttsn_msg_id \in MsgIds /\ Live \subseteq Clients
  BY LiveTyped DEF IInv, TypeOK
<1>1. c \in Clients
  <2>1. CASE FindAddr(a) # {}
    BY <1>0, <2>1 DEF SessionOf, FindAddr
  <2>2. CASE FindAddr(a) = {}
    BY <2>2 DEF SessionOf
  <2> QED  BY <2>1, <2>2
<1>2. /\ r \in GoodConn(Known) /\ r \in Conn
      /\ r.state = conn[c].state /\ r.told = conn[c].told
      /\ r.reg_msg_list = conn[c].reg_msg_list /\ r.pub_msg_list = conn[c].pub_msg_list
  <2>1. conn[c] \in GoodConn(Known) /\ conn[c] \in Conn /\ r = [conn[c] EXCEPT !.addr = a]
    BY <1>1, RecordTyped DEF RecordOf
  <2> HIDE DEF c, r
  <2>2. r \in GoodConn(Known)
    BY <2>1, AddrGood
  <2> QED  BY <2>1, <2>2 DEF GoodConn, Conn
<1>3. \/ d = 0 /\ conn' = [conn EXCEPT ![c] = r]
      \/ d # 0 /\ conn' = [conn EXCEPT ![c] = b]
      \/ d # 0 /\ conn' = [conn EXCEPT ![c] = SendBuffered(b, mqttsn_msg_id)]
  BY DEF Connect, Flush
<1> HIDE DEF c, r
<1>4. CASE e # c
  BY <1>0, <1>3, <1>4, Unmoved
<1>5. CASE e = c /\ d = 0
  <2>1. conn'[e] = r
    BY <1>0, <1>3, <1>5
  <2>2. /\ HoldingBut(Excused(e), conn[e], r)
        /\ Tells(conn[e], r) /\ NothingSent(conn[e], r)
    BY <1>2, <1>5, HoldingSame, HoldingAll, TellsSame, NothingSentSame
  <2> QED  BY <1>0, <1>2, <1>5, <2>1, <2>2 DEF StepOf
<1>6. CASE e = c /\ d # 0
  <2>1. d \in Nat
    BY NumbersAssumption
  <2>2. b \in Conn
    BY <1>2, <1>6, <2>1, ConnectedGood DEF Follows, GoodConn
  <2> DEFINE timed == WithKeepalive([r EXCEPT !.state = "CONNECTED"], d)
  <2>3. /\ timed.state = "CONNECTED" /\ timed.told = r.told
        /\ timed.reg_msg_list = r.reg_msg_list /\ timed.pub_msg_list = r.pub_msg_list
    BY <1>2 DEF WithKeepalive, Conn
  <2>4. timed \in Conn
    BY <1>2, <2>1, <1>6, KeepaliveGood DEF Follows, GoodConn, States
  <2>5. b = IF clean THEN TopicsCleared(timed) ELSE timed
    BY DEF Connected
  <2> HIDE DEF b, timed
  <2>6. /\ b.state = "CONNECTED"
        /\ \/ HoldingBut(Excused(e), conn[e], b) /\ Tells(conn[e], b)
           \/ b = TopicsCleared(b)
    <3>1. CASE clean
      <4>1. b = TopicsCleared(timed)
        BY <2>5, <3>1
      <4> QED  BY <2>3, <2>4, <4>1 DEF TopicsCleared, Conn
    <3>2. CASE ~clean
      <4>1. b = timed
        BY <2>5, <3>2
      <4> QED  BY <1>2, <1>6, <2>3, <4>1, HoldingSame, HoldingAll, TellsSame
    <3> QED  BY <3>1, <3>2
  <2>7. conn'[e] = b \/ conn'[e] = SendBuffered(b, mqttsn_msg_id)
    BY <1>0, <1>3, <1>6
  <2> QED  BY <1>0, <2>2, <2>6, <2>7 DEF StepOf
<1> QED  BY <1>4, <1>5, <1>6

\* The retransmission clock of the head loses nothing.
LEMMA ClockHolding ==
  ASSUME NEW K, NEW r \in GoodConn(K), r.pub_msg_list # <<>>, r.pub_msg_list[1].tts # 0
  PROVE  LET s == [r EXCEPT !.pub_msg_list[1].tts = @ - 1]
         IN  Holding(r, s) /\ Tells(r, s) /\ s \in Conn
<1> DEFINE q == r.pub_msg_list
           e == [q[1] EXCEPT !.tts = q[1].tts - 1]
           pub == [q EXCEPT ![1] = e]
           s == [r EXCEPT !.pub_msg_list[1].tts = @ - 1]
<1>1. /\ r \in Conn /\ q \in Seq(Msg) /\ r.reg_msg_list \in Seq(Msg)
      /\ Len(q) \in Nat
  BY LenProperties DEF GoodConn, Conn
<1>2. q[1] \in Msg /\ 1 \in 1..Len(q)
  BY <1>1, FirstElement
<1>3. s \in Conn
  <2>1. Follows(s, r, K)
    BY ClockGood, Zenon
  <2> QED  BY <2>1 DEF Follows, GoodConn
<1>4. s = [r EXCEPT !.pub_msg_list = pub]
  OBVIOUS
<1>5. e.topic_id = q[1].topic_id /\ e.msg_id = q[1].msg_id /\ e.dup = q[1].dup /\ e.qos = q[1].qos
  BY <1>2 DEF Msg
<1> HIDE DEF e
<1>6. Len(pub) = Len(q) /\ \A i \in 1..Len(q) : pub[i] = IF i = 1 THEN e ELSE q[i]
  BY <1>1, <1>2
<1> HIDE DEF s, pub
<1>7. s.reg_msg_list = r.reg_msg_list /\ s.pub_msg_list = pub /\ s.told = r.told
  BY <1>1, <1>4 DEF Conn
<1>8. s.pub_msg_list \in Seq(Msg)
  BY <1>3 DEF Conn
<1>9. Extends(s.pub_msg_list, r.pub_msg_list, {}, 0)
  BY <1>1, <1>5, <1>6, <1>7, <1>8 DEF Extends
<1>10. Extends(s.reg_msg_list, r.reg_msg_list, {}, 0)
  BY <1>1, <1>7, ExtendsItself
<1>11. Allowed(r, s, {}, 0)
  BY DEF Allowed
<1>12. Holding(r, s)
  BY <1>1, <1>9, <1>10, <1>11, HoldingExtended
<1>13. Tells(r, s)
  <2>1. DOMAIN q = 1..Len(q) /\ DOMAIN s.pub_msg_list = 1..Len(q)
    BY <1>1, <1>6, <1>7, <1>8, LenProperties
  <2>2. \A i \in 1..Len(q) : s.pub_msg_list[i].topic_id = q[i].topic_id
    BY <1>5, <1>6, <1>7
  <2> QED  BY <1>7, <2>1, <2>2 DEF Tells, TopicIdsOf
<1> QED  BY <1>3, <1>12, <1>13 DEF s

\* timer_handle at a session: it ends, or is counted down.
LEMMA TimerVisitStepOf ==
  ASSUME IInv, TimerVisit, NEW e \in Clients
  PROVE  StepOf(e)
<1> DEFINE c == Head(visit)
           r == CountedDown(conn[c])
<1>0. /\ visit \in Seq(Clients) /\ visit # <<>>
      /\ Expire(c) \/ Count(c)
      /\ conn \in [Clients -> Conn]
  BY DEF TimerVisit, IInv, TypeOK
<1>1. c \in Clients
  BY <1>0, HeadTailProperties
<1> HIDE DEF c
<1>2. CASE Expire(c)
  BY <1>1, <1>2, CloseStepOf DEF Expire
<1>3. CASE Count(c)
  <2>1. conn[c] \in GoodConn(Known) /\ conn[c] \in Conn /\ mqttsn_msg_id \in MsgIds
    BY <1>1, RecordTyped
  <2>2. r \in GoodConn(Known) /\ r \in Conn
    BY <1>3, <2>1, CountedDownGood DEF Count, Follows, GoodConn
  <2>3. /\ r.state = conn[c].state /\ r.told = conn[c].told
        /\ r.reg_msg_list = conn[c].reg_msg_list /\ r.pub_msg_list = conn[c].pub_msg_list
    BY <2>1 DEF CountedDown, Conn
  <2>4. /\ HoldingBut(Excused(c), conn[c], r)
        /\ Tells(conn[c], r) /\ NothingSent(conn[c], r)
    BY <2>3, HoldingSame, HoldingAll, TellsSame, NothingSentSame
  <2>5. \/ conn' = [conn EXCEPT ![c] = r]
        \/ /\ Retrying(r) /\ r.pub_msg_list[1].tts # 0
           /\ conn' = [conn EXCEPT ![c] = [r EXCEPT !.pub_msg_list[1].tts = @ - 1]]
        \/ Retrying(r) /\ conn' = [conn EXCEPT ![c] = SendBuffered(r, mqttsn_msg_id)]
    BY <1>3 DEF Count, Flush
  <2> HIDE DEF r
  <2>6. CASE e # c
    BY <1>0, <2>5, <2>6, Unmoved
  <2>7. CASE e = c /\ conn' = [conn EXCEPT ![c] = r]
    <3>1. conn'[e] = r
      BY <1>0, <2>7
    <3> QED  BY <2>1, <2>2, <2>3, <2>4, <2>7, <3>1 DEF StepOf
  <2>8. CASE /\ e = c /\ Retrying(r) /\ r.pub_msg_list[1].tts # 0
             /\ conn' = [conn EXCEPT ![c] = [r EXCEPT !.pub_msg_list[1].tts = @ - 1]]
    <3> DEFINE s == [r EXCEPT !.pub_msg_list[1].tts = @ - 1]
    <3>1. r.pub_msg_list # <<>> /\ r.state # "ASLEEP"
      BY <2>8 DEF Retrying
    <3>2. Holding(r, s) /\ Tells(r, s) /\ s \in Conn
      BY <2>2, <2>8, <3>1, ClockHolding
    <3>3. s.state = r.state
      BY <2>2 DEF Conn
    <3>4. conn'[e] = s
      BY <1>0, <2>8
    <3> HIDE DEF s
    <3>5. HoldingBut(Excused(c), conn[c], s) /\ Tells(conn[c], s)
      BY <2>3, <2>4, <3>2, HoldingFrom, HoldingAll, TellsTwice
    <3> QED  BY <2>1, <2>3, <2>8, <3>1, <3>2, <3>3, <3>4, <3>5 DEF StepOf
  <2>9. CASE /\ e = c /\ Retrying(r)
             /\ conn' = [conn EXCEPT ![c] = SendBuffered(r, mqttsn_msg_id)]
    <3>1. r.state # "ASLEEP"
      BY <2>9 DEF Retrying
    <3>2. conn'[e] = SendBuffered(r, mqttsn_msg_id)
      BY <1>0, <2>9
    <3> QED  BY <2>1, <2>2, <2>3, <2>4, <2>9, <3>1, <3>2 DEF StepOf
  <2> QED  BY <2>5, <2>6, <2>7, <2>8, <2>9
<1> QED  BY <1>0, <1>2, <1>3

LEMMA NextStepOf ==
  ASSUME IInv, [Next]_vars, NEW c \in Clients
  PROVE  StepOf(c)
<1>1. ASSUME NEW x \in Clients, ConnectOf(x)
      PROVE  StepOf(c)
  BY <1>1, ConnectStepOf DEF ConnectOf
<1>2. ASSUME NEW d \in Clients, PacketOf(d)
      PROVE  StepOf(c)
  BY <1>2, PacketStepOf
<1>3. ASSUME NEW t \in Topics, NEW r \in RetainFlags, BrokerPublish(t, r)
      PROVE  StepOf(c)
  BY <1>3, BrokerPublishStepOf
<1>4. CASE TimerStart
  BY <1>4, Unmoved DEF TimerStart
<1>5. CASE TimerVisit
  BY <1>5, TimerVisitStepOf
<1>6. CASE UNCHANGED vars
  BY <1>6, Unmoved DEF vars
<1> QED  BY <1>1, <1>2, <1>3, <1>4, <1>5, <1>6 DEF Next, Timer

-----------------------------------------------------------------------------
(* The action properties *)

\* Publications and the timer send nothing to a sleeping client.
LEMMA SleeperStep ==
  ASSUME IInv, NEW c \in Clients, StepOf(c),
         conn[c].state = "ASLEEP", conn'[c].state = "ASLEEP"
  PROVE  NothingSent(conn[c], conn'[c]) \/ PacketOf(c)
<1>1. CASE conn'[c] = NoConn
  BY <1>1 DEF NoConn
<1>2. ASSUME NEW s \in Conn, NEW m \in MsgIds,
             conn'[c] = s \/ conn'[c] = SendBuffered(s, m), s.state = "CONNECTED"
      PROVE  FALSE
  BY <1>2, SendBufferedState DEF Drained
<1> QED  BY <1>1, <1>2 DEF StepOf

\* A client is answered when its lists are empty.
LEMMA AnswerStep ==
  ASSUME IInv, NEW c \in Clients, StepOf(c),
         \/ conn[c].state = "CONNECTED" /\ conn'[c].state = "ACTIVE"
         \/ /\ conn[c].state = "AWAKE" /\ conn'[c].state = "ASLEEP"
            /\ \A d \in Durations : ~Sleep(c, d)
  PROVE  conn'[c].reg_msg_list = <<>> /\ conn'[c].pub_msg_list = <<>>
<1>0. conn \in [Clients -> Conn]
  BY DEF IInv, TypeOK
<1>1. conn'[c] # NoConn
  BY DEF NoConn
<1>2. PICK s \in Conn, m \in MsgIds :
        /\ conn'[c] = s \/ conn'[c] = SendBuffered(s, m)
        /\ \/ s.state \in {conn[c].state, "CONNECTED"}
           \/ \E d \in Durations : Sleep(c, d)
  BY <1>1 DEF StepOf
<1>3. ASSUME NEW d \in Durations, Sleep(c, d)
      PROVE  conn'[c].state = "ASLEEP"
  <2>1. conn'[c] = WithKeepalive([conn[c] EXCEPT !.state = "ASLEEP"], d) /\ conn[c] \in Conn
    BY <1>0, <1>3 DEF Sleep
  <2> QED  BY <2>1 DEF WithKeepalive, Conn
<1>4. s.state # conn'[c].state
  BY <1>2, <1>3
<1>5. conn'[c] = SendBuffered(s, m)
  BY <1>2, <1>4
<1> QED  BY <1>4, <1>5, SendBufferedState

\* A session without lists stays without them.
LEMMA ClearedStays ==
  ASSUME NEW s \in Conn, NEW m \in MsgIds, s = TopicsCleared(s)
  PROVE  SendBuffered(s, m) = TopicsCleared(SendBuffered(s, m))
<1>1. /\ s.reg_msg_list = <<>> /\ s.pub_msg_list = <<>> /\ s.sub_list = <<>>
      /\ s.will = NoWill /\ s.reg_list = {} /\ s.told = {}
  BY DEF TopicsCleared, Conn
<1>2. AfterQos0(s.pub_msg_list) = <<>>
  <2>1. /\ s.pub_msg_list \in Seq(Msg) /\ Len(s.pub_msg_list) = 0
    BY <1>1, EmptyTyped
  <2>2. /\ FirstQos(s.pub_msg_list) \in 1..Len(s.pub_msg_list) + 1
        /\ AfterQos0(s.pub_msg_list) \in Seq(Msg)
        /\ Len(AfterQos0(s.pub_msg_list)) = Len(s.pub_msg_list) - FirstQos(s.pub_msg_list) + 1
    BY <2>1, FirstQosFirst, AfterQos0Type
  <2>3. Len(AfterQos0(s.pub_msg_list)) = 0
    BY <2>1, <2>2
  <2> QED  BY <2>2, <2>3, EmptySeq
<1>3. SendBuffered(s, m) = [s EXCEPT !.pub_msg_list = <<>>, !.state = Drained(s.state)]
  BY <1>1, <1>2 DEF SendBuffered
<1> QED  BY <1>1, <1>3 DEF TopicsCleared, Conn

\* What is put in line for the client was told to it, unless it asked for it.
LEMMA ToldStep ==
  ASSUME IInv, NEW c \in Clients, StepOf(c)
  PROVE  Untold(conn'[c]) \subseteq Untold(conn[c]) \/ StrayRegack(c)
<1>1. CASE conn'[c] = NoConn
  BY <1>1 DEF NoConn, Untold, TopicIdsOf
<1>2. ASSUME NEW s \in Conn, NEW m \in MsgIds,
             conn'[c] = s \/ conn'[c] = SendBuffered(s, m),
             Tells(conn[c], s) \/ s = TopicsCleared(s)
      PROVE  Untold(conn'[c]) \subseteq Untold(conn[c])
  <2>1. s = TopicsCleared(s) => Untold(s) = {}
    <3> SUFFICES ASSUME s = TopicsCleared(s)
                 PROVE  Untold(s) = {}
      OBVIOUS
    <3>1. s.pub_msg_list = <<>>
      BY <1>2 DEF TopicsCleared, Conn
    <3>2. TopicIdsOf(<<>>) = {}
      BY DEF TopicIdsOf
    <3> QED  BY <3>1, <3>2 DEF Untold
  <2>2. Untold(s) \subseteq Untold(conn[c])
    BY <1>2, <2>1 DEF Tells, Untold
  <2>3. Untold(SendBuffered(s, m)) \subseteq Untold(s)
    BY SendBufferedTells DEF Tells, Untold
  <2> QED  BY <1>2, <2>2, <2>3
<1> QED  BY <1>1, <1>2 DEF StepOf

\* What waits for the client still waits, or was demoted, or taken away by the
\* client.
LEMMA KeptStep ==
  ASSUME IInv, NEW c \in Clients, StepOf(c), conn'[c] # TopicsCleared(conn'[c]),
         NEW e \in Waiting(conn[c]), e.qos # 0
  PROVE  \/ e.topic_id \in Kept(conn'[c])
         \/ Demoted(conn[c], conn'[c], e.topic_id)
         \/ Crossed(c, e.topic_id)
         \/ AckedUnsent(c, e.topic_id)
<1> DEFINE r == conn[c]
           id == e.topic_id
<1>0. /\ r \in Conn
      /\ DOMAIN r.reg_msg_list = 1..Len(r.reg_msg_list)
      /\ DOMAIN r.pub_msg_list = 1..Len(r.pub_msg_list)
  BY RecordTyped, LenProperties DEF Conn
<1>1. conn'[c] # NoConn
  <2>1. NoConn \in Conn
    BY NoConnGood DEF GoodConn
  <2>2. /\ NoConn.reg_msg_list = <<>> /\ NoConn.pub_msg_list = <<>> /\ NoConn.sub_list = <<>>
        /\ NoConn.will = NoWill /\ NoConn.reg_list = {} /\ NoConn.told = {}
    BY DEF NoConn
  <2>3. NoConn = TopicsCleared(NoConn)
    BY <2>1, <2>2 DEF TopicsCleared, Conn
  <2> QED  BY <2>3
<1>2. PICK s \in Conn, m \in MsgIds :
        /\ conn'[c] = s \/ conn'[c] = SendBuffered(s, m)
        /\ HoldingBut(Excused(c), r, s) \/ s = TopicsCleared(s)
  BY <1>1 DEF StepOf
<1>3. HoldingBut(Excused(c), r, s)
  BY <1>2, ClearedStays
<1>4. id \in Excused(c) \/ Waits(s, id) \/ Demoted(r, s, id)
  <2>1. CASE e \in ToSet(r.reg_msg_list)
    BY <1>0, <1>3, <2>1 DEF HoldingBut, ToSet
  <2>2. CASE e \in ToSet(r.pub_msg_list) /\ e.msg_id = 0
    BY <1>0, <1>3, <2>2 DEF HoldingBut, ToSet
  <2> QED  BY <2>1, <2>2 DEF Waiting
<1>5. CASE Waits(s, id)
  <2>1. /\ DOMAIN s.reg_msg_list = 1..Len(s.reg_msg_list)
        /\ DOMAIN s.pub_msg_list = 1..Len(s.pub_msg_list)
    BY LenProperties DEF Conn
  <2>2. id \in Kept(s)
    BY <1>5, <2>1 DEF Waits, Kept, TopicIdsOf
  <2>3. id \in Kept(SendBuffered(s, m))
    BY <1>5, SendBufferedKeeps
  <2> QED  BY <1>2, <2>2, <2>3
<1>6. CASE Demoted(r, s, id)
  <2>1. conn'[c].sub_list = s.sub_list
    BY <1>2, SendBufferedState
  <2> QED  BY <1>6, <2>1 DEF Demoted
<1>7. CASE id \in Excused(c)
  BY <1>7 DEF Excused
<1> QED  BY <1>4, <1>5, <1>6, <1>7

\* A session leaves the list when it is closed only.
LEMMA EndedByClose ==
  ASSUME IInv, [Next]_vars, NEW c \in Live, c \notin Live'
  PROVE  Close(c)
<1>0. mqttsn_conns' # mqttsn_conns
  BY DEF Live
<1>1. ASSUME NEW x, Close(x), x # c
      PROVE  FALSE
  BY <1>1, RemovedOnly DEF Close, Live
<1>2. ASSUME NEW x \in Clients, ConnectOf(x)
      PROVE  FALSE
  <2>1. PICK y : mqttsn_conns' = Append(mqttsn_conns, y)
    BY <1>0, <1>2 DEF ConnectOf, Connect
  <2>2. mqttsn_conns \in Seq(Clients) /\ Len(mqttsn_conns) \in Nat
    BY LenProperties DEF IInv, TypeOK
  <2>3. PICK i \in 1..Len(mqttsn_conns) : mqttsn_conns[i] = c
    BY LivePlace
  <2>4. i \in DOMAIN mqttsn_conns' /\ mqttsn_conns'[i] = c
    BY <2>1, <2>2, <2>3
  <2> QED  BY <2>4 DEF Live, ToSet
<1>3. ASSUME NEW d \in Clients, PacketOf(d)
      PROVE  Close(d)
  BY <1>0, <1>3
     DEF PacketOf, Touch, WillTopic, WillMsg, Pingreq, Sleep, Disconnect, Register, Regack,
         Puback, Pubcomp, Publish, Subscribe, Unsubscribe
<1>4. ASSUME NEW t \in Topics, NEW r \in RetainFlags, BrokerPublish(t, r)
      PROVE  FALSE
  BY <1>0, <1>4 DEF BrokerPublish
<1>5. CASE Timer
  BY <1>0, <1>1, <1>5 DEF Timer, TimerStart, TimerVisit, Expire, Count
<1>6. CASE UNCHANGED vars
  BY <1>0, <1>6 DEF vars
<1> QED  BY <1>1, <1>2, <1>3, <1>4, <1>5, <1>6 DEF Next

\* A topic that is queued for a session waits in it, or was sent to it.
LEMMA DeliveredHolds ==
  ASSUME NEW r \in Conn, NEW t \in Topics, NEW id \in TopicIds, NEW m \in MsgIds,
         SubOf(r, t) # 0
  PROVE  \/ id \in Kept(Delivered(r, t, id, m))
         \/ r.state = "ACTIVE" /\ r.sub_list[SubOf(r, t)].qos = 0
<1> DEFINE s == Queued(r, t, id)
           qos == r.sub_list[SubOf(r, t)].qos
<1>0. qos \in QoS /\ r.reg_msg_list \in Seq(Msg) /\ r.pub_msg_list \in Seq(Msg) /\ s \in Conn
  BY SubOfCovers, QueuedType DEF Conn
<1>1. /\ s.reg_msg_list = IF id \in r.reg_list THEN r.reg_msg_list
                          ELSE MsgAdd(r.reg_msg_list, id, qos)
      /\ s.pub_msg_list = IF id \in r.reg_list THEN MsgAdd(r.pub_msg_list, id, qos)
                          ELSE r.pub_msg_list
  BY QueuedLists
<1>2. Delivered(r, t, id, m) = IF SentAtOnce(r, t) THEN SendBuffered(s, m) ELSE s
  BY DEF Delivered
<1> HIDE DEF qos, s
<1>3. /\ Holds(MsgAdd(r.reg_msg_list, id, qos), id, qos)
      /\ Holds(MsgAdd(r.pub_msg_list, id, qos), id, qos)
  BY <1>0, MsgAddExtends
<1>4. Holds(s.reg_msg_list, id, qos) \/ Holds(s.pub_msg_list, id, qos)
  BY <1>1, <1>3
<1>5. CASE SentAtOnce(r, t)
  <2>1. CASE qos = 0
    BY <1>5, <2>1 DEF SentAtOnce, qos
  <2>2. CASE qos # 0
    <3>1. Waits(s, id)
      BY <1>4, <2>2 DEF Waits, Holds
    <3>2. id \in Kept(SendBuffered(s, m))
      BY <1>0, <3>1, SendBufferedKeeps
    <3> QED  BY <1>2, <1>5, <3>2
  <2> QED  BY <2>1, <2>2
<1>6. CASE ~SentAtOnce(r, t)
  <2>1. /\ DOMAIN s.reg_msg_list = 1..Len(s.reg_msg_list)
        /\ DOMAIN s.pub_msg_list = 1..Len(s.pub_msg_list)
    BY <1>0, LenProperties DEF Conn
  <2>2. id \in Kept(s)
    BY <1>4, <2>1 DEF Holds, Kept, TopicIdsOf
  <2> QED  BY <1>2, <1>6, <2>2
<1> QED  BY <1>5, <1>6

\* The will of a session that is closed is published.
LEMMA WillStep ==
  ASSUME IInv, NEW c \in Clients, Close(c), conn[c].will.topic # NoTopic
  PROVE  WillPublished(c)
<1> DEFINE w == conn[c].will
           t == w.topic
           id == topic_id'[t]
           rest == RemoveFirst(mqttsn_conns, c)
<1>0. /\ conn \in [Clients -> Conn] /\ retain \in [Topics -> BOOLEAN]
      /\ Live \subseteq Clients
  BY LiveTyped DEF IInv, TypeOK
<1>1. /\ AssignTopicId(t)
      /\ retain' = [retain EXCEPT ![t] = w.retain]
      /\ PublishSend(rest, Forgotten(c), t, id)
  BY DEF Close, Forgotten
<1>2. t \in Topics
  <2>1. w \in Will
    BY <1>0 DEF Conn
  <2> QED  BY <2>1 DEF Will, NoWill
<1>3. rest \in Seq(Clients) /\ \A d \in Live : d # c => d \in ToSet(rest)
  BY RemovedOnly
<1> HIDE DEF rest
<1>4. id \in TopicIds
  BY <1>1, <1>2, AssignedId
<1>5. id # 0 /\ retain'[t] = w.retain
  BY <1>0, <1>1, <1>2, <1>4 DEF TopicIds
<1>6. ASSUME NEW d \in Live \ {c}, SubOf(conn[d], t) # 0
      PROVE  \/ id \in TopicIdsOf(conn'[d].reg_msg_list)
             \/ id \in TopicIdsOf(conn'[d].pub_msg_list)
             \/ conn[d].state = "ACTIVE" /\ conn[d].sub_list[SubOf(conn[d], t)].qos = 0
  <2>1. d \in ToSet(rest) /\ d \in Clients /\ Forgotten(c)[d] = conn[d] /\ conn[d] \in Conn
    BY <1>0, <1>3, <1>6 DEF Forgotten
  <2> HIDE DEF w, t, id
  <2>2. PICK m \in MsgIds : conn'[d] = Delivered(conn[d], t, id, m)
    BY <1>1, <1>3, <2>1, FanOut
  <2> QED  BY <1>2, <1>4, <1>6, <2>1, <2>2, DeliveredHolds DEF Kept
<1> QED  BY <1>5, <1>6 DEF WillPublished

\* timer_handle and publications never wake up a client: while it sleeps, what
\* is queued for it is not sent (mqttsn_publish_send, timer_handle).
THEOREM SleepersLeftAlone == Spec => SleepersUndisturbed
<1>1. IInv /\ [Next]_vars =>
        \A c \in Live : conn[c].state = "ASLEEP" /\ conn'[c].state = "ASLEEP"
                          => NothingSent(conn[c], conn'[c]) \/ PacketOf(c)
  BY LiveTyped, NextStepOf, SleeperStep
<1> QED  BY <1>1, Invariant, PTL DEF Spec, SleepersUndisturbed

\* mqttsn_send_buffered_msgs answers CONNECT with CONNACK, and ends an awake
\* period with PINGRESP, only when it has sent everything.
THEOREM AnsweredWhenDrained == Spec => DrainedBeforeAnswer
<1>1. IInv /\ [Next]_vars =>
        \A c \in Live :
          \/ conn[c].state = "CONNECTED" /\ conn'[c].state = "ACTIVE"
          \/ /\ conn[c].state = "AWAKE" /\ conn'[c].state = "ASLEEP"
             /\ \A d \in Durations : ~Sleep(c, d)
          => conn'[c].reg_msg_list = <<>> /\ conn'[c].pub_msg_list = <<>>
  BY LiveTyped, NextStepOf, AnswerStep
<1> QED  BY <1>1, Invariant, PTL DEF Spec, DrainedBeforeAnswer

\* A PUBLISH is put in line for a client only if the client was told its topic
\* id before, or asked for it with a wrong REGACK.
THEOREM PublishedIdsTold == Spec => TopicIdTold
<1>1. IInv /\ [Next]_vars =>
        \A c \in Clients : Untold(conn'[c]) \subseteq Untold(conn[c]) \/ StrayRegack(c)
  BY NextStepOf, ToldStep
<1> QED  BY <1>1, Invariant, PTL DEF Spec, TopicIdTold

\* No handler loses a publication of QoS 1 or 2 that waits for a client, but
\* for a CONNECT that clears the session and for acknowledgements of the client
\* that are wrong: a REGACK with another topic id, or message id 0.
THEOREM NothingLost == Spec => KeptUntilSent
<1>1. IInv /\ [Next]_vars =>
        \A c \in Live \cap Live' :
          conn'[c] # TopicsCleared(conn'[c]) =>
            \A e \in Waiting(conn[c]) :
              \/ e.qos = 0
              \/ e.topic_id \in Kept(conn'[c])
              \/ Demoted(conn[c], conn'[c], e.topic_id)
              \/ Crossed(c, e.topic_id)
              \/ AckedUnsent(c, e.topic_id)
  BY LiveTyped, NextStepOf, KeptStep
<1> QED  BY <1>1, Invariant, PTL DEF Spec, KeptUntilSent

\* However a session ends, its will reaches the store and every other session
\* that subscribes to it (mqttsn_conn_close).
THEOREM WillReaches == Spec => WillDelivered
<1>1. IInv /\ [Next]_vars =>
        \A c \in Live : c \notin Live' /\ conn[c].will.topic # NoTopic => WillPublished(c)
  BY LiveTyped, EndedByClose, WillStep
<1> QED  BY <1>1, Invariant, PTL DEF Spec, WillDelivered

=============================================================================
