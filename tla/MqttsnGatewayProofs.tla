-------------------------- MODULE MqttsnGatewayProofs --------------------------
(***************************************************************************)
(* Theorems about MqttsnGateway, for every value of its constants.         *)
(***************************************************************************)
EXTENDS MqttsnGateway, SequenceTheorems, FiniteSetTheorems, TLAPS

-----------------------------------------------------------------------------
(* The inductive invariant *)

\* The topic ids of pub_list
IdsOf(f) == {f[t] : t \in Topics} \ {0}
Known == IdsOf(topic_id)

\* Lists whose topics are in A; what was sent of them is the head only, and
\* the client was told the topics of B.
Queues(A, B) ==
  {q \in Seq(Msg) :
     \A i \in 1..Len(q) : /\ q[i].topic_id \in A
                          /\ q[i].msg_id # 0 => q[i].topic_id \in B
                          /\ i > 1 => NeverSent(q[i])}

\* The session records the handlers produce when K are the topic ids in use.
GoodConn(K) ==
  {r \in Conn :
     /\ r.state # "DISCONNECTED" => r.keepalivesec > 0 /\ r.remainsec =< r.keepalivesec
     /\ r.reg_list \subseteq r.told
     /\ r.told \subseteq K
     /\ r.reg_msg_list \in Queues(K, r.told)
     /\ r.pub_msg_list \in Queues(K, K)}

\* Topic ids are given out in order: as long as there are enough of them, n
\* topics have the ids 1..n.
IdsCounted ==
  LET n == Cardinality(NamedTopics)
  IN  n =< MaxTopicId =>
        /\ \A t \in NamedTopics : topic_id[t] =< n
        /\ mqttsn_topic_id = IF n = MaxTopicId THEN 1 ELSE n + 1

NoRepeats(list) == \A i, j \in 1..Len(list) : list[i] = list[j] => i = j

Walk ==
  /\ Len(visit) =< Len(mqttsn_conns)
  /\ \A i \in 1..Len(visit) :
       visit[i] = mqttsn_conns[Len(mqttsn_conns) - Len(visit) + i]

StoreInv ==
  /\ \A t \in Topics : retain[t] => topic_id[t] # 0
  /\ TopicIdsUnique
  /\ IdsCounted

ListInv == NoRepeats(mqttsn_conns) /\ AddrUnique /\ Walk

IInv == TypeOK /\ StoreInv /\ ListInv /\ conn \in [Clients -> GoodConn(Known)]

-----------------------------------------------------------------------------
(* Searching lists *)

\* A non-empty set of positions has a least one.
LEMMA LeastPosition ==
  ASSUME NEW I, I \subseteq Nat, I # {}
  PROVE  Min(I) \in I /\ \A i \in I : Min(I) =< i
<1> DEFINE Less == {p \in Nat \X Nat : p[1] < p[2]}
<1>1. IsWellFoundedOn(Less, Nat)
  BY NatLessThanWellFounded DEF OpToRel
<1>2. PICK x \in I : \A y \in I : ~(<<y, x>> \in Less)
  <2> HIDE DEF Less
  <2> QED  BY <1>1, WFMin, Zenon
<1>3. ASSUME NEW y \in I, y < x
      PROVE  <<y, x>> \in Less
  BY <1>3
<1>4. \A y \in I : x =< y
  <2>1. TAKE y \in I
  <2>2. ~(y < x)
    <3> HIDE DEF Less
    <3> QED  BY <1>2, <1>3
  <2> QED  BY <2>2
<1> QED  BY <1>4 DEF Min

\* list_msg_find_msg_id returns the first element with the id, or none.
LEMMA MsgFindFirst ==
  ASSUME NEW S, NEW q \in Seq(S), NEW m
  PROVE  /\ MsgFind(q, m) \in 0..Len(q)
         /\ MsgFind(q, m) # 0 => q[MsgFind(q, m)].msg_id = m
<1> DEFINE I == {i \in 1..Len(q) : q[i].msg_id = m}
<1>1. MsgFind(q, m) = IF I # {} THEN Min(I) ELSE 0
  BY DEF MsgFind, SelectInSeq
<1>2. CASE I = {}
  BY <1>1, <1>2, LenProperties
<1>3. CASE I # {}
  <2>1. Len(q) \in Nat /\ I \subseteq Nat
    BY LenProperties
  <2>2. Min(I) \in I
    BY <1>3, <2>1, LeastPosition, Zenon
  <2> QED  BY <1>1, <1>3, <2>1, <2>2
<1> QED  BY <1>2, <1>3

\* FirstQos skips the leading QoS 0 messages and no other.
LEMMA FirstQosFirst ==
  ASSUME NEW S, NEW q \in Seq(S)
  PROVE  /\ FirstQos(q) \in 1..Len(q) + 1
         /\ FirstQos(q) =< Len(q) => q[FirstQos(q)].qos # 0
         /\ \A i \in 1..FirstQos(q) - 1 : q[i].qos = 0
<1> DEFINE I == {i \in 1..Len(q) : q[i].qos # 0}
<1>0. Len(q) \in Nat /\ I \subseteq Nat
  BY LenProperties
<1>1. CASE I = {}
  <2>1. FirstQos(q) = Len(q) + 1
    BY <1>0, <1>1 DEF FirstQos, SelectInSeq
  <2> QED  BY <1>0, <1>1, <2>1
<1>2. CASE I # {}
  <2>1. Min(I) \in I /\ \A i \in I : Min(I) =< i
    BY <1>0, <1>2, LeastPosition, Zenon
  <2>2. FirstQos(q) = Min(I)
    BY <1>0, <1>2, <2>1 DEF FirstQos, SelectInSeq
  <2>3. FirstQos(q) \in 1..Len(q) /\ q[FirstQos(q)].qos # 0
    BY <2>1, <2>2
  <2>4. ASSUME NEW i \in 1..FirstQos(q) - 1
        PROVE  q[i].qos = 0
    <3>1. i \in 1..Len(q) /\ i < FirstQos(q)
      BY <1>0, <2>3
    <3>2. i \in I => FirstQos(q) =< i
      BY <2>1, <2>2
    <3>3. i \notin I
      <4> HIDE DEF I
      <4> QED  BY <1>0, <2>3, <3>1, <3>2
    <3> QED  BY <3>1, <3>3
  <2> QED  BY <1>0, <2>3, <2>4
<1> QED  BY <1>1, <1>2

\* The subscription found covers the topic.
LEMMA SubOfFirst ==
  ASSUME NEW r, NEW t, NEW S, r.sub_list \in Seq(S)
  PROVE  SubOf(r, t) \in 0..Len(r.sub_list)
<1> DEFINE I == {i \in 1..Len(r.sub_list) : Covers(r.sub_list[i].filter, t)}
<1>0. Len(r.sub_list) \in Nat /\ I \subseteq Nat
  BY LenProperties
<1>1. SubOf(r, t) = IF I # {} THEN Min(I) ELSE 0
  BY DEF SubOf, SelectInSeq
<1>2. I # {} => Min(I) \in I
  BY <1>0, LeastPosition, Zenon
<1> QED  BY <1>0, <1>1, <1>2

\* The place of an element of a list.
LEMMA PlaceOf ==
  ASSUME NEW S, NEW s \in Seq(S), NEW e
  PROVE  /\ PlaceIn(s, e) \in 0..Len(s)
         /\ PlaceIn(s, e) # 0 => s[PlaceIn(s, e)] = e
         /\ PlaceIn(s, e) = 0 => \A j \in 1..Len(s) : s[j] # e
<1> DEFINE I == {i \in 1..Len(s) : s[i] = e}
<1>0. Len(s) \in Nat /\ I \subseteq Nat
  BY LenProperties
<1>1. PlaceIn(s, e) = IF I # {} THEN Min(I) ELSE 0
  BY DEF PlaceIn, SelectInSeq
<1>2. I # {} => Min(I) \in I
  BY <1>0, LeastPosition, Zenon
<1> QED  BY <1>0, <1>1, <1>2

\* RemoveAt closes the gap.
LEMMA RemoveAtProperties ==
  ASSUME NEW S, NEW s \in Seq(S), NEW i \in 1..Len(s)
  PROVE  /\ RemoveAt(s, i) \in Seq(S)
         /\ Len(RemoveAt(s, i)) = Len(s) - 1
         /\ \A j \in 1..Len(s) - 1 :
              RemoveAt(s, i)[j] = IF j < i THEN s[j] ELSE s[j + 1]
<1> DEFINE before == SubSeq(s, 1, i - 1)
           after == SubSeq(s, i + 1, Len(s))
<1>0. Len(s) \in Nat /\ \A j \in 1..Len(s) : s[j] \in S
  BY LenProperties, ElementOfSeq
<1>1. /\ before \in Seq(S) /\ Len(before) = i - 1
      /\ \A j \in 1..i - 1 : before[j] = s[j]
  BY <1>0, SubSeqProperties
<1>2. /\ after \in Seq(S) /\ Len(after) = Len(s) - i
      /\ \A j \in 1..Len(s) - i : after[j] = s[i + j]
  BY <1>0, SubSeqProperties
<1>3. /\ before \o after \in Seq(S)
      /\ Len(before \o after) = Len(s) - 1
      /\ \A j \in 1..Len(s) - 1 :
           (before \o after)[j] = IF j =< i - 1 THEN before[j] ELSE after[j - (i - 1)]
  <2> HIDE DEF before, after
  <2>1. /\ before \o after \in Seq(S)
        /\ Len(before \o after) = Len(before) + Len(after)
        /\ \A j \in 1..Len(before) + Len(after) :
             (before \o after)[j] = IF j =< Len(before) THEN before[j]
                                    ELSE after[j - Len(before)]
    BY <1>1, <1>2, ConcatProperties, Zenon
  <2>2. Len(before) + Len(after) = Len(s) - 1
    BY <1>0, <1>1, <1>2
  <2>3. Len(before \o after) = Len(s) - 1
    BY <2>1, <2>2, Zenon
  <2>4. \A j \in 1..Len(s) - 1 :
          (before \o after)[j] = IF j =< Len(before) THEN before[j] ELSE after[j - Len(before)]
    BY <2>1, <2>2, Zenon
  <2>5. Len(before) = i - 1
    BY <1>1
  <2> QED  BY <2>1, <2>3, <2>4, <2>5, Zenon
<1>4. RemoveAt(s, i) = before \o after
  BY DEF RemoveAt
<1> HIDE DEF before, after
<1> QED  BY <1>0, <1>1, <1>2, <1>3, <1>4

-----------------------------------------------------------------------------
(* The types of the operators *)

LEMMA MsgIdAfterType ==
  ASSUME NEW m \in MsgIds, NEW n \in Nat
  PROVE  MsgIdAfter(m, n) \in MsgIds
BY NumbersAssumption DEF MsgIds, MsgIdAfter

LEMMA ToleratedType ==
  ASSUME NEW d \in Nat
  PROVE  Tolerated(d) \in Nat /\ (d # 0 => Tolerated(d) > 0)
BY DEF Tolerated

\* A function on 1..n with values in S is a list of elements of S.
LEMMA TypedSeq ==
  ASSUME NEW S, NEW n \in Nat, NEW f, f = [i \in 1..n |-> f[i]],
         \A i \in 1..n : f[i] \in S
  PROVE  f \in Seq(S) /\ Len(f) = n /\ DOMAIN f = 1..n
<1>1. f \in [1..n -> S]
  OBVIOUS
<1>2. f \in Seq(S)
  BY <1>1, SeqDef
<1> QED  BY <1>1, <1>2, LenProperties

LEMMA RequeuedType ==
  ASSUME NEW e \in Msg, NEW qos \in QoS
  PROVE  Requeued(e, qos) \in Msg
<1>1. 0 \in 0..SendTimeout /\ FALSE \in BOOLEAN
  BY NumbersAssumption
<1> QED  BY <1>1, Zenon DEF Requeued, Msg

LEMMA NewMsgType ==
  ASSUME NEW id \in TopicIds, NEW qos \in QoS
  PROVE  NewMsg(id, qos) \in Msg
BY NumbersAssumption DEF NewMsg, Msg

\* The list all is q, with the topics of S requeued, followed by the new ones.
Adds(all, q, S, qos, new) ==
  /\ all \in Seq(Msg)
  /\ Len(all) = Len(q) + Len(new)
  /\ \A i \in 1..Len(q) :
       all[i] = IF q[i].topic_id \in S THEN Requeued(q[i], qos) ELSE q[i]
  /\ \A i \in 1..Len(new) : all[Len(q) + i] = NewMsg(new[i], qos)

LEMMA MsgAddAllType ==
  ASSUME NEW q \in Seq(Msg), NEW S, NEW qos \in QoS, NEW new \in Seq(TopicIds)
  PROVE  Adds(MsgAddAll(q, S, qos, new), q, S, qos, new)
<1> DEFINE kept == [i \in DOMAIN q |->
                      IF q[i].topic_id \in S THEN Requeued(q[i], qos) ELSE q[i]]
           added == [i \in DOMAIN new |-> NewMsg(new[i], qos)]
<1>0. /\ Len(q) \in Nat /\ DOMAIN q = 1..Len(q)
      /\ Len(new) \in Nat /\ DOMAIN new = 1..Len(new)
      /\ \A i \in 1..Len(q) : q[i] \in Msg
      /\ \A i \in 1..Len(new) : new[i] \in TopicIds
  BY LenProperties, ElementOfSeq
<1>1. kept \in Seq(Msg) /\ Len(kept) = Len(q)
  <2>1. ASSUME NEW i \in 1..Len(q)
        PROVE  kept[i] \in Msg
    BY <1>0, RequeuedType
  <2>2. DOMAIN kept = 1..Len(q)
    BY <1>0
  <2>3. kept = [i \in 1..Len(q) |-> kept[i]]
    BY <1>0
  <2> HIDE DEF kept
  <2> QED  BY <1>0, <2>1, <2>2, <2>3, TypedSeq
<1>2. added \in Seq(Msg) /\ Len(added) = Len(new)
  <2>1. ASSUME NEW i \in 1..Len(new)
        PROVE  added[i] \in Msg
    BY <1>0, NewMsgType
  <2>2. added = [i \in 1..Len(new) |-> added[i]]
    BY <1>0
  <2> HIDE DEF added
  <2> QED  BY <1>0, <2>1, <2>2, TypedSeq
<1>3. MsgAddAll(q, S, qos, new) = kept \o added
  BY DEF MsgAddAll
<1> HIDE DEF kept, added
<1>4. /\ kept \o added \in Seq(Msg)
      /\ Len(kept \o added) = Len(kept) + Len(added)
      /\ \A i \in 1..Len(kept) + Len(added) :
           (kept \o added)[i] = IF i =< Len(kept) THEN kept[i] ELSE added[i - Len(kept)]
  BY <1>1, <1>2, ConcatProperties
<1>5. \A i \in 1..Len(q) : (kept \o added)[i] = kept[i]
  BY <1>0, <1>1, <1>2, <1>4
<1>6. \A i \in 1..Len(new) : (kept \o added)[Len(q) + i] = added[i]
  BY <1>0, <1>1, <1>2, <1>4
<1>7. \A i \in 1..Len(q) : kept[i] = IF q[i].topic_id \in S THEN Requeued(q[i], qos) ELSE q[i]
  BY <1>0 DEF kept
<1>8. \A i \in 1..Len(new) : added[i] = NewMsg(new[i], qos)
  BY <1>0 DEF added
<1> QED  BY <1>1, <1>2, <1>3, <1>4, <1>5, <1>6, <1>7, <1>8 DEF Adds

LEMMA EmptyTyped ==
  ASSUME NEW S
  PROVE  <<>> \in Seq(S) /\ Len(<<>>) = 0
OBVIOUS

LEMMA OneTyped ==
  ASSUME NEW S, NEW e \in S
  PROVE  <<e>> \in Seq(S) /\ Len(<<e>>) = 1 /\ <<e>>[1] = e
OBVIOUS

LEMMA MsgAddType ==
  ASSUME NEW q \in Seq(Msg), NEW id \in TopicIds, NEW qos \in QoS
  PROVE  MsgAdd(q, id, qos) \in Seq(Msg)
<1> DEFINE new == IF id \in TopicIdsOf(q) THEN <<>> ELSE <<id>>
<1>1. new \in Seq(TopicIds)
  BY EmptyTyped, OneTyped
<1>2. MsgAdd(q, id, qos) = MsgAddAll(q, {id}, qos, new)
  BY DEF MsgAdd
<1> HIDE DEF new
<1>3. Adds(MsgAddAll(q, {id}, qos, new), q, {id}, qos, new)
  BY <1>1, MsgAddAllType, Zenon
<1> QED  BY <1>2, <1>3 DEF Adds

LEMMA TransmittedType ==
  ASSUME NEW e \in Msg, NEW m \in MsgIds
  PROVE  Transmitted(e, m) \in Msg
<1>1. /\ SendTimeout \in 0..SendTimeout /\ TRUE \in BOOLEAN
      /\ (IF e.dup THEN e.msg_id ELSE m) \in 0..MaxMsgId
  BY NumbersAssumption DEF Msg, MsgIds
<1> QED  BY <1>1, Zenon DEF Transmitted, Msg

\* Dropping the leading QoS 0 messages leaves a list.
LEMMA AfterQos0Type ==
  ASSUME NEW q \in Seq(Msg)
  PROVE  /\ AfterQos0(q) \in Seq(Msg)
         /\ Len(AfterQos0(q)) = Len(q) - FirstQos(q) + 1
         /\ \A i \in 1..Len(AfterQos0(q)) : AfterQos0(q)[i] = q[FirstQos(q) + i - 1]
<1>1. FirstQos(q) \in 1..Len(q) + 1 /\ Len(q) \in Nat
  BY FirstQosFirst, LenProperties
<1>2. /\ \A i \in 1..Len(q) : q[i] \in Msg
      /\ FirstQos(q) =< Len(q) => FirstQos(q) \in 1..Len(q)
  BY <1>1, ElementOfSeq
<1>3. FirstQos(q) \in 1..Len(q) + 1 /\ Len(q) \in FirstQos(q) - 1..Len(q)
  BY <1>1
<1>4. \A i \in FirstQos(q)..Len(q) : q[i] \in Msg
  BY <1>1, <1>2
<1> QED  BY <1>1, <1>3, <1>4, SubSeqProperties DEF AfterQos0

\* The first element of a list is one of the type.
LEMMA FirstElement ==
  ASSUME NEW S, NEW q \in Seq(S), q # <<>>
  PROVE  1 \in 1..Len(q) /\ q[1] \in S
BY EmptySeq, LenProperties, ElementOfSeq

LEMMA SendBufferedType ==
  ASSUME NEW r \in Conn, NEW m \in MsgIds
  PROVE  SendBuffered(r, m) \in Conn
<1> DEFINE rest == AfterQos0(r.pub_msg_list)
           n == MsgIdAfter(m, FirstQos(r.pub_msg_list) - 1)
<1>1. /\ r.reg_msg_list \in Seq(Msg) /\ r.pub_msg_list \in Seq(Msg)
      /\ r.told \in SUBSET TopicIds /\ r.state \in States
  BY DEF Conn
<1>2. CASE r.reg_msg_list # <<>>
  <2> DEFINE head == [r.reg_msg_list[1] EXCEPT !.msg_id = m]
             list == [r.reg_msg_list EXCEPT ![1] = head]
             told == r.told \cup {r.reg_msg_list[1].topic_id}
  <2>1. r.reg_msg_list[1] \in Msg /\ 1 \in 1..Len(r.reg_msg_list)
    BY <1>1, <1>2, FirstElement
  <2>2. m \in 0..MaxMsgId
    BY DEF MsgIds
  <2>3. head \in Msg
    BY <2>1, <2>2, Zenon DEF Msg
  <2>4. list \in Seq(Msg)
    BY <1>1, <2>1, <2>3, ExceptSeq
  <2>5. told \in SUBSET TopicIds
    BY <1>1, <2>1 DEF Msg
  <2>6. SendBuffered(r, m) = [r EXCEPT !.reg_msg_list = list, !.told = told]
    BY <1>2 DEF SendBuffered
  <2> HIDE DEF list, told
  <2> QED  BY <2>4, <2>5, <2>6, Zenon DEF Conn
<1>3. CASE r.reg_msg_list = <<>> /\ rest = <<>>
  <2>1. Drained(r.state) \in States
    BY <1>1 DEF Drained, States
  <2>2. SendBuffered(r, m) = [r EXCEPT !.pub_msg_list = <<>>, !.state = Drained(r.state)]
    BY <1>3 DEF SendBuffered
  <2>3. <<>> \in Seq(Msg)
    BY EmptyTyped
  <2> QED  BY <2>1, <2>2, <2>3, Zenon DEF Conn
<1>4. CASE r.reg_msg_list = <<>> /\ rest # <<>>
  <2> DEFINE list == IF rest[1].tts # 0 THEN rest
                     ELSE [rest EXCEPT ![1] = Transmitted(rest[1], n)]
  <2>1. rest \in Seq(Msg)
    BY <1>1, AfterQos0Type
  <2>2. rest[1] \in Msg /\ 1 \in 1..Len(rest)
    BY <1>4, <2>1, FirstElement
  <2>3. FirstQos(r.pub_msg_list) - 1 \in Nat
    BY <1>1, FirstQosFirst, LenProperties
  <2>4. Transmitted(rest[1], n) \in Msg
    BY <2>2, <2>3, MsgIdAfterType, TransmittedType
  <2>5. list \in Seq(Msg)
    <3> HIDE DEF rest, n
    <3> QED  BY <2>1, <2>2, <2>4, ExceptSeq
  <2>6. SendBuffered(r, m) = [r EXCEPT !.pub_msg_list = list]
    BY <1>4 DEF SendBuffered
  <2> HIDE DEF list
  <2> QED  BY <2>5, <2>6, Zenon DEF Conn
<1> QED  BY <1>2, <1>3, <1>4

LEMMA IdsUsedType ==
  ASSUME NEW r \in Conn
  PROVE  IdsUsed(r) \in Nat
<1>1. r.pub_msg_list \in Seq(Msg)
  BY DEF Conn
<1>2. FirstQos(r.pub_msg_list) - 1 \in Nat
  BY <1>1, FirstQosFirst, LenProperties
<1> QED  BY <1>2 DEF IdsUsed

LEMMA QueuedType ==
  ASSUME NEW r \in Conn, NEW t, NEW id \in TopicIds
  PROVE  Queued(r, t, id) \in Conn
<1>1. /\ r.sub_list \in Seq(Subscription)
      /\ r.reg_msg_list \in Seq(Msg) /\ r.pub_msg_list \in Seq(Msg)
  BY DEF Conn
<1>2. CASE SubOf(r, t) = 0
  BY <1>2 DEF Queued
<1>3. CASE SubOf(r, t) # 0
  <2> DEFINE qos == r.sub_list[SubOf(r, t)].qos
  <2>1. SubOf(r, t) \in 1..Len(r.sub_list)
    <3>1. SubOf(r, t) \in 0..Len(r.sub_list) /\ Len(r.sub_list) \in Nat
      BY <1>1, SubOfFirst, LenProperties, Zenon
    <3> QED  BY <1>3, <3>1
  <2>2. qos \in QoS
    <3>1. r.sub_list[SubOf(r, t)] \in Subscription
      BY <1>1, <2>1, ElementOfSeq, Zenon
    <3> QED  BY <3>1 DEF Subscription
  <2>3. /\ MsgAdd(r.pub_msg_list, id, qos) \in Seq(Msg)
        /\ MsgAdd(r.reg_msg_list, id, qos) \in Seq(Msg)
    <3> HIDE DEF qos
    <3> QED  BY <1>1, <2>2, MsgAddType
  <2>4. /\ [r EXCEPT !.pub_msg_list = MsgAdd(r.pub_msg_list, id, qos)] \in Conn
        /\ [r EXCEPT !.reg_msg_list = MsgAdd(r.reg_msg_list, id, qos)] \in Conn
    <3> HIDE DEF qos
    <3> QED  BY <2>3, Zenon DEF Conn
  <2>5. Queued(r, t, id) = IF id \in r.reg_list
                           THEN [r EXCEPT !.pub_msg_list = MsgAdd(r.pub_msg_list, id, qos)]
                           ELSE [r EXCEPT !.reg_msg_list = MsgAdd(r.reg_msg_list, id, qos)]
    BY <1>3 DEF Queued
  <2> QED  BY <2>4, <2>5
<1> QED  BY <1>2, <1>3

\* The orders of a set of topic ids are lists of its elements.
LEMMA OrdersType ==
  ASSUME NEW S, S \subseteq TopicIds, NEW s \in Orders(S)
  PROVE  s \in Seq(TopicIds) /\ \A i \in 1..Len(s) : s[i] \in S
<1>1. IsFiniteSet(TopicIds)
  BY NumbersAssumption, FS_Interval DEF TopicIds
<1>2. Cardinality(S) \in Nat
  BY <1>1, FS_Subset, FS_CardinalityType
<1>3. s \in [1..Cardinality(S) -> S]
  BY DEF Orders
<1>4. s \in Seq(S)
  BY <1>2, <1>3, SeqDef
<1>5. \A i \in 1..Len(s) : s[i] \in S
  BY <1>4, ElementOfSeq
<1>6. s \in [1..Cardinality(S) -> TopicIds]
  BY <1>3
<1> QED  BY <1>2, <1>5, <1>6, SeqDef

-----------------------------------------------------------------------------
(* What the list operations preserve *)

LEMMA QueuesMonotone ==
  ASSUME NEW A, NEW B, NEW A2, NEW B2, A \subseteq A2, B \subseteq B2,
         NEW q \in Queues(A, B)
  PROVE  q \in Queues(A2, B2)
BY DEF Queues

LEMMA EmptyQueue ==
  ASSUME NEW A, NEW B
  PROVE  <<>> \in Queues(A, B)
BY EmptyTyped DEF Queues

LEMMA NewMsgNeverSent ==
  ASSUME NEW id, NEW qos
  PROVE  /\ NewMsg(id, qos).topic_id = id
         /\ NewMsg(id, qos).msg_id = 0
         /\ NeverSent(NewMsg(id, qos))
BY DEF NewMsg, NeverSent

\* list_msg_add keeps the order of the messages and sends none.
LEMMA MsgAddAllQueues ==
  ASSUME NEW A, NEW B, NEW q \in Queues(A, B), NEW S, NEW qos \in QoS,
         NEW new \in Seq(TopicIds), \A i \in 1..Len(new) : new[i] \in A
  PROVE  MsgAddAll(q, S, qos, new) \in Queues(A, B)
<1> DEFINE all == MsgAddAll(q, S, qos, new)
<1>0. q \in Seq(Msg) /\ Len(q) \in Nat /\ Len(new) \in Nat
  BY LenProperties DEF Queues
<1>1. /\ all \in Seq(Msg)
      /\ Len(all) = Len(q) + Len(new)
      /\ \A i \in 1..Len(q) :
           all[i] = IF q[i].topic_id \in S THEN Requeued(q[i], qos) ELSE q[i]
      /\ \A i \in 1..Len(new) : all[Len(q) + i] = NewMsg(new[i], qos)
  <2>1. Adds(all, q, S, qos, new)
    BY <1>0, MsgAddAllType, Zenon
  <2> QED  BY <2>1 DEF Adds
<1> HIDE DEF all
<1>2. ASSUME NEW i \in 1..Len(q)
      PROVE  /\ all[i].topic_id \in A
             /\ all[i].msg_id # 0 => all[i].topic_id \in B
             /\ i > 1 => NeverSent(all[i])
  <2>1. /\ q[i] \in Msg
        /\ q[i].topic_id \in A
        /\ q[i].msg_id # 0 => q[i].topic_id \in B
        /\ i > 1 => NeverSent(q[i])
    BY <1>0, ElementOfSeq DEF Queues
  <2>2. /\ Requeued(q[i], qos).topic_id = q[i].topic_id
        /\ Requeued(q[i], qos).msg_id = q[i].msg_id
        /\ Requeued(q[i], qos).tts = 0
        /\ ~Requeued(q[i], qos).dup
    BY <2>1 DEF Requeued, Msg
  <2>3. NeverSent(q[i]) => NeverSent(Requeued(q[i], qos))
    BY <2>2 DEF NeverSent
  <2> QED  BY <1>1, <2>1, <2>2, <2>3
<1>3. ASSUME NEW j \in 1..Len(new)
      PROVE  /\ all[Len(q) + j].topic_id \in A
             /\ all[Len(q) + j].msg_id = 0
             /\ NeverSent(all[Len(q) + j])
  <2>1. all[Len(q) + j] = NewMsg(new[j], qos)
    BY <1>1
  <2> QED  BY <2>1, NewMsgNeverSent
<1>4. ASSUME NEW i \in 1..Len(all)
      PROVE  /\ all[i].topic_id \in A
             /\ all[i].msg_id # 0 => all[i].topic_id \in B
             /\ i > 1 => NeverSent(all[i])
  <2>1. CASE i \in 1..Len(q)
    BY <1>2, <2>1
  <2>2. CASE i \notin 1..Len(q)
    <3>1. i - Len(q) \in 1..Len(new) /\ i = Len(q) + (i - Len(q))
      BY <1>0, <1>1, <2>2
    <3>2. /\ all[Len(q) + (i - Len(q))].topic_id \in A
          /\ all[Len(q) + (i - Len(q))].msg_id = 0
          /\ NeverSent(all[Len(q) + (i - Len(q))])
      BY <1>3, <3>1
    <3> QED  BY <3>1, <3>2
  <2> QED  BY <2>1, <2>2
<1> QED  BY <1>1, <1>4 DEF Queues, all

LEMMA MsgAddQueues ==
  ASSUME NEW A, NEW B, NEW q \in Queues(A, B), NEW qos \in QoS,
         NEW id \in TopicIds, id \in A
  PROVE  MsgAdd(q, id, qos) \in Queues(A, B)
<1> DEFINE new == IF id \in TopicIdsOf(q) THEN <<>> ELSE <<id>>
<1>1. new \in Seq(TopicIds) /\ \A i \in 1..Len(new) : new[i] \in A
  BY EmptyTyped, OneTyped
<1>2. MsgAdd(q, id, qos) = MsgAddAll(q, {id}, qos, new)
  BY DEF MsgAdd
<1> HIDE DEF new
<1>3. MsgAddAll(q, {id}, qos, new) \in Queues(A, B)
  BY <1>1, MsgAddAllQueues, Zenon
<1> QED  BY <1>2, <1>3

LEMMA RemoveAtQueues ==
  ASSUME NEW A, NEW B, NEW q \in Queues(A, B), NEW i \in 1..Len(q)
  PROVE  RemoveAt(q, i) \in Queues(A, B)
<1> DEFINE rest == RemoveAt(q, i)
<1>0. q \in Seq(Msg) /\ Len(q) \in Nat
  BY LenProperties DEF Queues
<1>1. /\ rest \in Seq(Msg)
      /\ Len(rest) = Len(q) - 1
      /\ \A j \in 1..Len(q) - 1 : rest[j] = IF j < i THEN q[j] ELSE q[j + 1]
  BY <1>0, RemoveAtProperties, Zenon
<1> HIDE DEF rest
<1>2. ASSUME NEW j \in 1..Len(rest)
      PROVE  /\ rest[j].topic_id \in A
             /\ rest[j].msg_id # 0 => rest[j].topic_id \in B
             /\ j > 1 => NeverSent(rest[j])
  <2>1. PICK k \in 1..Len(q) : rest[j] = q[k] /\ k >= j
    <3>1. CASE j < i
      BY <1>0, <1>1, <3>1
    <3>2. CASE ~(j < i)
      <4>1. j + 1 \in 1..Len(q) /\ rest[j] = q[j + 1]
        BY <1>0, <1>1, <3>2
      <4> QED  BY <4>1
    <3> QED  BY <3>1, <3>2
  <2> QED  BY <2>1 DEF Queues
<1> QED  BY <1>1, <1>2 DEF Queues, rest

LEMMA AfterQos0Queues ==
  ASSUME NEW A, NEW B, NEW q \in Queues(A, B)
  PROVE  AfterQos0(q) \in Queues(A, B)
<1> DEFINE rest == AfterQos0(q)
<1>0. q \in Seq(Msg) /\ Len(q) \in Nat
  BY LenProperties DEF Queues
<1>1. /\ rest \in Seq(Msg)
      /\ Len(rest) = Len(q) - FirstQos(q) + 1
      /\ \A j \in 1..Len(rest) : rest[j] = q[FirstQos(q) + j - 1]
      /\ FirstQos(q) \in 1..Len(q) + 1
  BY <1>0, AfterQos0Type, FirstQosFirst, Zenon
<1> HIDE DEF rest
<1>2. ASSUME NEW j \in 1..Len(rest)
      PROVE  /\ rest[j].topic_id \in A
             /\ rest[j].msg_id # 0 => rest[j].topic_id \in B
             /\ j > 1 => NeverSent(rest[j])
  <2>1. PICK k \in 1..Len(q) : rest[j] = q[k] /\ k >= j
    BY <1>0, <1>1
  <2> QED  BY <2>1 DEF Queues
<1> QED  BY <1>1, <1>2 DEF Queues, rest

\* The head of a list may be sent, if the client is told its topic.
LEMMA HeadQueues ==
  ASSUME NEW A, NEW B, NEW q \in Queues(A, B), q # <<>>, NEW e \in Msg,
         e.topic_id \in A, e.msg_id # 0 => e.topic_id \in B
  PROVE  [q EXCEPT ![1] = e] \in Queues(A, B)
<1>0. q \in Seq(Msg) /\ 1 \in 1..Len(q) /\ Len(q) \in Nat
  BY FirstElement, LenProperties DEF Queues
<1>1. /\ [q EXCEPT ![1] = e] \in Seq(Msg)
      /\ Len([q EXCEPT ![1] = e]) = Len(q)
      /\ \A i \in 1..Len(q) : [q EXCEPT ![1] = e][i] = IF i = 1 THEN e ELSE q[i]
  BY <1>0, ExceptSeq
<1> QED  BY <1>0, <1>1 DEF Queues

-----------------------------------------------------------------------------
(* What the operations on a session record preserve *)

\* The session record s may replace r: it is good and has the address of r.
Follows(s, r, K) == s \in GoodConn(K) /\ s.addr = r.addr

LEMMA SendBufferedGood ==
  ASSUME NEW K, NEW r \in GoodConn(K), NEW m \in MsgIds
  PROVE  Follows(SendBuffered(r, m), r, K)
<1> DEFINE rest == AfterQos0(r.pub_msg_list)
           n == MsgIdAfter(m, FirstQos(r.pub_msg_list) - 1)
           s == SendBuffered(r, m)
<1>1. /\ r \in Conn
      /\ r.reg_msg_list \in Queues(K, r.told) /\ r.pub_msg_list \in Queues(K, K)
      /\ r.reg_list \subseteq r.told /\ r.told \subseteq K
      /\ r.reg_msg_list \in Seq(Msg) /\ r.pub_msg_list \in Seq(Msg)
  BY DEF GoodConn, Queues
<1>2. s \in Conn
  BY <1>1, SendBufferedType
<1>3. CASE r.reg_msg_list # <<>>
  <2> DEFINE head == [r.reg_msg_list[1] EXCEPT !.msg_id = m]
             list == [r.reg_msg_list EXCEPT ![1] = head]
             told == r.told \cup {r.reg_msg_list[1].topic_id}
  <2>1. r.reg_msg_list[1] \in Msg /\ 1 \in 1..Len(r.reg_msg_list)
    BY <1>1, <1>3, FirstElement
  <2>2. r.reg_msg_list[1].topic_id \in K
    BY <1>1, <2>1 DEF Queues
  <2>3. m \in 0..MaxMsgId
    BY DEF MsgIds
  <2>4. head \in Msg
    BY <2>1, <2>3, Zenon DEF Msg
  <2>5. head.topic_id = r.reg_msg_list[1].topic_id
    BY <2>1 DEF Msg
  <2>6. r.told \subseteq told /\ told \subseteq K
    BY <1>1, <2>2
  <2>7. s = [r EXCEPT !.reg_msg_list = list, !.told = told]
    BY <1>3 DEF SendBuffered
  <2>8. head.topic_id \in K /\ head.topic_id \in told
    BY <2>2, <2>5
  <2> HIDE DEF told, head, s
  <2>9. r.reg_msg_list \in Queues(K, told) /\ r.pub_msg_list \in Queues(K, K)
    BY <1>1, <2>6, QueuesMonotone
  <2>10. list \in Queues(K, told)
    BY <1>3, <2>4, <2>8, <2>9, HeadQueues
  <2> HIDE DEF list
  <2>11. /\ s.addr = r.addr /\ s.state = r.state
         /\ s.keepalivesec = r.keepalivesec /\ s.remainsec = r.remainsec
         /\ s.reg_list = r.reg_list /\ s.told = told
         /\ s.reg_msg_list = list /\ s.pub_msg_list = r.pub_msg_list
    BY <1>1, <2>7 DEF Conn
  <2>12. s.reg_list \subseteq s.told
    BY <1>1, <2>6, <2>11
  <2>13. s \in GoodConn(K)
    BY <1>2, <2>6, <2>9, <2>10, <2>11, <2>12 DEF GoodConn
  <2> QED  BY <2>11, <2>13 DEF Follows, s
<1>4. CASE r.reg_msg_list = <<>> /\ rest = <<>>
  <2>1. s = [r EXCEPT !.pub_msg_list = <<>>, !.state = Drained(r.state)]
    BY <1>4 DEF SendBuffered
  <2>2. <<>> \in Queues(K, K)
    BY EmptyQueue
  <2>3. Drained(r.state) = "DISCONNECTED" <=> r.state = "DISCONNECTED"
    BY DEF Drained
  <2> HIDE DEF s
  <2>4. /\ s.addr = r.addr /\ s.state = Drained(r.state)
        /\ s.keepalivesec = r.keepalivesec /\ s.remainsec = r.remainsec
        /\ s.reg_list = r.reg_list /\ s.told = r.told
        /\ s.reg_msg_list = r.reg_msg_list /\ s.pub_msg_list = <<>>
    BY <1>1, <2>1 DEF Conn
  <2>5. s \in GoodConn(K)
    BY <1>1, <1>2, <2>2, <2>3, <2>4 DEF GoodConn
  <2> QED  BY <2>4, <2>5 DEF Follows, s
<1>5. CASE r.reg_msg_list = <<>> /\ rest # <<>>
  <2> DEFINE list == IF rest[1].tts # 0 THEN rest
                     ELSE [rest EXCEPT ![1] = Transmitted(rest[1], n)]
  <2>1. rest \in Queues(K, K) /\ rest \in Seq(Msg)
    BY <1>1, AfterQos0Queues, AfterQos0Type
  <2>2. rest[1] \in Msg /\ 1 \in 1..Len(rest)
    BY <1>5, <2>1, FirstElement
  <2>3. FirstQos(r.pub_msg_list) - 1 \in Nat
    BY <1>1, FirstQosFirst, LenProperties
  <2>4. Transmitted(rest[1], n) \in Msg
    BY <2>2, <2>3, MsgIdAfterType, TransmittedType
  <2>5. Transmitted(rest[1], n).topic_id = rest[1].topic_id
    BY <2>2 DEF Transmitted, Msg
  <2>6. rest[1].topic_id \in K
    BY <2>1, <2>2 DEF Queues
  <2>7. s = [r EXCEPT !.pub_msg_list = list]
    BY <1>5 DEF SendBuffered
  <2>8. list \in Queues(K, K)
    <3> HIDE DEF rest, n
    <3> QED  BY <1>5, <2>1, <2>4, <2>5, <2>6, HeadQueues
  <2> HIDE DEF s, list
  <2>9. /\ s.addr = r.addr /\ s.state = r.state
        /\ s.keepalivesec = r.keepalivesec /\ s.remainsec = r.remainsec
        /\ s.reg_list = r.reg_list /\ s.told = r.told
        /\ s.reg_msg_list = r.reg_msg_list /\ s.pub_msg_list = list
    BY <1>1, <2>7 DEF Conn
  <2>10. s \in GoodConn(K)
    BY <1>2, <2>8, <2>9 DEF GoodConn
  <2> QED  BY <2>9, <2>10 DEF Follows, s
<1> QED  BY <1>3, <1>4, <1>5

LEMMA QueuedGood ==
  ASSUME NEW K, NEW r \in GoodConn(K), NEW t, NEW id \in TopicIds, id \in K
  PROVE  Follows(Queued(r, t, id), r, K)
<1>1. /\ r \in Conn /\ r.sub_list \in Seq(Subscription)
      /\ r.reg_msg_list \in Queues(K, r.told) /\ r.pub_msg_list \in Queues(K, K)
      /\ r.reg_list \subseteq r.told
  BY DEF GoodConn, Conn
<1>2. CASE SubOf(r, t) = 0
  BY <1>2 DEF Queued, Follows
<1>3. CASE SubOf(r, t) # 0
  <2> DEFINE qos == r.sub_list[SubOf(r, t)].qos
             s == Queued(r, t, id)
  <2>1. SubOf(r, t) \in 1..Len(r.sub_list)
    <3>1. SubOf(r, t) \in 0..Len(r.sub_list) /\ Len(r.sub_list) \in Nat
      BY <1>1, SubOfFirst, LenProperties, Zenon
    <3> QED  BY <1>3, <3>1
  <2>2. qos \in QoS
    <3>1. r.sub_list[SubOf(r, t)] \in Subscription
      BY <1>1, <2>1, ElementOfSeq, Zenon
    <3> QED  BY <3>1 DEF Subscription
  <2>3. s \in Conn
    BY <1>1, QueuedType
  <2>4. s = IF id \in r.reg_list
            THEN [r EXCEPT !.pub_msg_list = MsgAdd(r.pub_msg_list, id, qos)]
            ELSE [r EXCEPT !.reg_msg_list = MsgAdd(r.reg_msg_list, id, qos)]
    BY <1>3 DEF Queued
  <2> HIDE DEF qos, s
  <2>5. /\ MsgAdd(r.reg_msg_list, id, qos) \in Queues(K, r.told)
        /\ MsgAdd(r.pub_msg_list, id, qos) \in Queues(K, K)
    BY <1>1, <2>2, MsgAddQueues
  <2>6. /\ s.addr = r.addr /\ s.state = r.state
        /\ s.keepalivesec = r.keepalivesec /\ s.remainsec = r.remainsec
        /\ s.reg_list = r.reg_list /\ s.told = r.told
    BY <1>1, <2>4 DEF Conn
  <2>7. /\ s.reg_msg_list = IF id \in r.reg_list THEN r.reg_msg_list
                            ELSE MsgAdd(r.reg_msg_list, id, qos)
        /\ s.pub_msg_list = IF id \in r.reg_list THEN MsgAdd(r.pub_msg_list, id, qos)
                            ELSE r.pub_msg_list
    BY <1>1, <2>4 DEF Conn
  <2>8. s \in GoodConn(K)
    BY <1>1, <2>3, <2>5, <2>6, <2>7 DEF GoodConn
  <2> QED  BY <2>6, <2>8 DEF Follows, s
<1> QED  BY <1>2, <1>3

LEMMA DeliveredGood ==
  ASSUME NEW K, NEW r \in GoodConn(K), NEW t, NEW id \in TopicIds, id \in K,
         NEW m \in MsgIds
  PROVE  Follows(Delivered(r, t, id, m), r, K)
<1>1. Follows(Queued(r, t, id), r, K)
  BY QueuedGood
<1>2. Follows(SendBuffered(Queued(r, t, id), m), Queued(r, t, id), K)
  BY <1>1, SendBufferedGood DEF Follows
<1> QED  BY <1>1, <1>2 DEF Delivered, Follows

\* The fields of s that GoodConn relates are those of r.
SameLists(s, r) ==
  /\ s.reg_list = r.reg_list /\ s.told = r.told
  /\ s.reg_msg_list = r.reg_msg_list /\ s.pub_msg_list = r.pub_msg_list
SameTimes(s, r) ==
  s.state = r.state /\ s.keepalivesec = r.keepalivesec /\ s.remainsec = r.remainsec

LEMMA HeardGood ==
  ASSUME NEW K, NEW c, conn[c] \in GoodConn(K)
  PROVE  /\ Follows(Heard(c), conn[c], K)
         /\ Heard(c).state = conn[c].state
<1> DEFINE r == conn[c]
           s == Heard(c)
<1>1. r \in Conn /\ r.keepalivesec \in Nat
  BY DEF GoodConn, Conn
<1>2. s = [r EXCEPT !.remainsec = r.keepalivesec]
  BY DEF Heard
<1> HIDE DEF r, s
<1>3. s \in Conn
  BY <1>1, <1>2, Zenon DEF Conn
<1>4. /\ SameLists(s, r) /\ s.addr = r.addr /\ s.state = r.state
      /\ s.keepalivesec = r.keepalivesec /\ s.remainsec = r.keepalivesec
  BY <1>1, <1>2 DEF Conn, SameLists
<1>5. s \in GoodConn(K)
  BY <1>1, <1>3, <1>4 DEF GoodConn, SameLists, r
<1> QED  BY <1>4, <1>5 DEF Follows, r, s

LEMMA WillGood ==
  ASSUME NEW K, NEW r \in GoodConn(K), NEW w \in Will
  PROVE  Follows([r EXCEPT !.will = w], r, K)
<1> DEFINE s == [r EXCEPT !.will = w]
<1>1. r \in Conn
  BY DEF GoodConn
<1>2. s \in Conn
  BY <1>1, Zenon DEF Conn
<1>3. SameLists(s, r) /\ SameTimes(s, r) /\ s.addr = r.addr
  BY <1>1 DEF Conn, SameLists, SameTimes
<1> HIDE DEF s
<1>4. s \in GoodConn(K)
  BY <1>2, <1>3 DEF GoodConn, SameLists, SameTimes
<1> QED  BY <1>3, <1>4 DEF Follows, s

LEMMA AwakeGood ==
  ASSUME NEW K, NEW r \in GoodConn(K), r.state = "ASLEEP"
  PROVE  Follows([r EXCEPT !.state = "AWAKE"], r, K)
<1> DEFINE s == [r EXCEPT !.state = "AWAKE"]
<1>1. r \in Conn /\ "AWAKE" \in States
  BY DEF GoodConn, States
<1>2. s \in Conn
  BY <1>1, Zenon DEF Conn
<1>3. /\ SameLists(s, r) /\ s.addr = r.addr
      /\ s.keepalivesec = r.keepalivesec /\ s.remainsec = r.remainsec
  BY <1>1 DEF Conn, SameLists
<1> HIDE DEF s
<1>4. s \in GoodConn(K)
  BY <1>2, <1>3 DEF GoodConn, SameLists
<1> QED  BY <1>3, <1>4 DEF Follows, s

\* A new keep-alive is armed, whatever the state was.
LEMMA KeepaliveGood ==
  ASSUME NEW K, NEW r \in GoodConn(K), NEW state \in States, NEW d \in Nat, d # 0
  PROVE  Follows(WithKeepalive([r EXCEPT !.state = state], d), r, K)
<1> DEFINE s == WithKeepalive([r EXCEPT !.state = state], d)
           k == Tolerated(d)
<1>1. r \in Conn
  BY DEF GoodConn
<1>2. k \in Nat /\ k > 0
  BY ToleratedType
<1>3. s = [[r EXCEPT !.state = state] EXCEPT !.keepalivesec = k, !.remainsec = k]
  BY DEF WithKeepalive
<1> HIDE DEF k, s
<1>4. s \in Conn
  BY <1>1, <1>2, <1>3, Zenon DEF Conn
<1>5. SameLists(s, r) /\ s.addr = r.addr /\ s.keepalivesec = k /\ s.remainsec = k
  BY <1>1, <1>3 DEF Conn, SameLists
<1>6. s \in GoodConn(K)
  BY <1>2, <1>4, <1>5 DEF GoodConn, SameLists
<1> QED  BY <1>5, <1>6 DEF Follows, s

LEMMA ConnectedGood ==
  ASSUME NEW K, NEW r \in GoodConn(K), NEW d \in Nat, d # 0, NEW clean
  PROVE  Follows(Connected(r, d, clean), r, K)
<1> DEFINE timed == WithKeepalive([r EXCEPT !.state = "CONNECTED"], d)
           s == TopicsCleared(timed)
<1>1. Follows(timed, r, K)
  BY KeepaliveGood DEF States
<1>2. Connected(r, d, clean) = IF clean THEN s ELSE timed
  BY DEF Connected
<1> HIDE DEF timed
<1>3. timed \in Conn
  BY <1>1 DEF Follows, GoodConn
<1>4. /\ <<>> \in Seq(Msg) /\ <<>> \in Seq(Subscription) /\ {} \in SUBSET TopicIds
      /\ NoWill \in Will
  BY EmptyTyped DEF Will
<1>5. s \in Conn
  BY <1>3, <1>4, Zenon DEF TopicsCleared, Conn
<1>6. /\ SameTimes(s, timed) /\ s.addr = timed.addr
      /\ s.reg_list = {} /\ s.told = {} /\ s.reg_msg_list = <<>> /\ s.pub_msg_list = <<>>
  BY <1>3 DEF Conn, TopicsCleared, SameTimes
<1> HIDE DEF s
<1>7. s \in GoodConn(K)
  BY <1>1, <1>5, <1>6, EmptyQueue DEF GoodConn, SameTimes, Follows
<1> QED  BY <1>1, <1>2, <1>6, <1>7 DEF Follows

LEMMA AddrGood ==
  ASSUME NEW K, NEW r \in GoodConn(K), NEW a \in Addrs
  PROVE  /\ [r EXCEPT !.addr = a] \in GoodConn(K)
         /\ [r EXCEPT !.addr = a].addr = a
<1> DEFINE s == [r EXCEPT !.addr = a]
<1>1. r \in Conn /\ a \in Addrs \cup {NoAddr}
  BY DEF GoodConn
<1>2. s \in Conn
  BY <1>1, Zenon DEF Conn
<1>3. SameLists(s, r) /\ SameTimes(s, r) /\ s.addr = a
  BY <1>1 DEF Conn, SameLists, SameTimes
<1> HIDE DEF s
<1>4. s \in GoodConn(K)
  BY <1>2, <1>3 DEF GoodConn, SameLists, SameTimes
<1> QED  BY <1>3, <1>4 DEF s

LEMMA NoConnGood ==
  ASSUME NEW K
  PROVE  NoConn \in GoodConn(K)
<1>1. <<>> \in Seq(Msg) /\ <<>> \in Seq(Subscription) /\ NoWill \in Will
  BY EmptyTyped DEF Will
<1>2. NoConn \in Conn
  BY <1>1 DEF NoConn, Conn, States
<1> QED  BY <1>2, EmptyQueue DEF NoConn, GoodConn

LEMMA ToldGood ==
  ASSUME NEW K, NEW r \in GoodConn(K), NEW id \in TopicIds, id \in K
  PROVE  Follows([r EXCEPT !.reg_list = @ \cup {id}, !.told = @ \cup {id}], r, K)
<1> DEFINE reg == r.reg_list \cup {id}
           told == r.told \cup {id}
           s == [r EXCEPT !.reg_list = reg, !.told = told]
<1>1. /\ r \in Conn
      /\ reg \in SUBSET TopicIds /\ told \in SUBSET TopicIds
      /\ reg \subseteq told /\ told \subseteq K /\ r.told \subseteq told
      /\ r.reg_msg_list \in Queues(K, r.told) /\ r.pub_msg_list \in Queues(K, K)
  BY DEF GoodConn, Conn
<1> HIDE DEF reg, told
<1>2. r.reg_msg_list \in Queues(K, told) /\ r.pub_msg_list \in Queues(K, K)
  BY <1>1, QueuesMonotone
<1>3. s \in Conn
  BY <1>1, Zenon DEF Conn
<1>4. /\ SameTimes(s, r) /\ s.addr = r.addr
      /\ s.reg_list = reg /\ s.told = told
      /\ s.reg_msg_list = r.reg_msg_list /\ s.pub_msg_list = r.pub_msg_list
  BY <1>1 DEF Conn, SameTimes
<1> HIDE DEF s
<1>5. s \in GoodConn(K)
  BY <1>1, <1>2, <1>3, <1>4 DEF GoodConn, SameTimes
<1>6. s = [r EXCEPT !.reg_list = @ \cup {id}, !.told = @ \cup {id}]
  BY DEF s, reg, told
<1> QED  BY <1>4, <1>5, <1>6 DEF Follows

\* A REGACK queues the topic it names only if pub_list has it.
LEMMA RegisteredGood ==
  ASSUME NEW K, K \subseteq TopicIds, NEW r \in GoodConn(K), NEW m, NEW id,
         MsgFind(r.reg_msg_list, m) # 0, TopicFound(id) => id \in K
  PROVE  Follows(Registered(r, m, id), r, K)
<1> DEFINE i == MsgFind(r.reg_msg_list, m)
           e == r.reg_msg_list[i]
           reg == RemoveAt(r.reg_msg_list, i)
           pub == IF TopicFound(id) THEN MsgAdd(r.pub_msg_list, id, e.qos) ELSE r.pub_msg_list
           s == [r EXCEPT !.reg_msg_list = reg, !.pub_msg_list = pub]
<1>1. /\ r \in Conn
      /\ r.reg_msg_list \in Queues(K, r.told) /\ r.pub_msg_list \in Queues(K, K)
      /\ r.reg_msg_list \in Seq(Msg)
  BY DEF GoodConn, Conn
<1>2. i \in 1..Len(r.reg_msg_list)
  <2>1. /\ MsgFind(r.reg_msg_list, m) \in 0..Len(r.reg_msg_list)
        /\ Len(r.reg_msg_list) \in Nat
    BY <1>1, MsgFindFirst, LenProperties
  <2> QED  BY <2>1
<1>3. e \in Msg
  BY <1>1, <1>2, ElementOfSeq
<1>4. e.qos \in QoS
  BY <1>3 DEF Msg
<1> HIDE DEF i, e
<1>5. reg \in Queues(K, r.told)
  BY <1>1, <1>2, RemoveAtQueues
<1>6. pub \in Queues(K, K)
  BY <1>1, <1>4, MsgAddQueues
<1> HIDE DEF reg, pub
<1>7. reg \in Seq(Msg) /\ pub \in Seq(Msg)
  BY <1>5, <1>6 DEF Queues
<1>8. s \in Conn
  BY <1>1, <1>7, Zenon DEF Conn
<1>9. /\ SameTimes(s, r) /\ s.addr = r.addr
      /\ s.reg_list = r.reg_list /\ s.told = r.told
      /\ s.reg_msg_list = reg /\ s.pub_msg_list = pub
  BY <1>1 DEF Conn, SameTimes
<1> HIDE DEF s
<1>10. s \in GoodConn(K)
  BY <1>5, <1>6, <1>8, <1>9 DEF GoodConn, SameTimes
<1>11. Registered(r, m, id) = s
  BY DEF Registered, s, reg, pub, e, i
<1> QED  BY <1>9, <1>10, <1>11 DEF Follows

LEMMA PubListGood ==
  ASSUME NEW K, NEW r \in GoodConn(K), NEW pub \in Queues(K, K)
  PROVE  Follows([r EXCEPT !.pub_msg_list = pub], r, K)
<1> DEFINE s == [r EXCEPT !.pub_msg_list = pub]
<1>1. r \in Conn /\ pub \in Seq(Msg)
  BY DEF GoodConn, Queues
<1>2. s \in Conn
  BY <1>1, Zenon DEF Conn
<1>3. /\ SameTimes(s, r) /\ s.addr = r.addr
      /\ s.reg_list = r.reg_list /\ s.told = r.told
      /\ s.reg_msg_list = r.reg_msg_list /\ s.pub_msg_list = pub
  BY <1>1 DEF Conn, SameTimes
<1> HIDE DEF s
<1>4. s \in GoodConn(K)
  BY <1>2, <1>3 DEF GoodConn, SameTimes
<1> QED  BY <1>3, <1>4 DEF Follows, s

LEMMA MsgRemoveGood ==
  ASSUME NEW K, NEW r \in GoodConn(K), NEW m
  PROVE  Follows([r EXCEPT !.pub_msg_list = MsgRemove(@, m)], r, K)
<1> DEFINE q == r.pub_msg_list
<1>1. q \in Queues(K, K) /\ q \in Seq(Msg)
  BY DEF GoodConn, Queues
<1>2. MsgFind(q, m) \in 0..Len(q) /\ Len(q) \in Nat
  BY <1>1, MsgFindFirst, LenProperties
<1>3. MsgFind(q, m) # 0 => MsgFind(q, m) \in 1..Len(q)
  BY <1>2
<1> HIDE DEF q
<1>4. MsgRemove(q, m) \in Queues(K, K)
  BY <1>1, <1>3, RemoveAtQueues DEF MsgRemove
<1> QED  BY <1>4, PubListGood DEF q

\* SUBSCRIBE changes the subscriptions, and may tell a topic id.
LEMMA SubscribedGood ==
  ASSUME NEW K, K \subseteq TopicIds, NEW r \in GoodConn(K),
         NEW f \in Topics \cup Wildcards, NEW q \in QoS,
         NEW id, id # 0 => id \in K
  PROVE  Follows(Subscribed(r, f, q, id), r, K)
<1> DEFINE i == SelectInSeq(r.sub_list, LAMBDA e : e.filter = f)
           subs == SubAddReplace(r.sub_list, f, q)
           told == r.told \cup ({id} \ {0})
           s == [r EXCEPT !.sub_list = subs, !.told = told]
<1>1. /\ r \in Conn /\ r.sub_list \in Seq(Subscription)
      /\ told \in SUBSET TopicIds /\ told \subseteq K /\ r.told \subseteq told
      /\ r.reg_list \subseteq told
      /\ r.reg_msg_list \in Queues(K, r.told) /\ r.pub_msg_list \in Queues(K, K)
  BY DEF GoodConn, Conn
<1>2. subs \in Seq(Subscription)
  <2>1. CASE i = 0
    <3>1. subs = Append(r.sub_list, [filter |-> f, qos |-> q])
      BY <2>1 DEF SubAddReplace
    <3>2. [filter |-> f, qos |-> q] \in Subscription
      BY DEF Subscription
    <3> QED  BY <1>1, <3>1, <3>2, AppendProperties
  <2>2. CASE i # 0
    <3> DEFINE I == {j \in 1..Len(r.sub_list) : r.sub_list[j].filter = f}
               sub == [r.sub_list[i] EXCEPT !.qos = q]
    <3>1. I \subseteq Nat /\ i = IF I # {} THEN Min(I) ELSE 0
      BY DEF SelectInSeq
    <3>2. i \in 1..Len(r.sub_list)
      BY <2>2, <3>1, LeastPosition, Zenon
    <3>3. r.sub_list[i] \in Subscription
      <4> HIDE DEF i
      <4> QED  BY <1>1, <3>2, ElementOfSeq
    <3>4. sub \in Subscription
      <4> HIDE DEF i
      <4> QED  BY <3>3, Zenon DEF Subscription
    <3>5. subs = [r.sub_list EXCEPT ![i] = sub]
      BY <2>2 DEF SubAddReplace
    <3> HIDE DEF sub, i
    <3> QED  BY <1>1, <3>2, <3>4, <3>5, ExceptSeq
  <2> QED  BY <2>1, <2>2
<1> HIDE DEF told, subs
<1>3. r.reg_msg_list \in Queues(K, told) /\ r.pub_msg_list \in Queues(K, K)
  BY <1>1, QueuesMonotone
<1>4. s \in Conn
  BY <1>1, <1>2, Zenon DEF Conn
<1>5. /\ SameTimes(s, r) /\ s.addr = r.addr
      /\ s.reg_list = r.reg_list /\ s.told = told
      /\ s.reg_msg_list = r.reg_msg_list /\ s.pub_msg_list = r.pub_msg_list
  BY <1>1 DEF Conn, SameTimes
<1> HIDE DEF s
<1>6. s \in GoodConn(K)
  BY <1>1, <1>3, <1>4, <1>5 DEF GoodConn, SameTimes
<1>7. Subscribed(r, f, q, id) = s
  BY DEF Subscribed, s, told, subs
<1> QED  BY <1>5, <1>6, <1>7 DEF Follows

LEMMA UnsubscribedGood ==
  ASSUME NEW K, NEW r \in GoodConn(K), NEW i \in 1..Len(r.sub_list)
  PROVE  Follows([r EXCEPT !.sub_list = RemoveAt(@, i)], r, K)
<1> DEFINE subs == RemoveAt(r.sub_list, i)
           s == [r EXCEPT !.sub_list = subs]
<1>1. r \in Conn /\ r.sub_list \in Seq(Subscription)
  BY DEF GoodConn, Conn
<1>2. subs \in Seq(Subscription)
  BY <1>1, RemoveAtProperties
<1> HIDE DEF subs
<1>3. s \in Conn
  BY <1>1, <1>2, Zenon DEF Conn
<1>4. SameLists(s, r) /\ SameTimes(s, r) /\ s.addr = r.addr
  BY <1>1 DEF Conn, SameLists, SameTimes
<1> HIDE DEF s
<1>5. s \in GoodConn(K)
  BY <1>3, <1>4 DEF GoodConn, SameLists, SameTimes
<1> QED  BY <1>4, <1>5 DEF Follows, s, subs

\* The retained topics are queued behind what is there, and none is sent.
LEMMA RetainedQueuedGood ==
  ASSUME NEW K, K \subseteq TopicIds, NEW r \in GoodConn(K), NEW S, S \subseteq K,
         NEW q \in QoS,
         NEW regNew \in Orders((S \ r.reg_list) \ TopicIdsOf(r.reg_msg_list)),
         NEW pubNew \in Orders((S \cap r.reg_list) \ TopicIdsOf(r.pub_msg_list))
  PROVE  Follows(RetainedQueued(r, S, q, regNew, pubNew), r, K)
<1> DEFINE R == (S \ r.reg_list) \ TopicIdsOf(r.reg_msg_list)
           P == (S \cap r.reg_list) \ TopicIdsOf(r.pub_msg_list)
           reg == MsgAddAll(r.reg_msg_list, S \ r.reg_list, q, regNew)
           pub == MsgAddAll(r.pub_msg_list, S \cap r.reg_list, q, pubNew)
           s == [r EXCEPT !.reg_msg_list = reg, !.pub_msg_list = pub]
<1>1. /\ r \in Conn
      /\ r.reg_msg_list \in Queues(K, r.told) /\ r.pub_msg_list \in Queues(K, K)
      /\ R \subseteq TopicIds /\ R \subseteq K
      /\ P \subseteq TopicIds /\ P \subseteq K
  BY DEF GoodConn
<1>2. regNew \in Orders(R) /\ pubNew \in Orders(P)
  OBVIOUS
<1> HIDE DEF R, P
<1>3. regNew \in Seq(TopicIds) /\ \A i \in 1..Len(regNew) : regNew[i] \in K
  BY <1>1, <1>2, OrdersType
<1>4. pubNew \in Seq(TopicIds) /\ \A i \in 1..Len(pubNew) : pubNew[i] \in K
  BY <1>1, <1>2, OrdersType
<1>5. reg \in Queues(K, r.told)
  BY <1>1, <1>3, MsgAddAllQueues, Zenon
<1>6. pub \in Queues(K, K)
  BY <1>1, <1>4, MsgAddAllQueues, Zenon
<1>7. RetainedQueued(r, S, q, regNew, pubNew) = s
  BY DEF RetainedQueued
<1> HIDE DEF reg, pub
<1>8. reg \in Seq(Msg) /\ pub \in Seq(Msg)
  BY <1>5, <1>6 DEF Queues
<1>9. s \in Conn
  BY <1>1, <1>8, Zenon DEF Conn
<1>10. /\ SameTimes(s, r) /\ s.addr = r.addr
       /\ s.reg_list = r.reg_list /\ s.told = r.told
       /\ s.reg_msg_list = reg /\ s.pub_msg_list = pub
  BY <1>1 DEF Conn, SameTimes
<1> HIDE DEF s
<1>11. s \in GoodConn(K)
  BY <1>5, <1>6, <1>9, <1>10 DEF GoodConn, SameTimes
<1> QED  BY <1>7, <1>10, <1>11 DEF Follows

LEMMA CountedDownGood ==
  ASSUME NEW K, NEW r \in GoodConn(K), ~Expired(r)
  PROVE  Follows(CountedDown(r), r, K)
<1>1. CASE ~Timed(r)
  BY <1>1 DEF CountedDown, Follows
<1>2. CASE Timed(r)
  <2> DEFINE n == r.remainsec - 1
             s == [r EXCEPT !.remainsec = n]
  <2>1. r \in Conn /\ r.remainsec \in Nat /\ r.keepalivesec \in Nat
    BY DEF GoodConn, Conn
  <2>2. n \in Nat /\ n =< r.remainsec
    BY <1>2, <2>1 DEF Expired
  <2>3. CountedDown(r) = s
    BY <1>2 DEF CountedDown
  <2> HIDE DEF n
  <2>4. s \in Conn
    BY <2>1, <2>2, Zenon DEF Conn
  <2>5. /\ SameLists(s, r) /\ s.addr = r.addr /\ s.state = r.state
        /\ s.keepalivesec = r.keepalivesec /\ s.remainsec = n
    BY <2>1 DEF Conn, SameLists
  <2> HIDE DEF s
  <2>6. s \in GoodConn(K)
    BY <2>1, <2>2, <2>4, <2>5 DEF GoodConn, SameLists
  <2> QED  BY <2>3, <2>5, <2>6 DEF Follows
<1> QED  BY <1>1, <1>2

\* The retransmission clock of the head is counted down.
LEMMA ClockGood ==
  ASSUME NEW K, NEW r \in GoodConn(K), r.pub_msg_list # <<>>,
         r.pub_msg_list[1].tts # 0
  PROVE  Follows([r EXCEPT !.pub_msg_list[1].tts = @ - 1], r, K)
<1> DEFINE n == r.pub_msg_list[1].tts - 1
           e == [r.pub_msg_list[1] EXCEPT !.tts = n]
           pub == [r.pub_msg_list EXCEPT ![1] = e]
<1>1. r.pub_msg_list \in Queues(K, K) /\ r.pub_msg_list \in Seq(Msg)
  BY DEF GoodConn, Queues
<1>2. /\ r.pub_msg_list[1] \in Msg /\ 1 \in 1..Len(r.pub_msg_list)
      /\ r.pub_msg_list[1].topic_id \in K
  BY <1>1, FirstElement DEF Queues
<1>3. n \in 0..SendTimeout
  BY <1>2, NumbersAssumption DEF Msg
<1>4. e \in Msg
  <2> HIDE DEF n
  <2> QED  BY <1>2, <1>3, Zenon DEF Msg
<1>5. e.topic_id = r.pub_msg_list[1].topic_id
  BY <1>2 DEF Msg
<1>6. pub \in Queues(K, K)
  <2> HIDE DEF e
  <2> QED  BY <1>1, <1>2, <1>4, <1>5, HeadQueues
<1>7. [r EXCEPT !.pub_msg_list[1].tts = @ - 1] = [r EXCEPT !.pub_msg_list = pub]
  OBVIOUS
<1> HIDE DEF pub
<1> QED  BY <1>6, <1>7, PubListGood

-----------------------------------------------------------------------------
(* What the shared steps do *)

\* The records of conn' are good for K, and have the addresses of cs.
ConnsFollow(cs, K) ==
  /\ conn' \in [Clients -> GoodConn(K)]
  /\ \A c \in Clients : conn'[c].addr = cs[c].addr

\* A fan-out leaves good session records, where they were.
LEMMA PublishSendGood ==
  ASSUME NEW K, NEW list \in Seq(Clients), NEW cs \in [Clients -> GoodConn(K)],
         NEW t, NEW id \in TopicIds, id \in K, PublishSend(list, cs, t, id)
  PROVE  ConnsFollow(cs, K) /\ mqttsn_msg_id' \in MsgIds
<1>0. Len(list) \in Nat
  BY LenProperties
<1>1. PICK base \in [1..Len(list) + 1 -> MsgIds] :
        /\ mqttsn_msg_id' = base[Len(list) + 1]
        /\ conn' = [c \in Clients |->
                      IF c \in ToSet(list)
                      THEN Delivered(cs[c], t, id, base[PlaceIn(list, c)])
                      ELSE cs[c]]
  BY DEF PublishSend
<1>2. ASSUME NEW c \in Clients, c \in ToSet(list)
      PROVE  Follows(Delivered(cs[c], t, id, base[PlaceIn(list, c)]), cs[c], K)
  <2>1. PICK j \in 1..Len(list) : list[j] = c
    BY <1>2, LenProperties DEF ToSet
  <2>2. /\ PlaceIn(list, c) \in 0..Len(list)
        /\ PlaceIn(list, c) = 0 => \A k \in 1..Len(list) : list[k] # c
    BY PlaceOf
  <2>3. PlaceIn(list, c) \in 1..Len(list) + 1
    BY <1>0, <2>1, <2>2
  <2>4. cs[c] \in GoodConn(K) /\ base[PlaceIn(list, c)] \in MsgIds
    BY <2>3
  <2> QED  BY <2>4, DeliveredGood
<1>3. ASSUME NEW c \in Clients
      PROVE  conn'[c] \in GoodConn(K) /\ conn'[c].addr = cs[c].addr
  BY <1>1, <1>2 DEF Follows
<1>4. mqttsn_msg_id' \in MsgIds
  BY <1>0, <1>1
<1> QED  BY <1>1, <1>3, <1>4 DEF ConnsFollow

\* One record is replaced.
LEMMA OneFollows ==
  ASSUME NEW K, conn \in [Clients -> GoodConn(K)], NEW c \in Clients,
         NEW r, Follows(r, conn[c], K), conn' = [conn EXCEPT ![c] = r]
  PROVE  ConnsFollow(conn, K)
BY DEF ConnsFollow, Follows

LEMMA FlushGood ==
  ASSUME NEW K, conn \in [Clients -> GoodConn(K)], mqttsn_msg_id \in MsgIds,
         NEW c \in Clients, NEW r, Follows(r, conn[c], K), Flush(c, r)
  PROVE  ConnsFollow(conn, K) /\ mqttsn_msg_id' \in MsgIds
<1> DEFINE s == SendBuffered(r, mqttsn_msg_id)
<1>1. r \in GoodConn(K) /\ r.addr = conn[c].addr /\ r \in Conn
  BY DEF Follows, GoodConn
<1>2. Follows(s, r, K)
  BY <1>1, SendBufferedGood
<1> HIDE DEF s
<1>3. Follows(s, conn[c], K)
  BY <1>1, <1>2 DEF Follows
<1>4. conn' = [conn EXCEPT ![c] = s] /\ mqttsn_msg_id' = MsgIdAfter(mqttsn_msg_id, IdsUsed(r))
  BY DEF Flush, s
<1>5. IdsUsed(r) \in Nat
  BY <1>1, IdsUsedType
<1>6. mqttsn_msg_id' \in MsgIds
  BY <1>4, <1>5, MsgIdAfterType
<1> QED  BY <1>3, <1>4, <1>6, OneFollows

\* The topic ids of pub_list are topic ids.
LEMMA IdsOfTyped ==
  ASSUME NEW f \in [Topics -> 0..MaxTopicId]
  PROVE  /\ IdsOf(f) \subseteq TopicIds
         /\ \A t \in Topics : f[t] # 0 => f[t] \in IdsOf(f)
<1>1. ASSUME NEW t \in Topics, f[t] # 0
      PROVE  f[t] \in TopicIds
  <2>1. f[t] \in 0..MaxTopicId
    OBVIOUS
  <2> QED  BY <1>1, <2>1, NumbersAssumption DEF TopicIds
<1> QED  BY <1>1 DEF IdsOf

StoreTyped ==
  /\ topic_id \in [Topics -> 0..MaxTopicId]
  /\ mqttsn_topic_id \in TopicIds

\* A topic keeps its id, and a new topic gets one that no other topic has as
\* long as the counter has not come round.
LEMMA AssignTopicIdGood ==
  ASSUME NEW t \in Topics, StoreTyped, TopicIdsUnique, IdsCounted, AssignTopicId(t)
  PROVE  /\ StoreTyped' /\ TopicIdsUnique' /\ IdsCounted'
         /\ topic_id'[t] # 0
         /\ \A u \in Topics : topic_id[u] # 0 => topic_id'[u] = topic_id[u]
<1> DEFINE n == Cardinality(NamedTopics)
<1>1. CASE topic_id[t] # 0
  <2>1. topic_id' = topic_id /\ mqttsn_topic_id' = mqttsn_topic_id
    BY <1>1 DEF AssignTopicId
  <2>2. NamedTopics' = NamedTopics
    BY <2>1 DEF NamedTopics
  <2> QED  BY <1>1, <2>1, <2>2 DEF StoreTyped, TopicIdsUnique, IdsCounted, NamedTopics
<1>2. CASE topic_id[t] = 0
  <2>1. /\ topic_id' = [topic_id EXCEPT ![t] = mqttsn_topic_id]
        /\ mqttsn_topic_id' = IF mqttsn_topic_id = MaxTopicId THEN 1 ELSE mqttsn_topic_id + 1
    BY <1>2 DEF AssignTopicId
  <2>2. mqttsn_topic_id \in 1..MaxTopicId /\ MaxTopicId \in Nat \ {0}
    BY NumbersAssumption DEF StoreTyped, TopicIds
  <2>3. NamedTopics' = NamedTopics \cup {t} /\ t \notin NamedTopics
    BY <1>2, <2>1, <2>2 DEF NamedTopics, StoreTyped
  <2>4. IsFiniteSet(NamedTopics) /\ n \in Nat
    <3>1. NamedTopics \subseteq Topics
      BY DEF NamedTopics
    <3> QED  BY <3>1, TopicsAssumption, FS_Subset, FS_CardinalityType
  <2>5. Cardinality(NamedTopics') = n + 1
    BY <2>3, <2>4, FS_AddElement
  <2>6. StoreTyped' /\ topic_id'[t] # 0
    BY <2>1, <2>2 DEF StoreTyped, TopicIds
  <2>7. \A u \in Topics : topic_id[u] # 0 => topic_id'[u] = topic_id[u]
    BY <1>2, <2>1 DEF StoreTyped
  <2>8. CASE n + 1 > MaxTopicId
    BY <2>2, <2>4, <2>5, <2>6, <2>7, <2>8 DEF IdsCounted, TopicIdsUnique
  <2>9. CASE n + 1 =< MaxTopicId
    <3>1. /\ n =< MaxTopicId /\ n # MaxTopicId
          /\ \A u \in NamedTopics : topic_id[u] =< n
          /\ mqttsn_topic_id = n + 1
      BY <2>2, <2>4, <2>9 DEF IdsCounted
    <3>2. \A u \in Topics : topic_id'[u] = IF u = t THEN n + 1 ELSE topic_id[u]
      BY <2>1, <3>1 DEF StoreTyped
    <3>3. \A u, v \in NamedTopics : topic_id[u] = topic_id[v] => u = v
      BY <3>1 DEF TopicIdsUnique
    <3> HIDE DEF n
    <3>4. IdsCounted'
      <4>1. \A u \in NamedTopics' : topic_id'[u] =< n + 1
        BY <2>3, <2>4, <3>1, <3>2 DEF NamedTopics, StoreTyped
      <4>2. mqttsn_topic_id' = IF n + 1 = MaxTopicId THEN 1 ELSE (n + 1) + 1
        BY <2>1, <3>1
      <4> QED  BY <2>5, <4>1, <4>2 DEF IdsCounted
    <3>5. ASSUME NEW u \in NamedTopics', NEW v \in NamedTopics', topic_id'[u] = topic_id'[v]
          PROVE  u = v
      <4>1. \A w \in NamedTopics : topic_id[w] # n + 1
        BY <2>4, <3>1 DEF NamedTopics, StoreTyped
      <4>2. u \in Topics /\ v \in Topics
        BY DEF NamedTopics
      <4> QED  BY <2>3, <3>2, <3>3, <3>5, <4>1, <4>2
    <3> QED  BY <2>6, <2>7, <3>4, <3>5 DEF TopicIdsUnique
  <2> QED  BY <2>2, <2>4, <2>8, <2>9
<1> QED  BY <1>1, <1>2

\* What AssignTopicId means for the rest of the state.
LEMMA StoreStep ==
  ASSUME IInv, NEW t \in Topics, AssignTopicId(t),
         \/ UNCHANGED retain
         \/ \E r \in BOOLEAN : retain' = [retain EXCEPT ![t] = r]
  PROVE  /\ StoreTyped' /\ StoreInv'
         /\ retain' \in [Topics -> BOOLEAN]
         /\ Known \subseteq Known' /\ Known' \subseteq TopicIds
         /\ topic_id'[t] \in Known' /\ topic_id'[t] \in TopicIds
<1>1. /\ StoreTyped /\ TopicIdsUnique /\ IdsCounted
      /\ retain \in [Topics -> BOOLEAN]
      /\ \A u \in Topics : retain[u] => topic_id[u] # 0
  BY DEF IInv, TypeOK, StoreInv, StoreTyped
<1>2. /\ StoreTyped' /\ TopicIdsUnique' /\ IdsCounted'
      /\ topic_id'[t] # 0
      /\ \A u \in Topics : topic_id[u] # 0 => topic_id'[u] = topic_id[u]
  BY <1>1, AssignTopicIdGood
<1>3. topic_id' \in [Topics -> 0..MaxTopicId] /\ Known' = IdsOf(topic_id')
  BY <1>2 DEF StoreTyped, Known
<1>4. Known' \subseteq TopicIds /\ topic_id'[t] \in Known'
  BY <1>2, <1>3, IdsOfTyped
<1>5. Known \subseteq Known'
  BY <1>2, <1>3 DEF Known, IdsOf
<1>6. retain' \in [Topics -> BOOLEAN]
  BY <1>1
<1>7. \A u \in Topics : retain'[u] => topic_id'[u] # 0
  BY <1>1, <1>2
<1> QED  BY <1>2, <1>4, <1>5, <1>6, <1>7 DEF StoreInv

LEMMA GoodMonotone ==
  ASSUME NEW K, NEW K2, K \subseteq K2
  PROVE  GoodConn(K) \subseteq GoodConn(K2)
<1> SUFFICES ASSUME NEW r \in GoodConn(K)
             PROVE  r \in GoodConn(K2)
  OBVIOUS
<1>1. /\ r.told \subseteq K /\ r.reg_msg_list \in Queues(K, r.told)
      /\ r.pub_msg_list \in Queues(K, K)
  BY DEF GoodConn
<1>2. r.reg_msg_list \in Queues(K2, r.told) /\ r.pub_msg_list \in Queues(K2, K2)
  BY <1>1, QueuesMonotone
<1> QED  BY <1>1, <1>2 DEF GoodConn

\* The store and the counters are well, whatever the sessions are.
StoreWell ==
  /\ StoreTyped /\ StoreInv
  /\ retain \in [Topics -> BOOLEAN]
  /\ mqttsn_msg_id \in MsgIds

LEMMA StoreUnchanged ==
  ASSUME IInv, UNCHANGED store
  PROVE  /\ Known' = Known /\ StoreTyped' /\ StoreInv'
         /\ retain' \in [Topics -> BOOLEAN]
<1>1. topic_id' = topic_id /\ retain' = retain /\ mqttsn_topic_id' = mqttsn_topic_id
  BY DEF store
<1>2. StoreTyped /\ StoreInv /\ retain \in [Topics -> BOOLEAN]
  BY DEF IInv, TypeOK, StoreTyped
<1>3. Known' = Known
  BY <1>1 DEF Known
<1>4. NamedTopics' = NamedTopics
  BY <1>1 DEF NamedTopics
<1> QED  BY <1>1, <1>2, <1>3, <1>4 DEF StoreTyped, StoreInv, TopicIdsUnique, IdsCounted

\* The walk of timer_handle stays where it is, or goes on to the next session.
WalkStep == UNCHANGED visit \/ (visit # <<>> /\ visit' = Tail(visit))

LEMMA WalkGoesOn ==
  ASSUME IInv, UNCHANGED mqttsn_conns, WalkStep
  PROVE  visit' \in Seq(Clients) /\ Walk'
<1>0. /\ visit \in Seq(Clients) /\ Walk
      /\ Len(visit) \in Nat /\ Len(mqttsn_conns) \in Nat
  BY LenProperties DEF IInv, ListInv, TypeOK
<1>1. CASE UNCHANGED visit
  BY <1>0, <1>1 DEF Walk
<1>2. CASE visit # <<>> /\ visit' = Tail(visit)
  <2>1. /\ visit' \in Seq(Clients) /\ Len(visit') = Len(visit) - 1
        /\ \A i \in 1..Len(visit') : visit'[i] = visit[i + 1]
    BY <1>0, <1>2, HeadTailProperties
  <2>2. \A i \in 1..Len(visit) :
          visit[i] = mqttsn_conns[Len(mqttsn_conns) - Len(visit) + i]
    BY <1>0 DEF Walk
  <2>3. ASSUME NEW i \in 1..Len(visit')
        PROVE  visit'[i] = mqttsn_conns'[Len(mqttsn_conns') - Len(visit') + i]
    <3>1. i + 1 \in 1..Len(visit)
      BY <1>0, <2>1
    <3>2. visit'[i] = mqttsn_conns[Len(mqttsn_conns) - Len(visit) + (i + 1)]
      BY <2>1, <2>2, <3>1
    <3>3. Len(mqttsn_conns) - Len(visit) + (i + 1) = Len(mqttsn_conns') - Len(visit') + i
      BY <1>0, <2>1
    <3> QED  BY <3>2, <3>3
  <2>4. Len(visit') =< Len(mqttsn_conns')
    BY <1>0, <2>1 DEF Walk
  <2> QED  BY <2>1, <2>3, <2>4 DEF Walk
<1> QED  BY <1>1, <1>2 DEF WalkStep

\* A step that leaves the list of sessions alone, and every session where it
\* was, preserves the invariant.
LEMMA SameListStep ==
  ASSUME IInv, UNCHANGED mqttsn_conns, WalkStep,
         ConnsFollow(conn, Known'), StoreWell'
  PROVE  IInv'
<1>0. visit' \in Seq(Clients) /\ Walk'
  BY WalkGoesOn
<1>1. conn' \in [Clients -> GoodConn(Known')] /\ conn' \in [Clients -> Conn]
  BY DEF ConnsFollow, GoodConn
<1>2. TypeOK'
  BY <1>0, <1>1 DEF IInv, TypeOK, StoreWell, StoreTyped
<1>3. Live' = Live /\ Live \subseteq Clients
  <2>1. \A i \in 1..Len(mqttsn_conns) : mqttsn_conns[i] \in Clients
    BY ElementOfSeq DEF IInv, TypeOK
  <2> QED  BY <2>1, LenProperties DEF Live, ToSet, IInv, TypeOK
<1>4. ListInv'
  <2>1. NoRepeats(mqttsn_conns)'
    BY DEF IInv, ListInv, NoRepeats
  <2>2. AddrUnique'
    BY <1>3 DEF ConnsFollow, IInv, ListInv, AddrUnique
  <2> QED  BY <1>0, <2>1, <2>2 DEF ListInv
<1> QED  BY <1>1, <1>2, <1>4 DEF IInv, StoreWell

\* A step on one session record
LEMMA RecordStep ==
  ASSUME IInv, NEW c \in Clients, NEW r, Follows(r, conn[c], Known),
         conn' = [conn EXCEPT ![c] = r],
         UNCHANGED <<mqttsn_conns, store, mqttsn_msg_id>>, WalkStep
  PROVE  IInv'
<1>1. Known' = Known /\ StoreTyped' /\ StoreInv' /\ retain' \in [Topics -> BOOLEAN]
  BY StoreUnchanged
<1>2. conn \in [Clients -> GoodConn(Known)]
  BY DEF IInv
<1>3. ConnsFollow(conn, Known')
  BY <1>1, <1>2, OneFollows
<1>4. StoreWell'
  BY <1>1 DEF StoreWell, IInv, TypeOK
<1> QED  BY <1>3, <1>4, SameListStep

\* A step on one session record that sends its buffered messages
LEMMA FlushStep ==
  ASSUME IInv, NEW c \in Clients, NEW r, Follows(r, conn[c], Known), Flush(c, r),
         UNCHANGED <<mqttsn_conns, store>>, WalkStep
  PROVE  IInv'
<1>1. Known' = Known /\ StoreTyped' /\ StoreInv' /\ retain' \in [Topics -> BOOLEAN]
  BY StoreUnchanged
<1>2. conn \in [Clients -> GoodConn(Known)] /\ mqttsn_msg_id \in MsgIds
  BY DEF IInv, TypeOK
<1>3. ConnsFollow(conn, Known') /\ mqttsn_msg_id' \in MsgIds
  BY <1>1, <1>2, FlushGood
<1>4. StoreWell'
  BY <1>1, <1>3 DEF StoreWell
<1> QED  BY <1>3, <1>4, SameListStep

\* Two steps on a record one after the other
LEMMA FollowsTwice ==
  ASSUME NEW K, NEW r, NEW s, NEW u, Follows(r, s, K), Follows(s, u, K)
  PROVE  Follows(r, u, K)
BY DEF Follows

-----------------------------------------------------------------------------
(* The list of sessions *)

\* Place of a session of the list
LEMMA LivePlace ==
  ASSUME IInv, NEW c
  PROVE  c \in Live <=> \E i \in 1..Len(mqttsn_conns) : mqttsn_conns[i] = c
<1>1. mqttsn_conns \in Seq(Clients) /\ DOMAIN mqttsn_conns = 1..Len(mqttsn_conns)
  BY LenProperties DEF IInv, TypeOK
<1> QED  BY <1>1 DEF Live, ToSet

LEMMA LiveTyped ==
  ASSUME IInv
  PROVE  Live \subseteq Clients
BY LivePlace, ElementOfSeq DEF IInv, TypeOK

\* Removing the only occurrence of a session from a list.
LEMMA RemoveFirstProperties ==
  ASSUME NEW S, NEW s \in Seq(S), NoRepeats(s), NEW p \in 1..Len(s)
  PROVE  /\ RemoveFirst(s, s[p]) \in Seq(S)
         /\ Len(RemoveFirst(s, s[p])) = Len(s) - 1
         /\ \A j \in 1..Len(s) - 1 :
              RemoveFirst(s, s[p])[j] = IF j < p THEN s[j] ELSE s[j + 1]
<1>1. /\ PlaceIn(s, s[p]) \in 0..Len(s) /\ Len(s) \in Nat
      /\ PlaceIn(s, s[p]) # 0 => s[PlaceIn(s, s[p])] = s[p]
      /\ PlaceIn(s, s[p]) = 0 => \A j \in 1..Len(s) : s[j] # s[p]
  BY PlaceOf, LenProperties
<1>2. PlaceIn(s, s[p]) = p
  BY <1>1 DEF NoRepeats
<1>3. RemoveFirst(s, s[p]) = RemoveAt(s, p)
  BY <1>2 DEF RemoveFirst, PlaceIn
<1> QED  BY <1>3, RemoveAtProperties

LEMMA RemovedNoRepeats ==
  ASSUME NEW S, NEW s \in Seq(S), NoRepeats(s), NEW p \in 1..Len(s)
  PROVE  /\ NoRepeats(RemoveFirst(s, s[p]))
         /\ \A i \in 1..Len(RemoveFirst(s, s[p])) :
              RemoveFirst(s, s[p])[i] # s[p] /\ \E j \in 1..Len(s) : RemoveFirst(s, s[p])[i] = s[j]
<1> DEFINE r == RemoveFirst(s, s[p])
           old(i) == IF i < p THEN i ELSE i + 1
<1>1. /\ Len(s) \in Nat /\ Len(r) = Len(s) - 1
      /\ \A j \in 1..Len(s) - 1 : r[j] = IF j < p THEN s[j] ELSE s[j + 1]
  BY RemoveFirstProperties, LenProperties
<1> HIDE DEF r
<1>2. \A i \in 1..Len(r) : old(i) \in 1..Len(s) /\ old(i) # p /\ r[i] = s[old(i)]
  BY <1>1
<1>3. \A i, j \in 1..Len(r) : old(i) = old(j) => i = j
  BY <1>1
<1> HIDE DEF old
<1> QED  BY <1>2, <1>3 DEF NoRepeats, r

\* The end of a session: its record is forgotten, the others stay good.
Forgotten(c) == [conn EXCEPT ![c] = NoConn]

LEMMA CloseGood ==
  ASSUME IInv, NEW c \in Clients, Close(c)
  PROVE  /\ mqttsn_conns' = RemoveFirst(mqttsn_conns, c)
         /\ ConnsFollow(Forgotten(c), Known')
         /\ StoreWell'
<1> DEFINE will == conn[c].will
           rest == RemoveFirst(mqttsn_conns, c)
<1>0. /\ mqttsn_conns \in Seq(Clients) /\ NoRepeats(mqttsn_conns)
      /\ mqttsn_msg_id \in MsgIds
      /\ will \in Will
  BY DEF IInv, ListInv, TypeOK, Conn
<1>1. Forgotten(c) \in [Clients -> GoodConn(Known)]
  BY NoConnGood DEF IInv, Forgotten
<1>2. mqttsn_conns' = rest
  BY DEF Close
<1>3. rest \in Seq(Clients)
  <2>1. CASE \E i \in 1..Len(mqttsn_conns) : mqttsn_conns[i] = c
    BY <1>0, <2>1, RemoveFirstProperties
  <2>2. CASE ~ \E i \in 1..Len(mqttsn_conns) : mqttsn_conns[i] = c
    BY <1>0, <2>2 DEF RemoveFirst
  <2> QED  BY <2>1, <2>2
<1>4. CASE will.topic = NoTopic
  <2>1. conn' = Forgotten(c) /\ UNCHANGED <<store, mqttsn_msg_id>>
    BY <1>4 DEF Close, Forgotten
  <2>2. Known' = Known /\ StoreTyped' /\ StoreInv' /\ retain' \in [Topics -> BOOLEAN]
    BY <2>1, StoreUnchanged
  <2>3. ConnsFollow(Forgotten(c), Known')
    BY <1>1, <2>1, <2>2 DEF ConnsFollow
  <2> QED  BY <1>0, <1>2, <2>1, <2>2, <2>3 DEF StoreWell
<1>5. CASE will.topic # NoTopic
  <2> DEFINE t == will.topic
             r == will.retain
  <2>1. t \in Topics /\ r \in BOOLEAN
    BY <1>0, <1>5, NamesAssumption DEF Will, NoWill
  <2>2. /\ AssignTopicId(t)
        /\ retain' = [retain EXCEPT ![t] = r]
        /\ PublishSend(rest, Forgotten(c), t, topic_id'[t])
    BY <1>5 DEF Close, Forgotten
  <2> HIDE DEF will, rest, t, r
  <2>3. /\ StoreTyped' /\ StoreInv' /\ retain' \in [Topics -> BOOLEAN]
        /\ Known \subseteq Known'
        /\ topic_id'[t] \in Known' /\ topic_id'[t] \in TopicIds
    BY <2>1, <2>2, StoreStep
  <2>4. Forgotten(c) \in [Clients -> GoodConn(Known')]
    BY <1>1, <2>3, GoodMonotone
  <2>5. ConnsFollow(Forgotten(c), Known') /\ mqttsn_msg_id' \in MsgIds
    BY <1>3, <2>2, <2>3, <2>4, PublishSendGood
  <2> QED  BY <1>2, <2>3, <2>5 DEF StoreWell, rest
<1> QED  BY <1>4, <1>5

\* The list without the session that ended: the walk of timer_handle goes on
\* behind it when it was the one being visited.
LEMMA ClosedList ==
  ASSUME IInv, NEW c \in Live, Close(c),
         \/ visit = <<>> /\ visit' = <<>>
         \/ visit # <<>> /\ c = Head(visit) /\ visit' = Tail(visit)
  PROVE  IInv'
<1>0. /\ mqttsn_conns \in Seq(Clients) /\ NoRepeats(mqttsn_conns) /\ visit \in Seq(Clients)
      /\ Len(mqttsn_conns) \in Nat /\ Len(visit) \in Nat
      /\ c \in Clients
  BY LiveTyped, LenProperties DEF IInv, ListInv, TypeOK
<1>1. /\ mqttsn_conns' = RemoveFirst(mqttsn_conns, c)
      /\ ConnsFollow(Forgotten(c), Known')
      /\ StoreWell'
  BY <1>0, CloseGood
<1>2. PICK p \in 1..Len(mqttsn_conns) : mqttsn_conns[p] = c
  BY LivePlace
<1>3. /\ mqttsn_conns' \in Seq(Clients)
      /\ Len(mqttsn_conns') = Len(mqttsn_conns) - 1
      /\ \A j \in 1..Len(mqttsn_conns) - 1 :
           mqttsn_conns'[j] = IF j < p THEN mqttsn_conns[j] ELSE mqttsn_conns[j + 1]
  BY <1>0, <1>1, <1>2, RemoveFirstProperties
<1>4. /\ NoRepeats(mqttsn_conns')
      /\ \A i \in 1..Len(mqttsn_conns') :
           mqttsn_conns'[i] # c /\ \E j \in 1..Len(mqttsn_conns) : mqttsn_conns'[i] = mqttsn_conns[j]
  BY <1>0, <1>1, <1>2, RemovedNoRepeats
<1>5. Live' \subseteq Live \ {c}
  <2>1. DOMAIN mqttsn_conns' = 1..Len(mqttsn_conns')
    BY <1>3, LenProperties
  <2> QED  BY <1>4, <2>1, LivePlace DEF Live, ToSet
<1>6. \A d \in Live' : conn'[d].addr = conn[d].addr
  BY <1>1, <1>5, LiveTyped DEF ConnsFollow, Forgotten, IInv
<1>7. AddrUnique'
  BY <1>5, <1>6 DEF AddrUnique, IInv, ListInv
<1>8. visit' \in Seq(Clients) /\ Walk'
  <2>1. CASE visit = <<>> /\ visit' = <<>>
    BY <1>0, <1>3, <2>1, EmptyTyped DEF Walk
  <2>2. CASE visit # <<>> /\ c = Head(visit) /\ visit' = Tail(visit)
    <3> DEFINE k == Len(mqttsn_conns) - Len(visit)
    <3>1. /\ Len(visit) =< Len(mqttsn_conns)
          /\ \A i \in 1..Len(visit) : visit[i] = mqttsn_conns[k + i]
      BY DEF IInv, ListInv, Walk
    <3>2. /\ visit' \in Seq(Clients) /\ Len(visit') = Len(visit) - 1
          /\ \A i \in 1..Len(visit') : visit'[i] = visit[i + 1]
      BY <1>0, <2>2, HeadTailProperties
    <3>3. 1 \in 1..Len(visit) /\ visit[1] = c
      BY <1>0, <2>2, FirstElement
    <3>4. p = k + 1
      <4>1. k + 1 \in 1..Len(mqttsn_conns) /\ mqttsn_conns[k + 1] = c
        BY <1>0, <3>1, <3>3
      <4> QED  BY <1>0, <1>2, <4>1 DEF NoRepeats
    <3>5. ASSUME NEW i \in 1..Len(visit')
          PROVE  visit'[i] = mqttsn_conns'[Len(mqttsn_conns') - Len(visit') + i]
      <4>1. Len(mqttsn_conns') - Len(visit') + i = k + i
        BY <1>0, <1>3, <3>2
      <4>2. k + i \in 1..Len(mqttsn_conns) - 1 /\ ~(k + i < p) /\ i + 1 \in 1..Len(visit)
        BY <1>0, <3>1, <3>2, <3>4
      <4>3. mqttsn_conns'[k + i] = mqttsn_conns[(k + i) + 1]
        BY <1>3, <4>2
      <4>4. visit'[i] = mqttsn_conns[k + (i + 1)]
        BY <3>1, <3>2, <4>2
      <4>5. k + (i + 1) = (k + i) + 1
        BY <1>0
      <4> QED  BY <4>1, <4>3, <4>4, <4>5
    <3>6. Len(visit') =< Len(mqttsn_conns')
      BY <1>0, <1>3, <3>1, <3>2
    <3> QED  BY <3>2, <3>5, <3>6 DEF Walk
  <2> QED  BY <2>1, <2>2
<1>9. conn' \in [Clients -> GoodConn(Known')] /\ conn' \in [Clients -> Conn]
  BY <1>1 DEF ConnsFollow, GoodConn
<1>10. TypeOK'
  BY <1>1, <1>3, <1>8, <1>9 DEF TypeOK, StoreWell, StoreTyped
<1> QED  BY <1>1, <1>4, <1>7, <1>8, <1>9, <1>10 DEF IInv, ListInv, StoreWell

-----------------------------------------------------------------------------
(* The steps *)

\* CONNECT moves the session of the address or of the client id to the
\* address, where no other session is.
LEMMA ConnectStep ==
  ASSUME IInv, NEW a \in Addrs, NEW x \in Clients, NEW d \in Durations,
         NEW clean, NEW will, Connect(a, x, d, clean, will)
  PROVE  IInv'
<1> DEFINE c == SessionOf(a, x)
           r == RecordOf(a, x)
<1>0. /\ mqttsn_conns \in Seq(Clients) /\ NoRepeats(mqttsn_conns)
      /\ Len(mqttsn_conns) \in Nat
      /\ conn \in [Clients -> GoodConn(Known)] /\ mqttsn_msg_id \in MsgIds
      /\ AddrUnique /\ Live \subseteq Clients /\ d \in Nat
  BY LiveTyped, LenProperties, NumbersAssumption DEF IInv, ListInv, TypeOK
<1>1. c \in Clients /\ \A e \in Live : conn[e].addr = a => e = c
  <2>1. CASE FindAddr(a) # {}
    <3>1. c \in FindAddr(a)
      BY <2>1 DEF SessionOf
    <3> QED  BY <1>0, <3>1 DEF FindAddr, AddrUnique
  <2>2. CASE FindAddr(a) = {}
    BY <2>2 DEF SessionOf, FindAddr
  <2> QED  BY <2>1, <2>2
<1>2. r \in GoodConn(Known) /\ r.addr = a
  BY <1>0, <1>1, AddrGood DEF RecordOf
<1>3. /\ UNCHANGED <<store, visit>> /\ visit = <<>>
      /\ mqttsn_conns' = IF c \in Live THEN mqttsn_conns ELSE Append(mqttsn_conns, c)
  BY DEF Connect, Idle
<1>4. Known' = Known /\ StoreTyped' /\ StoreInv' /\ retain' \in [Topics -> BOOLEAN]
  BY <1>3, StoreUnchanged
<1>5. d # 0 => Follows(Connected(r, d, clean), r, Known)
  BY <1>0, <1>2, ConnectedGood
<1>6. PICK s : /\ s \in GoodConn(Known) /\ s.addr = a
               /\ conn' = [conn EXCEPT ![c] = s] /\ mqttsn_msg_id' \in MsgIds
  <2>1. CASE d = 0
    BY <1>0, <1>2, <2>1 DEF Connect
  <2>2. CASE d # 0 /\ will
    BY <1>0, <1>2, <1>5, <2>2 DEF Connect, Follows
  <2>3. CASE d # 0 /\ ~will
    <3> DEFINE b == Connected(r, d, clean)
    <3>1. Flush(c, b)
      BY <2>3 DEF Connect
    <3>2. b \in GoodConn(Known) /\ b.addr = a /\ b \in Conn
      BY <1>2, <1>5, <2>3 DEF Follows, GoodConn
    <3> HIDE DEF b
    <3>3. Follows(SendBuffered(b, mqttsn_msg_id), b, Known)
      BY <1>0, <3>2, SendBufferedGood
    <3>4. IdsUsed(b) \in Nat
      BY <3>2, IdsUsedType
    <3>5. mqttsn_msg_id' \in MsgIds
      BY <1>0, <3>1, <3>4, MsgIdAfterType DEF Flush
    <3> QED  BY <3>1, <3>2, <3>3, <3>5 DEF Flush, Follows
  <2> QED  BY <2>1, <2>2, <2>3
<1> HIDE DEF c, r
<1>7. /\ conn' \in [Clients -> GoodConn(Known')] /\ conn' \in [Clients -> Conn]
      /\ conn'[c].addr = a
      /\ \A e \in Clients \ {c} : conn'[e].addr = conn[e].addr
  BY <1>0, <1>1, <1>4, <1>6 DEF GoodConn
<1>8. mqttsn_conns' \in Seq(Clients) /\ NoRepeats(mqttsn_conns') /\ Live' \subseteq Live \cup {c}
  <2>1. CASE c \in Live
    BY <1>0, <1>3, <2>1 DEF Live
  <2>2. CASE c \notin Live
    <3>1. mqttsn_conns' = Append(mqttsn_conns, c)
      BY <1>3, <2>2
    <3>2. /\ mqttsn_conns' \in Seq(Clients)
          /\ Len(mqttsn_conns') = Len(mqttsn_conns) + 1
          /\ \A i \in 1..Len(mqttsn_conns) : mqttsn_conns'[i] = mqttsn_conns[i]
          /\ mqttsn_conns'[Len(mqttsn_conns) + 1] = c
      BY <1>0, <1>1, <3>1, AppendProperties
    <3>3. \A i \in 1..Len(mqttsn_conns) : mqttsn_conns[i] # c /\ mqttsn_conns[i] \in Live
      BY <2>2, LivePlace
    <3>4. NoRepeats(mqttsn_conns')
      BY <1>0, <3>2, <3>3 DEF NoRepeats
    <3>5. DOMAIN mqttsn_conns' = 1..Len(mqttsn_conns')
      BY <3>2, LenProperties
    <3>6. ASSUME NEW i \in DOMAIN mqttsn_conns'
          PROVE  mqttsn_conns'[i] \in Live \cup {c}
      <4>1. i \in 1..Len(mqttsn_conns) \/ i = Len(mqttsn_conns) + 1
        BY <1>0, <3>2, <3>5
      <4> QED  BY <3>2, <3>3, <4>1
    <3>7. Live' \subseteq Live \cup {c}
      BY <3>6 DEF Live, ToSet
    <3> QED  BY <3>2, <3>4, <3>7
  <2> QED  BY <2>1, <2>2
<1>9. AddrUnique'
  BY <1>0, <1>1, <1>7, <1>8 DEF AddrUnique
<1>10. visit' \in Seq(Clients) /\ Walk'
  BY <1>3, <1>8, EmptyTyped, LenProperties DEF Walk
<1>11. TypeOK'
  BY <1>4, <1>6, <1>7, <1>8, <1>10 DEF TypeOK, StoreTyped
<1> QED  BY <1>4, <1>7, <1>8, <1>9, <1>10, <1>11 DEF IInv, ListInv

\* PUBLISH, and REGISTER and SUBSCRIBE, may put a topic into pub_list.
LEMMA PublishStep ==
  ASSUME IInv, NEW c \in Clients, NEW t \in Topics, NEW r \in RetainFlags, Publish(c, t, r)
  PROVE  IInv'
<1>0. /\ conn \in [Clients -> GoodConn(Known)] /\ r \in BOOLEAN
      /\ mqttsn_conns \in Seq(Clients) /\ topic_id \in [Topics -> 0..MaxTopicId]
  BY InputsAssumption DEF IInv, TypeOK
<1>1. /\ topic_id[t] # 0 /\ retain' = [retain EXCEPT ![t] = r]
      /\ PublishSend(mqttsn_conns, [conn EXCEPT ![c] = Heard(c)], t, topic_id[t])
      /\ UNCHANGED <<mqttsn_conns, topic_id, mqttsn_topic_id, visit>>
  BY DEF Publish
<1>2. AssignTopicId(t)
  BY <1>1 DEF AssignTopicId
<1>3. /\ StoreTyped' /\ StoreInv' /\ retain' \in [Topics -> BOOLEAN]
      /\ Known \subseteq Known' /\ topic_id[t] \in Known' /\ topic_id[t] \in TopicIds
  BY <1>0, <1>1, <1>2, StoreStep
<1>4. Follows(Heard(c), conn[c], Known)
  BY <1>0, HeardGood
<1> DEFINE cs == [conn EXCEPT ![c] = Heard(c)]
<1>5. cs \in [Clients -> GoodConn(Known')] /\ \A d \in Clients : cs[d].addr = conn[d].addr
  BY <1>0, <1>3, <1>4, GoodMonotone DEF Follows
<1> HIDE DEF cs
<1>6. PublishSend(mqttsn_conns, cs, t, topic_id[t])
  BY <1>1 DEF cs
<1>7. ConnsFollow(cs, Known') /\ mqttsn_msg_id' \in MsgIds
  BY <1>0, <1>3, <1>5, <1>6, PublishSendGood
<1>8. ConnsFollow(conn, Known') /\ StoreWell'
  BY <1>3, <1>5, <1>7 DEF ConnsFollow, StoreWell
<1> QED  BY <1>1, <1>8, SameListStep DEF WalkStep

LEMMA BrokerPublishStep ==
  ASSUME IInv, NEW t \in Topics, NEW r \in RetainFlags, BrokerPublish(t, r)
  PROVE  IInv'
<1>0. /\ conn \in [Clients -> GoodConn(Known)] /\ r \in BOOLEAN
      /\ mqttsn_conns \in Seq(Clients)
  BY InputsAssumption DEF IInv, TypeOK
<1>1. /\ AssignTopicId(t) /\ retain' = [retain EXCEPT ![t] = r]
      /\ PublishSend(mqttsn_conns, conn, t, topic_id'[t])
      /\ UNCHANGED <<mqttsn_conns, visit>>
  BY DEF BrokerPublish
<1>2. /\ StoreTyped' /\ StoreInv' /\ retain' \in [Topics -> BOOLEAN]
      /\ Known \subseteq Known' /\ topic_id'[t] \in Known' /\ topic_id'[t] \in TopicIds
  BY <1>0, <1>1, StoreStep
<1>3. conn \in [Clients -> GoodConn(Known')]
  BY <1>0, <1>2, GoodMonotone
<1>4. ConnsFollow(conn, Known') /\ mqttsn_msg_id' \in MsgIds
  BY <1>0, <1>1, <1>2, <1>3, PublishSendGood
<1> QED  BY <1>1, <1>2, <1>4, SameListStep DEF WalkStep, StoreWell

LEMMA RegisterStep ==
  ASSUME IInv, NEW c \in Clients, NEW t \in Topics, Register(c, t)
  PROVE  IInv'
<1> DEFINE id == topic_id'[t]
           r == [Heard(c) EXCEPT !.reg_list = @ \cup {id}, !.told = @ \cup {id}]
<1>0. conn \in [Clients -> GoodConn(Known)] /\ mqttsn_msg_id \in MsgIds
  BY DEF IInv, TypeOK
<1>1. /\ AssignTopicId(t) /\ conn' = [conn EXCEPT ![c] = r]
      /\ UNCHANGED <<mqttsn_conns, retain, mqttsn_msg_id, visit>>
  BY DEF Register
<1>2. /\ StoreTyped' /\ StoreInv' /\ retain' \in [Topics -> BOOLEAN]
      /\ Known \subseteq Known' /\ id \in Known' /\ id \in TopicIds
  BY <1>0, <1>1, StoreStep
<1>3. conn \in [Clients -> GoodConn(Known')]
  BY <1>0, <1>2, GoodMonotone
<1>4. Follows(Heard(c), conn[c], Known')
  BY <1>3, HeardGood
<1> HIDE DEF id
<1>5. Follows(r, Heard(c), Known')
  <2>1. Heard(c) \in GoodConn(Known') /\ id \in Known' /\ id \in TopicIds
    BY <1>2, <1>4 DEF Follows
  <2> QED  BY <2>1, ToldGood, Zenon
<1> HIDE DEF r
<1>6. ConnsFollow(conn, Known')
  BY <1>1, <1>3, <1>4, <1>5, FollowsTwice, OneFollows
<1> QED  BY <1>0, <1>1, <1>2, <1>6, SameListStep DEF WalkStep, StoreWell

LEMMA SubscribeStep ==
  ASSUME IInv, NEW c \in Clients, NEW f \in Topics \cup Wildcards, NEW q \in QoS,
         Subscribe(c, f, q)
  PROVE  IInv'
<1> DEFINE id == IF f \in Topics THEN topic_id'[f] ELSE 0
           r == Subscribed(Heard(c), f, q, id)
           S == {topic_id'[t] : t \in {u \in Topics : retain[u] /\ Covers(f, u)}}
<1>0. /\ conn \in [Clients -> GoodConn(Known)] /\ mqttsn_msg_id \in MsgIds
      /\ topic_id \in [Topics -> 0..MaxTopicId]
  BY DEF IInv, TypeOK
<1>1. /\ IF f \in Topics THEN AssignTopicId(f) ELSE UNCHANGED <<topic_id, mqttsn_topic_id>>
      /\ UNCHANGED <<mqttsn_conns, retain, visit>>
  BY DEF Subscribe
<1>2. PICK regNew \in Orders((S \ r.reg_list) \ TopicIdsOf(r.reg_msg_list)),
           pubNew \in Orders((S \cap r.reg_list) \ TopicIdsOf(r.pub_msg_list)) :
        Flush(c, RetainedQueued(r, S, q, regNew, pubNew))
  BY DEF Subscribe
<1>3. /\ StoreTyped' /\ StoreInv' /\ retain' \in [Topics -> BOOLEAN]
      /\ Known \subseteq Known' /\ Known' \subseteq TopicIds
      /\ id # 0 => id \in Known'
  <2>1. CASE f \in Topics
    BY <1>1, <2>1, StoreStep
  <2>2. CASE f \notin Topics
    <3>1. UNCHANGED store
      BY <1>1, <2>2 DEF store
    <3> QED  BY <1>0, <2>2, <3>1, StoreUnchanged, IdsOfTyped DEF Known
  <2> QED  BY <2>1, <2>2
<1>4. S \subseteq Known'
  <2> SUFFICES ASSUME NEW t \in Topics, retain[t]
               PROVE  topic_id'[t] \in Known'
    OBVIOUS
  <2>1. topic_id'[t] # 0
    BY <1>1, <1>3 DEF StoreInv
  <2>2. topic_id' \in [Topics -> 0..MaxTopicId] /\ Known' = IdsOf(topic_id')
    BY <1>3 DEF StoreTyped, Known
  <2> QED  BY <2>1, <2>2, IdsOfTyped
<1>5. conn \in [Clients -> GoodConn(Known')]
  BY <1>0, <1>3, GoodMonotone
<1>6. Follows(Heard(c), conn[c], Known')
  BY <1>5, HeardGood
<1> HIDE DEF id, S
<1>7. Follows(r, Heard(c), Known')
  BY <1>3, <1>6, SubscribedGood DEF Follows
<1> HIDE DEF r
<1> DEFINE s == RetainedQueued(r, S, q, regNew, pubNew)
<1>8. Follows(s, r, Known')
  BY <1>3, <1>4, <1>7, RetainedQueuedGood DEF Follows
<1>9. Flush(c, s)
  BY <1>2
<1> HIDE DEF s
<1>10. Follows(s, conn[c], Known')
  BY <1>6, <1>7, <1>8, FollowsTwice
<1>11. ConnsFollow(conn, Known') /\ mqttsn_msg_id' \in MsgIds
  BY <1>0, <1>5, <1>9, <1>10, FlushGood
<1> QED  BY <1>1, <1>3, <1>11, SameListStep DEF WalkStep, StoreWell

LEMMA UnsubscribeStep ==
  ASSUME IInv, NEW c \in Clients, NEW f, Unsubscribe(c, f)
  PROVE  IInv'
<1> DEFINE i == SelectInSeq(conn[c].sub_list, LAMBDA e : e.filter = f)
           I == {j \in 1..Len(conn[c].sub_list) : conn[c].sub_list[j].filter = f}
<1>0. conn[c] \in GoodConn(Known) /\ conn[c] \in Conn
  BY DEF IInv, GoodConn
<1>1. /\ i # 0
      /\ conn' = [conn EXCEPT ![c] = [Heard(c) EXCEPT !.sub_list = RemoveAt(@, i)]]
      /\ UNCHANGED <<mqttsn_conns, store, mqttsn_msg_id, visit>>
  BY DEF Unsubscribe
<1>2. I \subseteq Nat /\ i = IF I # {} THEN Min(I) ELSE 0
  BY DEF SelectInSeq
<1>3. i \in 1..Len(conn[c].sub_list)
  BY <1>1, <1>2, LeastPosition, Zenon
<1> HIDE DEF i
<1>4. Follows(Heard(c), conn[c], Known) /\ Heard(c).sub_list = conn[c].sub_list
  BY <1>0, HeardGood DEF Heard, Conn
<1>5. Follows([Heard(c) EXCEPT !.sub_list = RemoveAt(@, i)], Heard(c), Known)
  BY <1>3, <1>4, UnsubscribedGood DEF Follows
<1>6. Follows([Heard(c) EXCEPT !.sub_list = RemoveAt(@, i)], conn[c], Known)
  BY <1>4, <1>5, FollowsTwice
<1> QED  BY <1>1, <1>6, RecordStep DEF WalkStep

LEMMA TimerVisitStep ==
  ASSUME IInv, TimerVisit
  PROVE  IInv'
<1> DEFINE c == Head(visit)
           r == CountedDown(conn[c])
<1>0. /\ visit \in Seq(Clients) /\ visit # <<>> /\ visit' = Tail(visit)
      /\ Expire(c) \/ Count(c)
      /\ conn \in [Clients -> GoodConn(Known)]
  BY DEF TimerVisit, IInv, TypeOK
<1>1. c \in Clients
  BY <1>0, HeadTailProperties
<1>2. c \in Live
  <2>1. /\ 1 \in 1..Len(visit) /\ Len(visit) \in Nat /\ Len(mqttsn_conns) \in Nat
        /\ Len(visit) =< Len(mqttsn_conns)
        /\ \A i \in 1..Len(visit) : visit[i] = mqttsn_conns[Len(mqttsn_conns) - Len(visit) + i]
    BY <1>0, FirstElement, LenProperties DEF IInv, ListInv, Walk, TypeOK
  <2>2. c = visit[1]
    BY <1>0
  <2>3. /\ Len(mqttsn_conns) - Len(visit) + 1 \in 1..Len(mqttsn_conns)
        /\ mqttsn_conns[Len(mqttsn_conns) - Len(visit) + 1] = c
    BY <2>1, <2>2
  <2> QED  BY <2>3, LivePlace
<1>3. CASE Expire(c)
  BY <1>0, <1>2, <1>3, ClosedList DEF Expire
<1>4. CASE Count(c)
  <2>1. Follows(r, conn[c], Known) /\ UNCHANGED <<mqttsn_conns, store>> /\ WalkStep
    BY <1>0, <1>1, <1>4, CountedDownGood DEF Count, WalkStep
  <2> HIDE DEF c, r
  <2>2. CASE conn' = [conn EXCEPT ![c] = r] /\ UNCHANGED mqttsn_msg_id
    BY <1>1, <2>1, <2>2, RecordStep
  <2>3. CASE /\ Retrying(r) /\ r.pub_msg_list[1].tts # 0
             /\ conn' = [conn EXCEPT ![c] = [r EXCEPT !.pub_msg_list[1].tts = @ - 1]]
             /\ UNCHANGED mqttsn_msg_id
    <3> DEFINE s == [r EXCEPT !.pub_msg_list[1].tts = @ - 1]
    <3>1. r \in GoodConn(Known) /\ r.pub_msg_list # <<>>
      BY <2>1, <2>3 DEF Follows, Retrying
    <3>2. Follows(s, r, Known)
      BY <2>3, <3>1, ClockGood, Zenon
    <3>3. conn' = [conn EXCEPT ![c] = s] /\ UNCHANGED mqttsn_msg_id
      BY <2>3
    <3> HIDE DEF s
    <3>4. Follows(s, conn[c], Known)
      BY <2>1, <3>2, FollowsTwice
    <3> QED  BY <1>1, <2>1, <3>3, <3>4, RecordStep
  <2>4. CASE Flush(c, r)
    BY <1>1, <2>1, <2>4, FlushStep
  <2> QED  BY <1>4, <2>2, <2>3, <2>4 DEF Count, c, r
<1> QED  BY <1>0, <1>3, <1>4

LEMMA TimerStartStep ==
  ASSUME IInv, TimerStart
  PROVE  IInv'
<1>0. /\ visit' = mqttsn_conns /\ mqttsn_conns' = mqttsn_conns /\ conn' = conn
      /\ mqttsn_msg_id' = mqttsn_msg_id /\ UNCHANGED store
      /\ mqttsn_conns \in Seq(Clients) /\ Len(mqttsn_conns) \in Nat
  BY LenProperties DEF TimerStart, IInv, TypeOK
<1>1. Known' = Known /\ StoreTyped' /\ StoreInv' /\ retain' \in [Topics -> BOOLEAN]
  BY <1>0, StoreUnchanged
<1>2. Walk'
  BY <1>0 DEF Walk
<1>3. NoRepeats(mqttsn_conns') /\ AddrUnique'
  BY <1>0 DEF IInv, ListInv, AddrUnique, Live
<1>4. TypeOK'
  BY <1>0, <1>1 DEF IInv, TypeOK, StoreTyped
<1> QED  BY <1>0, <1>1, <1>2, <1>3, <1>4 DEF IInv, ListInv

\* The packets that change one session record only, one case for each.
LEMMA PacketStep ==
  ASSUME IInv, NEW c \in Clients, PacketOf(c)
  PROVE  IInv'
<1> DEFINE h == Heard(c)
<1>0. conn[c] \in GoodConn(Known) /\ conn \in [Clients -> GoodConn(Known)]
  BY DEF IInv
<1>1. Follows(h, conn[c], Known) /\ h \in GoodConn(Known) /\ h.state = conn[c].state
  BY <1>0, HeardGood DEF Follows
<1>2. CASE Touch(c)
  BY <1>1, <1>2, RecordStep DEF Touch, WalkStep
<1>3. ASSUME NEW w \in Wills, WillTopic(c, w)
      PROVE  IInv'
  <2>1. Follows([h EXCEPT !.will = w], conn[c], Known)
    BY <1>1, WillGood, FollowsTwice, InputsAssumption
  <2> QED  BY <1>3, <2>1, RecordStep DEF WillTopic, WalkStep
<1>4. CASE WillMsg(c)
  BY <1>1, <1>4, FlushStep DEF WillMsg, WalkStep
<1>5. CASE Pingreq(c)
  <2>1. Follows([h EXCEPT !.state = "AWAKE"], conn[c], Known)
    BY <1>1, <1>5, AwakeGood, FollowsTwice DEF Pingreq
  <2> QED  BY <1>5, <2>1, FlushStep DEF Pingreq, WalkStep
<1>6. ASSUME NEW d \in Durations, Sleep(c, d)
      PROVE  IInv'
  <2>1. d \in Nat /\ d # 0 /\ "ASLEEP" \in States
    BY <1>6, NumbersAssumption DEF Sleep, States
  <2>2. Follows(WithKeepalive([conn[c] EXCEPT !.state = "ASLEEP"], d), conn[c], Known)
    BY <1>0, <2>1, KeepaliveGood
  <2> QED  BY <1>6, <2>2, RecordStep DEF Sleep, WalkStep
<1>7. CASE Disconnect(c)
  BY <1>7, ClosedList DEF Disconnect, Idle
<1>8. ASSUME NEW t \in Topics, Register(c, t)
      PROVE  IInv'
  BY <1>8, RegisterStep
<1>9. ASSUME NEW m \in 0..MaxMsgId, NEW id \in 0..MaxTopicId, Regack(c, m, id)
      PROVE  IInv'
  <2>1. h.reg_msg_list = conn[c].reg_msg_list
    BY <1>0 DEF Heard, GoodConn, Conn
  <2>2. Known \subseteq TopicIds /\ (TopicFound(id) => id \in Known)
    BY IdsOfTyped DEF IInv, TypeOK, Known, IdsOf, TopicFound
  <2>3. Follows(Registered(h, m, id), h, Known)
    BY <1>1, <1>9, <2>1, <2>2, RegisteredGood DEF Regack
  <2>4. Follows(Registered(h, m, id), conn[c], Known)
    BY <1>1, <2>3, FollowsTwice
  <2> QED  BY <1>9, <2>4, FlushStep DEF Regack, WalkStep
<1>10. ASSUME NEW m \in 0..MaxMsgId, Puback(c, m) \/ Pubcomp(c, m)
       PROVE  IInv'
  <2>1. Follows([h EXCEPT !.pub_msg_list = MsgRemove(@, m)], conn[c], Known)
    BY <1>1, MsgRemoveGood, FollowsTwice
  <2> QED  BY <1>10, <2>1, FlushStep DEF Puback, Pubcomp, WalkStep
<1>11. ASSUME NEW t \in Topics, NEW r \in RetainFlags, Publish(c, t, r)
       PROVE  IInv'
  BY <1>11, PublishStep
<1>12. ASSUME NEW f \in Topics \cup Wildcards, NEW q \in QoS, Subscribe(c, f, q)
       PROVE  IInv'
  BY <1>12, SubscribeStep
<1>13. ASSUME NEW f \in Topics \cup Wildcards, Unsubscribe(c, f)
       PROVE  IInv'
  BY <1>13, UnsubscribeStep
<1> QED  BY <1>2, <1>3, <1>4, <1>5, <1>6, <1>7, <1>8, <1>9, <1>10, <1>11, <1>12, <1>13
         DEF PacketOf

LEMMA NextStep ==
  ASSUME IInv, [Next]_vars
  PROVE  IInv'
<1>1. ASSUME NEW x \in Clients, ConnectOf(x)
      PROVE  IInv'
  BY <1>1, ConnectStep DEF ConnectOf
<1>2. ASSUME NEW c \in Clients, PacketOf(c)
      PROVE  IInv'
  BY <1>2, PacketStep
<1>3. ASSUME NEW t \in Topics, NEW r \in RetainFlags, BrokerPublish(t, r)
      PROVE  IInv'
  BY <1>3, BrokerPublishStep
<1>4. CASE Timer
  BY <1>4, TimerStartStep, TimerVisitStep DEF Timer
<1>5. CASE UNCHANGED vars
  <2>1. UNCHANGED <<mqttsn_conns, conn, topic_id, retain, mqttsn_msg_id, mqttsn_topic_id, visit>>
    BY <1>5 DEF vars
  <2>2. Known' = Known /\ NamedTopics' = NamedTopics
    BY <2>1 DEF Known, NamedTopics
  <2>3. IdsCounted' /\ TypeOK' /\ TopicIdsUnique' /\ AddrUnique' /\ Walk'
    BY <2>1, <2>2 DEF IInv, StoreInv, ListInv, IdsCounted, TypeOK, TopicIdsUnique,
                      AddrUnique, Live, Walk
  <2> QED  BY <2>1, <2>2, <2>3 DEF IInv, StoreInv, ListInv
<1> QED  BY <1>1, <1>2, <1>3, <1>4, <1>5 DEF Next

LEMMA InitStep ==
  ASSUME Init
  PROVE  IInv
<1>1. NamedTopics = {} /\ Cardinality(NamedTopics) = 0
  <2>1. NamedTopics = {}
    BY DEF Init, NamedTopics
  <2> QED  BY <2>1, FS_EmptySet
<1>2. IdsCounted
  BY <1>1, NumbersAssumption DEF Init, IdsCounted
<1>3. \A K : NoConn \in GoodConn(K)
  BY NoConnGood
<1>4. conn \in [Clients -> GoodConn(Known)] /\ conn \in [Clients -> Conn]
  BY <1>3 DEF Init, GoodConn
<1>5. TypeOK
  BY <1>4, NumbersAssumption DEF Init, TypeOK, MsgIds, TopicIds
<1>6. StoreInv
  BY <1>1, <1>2 DEF Init, StoreInv, TopicIdsUnique
<1>7. ListInv
  <2>1. Len(mqttsn_conns) = 0 /\ Live = {} /\ Len(visit) = 0
    BY DEF Init, Live, ToSet
  <2> QED  BY <2>1 DEF ListInv, NoRepeats, AddrUnique, Walk
<1> QED  BY <1>4, <1>5, <1>6, <1>7 DEF IInv

-----------------------------------------------------------------------------
(* The theorems *)

\* The inductive invariant holds of every reachable state.
THEOREM Invariant == Spec => []IInv
<1>1. Init => IInv
  BY InitStep
<1>2. IInv /\ [Next]_vars => IInv'
  BY NextStep
<1> QED  BY <1>1, <1>2, PTL DEF Spec

\* Every variable of the gateway keeps its type: in particular no message id
\* and no topic id is ever above 65535, and no countdown goes below 0.
THEOREM TypeCorrect == Spec => []TypeOK
<1>1. IInv => TypeOK
  BY DEF IInv
<1> QED  BY <1>1, Invariant, PTL

\* However clients reconnect from other addresses or with other identifiers, an
\* address belongs to one session (list_mqttsn_conn_find_addr).
THEOREM AddressesUnique == Spec => []AddrUnique
<1>1. IInv => AddrUnique
  BY DEF IInv, ListInv
<1> QED  BY <1>1, Invariant, PTL

\* The walk of timer_handle and the list it walks stay in step, also when the
\* session visited is removed.
THEOREM WalkInStep == Spec => []WalkFollowsList
<1>1. ASSUME IInv
      PROVE  WalkFollowsList
  <2> DEFINE L == Len(mqttsn_conns)
             k == L - Len(visit)
             rest == SubSeq(mqttsn_conns, k + 1, L)
  <2>1. /\ mqttsn_conns \in Seq(Clients) /\ visit \in Seq(Clients)
        /\ L \in Nat /\ Len(visit) \in Nat /\ Len(visit) =< L
        /\ \A i \in 1..Len(visit) : visit[i] = mqttsn_conns[k + i]
    BY <1>1, LenProperties DEF IInv, TypeOK, ListInv, Walk
  <2>2. \A i \in k + 1..L : mqttsn_conns[i] \in Clients
    BY <2>1, ElementOfSeq
  <2>3. k + 1 \in Int /\ L \in Int
    BY <2>1
  <2>4. /\ rest \in Seq(Clients)
        /\ Len(rest) = IF k + 1 <= L THEN L - (k + 1) + 1 ELSE 0
        /\ \A i \in 1..L - (k + 1) + 1 : rest[i] = mqttsn_conns[k + 1 + i - 1]
    <3> HIDE DEF k, L
    <3> QED  BY <2>2, <2>3, SubSeqProperties
  <2>5. Len(rest) = Len(visit)
    <3> HIDE DEF rest
    <3> QED  BY <2>1, <2>4
  <2>6. \A i \in 1..Len(visit) : visit[i] = rest[i]
    <3> TAKE i \in 1..Len(visit)
    <3>1. i \in 1..L - (k + 1) + 1 /\ k + 1 + i - 1 = k + i
      BY <2>1
    <3> HIDE DEF rest, k, L
    <3> QED  BY <2>1, <2>4, <3>1
  <2>7. visit = rest
    <3> HIDE DEF rest, k, L
    <3> QED  BY <2>1, <2>4, <2>5, <2>6, SeqEqual
  <2> QED  BY <2>1, <2>7 DEF WalkFollowsList
<1> QED  BY <1>1, Invariant, PTL

\* Only the head of a list was ever sent, whatever is queued, acknowledged out
\* of turn or repeated (mqttsn_send_buffered_msgs).
THEOREM HeadInFlight == Spec => []OneInFlight
<1>1. ASSUME IInv
      PROVE  OneInFlight
  <2> SUFFICES ASSUME NEW c \in Clients
               PROVE  /\ \A i \in 2..Len(conn[c].reg_msg_list) : NeverSent(conn[c].reg_msg_list[i])
                      /\ \A i \in 2..Len(conn[c].pub_msg_list) : NeverSent(conn[c].pub_msg_list[i])
    BY DEF OneInFlight
  <2>1. /\ conn[c].reg_msg_list \in Queues(Known, conn[c].told)
        /\ conn[c].pub_msg_list \in Queues(Known, Known)
    BY <1>1 DEF IInv, GoodConn
  <2>2. ASSUME NEW A, NEW B, NEW q \in Queues(A, B), NEW i \in 2..Len(q)
        PROVE  NeverSent(q[i])
    <3>1. Len(q) \in Nat
      BY LenProperties DEF Queues
    <3>2. i \in 1..Len(q) /\ i > 1
      BY <3>1
    <3> QED  BY <3>2 DEF Queues
  <2> QED  BY <2>1, <2>2
<1> QED  BY <1>1, Invariant, PTL

\* No session keeps a topic id that is not the id of a topic of pub_list.
THEOREM KeptIdsExist == Spec => []TopicsExist
<1>1. ASSUME IInv
      PROVE  TopicsExist
  <2> SUFFICES ASSUME NEW c \in Clients
               PROVE  UsedTopicIds(conn[c]) \subseteq Known
    BY DEF TopicsExist, Known, IdsOf
  <2> DEFINE r == conn[c]
  <2>1. /\ r.reg_list \subseteq r.told /\ r.told \subseteq Known
        /\ r.reg_msg_list \in Queues(Known, r.told)
        /\ r.pub_msg_list \in Queues(Known, Known)
    BY <1>1 DEF IInv, GoodConn
  <2> HIDE DEF r
  <2>2. TopicIdsOf(r.reg_msg_list) \subseteq Known /\ TopicIdsOf(r.pub_msg_list) \subseteq Known
    BY <2>1, LenProperties DEF Queues, TopicIdsOf
  <2> QED  BY <2>1, <2>2 DEF UsedTopicIds, r
<1> QED  BY <1>1, Invariant, PTL

\* Two topics never share a topic id, as long as pub_list has no more topics
\* than there are ids: mqttsn_topic_id comes round after MaxTopicId topics, and
\* ids are shared from then on.
THEOREM IdsUnique == Spec => []TopicIdsUnique
<1>1. IInv => TopicIdsUnique
  BY DEF IInv, StoreInv
<1> QED  BY <1>1, Invariant, PTL

\* No session that takes part in the protocol is without a keep-alive.
THEOREM SessionsTimed == Spec => []KeepaliveArmed
<1>1. ASSUME IInv
      PROVE  KeepaliveArmed
  BY <1>1, LiveTyped DEF KeepaliveArmed, IInv, GoodConn
<1> QED  BY <1>1, Invariant, PTL

=============================================================================
