---------------------------- MODULE TcpBrokerProofs ----------------------------
(***************************************************************************)
(* Theorems about TcpBroker, for every value of its constants.             *)
(***************************************************************************)
EXTENDS TcpBroker, ListLemmas, FiniteSetTheorems

-----------------------------------------------------------------------------
(* Choosing elements in order *)

\* Each element of a finite set has a place in it, and each place an element.
LEMMA InOrderProperties ==
  ASSUME NEW R, IsFiniteSet(R), NEW rank \in [R -> Nat],
         \A x, y \in R : rank[x] = rank[y] => x = y
  PROVE  /\ Cardinality(R) \in Nat
         /\ \A n \in 1..Cardinality(R) : InOrder(R, rank)[n] \in R
         /\ \A x \in R : \E n \in 1..Cardinality(R) : InOrder(R, rank)[n] = x
<1> DEFINE upTo(x) == {y \in R : rank[y] =< rank[x]}
           place == [x \in R |-> Cardinality(upTo(x))]
<1>1. Cardinality(R) \in Nat
  BY FS_CardinalityType
<1>2. ASSUME NEW x \in R
      PROVE  /\ IsFiniteSet(upTo(x)) /\ place[x] \in 1..Cardinality(R)
  <2>1. upTo(x) \in SUBSET R /\ x \in upTo(x)
    OBVIOUS
  <2>2. IsFiniteSet(upTo(x)) /\ Cardinality(upTo(x)) =< Cardinality(R)
    BY <2>1, FS_Subset
  <2>3. Cardinality(upTo(x)) \in Nat
    BY <2>2, FS_CardinalityType
  <2>4. Cardinality(upTo(x)) # 0
    BY <2>1, <2>2, FS_EmptySet
  <2> QED  BY <1>1, <2>2, <2>3, <2>4
<1>3. ASSUME NEW x \in R, NEW y \in R, place[x] = place[y]
      PROVE  x = y
  <2>1. upTo(x) \in SUBSET upTo(y) \/ upTo(y) \in SUBSET upTo(x)
    OBVIOUS
  <2>2. Cardinality(upTo(x)) = Cardinality(upTo(y))
    BY <1>3
  <2>3. upTo(x) = upTo(y)
    BY <1>2, <2>1, <2>2, FS_Subset
  <2>4. x \in upTo(x) /\ y \in upTo(y)
    OBVIOUS
  <2>5. rank[x] = rank[y]
    BY <2>3, <2>4
  <2> QED  BY <2>5
<1>4. place \in Injection(R, 1..Cardinality(R))
  <2>1. place \in [R -> 1..Cardinality(R)]
    BY <1>2
  <2> HIDE DEF place
  <2> QED  BY <1>3, <2>1, Fun_IsInj
<1>5. /\ IsFiniteSet(1..Cardinality(R))
      /\ Cardinality(1..Cardinality(R)) = Cardinality(R)
  BY <1>1, FS_Interval
<1>6. place \in Surjection(R, 1..Cardinality(R))
  BY <1>4, <1>5, FS_Injection
<1>7. \A n \in 1..Cardinality(R) : \E x \in R : place[x] = n
  BY <1>6 DEF Surjection
<1>8. ASSUME NEW n \in 1..Cardinality(R)
      PROVE  InOrder(R, rank)[n] \in R /\ place[InOrder(R, rank)[n]] = n
  <2>1. InOrder(R, rank)[n] = CHOOSE x \in R : Cardinality(upTo(x)) = n
    BY DEF InOrder
  <2>2. \E x \in R : Cardinality(upTo(x)) = n
    BY <1>7, <1>8
  <2>3. InOrder(R, rank)[n] \in R /\ Cardinality(upTo(InOrder(R, rank)[n])) = n
    BY <2>1, <2>2
  <2> QED  BY <2>3
<1>9. ASSUME NEW x \in R
      PROVE  InOrder(R, rank)[place[x]] = x
  <2> HIDE DEF place
  <2> QED  BY <1>2, <1>3, <1>8, <1>9
<1> QED  BY <1>1, <1>2, <1>8, <1>9

LEMMA PickedProperties ==
  ASSUME NEW S, NEW s \in Seq(S), NEW I \in SUBSET (1..Len(s))
  PROVE  /\ Picked(s, I) \in Seq(S)
         /\ Len(Picked(s, I)) = Cardinality(I)
         /\ Cardinality(I) \in Nat
         /\ \A i \in I : \E n \in 1..Cardinality(I) : Picked(s, I)[n] = s[i]
         /\ \A n \in 1..Cardinality(I) : \E i \in I : Picked(s, I)[n] = s[i]
<1> DEFINE rank == [i \in I |-> i]
           place == InOrder(I, rank)
<1>1. Len(s) \in Nat
  BY LenProperties
<1>2. IsFiniteSet(I)
  <2>1. IsFiniteSet(1..Len(s))
    BY <1>1, FS_Interval
  <2> QED  BY <2>1, FS_Subset
<1>3. /\ Cardinality(I) \in Nat
      /\ \A n \in 1..Cardinality(I) : place[n] \in I
      /\ \A x \in I : \E n \in 1..Cardinality(I) : place[n] = x
  <2>1. rank \in [I -> Nat] /\ \A x, y \in I : rank[x] = rank[y] => x = y
    BY <1>1
  <2> HIDE DEF rank
  <2> QED  BY <1>2, <2>1, InOrderProperties
<1>4. Picked(s, I) = [n \in 1..Cardinality(I) |-> s[place[n]]]
  BY DEF Picked
<1> HIDE DEF place
<1>5. \A n \in 1..Cardinality(I) : Picked(s, I)[n] = s[place[n]]
  BY <1>4
<1>6. \A n \in 1..Cardinality(I) : Picked(s, I)[n] \in S
  BY <1>3, <1>5, ElementOfSeq, ZenonT(40)
<1>7. Picked(s, I) = [n \in 1..Cardinality(I) |-> Picked(s, I)[n]]
  BY <1>4, <1>5
<1>8. Picked(s, I) \in Seq(S) /\ Len(Picked(s, I)) = Cardinality(I)
  BY <1>3, <1>6, <1>7, TypedList
<1>9. ASSUME NEW i \in I
      PROVE  \E n \in 1..Cardinality(I) : Picked(s, I)[n] = s[i]
  <2>1. PICK n \in 1..Cardinality(I) : place[n] = i
    BY <1>3
  <2> QED  BY <1>5, <2>1
<1> HIDE DEF rank
<1> QED  BY <1>3, <1>5, <1>8, <1>9

-----------------------------------------------------------------------------
(* The shape of the state *)

NoRepeats(list) == \A i, j \in 1..Len(list) : list[i] = list[j] => i = j

\* Packets name their connection, and a message of packets has some.
Proper(m) ==
  ~m.close => m.conn \in Conns /\ m.addr = AddrOf[m.conn] /\ m.packets # <<>>

\* proc counts packets of the first message that are not the last of it.
QueueShape ==
  /\ tcp_mqtt \in Seq(Message)
  /\ \A i \in 1..Len(tcp_mqtt) : Proper(tcp_mqtt[i])
  /\ proc \in Nat
  /\ IF HasFirst(FALSE) THEN proc < Len(First.packets) ELSE proc = 0

TcpShape ==
  /\ sock \in [Conns -> {"new", "open", "closed"}]
  /\ script \in [Conns -> Seq(Packet)]
  /\ \A k \in Conns : script[k] \in Scripts[k] \cup {<<>>}
  /\ recvd \in [Conns -> Nat]
  /\ passed \in [Conns -> Nat]
  /\ \A k \in Conns : 2 * passed[k] =< recvd[k]

Outgoing(s) == IsList(s) /\ \A i \in 1..Len(s) : s[i].addr \in Addrs

Published == [topic : Topics, retain : BOOLEAN]

MqttShape ==
  /\ Outgoing(mqtt_tcp)
  /\ mqtt_conns \in Seq(Addrs)
  /\ NoRepeats(mqtt_conns)
  /\ mqtt_conn \in [Addrs -> Session]
  /\ pub_list \in Seq(Published)
  /\ handled \in [Conns -> Nat]
  /\ past \subseteq Conns
  /\ ordered \subseteq Conns
  /\ \A a \in Live : Owner(a) \in Conns /\ AddrOf[Owner(a)] = a

Shape == QueueShape /\ TcpShape /\ MqttShape

LEMMA ShapeTypes ==
  ASSUME Shape
  PROVE  TypeOK
<1>1. DOMAIN mqtt_tcp = 1..Len(mqtt_tcp)
  BY ListProperties DEF Shape, MqttShape, Outgoing
<1> QED
  BY <1>1 DEF Shape, QueueShape, TcpShape, MqttShape, Outgoing, Published, TypeOK

-----------------------------------------------------------------------------
(* The queue to the mqtt thread *)

LEMMA NoticeType ==
  ASSUME NEW a \in Addrs, NEW k \in Conns \cup {NoConn}
  PROVE  Notice(a, k) \in Message /\ Proper(Notice(a, k)) /\ Notice(a, k).close
BY EmptySeq DEF Notice, Message, Proper

\* A message at the end of the queue leaves the first one and what is done of it.
LEMMA QueueAppended ==
  ASSUME QueueShape, NEW m \in Message, Proper(m),
         tcp_mqtt' = Append(tcp_mqtt, m), UNCHANGED proc
  PROVE  QueueShape'
<1>1. /\ tcp_mqtt \in Seq(Message) /\ Len(tcp_mqtt) \in Nat
      /\ tcp_mqtt = <<>> <=> Len(tcp_mqtt) = 0
  BY LenProperties, EmptySeq DEF QueueShape
<1>2. /\ tcp_mqtt' \in Seq(Message) /\ tcp_mqtt' # <<>>
      /\ Len(tcp_mqtt') = Len(tcp_mqtt) + 1
      /\ \A i \in 1..Len(tcp_mqtt) : tcp_mqtt'[i] = tcp_mqtt[i]
      /\ tcp_mqtt'[Len(tcp_mqtt) + 1] = m
      /\ Head(tcp_mqtt') = IF tcp_mqtt = <<>> THEN m ELSE Head(tcp_mqtt)
  BY <1>1, AppendProperties, HeadTailAppend
<1>3. \A i \in 1..Len(tcp_mqtt') : Proper(tcp_mqtt'[i])
  BY <1>1, <1>2 DEF QueueShape
<1>4. proc \in Nat /\ (tcp_mqtt = <<>> => proc = 0)
  BY DEF QueueShape, HasFirst
<1>5. ~m.close => 0 < Len(m.packets)
  BY EmptySeq DEF Message, Proper
<1>6. CASE tcp_mqtt = <<>>
  BY <1>1, <1>2, <1>3, <1>4, <1>5, <1>6 DEF QueueShape, HasFirst, First
<1>7. CASE tcp_mqtt # <<>>
  BY <1>1, <1>2, <1>3, <1>4, <1>7 DEF QueueShape, HasFirst, First
<1> QED  BY <1>6, <1>7

LEMMA QueueTail ==
  ASSUME QueueShape, tcp_mqtt # <<>>, tcp_mqtt' = Tail(tcp_mqtt), proc' = 0
  PROVE  QueueShape'
<1>1. /\ tcp_mqtt' \in Seq(Message) /\ Len(tcp_mqtt') = Len(tcp_mqtt) - 1
      /\ Len(tcp_mqtt) \in Nat
      /\ \A i \in 1..Len(tcp_mqtt') : tcp_mqtt'[i] = tcp_mqtt[i + 1]
  BY HeadTailProperties, LenProperties DEF QueueShape
<1>2. \A i \in 1..Len(tcp_mqtt') : Proper(tcp_mqtt'[i]) /\ tcp_mqtt'[i] \in Message
  BY <1>1, ElementOfSeq DEF QueueShape
<1>3. tcp_mqtt' # <<>> => Head(tcp_mqtt') = tcp_mqtt'[1] /\ 1 \in 1..Len(tcp_mqtt')
  BY <1>1, EmptySeq, ListTail DEF IsList
<1>4. (tcp_mqtt' # <<>> /\ ~Head(tcp_mqtt').close) => 0 < Len(Head(tcp_mqtt').packets)
  BY <1>2, <1>3, EmptySeq, SMTT(30) DEF Message, Proper
<1> QED  BY <1>1, <1>2, <1>4 DEF QueueShape, HasFirst, First

LEMMA FirstTyped ==
  ASSUME QueueShape, tcp_mqtt # <<>>
  PROVE  /\ First = tcp_mqtt[1] /\ 1 \in 1..Len(tcp_mqtt)
         /\ First \in Message /\ Proper(First) /\ Sender \in Addrs
         /\ First.close \in BOOLEAN
<1>1. First = tcp_mqtt[1] /\ 1 \in 1..Len(tcp_mqtt)
  BY ListTail, LenProperties DEF IsList, QueueShape, First
<1>2. First \in Message
  BY <1>1, ElementOfSeq DEF QueueShape
<1> QED  BY <1>1, <1>2 DEF QueueShape, Sender, Message

\* Taking a packet
LEMMA TakeShape ==
  ASSUME QueueShape, handled \in [Conns -> Nat], Take
  PROVE  /\ QueueShape'
         /\ handled' \in [Conns -> Nat]
         /\ Sender \in Addrs /\ From \in Conns /\ AddrOf[From] = Sender
         /\ Current \in Packet
         /\ tcp_mqtt # <<>> /\ ~First.close
<1>1. tcp_mqtt # <<>> /\ ~First.close /\ HasFirst(FALSE)
  BY DEF Take, HasFirst
<1>2. /\ Sender \in Addrs /\ From \in Conns /\ AddrOf[From] = Sender
      /\ First.packets \in Seq(Packet)
  BY <1>1, FirstTyped DEF Proper, Message, Sender, From
<1>3. proc \in Nat /\ proc < Len(First.packets) /\ Len(First.packets) \in Nat
  BY <1>1, <1>2, LenProperties DEF QueueShape
<1>4. Current \in Packet
  BY <1>2, <1>3, ElementOfSeq DEF Current
<1>5. handled' \in [Conns -> Nat]
  BY <1>2 DEF Take
<1>6. QueueShape'
  <2>1. CASE proc + 1 < Len(First.packets)
    BY <1>1, <1>3, <2>1 DEF Take, QueueShape, HasFirst, First
  <2>2. CASE ~(proc + 1 < Len(First.packets))
    BY <1>1, <2>2, QueueTail DEF Take
  <2> QED  BY <2>1, <2>2
<1> QED  BY <1>1, <1>2, <1>4, <1>5, <1>6

-----------------------------------------------------------------------------
(* The queue to the tcp thread *)

\* Messages are added at the end: those on their way stay there.
Longer(s, t) ==
  Outgoing(t) /\ Len(s) =< Len(t) /\ \A i \in 1..Len(s) : t[i] = s[i]

LEMMA OutgoingConcat ==
  ASSUME NEW s, Outgoing(s), NEW t, Outgoing(t)
  PROVE  /\ Outgoing(s \o t) /\ Longer(s, s \o t)
         /\ Len(s \o t) = Len(s) + Len(t) /\ Len(s) \in Nat /\ Len(t) \in Nat
         /\ \A i \in 1..Len(t) : (s \o t)[Len(s) + i] = t[i]
<1>1. /\ IsList(s \o t) /\ Len(s \o t) = Len(s) + Len(t)
      /\ \A i \in 1..Len(s) : (s \o t)[i] = s[i]
      /\ \A i \in 1..Len(t) : (s \o t)[Len(s) + i] = t[i]
      /\ Len(s) \in Nat /\ Len(t) \in Nat
  BY ListConcat, ListProperties DEF Outgoing
<1>2. ASSUME NEW i \in 1..Len(s \o t)
      PROVE  (s \o t)[i].addr \in Addrs
  <2>1. CASE i \in 1..Len(s)
    BY <1>1, <2>1 DEF Outgoing
  <2>2. CASE i \notin 1..Len(s)
    <3>1. PICK j \in 1..Len(t) : i = Len(s) + j
      <4>1. i - Len(s) \in 1..Len(t) /\ i = Len(s) + (i - Len(s))
        BY <1>1, <2>2
      <4> QED  BY <4>1
    <3> QED  BY <1>1, <3>1 DEF Outgoing
  <2> QED  BY <2>1, <2>2
<1> QED  BY <1>1, <1>2 DEF Outgoing, Longer

LEMMA OutgoingAppend ==
  ASSUME NEW s, Outgoing(s), NEW e, e.addr \in Addrs
  PROVE  /\ Outgoing(Append(s, e)) /\ Longer(s, Append(s, e))
         /\ Len(Append(s, e)) = Len(s) + 1 /\ Append(s, e)[Len(s) + 1] = e
<1>1. /\ IsList(Append(s, e)) /\ Len(Append(s, e)) = Len(s) + 1
      /\ \A i \in 1..Len(s) : Append(s, e)[i] = s[i]
      /\ Append(s, e)[Len(s) + 1] = e
      /\ Len(s) \in Nat
  BY ListAppend, ListProperties DEF Outgoing
<1>2. \A i \in 1..Len(s) + 1 : Append(s, e)[i].addr \in Addrs
  BY <1>1 DEF Outgoing
<1> QED  BY <1>1, <1>2 DEF Outgoing, Longer

LEMMA LongerTransitive ==
  ASSUME NEW s, NEW t, NEW u, IsList(s), Longer(s, t), Longer(t, u)
  PROVE  Longer(s, u)
<1>1. Len(s) \in Nat /\ Len(t) \in Nat
  BY ListProperties DEF Longer, Outgoing
<1> QED  BY <1>1, ListProperties DEF Longer, Outgoing

LEMMA LongerSame ==
  ASSUME NEW s, Outgoing(s)
  PROVE  Longer(s, s)
BY ListProperties DEF Longer, Outgoing

ToSender(packets) == [i \in DOMAIN packets |-> ToSend(Sender, packets[i])]

LEMMA AnswerOutgoing ==
  ASSUME NEW packets, IsList(packets), Sender \in Addrs
  PROVE  Outgoing(ToSender(packets))
<1>1. DOMAIN packets = 1..Len(packets) /\ Len(packets) \in Nat
  BY ListProperties
<1>2. ToSender(packets) = [i \in 1..Len(packets) |-> ToSend(Sender, packets[i])]
  BY <1>1 DEF ToSender
<1>3. \A i \in 1..Len(packets) : ToSender(packets)[i].addr = Sender
  BY <1>2 DEF ToSend
<1>4. ToSender(packets) = [i \in 1..Len(packets) |-> ToSender(packets)[i]]
  BY <1>2
<1>5. IsList(ToSender(packets)) /\ Len(ToSender(packets)) = Len(packets)
  BY <1>1, <1>4, ListMade
<1> QED  BY <1>3, <1>5 DEF Outgoing

LEMMA PublishOutgoing ==
  ASSUME MqttShape, NEW topic, NEW retain, NEW among
  PROVE  Outgoing(PublishSend(topic, retain, among))
<1> DEFINE to == {i \in DOMAIN mqtt_conns :
                    mqtt_conns[i] \in among /\ MatchesIn(mqtt_conns[i], topic) # {}}
           subscribers == Picked(mqtt_conns, to)
           sent == PublishSend(topic, retain, among)
<1>1. mqtt_conns \in Seq(Addrs) /\ DOMAIN mqtt_conns = 1..Len(mqtt_conns)
  BY LenProperties DEF MqttShape
<1>2. to \in SUBSET (1..Len(mqtt_conns))
  BY <1>1
<1>3. subscribers \in Seq(Addrs)
  <2> HIDE DEF to
  <2> QED  BY <1>1, <1>2, PickedProperties
<1>4. /\ Len(subscribers) \in Nat /\ DOMAIN subscribers = 1..Len(subscribers)
      /\ \A n \in 1..Len(subscribers) : subscribers[n] \in Addrs
  <2> HIDE DEF subscribers
  <2> QED  BY <1>3, LenProperties, ElementOfSeq
<1>5. sent = [n \in 1..Len(subscribers) |->
                PublishTo(subscribers[n], topic, QosFor(subscribers[n], topic), retain)]
  BY <1>4 DEF PublishSend
<1> HIDE DEF subscribers
<1>6. \A n \in 1..Len(subscribers) : sent[n].addr = subscribers[n]
  BY <1>5 DEF PublishTo, ToSend
<1>7. sent = [n \in 1..Len(subscribers) |-> sent[n]]
  BY <1>5
<1> HIDE DEF sent
<1>8. IsList(sent) /\ Len(sent) = Len(subscribers)
  BY <1>4, <1>7, ListMade
<1> QED  BY <1>4, <1>6, <1>8 DEF Outgoing, sent

LEMMA RetainedOutgoing ==
  ASSUME MqttShape, Sender \in Addrs, NEW new, NEW subs, IsList(new)
  PROVE  Outgoing(RetainedFor(new, subs))
<1> DEFINE pairs == {x \in (DOMAIN new) \X (DOMAIN pub_list) :
                       /\ pub_list[x[2]].retain
                       /\ pub_list[x[2]].topic \in new[x[1]].filter}
           order == InOrder(pairs, [x \in pairs |-> x[1] * (Len(pub_list) + 1) + x[2]])
           sent == RetainedFor(new, subs)
<1>1. /\ DOMAIN new = 1..Len(new) /\ Len(new) \in Nat
      /\ DOMAIN pub_list = 1..Len(pub_list) /\ Len(pub_list) \in Nat
  BY ListProperties, LenProperties DEF MqttShape
<1>2. IsFiniteSet((1..Len(new)) \X (1..Len(pub_list)))
  <2>1. IsFiniteSet(1..Len(new)) /\ IsFiniteSet(1..Len(pub_list))
    BY <1>1, FS_Interval
  <2> QED  BY <2>1, FS_Product
<1>3. Cardinality(pairs) \in Nat
  <2>1. pairs \in SUBSET ((1..Len(new)) \X (1..Len(pub_list)))
    BY <1>1
  <2> HIDE DEF pairs
  <2> QED  BY <1>2, <2>1, FS_Subset, FS_CardinalityType
<1>4. DOMAIN order = 1..Cardinality(pairs)
  <2> HIDE DEF pairs
  <2> QED  BY DEF InOrder
<1>5. sent = [n \in 1..Cardinality(pairs) |->
                PublishTo(Sender, pub_list[order[n][2]].topic, subs[1].qos, TRUE)]
  BY <1>4 DEF RetainedFor
<1> HIDE DEF pairs, order
<1>6. \A n \in 1..Cardinality(pairs) : sent[n].addr = Sender
  BY <1>5 DEF PublishTo, ToSend
<1>7. sent = [n \in 1..Cardinality(pairs) |-> sent[n]]
  BY <1>5
<1> HIDE DEF sent
<1>8. IsList(sent) /\ Len(sent) = Cardinality(pairs)
  BY <1>3, <1>7, ListMade
<1> QED  BY <1>6, <1>8 DEF Outgoing, sent

-----------------------------------------------------------------------------
(* The sessions *)

LEMMA SubsType ==
  ASSUME NEW subs \in Seq(Subscription), NEW new \in Seq(Subscription)
  PROVE  SubAddReplaceAll(subs, new) \in Seq(Subscription)
<1> DEFINE NewFor(f) == {n \in DOMAIN new : new[n].filter = f}
           fresh == {n \in DOMAIN new : \A i \in DOMAIN subs : subs[i].filter # new[n].filter}
           old == [i \in DOMAIN subs |->
                     IF NewFor(subs[i].filter) = {} THEN subs[i]
                     ELSE new[CHOOSE n \in NewFor(subs[i].filter) : TRUE]]
<1>1. /\ DOMAIN subs = 1..Len(subs) /\ Len(subs) \in Nat
      /\ DOMAIN new = 1..Len(new) /\ Len(new) \in Nat
  BY LenProperties
<1>2. Picked(new, fresh) \in Seq(Subscription)
  <2>1. fresh \in SUBSET (1..Len(new))
    BY <1>1
  <2> HIDE DEF fresh
  <2> QED  BY <2>1, PickedProperties
<1>3. ASSUME NEW i \in 1..Len(subs)
      PROVE  old[i] \in Subscription
  <2>1. CASE NewFor(subs[i].filter) = {}
    <3>1. old[i] = subs[i]
      BY <1>1, <2>1
    <3> QED  BY <3>1, ElementOfSeq
  <2>2. CASE NewFor(subs[i].filter) # {}
    <3> DEFINE n == CHOOSE m \in NewFor(subs[i].filter) : TRUE
    <3>1. n \in NewFor(subs[i].filter)
      BY <2>2
    <3>2. n \in 1..Len(new)
      BY <1>1, <3>1
    <3>3. old[i] = new[n]
      BY <1>1, <2>2
    <3> QED  BY <3>2, <3>3, ElementOfSeq
  <2> QED  BY <2>1, <2>2
<1>4. old = [i \in 1..Len(subs) |-> old[i]]
  BY <1>1
<1>5. old \in Seq(Subscription)
  <2> HIDE DEF old
  <2> QED  BY <1>1, <1>3, <1>4, TypedList
<1>6. SubAddReplaceAll(subs, new) = old \o Picked(new, fresh)
  BY DEF SubAddReplaceAll
<1> HIDE DEF old, fresh
<1> QED  BY <1>2, <1>5, <1>6, ConcatProperties

LEMMA PublishedType ==
  ASSUME pub_list \in Seq(Published), NEW topic \in Topics, NEW retain \in BOOLEAN
  PROVE  PubAddReplace(topic, retain) \in Seq(Published)
<1> DEFINE new == [i \in DOMAIN pub_list |->
                     IF pub_list[i].topic = topic
                     THEN [pub_list[i] EXCEPT !.retain = retain] ELSE pub_list[i]]
<1>1. /\ DOMAIN pub_list = 1..Len(pub_list) /\ Len(pub_list) \in Nat
      /\ \A i \in 1..Len(pub_list) : pub_list[i] \in Published
  BY LenProperties, ElementOfSeq
<1>2. \A i \in 1..Len(pub_list) : new[i] \in Published
  BY <1>1 DEF Published
<1>3. new = [i \in 1..Len(pub_list) |-> new[i]]
  BY <1>1
<1>4. new \in Seq(Published)
  <2> HIDE DEF new
  <2> QED  BY <1>1, <1>2, <1>3, TypedList
<1>5. [topic |-> topic, retain |-> retain] \in Published
  BY DEF Published
<1>6. Append(pub_list, [topic |-> topic, retain |-> retain]) \in Seq(Published)
  BY <1>5, AppendProperties
<1> QED  BY <1>4, <1>6 DEF PubAddReplace

LEMMA NewSessionType ==
  ASSUME NEW k \in Conns \cup {NoConn}
  PROVE  NewSession(k) \in Session /\ NewSession(k).conn = k
<1>1. <<>> \in Seq(Subscription)
  BY EmptySeq
<1>2. NoWill \in Will
  BY DEF Will
<1> QED  BY <1>1, <1>2 DEF NewSession, Session

LEMMA LivePlace ==
  ASSUME MqttShape, NEW a
  PROVE  a \in Live <=> \E i \in 1..Len(mqtt_conns) : mqtt_conns[i] = a
<1>1. DOMAIN mqtt_conns = 1..Len(mqtt_conns)
  BY LenProperties DEF MqttShape
<1> QED  BY <1>1 DEF Live, ToSet

LEMMA LiveTyped ==
  ASSUME MqttShape
  PROVE  Live \subseteq Addrs
BY LivePlace, ElementOfSeq DEF MqttShape

\* Sessions and their connections stay as they are.
SessionsKept ==
  /\ UNCHANGED <<mqtt_conns, past>>
  /\ mqtt_conn' \in [Addrs -> Session]
  /\ \A a \in Addrs : mqtt_conn'[a].conn = mqtt_conn[a].conn

LEMMA HeardType ==
  ASSUME mqtt_conn \in [Addrs -> Session], Sender \in Addrs,
         NEW subs \in Seq(Subscription), Heard(subs)
  PROVE  /\ mqtt_conn' \in [Addrs -> Session]
         /\ \A a \in Addrs : mqtt_conn'[a].conn = mqtt_conn[a].conn
<1> DEFINE r == mqtt_conn[Sender]
           heard == [[r EXCEPT !.remainsec = r.keepalivesec] EXCEPT !.sub_list = subs]
<1>1. r \in Session
  OBVIOUS
<1>2. heard \in Session /\ heard.conn = r.conn
  BY <1>1 DEF Session
<1>3. mqtt_conn' = [mqtt_conn EXCEPT ![Sender] = heard]
  BY DEF Heard
<1> HIDE DEF heard
<1> QED  BY <1>2, <1>3

LEMMA ShapeKept ==
  ASSUME MqttShape, SessionsKept, Outgoing(mqtt_tcp'), pub_list' \in Seq(Published),
         handled' \in [Conns -> Nat], ordered' \subseteq Conns
  PROVE  MqttShape'
<1>1. Live' = Live /\ Live \subseteq Addrs
  BY LiveTyped DEF SessionsKept, Live
<1> QED  BY <1>1 DEF SessionsKept, MqttShape, Owner

-----------------------------------------------------------------------------
(* The steps of the mqtt thread, as far as connections are concerned *)

\* A CONNECT makes a session.
Begins ==
  /\ Sender \notin Live
  /\ mqtt_conns' = Append(mqtt_conns, Sender)
  /\ mqtt_conn' \in [Addrs -> Session]
  /\ \A a \in Addrs : mqtt_conn'[a].conn = IF a = Sender THEN From ELSE mqtt_conn[a].conn
  /\ UNCHANGED past

HasOrder(s, a) == \E i \in 1..Len(s) : s[i] = Order(a)

\* Whom the broker has ordered to close, and the order.
Orders ==
  \/ UNCHANGED ordered
  \/ ordered' = ordered \cup {From} /\ HasOrder(mqtt_tcp', Sender)

LEMMA OneElement ==
  ASSUME NEW x
  PROVE  IsList(<<x>>) /\ IsList(<<>>)
<1>1. <<x>> \in Seq({x})
  OBVIOUS
<1>2. <<>> \in Seq({x})
  BY EmptySeq
<1> QED  BY <1>1, <1>2 DEF IsList

LEMMA AnswerStep ==
  ASSUME Outgoing(mqtt_tcp), Sender \in Addrs, NEW packets, IsList(packets),
         Answer(packets)
  PROVE  Outgoing(mqtt_tcp') /\ Longer(mqtt_tcp, mqtt_tcp')
<1>1. Outgoing(ToSender(packets))
  BY AnswerOutgoing
<1>2. mqtt_tcp' = mqtt_tcp \o ToSender(packets)
  BY DEF Answer, ToSender
<1> QED  BY <1>1, <1>2, OutgoingConcat DEF Longer

LEMMA OrderStep ==
  ASSUME Outgoing(mqtt_tcp), Sender \in Addrs, NEW packets, IsList(packets),
         OrderClose(packets)
  PROVE  Outgoing(mqtt_tcp') /\ Longer(mqtt_tcp, mqtt_tcp')
         /\ HasOrder(mqtt_tcp', Sender)
<1> DEFINE told == mqtt_tcp \o ToSender(packets)
<1>1. Outgoing(told) /\ Longer(mqtt_tcp, told)
  BY AnswerOutgoing, OutgoingConcat
<1>2. mqtt_tcp' = Append(told, Order(Sender))
  BY DEF OrderClose, ToSender
<1> HIDE DEF told
<1>3. Order(Sender).addr \in Addrs
  BY DEF Order
<1>4. /\ Outgoing(mqtt_tcp') /\ Longer(told, mqtt_tcp')
      /\ Len(mqtt_tcp') = Len(told) + 1
      /\ mqtt_tcp'[Len(told) + 1] = Order(Sender)
  BY <1>1, <1>2, <1>3, OutgoingAppend
<1>5. Longer(mqtt_tcp, mqtt_tcp')
  BY <1>1, <1>4, LongerTransitive DEF Outgoing
<1>6. Len(told) \in Nat
  BY <1>1, ListProperties DEF Outgoing
<1>7. HasOrder(mqtt_tcp', Sender)
  BY <1>4, <1>6 DEF HasOrder
<1> QED  BY <1>4, <1>5, <1>7 DEF Longer

LEMMA IgnoreStep ==
  ASSUME Shape, Ignore
  PROVE  MqttShape' /\ Longer(mqtt_tcp, mqtt_tcp') /\ SessionsKept /\ Orders
<1>1. Take /\ handled' \in [Conns -> Nat]
  BY TakeShape DEF Ignore, Shape, MqttShape
<1>2. SessionsKept /\ Orders
  BY DEF Ignore, SessionsKept, Orders, Shape, MqttShape
<1>3. Outgoing(mqtt_tcp') /\ Longer(mqtt_tcp, mqtt_tcp')
  BY LongerSame DEF Ignore, Shape, MqttShape, Longer
<1>4. pub_list' \in Seq(Published) /\ ordered' \subseteq Conns
  BY DEF Ignore, Shape, MqttShape
<1> QED  BY <1>1, <1>2, <1>3, <1>4, ShapeKept DEF Shape

LEMMA ConnectStep ==
  ASSUME Shape, Connect
  PROVE  MqttShape' /\ Longer(mqtt_tcp, mqtt_tcp') /\ Begins /\ Orders
<1> DEFINE p == Current
           accepted == [NewSession(From) EXCEPT
                          !.keepalivesec = p.keep_alive_timer,
                          !.remainsec = p.keep_alive_timer,
                          !.publish_enable = MayPublish(p),
                          !.will = p.will]
           Effect == /\ Outgoing(mqtt_tcp') /\ Longer(mqtt_tcp, mqtt_tcp') /\ Orders
                     /\ mqtt_conn' \in [Addrs -> Session]
                     /\ \A a \in Addrs : mqtt_conn'[a].conn = IF a = Sender THEN From
                                                              ELSE mqtt_conn[a].conn
<1>1. /\ handled' \in [Conns -> Nat]
      /\ Sender \in Addrs /\ From \in Conns /\ AddrOf[From] = Sender
      /\ Current \in Packet
  BY TakeShape DEF Connect, Shape, MqttShape
<1>2. Current \in ConnectPacket
  BY <1>1 DEF Connect, Packet, ConnectPacket, PublishPacket, SubscribePacket,
              UnsubscribePacket, BarePacket, BareTypes
<1>3. NewSession(From) \in Session /\ NewSession(From).conn = From
  BY <1>1, NewSessionType
<1>4. Outgoing(mqtt_tcp) /\ IsList(Connack(ConnectCode(p)))
  BY OneElement DEF Shape, MqttShape, Connack
<1>5. ASSUME ConnectCode(p) = "ACCEPTED"
      PROVE  Effect
  <2>1. MayPublish(p) \in BOOLEAN
    <3>1. DOMAIN Users = {} \/ p.user \in DOMAIN Users
      BY <1>5 DEF ConnectCode
    <3> QED  BY <3>1, UsersAssumption DEF MayPublish
  <2>2. p.keep_alive_timer \in Nat /\ p.will \in Will
    BY <1>2 DEF ConnectPacket
  <2>3. accepted \in Session /\ accepted.conn = From
    <3> DEFINE n == NewSession(From)
               t == p.keep_alive_timer
               e == MayPublish(p)
               w == p.will
    <3>1. n \in Session /\ n.conn = From /\ t \in Nat /\ e \in BOOLEAN /\ w \in Will
      BY <1>3, <2>1, <2>2
    <3>2. accepted = [n EXCEPT !.keepalivesec = t, !.remainsec = t,
                               !.publish_enable = e, !.will = w]
      OBVIOUS
    <3> HIDE DEF n, t, e, w, accepted
    <3>3. accepted \in Session /\ accepted.conn = n.conn
      BY <3>1, <3>2 DEF Session
    <3> QED  BY <3>1, <3>3
  <2>4. /\ mqtt_conn' = [mqtt_conn EXCEPT ![Sender] = accepted]
        /\ Answer(Connack(ConnectCode(p)))
        /\ UNCHANGED ordered
    BY <1>5 DEF Connect
  <2>5. Outgoing(mqtt_tcp') /\ Longer(mqtt_tcp, mqtt_tcp')
    BY <1>1, <1>4, <2>4, AnswerStep
  <2>6. /\ mqtt_conn' \in [Addrs -> Session]
        /\ \A a \in Addrs : mqtt_conn'[a].conn = IF a = Sender THEN From
                                                 ELSE mqtt_conn[a].conn
    <3> HIDE DEF accepted
    <3> QED  BY <1>1, <2>3, <2>4 DEF Shape, MqttShape
  <2> QED  BY <2>4, <2>5, <2>6 DEF Connect, Orders
<1>6. ASSUME ConnectCode(p) # "ACCEPTED"
      PROVE  Effect
  <2>1. /\ mqtt_conn' = [mqtt_conn EXCEPT ![Sender] = NewSession(From)]
        /\ OrderClose(Connack(ConnectCode(p)))
        /\ ordered' = ordered \cup {From}
    BY <1>6 DEF Connect
  <2>2. /\ Outgoing(mqtt_tcp') /\ Longer(mqtt_tcp, mqtt_tcp')
        /\ HasOrder(mqtt_tcp', Sender)
    BY <1>1, <1>4, <2>1, OrderStep
  <2>3. /\ mqtt_conn' \in [Addrs -> Session]
        /\ \A a \in Addrs : mqtt_conn'[a].conn = IF a = Sender THEN From
                                                 ELSE mqtt_conn[a].conn
    BY <1>1, <1>3, <2>1 DEF Shape, MqttShape
  <2> QED  BY <2>1, <2>2, <2>3 DEF Orders
<1>7. Effect
  BY <1>5, <1>6
<1>8. Begins
  BY <1>7 DEF Connect, Begins
<1>9. MqttShape'
  <2>1. /\ mqtt_conns \in Seq(Addrs) /\ mqtt_conns' = Append(mqtt_conns, Sender)
        /\ Len(mqtt_conns) \in Nat
        /\ \A i \in 1..Len(mqtt_conns) : mqtt_conns[i] # Sender
    BY LivePlace, LenProperties DEF Connect, Shape, MqttShape
  <2>2. /\ mqtt_conns' \in Seq(Addrs) /\ Len(mqtt_conns') = Len(mqtt_conns) + 1
        /\ \A i \in 1..Len(mqtt_conns) : mqtt_conns'[i] = mqtt_conns[i]
        /\ mqtt_conns'[Len(mqtt_conns) + 1] = Sender
    BY <1>1, <2>1, AppendProperties
  <2>3. NoRepeats(mqtt_conns')
    BY <2>1, <2>2 DEF NoRepeats, Shape, MqttShape
  <2>4. Live' = Live \cup {Sender}
    <3>1. DOMAIN mqtt_conns' = 1..Len(mqtt_conns')
      BY <2>2, LenProperties
    <3>2. DOMAIN mqtt_conns = 1..Len(mqtt_conns)
      BY <2>1, LenProperties
    <3>3. ASSUME NEW a
          PROVE  a \in Live' <=> a \in Live \cup {Sender}
      BY <2>1, <2>2, <3>1, <3>2 DEF Live, ToSet
    <3> QED  BY <3>3
  <2>5. \A a \in Live' : mqtt_conn'[a].conn \in Conns /\ AddrOf[mqtt_conn'[a].conn] = a
    BY <1>1, <1>7, <2>4, LiveTyped DEF Owner, Shape, MqttShape
  <2>6. ordered' \subseteq Conns
    BY <1>1, <1>7 DEF Orders, Shape, MqttShape
  <2> QED  BY <1>1, <1>7, <2>2, <2>3, <2>5, <2>6
           DEF MqttShape, Owner, Connect, Shape
<1> QED  BY <1>7, <1>8, <1>9

\* What every handler of a session's packet has.
LEMMA InSession ==
  ASSUME Shape, HasSession
  PROVE  /\ handled' \in [Conns -> Nat] /\ QueueShape'
         /\ Sender \in Addrs /\ Sender \in Live
         /\ From \in Conns /\ AddrOf[From] = Sender
         /\ Current \in Packet
         /\ mqtt_conn \in [Addrs -> Session]
         /\ Subs \in Seq(Subscription)
         /\ Outgoing(mqtt_tcp)
<1>1. Take /\ Sender \in Live
  BY DEF HasSession
<1>2. /\ handled' \in [Conns -> Nat] /\ QueueShape'
      /\ Sender \in Addrs /\ From \in Conns /\ AddrOf[From] = Sender
      /\ Current \in Packet
  BY <1>1, TakeShape DEF Shape, MqttShape
<1>3. mqtt_conn \in [Addrs -> Session] /\ Outgoing(mqtt_tcp)
  BY DEF Shape, MqttShape
<1>4. Subs \in Seq(Subscription)
  BY <1>2, <1>3 DEF Subs, Session
<1> QED  BY <1>1, <1>2, <1>3, <1>4

\* A handler that leaves the list of sessions alone.
LEMMA SessionStep ==
  ASSUME Shape, HasSession, NEW subs \in Seq(Subscription), Heard(subs),
         UNCHANGED <<mqtt_conns, past>>,
         Longer(mqtt_tcp, mqtt_tcp'), Orders, pub_list' \in Seq(Published)
  PROVE  MqttShape' /\ SessionsKept
<1>1. SessionsKept
  BY InSession, HeardType DEF SessionsKept
<1>2. ordered' \subseteq Conns
  BY InSession DEF Orders, Shape, MqttShape
<1> QED  BY <1>1, <1>2, InSession, ShapeKept DEF Shape, Longer

Kept == MqttShape' /\ Longer(mqtt_tcp, mqtt_tcp') /\ SessionsKept /\ Orders

LEMMA ConnectAgainStep ==
  ASSUME Shape, ConnectAgain
  PROVE  Kept
<1>1. /\ HasSession /\ OrderClose(Connack("REFUSED_PROTOCOL_VERSION"))
      /\ ordered' = ordered \cup {From}
      /\ UNCHANGED <<mqtt_conns, mqtt_conn, pub_list, past>>
  BY DEF ConnectAgain
<1>2. IsList(Connack("REFUSED_PROTOCOL_VERSION"))
  BY OneElement DEF Connack
<1>3. Longer(mqtt_tcp, mqtt_tcp') /\ HasOrder(mqtt_tcp', Sender)
  BY <1>1, <1>2, InSession, OrderStep
<1>4. SessionsKept /\ Orders
  BY <1>1, <1>3 DEF SessionsKept, Orders, Shape, MqttShape
<1>5. pub_list' \in Seq(Published) /\ ordered' \subseteq Conns
  BY <1>1, InSession DEF Shape, MqttShape
<1> QED  BY <1>1, <1>3, <1>4, <1>5, InSession, ShapeKept DEF Shape, Kept, Longer

\* PublishForbidden and Disconnect
LEMMA OrderedStep ==
  ASSUME Shape, HasSession, Heard(Subs), OrderClose(<<>>), ordered' = ordered \cup {From},
         UNCHANGED <<mqtt_conns, pub_list, past>>
  PROVE  Kept
<1>1. Longer(mqtt_tcp, mqtt_tcp') /\ HasOrder(mqtt_tcp', Sender)
  BY InSession, OneElement, OrderStep
<1>2. Orders
  BY <1>1 DEF Orders
<1>3. pub_list' \in Seq(Published)
  BY DEF Shape, MqttShape
<1> QED  BY <1>1, <1>2, <1>3, InSession, SessionStep DEF Kept

\* Unsubscribe and Stateless
LEMMA AnsweredStep ==
  ASSUME Shape, HasSession, NEW subs \in Seq(Subscription), Heard(subs),
         NEW packets, IsList(packets), Answer(packets),
         UNCHANGED <<mqtt_conns, pub_list, past, ordered>>
  PROVE  Kept
<1>1. Longer(mqtt_tcp, mqtt_tcp')
  BY InSession, AnswerStep
<1>2. Orders
  BY DEF Orders
<1>3. pub_list' \in Seq(Published)
  BY DEF Shape, MqttShape
<1> QED  BY <1>1, <1>2, <1>3, SessionStep DEF Kept

LEMMA UnsubscribeStep ==
  ASSUME Shape, Unsubscribe
  PROVE  Kept
<1> DEFINE left == {i \in DOMAIN Subs : Subs[i].filter \notin ToSet(Current.filters)}
<1>1. Subs \in Seq(Subscription) /\ DOMAIN Subs = 1..Len(Subs)
  BY InSession, LenProperties DEF Unsubscribe
<1>2. left \in SUBSET (1..Len(Subs))
  BY <1>1
<1>3. Picked(Subs, left) \in Seq(Subscription)
  <2> HIDE DEF left
  <2> QED  BY <1>1, <1>2, PickedProperties
<1>4. IsList(Bare("UNSUBACK"))
  BY OneElement DEF Bare
<1>5. /\ HasSession /\ Heard(Picked(Subs, left)) /\ Answer(Bare("UNSUBACK"))
      /\ UNCHANGED <<mqtt_conns, pub_list, past, ordered>>
  BY DEF Unsubscribe
<1> HIDE DEF left
<1> QED  BY <1>3, <1>4, <1>5, AnsweredStep

LEMMA StatelessStep ==
  ASSUME Shape, Stateless
  PROVE  Kept
<1>1. IsList(Reply[Current.type])
  BY OneElement DEF Stateless, Reply, Bare
<1> QED  BY <1>1, InSession, AnsweredStep DEF Stateless

LEMMA PublishStep ==
  ASSUME Shape, Publish
  PROVE  Kept
<1> DEFINE p == Current
           retain == p.retain /\ ~p.empty
           answer == ToSender(PublishAnswer(p.qos))
           sent == PublishSend(p.topic, retain, Live)
<1>1. p \in PublishPacket
  BY InSession DEF Publish, Packet, ConnectPacket, PublishPacket, SubscribePacket,
              UnsubscribePacket, BarePacket, BareTypes
<1>2. p.topic \in Topics /\ retain \in BOOLEAN /\ p.qos \in 0..2
  BY <1>1 DEF PublishPacket
<1>3. HasSession /\ Heard(Subs) /\ UNCHANGED <<mqtt_conns, past, ordered>>
  BY DEF Publish
<1>4. pub_list' = PubAddReplace(p.topic, retain) /\ mqtt_tcp' = mqtt_tcp \o answer \o sent
  BY DEF Publish, ToSender
<1>5. IsList(PublishAnswer(p.qos))
  BY <1>2, OneElement DEF PublishAnswer, Bare
<1>6. Outgoing(mqtt_tcp) /\ Outgoing(answer) /\ Outgoing(sent)
  BY <1>3, <1>5, InSession, AnswerOutgoing, PublishOutgoing DEF Shape
<1>7. pub_list' \in Seq(Published)
  BY <1>2, <1>4, PublishedType DEF Shape, MqttShape
<1> HIDE DEF answer, sent
<1>8. Longer(mqtt_tcp, mqtt_tcp')
  <2>1. Outgoing(mqtt_tcp \o answer) /\ Longer(mqtt_tcp, mqtt_tcp \o answer)
    BY <1>6, OutgoingConcat
  <2>2. Longer(mqtt_tcp \o answer, mqtt_tcp')
    BY <1>4, <1>6, <2>1, OutgoingConcat
  <2> QED  BY <1>6, <2>1, <2>2, LongerTransitive DEF Outgoing
<1>9. Orders
  BY <1>3 DEF Orders
<1> QED  BY <1>3, <1>7, <1>8, <1>9, InSession, SessionStep DEF Kept

LEMMA SubscribeStep ==
  ASSUME Shape, Subscribe
  PROVE  Kept
<1> DEFINE new == Current.subs
           subs == SubAddReplaceAll(Subs, new)
           suback == [type |-> "SUBACK", qos |-> [i \in DOMAIN new |-> new[i].qos]]
           answered == Append(mqtt_tcp, ToSend(Sender, suback))
           sent == RetainedFor(new, subs)
<1>1. Current \in SubscribePacket
  BY InSession DEF Subscribe, Packet, ConnectPacket, PublishPacket, SubscribePacket,
              UnsubscribePacket, BarePacket, BareTypes
<1>2. new \in Seq(Subscription)
  BY <1>1 DEF SubscribePacket
<1>3. /\ HasSession /\ Heard(subs) /\ mqtt_tcp' = answered \o sent
      /\ UNCHANGED <<mqtt_conns, pub_list, past, ordered>>
  BY DEF Subscribe
<1>4. subs \in Seq(Subscription)
  BY <1>2, <1>3, InSession, SubsType
<1> HIDE DEF new, subs
<1>5. ToSend(Sender, suback).addr \in Addrs
  BY <1>3, InSession DEF ToSend
<1> HIDE DEF suback
<1>6. Outgoing(answered) /\ Longer(mqtt_tcp, answered) /\ Outgoing(mqtt_tcp)
  BY <1>3, <1>5, InSession, OutgoingAppend
<1>7. Outgoing(sent)
  BY <1>2, <1>3, InSession, RetainedOutgoing DEF Shape, IsList
<1>8. Longer(mqtt_tcp, mqtt_tcp')
  <2>1. Longer(answered, answered \o sent)
    <3> HIDE DEF answered, sent
    <3> QED  BY <1>6, <1>7, OutgoingConcat
  <2> HIDE DEF answered, sent
  <2> QED  BY <1>3, <1>6, <2>1, LongerTransitive DEF Outgoing
<1>9. Orders /\ pub_list' \in Seq(Published)
  BY <1>3 DEF Orders, Shape, MqttShape
<1> QED  BY <1>3, <1>4, <1>8, <1>9, SessionStep DEF Kept

\* The end of a message is the end of its packets: HandlePacket altogether.
LEMMA PacketStep ==
  ASSUME Shape, HandlePacket
  PROVE  /\ Take /\ QueueShape' /\ MqttShape'
         /\ Longer(mqtt_tcp, mqtt_tcp') /\ Orders
         /\ \/ Connect /\ Begins
            \/ (Sender \in Live \/ Ignore) /\ SessionsKept
<1>1. Take
  BY DEF HandlePacket, Ignore, Connect, ConnectAgain, PublishForbidden, Publish,
         Subscribe, Unsubscribe, Stateless, Disconnect, HasSession
<1>2. QueueShape'
  BY <1>1, TakeShape DEF Shape, MqttShape
<1>3. CASE Ignore
  BY <1>1, <1>2, <1>3, IgnoreStep
<1>4. CASE Connect
  <2>1. MqttShape' /\ Longer(mqtt_tcp, mqtt_tcp') /\ Begins /\ Orders
    BY <1>4, ConnectStep
  <2> QED  BY <1>1, <1>2, <1>4, <2>1
<1>5. CASE ConnectAgain
  BY <1>1, <1>2, <1>5, ConnectAgainStep DEF Kept, ConnectAgain, HasSession
<1>6. CASE PublishForbidden
  <2>1. Kept /\ Sender \in Live
    BY <1>6, OrderedStep DEF PublishForbidden, HasSession
  <2> QED  BY <1>1, <1>2, <2>1 DEF Kept
<1>7. CASE Publish
  BY <1>1, <1>2, <1>7, PublishStep DEF Kept, Publish, HasSession
<1>8. CASE Subscribe
  BY <1>1, <1>2, <1>8, SubscribeStep DEF Kept, Subscribe, HasSession
<1>9. CASE Unsubscribe
  BY <1>1, <1>2, <1>9, UnsubscribeStep DEF Kept, Unsubscribe, HasSession
<1>10. CASE Stateless
  BY <1>1, <1>2, <1>10, StatelessStep DEF Kept, Stateless, HasSession
<1>11. CASE Disconnect
  <2>1. Kept /\ Sender \in Live
    BY <1>11, OrderedStep DEF Disconnect, HasSession
  <2> QED  BY <1>1, <1>2, <2>1 DEF Kept
<1> QED  BY <1>3, <1>4, <1>5, <1>6, <1>7, <1>8, <1>9, <1>10, <1>11 DEF HandlePacket

-----------------------------------------------------------------------------
(* Removing a session from the list *)

\* A non-empty set of positions has a least one.
LEMMA LeastPosition ==
  ASSUME NEW I, I \subseteq Nat, I # {}
  PROVE  Min(I) \in I /\ \A i \in I : Min(I) =< i
<1> DEFINE Less == {p \in Nat \X Nat : p[1] < p[2]}
<1>1. IsWellFoundedOn(Less, Nat)
  BY NatLessThanWellFounded DEF OpToRel
<1>2. PICK x \in I : \A y \in I : ~(<<y, x>> \in Less)
  <2> HIDE DEF Less
  <2> QED  BY <1>1, WFMin, Zenon
<1>3. ASSUME NEW y \in I, y < x
      PROVE  <<y, x>> \in Less
  BY <1>3
<1>4. \A y \in I : x =< y
  <2>1. TAKE y \in I
  <2>2. ~(y < x)
    <3> HIDE DEF Less
    <3> QED  BY <1>2, <1>3
  <2> QED  BY <2>2
<1> QED  BY <1>4 DEF Min

PlaceIn(s, e) == SelectInSeq(s, LAMBDA v : v = e)

\* The place of an element of a list.
LEMMA PlaceOf ==
  ASSUME NEW S, NEW s \in Seq(S), NEW e
  PROVE  /\ PlaceIn(s, e) \in 0..Len(s)
         /\ PlaceIn(s, e) # 0 => s[PlaceIn(s, e)] = e
         /\ PlaceIn(s, e) = 0 => \A j \in 1..Len(s) : s[j] # e
<1> DEFINE I == {i \in 1..Len(s) : s[i] = e}
<1>0. Len(s) \in Nat /\ I \subseteq Nat
  BY LenProperties
<1>1. PlaceIn(s, e) = IF I # {} THEN Min(I) ELSE 0
  BY DEF PlaceIn, SelectInSeq
<1>2. I # {} => Min(I) \in I
  BY <1>0, LeastPosition, Zenon
<1> QED  BY <1>0, <1>1, <1>2

\* RemoveAt closes the gap.
LEMMA RemoveAtProperties ==
  ASSUME NEW S, NEW s \in Seq(S), NEW i \in 1..Len(s)
  PROVE  /\ RemoveAt(s, i) \in Seq(S)
         /\ Len(RemoveAt(s, i)) = Len(s) - 1
         /\ \A j \in 1..Len(s) - 1 :
              RemoveAt(s, i)[j] = IF j < i THEN s[j] ELSE s[j + 1]
<1> DEFINE before == SubSeq(s, 1, i - 1)
           after == SubSeq(s, i + 1, Len(s))
<1>0. Len(s) \in Nat /\ \A j \in 1..Len(s) : s[j] \in S
  BY LenProperties, ElementOfSeq
<1>1. /\ before \in Seq(S) /\ Len(before) = i - 1
      /\ \A j \in 1..i - 1 : before[j] = s[j]
  BY <1>0, SubSeqProperties
<1>2. /\ after \in Seq(S) /\ Len(after) = Len(s) - i
      /\ \A j \in 1..Len(s) - i : after[j] = s[i + j]
  BY <1>0, SubSeqProperties
<1>3. /\ before \o after \in Seq(S)
      /\ Len(before \o after) = Len(s) - 1
      /\ \A j \in 1..Len(s) - 1 :
           (before \o after)[j] = IF j =< i - 1 THEN before[j] ELSE after[j - (i - 1)]
  <2> HIDE DEF before, after
  <2>1. /\ before \o after \in Seq(S)
        /\ Len(before \o after) = Len(before) + Len(after)
        /\ \A j \in 1..Len(before) + Len(after) :
             (before \o after)[j] = IF j =< Len(before) THEN before[j]
                                    ELSE after[j - Len(before)]
    BY <1>1, <1>2, ConcatProperties, Zenon
  <2>2. Len(before) + Len(after) = Len(s) - 1
    BY <1>0, <1>1, <1>2
  <2>3. Len(before \o after) = Len(s) - 1
    BY <2>1, <2>2, Zenon
  <2>4. \A j \in 1..Len(s) - 1 :
          (before \o after)[j] = IF j =< Len(before) THEN before[j] ELSE after[j - Len(before)]
    BY <2>1, <2>2, Zenon
  <2>5. Len(before) = i - 1
    BY <1>1
  <2> QED  BY <2>1, <2>3, <2>4, <2>5, Zenon
<1>4. RemoveAt(s, i) = before \o after
  BY DEF RemoveAt
<1> HIDE DEF before, after
<1> QED  BY <1>0, <1>1, <1>2, <1>3, <1>4

\* Removing the only occurrence of an address from a list.
LEMMA RemoveFirstProperties ==
  ASSUME NEW S, NEW s \in Seq(S), NoRepeats(s), NEW p \in 1..Len(s)
  PROVE  /\ RemoveFirst(s, s[p]) \in Seq(S)
         /\ Len(RemoveFirst(s, s[p])) = Len(s) - 1
         /\ \A j \in 1..Len(s) - 1 :
              RemoveFirst(s, s[p])[j] = IF j < p THEN s[j] ELSE s[j + 1]
<1>1. /\ PlaceIn(s, s[p]) \in 0..Len(s) /\ Len(s) \in Nat
      /\ PlaceIn(s, s[p]) # 0 => s[PlaceIn(s, s[p])] = s[p]
      /\ PlaceIn(s, s[p]) = 0 => \A j \in 1..Len(s) : s[j] # s[p]
  BY PlaceOf, LenProperties
<1>2. PlaceIn(s, s[p]) = p
  BY <1>1 DEF NoRepeats
<1>3. RemoveFirst(s, s[p]) = RemoveAt(s, p)
  BY <1>2 DEF RemoveFirst, PlaceIn
<1> QED  BY <1>3, RemoveAtProperties

LEMMA RemovedNoRepeats ==
  ASSUME NEW S, NEW s \in Seq(S), NoRepeats(s), NEW p \in 1..Len(s)
  PROVE  /\ NoRepeats(RemoveFirst(s, s[p]))
         /\ \A i \in 1..Len(RemoveFirst(s, s[p])) :
              RemoveFirst(s, s[p])[i] # s[p] /\ \E j \in 1..Len(s) : RemoveFirst(s, s[p])[i] = s[j]
<1> DEFINE r == RemoveFirst(s, s[p])
           old(i) == IF i < p THEN i ELSE i + 1
<1>1. /\ Len(s) \in Nat /\ Len(r) = Len(s) - 1
      /\ \A j \in 1..Len(s) - 1 : r[j] = IF j < p THEN s[j] ELSE s[j + 1]
  BY RemoveFirstProperties, LenProperties
<1> HIDE DEF r
<1>2. \A i \in 1..Len(r) : old(i) \in 1..Len(s) /\ old(i) # p /\ r[i] = s[old(i)]
  BY <1>1
<1>3. \A i, j \in 1..Len(r) : old(i) = old(j) => i = j
  BY <1>1
<1> HIDE DEF old
<1> QED  BY <1>2, <1>3 DEF NoRepeats, r

LEMMA RemovedElements ==
  ASSUME NEW S, NEW s \in Seq(S), NoRepeats(s), NEW p \in 1..Len(s)
  PROVE  /\ RemoveFirst(s, s[p]) \in Seq(S) /\ NoRepeats(RemoveFirst(s, s[p]))
         /\ ToSet(RemoveFirst(s, s[p])) = ToSet(s) \ {s[p]}
<1> DEFINE r == RemoveFirst(s, s[p])
<1>1. /\ r \in Seq(S) /\ Len(r) = Len(s) - 1 /\ Len(s) \in Nat
      /\ \A j \in 1..Len(s) - 1 : r[j] = IF j < p THEN s[j] ELSE s[j + 1]
  BY RemoveFirstProperties, LenProperties
<1>2. /\ NoRepeats(r)
      /\ \A i \in 1..Len(r) : r[i] # s[p] /\ \E j \in 1..Len(s) : r[i] = s[j]
  BY RemovedNoRepeats
<1>3. DOMAIN r = 1..Len(r) /\ DOMAIN s = 1..Len(s)
  BY <1>1, LenProperties
<1> HIDE DEF r
<1>4. ASSUME NEW j \in 1..Len(s), s[j] # s[p]
      PROVE  \E i \in 1..Len(r) : r[i] = s[j]
  <2>1. CASE j < p
    <3>1. j \in 1..Len(s) - 1
      BY <1>1, <2>1
    <3> QED  BY <1>1, <2>1, <3>1
  <2>2. CASE j > p
    <3>1. j - 1 \in 1..Len(s) - 1 /\ ~(j - 1 < p) /\ (j - 1) + 1 = j
      BY <1>1, <2>2
    <3> QED  BY <1>1, <3>1
  <2> QED  BY <1>4, <2>1, <2>2
<1>5. ASSUME NEW x
      PROVE  x \in ToSet(r) <=> x \in ToSet(s) \ {s[p]}
  <2>1. x \in ToSet(r) <=> \E i \in 1..Len(r) : r[i] = x
    BY <1>3 DEF ToSet
  <2>2. x \in ToSet(s) <=> \E j \in 1..Len(s) : s[j] = x
    BY <1>3 DEF ToSet
  <2> QED  BY <1>2, <1>4, <2>1, <2>2
<1> QED  BY <1>1, <1>2, <1>5 DEF r

\* A session ends, and is in the past.
Ends(a) ==
  /\ a \in Live
  /\ Live' = Live \ {a}
  /\ past' = past \cup {Owner(a)}
  /\ mqtt_conn' \in [Addrs -> Session]
  /\ \A b \in Addrs \ {a} : mqtt_conn'[b].conn = mqtt_conn[b].conn

LEMMA WillStep ==
  ASSUME MqttShape, NEW a \in Addrs, EndSession(a)
  PROVE  Longer(mqtt_tcp, mqtt_tcp') /\ pub_list' \in Seq(Published)
<1> DEFINE will == mqtt_conn[a].will
<1>1. will \in Will /\ Outgoing(mqtt_tcp) /\ pub_list \in Seq(Published)
  BY DEF MqttShape, Session
<1>2. CASE will = NoWill
  <2>1. UNCHANGED <<pub_list, mqtt_tcp>>
    BY <1>2 DEF EndSession
  <2> QED  BY <1>1, <2>1, LongerSame
<1>3. CASE will # NoWill
  <2>1. /\ pub_list' = PubAddReplace(will.topic, will.retain)
        /\ mqtt_tcp' = mqtt_tcp \o PublishSend(will.topic, will.retain, WillTo(a))
    BY <1>3 DEF EndSession
  <2>2. will.topic \in Topics /\ will.retain \in BOOLEAN
    BY <1>1, <1>3 DEF Will
  <2>3. Outgoing(PublishSend(will.topic, will.retain, WillTo(a)))
    BY PublishOutgoing
  <2> QED  BY <1>1, <2>1, <2>2, <2>3, OutgoingConcat, PublishedType
<1> QED  BY <1>2, <1>3

LEMMA EndStep ==
  ASSUME MqttShape, NEW a \in Live, EndSession(a), UNCHANGED <<handled, ordered>>
  PROVE  MqttShape' /\ Ends(a)
<1>1. PICK p \in 1..Len(mqtt_conns) : mqtt_conns[p] = a
  BY LivePlace
<1>2. a \in Addrs /\ Owner(a) \in Conns
  BY LiveTyped DEF MqttShape
<1>3. mqtt_conns \in Seq(Addrs) /\ NoRepeats(mqtt_conns)
  BY DEF MqttShape
<1>4. /\ mqtt_conns' = RemoveFirst(mqtt_conns, mqtt_conns[p])
      /\ mqtt_conn' = [mqtt_conn EXCEPT ![a] = NoSession]
      /\ past' = past \cup {mqtt_conn[a].conn}
  BY <1>1 DEF EndSession
<1>5. /\ mqtt_conns' \in Seq(Addrs) /\ NoRepeats(mqtt_conns')
      /\ Live' = Live \ {a}
  BY <1>1, <1>3, <1>4, RemovedElements DEF Live
<1>6. NoSession \in Session
  BY NewSessionType DEF NoSession
<1>7. /\ mqtt_conn' \in [Addrs -> Session]
      /\ \A b \in Addrs \ {a} : mqtt_conn'[b] = mqtt_conn[b]
  BY <1>2, <1>4, <1>6 DEF MqttShape
<1>8. Ends(a)
  BY <1>4, <1>5, <1>7 DEF Ends, Owner
<1>9. MqttShape'
  <2>1. Outgoing(mqtt_tcp') /\ pub_list' \in Seq(Published)
    BY <1>2, WillStep DEF Longer
  <2>2. \A b \in Live' : mqtt_conn'[b].conn \in Conns /\ AddrOf[mqtt_conn'[b].conn] = b
    BY <1>5, <1>7, LiveTyped DEF MqttShape, Owner
  <2> QED  BY <1>2, <1>4, <1>5, <1>7, <2>1, <2>2 DEF MqttShape, Owner
<1> QED  BY <1>8, <1>9

LEMMA NoticeStep ==
  ASSUME Shape, HandleNotice
  PROVE  /\ QueueShape' /\ MqttShape'
         /\ Longer(mqtt_tcp, mqtt_tcp') /\ UNCHANGED ordered
         /\ tcp_mqtt # <<>> /\ First.close /\ tcp_mqtt' = Tail(tcp_mqtt)
         /\ Sender \in Addrs
         /\ IF Sender \in Live THEN Ends(Sender) ELSE SessionsKept
<1>1. /\ tcp_mqtt # <<>> /\ First.close /\ tcp_mqtt' = Tail(tcp_mqtt)
      /\ UNCHANGED <<proc, handled, ordered>>
  BY DEF HandleNotice, HasFirst
<1>2. Sender \in Addrs
  BY <1>1, FirstTyped DEF Shape
<1>3. QueueShape'
  <2>1. proc = 0
    BY <1>1 DEF Shape, QueueShape, HasFirst
  <2> QED  BY <1>1, <2>1, QueueTail DEF Shape
<1>4. CASE Sender \in Live
  <2>1. EndSession(Sender)
    BY <1>4 DEF HandleNotice
  <2>2. Longer(mqtt_tcp, mqtt_tcp')
    BY <1>2, <2>1, WillStep DEF Shape
  <2>3. MqttShape' /\ Ends(Sender)
    BY <1>1, <1>4, <2>1, EndStep DEF Shape
  <2> QED  BY <1>1, <1>2, <1>3, <1>4, <2>2, <2>3
<1>5. CASE Sender \notin Live
  <2>1. UNCHANGED <<pub_list, mqtt_tcp, mqtt_conns, mqtt_conn, past>>
    BY <1>5 DEF HandleNotice
  <2>2. SessionsKept /\ Outgoing(mqtt_tcp)
    BY <2>1 DEF SessionsKept, Shape, MqttShape
  <2>3. Longer(mqtt_tcp, mqtt_tcp')
    BY <2>1, <2>2, LongerSame
  <2>4. MqttShape'
    BY <1>1, <2>1, <2>2, ShapeKept DEF Shape, MqttShape
  <2> QED  BY <1>1, <1>2, <1>3, <1>5, <2>2, <2>3, <2>4
<1> QED  BY <1>4, <1>5

LEMMA TimerStep ==
  ASSUME Shape, Timer
  PROVE  /\ MqttShape' /\ SessionsKept /\ Longer(mqtt_tcp, mqtt_tcp')
         /\ UNCHANGED <<tcp_mqtt, proc>>
         /\ \A k \in ordered' : k \in ordered \/
              \E a \in Live : k = Owner(a) /\ HasOrder(mqtt_tcp', a)
<1> DEFINE late == {i \in DOMAIN mqtt_conns : Expired(mqtt_conns[i])}
           addrs == Picked(mqtt_conns, late)
           orders == [n \in DOMAIN addrs |-> Order(addrs[n])]
<1>1. /\ mqtt_tcp' = mqtt_tcp \o orders
      /\ mqtt_conn' = [a \in Addrs |-> CountedDown(a)]
      /\ ordered' = ordered \cup {mqtt_conn[mqtt_conns[i]].conn : i \in late}
      /\ UNCHANGED <<mqtt_conns, pub_list, proc, handled, past, tcp_mqtt>>
  BY DEF Timer
<1>2. /\ mqtt_conns \in Seq(Addrs) /\ DOMAIN mqtt_conns = 1..Len(mqtt_conns)
      /\ Outgoing(mqtt_tcp) /\ mqtt_conn \in [Addrs -> Session]
  BY LenProperties DEF Shape, MqttShape
<1>3. late \in SUBSET (1..Len(mqtt_conns))
  BY <1>2
<1> HIDE DEF late
<1>4. /\ addrs \in Seq(Addrs)
      /\ Len(addrs) = Cardinality(late)
      /\ \A i \in late : \E n \in 1..Cardinality(late) : addrs[n] = mqtt_conns[i]
  BY <1>2, <1>3, PickedProperties
<1> HIDE DEF addrs
<1>5. /\ Len(addrs) \in Nat /\ DOMAIN addrs = 1..Len(addrs)
      /\ \A n \in 1..Len(addrs) : addrs[n] \in Addrs
  BY <1>4, LenProperties, ElementOfSeq
<1>6. \A n \in 1..Len(addrs) : orders[n] = Order(addrs[n]) /\ orders[n].addr \in Addrs
  BY <1>5 DEF Order
<1>7. orders = [n \in 1..Len(addrs) |-> orders[n]]
  BY <1>5
<1> HIDE DEF orders
<1>8. IsList(orders) /\ Len(orders) = Len(addrs)
  BY <1>5, <1>7, ListMade
<1>9. Outgoing(orders)
  BY <1>6, <1>8 DEF Outgoing
<1>10. Longer(mqtt_tcp, mqtt_tcp')
  BY <1>1, <1>2, <1>9, OutgoingConcat
<1>11. SessionsKept
  <2>1. ASSUME NEW a \in Addrs
        PROVE  CountedDown(a) \in Session /\ CountedDown(a).conn = mqtt_conn[a].conn
    <3>1. mqtt_conn[a] \in Session
      BY <1>2
    <3>2. CASE a \in Live /\ mqtt_conn[a].keepalivesec # 0 /\ mqtt_conn[a].remainsec # 0
      BY <3>1, <3>2 DEF CountedDown, Session
    <3>3. CASE ~(a \in Live /\ mqtt_conn[a].keepalivesec # 0 /\ mqtt_conn[a].remainsec # 0)
      BY <3>1, <3>3 DEF CountedDown
    <3> QED  BY <3>2, <3>3
  <2> QED  BY <1>1, <2>1 DEF SessionsKept
<1>12. ASSUME NEW i \in late
       PROVE  /\ mqtt_conns[i] \in Live /\ Owner(mqtt_conns[i]) \in Conns
              /\ HasOrder(mqtt_tcp', mqtt_conns[i])
  <2>1. mqtt_conns[i] \in Live
    BY <1>3, LivePlace DEF Shape
  <2>2. PICK n \in 1..Len(addrs) : addrs[n] = mqtt_conns[i]
    BY <1>4
  <2>3. /\ Len(mqtt_tcp') = Len(mqtt_tcp) + Len(orders)
        /\ \A j \in 1..Len(orders) : mqtt_tcp'[Len(mqtt_tcp) + j] = orders[j]
        /\ Len(mqtt_tcp) \in Nat /\ Len(orders) \in Nat
    BY <1>1, <1>2, <1>9, OutgoingConcat
  <2>4. mqtt_tcp'[Len(mqtt_tcp) + n] = Order(mqtt_conns[i])
    BY <1>6, <1>8, <2>2, <2>3
  <2>5. Len(mqtt_tcp) + n \in 1..Len(mqtt_tcp')
    BY <1>8, <2>3
  <2> QED  BY <2>1, <2>4, <2>5 DEF HasOrder, Shape, MqttShape
<1>13. \A k \in ordered' : k \in ordered \/
         \E a \in Live : k = Owner(a) /\ k \in Conns /\ HasOrder(mqtt_tcp', a)
  BY <1>1, <1>12 DEF Owner
<1>14. ordered' \subseteq Conns
  BY <1>13 DEF Shape, MqttShape
<1>15. MqttShape'
  BY <1>1, <1>10, <1>11, <1>14, ShapeKept DEF Shape, MqttShape, Longer
<1> QED  BY <1>1, <1>10, <1>11, <1>13, <1>15

-----------------------------------------------------------------------------
(* The steps of the tcp thread, as far as connections are concerned *)

Opens(k) ==
  /\ sock[k] = "new"
  /\ OpenAt(AddrOf[k]) = {}
  /\ sock' = [sock EXCEPT ![k] = "open"]
  /\ UNCHANGED queues

Closes(k) ==
  /\ sock[k] = "open"
  /\ sock' = [sock EXCEPT ![k] = "closed"]
  /\ tcp_mqtt' = Append(tcp_mqtt, Notice(AddrOf[k], k))

Passes(k) ==
  /\ sock[k] = "open"
  /\ UNCHANGED <<sock, mqtt_tcp>>
  /\ \E packets \in Seq(Packet) :
       packets # <<>> /\ tcp_mqtt' = Append(tcp_mqtt, Received(k, packets))

\* An order, or a packet, without a connection to serve.
Misses(a) ==
  /\ OpenAt(a) = {}
  /\ UNCHANGED sock
  /\ tcp_mqtt' = Append(tcp_mqtt, Notice(a, NoConn))

\* The message served, and what becomes of an order to close.
Served ==
  /\ mqtt_tcp # <<>>
  /\ mqtt_tcp' = Tail(mqtt_tcp)

LEMMA TailOutgoing ==
  ASSUME Outgoing(mqtt_tcp), Served
  PROVE  /\ Outgoing(mqtt_tcp') /\ Head(mqtt_tcp) = mqtt_tcp[1]
         /\ mqtt_tcp[1].addr \in Addrs
         /\ Len(mqtt_tcp) \in Nat /\ Len(mqtt_tcp') = Len(mqtt_tcp) - 1
         /\ \A i \in 1..Len(mqtt_tcp) - 1 : mqtt_tcp'[i] = mqtt_tcp[i + 1]
<1>1. /\ IsList(mqtt_tcp) /\ Len(mqtt_tcp) \in Nat
      /\ \A i \in 1..Len(mqtt_tcp) : mqtt_tcp[i].addr \in Addrs
  BY ListProperties DEF Outgoing
<1>2. /\ IsList(mqtt_tcp') /\ Head(mqtt_tcp) = mqtt_tcp[1] /\ Len(mqtt_tcp) > 0
      /\ Len(mqtt_tcp') = Len(mqtt_tcp) - 1
      /\ \A i \in 1..Len(mqtt_tcp) - 1 : mqtt_tcp'[i] = mqtt_tcp[i + 1]
  BY <1>1, ListTail DEF Served
<1>3. \A i \in 1..Len(mqtt_tcp') : mqtt_tcp'[i].addr \in Addrs
  BY <1>1, <1>2
<1> QED  BY <1>1, <1>2, <1>3 DEF Outgoing

LEMMA Halves ==
  ASSUME NEW n \in Nat, Whole(n)
  PROVE  n \div 2 \in Nat /\ 2 * (n \div 2) = n
BY DEF Whole

\* The packets of k from the first not passed on to the m-th.
NewPackets(k, m) == SubSeq(script[k], passed[k] + 1, m)

LEMMA PassedPackets ==
  ASSUME TcpShape, NEW k \in Conns, NEW m \in Nat,
         2 * m =< 2 * Len(script[k]), recvd[k] < 2 * m
  PROVE  NewPackets(k, m) \in Seq(Packet) /\ NewPackets(k, m) # <<>>
<1>1. /\ recvd[k] \in Nat /\ passed[k] \in Nat /\ 2 * passed[k] =< recvd[k]
      /\ script[k] \in Seq(Packet) /\ Len(script[k]) \in Nat
  BY LenProperties DEF TcpShape
<1>2. passed[k] + 1 =< m /\ m =< Len(script[k])
  BY <1>1
<1>3. \A i \in passed[k] + 1..m : script[k][i] \in Packet
  BY <1>1, <1>2, ElementOfSeq
<1>4. /\ NewPackets(k, m) \in Seq(Packet)
      /\ Len(NewPackets(k, m)) = m - (passed[k] + 1) + 1
  BY <1>1, <1>2, <1>3, SubSeqProperties DEF NewPackets
<1>5. Len(NewPackets(k, m)) # 0
  BY <1>1, <1>2, <1>4
<1> QED  BY <1>4, <1>5, EmptySeq

LEMMA ReceivedType ==
  ASSUME NEW k \in Conns, NEW packets \in Seq(Packet), packets # <<>>
  PROVE  Received(k, packets) \in Message /\ Proper(Received(k, packets))
BY ConnsAssumption DEF Received, Message, Proper

LEMMA RecvStep ==
  ASSUME TcpShape, NEW k \in Conns, NEW n \in Sizes, Recv(k, n)
  PROVE  /\ TcpShape'
         /\ UNCHANGED mqtt_tcp
         /\ Closes(k) \/ Passes(k) \/ UNCHANGED <<sock, tcp_mqtt>>
<1>1. /\ sock[k] = "open" /\ recvd[k] + n =< 2 * Len(script[k])
      /\ UNCHANGED <<script, mqtt_tcp>>
  BY DEF Recv
<1>2. n \in Nat /\ n > 0 /\ recvd[k] \in Nat /\ passed[k] \in Nat
  BY BufAssumption DEF TcpShape
<1>3. CASE recv_cnt(k) + n > MaxBuf /\ CloseConn(k) /\ UNCHANGED <<recvd, passed>>
  <2>1. Closes(k)
    BY <1>1, <1>3 DEF CloseConn, Closes
  <2>2. TcpShape'
    BY <1>1, <1>3 DEF CloseConn, TcpShape
  <2> QED  BY <1>1, <2>1, <2>2
<1>4. CASE /\ recvd' = [recvd EXCEPT ![k] = @ + n]
           /\ Whole(recvd'[k])
           /\ PassOn(k, recvd'[k] \div 2)
           /\ UNCHANGED sock
  <2> DEFINE m == (recvd[k] + n) \div 2
  <2>1. recvd'[k] = recvd[k] + n
    BY <1>4 DEF TcpShape
  <2>2. m \in Nat /\ 2 * m = recvd[k] + n
    BY <1>2, <1>4, <2>1, Halves
  <2>3. /\ tcp_mqtt' = Append(tcp_mqtt, Received(k, NewPackets(k, m)))
        /\ passed' = [passed EXCEPT ![k] = m]
    BY <1>4, <2>1 DEF PassOn, NewPackets
  <2> HIDE DEF m
  <2>4. NewPackets(k, m) \in Seq(Packet) /\ NewPackets(k, m) # <<>>
    <3>1. 2 * m =< 2 * Len(script[k]) /\ recvd[k] < 2 * m
      BY <1>1, <1>2, <2>2
    <3> QED  BY <2>2, <3>1, PassedPackets
  <2>5. Passes(k)
    BY <1>1, <1>4, <2>3, <2>4 DEF Passes
  <2>6. TcpShape'
    BY <1>1, <1>2, <1>4, <2>2, <2>3, SMTT(30) DEF TcpShape
  <2> QED  BY <1>1, <2>5, <2>6
<1>5. CASE recvd' = [recvd EXCEPT ![k] = @ + n] /\ UNCHANGED <<tcp_mqtt, passed, sock>>
  <2>1. TcpShape'
    BY <1>1, <1>2, <1>5 DEF TcpShape
  <2> QED  BY <1>1, <1>5, <2>1
<1> QED  BY <1>3, <1>4, <1>5 DEF Recv

LEMMA QueueNotice ==
  ASSUME QueueShape, NEW a \in Addrs, NEW k \in Conns \cup {NoConn},
         tcp_mqtt' = Append(tcp_mqtt, Notice(a, k)), UNCHANGED proc
  PROVE  QueueShape'
<1>1. Notice(a, k) \in Message /\ Proper(Notice(a, k))
  BY NoticeType
<1> QED  BY <1>1, QueueAppended

\* The mqtt thread's own part of the state during a step of the tcp thread.
LEMMA MqttShapeApart ==
  ASSUME MqttShape, UNCHANGED mqtt_vars, Outgoing(mqtt_tcp')
  PROVE  MqttShape'
<1>1. SessionsKept /\ pub_list' \in Seq(Published) /\ handled' \in [Conns -> Nat]
      /\ ordered' \subseteq Conns
  BY DEF mqtt_vars, SessionsKept, MqttShape
<1> QED  BY <1>1, ShapeKept

TcpEffect ==
  \/ \E k \in Conns : Opens(k)
  \/ \E k \in Conns :
       /\ Closes(k)
       /\ UNCHANGED mqtt_tcp \/ (Served /\ k \in OpenAt(Head(mqtt_tcp).addr))
  \/ \E k \in Conns : Passes(k)
  \/ Served /\ Head(mqtt_tcp).addr \in Addrs /\ Misses(Head(mqtt_tcp).addr)
  \/ /\ UNCHANGED <<sock, tcp_mqtt>>
     /\ UNCHANGED mqtt_tcp \/ (Served /\ ~Head(mqtt_tcp).close)

LEMMA TcpEffects ==
  ASSUME Shape, TcpNext
  PROVE  TcpShape' /\ Outgoing(mqtt_tcp') /\ TcpEffect
<1>0. TcpShape /\ Outgoing(mqtt_tcp)
  BY DEF Shape, MqttShape
<1>1. ASSUME NEW k \in Conns, Accept(k)
      PROVE  TcpShape' /\ Outgoing(mqtt_tcp') /\ TcpEffect
  <2>1. Opens(k)
    BY <1>1 DEF Accept, Opens
  <2>2. PICK s \in Scripts[k] : script' = [script EXCEPT ![k] = s]
    BY <1>1 DEF Accept
  <2>3. s \in Seq(Packet)
    BY ScriptsAssumption
  <2>4. TcpShape'
    BY <1>0, <1>1, <2>2, <2>3 DEF Accept, TcpShape
  <2> QED  BY <1>0, <2>1, <2>4 DEF TcpEffect, Opens, queues
<1>2. ASSUME NEW k \in Conns, RecvEnd(k)
      PROVE  TcpShape' /\ Outgoing(mqtt_tcp') /\ TcpEffect
  <2>1. Closes(k) /\ UNCHANGED mqtt_tcp
    BY <1>2 DEF RecvEnd, CloseConn, Closes
  <2>2. TcpShape'
    BY <1>0, <1>2 DEF RecvEnd, CloseConn, TcpShape
  <2>3. TcpEffect
    BY <2>1 DEF TcpEffect
  <2>4. Outgoing(mqtt_tcp')
    BY <1>0, <2>1
  <2> QED  BY <2>2, <2>3, <2>4
<1>3. ASSUME NEW k \in Conns, NEW n \in Sizes, Recv(k, n)
      PROVE  TcpShape' /\ Outgoing(mqtt_tcp') /\ TcpEffect
  <2>1. /\ TcpShape' /\ UNCHANGED mqtt_tcp
        /\ Closes(k) \/ Passes(k) \/ UNCHANGED <<sock, tcp_mqtt>>
    BY <1>0, <1>3, RecvStep
  <2>2. TcpEffect
    BY <2>1 DEF TcpEffect
  <2>3. Outgoing(mqtt_tcp')
    BY <1>0, <2>1
  <2> QED  BY <2>1, <2>2, <2>3
<1>4. ASSUME Serve
      PROVE  TcpShape' /\ Outgoing(mqtt_tcp') /\ TcpEffect
  <2> DEFINE m == Head(mqtt_tcp)
  <2>1. Served /\ UNCHANGED <<script, recvd, passed>>
    BY <1>4 DEF Serve, Served
  <2>2. Outgoing(mqtt_tcp') /\ m.addr \in Addrs
    BY <1>0, <2>1, TailOutgoing
  <2>3. CASE \E k \in OpenAt(m.addr) : CloseConn(k)
    <3>1. PICK k \in OpenAt(m.addr) : CloseConn(k)
      BY <2>3
    <3>2. Closes(k) /\ k \in Conns
      BY <3>1 DEF OpenAt, CloseConn, Closes
    <3>3. TcpShape'
      BY <1>0, <2>1, <3>1, <3>2 DEF CloseConn, TcpShape
    <3> QED  BY <2>1, <2>2, <3>1, <3>2, <3>3 DEF TcpEffect
  <2>4. CASE ~m.close /\ UNCHANGED <<sock, tcp_mqtt>>
    <3>1. TcpShape'
      BY <1>0, <2>1, <2>4 DEF TcpShape
    <3> QED  BY <2>1, <2>2, <2>4, <3>1 DEF TcpEffect
  <2>5. CASE OpenAt(m.addr) = {} /\ UNCHANGED sock
             /\ tcp_mqtt' = Append(tcp_mqtt, Notice(m.addr, NoConn))
    <3>1. TcpShape' /\ Misses(m.addr)
      BY <1>0, <2>1, <2>5 DEF TcpShape, Misses
    <3> QED  BY <2>1, <2>2, <3>1 DEF TcpEffect
  <2> QED  BY <1>4, <2>3, <2>4, <2>5 DEF Serve
<1> QED  BY <1>1, <1>2, <1>3, <1>4 DEF TcpNext

LEMMA TcpStep ==
  ASSUME Shape, TcpNext, UNCHANGED mqtt_vars
  PROVE  Shape' /\ TcpEffect
<1>1. TcpShape' /\ Outgoing(mqtt_tcp') /\ TcpEffect
  BY TcpEffects
<1>2. MqttShape'
  BY <1>1, MqttShapeApart DEF Shape
<1>3. QueueShape /\ UNCHANGED proc
  BY DEF Shape, mqtt_vars
<1>4. ASSUME UNCHANGED tcp_mqtt
      PROVE  QueueShape'
  BY <1>3, <1>4 DEF QueueShape, HasFirst, First
<1>5. ASSUME NEW k \in Conns, Closes(k)
      PROVE  QueueShape'
  <2>1. AddrOf[k] \in Addrs
    BY ConnsAssumption
  <2> QED  BY <1>3, <1>5, <2>1, QueueNotice DEF Closes
<1>6. ASSUME NEW k \in Conns, Passes(k)
      PROVE  QueueShape'
  <2>1. PICK packets \in Seq(Packet) :
          packets # <<>> /\ tcp_mqtt' = Append(tcp_mqtt, Received(k, packets))
    BY <1>6 DEF Passes
  <2>2. Received(k, packets) \in Message /\ Proper(Received(k, packets))
    BY <2>1, ReceivedType
  <2> QED  BY <1>3, <2>1, <2>2, QueueAppended
<1>7. ASSUME NEW a \in Addrs, Misses(a)
      PROVE  QueueShape'
  BY <1>3, <1>7, QueueNotice DEF Misses
<1>8. QueueShape'
  BY <1>1, <1>4, <1>5, <1>6, <1>7 DEF TcpEffect, Opens, queues
<1> QED  BY <1>1, <1>2, <1>8 DEF Shape

-----------------------------------------------------------------------------
(* Type correctness *)

LEMMA InitShape ==
  ASSUME Init
  PROVE  Shape
<1>1. QueueShape
  BY EmptySeq DEF Init, MqttInit, QueueShape, HasFirst
<1>2. TcpShape
  <2>1. <<>> \in Seq(Packet)
    BY EmptySeq
  <2> QED  BY <2>1 DEF Init, TcpInit, TcpShape
<1>3. MqttShape
  <2>1. Outgoing(mqtt_tcp)
    <3>1. <<>> \in Seq({}) /\ Len(<<>>) = 0
      BY EmptySeq
    <3> QED  BY <3>1 DEF Init, Outgoing, IsList
  <2>2. NoSession \in Session
    BY NewSessionType DEF NoSession
  <2>3. Live = {} /\ NoRepeats(mqtt_conns)
    BY EmptySeq DEF Init, MqttInit, Live, ToSet, NoRepeats
  <2>4. <<>> \in Seq(Addrs) /\ <<>> \in Seq(Published)
    BY EmptySeq
  <2> QED  BY <2>1, <2>2, <2>3, <2>4 DEF Init, MqttInit, MqttShape
<1> QED  BY <1>1, <1>2, <1>3 DEF Shape

LEMMA NextShape ==
  ASSUME Shape, [Next]_vars
  PROVE  Shape'
<1>1. CASE TcpNext /\ UNCHANGED mqtt_vars
  BY <1>1, TcpStep
<1>2. CASE MqttNext /\ UNCHANGED tcp_vars
  <2>1. TcpShape'
    BY <1>2 DEF tcp_vars, Shape, TcpShape
  <2>2. CASE HandleNotice
    BY <2>1, <2>2, NoticeStep DEF Shape
  <2>3. CASE HandlePacket
    BY <2>1, <2>3, PacketStep DEF Shape
  <2>4. CASE Timer
    <3>1. MqttShape' /\ UNCHANGED <<tcp_mqtt, proc>>
      BY <2>4, TimerStep
    <3>2. QueueShape'
      BY <3>1 DEF Shape, QueueShape, HasFirst, First
    <3> QED  BY <2>1, <3>1, <3>2 DEF Shape
  <2> QED  BY <1>2, <2>2, <2>3, <2>4 DEF MqttNext
<1>3. CASE UNCHANGED vars
  <2>1. QueueShape'
    BY <1>3 DEF vars, queues, mqtt_vars, Shape, QueueShape, HasFirst, First
  <2>2. TcpShape'
    BY <1>3 DEF vars, tcp_vars, Shape, TcpShape
  <2>3. MqttShape'
    BY <1>3, MqttShapeApart DEF vars, queues, Shape, MqttShape
  <2> QED  BY <2>1, <2>2, <2>3 DEF Shape
<1> QED  BY <1>1, <1>2, <1>3 DEF Next

\* The variables of the two threads keep their types, and mqtt_tcp names
\* addresses only: what the handlers store and send is well formed.
THEOREM TypeCorrect == Spec => []TypeOK
<1>1. Init => Shape
  BY InitShape
<1>2. Shape /\ [Next]_vars => Shape'
  BY NextShape
<1>3. Shape => TypeOK
  BY ShapeTypes
<1> QED  BY <1>1, <1>2, <1>3, PTL DEF Spec

-----------------------------------------------------------------------------
(* The order of packets and notices in a queue q, when sock is s *)

\* The packets of connection k, and the notices for address a, in q.
Pkt(q, i, k) == i \in 1..Len(q) /\ ~q[i].close /\ q[i].conn = k
Note(q, i, a) == i \in 1..Len(q) /\ q[i].close /\ q[i].addr = a

OneOpen(s) ==
  \A j, k \in Conns :
    s[j] = "open" /\ s[k] = "open" /\ AddrOf[j] = AddrOf[k] => j = k

Opened(q, s) == \A i \in Nat, k \in Conns : Pkt(q, i, k) => s[k] # "new"

\* Packets of two connections from one address have a notice between them.
Separated(q) ==
  \A i, j \in Nat, k, l \in Conns :
    Pkt(q, i, k) /\ Pkt(q, j, l) /\ i < j /\ k # l /\ AddrOf[k] = AddrOf[l]
      => \E n \in Nat : i < n /\ n < j /\ Note(q, n, AddrOf[k])

\* The packets of one connection have none.
Unbroken(q) ==
  \A i, n, j \in Nat, k \in Conns :
    ~(Pkt(q, i, k) /\ Note(q, n, AddrOf[k]) /\ Pkt(q, j, k) /\ i < n /\ n < j)

\* Behind the packets of a closed connection comes its notice, and until there
\* nothing of another connection from the address.
Closing(q, s) ==
  \A i \in Nat, k \in Conns :
    s[k] = "closed" /\ Pkt(q, i, k) =>
      \E n \in Nat :
        /\ i < n /\ Note(q, n, AddrOf[k])
        /\ \A j \in Nat, l \in Conns :
             i =< j /\ j < n /\ Pkt(q, j, l) /\ AddrOf[l] = AddrOf[k] => l = k

\* The notices of older connections are ahead of the packets of an open one.
Fresh(q, s) ==
  \A n, i \in Nat, k \in Conns :
    s[k] = "open" /\ Note(q, n, AddrOf[k]) /\ Pkt(q, i, k) => n < i

QueueInv(q, s) ==
  OneOpen(s) /\ Opened(q, s) /\ Separated(q) /\ Unbroken(q) /\ Closing(q, s) /\ Fresh(q, s)

\* How the views of a queue change.
NoteAdded(q, r, a) ==
  \E e \in Nat :
    /\ \A i \in Nat, k \in Conns : Pkt(q, i, k) => i < e
    /\ \A i \in Nat, b \in Addrs : Note(q, i, b) => i < e
    /\ \A i \in Nat, k \in Conns : Pkt(r, i, k) <=> Pkt(q, i, k)
    /\ \A i \in Nat, b \in Addrs : Note(r, i, b) <=> Note(q, i, b) \/ (i = e /\ b = a)

PktAdded(q, r, k) ==
  \E e \in Nat :
    /\ \A i \in Nat, l \in Conns : Pkt(q, i, l) => i < e
    /\ \A i \in Nat, b \in Addrs : Note(q, i, b) => i < e
    /\ \A i \in Nat, l \in Conns : Pkt(r, i, l) <=> Pkt(q, i, l) \/ (i = e /\ l = k)
    /\ \A i \in Nat, b \in Addrs : Note(r, i, b) <=> Note(q, i, b)

FirstGone(q, r) ==
  /\ \A i \in Nat, k \in Conns : Pkt(q, i, k) => i > 0
  /\ \A i \in Nat, b \in Addrs : Note(q, i, b) => i > 0
  /\ \A i \in Nat, k \in Conns : Pkt(r, i, k) <=> i > 0 /\ Pkt(q, i + 1, k)
  /\ \A i \in Nat, b \in Addrs : Note(r, i, b) <=> i > 0 /\ Note(q, i + 1, b)

LEMMA AppendedNote ==
  ASSUME NEW q \in Seq(Message), NEW a \in Addrs, NEW k \in Conns \cup {NoConn}
  PROVE  NoteAdded(q, Append(q, Notice(a, k)), a)
<1> DEFINE r == Append(q, Notice(a, k))
           e == Len(q) + 1
<1>1. Notice(a, k) \in Message /\ Notice(a, k).close /\ Notice(a, k).addr = a
  BY NoticeType DEF Notice
<1>2. /\ Len(q) \in Nat /\ Len(r) = Len(q) + 1
      /\ \A i \in 1..Len(q) : r[i] = q[i]
      /\ r[e] = Notice(a, k)
  BY <1>1, AppendProperties, LenProperties
<1> HIDE DEF r
<1>3. \A i \in Nat, l \in Conns : Pkt(q, i, l) => i < e
  BY <1>2 DEF Pkt
<1>4. \A i \in Nat, b \in Addrs : Note(q, i, b) => i < e
  BY <1>2 DEF Note
<1>5. \A i \in Nat, l \in Conns : Pkt(r, i, l) <=> Pkt(q, i, l)
  BY <1>1, <1>2 DEF Pkt
<1>6. \A i \in Nat, b \in Addrs : Note(r, i, b) <=> Note(q, i, b) \/ (i = e /\ b = a)
  BY <1>1, <1>2 DEF Note
<1>7. e \in Nat
  BY <1>2
<1> HIDE DEF e
<1> QED  BY <1>3, <1>4, <1>5, <1>6, <1>7 DEF NoteAdded, r

LEMMA AppendedPkt ==
  ASSUME NEW q \in Seq(Message), NEW k \in Conns, NEW packets \in Seq(Packet), packets # <<>>
  PROVE  PktAdded(q, Append(q, Received(k, packets)), k)
<1> DEFINE r == Append(q, Received(k, packets))
           e == Len(q) + 1
<1>1. /\ Received(k, packets) \in Message
      /\ ~Received(k, packets).close /\ Received(k, packets).conn = k
  BY ReceivedType DEF Received
<1>2. /\ Len(q) \in Nat /\ Len(r) = Len(q) + 1
      /\ \A i \in 1..Len(q) : r[i] = q[i]
      /\ r[e] = Received(k, packets)
  BY <1>1, AppendProperties, LenProperties
<1> HIDE DEF r
<1>3. \A i \in Nat, l \in Conns : Pkt(q, i, l) => i < e
  BY <1>2 DEF Pkt
<1>4. \A i \in Nat, b \in Addrs : Note(q, i, b) => i < e
  BY <1>2 DEF Note
<1>5. \A i \in Nat, l \in Conns : Pkt(r, i, l) <=> Pkt(q, i, l) \/ (i = e /\ l = k)
  BY <1>1, <1>2 DEF Pkt
<1>6. \A i \in Nat, b \in Addrs : Note(r, i, b) <=> Note(q, i, b)
  BY <1>1, <1>2 DEF Note
<1>7. e \in Nat
  BY <1>2
<1> HIDE DEF e
<1> QED  BY <1>3, <1>4, <1>5, <1>6, <1>7 DEF PktAdded, r

LEMMA TailGone ==
  ASSUME NEW q \in Seq(Message), q # <<>>
  PROVE  FirstGone(q, Tail(q))
<1>1. /\ Len(q) \in Nat /\ Len(Tail(q)) = Len(q) - 1
      /\ \A i \in 1..Len(q) - 1 : Tail(q)[i] = q[i + 1]
  BY HeadTailProperties, LenProperties
<1>2. \A i \in Nat, k \in Conns : Pkt(q, i, k) => i > 0
  BY <1>1 DEF Pkt
<1>3. \A i \in Nat, b \in Addrs : Note(q, i, b) => i > 0
  BY <1>1 DEF Note
<1>4. \A i \in Nat, k \in Conns : Pkt(Tail(q), i, k) <=> i > 0 /\ Pkt(q, i + 1, k)
  BY <1>1 DEF Pkt
<1>5. \A i \in Nat, b \in Addrs : Note(Tail(q), i, b) <=> i > 0 /\ Note(q, i + 1, b)
  BY <1>1 DEF Note
<1> QED  BY <1>2, <1>3, <1>4, <1>5 DEF FirstGone

\* A connection is accepted.
LEMMA QueueOpen ==
  ASSUME NEW q, NEW s, NEW t, QueueInv(q, s), NEW k \in Conns, s[k] = "new",
         \A j \in Conns : AddrOf[j] = AddrOf[k] => s[j] # "open",
         \A j \in Conns : t[j] = IF j = k THEN "open" ELSE s[j]
  PROVE  QueueInv(q, t)
<1>1. OneOpen(t)
  BY DEF QueueInv, OneOpen
<1>2. Opened(q, t)
  BY DEF QueueInv, Opened
<1>3. Closing(q, t)
  BY DEF QueueInv, Closing
<1>4. Fresh(q, t)
  BY DEF QueueInv, Opened, Fresh
<1> QED  BY <1>1, <1>2, <1>3, <1>4 DEF QueueInv

\* A notice for an address, whose connection, if there is one, closes.
LEMMA QueueNote ==
  ASSUME NEW q, NEW r, NEW s, NEW t, QueueInv(q, s), NEW a \in Addrs, NoteAdded(q, r, a),
         \A j \in Conns : t[j] = s[j] \/ (s[j] = "open" /\ t[j] = "closed" /\ AddrOf[j] = a),
         \A j \in Conns : AddrOf[j] = a => t[j] # "open"
  PROVE  QueueInv(r, t)
<1>1. PICK e \in Nat :
        /\ \A i \in Nat, k \in Conns : Pkt(q, i, k) => i < e
        /\ \A i \in Nat, b \in Addrs : Note(q, i, b) => i < e
        /\ \A i \in Nat, k \in Conns : Pkt(r, i, k) <=> Pkt(q, i, k)
        /\ \A i \in Nat, b \in Addrs : Note(r, i, b) <=> Note(q, i, b) \/ (i = e /\ b = a)
  BY DEF NoteAdded
<1>2. \A k \in Conns : AddrOf[k] \in Addrs
  BY ConnsAssumption
<1>3. OneOpen(t) /\ Opened(r, t)
  BY <1>1 DEF QueueInv, OneOpen, Opened
<1>4. Separated(r)
  BY <1>1, <1>2 DEF QueueInv, Separated
<1>5. Unbroken(r)
  <2>1. ASSUME NEW i \in Nat, NEW n \in Nat, NEW j \in Nat, NEW k \in Conns,
               Pkt(r, i, k), Note(r, n, AddrOf[k]), Pkt(r, j, k), i < n, n < j
        PROVE  FALSE
    <3>1. Pkt(q, i, k) /\ Pkt(q, j, k) /\ j < e
      BY <1>1, <2>1
    <3>2. Note(q, n, AddrOf[k])
      BY <1>1, <1>2, <2>1, <3>1
    <3> QED  BY <2>1, <3>1, <3>2 DEF QueueInv, Unbroken
  <2> QED  BY <2>1 DEF Unbroken
<1>6. Fresh(r, t)
  BY <1>1, <1>2 DEF QueueInv, Fresh
<1>7. ASSUME NEW i \in Nat, NEW k \in Conns, t[k] = "closed", Pkt(r, i, k)
      PROVE  \E n \in Nat :
               /\ i < n /\ Note(r, n, AddrOf[k])
               /\ \A j \in Nat, l \in Conns :
                    i =< j /\ j < n /\ Pkt(r, j, l) /\ AddrOf[l] = AddrOf[k] => l = k
  <2>1. CASE s[k] = "closed"
    <3>1. PICK n \in Nat :
            /\ i < n /\ Note(q, n, AddrOf[k])
            /\ \A j \in Nat, l \in Conns :
                 i =< j /\ j < n /\ Pkt(q, j, l) /\ AddrOf[l] = AddrOf[k] => l = k
      BY <1>1, <1>7, <2>1 DEF QueueInv, Closing
    <3> QED  BY <1>1, <1>2, <3>1
  <2>2. CASE s[k] = "open" /\ AddrOf[k] = a
    <3>1. i < e /\ Note(r, e, AddrOf[k])
      BY <1>1, <1>2, <1>7, <2>2
    <3>2. ASSUME NEW j \in Nat, NEW l \in Conns, i =< j, j < e, Pkt(r, j, l),
                 AddrOf[l] = AddrOf[k], l # k
          PROVE  FALSE
      <4>1. Pkt(q, i, k) /\ Pkt(q, j, l)
        BY <1>1, <1>7, <3>2
      <4>2. i # j
        BY <4>1, <3>2 DEF Pkt
      <4>3. PICK n \in Nat : i < n /\ Note(q, n, AddrOf[k])
        BY <3>2, <4>1, <4>2 DEF QueueInv, Separated
      <4> QED  BY <2>2, <4>1, <4>3 DEF QueueInv, Fresh
    <3> QED  BY <3>1, <3>2
  <2> QED  BY <1>7, <2>1, <2>2
<1>8. Closing(r, t)
  BY <1>7 DEF Closing
<1> QED  BY <1>3, <1>4, <1>5, <1>6, <1>8 DEF QueueInv

\* Packets of an open connection are added.
LEMMA QueuePkt ==
  ASSUME NEW q, NEW r, NEW s, QueueInv(q, s), NEW k \in Conns, s[k] = "open",
         \A j \in Conns : s[j] \in {"new", "open", "closed"},
         PktAdded(q, r, k)
  PROVE  QueueInv(r, s)
<1>1. PICK e \in Nat :
        /\ \A i \in Nat, l \in Conns : Pkt(q, i, l) => i < e
        /\ \A i \in Nat, b \in Addrs : Note(q, i, b) => i < e
        /\ \A i \in Nat, l \in Conns : Pkt(r, i, l) <=> Pkt(q, i, l) \/ (i = e /\ l = k)
        /\ \A i \in Nat, b \in Addrs : Note(r, i, b) <=> Note(q, i, b)
  BY DEF PktAdded
<1>2. \A l \in Conns : AddrOf[l] \in Addrs
  BY ConnsAssumption
<1>3. OneOpen(s) /\ Opened(r, s)
  BY <1>1 DEF QueueInv, OneOpen, Opened
<1>4. ASSUME NEW i \in Nat, NEW j \in Nat, NEW l \in Conns, NEW m \in Conns,
             Pkt(r, i, l), Pkt(r, j, m), i < j, l # m, AddrOf[l] = AddrOf[m]
      PROVE  \E n \in Nat : i < n /\ n < j /\ Note(r, n, AddrOf[l])
  <2>1. Pkt(q, i, l) /\ (Pkt(q, j, m) \/ (j = e /\ m = k))
    BY <1>1, <1>4
  <2>2. CASE Pkt(q, j, m)
    BY <1>1, <1>2, <1>4, <2>1, <2>2 DEF QueueInv, Separated
  <2>3. CASE j = e /\ m = k
    <3>1. s[l] = "closed"
      BY <1>4, <2>1, <2>3 DEF QueueInv, OneOpen, Opened
    <3>2. PICK n \in Nat : i < n /\ Note(q, n, AddrOf[l])
      BY <2>1, <3>1 DEF QueueInv, Closing
    <3> QED  BY <1>1, <1>2, <2>3, <3>2
  <2> QED  BY <2>1, <2>2, <2>3
<1>5. Separated(r)
  BY <1>4 DEF Separated
<1>6. ASSUME NEW i \in Nat, NEW n \in Nat, NEW j \in Nat, NEW l \in Conns,
             Pkt(r, i, l), Note(r, n, AddrOf[l]), Pkt(r, j, l), i < n, n < j
      PROVE  FALSE
  <2>1. Pkt(q, i, l) /\ Note(q, n, AddrOf[l]) /\ (Pkt(q, j, l) \/ l = k)
    BY <1>1, <1>2, <1>6
  <2> QED  BY <1>6, <2>1 DEF QueueInv, Unbroken, Fresh
<1>7. Unbroken(r)
  BY <1>6 DEF Unbroken
<1>8. Fresh(r, s)
  BY <1>1, <1>2 DEF QueueInv, Fresh
<1>9. ASSUME NEW i \in Nat, NEW l \in Conns, s[l] = "closed", Pkt(r, i, l)
      PROVE  \E n \in Nat :
               /\ i < n /\ Note(r, n, AddrOf[l])
               /\ \A j \in Nat, m \in Conns :
                    i =< j /\ j < n /\ Pkt(r, j, m) /\ AddrOf[m] = AddrOf[l] => m = l
  <2>1. Pkt(q, i, l)
    BY <1>1, <1>9
  <2>2. PICK n \in Nat :
          /\ i < n /\ Note(q, n, AddrOf[l])
          /\ \A j \in Nat, m \in Conns :
               i =< j /\ j < n /\ Pkt(q, j, m) /\ AddrOf[m] = AddrOf[l] => m = l
    BY <1>9, <2>1 DEF QueueInv, Closing
  <2>3. n < e
    BY <1>1, <1>2, <2>2
  <2> QED  BY <1>1, <1>2, <2>2, <2>3
<1>10. Closing(r, s)
  BY <1>9 DEF Closing
<1> QED  BY <1>3, <1>5, <1>7, <1>8, <1>10 DEF QueueInv

\* The first message is taken from the queue.
LEMMA QueueGone ==
  ASSUME NEW q, NEW r, NEW s, QueueInv(q, s), FirstGone(q, r)
  PROVE  QueueInv(r, s)
<1>1. \A k \in Conns : AddrOf[k] \in Addrs
  BY ConnsAssumption
<1>2. OneOpen(s)
  BY DEF QueueInv
<1>3. Opened(r, s)
  BY DEF QueueInv, Opened, FirstGone
<1>4. ASSUME NEW i \in Nat, NEW j \in Nat, NEW k \in Conns, NEW l \in Conns,
             Pkt(r, i, k), Pkt(r, j, l), i < j, k # l, AddrOf[k] = AddrOf[l]
      PROVE  \E n \in Nat : i < n /\ n < j /\ Note(r, n, AddrOf[k])
  <2>1. Pkt(q, i + 1, k) /\ Pkt(q, j + 1, l) /\ i + 1 \in Nat /\ j + 1 \in Nat /\ i + 1 < j + 1
    BY <1>4 DEF FirstGone
  <2>2. PICK n \in Nat : i + 1 < n /\ n < j + 1 /\ Note(q, n, AddrOf[k])
    BY <1>4, <2>1 DEF QueueInv, Separated
  <2>3. n - 1 \in Nat /\ n - 1 > 0 /\ (n - 1) + 1 = n /\ i < n - 1 /\ n - 1 < j
    BY <2>2
  <2>4. Note(r, n - 1, AddrOf[k])
    BY <1>1, <2>2, <2>3 DEF FirstGone
  <2> QED  BY <2>3, <2>4
<1>5. Separated(r)
  BY <1>4 DEF Separated
<1>6. ASSUME NEW i \in Nat, NEW n \in Nat, NEW j \in Nat, NEW k \in Conns,
             Pkt(r, i, k), Note(r, n, AddrOf[k]), Pkt(r, j, k), i < n, n < j
      PROVE  FALSE
  <2>1. /\ Pkt(q, i + 1, k) /\ Note(q, n + 1, AddrOf[k]) /\ Pkt(q, j + 1, k)
        /\ i + 1 \in Nat /\ n + 1 \in Nat /\ j + 1 \in Nat /\ i + 1 < n + 1 /\ n + 1 < j + 1
    BY <1>1, <1>6 DEF FirstGone
  <2> QED  BY <2>1 DEF QueueInv, Unbroken
<1>7. Unbroken(r)
  BY <1>6 DEF Unbroken
<1>8. ASSUME NEW n \in Nat, NEW i \in Nat, NEW k \in Conns,
             s[k] = "open", Note(r, n, AddrOf[k]), Pkt(r, i, k)
      PROVE  n < i
  <2>1. Note(q, n + 1, AddrOf[k]) /\ Pkt(q, i + 1, k) /\ n + 1 \in Nat /\ i + 1 \in Nat
    BY <1>1, <1>8 DEF FirstGone
  <2>2. n + 1 < i + 1
    BY <1>8, <2>1 DEF QueueInv, Fresh
  <2> QED  BY <2>2
<1>9. Fresh(r, s)
  BY <1>8 DEF Fresh
<1>10. ASSUME NEW i \in Nat, NEW k \in Conns, s[k] = "closed", Pkt(r, i, k)
       PROVE  \E n \in Nat :
                /\ i < n /\ Note(r, n, AddrOf[k])
                /\ \A j \in Nat, l \in Conns :
                     i =< j /\ j < n /\ Pkt(r, j, l) /\ AddrOf[l] = AddrOf[k] => l = k
  <2>1. Pkt(q, i + 1, k) /\ i + 1 \in Nat
    BY <1>10 DEF FirstGone
  <2>2. PICK n \in Nat :
          /\ i + 1 < n /\ Note(q, n, AddrOf[k])
          /\ \A j \in Nat, l \in Conns :
               i + 1 =< j /\ j < n /\ Pkt(q, j, l) /\ AddrOf[l] = AddrOf[k] => l = k
    BY <1>10, <2>1 DEF QueueInv, Closing
  <2>3. n - 1 \in Nat /\ n - 1 > 0 /\ (n - 1) + 1 = n /\ i < n - 1
    BY <2>2
  <2>4. Note(r, n - 1, AddrOf[k])
    BY <1>1, <2>2, <2>3 DEF FirstGone
  <2>5. ASSUME NEW j \in Nat, NEW l \in Conns, i =< j, j < n - 1, Pkt(r, j, l),
               AddrOf[l] = AddrOf[k]
        PROVE  l = k
    <3>1. Pkt(q, j + 1, l) /\ j + 1 \in Nat /\ i + 1 =< j + 1 /\ j + 1 < n
      BY <2>3, <2>5 DEF FirstGone
    <3> QED  BY <2>2, <2>5, <3>1
  <2> QED  BY <2>3, <2>4, <2>5
<1>11. Closing(r, s)
  BY <1>10 DEF Closing
<1> QED  BY <1>2, <1>3, <1>5, <1>7, <1>9, <1>11 DEF QueueInv

-----------------------------------------------------------------------------
(* The sessions L, with their connections o, and the connections p whose      *)
(* session has ended                                                          *)

Owned(s, L, o, p) ==
  \A a \in L : o[a] \in Conns /\ AddrOf[o[a]] = a /\ s[o[a]] # "new" /\ o[a] \notin p

\* SessionFollowsConnection
Following(q, s, L, o) ==
  \A a \in L :
    s[o[a]] = "closed" =>
      \E n \in Nat :
        /\ Note(q, n, a)
        /\ \A j \in Nat, l \in Conns :
             j < n /\ Pkt(q, j, l) /\ AddrOf[l] = a => l = o[a]

\* The notice that ends a session is behind the packets of its connection.
OwnFirst(q, L, o) ==
  \A n, i \in Nat, a \in L : Note(q, n, a) /\ Pkt(q, i, o[a]) => i < n

\* Packets of other connections from the address are behind a notice.
OthersLater(q, L, o) ==
  \A j \in Nat, l \in Conns, a \in L :
    Pkt(q, j, l) /\ AddrOf[l] = a /\ l # o[a] => \E n \in Nat : n < j /\ Note(q, n, a)

\* While its connection is open no notice threatens a session.
Undisturbed(q, s, L, o) ==
  \A n \in Nat, a \in L : ~(s[o[a]] = "open" /\ Note(q, n, a))

Gone(q, s, p) ==
  \A k \in p : k \in Conns /\ s[k] = "closed" /\ \A i \in Nat : ~Pkt(q, i, k)

SessionInv(q, s, L, o, p) ==
  /\ Owned(s, L, o, p) /\ Following(q, s, L, o) /\ OwnFirst(q, L, o)
  /\ OthersLater(q, L, o) /\ Undisturbed(q, s, L, o) /\ Gone(q, s, p)

LEMMA SessionOpen ==
  ASSUME NEW q, NEW s, NEW t, NEW L, NEW o, NEW p, SessionInv(q, s, L, o, p),
         NEW k \in Conns, s[k] = "new",
         \A j \in Conns : t[j] = IF j = k THEN "open" ELSE s[j]
  PROVE  SessionInv(q, t, L, o, p)
<1>1. \A a \in L : o[a] \in Conns /\ o[a] # k
  BY DEF SessionInv, Owned
<1>2. Owned(t, L, o, p)
  BY <1>1 DEF SessionInv, Owned
<1>3. Following(q, t, L, o)
  BY <1>1 DEF SessionInv, Following
<1>4. Undisturbed(q, t, L, o)
  BY <1>1 DEF SessionInv, Undisturbed
<1>5. Gone(q, t, p)
  BY DEF SessionInv, Gone
<1> QED  BY <1>2, <1>3, <1>4, <1>5 DEF SessionInv

LEMMA SessionNote ==
  ASSUME NEW q, NEW r, NEW s, NEW t, NEW L \in SUBSET Addrs, NEW o, NEW p,
         QueueInv(q, s), SessionInv(q, s, L, o, p), NEW b \in Addrs, NoteAdded(q, r, b),
         \A j \in Conns : t[j] = s[j] \/ (s[j] = "open" /\ t[j] = "closed" /\ AddrOf[j] = b),
         \A j \in Conns : AddrOf[j] = b => t[j] # "open"
  PROVE  SessionInv(r, t, L, o, p)
<1>1. PICK e \in Nat :
        /\ \A i \in Nat, k \in Conns : Pkt(q, i, k) => i < e
        /\ \A i \in Nat, a \in Addrs : Note(q, i, a) => i < e
        /\ \A i \in Nat, k \in Conns : Pkt(r, i, k) <=> Pkt(q, i, k)
        /\ \A i \in Nat, a \in Addrs : Note(r, i, a) <=> Note(q, i, a) \/ (i = e /\ a = b)
  BY DEF NoteAdded
<1>2. \A a \in L : o[a] \in Conns /\ AddrOf[o[a]] = a /\ a \in Addrs
  BY DEF SessionInv, Owned
<1>3. Owned(t, L, o, p)
  BY <1>2 DEF SessionInv, Owned
<1>4. ASSUME NEW a \in L, t[o[a]] = "closed"
      PROVE  \E n \in Nat :
               /\ Note(r, n, a)
               /\ \A j \in Nat, l \in Conns :
                    j < n /\ Pkt(r, j, l) /\ AddrOf[l] = a => l = o[a]
  <2>1. CASE s[o[a]] = "closed"
    <3>1. PICK n \in Nat :
            /\ Note(q, n, a)
            /\ \A j \in Nat, l \in Conns :
                 j < n /\ Pkt(q, j, l) /\ AddrOf[l] = a => l = o[a]
      BY <2>1 DEF SessionInv, Following
    <3> QED  BY <1>1, <1>2, <3>1
  <2>2. CASE s[o[a]] = "open" /\ a = b
    <3>1. Note(r, e, a)
      BY <1>1, <1>2, <2>2
    <3>2. ASSUME NEW j \in Nat, NEW l \in Conns, Pkt(r, j, l), AddrOf[l] = a, l # o[a]
          PROVE  FALSE
      <4>1. PICK n \in Nat : Note(q, n, a)
        BY <1>1, <3>2 DEF SessionInv, OthersLater
      <4> QED  BY <2>2, <4>1 DEF SessionInv, Undisturbed
    <3> QED  BY <3>1, <3>2
  <2> QED  BY <1>2, <1>4, <2>1, <2>2
<1>5. Following(r, t, L, o)
  BY <1>4 DEF Following
<1>6. OwnFirst(r, L, o)
  BY <1>1, <1>2 DEF SessionInv, OwnFirst
<1>7. OthersLater(r, L, o)
  BY <1>1, <1>2 DEF SessionInv, OthersLater
<1>8. Undisturbed(r, t, L, o)
  BY <1>1, <1>2 DEF SessionInv, Undisturbed
<1>9. Gone(r, t, p)
  BY <1>1 DEF SessionInv, Gone
<1> QED  BY <1>3, <1>5, <1>6, <1>7, <1>8, <1>9 DEF SessionInv

LEMMA SessionPkt ==
  ASSUME NEW q, NEW r, NEW s, NEW L \in SUBSET Addrs, NEW o, NEW p,
         QueueInv(q, s), SessionInv(q, s, L, o, p), NEW k \in Conns, s[k] = "open",
         \A j \in Conns : s[j] \in {"new", "open", "closed"},
         PktAdded(q, r, k)
  PROVE  SessionInv(r, s, L, o, p)
<1>1. PICK e \in Nat :
        /\ \A i \in Nat, l \in Conns : Pkt(q, i, l) => i < e
        /\ \A i \in Nat, b \in Addrs : Note(q, i, b) => i < e
        /\ \A i \in Nat, l \in Conns : Pkt(r, i, l) <=> Pkt(q, i, l) \/ (i = e /\ l = k)
        /\ \A i \in Nat, b \in Addrs : Note(r, i, b) <=> Note(q, i, b)
  BY DEF PktAdded
<1>2. \A a \in L : o[a] \in Conns /\ AddrOf[o[a]] = a /\ a \in Addrs
  BY DEF SessionInv, Owned
<1>3. Owned(s, L, o, p)
  BY DEF SessionInv
<1>4. ASSUME NEW a \in L, s[o[a]] = "closed"
      PROVE  \E n \in Nat :
               /\ Note(r, n, a)
               /\ \A j \in Nat, l \in Conns :
                    j < n /\ Pkt(r, j, l) /\ AddrOf[l] = a => l = o[a]
  <2>1. PICK n \in Nat :
          /\ Note(q, n, a)
          /\ \A j \in Nat, l \in Conns :
               j < n /\ Pkt(q, j, l) /\ AddrOf[l] = a => l = o[a]
    BY <1>4 DEF SessionInv, Following
  <2>2. n < e /\ Note(r, n, a)
    BY <1>1, <1>2, <2>1
  <2> QED  BY <1>1, <2>1, <2>2
<1>5. Following(r, s, L, o)
  BY <1>4 DEF Following
<1>6. ASSUME NEW n \in Nat, NEW i \in Nat, NEW a \in L, Note(r, n, a), Pkt(r, i, o[a])
      PROVE  i < n
  <2>1. Note(q, n, a) /\ (Pkt(q, i, o[a]) \/ o[a] = k)
    BY <1>1, <1>2, <1>6
  <2> QED  BY <2>1 DEF SessionInv, OwnFirst, Undisturbed
<1>7. OwnFirst(r, L, o)
  BY <1>6 DEF OwnFirst
<1>8. ASSUME NEW j \in Nat, NEW l \in Conns, NEW a \in L,
             Pkt(r, j, l), AddrOf[l] = a, l # o[a]
      PROVE  \E n \in Nat : n < j /\ Note(r, n, a)
  <2>1. CASE Pkt(q, j, l)
    BY <1>1, <1>2, <1>8, <2>1 DEF SessionInv, OthersLater
  <2>2. CASE j = e /\ l = k
    <3>1. s[o[a]] = "closed"
      BY <1>2, <1>8, <2>2 DEF SessionInv, Owned, QueueInv, OneOpen
    <3>2. PICK n \in Nat : Note(q, n, a)
      BY <3>1 DEF SessionInv, Following
    <3> QED  BY <1>1, <1>2, <2>2, <3>2
  <2> QED  BY <1>1, <1>8, <2>1, <2>2
<1>9. OthersLater(r, L, o)
  BY <1>8 DEF OthersLater
<1>10. Undisturbed(r, s, L, o)
  BY <1>1, <1>2 DEF SessionInv, Undisturbed
<1>11. Gone(r, s, p)
  BY <1>1 DEF SessionInv, Gone
<1> QED  BY <1>3, <1>5, <1>7, <1>9, <1>10, <1>11 DEF SessionInv

\* The first message goes: packets, or a notice without a session.
LEMMA SessionGone ==
  ASSUME NEW q, NEW r, NEW s, NEW L \in SUBSET Addrs, NEW o, NEW p,
         SessionInv(q, s, L, o, p), FirstGone(q, r), \A a \in L : ~Note(q, 1, a)
  PROVE  SessionInv(r, s, L, o, p)
<1>1. \A a \in L : o[a] \in Conns /\ AddrOf[o[a]] = a /\ a \in Addrs
  BY DEF SessionInv, Owned
<1>2. Owned(s, L, o, p)
  BY DEF SessionInv
<1>3. ASSUME NEW a \in L, s[o[a]] = "closed"
      PROVE  \E n \in Nat :
               /\ Note(r, n, a)
               /\ \A j \in Nat, l \in Conns :
                    j < n /\ Pkt(r, j, l) /\ AddrOf[l] = a => l = o[a]
  <2>1. PICK n \in Nat :
          /\ Note(q, n, a)
          /\ \A j \in Nat, l \in Conns :
               j < n /\ Pkt(q, j, l) /\ AddrOf[l] = a => l = o[a]
    BY <1>3 DEF SessionInv, Following
  <2>2. n > 1
    BY <1>1, <2>1 DEF FirstGone
  <2>3. n - 1 \in Nat /\ n - 1 > 0 /\ (n - 1) + 1 = n
    BY <2>2
  <2>4. Note(r, n - 1, a)
    BY <1>1, <2>1, <2>3 DEF FirstGone
  <2>5. ASSUME NEW j \in Nat, NEW l \in Conns, j < n - 1, Pkt(r, j, l), AddrOf[l] = a
        PROVE  l = o[a]
    <3>1. Pkt(q, j + 1, l) /\ j + 1 \in Nat /\ j + 1 < n
      BY <2>3, <2>5 DEF FirstGone
    <3> QED  BY <2>1, <2>5, <3>1
  <2> QED  BY <2>3, <2>4, <2>5
<1>4. Following(r, s, L, o)
  BY <1>3 DEF Following
<1>5. ASSUME NEW n \in Nat, NEW i \in Nat, NEW a \in L, Note(r, n, a), Pkt(r, i, o[a])
      PROVE  i < n
  <2>1. Note(q, n + 1, a) /\ Pkt(q, i + 1, o[a]) /\ n + 1 \in Nat /\ i + 1 \in Nat
    BY <1>1, <1>5 DEF FirstGone
  <2>2. i + 1 < n + 1
    BY <2>1 DEF SessionInv, OwnFirst
  <2> QED  BY <2>2
<1>6. OwnFirst(r, L, o)
  BY <1>5 DEF OwnFirst
<1>7. ASSUME NEW j \in Nat, NEW l \in Conns, NEW a \in L,
             Pkt(r, j, l), AddrOf[l] = a, l # o[a]
      PROVE  \E n \in Nat : n < j /\ Note(r, n, a)
  <2>1. Pkt(q, j + 1, l) /\ j + 1 \in Nat
    BY <1>7 DEF FirstGone
  <2>2. PICK n \in Nat : n < j + 1 /\ Note(q, n, a)
    BY <1>7, <2>1 DEF SessionInv, OthersLater
  <2>3. n > 1
    BY <1>1, <2>2 DEF FirstGone
  <2>4. n - 1 \in Nat /\ n - 1 > 0 /\ (n - 1) + 1 = n /\ n - 1 < j
    BY <2>2, <2>3
  <2>5. Note(r, n - 1, a)
    BY <1>1, <2>2, <2>4 DEF FirstGone
  <2> QED  BY <2>4, <2>5
<1>8. OthersLater(r, L, o)
  BY <1>7 DEF OthersLater
<1>9. Undisturbed(r, s, L, o)
  BY <1>1 DEF SessionInv, Undisturbed, FirstGone
<1>10. Gone(r, s, p)
  BY DEF SessionInv, Gone, FirstGone
<1> QED  BY <1>2, <1>4, <1>6, <1>8, <1>9, <1>10 DEF SessionInv

\* A session begins, for the connection of the packets at the head.
LEMMA SessionBegin ==
  ASSUME NEW q, NEW s, NEW L \in SUBSET Addrs, NEW o, NEW u, NEW p,
         QueueInv(q, s), SessionInv(q, s, L, o, p),
         \A j \in Conns : s[j] \in {"new", "open", "closed"},
         NEW k \in Conns, Pkt(q, 1, k), AddrOf[k] \notin L,
         \A i \in Nat, j \in Conns : Pkt(q, i, j) => i > 0,
         \A i \in Nat, b \in Addrs : Note(q, i, b) => i > 0,
         \A b \in Addrs : ~Note(q, 1, b),
         u[AddrOf[k]] = k, \A a \in L : u[a] = o[a]
  PROVE  SessionInv(q, s, L \cup {AddrOf[k]}, u, p)
<1> DEFINE a == AddrOf[k]
<1>1. a \in Addrs /\ u[a] = k
  BY ConnsAssumption
<1>2. s[k] # "new" /\ k \notin p
  BY DEF QueueInv, Opened, SessionInv, Gone
<1>3. Owned(s, L \cup {a}, u, p)
  BY <1>1, <1>2 DEF SessionInv, Owned
<1>4. Following(q, s, L \cup {a}, u)
  <2>1. ASSUME s[k] = "closed"
        PROVE  \E n \in Nat :
                 /\ Note(q, n, a)
                 /\ \A j \in Nat, l \in Conns :
                      j < n /\ Pkt(q, j, l) /\ AddrOf[l] = a => l = k
    <3>1. PICK n \in Nat :
            /\ 1 < n /\ Note(q, n, a)
            /\ \A j \in Nat, l \in Conns :
                 1 =< j /\ j < n /\ Pkt(q, j, l) /\ AddrOf[l] = a => l = k
      BY <2>1 DEF QueueInv, Closing
    <3> QED  BY <3>1
  <2> QED  BY <1>1, <2>1 DEF SessionInv, Following
<1>5. ASSUME NEW n \in Nat, NEW i \in Nat, Note(q, n, a), Pkt(q, i, k)
      PROVE  i < n
  <2>1. n > 1 /\ i # n
    BY <1>1, <1>5 DEF Pkt, Note
  <2> QED  BY <1>5, <2>1 DEF QueueInv, Unbroken
<1>6. OwnFirst(q, L \cup {a}, u)
  BY <1>1, <1>5 DEF SessionInv, OwnFirst
<1>7. ASSUME NEW j \in Nat, NEW l \in Conns, Pkt(q, j, l), AddrOf[l] = a, l # k
      PROVE  \E n \in Nat : n < j /\ Note(q, n, a)
  <2>1. j > 1
    BY <1>7 DEF Pkt
  <2> QED  BY <1>7, <2>1 DEF QueueInv, Separated
<1>8. OthersLater(q, L \cup {a}, u)
  BY <1>1, <1>7 DEF SessionInv, OthersLater
<1>9. Undisturbed(q, s, L \cup {a}, u)
  <2>1. ASSUME NEW n \in Nat, s[k] = "open", Note(q, n, a)
        PROVE  FALSE
    <3>1. n < 1
      BY <2>1 DEF QueueInv, Fresh
    <3> QED  BY <1>1, <2>1, <3>1
  <2> QED  BY <1>1, <2>1 DEF SessionInv, Undisturbed
<1>10. Gone(q, s, p)
  BY DEF SessionInv
<1> HIDE DEF a
<1>11. SessionInv(q, s, L \cup {a}, u, p)
  BY <1>3, <1>4, <1>6, <1>8, <1>9, <1>10 DEF SessionInv
<1> QED  BY <1>11 DEF a

\* A session ends, with the notice at the head.
LEMMA SessionEnd ==
  ASSUME NEW q, NEW s, NEW L \in SUBSET Addrs, NEW o, NEW u, NEW p,
         SessionInv(q, s, L, o, p),
         \A j \in Conns : s[j] \in {"new", "open", "closed"},
         NEW a \in L, Note(q, 1, a),
         \A i \in Nat, j \in Conns : Pkt(q, i, j) => i > 0,
         \A b \in L \ {a} : u[b] = o[b]
  PROVE  SessionInv(q, s, L \ {a}, u, p \cup {o[a]}) /\ s[o[a]] = "closed"
<1>1. /\ o[a] \in Conns /\ s[o[a]] = "closed"
      /\ \A b \in L : o[b] \in Conns /\ AddrOf[o[b]] = b
  BY DEF SessionInv, Owned, Undisturbed
<1>2. \A i \in Nat : ~Pkt(q, i, o[a])
  BY <1>1 DEF SessionInv, OwnFirst
<1>3. Owned(s, L \ {a}, u, p \cup {o[a]})
  BY <1>1 DEF SessionInv, Owned
<1>4. Following(q, s, L \ {a}, u) /\ OwnFirst(q, L \ {a}, u)
  BY DEF SessionInv, Following, OwnFirst
<1>5. OthersLater(q, L \ {a}, u) /\ Undisturbed(q, s, L \ {a}, u)
  BY DEF SessionInv, OthersLater, Undisturbed
<1>6. Gone(q, s, p \cup {o[a]})
  BY <1>1, <1>2 DEF SessionInv, Gone
<1> QED  BY <1>1, <1>3, <1>4, <1>5, <1>6 DEF SessionInv

-----------------------------------------------------------------------------
(* The inductive invariant *)

owners == [a \in Addrs |-> Owner(a)]

\* OrderOnItsWay, for connections that were accepted
OrdersInv ==
  \A k \in ordered :
    sock[k] # "new" /\ (sock[k] = "open" => HasOrder(mqtt_tcp, AddrOf[k]))

IInv ==
  /\ Shape
  /\ QueueInv(tcp_mqtt, sock)
  /\ SessionInv(tcp_mqtt, sock, Live, owners, past)
  /\ OrdersInv

LEMMA InitIInv ==
  ASSUME Init
  PROVE  IInv
<1>1. Shape
  BY InitShape
<1>2. /\ tcp_mqtt = <<>> /\ sock = [k \in Conns |-> "new"]
      /\ Live = {} /\ past = {} /\ ordered = {}
  BY DEF Init, TcpInit, MqttInit, Live, ToSet
<1>3. \A i \in Nat : \A x : ~Pkt(tcp_mqtt, i, x) /\ ~Note(tcp_mqtt, i, x)
  BY <1>2, EmptySeq DEF Pkt, Note
<1>4. QueueInv(tcp_mqtt, sock)
  <2>1. OneOpen(sock) /\ Opened(tcp_mqtt, sock)
    BY <1>2, <1>3 DEF OneOpen, Opened
  <2>2. Separated(tcp_mqtt) /\ Unbroken(tcp_mqtt)
    BY <1>3 DEF Separated, Unbroken
  <2>3. Closing(tcp_mqtt, sock) /\ Fresh(tcp_mqtt, sock)
    BY <1>3 DEF Closing, Fresh
  <2> QED  BY <2>1, <2>2, <2>3 DEF QueueInv
<1>5. SessionInv(tcp_mqtt, sock, Live, owners, past)
  BY <1>2 DEF SessionInv, Owned, Following, OwnFirst, OthersLater, Undisturbed, Gone
<1>6. OrdersInv
  BY <1>2 DEF OrdersInv
<1> QED  BY <1>1, <1>4, <1>5, <1>6 DEF IInv

LEMMA InvTypes ==
  ASSUME IInv
  PROVE  /\ tcp_mqtt \in Seq(Message)
         /\ sock \in [Conns -> {"new", "open", "closed"}]
         /\ Live \in SUBSET Addrs
         /\ ordered \subseteq Conns /\ Outgoing(mqtt_tcp)
BY LiveTyped DEF IInv, Shape, QueueShape, TcpShape, MqttShape

\* An order stays in a queue that grows.
LEMMA OrderStays ==
  ASSUME NEW s, NEW t, IsList(s), Longer(s, t), NEW a, HasOrder(s, a)
  PROVE  HasOrder(t, a)
BY ListProperties DEF Longer, HasOrder, Outgoing

\* When a message is served, the orders behind it stay.
LEMMA OrderServed ==
  ASSUME Outgoing(mqtt_tcp), Served, NEW a, HasOrder(mqtt_tcp, a), Head(mqtt_tcp) # Order(a)
  PROVE  HasOrder(mqtt_tcp', a)
<1>1. /\ Head(mqtt_tcp) = mqtt_tcp[1]
      /\ Len(mqtt_tcp) \in Nat /\ Len(mqtt_tcp') = Len(mqtt_tcp) - 1
      /\ \A i \in 1..Len(mqtt_tcp) - 1 : mqtt_tcp'[i] = mqtt_tcp[i + 1]
  BY TailOutgoing
<1>2. PICK i \in 1..Len(mqtt_tcp) : mqtt_tcp[i] = Order(a)
  BY DEF HasOrder
<1>3. i - 1 \in 1..Len(mqtt_tcp') /\ i - 1 \in 1..Len(mqtt_tcp) - 1 /\ (i - 1) + 1 = i
  BY <1>1, <1>2
<1>4. mqtt_tcp'[i - 1] = Order(a)
  BY <1>1, <1>2, <1>3
<1> QED  BY <1>3, <1>4 DEF HasOrder

LEMMA OpensInv ==
  ASSUME IInv, NEW k \in Conns, Opens(k), UNCHANGED mqtt_vars
  PROVE  /\ QueueInv(tcp_mqtt', sock') /\ SessionInv(tcp_mqtt', sock', Live', owners', past')
         /\ OrdersInv'
<1>1. /\ sock[k] = "new" /\ UNCHANGED <<tcp_mqtt, mqtt_tcp>>
      /\ \A j \in Conns : AddrOf[j] = AddrOf[k] => sock[j] # "open"
      /\ \A j \in Conns : sock'[j] = IF j = k THEN "open" ELSE sock[j]
  BY InvTypes DEF Opens, OpenAt, queues
<1>2. UNCHANGED <<Live, owners, past, ordered>>
  BY DEF mqtt_vars, Live, owners, Owner
<1>3. QueueInv(tcp_mqtt, sock')
  BY <1>1, QueueOpen DEF IInv
<1>4. SessionInv(tcp_mqtt, sock', Live, owners, past)
  BY <1>1, SessionOpen DEF IInv
<1>5. OrdersInv'
  <2>1. ASSUME NEW j \in ordered
        PROVE  sock'[j] = sock[j]
    BY <1>1, InvTypes DEF IInv, OrdersInv
  <2> QED  BY <1>1, <1>2, <2>1 DEF IInv, OrdersInv
<1> QED  BY <1>1, <1>2, <1>3, <1>4, <1>5

\* Closes and Misses
LEMMA NoteInv ==
  ASSUME IInv, NEW a \in Addrs, NEW k \in Conns \cup {NoConn},
         tcp_mqtt' = Append(tcp_mqtt, Notice(a, k)), UNCHANGED mqtt_vars,
         \A j \in Conns : sock'[j] = sock[j] \/
                            (sock[j] = "open" /\ sock'[j] = "closed" /\ AddrOf[j] = a),
         \A j \in Conns : AddrOf[j] = a => sock'[j] # "open",
         UNCHANGED mqtt_tcp \/ (Served /\ Head(mqtt_tcp).addr = a)
  PROVE  /\ QueueInv(tcp_mqtt', sock') /\ SessionInv(tcp_mqtt', sock', Live', owners', past')
         /\ OrdersInv'
<1>1. NoteAdded(tcp_mqtt, tcp_mqtt', a)
  BY InvTypes, AppendedNote
<1>2. UNCHANGED <<Live, owners, past, ordered>>
  BY DEF mqtt_vars, Live, owners, Owner
<1>3. QueueInv(tcp_mqtt, sock) /\ SessionInv(tcp_mqtt, sock, Live, owners, past)
  BY DEF IInv
<1>4. QueueInv(tcp_mqtt', sock')
  BY <1>1, <1>3, QueueNote
<1>5. SessionInv(tcp_mqtt', sock', Live, owners, past)
  BY <1>1, <1>3, InvTypes, SessionNote
<1>6. ASSUME NEW j \in ordered
      PROVE  sock'[j] # "new" /\ (sock'[j] = "open" => HasOrder(mqtt_tcp', AddrOf[j]))
  <2>1. j \in Conns /\ sock[j] # "new" /\ (sock[j] = "open" => HasOrder(mqtt_tcp, AddrOf[j]))
    BY InvTypes DEF IInv, OrdersInv
  <2>2. CASE sock'[j] = "open"
    <3>1. AddrOf[j] # a /\ HasOrder(mqtt_tcp, AddrOf[j])
      BY <2>1, <2>2
    <3>2. CASE UNCHANGED mqtt_tcp
      BY <2>2, <3>1, <3>2
    <3>3. CASE Served /\ Head(mqtt_tcp).addr = a
      <4>1. Head(mqtt_tcp) # Order(AddrOf[j])
        BY <3>1, <3>3 DEF Order
      <4>2. HasOrder(mqtt_tcp', AddrOf[j])
        BY <3>1, <3>3, <4>1, InvTypes, OrderServed
      <4> QED  BY <2>2, <4>2
    <3> QED  BY <3>2, <3>3
  <2>3. CASE sock'[j] # "open"
    BY <2>1, <2>3
  <2> QED  BY <2>2, <2>3
<1>7. OrdersInv'
  BY <1>2, <1>6 DEF OrdersInv
<1> QED  BY <1>2, <1>4, <1>5, <1>7

LEMMA PassesInv ==
  ASSUME IInv, NEW k \in Conns, Passes(k), UNCHANGED mqtt_vars
  PROVE  /\ QueueInv(tcp_mqtt', sock') /\ SessionInv(tcp_mqtt', sock', Live', owners', past')
         /\ OrdersInv'
<1>1. sock[k] = "open" /\ UNCHANGED <<sock, mqtt_tcp>>
  BY DEF Passes
<1>2. PICK packets \in Seq(Packet) :
        packets # <<>> /\ tcp_mqtt' = Append(tcp_mqtt, Received(k, packets))
  BY DEF Passes
<1>3. PktAdded(tcp_mqtt, tcp_mqtt', k)
  BY <1>2, InvTypes, AppendedPkt
<1>4. UNCHANGED <<Live, owners, past, ordered>>
  BY DEF mqtt_vars, Live, owners, Owner
<1>5. /\ QueueInv(tcp_mqtt, sock) /\ SessionInv(tcp_mqtt, sock, Live, owners, past)
      /\ \A j \in Conns : sock[j] \in {"new", "open", "closed"}
  BY InvTypes DEF IInv
<1>6. QueueInv(tcp_mqtt', sock)
  BY <1>1, <1>3, <1>5, QueuePkt
<1>7. SessionInv(tcp_mqtt', sock, Live, owners, past)
  BY <1>1, <1>3, <1>5, InvTypes, SessionPkt
<1>8. OrdersInv'
  BY <1>1, <1>4 DEF IInv, OrdersInv
<1> QED  BY <1>1, <1>4, <1>6, <1>7, <1>8

LEMMA TcpInv ==
  ASSUME IInv, TcpNext, UNCHANGED mqtt_vars
  PROVE  IInv'
<1> DEFINE Goal == /\ QueueInv(tcp_mqtt', sock')
                   /\ SessionInv(tcp_mqtt', sock', Live', owners', past')
                   /\ OrdersInv'
<1>1. Shape' /\ TcpEffect
  BY TcpStep DEF IInv
<1>2. ASSUME NEW k \in Conns, Opens(k)
      PROVE  Goal
  BY <1>2, OpensInv
<1>3. ASSUME NEW k \in Conns, Closes(k),
             UNCHANGED mqtt_tcp \/ (Served /\ k \in OpenAt(Head(mqtt_tcp).addr))
      PROVE  Goal
  <2> DEFINE a == AddrOf[k]
  <2>1. a \in Addrs /\ tcp_mqtt' = Append(tcp_mqtt, Notice(a, k))
    BY <1>3, ConnsAssumption DEF Closes
  <2>2. /\ sock[k] = "open"
        /\ \A j \in Conns : sock'[j] = IF j = k THEN "closed" ELSE sock[j]
    BY <1>3, InvTypes DEF Closes
  <2>3. \A j \in Conns : AddrOf[j] = a => sock'[j] # "open"
    BY <2>2 DEF IInv, QueueInv, OneOpen
  <2>4. UNCHANGED mqtt_tcp \/ (Served /\ Head(mqtt_tcp).addr = a)
    BY <1>3 DEF OpenAt
  <2>5. \A j \in Conns : sock'[j] = sock[j] \/
                           (sock[j] = "open" /\ sock'[j] = "closed" /\ AddrOf[j] = a)
    BY <2>2
  <2> HIDE DEF a
  <2> QED  BY <2>1, <2>3, <2>4, <2>5, NoteInv
<1>4. ASSUME NEW k \in Conns, Passes(k)
      PROVE  Goal
  BY <1>4, PassesInv
<1>5. ASSUME Served, Head(mqtt_tcp).addr \in Addrs, Misses(Head(mqtt_tcp).addr)
      PROVE  Goal
  <2> DEFINE a == Head(mqtt_tcp).addr
  <2>1. a \in Addrs /\ tcp_mqtt' = Append(tcp_mqtt, Notice(a, NoConn)) /\ UNCHANGED sock
    BY <1>5 DEF Misses
  <2>2. \A j \in Conns : AddrOf[j] = a => sock'[j] # "open"
    BY <1>5 DEF Misses, OpenAt
  <2>3. Served /\ Head(mqtt_tcp).addr = a
    BY <1>5
  <2>4. \A j \in Conns : sock'[j] = sock[j] \/
                           (sock[j] = "open" /\ sock'[j] = "closed" /\ AddrOf[j] = a)
    BY <2>1
  <2> HIDE DEF a
  <2> QED  BY <2>1, <2>2, <2>3, <2>4, NoteInv
<1>6. ASSUME UNCHANGED <<sock, tcp_mqtt>>,
             UNCHANGED mqtt_tcp \/ (Served /\ ~Head(mqtt_tcp).close)
      PROVE  Goal
  <2>1. UNCHANGED <<Live, owners, past, ordered>>
    BY DEF mqtt_vars, Live, owners, Owner
  <2>2. ASSUME NEW a, HasOrder(mqtt_tcp, a)
        PROVE  HasOrder(mqtt_tcp', a)
    <3>1. CASE UNCHANGED mqtt_tcp
      BY <2>2, <3>1
    <3>2. CASE Served /\ ~Head(mqtt_tcp).close
      <4>1. Head(mqtt_tcp) # Order(a)
        BY <3>2 DEF Order
      <4> QED  BY <2>2, <3>2, <4>1, InvTypes, OrderServed
    <3> QED  BY <1>6, <3>1, <3>2
  <2>3. OrdersInv'
    BY <1>6, <2>1, <2>2 DEF IInv, OrdersInv
  <2> QED  BY <1>6, <2>1, <2>3 DEF IInv
<1>7. Goal
  BY <1>1, <1>2, <1>3, <1>4, <1>5, <1>6 DEF TcpEffect
<1> QED  BY <1>1, <1>7 DEF IInv

\* The message at the head of the queue
LEMMA HeadView ==
  ASSUME IInv, tcp_mqtt # <<>>
  PROVE  /\ FirstGone(tcp_mqtt, Tail(tcp_mqtt))
         /\ First = tcp_mqtt[1] /\ 1 \in 1..Len(tcp_mqtt)
         /\ First.close => Note(tcp_mqtt, 1, Sender) /\ \A k \in Conns : ~Pkt(tcp_mqtt, 1, k)
         /\ ~First.close => Pkt(tcp_mqtt, 1, From) /\ \A a \in Addrs : ~Note(tcp_mqtt, 1, a)
         /\ \A a \in Addrs : Note(tcp_mqtt, 1, a) => a = Sender
<1>1. First = tcp_mqtt[1] /\ 1 \in 1..Len(tcp_mqtt)
  BY FirstTyped DEF IInv, Shape
<1>2. FirstGone(tcp_mqtt, Tail(tcp_mqtt))
  BY InvTypes, TailGone
<1> QED  BY <1>1, <1>2 DEF Pkt, Note, Sender, From

LEMMA OrdersKept ==
  ASSUME IInv, Longer(mqtt_tcp, mqtt_tcp'), UNCHANGED sock,
         \A k \in ordered' : k \in ordered \/
           (sock[k] # "new" /\ HasOrder(mqtt_tcp', AddrOf[k]))
  PROVE  OrdersInv'
<1>1. IsList(mqtt_tcp)
  BY InvTypes DEF Outgoing
<1>2. \A a : HasOrder(mqtt_tcp, a) => HasOrder(mqtt_tcp', a)
  BY <1>1, OrderStays
<1> QED  BY <1>2 DEF IInv, OrdersInv

LEMMA KeptSessions ==
  ASSUME IInv, SessionsKept
  PROVE  UNCHANGED <<Live, owners, past>>
BY DEF SessionsKept, Live, owners, Owner

LEMMA BeginsLive ==
  ASSUME IInv, Sender \in Addrs, Begins
  PROVE  Live' = Live \cup {Sender} /\ Sender \notin Live /\ UNCHANGED past
<1>1. /\ mqtt_conns \in Seq(Addrs) /\ DOMAIN mqtt_conns = 1..Len(mqtt_conns)
      /\ Len(mqtt_conns) \in Nat
  BY LenProperties DEF IInv, Shape, MqttShape
<1>2. /\ mqtt_conns' \in Seq(Addrs) /\ Len(mqtt_conns') = Len(mqtt_conns) + 1
      /\ \A i \in 1..Len(mqtt_conns) : mqtt_conns'[i] = mqtt_conns[i]
      /\ mqtt_conns'[Len(mqtt_conns) + 1] = Sender
  BY <1>1, AppendProperties DEF Begins
<1>3. DOMAIN mqtt_conns' = 1..Len(mqtt_conns')
  BY <1>2, LenProperties
<1>4. ASSUME NEW a
      PROVE  a \in Live' <=> a \in Live \cup {Sender}
  BY <1>1, <1>2, <1>3 DEF Live, ToSet
<1> QED  BY <1>4 DEF Begins

LEMMA PacketInv ==
  ASSUME IInv, HandlePacket, UNCHANGED tcp_vars
  PROVE  IInv'
<1>1. /\ Take /\ QueueShape' /\ MqttShape'
      /\ Longer(mqtt_tcp, mqtt_tcp') /\ Orders
      /\ \/ Connect /\ Begins
         \/ (Sender \in Live \/ Ignore) /\ SessionsKept
  BY PacketStep DEF IInv
<1>2. /\ tcp_mqtt # <<>> /\ ~First.close
      /\ Sender \in Addrs /\ From \in Conns /\ AddrOf[From] = Sender
  BY <1>1, TakeShape DEF IInv, Shape, MqttShape
<1>3. /\ FirstGone(tcp_mqtt, Tail(tcp_mqtt))
      /\ Pkt(tcp_mqtt, 1, From) /\ \A a \in Addrs : ~Note(tcp_mqtt, 1, a)
  BY <1>2, HeadView
<1>4. tcp_mqtt' = Tail(tcp_mqtt) \/ UNCHANGED tcp_mqtt
  BY <1>1 DEF Take
<1>5. UNCHANGED sock /\ TcpShape'
  BY DEF tcp_vars, IInv, Shape, TcpShape
<1>6. /\ QueueInv(tcp_mqtt, sock) /\ SessionInv(tcp_mqtt, sock, Live, owners, past)
      /\ \A j \in Conns : sock[j] \in {"new", "open", "closed"}
  BY InvTypes DEF IInv
<1>7. QueueInv(tcp_mqtt', sock)
  BY <1>3, <1>4, <1>6, QueueGone
<1>8. /\ SessionInv(tcp_mqtt, sock, Live', owners', past')
      /\ Live' \in SUBSET Addrs
  <2>1. CASE SessionsKept
    BY <1>6, <2>1, InvTypes, KeptSessions
  <2>2. CASE Begins
    <3>1. Live' = Live \cup {Sender} /\ Sender \notin Live /\ UNCHANGED past
      BY <1>2, <2>2, BeginsLive
    <3>2. owners'[Sender] = From /\ \A a \in Live : owners'[a] = owners[a]
      BY <1>2, <2>2, <3>1, InvTypes DEF Begins, owners, Owner
    <3>3. SessionInv(tcp_mqtt, sock, Live \cup {AddrOf[From]}, owners', past)
      <4>1. /\ \A i \in Nat, j \in Conns : Pkt(tcp_mqtt, i, j) => i > 0
            /\ \A i \in Nat, b \in Addrs : Note(tcp_mqtt, i, b) => i > 0
        BY <1>3 DEF FirstGone
      <4>2. /\ owners'[AddrOf[From]] = From /\ AddrOf[From] \notin Live
        BY <1>2, <3>1, <3>2
      <4> QED  BY <1>2, <1>3, <1>6, <3>2, <4>1, <4>2, InvTypes, SessionBegin
    <3> QED  BY <1>2, <3>1, <3>3, InvTypes
  <2> QED  BY <1>1, <2>1, <2>2
<1>9. SessionInv(tcp_mqtt', sock, Live', owners', past')
  BY <1>3, <1>4, <1>8, SessionGone
<1>10. OrdersInv'
  <2>1. sock[From] # "new"
    BY <1>2, <1>3, <1>6 DEF QueueInv, Opened
  <2>2. \A k \in ordered' : k \in ordered \/
           (sock[k] # "new" /\ HasOrder(mqtt_tcp', AddrOf[k]))
    BY <1>1, <1>2, <2>1 DEF Orders
  <2> QED  BY <1>1, <1>5, <2>2, OrdersKept
<1> QED  BY <1>1, <1>5, <1>7, <1>9, <1>10 DEF IInv, Shape

LEMMA NoticeInv ==
  ASSUME IInv, HandleNotice, UNCHANGED tcp_vars
  PROVE  /\ IInv'
         /\ Sender \in Live => sock[Owner(Sender)] = "closed"
<1>1. /\ QueueShape' /\ MqttShape'
      /\ Longer(mqtt_tcp, mqtt_tcp') /\ UNCHANGED ordered
      /\ tcp_mqtt # <<>> /\ First.close /\ tcp_mqtt' = Tail(tcp_mqtt)
      /\ Sender \in Addrs
      /\ IF Sender \in Live THEN Ends(Sender) ELSE SessionsKept
  BY NoticeStep DEF IInv
<1>2. /\ FirstGone(tcp_mqtt, tcp_mqtt')
      /\ Note(tcp_mqtt, 1, Sender) /\ \A k \in Conns : ~Pkt(tcp_mqtt, 1, k)
      /\ \A a \in Addrs : Note(tcp_mqtt, 1, a) => a = Sender
  BY <1>1, HeadView
<1>3. UNCHANGED sock /\ TcpShape'
  BY DEF tcp_vars, IInv, Shape, TcpShape
<1>4. /\ QueueInv(tcp_mqtt, sock) /\ SessionInv(tcp_mqtt, sock, Live, owners, past)
      /\ \A j \in Conns : sock[j] \in {"new", "open", "closed"}
  BY InvTypes DEF IInv
<1>5. QueueInv(tcp_mqtt', sock)
  BY <1>2, <1>4, QueueGone
<1>6. /\ SessionInv(tcp_mqtt, sock, Live', owners', past')
      /\ Live' \in SUBSET Addrs /\ Sender \notin Live'
      /\ Sender \in Live => sock[Owner(Sender)] = "closed"
  <2>1. CASE Sender \notin Live
    <3>1. UNCHANGED <<Live, owners, past>>
      BY <1>1, <2>1, KeptSessions
    <3> QED  BY <1>4, <2>1, <3>1, InvTypes
  <2>2. CASE Sender \in Live
    <3>1. Ends(Sender)
      BY <1>1, <2>2
    <3>2. /\ Live' = Live \ {Sender} /\ past' = past \cup {owners[Sender]}
          /\ \A b \in Live \ {Sender} : owners'[b] = owners[b]
          /\ owners[Sender] = Owner(Sender)
      BY <1>1, <3>1, InvTypes DEF Ends, owners, Owner
    <3>3. \A i \in Nat, j \in Conns : Pkt(tcp_mqtt, i, j) => i > 0
      BY <1>2 DEF FirstGone
    <3>4. /\ SessionInv(tcp_mqtt, sock, Live \ {Sender}, owners', past \cup {owners[Sender]})
          /\ sock[owners[Sender]] = "closed"
      BY <1>2, <1>4, <2>2, <3>2, <3>3, InvTypes, SessionEnd
    <3> QED  BY <2>2, <3>2, <3>4, InvTypes
  <2> QED  BY <2>1, <2>2
<1>7. SessionInv(tcp_mqtt', sock, Live', owners', past')
  BY <1>2, <1>6, SessionGone
<1>8. OrdersInv'
  BY <1>1, <1>3, OrdersKept
<1> QED  BY <1>1, <1>3, <1>5, <1>6, <1>7, <1>8 DEF IInv, Shape

LEMMA TimerInv ==
  ASSUME IInv, Timer, UNCHANGED tcp_vars
  PROVE  IInv'
<1>1. /\ MqttShape' /\ SessionsKept /\ Longer(mqtt_tcp, mqtt_tcp')
      /\ UNCHANGED <<tcp_mqtt, proc>>
      /\ \A k \in ordered' : k \in ordered \/
           \E a \in Live : k = Owner(a) /\ HasOrder(mqtt_tcp', a)
  BY TimerStep DEF IInv
<1>2. Shape'
  BY <1>1 DEF tcp_vars, IInv, Shape, QueueShape, TcpShape, HasFirst, First
<1>3. UNCHANGED <<Live, owners, past, sock>>
  BY <1>1, KeptSessions DEF tcp_vars
<1>4. \A k \in ordered' : k \in ordered \/
        (sock[k] # "new" /\ HasOrder(mqtt_tcp', AddrOf[k]))
  <2>1. \A a \in Live : sock[Owner(a)] # "new" /\ AddrOf[Owner(a)] = a
    BY InvTypes DEF IInv, SessionInv, Owned, owners
  <2> QED  BY <1>1, <2>1
<1>5. OrdersInv'
  BY <1>1, <1>3, <1>4, OrdersKept
<1> QED  BY <1>1, <1>2, <1>3, <1>5 DEF IInv

LEMMA NextIInv ==
  ASSUME IInv, [Next]_vars
  PROVE  IInv'
<1>1. CASE TcpNext /\ UNCHANGED mqtt_vars
  BY <1>1, TcpInv
<1>2. CASE MqttNext /\ UNCHANGED tcp_vars
  BY <1>2, PacketInv, NoticeInv, TimerInv DEF MqttNext
<1>3. CASE UNCHANGED vars
  <2>1. Shape'
    BY <1>3, NextShape DEF IInv
  <2>2. UNCHANGED <<tcp_mqtt, mqtt_tcp, sock, Live, owners, past, ordered>>
    BY <1>3 DEF vars, queues, tcp_vars, mqtt_vars, Live, owners, Owner
  <2>3. OrdersInv'
    BY <2>2 DEF IInv, OrdersInv
  <2> QED  BY <2>1, <2>2, <2>3 DEF IInv
<1> QED  BY <1>1, <1>2, <1>3 DEF Next

LEMMA Invariant == Spec => []IInv
<1>1. Init => IInv
  BY InitIInv
<1>2. IInv /\ [Next]_vars => IInv'
  BY NextIInv
<1> QED  BY <1>1, <1>2, PTL DEF Spec

-----------------------------------------------------------------------------
(* The packets of a connection in a queue *)

Part(m, k) == IF ~m.close /\ m.conn = k THEN m.packets ELSE <<>>
Parts(q, k) == [i \in 1..Len(q) |-> Part(q[i], k)]
PacketsIn(q, k) == FlattenSeq(Parts(q, k))

LEMMA PartTyped ==
  ASSUME NEW m \in Message, NEW k
  PROVE  Part(m, k) \in Seq(Packet)
BY EmptySeq DEF Part, Message

LEMMA PartsTyped ==
  ASSUME NEW q \in Seq(Message), NEW k
  PROVE  /\ Parts(q, k) \in Lists(Packet) /\ Len(Parts(q, k)) = Len(q)
         /\ Len(q) \in Nat
         /\ \A i \in 1..Len(q) : Parts(q, k)[i] = Part(q[i], k)
<1> DEFINE p == Parts(q, k)
<1>1. Len(q) \in Nat /\ \A i \in 1..Len(q) : q[i] \in Message
  BY LenProperties, ElementOfSeq
<1>2. \A i \in 1..Len(q) : p[i] = Part(q[i], k)
  BY DEF Parts
<1>3. \A i \in 1..Len(q) : p[i] \in Seq(Packet)
  BY <1>1, <1>2, PartTyped
<1>4. p = [i \in 1..Len(q) |-> p[i]]
  BY DEF Parts
<1> HIDE DEF p
<1>5. p \in Seq(Seq(Packet)) /\ Len(p) = Len(q)
  BY <1>1, <1>3, <1>4, TypedList
<1> QED  BY <1>1, <1>2, <1>5 DEF p, Lists

LEMMA PacketsAppended ==
  ASSUME NEW q \in Seq(Message), NEW m \in Message, NEW k
  PROVE  PacketsIn(Append(q, m), k) = PacketsIn(q, k) \o Part(m, k)
<1> DEFINE r == Append(q, m)
<1>1. /\ r \in Seq(Message) /\ Len(r) = Len(q) + 1 /\ Len(q) \in Nat
      /\ \A i \in 1..Len(q) : r[i] = q[i]
      /\ r[Len(q) + 1] = m
  BY AppendProperties, LenProperties
<1> HIDE DEF r
<1>2. /\ Parts(r, k) \in Lists(Packet) /\ Len(Parts(r, k)) = Len(q) + 1
      /\ \A i \in 1..Len(q) + 1 : Parts(r, k)[i] = Part(r[i], k)
  BY <1>1, PartsTyped
<1>3. /\ Parts(q, k) \in Lists(Packet) /\ Len(Parts(q, k)) = Len(q)
      /\ \A i \in 1..Len(q) : Parts(q, k)[i] = Part(q[i], k)
  BY PartsTyped
<1>4. Part(m, k) \in Seq(Packet)
  BY PartTyped
<1>5. Parts(r, k) = Append(Parts(q, k), Part(m, k))
  <2> DEFINE u == Append(Parts(q, k), Part(m, k))
  <2>1. /\ u \in Lists(Packet) /\ Len(u) = Len(q) + 1
        /\ \A i \in 1..Len(q) : u[i] = Parts(q, k)[i]
        /\ u[Len(q) + 1] = Part(m, k)
    BY <1>3, <1>4, ListsAppend
  <2> HIDE DEF u
  <2>2. \A i \in 1..Len(q) + 1 : Parts(r, k)[i] = u[i]
    BY <1>1, <1>2, <1>3, <2>1
  <2>3. u \in Seq(Seq(Packet)) /\ Parts(r, k) \in Seq(Seq(Packet))
    BY <1>2, <2>1 DEF Lists
  <2> QED  BY <1>2, <2>1, <2>2, <2>3, SeqEqual DEF u
<1> QED  BY <1>3, <1>4, <1>5, FlattenAppend DEF PacketsIn, r

LEMMA PacketsBehind ==
  ASSUME NEW q \in Seq(Message), NEW k, q # <<>>
  PROVE  /\ PacketsIn(q, k) = Part(Head(q), k) \o PacketsIn(Tail(q), k)
         /\ PacketsIn(q, k) \in Seq(Packet) /\ PacketsIn(Tail(q), k) \in Seq(Packet)
<1> DEFINE r == Tail(q)
<1>1. /\ r \in Seq(Message) /\ Len(r) = Len(q) - 1 /\ Len(q) \in Nat \ {0}
      /\ \A i \in 1..Len(r) : r[i] = q[i + 1]
      /\ Head(q) = q[1]
  BY HeadTailProperties, EmptySeq
<1> HIDE DEF r
<1>2. /\ Parts(r, k) \in Lists(Packet) /\ Len(Parts(r, k)) = Len(r)
      /\ \A i \in 1..Len(r) : Parts(r, k)[i] = Part(r[i], k)
  BY <1>1, PartsTyped
<1>3. /\ Parts(q, k) \in Lists(Packet) /\ Len(Parts(q, k)) = Len(q)
      /\ \A i \in 1..Len(q) : Parts(q, k)[i] = Part(q[i], k)
  BY PartsTyped
<1>4. Parts(q, k) # <<>>
  BY <1>1, <1>3, ListsProperties
<1>5. Head(Parts(q, k)) = Part(Head(q), k)
  BY <1>1, <1>3, <1>4, ListsTail
<1>6. Tail(Parts(q, k)) = Parts(r, k)
  <2> DEFINE u == Tail(Parts(q, k))
  <2>1. /\ u \in Lists(Packet) /\ Len(u) = Len(q) - 1
        /\ \A i \in 1..(Len(q) - 1) : u[i] = Parts(q, k)[i + 1]
    BY <1>3, <1>4, ListsTail
  <2> HIDE DEF u
  <2>2. \A i \in 1..Len(r) : u[i] = Parts(r, k)[i]
    <3>1. TAKE i \in 1..Len(r)
    <3>2. i \in 1..(Len(q) - 1) /\ i + 1 \in 1..Len(q)
      BY <1>1
    <3>3. u[i] = Part(q[i + 1], k) /\ Parts(r, k)[i] = Part(r[i], k) /\ r[i] = q[i + 1]
      BY <1>1, <1>2, <1>3, <2>1, <3>2
    <3> QED  BY <3>3
  <2>3. u \in Seq(Seq(Packet)) /\ Parts(r, k) \in Seq(Seq(Packet))
    BY <1>2, <2>1 DEF Lists
  <2>4. Len(u) = Len(r) /\ Len(Parts(r, k)) = Len(r)
    BY <1>1, <1>2, <2>1
  <2> QED  BY <2>2, <2>3, <2>4, SeqEqual DEF u
<1>7. PacketsIn(q, k) = Part(Head(q), k) \o PacketsIn(r, k)
  BY <1>3, <1>4, <1>5, <1>6, FlattenHead DEF PacketsIn
<1>8. PacketsIn(q, k) \in Seq(Packet) /\ PacketsIn(r, k) \in Seq(Packet)
  BY <1>2, <1>3, FlattenTyped DEF PacketsIn
<1> QED  BY <1>7, <1>8 DEF r

LEMMA PacketsInIs ==
  ASSUME QueueShape, NEW k
  PROVE  /\ PacketsOf(k) = PacketsIn(tcp_mqtt, k)
         /\ PacketsIn(tcp_mqtt, k) \in Seq(Packet)
<1>1. tcp_mqtt \in Seq(Message) /\ DOMAIN tcp_mqtt = 1..Len(tcp_mqtt)
  BY LenProperties DEF QueueShape
<1>2. Parts(tcp_mqtt, k) = [i \in DOMAIN tcp_mqtt |->
                             IF IsPacketOf(i, k) THEN tcp_mqtt[i].packets ELSE <<>>]
  BY <1>1 DEF Parts, Part, IsPacketOf
<1>3. PacketsOf(k) = PacketsIn(tcp_mqtt, k)
  BY <1>2 DEF PacketsOf, PacketsIn
<1>4. PacketsIn(tcp_mqtt, k) \in Seq(Packet)
  BY <1>1, PartsTyped, FlattenTyped DEF PacketsIn
<1> QED  BY <1>3, <1>4

-----------------------------------------------------------------------------
(* Packets are handled in order *)

\* Packets handled of the first message, if it is one of k.
Begun(k) == IF HasFirst(FALSE) /\ From = k THEN proc ELSE 0

\* The packets of k behind those of the messages that are gone are queued.
InStep(k) ==
  /\ Begun(k) =< handled[k] /\ handled[k] - Begun(k) =< passed[k]
  /\ PacketsIn(tcp_mqtt, k) = SubSeq(script[k], handled[k] - Begun(k) + 1, passed[k])

Read(k) ==
  /\ recvd[k] =< 2 * Len(script[k])
  /\ sock[k] = "new" => recvd[k] = 0

HandledInv == \A k \in Conns : Read(k) /\ InStep(k)

LEMMA BegunTyped ==
  ASSUME QueueShape, NEW k
  PROVE  Begun(k) \in Nat
BY DEF QueueShape, Begun

\* A message at the end does not change how far the first one is.
LEMMA BegunAppended ==
  ASSUME QueueShape, NEW m \in Message, tcp_mqtt' = Append(tcp_mqtt, m), UNCHANGED proc, NEW k
  PROVE  Begun(k)' = Begun(k)
<1>1. tcp_mqtt \in Seq(Message) /\ proc \in Nat
  BY DEF QueueShape
<1>2. tcp_mqtt' # <<>> /\ Head(tcp_mqtt') = IF tcp_mqtt = <<>> THEN m ELSE Head(tcp_mqtt)
  BY <1>1, AppendProperties, HeadTailAppend
<1>3. CASE tcp_mqtt = <<>>
  BY <1>3 DEF QueueShape, Begun, HasFirst
<1>4. CASE tcp_mqtt # <<>>
  BY <1>2, <1>4 DEF Begun, HasFirst, First, From
<1> QED  BY <1>3, <1>4

\* A message without packets of k is added.
LEMMA OtherAdded ==
  ASSUME QueueShape, NEW m \in Message, tcp_mqtt' = Append(tcp_mqtt, m), UNCHANGED proc,
         NEW k \in Conns, InStep(k), m.close \/ m.conn # k,
         handled'[k] = handled[k], passed'[k] = passed[k], script'[k] = script[k]
  PROVE  InStep(k)'
<1>1. tcp_mqtt \in Seq(Message) /\ PacketsIn(tcp_mqtt, k) \in Seq(Packet)
  BY PacketsInIs DEF QueueShape
<1>2. Part(m, k) = <<>>
  BY DEF Part
<1>3. PacketsIn(tcp_mqtt', k) = PacketsIn(tcp_mqtt, k)
  BY <1>1, <1>2, PacketsAppended, ConcatEmptySeq
<1>4. Begun(k)' = Begun(k)
  BY BegunAppended
<1> QED  BY <1>3, <1>4 DEF InStep

\* The packets up to the n-th are passed on.
LEMMA MineAdded ==
  ASSUME QueueShape, NEW k \in Conns, InStep(k), UNCHANGED proc, NEW n \in Nat,
         script[k] \in Seq(Packet), handled[k] \in Nat, passed[k] \in Nat,
         passed[k] =< n, n =< Len(script[k]),
         tcp_mqtt' = Append(tcp_mqtt, Received(k, NewPackets(k, n))),
         Received(k, NewPackets(k, n)) \in Message,
         handled'[k] = handled[k], passed'[k] = n, script'[k] = script[k]
  PROVE  InStep(k)'
<1> DEFINE m == Received(k, NewPackets(k, n))
           d == handled[k] - Begun(k)
<1>1. tcp_mqtt \in Seq(Message)
  BY DEF QueueShape
<1>2. Part(m, k) = NewPackets(k, n)
  BY DEF Part, Received
<1>3. Begun(k)' = Begun(k) /\ Begun(k) \in Nat
  BY BegunAppended, BegunTyped
<1>4. PacketsIn(tcp_mqtt', k) = PacketsIn(tcp_mqtt, k) \o NewPackets(k, n)
  BY <1>1, <1>2, PacketsAppended
<1>5. d \in Nat /\ d =< passed[k] /\ d =< n
  BY <1>3 DEF InStep
<1>6. PacketsIn(tcp_mqtt, k) = SubSeq(script[k], d + 1, passed[k])
  BY DEF InStep
<1> HIDE DEF d
<1>7. SubSeq(script[k], d + 1, passed[k]) \o SubSeq(script[k], passed[k] + 1, n)
        = SubSeq(script[k], d + 1, n)
  <2>1. /\ d + 1 \in 1..Len(script[k]) + 1 /\ passed[k] \in (d + 1) - 1..Len(script[k])
        /\ n \in passed[k]..Len(script[k])
    BY <1>5, LenProperties
  <2> QED  BY <2>1, ConcatAdjacentSubSeq
<1>8. PacketsIn(tcp_mqtt', k) = SubSeq(script[k], d + 1, n)
  BY <1>4, <1>6, <1>7 DEF NewPackets
<1>9. d = handled'[k] - Begun(k)' /\ Begun(k)' =< handled'[k]
  BY <1>3 DEF d, InStep
<1> QED  BY <1>5, <1>8, <1>9 DEF InStep

LEMMA StepUnchanged ==
  ASSUME UNCHANGED <<tcp_mqtt, proc>>, NEW k, InStep(k),
         handled'[k] = handled[k], passed'[k] = passed[k], script'[k] = script[k]
  PROVE  InStep(k)'
BY DEF InStep, Begun, HasFirst, First, From

\* The notice at the head goes.
LEMMA NoticeGone ==
  ASSUME Shape, HandleNotice, UNCHANGED tcp_vars, NEW k \in Conns, InStep(k)
  PROVE  InStep(k)'
<1>1. /\ tcp_mqtt # <<>> /\ First.close /\ tcp_mqtt' = Tail(tcp_mqtt)
      /\ UNCHANGED <<proc, handled, passed, script>>
  BY DEF HandleNotice, HasFirst, tcp_vars
<1>2. QueueShape /\ proc = 0 /\ tcp_mqtt \in Seq(Message)
  BY <1>1 DEF Shape, QueueShape, HasFirst
<1>3. Begun(k) = 0 /\ Begun(k)' = 0
  BY <1>1, <1>2 DEF Begun
<1>4. Part(Head(tcp_mqtt), k) = <<>>
  BY <1>1 DEF Part, First
<1>5. PacketsIn(tcp_mqtt', k) = PacketsIn(tcp_mqtt, k)
  <2>1. /\ PacketsIn(tcp_mqtt, k) = <<>> \o PacketsIn(tcp_mqtt', k)
        /\ PacketsIn(tcp_mqtt', k) \in Seq(Packet)
    BY <1>1, <1>2, <1>4, PacketsBehind
  <2> QED  BY <2>1, ConcatEmptySeq
<1> QED  BY <1>1, <1>3, <1>5 DEF InStep

\* A packet is taken.
LEMMA PacketTaken ==
  ASSUME Shape, Take, UNCHANGED tcp_vars, NEW k \in Conns, Read(k), InStep(k)
  PROVE  InStep(k)'
<1>1. /\ QueueShape' /\ From \in Conns /\ tcp_mqtt # <<>> /\ ~First.close
      /\ HasFirst(FALSE) /\ proc \in Nat /\ proc < Len(First.packets)
      /\ tcp_mqtt \in Seq(Message) /\ handled \in [Conns -> Nat]
      /\ handled' = [handled EXCEPT ![From] = @ + 1] /\ handled' \in [Conns -> Nat]
      /\ UNCHANGED <<script, passed>>
  BY TakeShape DEF Shape, MqttShape, QueueShape, Take, tcp_vars
<1>2. /\ First.packets \in Seq(Packet) /\ Len(First.packets) \in Nat
      /\ Part(Head(tcp_mqtt), k) = IF From = k THEN First.packets ELSE <<>>
  <2>1. First \in Message
    BY <1>1, FirstTyped DEF Shape
  <2>2. First.packets \in Seq(Packet)
    BY <2>1 DEF Message
  <2> QED  BY <1>1, <2>2, LenProperties DEF Part, First, From
<1>3. /\ script[k] \in Seq(Packet) /\ passed[k] \in Nat /\ passed[k] =< Len(script[k])
      /\ handled[k] \in Nat /\ handled'[k] \in Nat
  BY <1>1, LenProperties DEF Shape, TcpShape, Read
<1>4. CASE proc + 1 < Len(First.packets)
  <2>1. proc' = proc + 1 /\ UNCHANGED tcp_mqtt
    BY <1>4 DEF Take
  <2>2. CASE From = k
    <3>1. handled'[k] = handled[k] + 1 /\ Begun(k) = proc /\ Begun(k)' = proc + 1
      BY <1>1, <2>1, <2>2 DEF Begun, HasFirst, First, From
    <3>2. handled'[k] - Begun(k)' = handled[k] - Begun(k)
      BY <1>1, <1>3, <3>1
    <3>3. Begun(k)' =< handled'[k]
      BY <1>1, <1>3, <3>1 DEF InStep
    <3> QED  BY <1>1, <2>1, <3>2, <3>3 DEF InStep
  <2>3. CASE From # k
    <3>1. handled'[k] = handled[k] /\ Begun(k) = 0 /\ Begun(k)' = 0
      BY <1>1, <2>1, <2>3 DEF Begun, HasFirst, First, From
    <3> QED  BY <1>1, <2>1, <3>1 DEF InStep
  <2> QED  BY <2>2, <2>3
<1>5. CASE ~(proc + 1 < Len(First.packets))
  <2>1. proc' = 0 /\ tcp_mqtt' = Tail(tcp_mqtt) /\ Len(First.packets) = proc + 1
    BY <1>1, <1>2, <1>5 DEF Take
  <2>2. Begun(k)' = 0
    BY <2>1 DEF Begun
  <2>3. /\ PacketsIn(tcp_mqtt, k) = Part(Head(tcp_mqtt), k) \o PacketsIn(tcp_mqtt', k)
        /\ PacketsIn(tcp_mqtt', k) \in Seq(Packet) /\ PacketsIn(tcp_mqtt, k) \in Seq(Packet)
    BY <1>1, <2>1, PacketsBehind
  <2>4. CASE From # k
    <3>1. handled'[k] = handled[k] /\ Begun(k) = 0
      BY <1>1, <2>4 DEF Begun
    <3>2. PacketsIn(tcp_mqtt', k) = PacketsIn(tcp_mqtt, k)
      BY <1>2, <2>3, <2>4, ConcatEmptySeq
    <3> QED  BY <1>1, <2>2, <3>1, <3>2 DEF InStep
  <2>5. CASE From = k
    <3> DEFINE d == handled[k] - proc
               a == First.packets
               b == PacketsIn(tcp_mqtt', k)
               c == PacketsIn(tcp_mqtt, k)
    <3>1. handled'[k] = handled[k] + 1 /\ Begun(k) = proc
      BY <1>1, <2>5 DEF Begun
    <3>2. /\ d \in Nat /\ d =< passed[k]
          /\ c = SubSeq(script[k], d + 1, passed[k])
      BY <1>1, <1>3, <3>1 DEF InStep
    <3>3. a \in Seq(Packet) /\ b \in Seq(Packet) /\ c = a \o b /\ Len(a) = proc + 1
      BY <1>2, <2>1, <2>3, <2>5
    <3>4. handled'[k] = d + Len(a) /\ Len(a) \in Nat
      BY <1>1, <1>3, <2>1, <3>1
    <3>5. a # <<>>
      BY <1>1, <3>3, EmptySeq
    <3> DEFINE s == script[k]
               n == passed[k]
    <3>6. s \in Seq(Packet) /\ n \in Nat /\ n =< Len(s)
      BY <1>3
    <3>7. a \o b = SubSeq(s, d + 1, n)
      BY <3>2, <3>3
    <3> HIDE DEF a, b, c, d, s, n
    <3>8. b = SubSeq(s, handled'[k] + 1, n) /\ handled'[k] =< n
      <4>1. b = SubSeq(s, d + Len(a) + 1, n) /\ d + Len(a) =< n
        <5>1. d \in Nat /\ a \in Seq(Packet) /\ b \in Seq(Packet)
          BY <3>2, <3>3
        <5> QED  BY <3>5, <3>6, <3>7, <5>1, SubSeqRest
      <4> QED  BY <3>4, <4>1
    <3>9. handled'[k] - 0 = handled'[k] /\ 0 =< handled'[k]
      BY <1>3
    <3> QED  BY <1>1, <2>2, <3>8, <3>9 DEF InStep, b, s, n
  <2> QED  BY <2>4, <2>5
<1> QED  BY <1>4, <1>5

\* A connection is accepted: nothing of it was read before.
LEMMA AcceptInOrder ==
  ASSUME Shape, HandledInv, NEW j \in Conns, Accept(j), UNCHANGED mqtt_vars
  PROVE  HandledInv'
<1>1. /\ sock[j] = "new" /\ sock' = [sock EXCEPT ![j] = "open"]
      /\ UNCHANGED <<recvd, passed, tcp_mqtt, proc, handled>>
  BY DEF Accept, queues, mqtt_vars
<1>2. PICK t \in Scripts[j] : script' = [script EXCEPT ![j] = t]
  BY DEF Accept
<1>3. /\ t \in Seq(Packet) /\ sock \in [Conns -> {"new", "open", "closed"}]
      /\ script \in [Conns -> Seq(Packet)]
      /\ \A k \in Conns : recvd[k] \in Nat /\ passed[k] \in Nat /\ 2 * passed[k] =< recvd[k]
  BY ScriptsAssumption DEF Shape, TcpShape
<1>4. ASSUME NEW k \in Conns, k # j
      PROVE  Read(k)' /\ InStep(k)'
  <2>1. script'[k] = script[k] /\ sock'[k] = sock[k]
    BY <1>1, <1>2, <1>3, <1>4
  <2>2. InStep(k)'
    BY <1>1, <2>1, StepUnchanged DEF HandledInv
  <2> QED  BY <1>1, <2>1, <2>2 DEF HandledInv, Read
<1>5. Read(j)' /\ InStep(j)'
  <2>1. recvd[j] = 0 /\ passed[j] = 0
    BY <1>1, <1>3 DEF HandledInv, Read
  <2>2. /\ Begun(j) \in Nat /\ Begun(j)' = Begun(j) /\ handled[j] \in Nat
        /\ InStep(j)
    <3>1. Begun(j)' = Begun(j)
      BY <1>1 DEF Begun, HasFirst, First, From
    <3> QED  BY <3>1, BegunTyped DEF HandledInv, Shape, MqttShape
  <2>3. handled[j] - Begun(j) = 0
    BY <2>1, <2>2 DEF InStep
  <2>4. PacketsIn(tcp_mqtt, j) = SubSeq(script[j], 1, 0)
    BY <2>1, <2>2, <2>3 DEF InStep
  <2>5. \A u : SubSeq(u, 1, 0) = <<>>
    OBVIOUS
  <2>6. script'[j] = t /\ sock'[j] = "open" /\ Len(t) \in Nat
    BY <1>1, <1>2, <1>3, LenProperties
  <2>7. Read(j)'
    BY <1>1, <2>1, <2>6 DEF Read
  <2>8. PacketsIn(tcp_mqtt, j) = SubSeq(script'[j], 0 + 1, 0)
    BY <2>4, <2>5
  <2>9. handled'[j] = handled[j] /\ passed'[j] = 0 /\ PacketsIn(tcp_mqtt, j)' = PacketsIn(tcp_mqtt, j)
    BY <1>1, <2>1
  <2>10. handled'[j] - Begun(j)' = 0 /\ Begun(j)' =< handled'[j]
    BY <2>2, <2>3, <2>9
  <2> QED  BY <2>7, <2>8, <2>9, <2>10 DEF InStep
<1> QED  BY <1>4, <1>5 DEF HandledInv

\* A notice is added.
LEMMA NoticeInOrder ==
  ASSUME Shape, HandledInv, NEW a \in Addrs, NEW j \in Conns \cup {NoConn},
         tcp_mqtt' = Append(tcp_mqtt, Notice(a, j)),
         UNCHANGED <<script, recvd, passed>>, UNCHANGED mqtt_vars,
         \A k \in Conns : sock'[k] = "new" => sock[k] = "new"
  PROVE  HandledInv'
<1>1. Notice(a, j) \in Message /\ Notice(a, j).close
  BY NoticeType
<1>2. UNCHANGED <<proc, handled>> /\ QueueShape
  BY DEF mqtt_vars, Shape
<1>3. ASSUME NEW k \in Conns
      PROVE  Read(k)' /\ InStep(k)'
  <2>1. InStep(k)'
    BY <1>1, <1>2, OtherAdded DEF HandledInv
  <2> QED  BY <2>1 DEF HandledInv, Read
<1> QED  BY <1>3 DEF HandledInv

\* Data is read, if any, and nothing is passed on.
LEMMA SilenceInOrder ==
  ASSUME HandledInv, UNCHANGED <<tcp_mqtt, proc, handled, script, passed>>,
         \A k \in Conns : /\ recvd'[k] =< 2 * Len(script[k])
                          /\ sock'[k] = "new" => recvd'[k] = 0
  PROVE  HandledInv'
<1>1. ASSUME NEW k \in Conns
      PROVE  Read(k)' /\ InStep(k)'
  <2>1. InStep(k)'
    BY StepUnchanged DEF HandledInv
  <2> QED  BY <2>1 DEF Read
<1> QED  BY <1>1 DEF HandledInv

\* Data is read, and the buffer passed on.
LEMMA PassedInOrder ==
  ASSUME Shape, HandledInv, UNCHANGED mqtt_vars, NEW j \in Conns, NEW m \in Nat,
         recvd[j] < 2 * m, 2 * m =< 2 * Len(script[j]), sock[j] = "open",
         UNCHANGED <<sock, script>>, recvd' = [recvd EXCEPT ![j] = 2 * m],
         tcp_mqtt' = Append(tcp_mqtt, Received(j, NewPackets(j, m))),
         passed' = [passed EXCEPT ![j] = m]
  PROVE  HandledInv'
<1>1. UNCHANGED <<proc, handled>> /\ QueueShape /\ TcpShape
  BY DEF mqtt_vars, Shape
<1>2. /\ script[j] \in Seq(Packet) /\ Len(script[j]) \in Nat /\ handled[j] \in Nat
      /\ recvd \in [Conns -> Nat] /\ passed \in [Conns -> Nat]
      /\ passed[j] \in Nat /\ 2 * passed[j] =< recvd[j] /\ recvd[j] \in Nat
  BY LenProperties DEF Shape, TcpShape, MqttShape
<1>3. Received(j, NewPackets(j, m)) \in Message
  <2>1. NewPackets(j, m) \in Seq(Packet) /\ NewPackets(j, m) # <<>>
    BY <1>1, PassedPackets
  <2> QED  BY <2>1, ReceivedType
<1>4. InStep(j)'
  <2>1. passed[j] =< m /\ m =< Len(script[j]) /\ passed'[j] = m
    BY <1>2
  <2> QED  BY <1>1, <1>2, <1>3, <2>1, MineAdded DEF HandledInv
<1>5. ASSUME NEW k \in Conns, k # j
      PROVE  InStep(k)'
  <2>1. passed'[k] = passed[k]
    BY <1>2, <1>5
  <2>2. Received(j, NewPackets(j, m)).conn # k
    BY <1>5 DEF Received
  <2> QED  BY <1>1, <1>3, <2>1, <2>2, OtherAdded DEF HandledInv
<1>6. ASSUME NEW k \in Conns
      PROVE  Read(k)'
  <2>1. recvd'[k] = IF k = j THEN 2 * m ELSE recvd[k]
    BY <1>2
  <2>2. Read(k)
    BY DEF HandledInv
  <2> QED  BY <2>1, <2>2 DEF Read
<1> QED  BY <1>4, <1>5, <1>6 DEF HandledInv

LEMMA RecvInOrder ==
  ASSUME Shape, HandledInv, UNCHANGED mqtt_vars, NEW k \in Conns, NEW n \in Sizes, Recv(k, n)
  PROVE  HandledInv'
<1>1. /\ sock[k] = "open" /\ recvd[k] + n =< 2 * Len(script[k])
      /\ UNCHANGED <<script, mqtt_tcp>>
  BY DEF Recv
<1>2. /\ n \in Nat /\ n > 0 /\ recvd \in [Conns -> Nat] /\ recvd[k] \in Nat
      /\ sock \in [Conns -> {"new", "open", "closed"}]
  BY BufAssumption DEF Shape, TcpShape
<1>3. CASE recv_cnt(k) + n > MaxBuf /\ CloseConn(k) /\ UNCHANGED <<recvd, passed>>
  <2>1. AddrOf[k] \in Addrs
    BY ConnsAssumption
  <2>2. \A l \in Conns : sock'[l] = "new" => sock[l] = "new"
    BY <1>2, <1>3 DEF CloseConn
  <2> QED  BY <1>1, <1>3, <2>1, <2>2, NoticeInOrder DEF CloseConn
<1>4. CASE /\ recvd' = [recvd EXCEPT ![k] = @ + n]
           /\ Whole(recvd'[k])
           /\ PassOn(k, recvd'[k] \div 2)
           /\ UNCHANGED sock
  <2> DEFINE m == (recvd[k] + n) \div 2
  <2>1. recvd'[k] = recvd[k] + n
    BY <1>2, <1>4
  <2>2. m \in Nat /\ 2 * m = recvd[k] + n
    BY <1>2, <1>4, <2>1, Halves
  <2>3. /\ tcp_mqtt' = Append(tcp_mqtt, Received(k, NewPackets(k, m)))
        /\ passed' = [passed EXCEPT ![k] = m]
    BY <1>4, <2>1 DEF PassOn, NewPackets
  <2> HIDE DEF m
  <2>4. 2 * m =< 2 * Len(script[k]) /\ recvd[k] < 2 * m
    BY <1>1, <1>2, <2>2
  <2>5. recvd' = [recvd EXCEPT ![k] = 2 * m]
    BY <1>4, <2>2
  <2> QED  BY <1>1, <1>4, <2>2, <2>3, <2>4, <2>5, PassedInOrder
<1>5. CASE recvd' = [recvd EXCEPT ![k] = @ + n] /\ UNCHANGED <<tcp_mqtt, passed, sock>>
  <2>1. UNCHANGED <<proc, handled>>
    BY DEF mqtt_vars
  <2>2. ASSUME NEW l \in Conns
        PROVE  /\ recvd'[l] =< 2 * Len(script[l])
               /\ sock'[l] = "new" => recvd'[l] = 0
    <3>1. recvd'[l] = IF l = k THEN recvd[k] + n ELSE recvd[l]
      BY <1>2, <1>5
    <3>2. Read(l)
      BY DEF HandledInv
    <3> QED  BY <1>1, <1>5, <3>1, <3>2 DEF Read
  <2> QED  BY <1>1, <1>5, <2>1, <2>2, SilenceInOrder
<1> QED  BY <1>3, <1>4, <1>5 DEF Recv

LEMMA ServeInOrder ==
  ASSUME Shape, HandledInv, UNCHANGED mqtt_vars, Serve
  PROVE  HandledInv'
<1> DEFINE m == Head(mqtt_tcp)
<1>1. UNCHANGED <<script, recvd, passed>> /\ UNCHANGED <<proc, handled>>
  BY DEF Serve, mqtt_vars
<1>2. m.addr \in Addrs /\ sock \in [Conns -> {"new", "open", "closed"}]
  <2>1. Outgoing(mqtt_tcp) /\ Served
    BY DEF Serve, Served, Shape, MqttShape
  <2> QED  BY <2>1, TailOutgoing DEF Shape, TcpShape
<1>3. CASE \E k \in OpenAt(m.addr) : CloseConn(k)
  <2>1. PICK k \in OpenAt(m.addr) : CloseConn(k)
    BY <1>3
  <2>2. k \in Conns /\ AddrOf[k] \in Addrs
    BY <2>1, ConnsAssumption DEF OpenAt
  <2>3. \A l \in Conns : sock'[l] = "new" => sock[l] = "new"
    BY <1>2, <2>1, <2>2 DEF CloseConn
  <2> QED  BY <1>1, <2>1, <2>2, <2>3, NoticeInOrder DEF CloseConn
<1>4. CASE UNCHANGED <<sock, tcp_mqtt>>
  <2>1. \A k \in Conns : /\ recvd'[k] =< 2 * Len(script[k])
                         /\ sock'[k] = "new" => recvd'[k] = 0
    BY <1>1, <1>4 DEF HandledInv, Read
  <2> QED  BY <1>1, <1>4, <2>1, SilenceInOrder
<1>5. CASE UNCHANGED sock /\ tcp_mqtt' = Append(tcp_mqtt, Notice(m.addr, NoConn))
  BY <1>1, <1>2, <1>5, NoticeInOrder
<1> QED  BY <1>3, <1>4, <1>5 DEF Serve

LEMMA TcpInOrder ==
  ASSUME Shape, HandledInv, TcpNext, UNCHANGED mqtt_vars
  PROVE  HandledInv'
<1>1. ASSUME NEW k \in Conns, RecvEnd(k)
      PROVE  HandledInv'
  <2>1. AddrOf[k] \in Addrs
    BY ConnsAssumption
  <2>2. \A l \in Conns : sock'[l] = "new" => sock[l] = "new"
    BY <1>1 DEF RecvEnd, CloseConn, Shape, TcpShape
  <2> QED  BY <1>1, <2>1, <2>2, NoticeInOrder DEF RecvEnd, CloseConn
<1> QED  BY <1>1, AcceptInOrder, RecvInOrder, ServeInOrder DEF TcpNext

LEMMA MqttInOrder ==
  ASSUME Shape, HandledInv, MqttNext, UNCHANGED tcp_vars
  PROVE  HandledInv'
<1>1. \A k \in Conns : Read(k)'
  BY DEF HandledInv, Read, tcp_vars
<1>2. ASSUME NEW k \in Conns
      PROVE  InStep(k)'
  <2>1. CASE HandleNotice
    BY <2>1, NoticeGone DEF HandledInv
  <2>2. CASE HandlePacket
    BY <2>2, PacketStep, PacketTaken DEF HandledInv
  <2>3. CASE Timer
    <3>1. UNCHANGED <<tcp_mqtt, proc, handled, passed, script>>
      BY <2>3 DEF Timer, tcp_vars
    <3> QED  BY <3>1, StepUnchanged DEF HandledInv
  <2> QED  BY <2>1, <2>2, <2>3 DEF MqttNext
<1> QED  BY <1>1, <1>2 DEF HandledInv

LEMMA InitInOrder ==
  ASSUME Init
  PROVE  HandledInv
<1>1. /\ tcp_mqtt = <<>> /\ script = [k \in Conns |-> <<>>]
      /\ recvd = [k \in Conns |-> 0] /\ passed = [k \in Conns |-> 0]
      /\ handled = [k \in Conns |-> 0]
  BY DEF Init, TcpInit, MqttInit
<1>2. Len(<<>>) = 0 /\ \A u : SubSeq(u, 1, 0) = <<>>
  OBVIOUS
<1>3. ASSUME NEW k \in Conns
      PROVE  Read(k) /\ InStep(k)
  <2>1. PacketsIn(<<>>, k) = <<>>
    <3>1. Parts(<<>>, k) = <<>>
      BY <1>2 DEF Parts
    <3> QED  BY <3>1, FlattenEmpty DEF PacketsIn
  <2>2. Begun(k) = 0
    BY <1>1 DEF Begun, HasFirst
  <2>3. handled[k] = 0 /\ passed[k] = 0 /\ script[k] = <<>>
    BY <1>1
  <2>4. handled[k] - Begun(k) = 0 /\ SubSeq(script[k], 0 + 1, 0) = <<>>
    BY <1>2, <2>2, <2>3
  <2>5. InStep(k)
    <3>1. PacketsIn(tcp_mqtt, k) = SubSeq(script[k], 0 + 1, 0)
      BY <1>1, <2>1, <2>4
    <3>2. Begun(k) =< handled[k] /\ handled[k] - Begun(k) =< passed[k]
      BY <2>2, <2>3
    <3> QED  BY <2>3, <2>4, <3>1, <3>2 DEF InStep
  <2> QED  BY <1>1, <1>2, <2>5 DEF Read
<1> QED  BY <1>3 DEF HandledInv

LEMMA NextInOrder ==
  ASSUME Shape, HandledInv, [Next]_vars
  PROVE  HandledInv'
<1>1. CASE UNCHANGED vars
  <2>1. UNCHANGED <<tcp_mqtt, proc, handled, script, passed, recvd, sock>>
    BY <1>1 DEF vars, queues, tcp_vars, mqtt_vars
  <2>2. \A k \in Conns : /\ recvd'[k] =< 2 * Len(script[k])
                         /\ sock'[k] = "new" => recvd'[k] = 0
    BY <2>1 DEF HandledInv, Read
  <2> QED  BY <2>1, <2>2, SilenceInOrder
<1> QED  BY <1>1, TcpInOrder, MqttInOrder DEF Next

-----------------------------------------------------------------------------
(* The will *)

\* Different places have different elements.
LEMMA InOrderDistinct ==
  ASSUME NEW R, IsFiniteSet(R), NEW rank \in [R -> Nat],
         \A x, y \in R : rank[x] = rank[y] => x = y
  PROVE  \A m, n \in 1..Cardinality(R) :
           InOrder(R, rank)[m] = InOrder(R, rank)[n] => m = n
<1> DEFINE N == Cardinality(R)
           f == [n \in 1..N |-> InOrder(R, rank)[n]]
<1>1. /\ N \in Nat
      /\ \A n \in 1..N : InOrder(R, rank)[n] \in R
      /\ \A x \in R : \E n \in 1..N : InOrder(R, rank)[n] = x
  BY InOrderProperties
<1>2. f \in [1..N -> R] /\ \A n \in 1..N : f[n] = InOrder(R, rank)[n]
  BY <1>1
<1>3. IsFiniteSet(1..N) /\ Cardinality(1..N) = N
  BY <1>1, FS_Interval
<1> HIDE DEF f
<1>4. f \in Surjection(1..N, R)
  BY <1>1, <1>2 DEF Surjection
<1>5. f \in Injection(1..N, R)
  BY <1>3, <1>4, FS_Surjection
<1> QED  BY <1>2, <1>5 DEF Injection, IsInjective

LEMMA PickedDistinct ==
  ASSUME NEW s, NEW n \in Nat, NEW I \in SUBSET (1..n),
         \A i, j \in I : s[i] = s[j] => i = j
  PROVE  \A l, m \in 1..Cardinality(I) : Picked(s, I)[l] = Picked(s, I)[m] => l = m
<1> DEFINE rank == [i \in I |-> i]
           place == InOrder(I, rank)
<1>1. IsFiniteSet(I)
  <2>1. IsFiniteSet(1..n)
    BY FS_Interval
  <2> QED  BY <2>1, FS_Subset
<1>2. rank \in [I -> Nat] /\ \A x, y \in I : rank[x] = rank[y] => x = y
  OBVIOUS
<1>3. \A l \in 1..Cardinality(I) : Picked(s, I)[l] = s[place[l]]
  BY DEF Picked
<1> HIDE DEF rank
<1>4. /\ \A l, m \in 1..Cardinality(I) : place[l] = place[m] => l = m
      /\ \A l \in 1..Cardinality(I) : place[l] \in I
  BY <1>1, <1>2, InOrderDistinct, InOrderProperties
<1> HIDE DEF place
<1>5. ASSUME NEW l \in 1..Cardinality(I), NEW m \in 1..Cardinality(I),
             Picked(s, I)[l] = Picked(s, I)[m]
      PROVE  l = m
  <2>1. s[place[l]] = s[place[m]] /\ place[l] \in I /\ place[m] \in I
    BY <1>3, <1>4, <1>5
  <2>2. place[l] = place[m]
    BY <2>1
  <2> QED  BY <1>4, <2>2
<1> QED  BY <1>5

\* A publication goes once to each subscriber among the addresses it is for.
LEMMA SentOnce ==
  ASSUME MqttShape, NEW topic, NEW retain, NEW among \in SUBSET Live, NEW b \in Addrs
  PROVE  IF b \in among /\ MatchesIn(b, topic) # {}
         THEN \E n \in 1..Len(PublishSend(topic, retain, among)) :
                PublicationsTo(PublishSend(topic, retain, among), b, topic) = {n}
         ELSE PublicationsTo(PublishSend(topic, retain, among), b, topic) = {}
<1> DEFINE to == {i \in DOMAIN mqtt_conns :
                    mqtt_conns[i] \in among /\ MatchesIn(mqtt_conns[i], topic) # {}}
           subscribers == Picked(mqtt_conns, to)
           sent == PublishSend(topic, retain, among)
           N == Cardinality(to)
           Has(c) == c \in among /\ MatchesIn(c, topic) # {}
<1>1. /\ mqtt_conns \in Seq(Addrs) /\ DOMAIN mqtt_conns = 1..Len(mqtt_conns)
      /\ Len(mqtt_conns) \in Nat /\ NoRepeats(mqtt_conns)
  BY LenProperties DEF MqttShape
<1>2. to \in SUBSET (1..Len(mqtt_conns))
  BY <1>1
<1>3. /\ \A i \in to : Has(mqtt_conns[i])
      /\ \A i \in 1..Len(mqtt_conns) : Has(mqtt_conns[i]) => i \in to
  BY <1>1
<1>4. Has(b) => \E i \in 1..Len(mqtt_conns) : mqtt_conns[i] = b
  BY LivePlace
<1>5. sent = [n \in DOMAIN subscribers |->
                PublishTo(subscribers[n], topic, QosFor(subscribers[n], topic), retain)]
  BY DEF PublishSend
<1> HIDE DEF to, Has
<1>6. /\ Len(subscribers) = N /\ N \in Nat /\ DOMAIN subscribers = 1..N
      /\ \A i \in to : \E n \in 1..N : subscribers[n] = mqtt_conns[i]
      /\ \A n \in 1..N : \E i \in to : subscribers[n] = mqtt_conns[i]
  BY <1>1, <1>2, PickedProperties DEF Picked
<1>7. \A m, n \in 1..N : subscribers[m] = subscribers[n] => m = n
  <2>1. \A i, j \in to : mqtt_conns[i] = mqtt_conns[j] => i = j
    BY <1>1, <1>2 DEF NoRepeats
  <2> QED  BY <1>1, <1>2, <2>1, PickedDistinct
<1> HIDE DEF subscribers, N
<1>8. /\ sent = [n \in 1..N |-> sent[n]]
      /\ \A n \in 1..N :
           /\ ~sent[n].close /\ sent[n].addr = subscribers[n]
           /\ sent[n].packet.type = "PUBLISH" /\ sent[n].packet.topic = topic
  BY <1>5, <1>6 DEF PublishTo, ToSend
<1> HIDE DEF sent
<1>9. Len(sent) = N /\ DOMAIN sent = 1..N
  BY <1>6, <1>8, ListMade
<1>10. PublicationsTo(sent, b, topic) = {n \in 1..N : subscribers[n] = b}
  BY <1>8, <1>9 DEF PublicationsTo
<1>11. CASE Has(b)
  <2>1. PICK n \in 1..N : subscribers[n] = b
    BY <1>3, <1>4, <1>6, <1>11
  <2>2. PublicationsTo(sent, b, topic) = {n}
    BY <1>7, <1>10, <2>1
  <2> QED  BY <1>9, <1>11, <2>1, <2>2 DEF Has, sent
<1>12. CASE ~Has(b)
  <2>1. \A n \in 1..N : subscribers[n] # b
    BY <1>3, <1>6, <1>12
  <2>2. PublicationsTo(sent, b, topic) = {}
    BY <1>10, <2>1
  <2> QED  BY <1>12, <2>2 DEF Has, sent
<1> QED  BY <1>11, <1>12

\* The publications of two lists one behind the other.
LEMMA PublicationsBehind ==
  ASSUME NEW s, IsList(s), NEW t, IsList(t), NEW b, NEW topic
  PROVE  /\ PublicationsTo(s \o t, b, topic) =
              PublicationsTo(s, b, topic)
                \cup {i \in Len(s) + 1..Len(s) + Len(t) : i - Len(s) \in PublicationsTo(t, b, topic)}
         /\ PublicationsTo(s, b, topic) \subseteq 1..Len(s)
         /\ Len(s) \in Nat /\ Len(t) \in Nat
<1> DEFINE r == s \o t
           P(q) == PublicationsTo(q, b, topic)
           Is(m) == /\ ~m.close /\ m.addr = b
                    /\ m.packet.type = "PUBLISH" /\ m.packet.topic = topic
<1>1. /\ Len(s) \in Nat /\ Len(t) \in Nat /\ Len(r) = Len(s) + Len(t)
      /\ DOMAIN s = 1..Len(s) /\ DOMAIN t = 1..Len(t) /\ DOMAIN r = 1..Len(r)
      /\ \A i \in 1..Len(s) : r[i] = s[i]
      /\ \A i \in 1..Len(t) : r[Len(s) + i] = t[i]
  BY ListConcat, ListProperties
<1>2. /\ P(r) = {i \in 1..Len(r) : Is(r[i])} /\ P(s) = {i \in 1..Len(s) : Is(s[i])}
      /\ P(t) = {i \in 1..Len(t) : Is(t[i])}
  BY <1>1 DEF PublicationsTo
<1> HIDE DEF r, P, Is
<1>3. ASSUME NEW i
      PROVE  i \in P(r) <=> \/ i \in P(s)
                            \/ i \in Len(s) + 1..Len(s) + Len(t) /\ i - Len(s) \in P(t)
  <2>1. CASE i \in 1..Len(s)
    BY <1>1, <1>2, <2>1
  <2>2. CASE i \in Len(s) + 1..Len(s) + Len(t)
    <3>1. i - Len(s) \in 1..Len(t) /\ Len(s) + (i - Len(s)) = i
      BY <1>1, <2>2
    <3>2. r[i] = t[i - Len(s)]
      BY <1>1, <3>1
    <3>3. i \in 1..Len(r) /\ i \notin 1..Len(s)
      BY <1>1, <2>2
    <3> QED  BY <1>2, <2>2, <3>1, <3>2, <3>3
  <2>3. CASE i \notin 1..Len(s) /\ i \notin Len(s) + 1..Len(s) + Len(t)
    BY <1>1, <1>2, <2>3
  <2> QED  BY <2>1, <2>2, <2>3
<1>4. P(r) = P(s) \cup {i \in Len(s) + 1..Len(s) + Len(t) : i - Len(s) \in P(t)}
  BY <1>3
<1> QED  BY <1>1, <1>2, <1>4 DEF P, r

\* The will is in the store.
LEMMA WillStored ==
  ASSUME pub_list \in Seq(Published), NEW will \in Published,
         pub_list' = PubAddReplace(will.topic, will.retain)
  PROVE  \E i \in DOMAIN pub_list' : pub_list'[i] = will
<1>1. DOMAIN pub_list = 1..Len(pub_list) /\ \A i \in 1..Len(pub_list) : pub_list[i] \in Published
  BY LenProperties, ElementOfSeq
<1>2. CASE \E i \in DOMAIN pub_list : pub_list[i].topic = will.topic
  <2>1. PICK i \in DOMAIN pub_list : pub_list[i].topic = will.topic
    BY <1>2
  <2>2. /\ i \in DOMAIN pub_list'
        /\ pub_list'[i] = [pub_list[i] EXCEPT !.retain = will.retain]
    BY <1>2, <2>1 DEF PubAddReplace
  <2>3. [pub_list[i] EXCEPT !.retain = will.retain] = will
    BY <1>1, <2>1 DEF Published
  <2> QED  BY <2>2, <2>3
<1>3. CASE ~\E i \in DOMAIN pub_list : pub_list[i].topic = will.topic
  <2> DEFINE e == [topic |-> will.topic, retain |-> will.retain]
  <2>1. e = will
    BY DEF Published
  <2>2. pub_list' = Append(pub_list, will)
    BY <1>3, <2>1 DEF PubAddReplace
  <2>3. /\ pub_list' \in Seq(Published) /\ Len(pub_list') = Len(pub_list) + 1
        /\ pub_list'[Len(pub_list) + 1] = will /\ Len(pub_list) \in Nat
    BY <2>2, AppendProperties, LenProperties
  <2>4. Len(pub_list) + 1 \in DOMAIN pub_list'
    BY <2>3, LenProperties
  <2> QED  BY <2>3, <2>4
<1> QED  BY <1>2, <1>3

\* The end of a session with a will
LEMMA EndPublishes ==
  ASSUME MqttShape, NEW a \in Live, mqtt_conn[a].will # NoWill, EndSession(a), NEW b \in Addrs
  PROVE  LET will == mqtt_conn[a].will
         IN  /\ \E i \in DOMAIN pub_list' : pub_list'[i] = will
             /\ Cardinality(PublicationsTo(mqtt_tcp', b, will.topic))
                  - Cardinality(PublicationsTo(mqtt_tcp, b, will.topic))
                  = IF b \in Live \ {a} /\ MatchesIn(b, will.topic) # {} THEN 1 ELSE 0
<1> DEFINE will == mqtt_conn[a].will
           t == PublishSend(will.topic, will.retain, Live \ {a})
           P(q) == PublicationsTo(q, b, will.topic)
           Has == b \in Live \ {a} /\ MatchesIn(b, will.topic) # {}
           B == {i \in Len(mqtt_tcp) + 1..Len(mqtt_tcp) + Len(t) : i - Len(mqtt_tcp) \in P(t)}
<1>1. /\ will \in Published /\ pub_list \in Seq(Published)
      /\ pub_list' = PubAddReplace(will.topic, will.retain)
      /\ mqtt_tcp' = mqtt_tcp \o t
  BY LiveTyped DEF MqttShape, Session, Will, Published, EndSession, WillTo
<1>2. \E i \in DOMAIN pub_list' : pub_list'[i] = will
  <2> HIDE DEF will
  <2> QED  BY <1>1, WillStored
<1>3. IsList(mqtt_tcp) /\ IsList(t)
  BY PublishOutgoing DEF MqttShape, Outgoing
<1>4. IF Has THEN \E n \in 1..Len(t) : P(t) = {n} ELSE P(t) = {}
  <2>1. Live \ {a} \in SUBSET Live
    OBVIOUS
  <2> QED  BY <2>1, SentOnce
<1>5. /\ P(mqtt_tcp') = P(mqtt_tcp) \cup B /\ P(mqtt_tcp) \subseteq 1..Len(mqtt_tcp)
      /\ Len(mqtt_tcp) \in Nat /\ Len(t) \in Nat
  <2> HIDE DEF t
  <2> QED  BY <1>1, <1>3, PublicationsBehind
<1> HIDE DEF P, t, will, Has
<1>6. IsFiniteSet(P(mqtt_tcp)) /\ Cardinality(P(mqtt_tcp)) \in Nat
  <2>1. IsFiniteSet(1..Len(mqtt_tcp))
    BY <1>5, FS_Interval
  <2>2. IsFiniteSet(P(mqtt_tcp))
    BY <1>5, <2>1, FS_Subset
  <2> QED  BY <2>2, FS_CardinalityType
<1>7. CASE Has
  <2>1. PICK n \in 1..Len(t) : P(t) = {n}
    BY <1>4, <1>7
  <2>2. B = {Len(mqtt_tcp) + n}
    BY <1>5, <2>1
  <2>3. Len(mqtt_tcp) + n \notin P(mqtt_tcp)
    BY <1>5, <2>1
  <2>4. Cardinality(P(mqtt_tcp')) = Cardinality(P(mqtt_tcp)) + 1
    <3> DEFINE x == Len(mqtt_tcp) + n
               s == P(mqtt_tcp)
    <3>1. P(mqtt_tcp') = s \cup {x} /\ IsFiniteSet(s) /\ x \notin s
      BY <1>5, <1>6, <2>2, <2>3
    <3> HIDE DEF x, s
    <3>2. Cardinality(s \cup {x}) = Cardinality(s) + 1
      BY <3>1, FS_AddElement
    <3> QED  BY <3>1, <3>2 DEF s
  <2>5. Cardinality(P(mqtt_tcp')) - Cardinality(P(mqtt_tcp)) = 1
    BY <1>6, <2>4
  <2> QED  BY <1>2, <1>7, <2>5 DEF P, will, Has
<1>8. CASE ~Has
  <2>1. B = {}
    BY <1>4, <1>8
  <2>2. P(mqtt_tcp') = P(mqtt_tcp)
    BY <1>5, <2>1
  <2>3. Cardinality(P(mqtt_tcp')) - Cardinality(P(mqtt_tcp)) = 0
    BY <1>6, <2>2
  <2> QED  BY <1>2, <1>8, <2>3 DEF P, will, Has
<1> QED  BY <1>7, <1>8

-----------------------------------------------------------------------------
(* The properties *)

\* A session outlives its connection only as long as the notice is on its way,
\* and no packet of a newer connection from the address is ahead of that.
THEOREM SessionFollows == Spec => []SessionFollowsConnection
<1>1. IInv => SessionFollowsConnection
  <2> SUFFICES ASSUME IInv, NEW a \in Live, sock[Owner(a)] = "closed"
               PROVE  \E i \in DOMAIN tcp_mqtt :
                        /\ IsNotice(i, a)
                        /\ \A j \in 1..(i - 1) : tcp_mqtt[j].addr = a /\ ~tcp_mqtt[j].close
                                                   => tcp_mqtt[j].conn = Owner(a)
    BY DEF SessionFollowsConnection
  <2>1. /\ Len(tcp_mqtt) \in Nat /\ DOMAIN tcp_mqtt = 1..Len(tcp_mqtt)
        /\ \A j \in 1..Len(tcp_mqtt) : Proper(tcp_mqtt[j])
        /\ owners[a] = Owner(a)
    BY InvTypes, LenProperties DEF IInv, Shape, QueueShape, owners
  <2>2. PICK n \in Nat :
          /\ Note(tcp_mqtt, n, a)
          /\ \A j \in Nat, l \in Conns :
               j < n /\ Pkt(tcp_mqtt, j, l) /\ AddrOf[l] = a => l = owners[a]
    BY <2>1 DEF IInv, SessionInv, Following
  <2>3. n \in DOMAIN tcp_mqtt /\ IsNotice(n, a)
    BY <2>1, <2>2 DEF Note, IsNotice
  <2>4. ASSUME NEW j \in 1..(n - 1), tcp_mqtt[j].addr = a, ~tcp_mqtt[j].close
        PROVE  tcp_mqtt[j].conn = Owner(a)
    <3>1. j \in Nat /\ j \in 1..Len(tcp_mqtt) /\ j < n
      BY <2>1, <2>3
    <3>2. tcp_mqtt[j].conn \in Conns /\ AddrOf[tcp_mqtt[j].conn] = a
      BY <2>1, <2>4, <3>1 DEF Proper
    <3>3. Pkt(tcp_mqtt, j, tcp_mqtt[j].conn)
      BY <2>4, <3>1 DEF Pkt
    <3> QED  BY <2>1, <2>2, <3>1, <3>2, <3>3
  <2> QED  BY <2>3, <2>4
<1> QED  BY <1>1, Invariant, PTL

\* A client that must go has its order queued until its socket is closed.
THEOREM OrdersArrive == Spec => []OrderOnItsWay
<1>1. IInv => OrderOnItsWay
  <2> SUFFICES ASSUME IInv, NEW k \in ordered, sock[k] = "open"
               PROVE  OrderFor(AddrOf[k])
    BY DEF OrderOnItsWay
  <2>1. HasOrder(mqtt_tcp, AddrOf[k])
    BY DEF IInv, OrdersInv
  <2>2. DOMAIN mqtt_tcp = 1..Len(mqtt_tcp)
    BY InvTypes, ListProperties DEF Outgoing
  <2> QED  BY <2>1, <2>2 DEF HasOrder, OrderFor
<1> QED  BY <1>1, Invariant, PTL

\* No packet is handled in the session of another connection.
THEOREM PacketsMeetOwnSession == Spec => OwnSession
<1> DEFINE Own == \A k \in Conns : handled'[k] # handled[k] /\ AddrOf[k] \in Live
                                     => Owner(AddrOf[k]) = k
<1>1. IInv /\ [Next]_vars => [Own]_vars
  <2> SUFFICES ASSUME IInv, Next, NEW k \in Conns, handled'[k] # handled[k],
                      AddrOf[k] \in Live
               PROVE  Owner(AddrOf[k]) = k
    BY DEF Own
  <2>1. CASE TcpNext /\ UNCHANGED mqtt_vars
    BY <2>1 DEF mqtt_vars
  <2>2. CASE HandleNotice
    BY <2>2 DEF HandleNotice
  <2>3. CASE Timer
    BY <2>3, TimerStep DEF Timer
  <2>4. CASE HandlePacket
    <3>1. Take
      BY <2>4, PacketStep DEF IInv
    <3>2. /\ tcp_mqtt # <<>> /\ ~First.close /\ From \in Conns
          /\ handled \in [Conns -> Nat]
      BY <3>1, TakeShape DEF IInv, Shape, MqttShape
    <3>3. k = From
      BY <3>1, <3>2 DEF Take
    <3>4. Pkt(tcp_mqtt, 1, k) /\ FirstGone(tcp_mqtt, Tail(tcp_mqtt))
      BY <3>2, <3>3, HeadView
    <3>5. owners[AddrOf[k]] = Owner(AddrOf[k]) /\ AddrOf[k] \in Addrs
      BY InvTypes DEF owners
    <3>6. ASSUME Owner(AddrOf[k]) # k
          PROVE  FALSE
      <4>1. PICK n \in Nat : n < 1 /\ Note(tcp_mqtt, n, AddrOf[k])
        BY <3>4, <3>5, <3>6 DEF IInv, SessionInv, OthersLater
      <4> QED  BY <3>4, <3>5, <4>1 DEF FirstGone
    <3> QED  BY <3>6
  <2> QED  BY <2>1, <2>2, <2>3, <2>4 DEF Next, MqttNext
<1> QED  BY <1>1, Invariant, PTL DEF Spec, OwnSession

\* Of each connection the packets that were received whole and not handled yet
\* are in the queue, each once and in the order they were sent, however the
\* reads cut the stream.
THEOREM PacketsHandledInOrder == Spec => []HandledInOrder
<1>1. Shape /\ HandledInv => HandledInOrder
  <2> SUFFICES ASSUME Shape, HandledInv, NEW k \in Conns
               PROVE  Unhandled(k) = SubSeq(script[k], handled[k] + 1, passed[k])
    BY DEF HandledInOrder
  <2>1. /\ PacketsOf(k) = PacketsIn(tcp_mqtt, k) /\ Begun(k) \in Nat
        /\ handled[k] \in Nat /\ InStep(k) /\ Read(k)
    BY PacketsInIs, BegunTyped DEF Shape, MqttShape, HandledInv
  <2>2. CASE tcp_mqtt # <<>> /\ ~First.close /\ From = k
    <3> DEFINE d == handled[k] - proc
               s == script[k]
               n == passed[k]
               c == PacketsOf(k)
    <3>1. Begun(k) = proc
      BY <2>2, FirstTyped DEF Shape, Begun, HasFirst
    <3>2. d \in Nat /\ proc \in Nat /\ d + proc = handled[k] /\ c = SubSeq(s, d + 1, n)
      BY <2>1, <3>1 DEF InStep
    <3>3. s \in Seq(Packet) /\ n \in Nat /\ n =< Len(s)
      BY <2>1, LenProperties DEF Shape, TcpShape, Read
    <3>4. Unhandled(k) = SubSeq(c, proc + 1, Len(c))
      BY <2>2 DEF Unhandled
    <3> HIDE DEF d, s, n, c
    <3>5. SubSeq(SubSeq(s, d + 1, n), proc + 1, Len(SubSeq(s, d + 1, n)))
            = SubSeq(s, d + proc + 1, n)
      BY <3>2, <3>3, SubSeqLeft
    <3>6. Unhandled(k) = SubSeq(s, handled[k] + 1, n)
      BY <3>2, <3>4, <3>5
    <3> QED  BY <3>6 DEF s, n
  <2>3. CASE ~(tcp_mqtt # <<>> /\ ~First.close /\ From = k)
    <3>1. Begun(k) = 0
      BY <2>3 DEF Begun, HasFirst
    <3>2. Unhandled(k) = PacketsOf(k)
      BY <2>3 DEF Unhandled
    <3> QED  BY <2>1, <3>1, <3>2 DEF InStep
  <2> QED  BY <2>2, <2>3
<1>2. Init => Shape /\ HandledInv
  BY InitShape, InitInOrder
<1>3. Shape /\ HandledInv /\ [Next]_vars => (Shape /\ HandledInv)'
  BY NextShape, NextInOrder
<1> QED  BY <1>1, <1>2, <1>3, PTL DEF Spec

\* The will of a session that ends, unless its client said goodbye, is in the
\* store and with each other subscriber once, and is not sent to the address
\* itself.
THEOREM WillsArePublished == Spec => WillPublished
<1> DEFINE Step == \A a \in Live :
       LET will == mqtt_conn[a].will
           NewTo(b) == Cardinality(PublicationsTo(mqtt_tcp', b, will.topic))
                         - Cardinality(PublicationsTo(mqtt_tcp, b, will.topic))
       IN  a \notin Live' /\ will # NoWill /\ ~SaidGoodbye(Owner(a))
             => /\ \E i \in DOMAIN pub_list' : pub_list'[i] = will
                /\ \A b \in Addrs :
                     NewTo(b) = IF b \in Live \ {a} /\ MatchesIn(b, will.topic) # {}
                                THEN 1 ELSE 0
<1>1. IInv /\ [Next]_vars => [Step]_vars
  <2> SUFFICES ASSUME IInv, Next, NEW a \in Live, a \notin Live', mqtt_conn[a].will # NoWill
               PROVE  /\ \E i \in DOMAIN pub_list' : pub_list'[i] = mqtt_conn[a].will
                      /\ \A b \in Addrs :
                           Cardinality(PublicationsTo(mqtt_tcp', b, mqtt_conn[a].will.topic))
                             - Cardinality(PublicationsTo(mqtt_tcp, b, mqtt_conn[a].will.topic))
                             = IF b \in Live \ {a} /\ MatchesIn(b, mqtt_conn[a].will.topic) # {}
                               THEN 1 ELSE 0
    BY DEF Step
  <2>1. MqttShape /\ a \in Addrs
    BY LiveTyped DEF IInv, Shape
  <2>2. CASE TcpNext /\ UNCHANGED mqtt_vars
    BY <2>2 DEF mqtt_vars, Live
  <2>3. CASE HandlePacket
    <3>1. SessionsKept \/ Begins
      BY <2>3, PacketStep DEF IInv
    <3>2. Sender \in Addrs
      BY <2>3, PacketStep, TakeShape DEF IInv, Shape, MqttShape
    <3> QED  BY <3>1, <3>2, KeptSessions, BeginsLive
  <2>4. CASE Timer
    BY <2>4 DEF Timer, Live
  <2>5. CASE HandleNotice
    <3>1. Sender \in Live /\ Ends(Sender) /\ EndSession(Sender)
      <4>1. CASE Sender \in Live
        BY <2>5, <4>1, NoticeStep DEF IInv, HandleNotice
      <4>2. CASE Sender \notin Live
        BY <2>5, <4>2 DEF HandleNotice, Live
      <4> QED  BY <4>1, <4>2
    <3>2. a = Sender
      BY <3>1 DEF Ends
    <3> QED  BY <2>1, <3>1, <3>2, EndPublishes
  <2> QED  BY <2>2, <2>3, <2>4, <2>5 DEF Next, MqttNext
<1> QED  BY <1>1, Invariant, PTL DEF Spec, WillPublished

-----------------------------------------------------------------------------
(* The refinement *)

session == [k \in Conns |-> SessionOf(k)]

LEMMA SessionsSame ==
  ASSUME UNCHANGED <<Live, owners, past>>, Live \subseteq Addrs
  PROVE  UNCHANGED session
<1>1. \A a \in Live : Owner(a)' = Owner(a)
  BY DEF owners
<1>2. \A k \in Conns : SessionOf(k)' = SessionOf(k)
  BY <1>1 DEF SessionOf
<1> QED  BY <1>2 DEF session

\* Of the connections from one address one is open at most, and one has the session.
LEMMA OthersOf ==
  ASSUME NEW k \in Conns, NEW j \in Sessions!Others(k)
  PROVE  j \in Conns /\ j # k /\ AddrOf[j] = AddrOf[k]
BY DEF Sessions!Others

LEMMA OpensRefines ==
  ASSUME IInv, NEW k \in Conns, Opens(k), UNCHANGED mqtt_vars
  PROVE  Sessions!Open(k)
<1>1. UNCHANGED session
  <2>1. UNCHANGED <<Live, owners, past>>
    BY DEF mqtt_vars, Live, owners, Owner
  <2> QED  BY <2>1, InvTypes, SessionsSame
<1>2. \A j \in Sessions!Others(k) : sock[j] # "open"
  BY OthersOf DEF Opens, OpenAt
<1> QED  BY <1>1, <1>2 DEF Opens, Sessions!Open, session

LEMMA ClosesRefines ==
  ASSUME IInv, NEW k \in Conns, Closes(k), UNCHANGED mqtt_vars
  PROVE  Sessions!Close(k)
<1>1. UNCHANGED session
  <2>1. UNCHANGED <<Live, owners, past>>
    BY DEF mqtt_vars, Live, owners, Owner
  <2> QED  BY <2>1, InvTypes, SessionsSame
<1> QED  BY <1>1 DEF Closes, Sessions!Close, session

LEMMA TcpRefines ==
  ASSUME IInv, TcpNext, UNCHANGED mqtt_vars
  PROVE  Sessions!Next \/ UNCHANGED Sessions!vars
<1>1. TcpEffect
  BY TcpStep DEF IInv
<1>2. ASSUME NEW k \in Conns, Opens(k)
      PROVE  Sessions!Next
  BY <1>2, OpensRefines DEF Sessions!Next
<1>3. ASSUME NEW k \in Conns, Closes(k)
      PROVE  Sessions!Next
  BY <1>3, ClosesRefines DEF Sessions!Next
<1>4. ASSUME UNCHANGED sock
      PROVE  UNCHANGED Sessions!vars
  <2>1. UNCHANGED <<Live, owners, past>>
    BY DEF mqtt_vars, Live, owners, Owner
  <2>2. UNCHANGED session
    BY <2>1, InvTypes, SessionsSame
  <2> QED  BY <1>4, <2>2 DEF Sessions!vars, session
<1> QED  BY <1>1, <1>2, <1>3, <1>4 DEF TcpEffect, Passes, Misses

LEMMA PacketRefines ==
  ASSUME IInv, HandlePacket, UNCHANGED tcp_vars
  PROVE  Sessions!Next \/ UNCHANGED Sessions!vars
<1>1. /\ Take
      /\ \/ Connect /\ Begins
         \/ (Sender \in Live \/ Ignore) /\ SessionsKept
  BY PacketStep DEF IInv
<1>2. /\ tcp_mqtt # <<>> /\ ~First.close
      /\ Sender \in Addrs /\ From \in Conns /\ AddrOf[From] = Sender
  BY <1>1, TakeShape DEF IInv, Shape, MqttShape
<1>3. UNCHANGED sock
  BY DEF tcp_vars
<1>4. CASE SessionsKept
  <2>1. UNCHANGED session
    BY <1>4, InvTypes, KeptSessions, SessionsSame
  <2> QED  BY <1>3, <2>1 DEF Sessions!vars, session
<1>5. CASE Begins
  <2>1. Live' = Live \cup {Sender} /\ Sender \notin Live /\ UNCHANGED past
    BY <1>2, <1>5, BeginsLive
  <2>2. /\ \A a \in Live : Owner(a)' = Owner(a)
        /\ mqtt_conn'[Sender].conn = From
    BY <1>2, <1>5, <2>1, InvTypes DEF Begins, Owner
  <2>3. Pkt(tcp_mqtt, 1, From)
    BY <1>2, HeadView
  <2>4. sock[From] # "new" /\ From \notin past
    BY <1>2, <2>3 DEF IInv, QueueInv, Opened, SessionInv, Gone
  <2>5. session[From] = "none"
    BY <1>2, <2>1, <2>4 DEF session, SessionOf
  <2>6. \A j \in Sessions!Others(From) : session[j] # "live"
    BY <1>2, <2>1, OthersOf DEF session, SessionOf
  <2>7. ASSUME NEW k \in Conns
        PROVE  SessionOf(k)' = IF k = From THEN "live" ELSE SessionOf(k)
    <3>1. CASE k = From
      BY <1>2, <2>1, <2>2, <2>4, <3>1 DEF SessionOf, Owner
    <3>2. CASE k # From /\ AddrOf[k] = Sender
      BY <1>2, <2>1, <2>2, <3>2 DEF SessionOf, Owner
    <3>3. CASE k # From /\ AddrOf[k] # Sender
      BY <1>2, <2>1, <2>2, <3>3 DEF SessionOf
    <3> QED  BY <3>1, <3>2, <3>3
  <2>8. session' = [session EXCEPT ![From] = "live"]
    BY <2>7 DEF session
  <2>9. Sessions!Begin(From)
    BY <1>3, <2>4, <2>5, <2>6, <2>8 DEF Sessions!Begin, session
  <2> QED  BY <1>2, <2>9 DEF Sessions!Next
<1> QED  BY <1>1, <1>4, <1>5

LEMMA NoticeRefines ==
  ASSUME IInv, HandleNotice, UNCHANGED tcp_vars
  PROVE  Sessions!Next \/ UNCHANGED Sessions!vars
<1>1. IF Sender \in Live THEN Ends(Sender) ELSE SessionsKept
  BY NoticeStep DEF IInv
<1>2. UNCHANGED sock
  BY DEF tcp_vars
<1>3. CASE Sender \notin Live
  <2>1. UNCHANGED session
    BY <1>1, <1>3, InvTypes, KeptSessions, SessionsSame
  <2> QED  BY <1>2, <2>1 DEF Sessions!vars, session
<1>4. CASE Sender \in Live
  <2> DEFINE a == Sender
             k == Owner(a)
  <2>1. /\ Live' = Live \ {a} /\ past' = past \cup {k}
        /\ \A b \in Live \ {a} : mqtt_conn'[b].conn = mqtt_conn[b].conn
    BY <1>1, <1>4, InvTypes DEF Ends
  <2>2. sock[k] = "closed"
    BY <1>4, NoticeInv
  <2>3. \A b \in Live : owners[b] = Owner(b)
    BY InvTypes DEF owners
  <2>4. k \in Conns /\ AddrOf[k] = a /\ k \notin past
    BY <1>4, <2>3 DEF IInv, SessionInv, Owned
  <2>5. session[k] = "live"
    BY <1>4, <2>4 DEF session, SessionOf
  <2>6. ASSUME NEW j \in Conns
        PROVE  SessionOf(j)' = IF j = k THEN "ended" ELSE SessionOf(j)
    <3> HIDE DEF k, a
    <3>1. CASE j = k
      BY <2>1, <3>1 DEF SessionOf
    <3>2. CASE j # k /\ AddrOf[j] = a
      <4>1. a \in Live /\ Owner(a) = k
        BY <1>4 DEF a, k
      <4> QED  BY <2>1, <3>2, <4>1 DEF SessionOf
    <3>3. CASE j # k /\ AddrOf[j] # a
      BY <2>1, <3>3 DEF SessionOf, Owner
    <3> QED  BY <3>1, <3>2, <3>3
  <2> HIDE DEF k, a
  <2>7. session' = [session EXCEPT ![k] = "ended"]
    BY <2>6 DEF session
  <2>8. Sessions!End(k)
    BY <1>2, <2>2, <2>5, <2>7 DEF Sessions!End, session
  <2> QED  BY <2>4, <2>8 DEF Sessions!Next
<1> QED  BY <1>3, <1>4

\* Each connection has one session, while it is the only one of its address,
\* and not beyond its close notice: every step of the two threads is a step of
\* ConnectionSessions, or changes nothing there.
THEOREM Refinement == Spec => Sessions!Spec
<1>1. Init => Sessions!Init
  <2> SUFFICES ASSUME Init
               PROVE  Sessions!Init
    OBVIOUS
  <2>1. sock = [k \in Conns |-> "new"] /\ Live = {} /\ past = {}
    BY DEF Init, TcpInit, MqttInit, Live, ToSet
  <2> QED  BY <2>1 DEF Sessions!Init, SessionOf
<1>2. IInv /\ [Next]_vars => [Sessions!Next]_(Sessions!vars)
  <2> SUFFICES ASSUME IInv, [Next]_vars
               PROVE  Sessions!Next \/ UNCHANGED Sessions!vars
    OBVIOUS
  <2>1. CASE TcpNext /\ UNCHANGED mqtt_vars
    BY <2>1, TcpRefines
  <2>2. CASE MqttNext /\ UNCHANGED tcp_vars
    <3>1. CASE HandleNotice
      BY <2>2, <3>1, NoticeRefines
    <3>2. CASE HandlePacket
      BY <2>2, <3>2, PacketRefines
    <3>3. CASE Timer
      <4>1. UNCHANGED <<Live, owners, past, sock>>
        BY <2>2, <3>3, TimerStep, KeptSessions DEF IInv, tcp_vars
      <4>2. UNCHANGED session
        BY <4>1, InvTypes, SessionsSame
      <4> QED  BY <4>1, <4>2 DEF Sessions!vars, session
    <3> QED  BY <2>2, <3>1, <3>2, <3>3 DEF MqttNext
  <2>3. CASE UNCHANGED vars
    <3>1. UNCHANGED <<Live, owners, past, sock>>
      BY <2>3 DEF vars, tcp_vars, mqtt_vars, Live, owners, Owner
    <3>2. UNCHANGED session
      BY <3>1, InvTypes, SessionsSame
    <3> QED  BY <3>1, <3>2 DEF Sessions!vars, session
  <2> QED  BY <2>1, <2>2, <2>3 DEF Next
<1> QED  BY <1>1, <1>2, Invariant, PTL DEF Spec, Sessions!Spec

=============================================================================
