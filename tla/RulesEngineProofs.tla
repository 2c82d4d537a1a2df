-------------------------- MODULE RulesEngineProofs --------------------------
(***************************************************************************)
(* What holds of the rules engine for any topics, any rules files and any  *)
(* bounds.                                                                 *)
(***************************************************************************)
EXTENDS RulesEngine, SequenceTheorems, FunctionTheorems, FiniteSetTheorems, TLAPS

-----------------------------------------------------------------------------
(* The inductive invariant *)

MqttPcs == {"PACKET", "GAP", "MSG", "FILL", "COPY", "REPLY", "APPLY", "CHECK",
            "ENDED", "CLOSE", "SIGNAL", "FREE_RULES", "FREE_CRON", "WAIT_CRON",
            "WAIT_RULES", "PARSE", "START"}
Waiting == {"TEST", "BLOCK", "WAIT", "WOKEN"}
RulesPcs == {"POLL", "NODE", "CALL", "ASK", "USE", "REMOVE", "CHECK", "ENDED"} \cup Waiting
CronPcs == {"LOOK", "WALK", "SLEEP", "ENDED"}

List == [names : Seq(Topics), data : Seq(Values), filled : BOOLEAN]

\* TypeOK, with the fields of the records of the threads.
Records ==
  /\ TypeOK
  /\ mqtt \in [pc : MqttPcs, held : Pointers, item : Nat]
  /\ rules \in [pc : RulesPcs, id : Nat, node : Node \cup {NoNode}, list : List]
  /\ cron \in [pc : CronPcs, walk : Seq(Nat)]

\* The rules thread has the node it executes, and its trigger is queued still.
Executing == rules.pc = "CALL" \/ Questioning
Rule ==
  /\ Executing \/ rules.pc \in {"NODE", "REMOVE"} => trigger_q # <<>>
  /\ Executing => rules.node \in Node
  /\ Questioning =>
       /\ rules.node.kind \in Asking
       /\ rules.list.names = NamesAsked(rules.node)
       /\ Len(rules.list.data) = Len(rules.list.names)
  /\ ~Questioning => ~rules.list.filled

\* A thread that is said to have stopped has, and stays so for a reload.
Ended ==
  /\ thread_state.rules = "STOPPED" => rules.pc = "ENDED"
  /\ thread_state.cron = "STOPPED" => cron.pc = "ENDED"
  /\ mqtt.pc \in {"WAIT_RULES", "PARSE", "START"} => thread_state.cron = "STOPPED"
  /\ mqtt.pc \in {"PARSE", "START"} => thread_state.rules = "STOPPED"

AllOfOneFile ==
  \/ lists = << <<>>, <<>>, <<>> >>
  \/ \E f \in RuleFiles : f.ok /\ lists = <<f.triggers, f.nodes, f.cron>>

\* The lists are empty from the moment a reload has freed them.
Emptied ==
  /\ mqtt.pc \in {"FREE_RULES", "FREE_CRON", "WAIT_CRON", "WAIT_RULES", "PARSE"}
       => mqtt_triggers = <<>>
  /\ mqtt.pc \in {"FREE_CRON", "WAIT_CRON", "WAIT_RULES", "PARSE"} => rules_nodes = <<>>
  /\ mqtt.pc \in {"WAIT_CRON", "WAIT_RULES", "PARSE"} => cron_triggers = <<>>
  /\ mqtt.pc = "START" => AllOfOneFile
  /\ EngineIsOneFile

\* While main runs, the mqtt thread only answers a request that is open, and
\* the rules thread waits for it; a request ends with an answer or a close.
Asked ==
  /\ gap.request = 1 => rules.pc \in Waiting
  /\ gap.msg = "LIVE" <=> Questioning
  /\ mqtt.held = "LIVE" => Questioning
  /\ main = "RUN" /\ mqtt.pc \in {"MSG", "FILL", "COPY", "REPLY"} => gap.request = 1
  /\ main = "RUN" /\ mqtt.pc \in {"FILL", "COPY", "REPLY"} => mqtt.held = "LIVE"
  /\ main = "RUN" /\ mqtt.pc = "REPLY" => rules.list.filled
  /\ rules.pc \in Waiting \cup {"USE"} /\ gap.request = 0 => rules.list.filled \/ GapClosed

\* The items before the one the mqtt thread is at have their data; who asks has
\* none before that.
HalfDone == mqtt.pc \in {"FILL", "COPY"} /\ mqtt.held = "LIVE"
Answering ==
  /\ mqtt.pc \in {"FILL", "COPY"} => mqtt.item # 0
  /\ HalfDone =>
       \A i \in DOMAIN rules.list.names :
         i < mqtt.item => rules.list.data[i] = store[rules.list.names[i]]
  /\ HalfDone /\ mqtt.pc = "COPY" => mqtt.item \in DOMAIN rules.list.names
  /\ Questioning /\ ~rules.list.filled /\ ~HalfDone
       => rules.list.data = [i \in DOMAIN rules.list.names |-> NoData]

\* While main runs, a list is filled once.
FilledOnce ==
  main = "RUN" /\ rules.list.filled
    => (gap.request = 0 /\ rules.pc # "ASK") \/ mqtt.pc = "REPLY"

\* What a thread uses is there, except between its removal and its end.
InUse ==
  /\ Executing /\ rules.id \notin DOMAIN rules_nodes
       => mqtt.pc \in {"FREE_CRON", "WAIT_CRON", "WAIT_RULES"}
  /\ cron.pc # "WALK" => cron.walk = <<>>
  /\ cron.walk # <<>> /\ cron_triggers = <<>> => mqtt.pc = "WAIT_CRON"

IInv == Records /\ Rule /\ Ended /\ Emptied /\ Asked /\ Answering /\ FilledOnce /\ InUse

-----------------------------------------------------------------------------
(* Lemmas about the operators of the rules *)

\* The node after a comparison has an id, whatever was compared.
LEMMA NextOfType ==
  ASSUME NEW n \in Node, NEW x, NEW y, NEW numeric \in BOOLEAN
  PROVE  NextOf(n, x, y, numeric) \in Nat
BY DEF NextOf, Node

\* A number that is counted up or down stays a number.
LEMMA SteppedType ==
  ASSUME NEW n \in Node, NEW x \in Numbers
  PROVE  Stepped(n, x) \in Numbers
<1>1. \A k \in Nat : k % (MaxNumber + 1) \in 0..MaxNumber
  BY DataAssumption
<1> QED  BY <1>1, DataAssumption DEF Stepped, Numbers

\* A question is left with the rule, and with at most one write.
LEMMA UseEnds ==
  ASSUME Records, Rule, RulesUse
  PROVE  /\ rules.pc = "USE"
         /\ \E id \in Nat : rules' = Continue(rules, id)
         /\ rules_q' = rules_q \/ \E w \in Write : rules_q' = Append(rules_q, w)
         /\ ListGone
         /\ UNCHANGED <<store, files, lists, trigger_q, thread_state, cron, main, crashed>>
<1> DEFINE n == rules.node
<1> DEFINE d == rules.list.data
<1> DEFINE value == IF n.kind = "CONDITION_TOPIC" THEN d[2] ELSE n.str
<1>1. /\ rules.pc = "USE"
      /\ ListGone
      /\ UNCHANGED <<store, files, lists, trigger_q, thread_state, cron, main, crashed>>
  BY DEF RulesUse, RulesAt
<1>2. n \in Node
  BY <1>1 DEF Rule, Executing, Questioning
<1>3. CASE rules' = Continue(rules, 0) /\ UNCHANGED rules_q
  BY <1>1, <1>3
<1>4. CASE /\ \E numeric \in BOOLEAN :
                rules' = Continue(rules, NextOf(n, d[1], value, numeric))
           /\ UNCHANGED rules_q
  BY <1>1, <1>2, <1>4, NextOfType
<1>5. ASSUME NEW numeric \in BOOLEAN,
             ReadAsNumbers(numeric, {d[1]}),
             rules' = Continue(rules, IF numeric THEN n.nextid ELSE 0),
             rules_q' = IF numeric
                        THEN Append(rules_q, [name |-> n.name, from |-> NoName,
                                              data |-> Stepped(n, d[1])])
                        ELSE rules_q
      PROVE  /\ \E id \in Nat : rules' = Continue(rules, id)
             /\ rules_q' = rules_q \/ \E w \in Write : rules_q' = Append(rules_q, w)
  <2>1. (IF numeric THEN n.nextid ELSE 0) \in Nat
    BY <1>2 DEF Node
  <2>2. CASE numeric
    <3>1. d[1] \in Numbers
      BY <1>5, <2>2 DEF ReadAsNumbers
    <3>2. Stepped(n, d[1]) \in Values
      BY <1>2, <3>1, SteppedType DEF Values
    <3>3. [name |-> n.name, from |-> NoName, data |-> Stepped(n, d[1])] \in Write
      BY <1>2, <3>2 DEF Write, Node
    <3> QED  BY <1>5, <2>1, <2>2, <3>3
  <2>3. CASE ~numeric
    BY <1>5, <2>1, <2>3
  <2> QED  BY <2>2, <2>3
<1> QED  BY <1>1, <1>3, <1>4, <1>5 DEF RulesUse

\* The triggers of a topic are a sequence: the places counted among them are
\* all the numbers up to how many there are.
LEMMA TriggeredByType ==
  ASSUME NEW t, mqtt_triggers \in Seq([name : Topics, next_id : Nat])
  PROVE  TriggeredBy(t) \in Seq(Nat)
<1> DEFINE mine == {i \in DOMAIN mqtt_triggers : mqtt_triggers[i].name = t}
           upTo(i) == {j \in mine : j =< i}
           place == [i \in mine |-> Cardinality(upTo(i))]
           Place(n) == CHOOSE i \in mine : Cardinality({j \in mine : j =< i}) = n
<1>1. IsFiniteSet(mine) /\ mine \in SUBSET Nat
  <2>1. mine \in SUBSET (1..Len(mqtt_triggers))
    OBVIOUS
  <2>2. IsFiniteSet(1..Len(mqtt_triggers))
    BY FS_Interval
  <2> QED  BY <2>1, <2>2, FS_Subset
<1>2. Cardinality(mine) \in Nat
  BY <1>1, FS_CardinalityType
<1>3. ASSUME NEW i \in mine
      PROVE  /\ IsFiniteSet(upTo(i)) /\ place[i] \in 1..Cardinality(mine)
  <2>1. upTo(i) \in SUBSET mine /\ i \in upTo(i)
    BY <1>1
  <2>2. IsFiniteSet(upTo(i)) /\ Cardinality(upTo(i)) =< Cardinality(mine)
    BY <1>1, <2>1, FS_Subset
  <2>3. Cardinality(upTo(i)) \in Nat
    BY <2>2, FS_CardinalityType
  <2>4. Cardinality(upTo(i)) # 0
    BY <2>1, <2>2, FS_EmptySet
  <2> QED  BY <1>2, <2>2, <2>3, <2>4
<1>4. ASSUME NEW i \in mine, NEW j \in mine, place[i] = place[j]
      PROVE  i = j
  <2>1. upTo(i) \in SUBSET upTo(j) \/ upTo(j) \in SUBSET upTo(i)
    BY <1>1
  <2>2. Cardinality(upTo(i)) = Cardinality(upTo(j))
    BY <1>4
  <2>3. upTo(i) = upTo(j)
    BY <1>3, <2>1, <2>2, FS_Subset
  <2>4. i \in upTo(i) /\ j \in upTo(j)
    BY <1>1
  <2> QED  BY <1>1, <2>3, <2>4
<1>5. place \in Injection(mine, 1..Cardinality(mine))
  <2>1. place \in [mine -> 1..Cardinality(mine)]
    BY <1>3
  <2> HIDE DEF place
  <2> QED  BY <1>4, <2>1, Fun_IsInj
<1>6. /\ IsFiniteSet(1..Cardinality(mine))
      /\ Cardinality(1..Cardinality(mine)) = Cardinality(mine)
  BY <1>2, FS_Interval
<1>7. place \in Surjection(mine, 1..Cardinality(mine))
  BY <1>1, <1>5, <1>6, FS_Injection
<1>8. ASSUME NEW n \in 1..Cardinality(mine)
      PROVE  Place(n) \in mine
  <2>1. \E i \in mine : place[i] = n
    BY <1>7 DEF Surjection
  <2>2. \E i \in mine : Cardinality({j \in mine : j =< i}) = n
    BY <2>1
  <2> QED  BY <2>2
<1>9. \A n \in 1..Cardinality(mine) : mqtt_triggers[Place(n)].next_id \in Nat
  <2>1. ASSUME NEW i \in mine
        PROVE  mqtt_triggers[i].next_id \in Nat
    <3>1. mqtt_triggers[i] \in [name : Topics, next_id : Nat]
      <4>1. i \in 1..Len(mqtt_triggers)
        OBVIOUS
      <4> QED  BY <4>1, ElementOfSeq
    <3> QED  BY <3>1
  <2> HIDE DEF mine, Place
  <2> QED  BY <1>8, <2>1
<1>10. TriggeredBy(t) = [n \in 1..Cardinality(mine) |-> mqtt_triggers[Place(n)].next_id]
  BY DEF TriggeredBy
<1> HIDE DEF mine, Place
<1> QED  BY <1>2, <1>9, <1>10

\* An item of the list of the rules thread is written: the rest stays.
LEMMA ItemWritten ==
  ASSUME Records, NEW k \in DOMAIN rules.list.data, NEW v \in Values,
         rules' = [rules EXCEPT !.list.data[k] = v]
  PROVE  /\ rules' \in [pc : RulesPcs, id : Nat, node : Node \cup {NoNode}, list : List]
         /\ rules'.pc = rules.pc /\ rules'.id = rules.id /\ rules'.node = rules.node
         /\ rules'.list.names = rules.list.names
         /\ rules'.list.filled = rules.list.filled
         /\ Len(rules'.list.data) = Len(rules.list.data)
         /\ rules'.list.data = [rules.list.data EXCEPT ![k] = v]
<1> DEFINE d == rules.list.data
           e == [d EXCEPT ![k] = v]
           l == [rules.list EXCEPT !.data = e]
<1>1. d \in Seq(Values)
  BY DEF Records, List
<1>2. e \in Seq(Values) /\ Len(e) = Len(d)
  BY <1>1
<1> HIDE DEF e
<1>3. l \in List /\ l.names = rules.list.names /\ l.filled = rules.list.filled /\ l.data = e
  BY <1>2 DEF Records, List
<1>4. rules' = [rules EXCEPT !.list = l]
  BY DEF Records, List, e
<1> HIDE DEF l
<1>5. rules'.list = l
  BY <1>4 DEF Records
<1>6. rules' \in [pc : RulesPcs, id : Nat, node : Node \cup {NoNode}, list : List]
  BY <1>3, <1>4 DEF Records
<1>7. rules'.pc = rules.pc /\ rules'.id = rules.id /\ rules'.node = rules.node
  BY <1>4 DEF Records
<1> QED  BY <1>2, <1>3, <1>5, <1>6, <1>7 DEF e

\* The steps of the answer change nothing but the data of the list, the place
\* of the mqtt thread in it, and at the end that it is filled.
LEMMA FillSteps ==
  ASSUME Records, Rule, Asked, MqttFill \/ MqttCopy \/ MqttFilled
  PROVE  /\ UNCHANGED <<store, files, lists, queues, gap, thread_state, cron, main, crashed>>
         /\ mqtt.pc \in {"FILL", "COPY"}
         /\ mqtt'.pc \in {"FILL", "COPY", "REPLY"}
         /\ mqtt'.held = mqtt.held
         /\ rules' \in [pc : RulesPcs, id : Nat, node : Node \cup {NoNode}, list : List]
         /\ rules'.pc = rules.pc /\ rules'.id = rules.id /\ rules'.node = rules.node
         /\ rules'.list.names = rules.list.names
         /\ Len(rules'.list.data) = Len(rules.list.data)
         /\ rules.list.filled => rules'.list.filled
         /\ mqtt.held # "LIVE" => UNCHANGED rules
         /\ mqtt'.pc = "REPLY" /\ mqtt.held = "LIVE" => rules'.list.filled
<1>1. Filling(rules.list) =>
        /\ mqtt.held = "LIVE"
        /\ mqtt.item \in DOMAIN rules.list.data
        /\ DataOfItem(rules.list) \in Values
  <2> SUFFICES ASSUME Filling(rules.list)
               PROVE  /\ mqtt.item \in DOMAIN rules.list.data
                      /\ DataOfItem(rules.list) \in Values
    BY DEF Filling
  <2>1. Len(rules.list.data) = Len(rules.list.names)
    BY DEF Filling, Asked, Rule
  <2>2. rules.list.names \in Seq(Topics) /\ rules.list.data \in Seq(Values)
    BY DEF Records, List
  <2>3. mqtt.item \in 1..Len(rules.list.names)
    BY <2>2 DEF Filling
  <2>4. rules.list.names[mqtt.item] \in Topics
    BY <2>2, <2>3, ElementOfSeq
  <2> QED  BY <2>1, <2>2, <2>3, <2>4 DEF DataOfItem, Records, TypeOK
<1>2. CASE MqttFill
  <2>1. PICK v \in Values : rules' = [rules EXCEPT !.list.data[mqtt.item] = v]
    BY <1>2 DEF MqttFill, Values
  <2>2. Filling(rules.list)
    BY <1>2 DEF MqttFill
  <2>3. /\ UNCHANGED <<store, files, lists, queues, gap, thread_state, cron, main, crashed>>
        /\ mqtt.pc = "FILL" /\ mqtt'.pc = "COPY" /\ mqtt'.held = mqtt.held
    BY <1>2 DEF MqttFill, MqttAt, MqttGoesTo, Records
  <2>4. mqtt.item \in DOMAIN rules.list.data
    BY <1>1, <2>2
  <2>5. /\ rules' \in [pc : RulesPcs, id : Nat, node : Node \cup {NoNode}, list : List]
        /\ rules'.pc = rules.pc /\ rules'.id = rules.id /\ rules'.node = rules.node
        /\ rules'.list.names = rules.list.names
        /\ rules'.list.filled = rules.list.filled
        /\ Len(rules'.list.data) = Len(rules.list.data)
    BY <2>1, <2>4, ItemWritten
  <2>6. mqtt.held = "LIVE"
    BY <1>1, <2>2
  <2> QED  BY <2>3, <2>5, <2>6
<1>3. CASE MqttCopy
  <2>1. /\ UNCHANGED <<store, files, lists, queues, gap, thread_state, cron, main, crashed>>
        /\ mqtt.pc = "COPY" /\ mqtt'.pc = "FILL" /\ mqtt'.held = mqtt.held
    BY <1>3 DEF MqttCopy, MqttAt, Records
  <2>2. CASE Filling(rules.list)
    <3>1. rules' = [rules EXCEPT !.list.data[mqtt.item] = DataOfItem(rules.list)]
      BY <1>3, <2>2 DEF MqttCopy
    <3>2. mqtt.item \in DOMAIN rules.list.data /\ DataOfItem(rules.list) \in Values
      BY <1>1, <2>2
    <3>3. /\ rules' \in [pc : RulesPcs, id : Nat, node : Node \cup {NoNode}, list : List]
          /\ rules'.pc = rules.pc /\ rules'.id = rules.id /\ rules'.node = rules.node
          /\ rules'.list.names = rules.list.names
          /\ rules'.list.filled = rules.list.filled
          /\ Len(rules'.list.data) = Len(rules.list.data)
      BY <3>1, <3>2, ItemWritten
    <3>4. mqtt.held = "LIVE"
      BY <1>1, <2>2
    <3> QED  BY <2>1, <3>3, <3>4
  <2>3. CASE ~Filling(rules.list)
    BY <1>3, <2>1, <2>3 DEF MqttCopy, Records
  <2> QED  BY <2>2, <2>3
<1>4. CASE MqttFilled
  <2>1. /\ UNCHANGED <<store, files, lists, queues, gap, thread_state, cron, main, crashed>>
        /\ mqtt.pc = "FILL" /\ mqtt'.pc = "REPLY" /\ mqtt'.held = mqtt.held
    BY <1>4 DEF MqttFilled, MqttAt, MqttGoesTo, Records
  <2>2. CASE mqtt.held = "LIVE"
    <3> DEFINE l == [rules.list EXCEPT !.filled = TRUE]
    <3>1. l \in List /\ l.names = rules.list.names /\ l.data = rules.list.data /\ l.filled
      BY DEF Records, List
    <3>2. rules' = [rules EXCEPT !.list = l]
      BY <1>4, <2>2 DEF MqttFilled, Records
    <3> HIDE DEF l
    <3>3. /\ rules' \in [pc : RulesPcs, id : Nat, node : Node \cup {NoNode}, list : List]
          /\ rules'.pc = rules.pc /\ rules'.id = rules.id /\ rules'.node = rules.node
          /\ rules'.list = l
      BY <3>1, <3>2 DEF Records
    <3> QED  BY <2>1, <2>2, <3>1, <3>3
  <2>3. CASE mqtt.held # "LIVE"
    BY <1>4, <2>1, <2>3 DEF MqttFilled, Records
  <2> QED  BY <2>2, <2>3
<1> QED  BY <1>2, <1>3, <1>4

\* They keep what is said of the rest.
LEMMA FillKeeps ==
  ASSUME Records, Rule, Asked, MqttFill \/ MqttCopy \/ MqttFilled
  PROVE  /\ Ended => Ended'
         /\ Rule'
         /\ Emptied => Emptied'
         /\ Asked'
         /\ InUse => InUse'
<1>1. /\ UNCHANGED <<store, mqtt_triggers, rules_nodes, cron_triggers, trigger_q, gap,
                    thread_state, cron, main>>
      /\ mqtt.pc \in {"FILL", "COPY"} /\ mqtt'.pc \in {"FILL", "COPY", "REPLY"}
      /\ mqtt'.held = mqtt.held
      /\ rules'.pc = rules.pc /\ rules'.id = rules.id /\ rules'.node = rules.node
      /\ rules'.list.names = rules.list.names
      /\ Len(rules'.list.data) = Len(rules.list.data)
  BY FillSteps DEF lists, queues
<1>2. /\ rules.list.filled => rules'.list.filled
      /\ mqtt.held # "LIVE" => UNCHANGED rules
      /\ mqtt'.pc = "REPLY" /\ mqtt.held = "LIVE" => rules'.list.filled
  BY FillSteps
<1>3. Ended => Ended'
  BY <1>1 DEF Ended
<1>4. Questioning' <=> Questioning
  BY <1>1 DEF Questioning
<1>5. ~Questioning => ~rules'.list.filled
  <2>1. ~Questioning => mqtt.held # "LIVE"
    BY DEF Asked
  <2> QED  BY <1>2, <2>1 DEF Rule
<1>6. Rule'
  BY <1>1, <1>4, <1>5 DEF Rule, Executing
<1>7. Emptied => Emptied'
  BY <1>1 DEF Emptied, AllOfOneFile, EngineIsOneFile, Reloading, lists
<1>8. Asked'
  BY <1>1, <1>2, <1>4 DEF Asked, GapClosed, Reloading, Waiting
<1>9. InUse => InUse'
  BY <1>1, <1>4 DEF InUse, Executing
<1> QED  BY <1>3, <1>6, <1>7, <1>8, <1>9

-----------------------------------------------------------------------------
(* Each part of the invariant is kept by every step *)

LEMMA EndedStep ==
  ASSUME Records, Rule, Ended, Asked, Next
  PROVE  Ended'
<1>0. CASE MqttFill \/ MqttCopy \/ MqttFilled
  BY <1>0, FillKeeps
<1> USE DEF Ended, Records, TypeOK, ThreadStates, Pointers, RulesPcs, MqttPcs, CronPcs, Waiting
<1>1. CASE \E t \in Topics, d \in Values : MqttPublish(t, d)
  BY <1>1 DEF MqttPublish, MqttAt
<1>2. CASE \E f \in RuleFiles : MqttSaveRules(f)
  BY <1>2 DEF MqttSaveRules, MqttAt, MqttGoesTo
<1>3. CASE MqttNoPacket
  BY <1>3 DEF MqttNoPacket, MqttAt, MqttGoesTo
<1>4. CASE MqttStep
  <2> USE DEF MqttAt, MqttGoesTo
  <2>1. CASE MqttSeesRequest \/ MqttTakesList \/ MqttApply \/ MqttCloseGap \/ MqttFreeRules
    BY <2>1 DEF MqttSeesRequest, MqttTakesList, MqttApply, MqttCloseGap, MqttFreeRules
  <2>2. CASE MqttFill \/ MqttCopy \/ MqttFilled
    BY <1>0, <2>2
  <2>3. CASE MqttReply \/ MqttSignal
    BY <2>3 DEF MqttReply, MqttSignal, Signal, Signalled, MqttAnswered
  <2>4. CASE MqttCheck
    BY <2>4 DEF MqttCheck
  <2>5. CASE MqttFreeCron
    BY <2>5 DEF MqttFreeCron, Stopping
  <2>6. CASE MqttWaitCron
    BY <2>6 DEF MqttWaitCron, Stopping
  <2>7. CASE MqttWaitRules
    BY <2>7 DEF MqttWaitRules
  <2>8. CASE MqttParse
    BY <2>8 DEF MqttParse
  <2>9. CASE MqttStart
    BY <2>9 DEF MqttStart
  <2> QED  BY <1>4, <2>1, <2>2, <2>3, <2>4, <2>5, <2>6, <2>7, <2>8, <2>9 DEF MqttStep
<1>5. CASE RulesStep
  BY <1>5, ZenonT(40) DEF RulesStep, RulesPoll, RulesNode, RulesWrite, RulesQuestion, RulesAsk, RulesTest,
      RulesBlock, RulesWake, RulesUse, RulesRemove, RulesCheck, RulesAt, Continue, ListGone
<1>6. CASE RulesWakeSpuriously
  BY <1>6 DEF RulesWakeSpuriously, RulesAt
<1>7. CASE CronStep
  <2>1. CASE CronLook \/ CronWalk \/ CronWalked
    BY <2>1 DEF CronLook, CronWalk, CronWalked, CronAt
  <2>2. CASE CronCheck
    BY <2>2 DEF CronCheck, CronAt
  <2> QED  BY <1>7, <2>1, <2>2 DEF CronStep
<1>8. CASE MainCloseGap
  BY <1>8 DEF MainCloseGap, MainGoes
<1>9. CASE MainStep
  BY <1>9 DEF MainStep, MainSignal, MainStop, MainWait, MainGoes, Signal, Signalled, Stopping
<1>10. CASE RulesUsesFreed \/ CronUsesFreed \/ MqttUsesFreed
  BY <1>10 DEF RulesUsesFreed, CronUsesFreed, MqttUsesFreed, Crash
<1> QED  BY <1>1, <1>2, <1>3, <1>4, <1>5, <1>6, <1>7, <1>8, <1>9, <1>10 DEF Next


LEMMA RuleStep ==
  ASSUME Records, Rule, Asked, Ended, Next
  PROVE  Rule'
<1>0. CASE MqttFill \/ MqttCopy \/ MqttFilled
  BY <1>0, FillKeeps
<1> USE DEF MqttAt, MqttGoesTo, Rule, Executing, Questioning, Records, TypeOK, RulesPcs, Waiting,
        MqttPcs, NoList, List, Pointers, queues, Ended, Asked
<1>1. CASE \E t \in Topics, d \in Values : MqttPublish(t, d)
  BY <1>1 DEF MqttPublish
<1>2. CASE \E f \in RuleFiles : MqttSaveRules(f)
  BY <1>2 DEF MqttSaveRules
<1>3. CASE MqttNoPacket
  BY <1>3 DEF MqttNoPacket
<1>4. CASE MqttStep
  <2>1. CASE MqttSeesRequest \/ MqttTakesList
    BY <2>1 DEF MqttSeesRequest, MqttTakesList
  <2>2. CASE MqttFill \/ MqttCopy \/ MqttFilled
    BY <1>0, <2>2
  <2>3. CASE MqttReply
    BY <2>3 DEF MqttReply, Signal, Signalled, MqttAnswered
  <2>4. CASE MqttApply
    BY <2>4 DEF MqttApply
  <2>5. CASE MqttCheck
    BY <2>5 DEF MqttCheck
  <2>6. CASE MqttCloseGap
    BY <2>6 DEF MqttCloseGap
  <2>7. CASE MqttSignal
    BY <2>7 DEF MqttSignal, Signal, Signalled
  <2>8. CASE MqttFreeRules
    BY <2>8 DEF MqttFreeRules
  <2>9. CASE MqttFreeCron
    BY <2>9 DEF MqttFreeCron, Stopping
  <2>10. CASE MqttWaitCron
    BY <2>10 DEF MqttWaitCron, Stopping
  <2>11. CASE MqttWaitRules
    BY <2>11 DEF MqttWaitRules
  <2>12. CASE MqttParse
    BY <2>12 DEF MqttParse, Loaded
  <2>13. CASE MqttStart
    BY <2>13 DEF MqttStart
  <2> QED  BY <1>4, <2>1, <2>2, <2>3, <2>4, <2>5, <2>6, <2>7, <2>8, <2>9, <2>10, <2>11,
              <2>12, <2>13 DEF MqttStep
<1>5. CASE RulesStep
  <2> USE DEF RulesAt, Continue
  <2>1. CASE RulesPoll
    BY <2>1 DEF RulesPoll
  <2>2. CASE RulesNode
    BY <2>2 DEF RulesNode
  <2>3. CASE RulesWrite
    BY <2>3 DEF RulesWrite
  <2>4. CASE RulesQuestion
    BY <2>4 DEF RulesQuestion
  <2>5. CASE RulesAsk \/ RulesTest \/ RulesBlock \/ RulesWake
    <3>1. CASE RulesAsk
      BY <3>1 DEF RulesAsk
    <3>2. CASE RulesTest
      BY <3>2 DEF RulesTest
    <3>3. CASE RulesBlock
      BY <3>3 DEF RulesBlock
    <3>4. CASE RulesWake
      BY <3>4 DEF RulesWake
    <3> QED  BY <2>5, <3>1, <3>2, <3>3, <3>4
  <2>6. CASE RulesUse
    <3>1. PICK id \in Nat : rules' = Continue(rules, id)
      BY <2>6, UseEnds
    <3> QED  BY <2>6, <3>1, UseEnds
  <2>7. CASE RulesRemove
    BY <2>7 DEF RulesRemove
  <2>8. CASE RulesCheck
    <3>1. /\ rules.pc = "CHECK"
          /\ rules' = [rules EXCEPT !.pc = "ENDED"] \/ rules' = [rules EXCEPT !.pc = "POLL"]
          /\ UNCHANGED trigger_q
      BY <2>8 DEF RulesCheck
    <3> QED  BY <3>1, ZenonT(40)
  <2> QED  BY <1>5, <2>1, <2>2, <2>3, <2>4, <2>5, <2>6, <2>7, <2>8 DEF RulesStep
<1>6. CASE RulesWakeSpuriously
  BY <1>6 DEF RulesWakeSpuriously, RulesAt
<1>7. CASE CronStep
  <2> USE DEF CronAt
  <2>1. CASE CronLook
    BY <2>1 DEF CronLook
  <2>2. CASE CronWalk
    BY <2>2 DEF CronWalk
  <2>3. CASE CronWalked
    BY <2>3 DEF CronWalked
  <2>4. CASE CronCheck
    BY <2>4 DEF CronCheck
  <2> QED  BY <1>7, <2>1, <2>2, <2>3, <2>4 DEF CronStep
<1>8. CASE MainCloseGap
  BY <1>8 DEF MainCloseGap, MainGoes
<1>9. CASE MainStep
  BY <1>9, ZenonT(40) DEF MainStep, MainSignal, MainStop, MainWait, MainGoes, Signal, Signalled, Stopping
<1>10. CASE RulesUsesFreed \/ CronUsesFreed \/ MqttUsesFreed
  BY <1>10 DEF RulesUsesFreed, CronUsesFreed, MqttUsesFreed, Crash
<1> QED  BY <1>1, <1>2, <1>3, <1>4, <1>5, <1>6, <1>7, <1>8, <1>9, <1>10 DEF Next

LEMMA EmptiedStep ==
  ASSUME Records, Rule, Ended, Emptied, Asked, Next
  PROVE  Emptied'
<1>0. CASE MqttFill \/ MqttCopy \/ MqttFilled
  BY <1>0, FillKeeps
<1> USE DEF MqttAt, MqttGoesTo, Records, TypeOK, Ended, Emptied, EngineIsOneFile, Reloading,
        AllOfOneFile, ThreadStates, MqttPcs, lists, RulesPcs, Waiting, CronPcs
<1>1. CASE \E t \in Topics, d \in Values : MqttPublish(t, d)
  BY <1>1 DEF MqttPublish
<1>2. CASE \E f \in RuleFiles : MqttSaveRules(f)
  BY <1>2 DEF MqttSaveRules
<1>3. CASE MqttNoPacket
  BY <1>3 DEF MqttNoPacket
<1>4. CASE MqttStep
  <2>1. CASE MqttSeesRequest \/ MqttTakesList
    BY <2>1 DEF MqttSeesRequest, MqttTakesList
  <2>2. CASE MqttFill \/ MqttCopy \/ MqttFilled
    BY <1>0, <2>2
  <2>3. CASE MqttReply
    BY <2>3 DEF MqttReply, Signal, Signalled, MqttAnswered
  <2>4. CASE MqttApply
    BY <2>4 DEF MqttApply
  <2>5. CASE MqttCheck
    BY <2>5 DEF MqttCheck
  <2>6. CASE MqttCloseGap
    BY <2>6 DEF MqttCloseGap
  <2>7. CASE MqttSignal
    BY <2>7 DEF MqttSignal, Signal, Signalled
  <2>8. CASE MqttFreeRules
    BY <2>8 DEF MqttFreeRules
  <2>9. CASE MqttFreeCron
    BY <2>9 DEF MqttFreeCron, Stopping
  <2>10. CASE MqttWaitCron
    BY <2>10 DEF MqttWaitCron, Stopping
  <2>11. CASE MqttWaitRules
    BY <2>11 DEF MqttWaitRules
  <2>12. CASE MqttParse
    BY <2>12 DEF MqttParse, Loaded
  <2>13. CASE MqttStart
    BY <2>13 DEF MqttStart
  <2> QED  BY <1>4, <2>1, <2>2, <2>3, <2>4, <2>5, <2>6, <2>7, <2>8, <2>9, <2>10, <2>11,
              <2>12, <2>13 DEF MqttStep
<1>5. CASE RulesStep
  <2> USE DEF RulesAt, Continue
  <2>1. CASE RulesPoll
    BY <2>1 DEF RulesPoll
  <2>2. CASE RulesNode
    BY <2>2 DEF RulesNode
  <2>3. CASE RulesWrite
    BY <2>3 DEF RulesWrite
  <2>4. CASE RulesQuestion
    BY <2>4 DEF RulesQuestion
  <2>5. CASE RulesAsk \/ RulesTest \/ RulesBlock \/ RulesWake
    <3>1. CASE RulesAsk
      BY <3>1 DEF RulesAsk
    <3>2. CASE RulesTest
      BY <3>2 DEF RulesTest
    <3>3. CASE RulesBlock
      BY <3>3 DEF RulesBlock
    <3>4. CASE RulesWake
      BY <3>4 DEF RulesWake
    <3> QED  BY <2>5, <3>1, <3>2, <3>3, <3>4
  <2>6. CASE RulesUse
    BY <2>6 DEF RulesUse, ListGone
  <2>7. CASE RulesRemove
    BY <2>7 DEF RulesRemove
  <2>8. CASE RulesCheck
    BY <2>8 DEF RulesCheck
  <2> QED  BY <1>5, <2>1, <2>2, <2>3, <2>4, <2>5, <2>6, <2>7, <2>8 DEF RulesStep
<1>6. CASE RulesWakeSpuriously
  BY <1>6 DEF RulesWakeSpuriously, RulesAt
<1>7. CASE CronStep
  <2> USE DEF CronAt
  <2>1. CASE CronLook
    BY <2>1 DEF CronLook
  <2>2. CASE CronWalk
    BY <2>2 DEF CronWalk
  <2>3. CASE CronWalked
    BY <2>3 DEF CronWalked
  <2>4. CASE CronCheck
    BY <2>4 DEF CronCheck
  <2> QED  BY <1>7, <2>1, <2>2, <2>3, <2>4 DEF CronStep
<1>8. CASE MainCloseGap
  BY <1>8 DEF MainCloseGap, MainGoes
<1>9. CASE MainStep
  <2>1. UNCHANGED <<mqtt_triggers, rules_nodes, cron_triggers, mqtt>>
    BY <1>9 DEF MainStep, MainSignal, MainStop, MainWait, MainGoes
  <2>2. \A thread \in {"mqtt", "rules", "cron"} :
          thread_state'[thread] = "RUNNING" => thread_state[thread] = "RUNNING"
    BY <1>9 DEF MainStep, MainSignal, MainStop, MainWait, Stopping
  <2>3. DOMAIN thread_state' = DOMAIN thread_state
    BY <1>9 DEF MainStep, MainSignal, MainStop, MainWait, Stopping
  <2> QED  BY <2>1, <2>2, <2>3
<1>10. CASE RulesUsesFreed \/ CronUsesFreed \/ MqttUsesFreed
  <2>1. UNCHANGED <<mqtt_triggers, rules_nodes, cron_triggers, mqtt, thread_state>>
    BY <1>10 DEF RulesUsesFreed, CronUsesFreed, MqttUsesFreed, Crash
  <2> QED  BY <2>1
<1> QED  BY <1>1, <1>2, <1>3, <1>4, <1>5, <1>6, <1>7, <1>8, <1>9, <1>10 DEF Next

LEMMA AskedStep ==
  ASSUME Records, Rule, Ended, Asked, Next
  PROVE  Asked'
<1>0. CASE MqttFill \/ MqttCopy \/ MqttFilled
  BY <1>0, FillKeeps
<1> USE DEF MqttAt, MqttGoesTo, Records, TypeOK, Rule, Ended, Asked, GapClosed, Reloading,
        Questioning, Executing, MqttPcs, RulesPcs, Waiting, Pointers, Dangling, Unlocked,
        NoList, List
<1>1. CASE \E t \in Topics, d \in Values : MqttPublish(t, d)
  BY <1>1 DEF MqttPublish
<1>2. CASE \E f \in RuleFiles : MqttSaveRules(f)
  BY <1>2 DEF MqttSaveRules
<1>3. CASE MqttNoPacket
  BY <1>3 DEF MqttNoPacket
<1>4. CASE MqttStep
  <2>1. CASE MqttSeesRequest \/ MqttTakesList
    BY <2>1 DEF MqttSeesRequest, MqttTakesList
  <2>2. CASE MqttFill \/ MqttCopy \/ MqttFilled
    BY <1>0, <2>2
  <2>3. CASE MqttReply
    BY <2>3 DEF MqttReply, Signal, Signalled, MqttAnswered
  <2>4. CASE MqttApply
    BY <2>4 DEF MqttApply
  <2>5. CASE MqttCheck
    BY <2>5 DEF MqttCheck
  <2>6. CASE MqttCloseGap
    BY <2>6 DEF MqttCloseGap
  <2>7. CASE MqttSignal
    BY <2>7 DEF MqttSignal, Signal, Signalled
  <2>8. CASE MqttFreeRules
    BY <2>8 DEF MqttFreeRules
  <2>9. CASE MqttFreeCron
    BY <2>9 DEF MqttFreeCron, Stopping
  <2>10. CASE MqttWaitCron
    BY <2>10 DEF MqttWaitCron, Stopping
  <2>11. CASE MqttWaitRules
    BY <2>11 DEF MqttWaitRules
  <2>12. CASE MqttParse
    BY <2>12 DEF MqttParse, Loaded
  <2>13. CASE MqttStart
    BY <2>13 DEF MqttStart
  <2> QED  BY <1>4, <2>1, <2>2, <2>3, <2>4, <2>5, <2>6, <2>7, <2>8, <2>9, <2>10, <2>11,
              <2>12, <2>13 DEF MqttStep
<1>5. CASE RulesStep
  <2> USE DEF RulesAt, Continue
  <2>1. CASE RulesPoll
    BY <2>1 DEF RulesPoll
  <2>2. CASE RulesNode
    BY <2>2 DEF RulesNode
  <2>3. CASE RulesWrite
    BY <2>3 DEF RulesWrite
  <2>4. CASE RulesQuestion
    BY <2>4 DEF RulesQuestion
  <2>5. CASE RulesAsk \/ RulesTest \/ RulesBlock \/ RulesWake
    <3>1. CASE RulesAsk
      BY <3>1 DEF RulesAsk
    <3>2. CASE RulesTest
      BY <3>2 DEF RulesTest
    <3>3. CASE RulesBlock
      BY <3>3 DEF RulesBlock
    <3>4. CASE RulesWake
      BY <3>4 DEF RulesWake
    <3> QED  BY <2>5, <3>1, <3>2, <3>3, <3>4
  <2>6. CASE RulesUse
    <3>1. PICK id \in Nat : rules' = Continue(rules, id)
      BY <2>6, UseEnds
    <3> QED  BY <2>6, <3>1, UseEnds, ZenonT(40) DEF ListGone
  <2>7. CASE RulesRemove
    BY <2>7 DEF RulesRemove
  <2>8. CASE RulesCheck
    BY <2>8 DEF RulesCheck
  <2> QED  BY <1>5, <2>1, <2>2, <2>3, <2>4, <2>5, <2>6, <2>7, <2>8 DEF RulesStep
<1>6. CASE RulesWakeSpuriously
  BY <1>6 DEF RulesWakeSpuriously, RulesAt
<1>7. CASE CronStep
  <2> USE DEF CronAt
  <2>1. CASE CronLook
    BY <2>1 DEF CronLook
  <2>2. CASE CronWalk
    BY <2>2 DEF CronWalk
  <2>3. CASE CronWalked
    BY <2>3 DEF CronWalked
  <2>4. CASE CronCheck
    BY <2>4 DEF CronCheck
  <2> QED  BY <1>7, <2>1, <2>2, <2>3, <2>4 DEF CronStep
<1>8. CASE MainCloseGap
  BY <1>8 DEF MainCloseGap, MainGoes
<1>9. CASE MainStep
  BY <1>9 DEF MainStep, MainSignal, MainStop, MainWait, MainGoes, Signal, Signalled, Stopping
<1>10. CASE RulesUsesFreed \/ CronUsesFreed \/ MqttUsesFreed
  BY <1>10, ZenonT(40) DEF RulesUsesFreed, CronUsesFreed, MqttUsesFreed, Crash
<1> QED  BY <1>1, <1>2, <1>3, <1>4, <1>5, <1>6, <1>7, <1>8, <1>9, <1>10 DEF Next

\* The answer does not change when nothing of it does, ...
LEMMA SameAnswer ==
  ASSUME Answering, UNCHANGED <<store, mqtt, rules.list>>, Questioning' => Questioning
  PROVE  Answering'
BY DEF Answering, HalfDone

\* ... nor when the mqtt thread is not at it.
LEMMA NoAnswer ==
  ASSUME Answering, UNCHANGED rules.list, Questioning' => Questioning,
         mqtt.pc \notin {"FILL", "COPY"}, mqtt'.pc \notin {"FILL", "COPY"}
  PROVE  Answering'
BY DEF Answering, HalfDone

LEMMA AnsweringStep ==
  ASSUME Records, Rule, Asked, Answering, Next
  PROVE  Answering'
<1> USE DEF MqttAt, MqttGoesTo, MqttPcs
<1>1. CASE \/ MqttNoPacket
           \/ \E t \in Topics, d \in Values : MqttPublish(t, d)
           \/ \E f \in RuleFiles : MqttSaveRules(f)
  <2>1. /\ UNCHANGED rules /\ mqtt.pc \notin {"FILL", "COPY"}
        /\ mqtt'.pc \notin {"FILL", "COPY"}
    BY <1>1 DEF MqttPublish, MqttSaveRules, MqttNoPacket, Records
  <2> QED  BY <2>1, NoAnswer DEF Questioning
<1>2. CASE MqttTakesList
  <2>1. /\ UNCHANGED <<store, rules>>
        /\ mqtt' = [pc |-> "FILL", held |-> gap.msg, item |-> 1] /\ mqtt.pc = "MSG"
    BY <1>2 DEF MqttTakesList
  <2>2. UNCHANGED Questioning
    BY <2>1 DEF Questioning
  <2>3. \A i \in DOMAIN rules.list.names : ~ i < 1
    <3>1. rules.list.names \in Seq(Topics)
      BY DEF Records, List
    <3>2. DOMAIN rules.list.names = 1..Len(rules.list.names)
      BY <3>1
    <3> QED  BY <3>1, <3>2
  <2>4. ~HalfDone
    BY <2>1 DEF HalfDone
  <2> QED  BY <2>1, <2>2, <2>3, <2>4 DEF Answering, HalfDone
<1>3. CASE MqttFill
  <2>1. PICK v \in Values : rules' = [rules EXCEPT !.list.data[mqtt.item] = v]
    BY <1>3 DEF MqttFill, Values
  <2>2. /\ UNCHANGED store /\ Filling(rules.list)
        /\ mqtt.pc = "FILL" /\ mqtt'.pc = "COPY" /\ mqtt'.held = mqtt.held
        /\ mqtt'.item = mqtt.item
    BY <1>3 DEF MqttFill, Records
  <2>3. mqtt.item \in DOMAIN rules.list.data
    <3>1. Len(rules.list.data) = Len(rules.list.names)
      BY <2>2 DEF Filling, Asked, Rule
    <3>2. rules.list.names \in Seq(Topics) /\ rules.list.data \in Seq(Values)
      BY DEF Records, List
    <3> QED  BY <2>2, <3>1, <3>2 DEF Filling
  <2>4. /\ rules'.list.names = rules.list.names
        /\ rules'.list.data = [rules.list.data EXCEPT ![mqtt.item] = v]
    BY <2>1, <2>3, ItemWritten
  <2>5. \A i \in DOMAIN rules.list.names :
          i < mqtt.item => rules'.list.data[i] = store[rules.list.names[i]]
    <3> SUFFICES ASSUME NEW i \in DOMAIN rules.list.names, i < mqtt.item
                 PROVE  rules'.list.data[i] = store[rules.list.names[i]]
      OBVIOUS
    <3>1. rules.list.data[i] = store[rules.list.names[i]]
      BY <2>2 DEF Answering, HalfDone, Filling
    <3>2. rules.list.names \in Seq(Topics) /\ mqtt.item \in Nat
      BY DEF Records, List
    <3>3. i \in Nat
      BY <3>2
    <3>4. i # mqtt.item
      BY <3>2, <3>3
    <3>5. rules'.list.data[i] = rules.list.data[i]
      BY <2>4, <3>4
    <3> QED  BY <3>1, <3>5
  <2>6. HalfDone' /\ mqtt.item \in DOMAIN rules.list.names /\ mqtt.item # 0
    BY <2>2 DEF HalfDone, Filling, Answering
  <2> QED  BY <2>2, <2>4, <2>5, <2>6 DEF Answering
<1>4. CASE MqttCopy
  <2>1. /\ UNCHANGED store
        /\ mqtt.pc = "COPY" /\ mqtt'.pc = "FILL" /\ mqtt'.held = mqtt.held
        /\ mqtt'.item = mqtt.item + 1 /\ mqtt.item \in Nat /\ mqtt'.item # 0
    BY <1>4 DEF MqttCopy, Records
  <2>2. CASE mqtt.held = "LIVE"
    <3>1. HalfDone /\ HalfDone' /\ mqtt.item \in DOMAIN rules.list.names
      BY <2>1, <2>2 DEF HalfDone, Answering
    <3>2. rules' = [rules EXCEPT !.list.data[mqtt.item] = DataOfItem(rules.list)]
      BY <1>4, <2>2, <3>1 DEF MqttCopy, Filling
    <3>3. rules.list.names \in Seq(Topics) /\ rules.list.data \in Seq(Values)
      BY DEF Records, List
    <3>4. /\ mqtt.item \in DOMAIN rules.list.data
          /\ DOMAIN rules.list.data = DOMAIN rules.list.names
      <4>1. Len(rules.list.data) = Len(rules.list.names)
        BY <2>2 DEF Asked, Rule
      <4> QED  BY <3>1, <3>3, <4>1
    <3>5. DataOfItem(rules.list) \in Values
      <4>1. rules.list.names[mqtt.item] \in Topics
        BY <3>1, <3>3, ElementOfSeq
      <4> QED  BY <4>1 DEF DataOfItem, Records, TypeOK
    <3>6. /\ rules'.list.names = rules.list.names
          /\ rules'.list.data = [rules.list.data EXCEPT ![mqtt.item] = DataOfItem(rules.list)]
      BY <3>2, <3>4, <3>5, ItemWritten
    <3>7. ASSUME NEW i \in DOMAIN rules.list.names, i < mqtt.item + 1
          PROVE  rules'.list.data[i] = store[rules.list.names[i]]
      <4>1. i \in Nat
        BY <3>3
      <4>2. CASE i = mqtt.item
        BY <3>4, <3>6, <4>2 DEF DataOfItem
      <4>3. CASE i # mqtt.item
        <5>1. i < mqtt.item
          BY <2>1, <3>7, <4>1, <4>3
        <5>2. rules.list.data[i] = store[rules.list.names[i]]
          BY <3>1, <5>1 DEF Answering
        <5> QED  BY <3>6, <4>3, <5>2
      <4> QED  BY <4>2, <4>3
    <3> QED  BY <2>1, <3>1, <3>6, <3>7 DEF Answering
  <2>3. CASE mqtt.held # "LIVE"
    <3>1. UNCHANGED rules /\ ~HalfDone /\ ~HalfDone'
      BY <1>4, <2>1, <2>3 DEF MqttCopy, Filling, HalfDone
    <3> QED  BY <2>1, <3>1 DEF Answering, Questioning
  <2> QED  BY <2>2, <2>3
<1>5. CASE MqttFilled
  <2>1. mqtt'.pc = "REPLY"
    BY <1>5 DEF MqttFilled, Records
  <2>2. /\ mqtt.held = "LIVE" => rules'.list.filled
        /\ mqtt.held # "LIVE" => UNCHANGED rules
    BY <1>5, <2>1, FillSteps
  <2>3. ~HalfDone'
    BY <2>1 DEF HalfDone
  <2>4. CASE mqtt.held = "LIVE"
    BY <2>1, <2>2, <2>3, <2>4 DEF Answering
  <2>5. CASE mqtt.held # "LIVE"
    <3>1. UNCHANGED rules /\ ~HalfDone
      BY <2>2, <2>5 DEF HalfDone
    <3> QED  BY <2>1, <2>3, <3>1 DEF Answering, Questioning
  <2> QED  BY <2>4, <2>5
<1>6. CASE \/ MqttSeesRequest \/ MqttApply \/ MqttCheck \/ MqttCloseGap \/ MqttFreeRules
           \/ MqttFreeCron \/ MqttWaitCron \/ MqttWaitRules \/ MqttParse
  <2>1. /\ UNCHANGED rules /\ mqtt.pc \notin {"FILL", "COPY"}
        /\ mqtt'.pc \notin {"FILL", "COPY"}
    BY <1>6 DEF MqttSeesRequest, MqttApply, MqttCheck, MqttCloseGap, MqttFreeRules, MqttFreeCron,
       MqttWaitCron, MqttWaitRules, MqttParse, Records
  <2> QED  BY <2>1, NoAnswer DEF Questioning
<1>7. CASE MqttReply \/ MqttSignal \/ MqttStart
  <2>1. /\ mqtt.pc \notin {"FILL", "COPY"} /\ mqtt'.pc \notin {"FILL", "COPY"}
        /\ rules' = Signalled(rules) \/ rules' = [rules EXCEPT !.pc = "POLL"]
    BY <1>7 DEF MqttReply, MqttSignal, MqttStart, MqttAnswered, Signal, Records
  <2>2. UNCHANGED rules.list /\ (Questioning' => Questioning)
    BY <2>1 DEF Signalled, Questioning, Records
  <2> QED  BY <2>1, <2>2, NoAnswer
<1>8. CASE RulesQuestion
  <2>1. /\ UNCHANGED <<store, mqtt>> /\ ~Questioning
        /\ rules'.list.data = [i \in DOMAIN rules'.list.names |-> NoData]
    BY <1>8 DEF RulesQuestion, RulesAt, Questioning, Records
  <2>2. ~HalfDone'
    BY <2>1 DEF HalfDone, Asked
  <2> QED  BY <2>1, <2>2 DEF Answering
<1>9. CASE RulesPoll \/ RulesNode \/ RulesWrite
  <2>1. UNCHANGED <<store, mqtt, main>> /\ rules.pc \in {"POLL", "NODE", "CALL"}
    BY <1>9 DEF RulesPoll, RulesNode, RulesWrite, RulesAt
  <2>2. \/ rules' = [rules EXCEPT !.pc = "CHECK"]
        \/ rules' = [rules EXCEPT !.pc = "CALL", !.node = rules_nodes[rules.id]]
        \/ \E id : rules' = Continue(rules, id)
    BY <1>9 DEF RulesPoll, RulesNode, RulesWrite
  <2>3. rules'.pc \in {"CHECK", "CALL", "REMOVE", "NODE"}
    BY <2>2 DEF Continue, Records
  <2>4. ~Questioning /\ ~Questioning'
    BY <2>1, <2>3 DEF Questioning
  <2>5. ~HalfDone'
    BY <2>1, <2>4 DEF HalfDone, Asked
  <2> QED  BY <2>1, <2>4, <2>5 DEF Answering
<1>10. CASE \/ RulesAsk \/ RulesTest \/ RulesBlock \/ RulesWake \/ RulesRemove \/ RulesCheck
            \/ RulesWakeSpuriously
  <2>1. UNCHANGED <<store, mqtt, rules.list, Questioning>>
    BY <1>10 DEF RulesAsk, RulesTest, RulesBlock, RulesWake, RulesRemove, RulesCheck,
       RulesWakeSpuriously, RulesAt, Questioning, Records, RulesPcs
  <2> QED  BY <2>1, SameAnswer
<1>11. CASE RulesUse
  <2>1. PICK id \in Nat : rules' = Continue(rules, id)
    BY <1>11, UseEnds
  <2>2. mqtt'.pc = mqtt.pc /\ mqtt'.item = mqtt.item /\ mqtt'.held # "LIVE"
    BY <1>11, UseEnds DEF Records, ListGone, Dangling
  <2>3. ~Questioning' /\ ~HalfDone'
    BY <2>1, <2>2 DEF Questioning, Continue, HalfDone, Records
  <2> QED  BY <2>2, <2>3 DEF Answering
<1>12. CASE CronStep \/ RulesUsesFreed \/ CronUsesFreed \/ MqttUsesFreed \/ MainCloseGap
  <2>1. UNCHANGED <<store, mqtt, rules>>
    BY <1>12 DEF CronStep, CronLook, CronWalk, CronWalked, CronCheck, CronAt,
       RulesUsesFreed, CronUsesFreed, MqttUsesFreed, Crash, MainCloseGap, MainGoes
  <2> QED  BY <2>1, SameAnswer DEF Questioning
<1>13. CASE MainStep
  <2>1. UNCHANGED <<store, mqtt>> /\ (rules' = rules \/ rules' = Signalled(rules))
    BY <1>13 DEF MainStep, MainSignal, MainStop, MainWait, MainGoes, Signal
  <2>2. UNCHANGED <<rules.list, Questioning>>
    BY <2>1 DEF Signalled, Questioning, Records
  <2> QED  BY <2>1, <2>2, SameAnswer
<1>14. CASE MqttStep
  BY <1>2, <1>3, <1>4, <1>5, <1>6, <1>7, <1>14 DEF MqttStep
<1>15. CASE RulesStep
  BY <1>8, <1>9, <1>10, <1>11, <1>15 DEF RulesStep
<1> HIDE DEF MqttAt, MqttGoesTo, MqttPcs
<1> QED  BY <1>1, <1>10, <1>12, <1>13, <1>14, <1>15 DEF Next

LEMMA FilledOnceStep ==
  ASSUME Records, Rule, Asked, FilledOnce, Next
  PROVE  FilledOnce'
<1> USE DEF MqttAt, MqttGoesTo, MqttPcs
<1>1. CASE MqttFill \/ MqttCopy \/ MqttFilled
  <2>1. /\ UNCHANGED <<gap, main>> /\ mqtt.pc \in {"FILL", "COPY"}
        /\ rules'.pc = rules.pc
        /\ MqttFill \/ MqttCopy => rules'.list.filled = rules.list.filled
        /\ MqttFilled => mqtt'.pc = "REPLY"
    <3>1. MqttFill \/ MqttCopy => rules'.list.filled = rules.list.filled
      BY DEF MqttFill, MqttCopy, Records, List
    <3>2. MqttFilled => mqtt'.pc = "REPLY"
      BY DEF MqttFilled, Records
    <3> QED  BY <1>1, <3>1, <3>2, FillSteps
  <2> QED  BY <1>1, <2>1 DEF FilledOnce
<1>2. CASE MqttReply
  <2>1. /\ mqtt.pc = "REPLY" /\ gap'.request = 0 /\ UNCHANGED main
        /\ rules' = Signalled(rules)
    BY <1>2 DEF MqttReply, Signal, Records, TypeOK
  <2>2. main = "RUN" => rules.pc \in Waiting
    BY <2>1 DEF Asked
  <2>3. main = "RUN" => rules'.pc # "ASK"
    BY <2>1, <2>2 DEF Signalled, Waiting, Records
  <2> QED  BY <2>1, <2>3 DEF FilledOnce
<1>3. CASE RulesAsk
  <2>1. /\ rules.pc = "ASK" /\ UNCHANGED <<main, mqtt, rules.list>>
    BY <1>3 DEF RulesAsk, RulesAt, Records
  <2>2. ~(main = "RUN" /\ mqtt.pc = "REPLY")
    BY <2>1 DEF Asked, Waiting
  <2> QED  BY <2>1, <2>2 DEF FilledOnce
<1>4. CASE RulesQuestion
  BY <1>4 DEF RulesQuestion, FilledOnce, Records
<1>5. CASE RulesPoll \/ RulesNode \/ RulesWrite
  <2>1. rules.pc \in {"POLL", "NODE", "CALL"}
    BY <1>5 DEF RulesPoll, RulesNode, RulesWrite, RulesAt
  <2>2. \/ rules' = [rules EXCEPT !.pc = "CHECK"]
        \/ rules' = [rules EXCEPT !.pc = "CALL", !.node = rules_nodes[rules.id]]
        \/ \E id : rules' = Continue(rules, id)
    BY <1>5 DEF RulesPoll, RulesNode, RulesWrite
  <2>3. ~rules.list.filled
    BY <2>1 DEF Questioning, Rule
  <2>4. ~rules'.list.filled
    <3>1. ASSUME NEW id, rules' = Continue(rules, id)
          PROVE  ~rules'.list.filled
      BY <3>1 DEF Continue, NoList, Records
    <3>2. CASE \/ rules' = [rules EXCEPT !.pc = "CHECK"]
               \/ rules' = [rules EXCEPT !.pc = "CALL", !.node = rules_nodes[rules.id]]
      BY <2>3, <3>2 DEF Records
    <3> QED  BY <2>2, <3>1, <3>2
  <2> QED  BY <2>4 DEF FilledOnce
<1>6. CASE RulesUse
  <2>1. PICK id \in Nat : rules' = Continue(rules, id)
    BY <1>6, UseEnds
  <2>2. ~rules'.list.filled
    BY <2>1 DEF Continue, NoList, Records
  <2> QED  BY <2>2 DEF FilledOnce
<1>7. CASE \/ RulesTest \/ RulesBlock \/ RulesWake \/ RulesRemove \/ RulesCheck
           \/ RulesWakeSpuriously
  <2>1. UNCHANGED <<gap, main, mqtt, rules.list>> /\ rules'.pc # "ASK"
    BY <1>7 DEF RulesTest, RulesBlock, RulesWake, RulesRemove, RulesCheck, RulesWakeSpuriously,
       RulesAt, Records
  <2> QED  BY <2>1 DEF FilledOnce
<1>8. CASE MqttSignal \/ MqttStart \/ MqttCloseGap
  <2>1. /\ UNCHANGED main /\ mqtt.pc # "REPLY"
        /\ UNCHANGED gap \/ gap'.request = 0
        /\ rules' = rules \/ rules' = Signalled(rules) \/ rules' = [rules EXCEPT !.pc = "POLL"]
    BY <1>8 DEF MqttSignal, MqttStart, MqttCloseGap, Signal, Records, TypeOK
  <2>2. UNCHANGED rules.list /\ (rules'.pc = "ASK" => rules.pc = "ASK")
    BY <2>1 DEF Signalled, Records
  <2> QED  BY <2>1, <2>2 DEF FilledOnce
<1>9. CASE \/ MqttSeesRequest \/ MqttTakesList \/ MqttApply \/ MqttCheck \/ MqttFreeRules
           \/ MqttFreeCron \/ MqttWaitCron \/ MqttWaitRules \/ MqttParse
           \/ MqttNoPacket \/ \E t \in Topics, d \in Values : MqttPublish(t, d)
           \/ \E f \in RuleFiles : MqttSaveRules(f)
  <2>1. UNCHANGED <<gap, rules, main>> /\ mqtt.pc # "REPLY"
    BY <1>9 DEF MqttSeesRequest, MqttTakesList, MqttApply, MqttCheck, MqttFreeRules, MqttFreeCron,
       MqttWaitCron, MqttWaitRules, MqttParse, MqttNoPacket, MqttPublish, MqttSaveRules
  <2> QED  BY <2>1 DEF FilledOnce
<1>10. CASE CronStep \/ RulesUsesFreed \/ CronUsesFreed \/ MqttUsesFreed
  <2>1. UNCHANGED <<gap, main, mqtt, rules>>
    BY <1>10 DEF CronStep, CronLook, CronWalk, CronWalked, CronCheck, CronAt,
       RulesUsesFreed, CronUsesFreed, MqttUsesFreed, Crash
  <2> QED  BY <2>1 DEF FilledOnce
<1>11. CASE MainCloseGap \/ MainStep
  <2>1. main' # "RUN"
    BY <1>11 DEF MainCloseGap, MainStep, MainSignal, MainStop, MainWait, MainGoes
  <2> QED  BY <2>1 DEF FilledOnce
<1> QED  BY <1>1, <1>2, <1>3, <1>4, <1>5, <1>6, <1>7, <1>8, <1>9, <1>10, <1>11
         DEF Next, MqttStep, RulesStep

LEMMA InUseStep ==
  ASSUME Records, Rule, Ended, Emptied, Asked, InUse, Next
  PROVE  InUse'
<1>0. CASE MqttFill \/ MqttCopy \/ MqttFilled
  BY <1>0, FillKeeps
<1> USE DEF MqttAt, MqttGoesTo, Records, TypeOK, Rule, Ended, InUse, Executing, Questioning,
        MqttPcs, RulesPcs, Waiting, CronPcs, lists
<1>1. CASE \E t \in Topics, d \in Values : MqttPublish(t, d)
  BY <1>1 DEF MqttPublish
<1>2. CASE \E f \in RuleFiles : MqttSaveRules(f)
  BY <1>2 DEF MqttSaveRules
<1>3. CASE MqttNoPacket
  BY <1>3 DEF MqttNoPacket
<1>4. CASE MqttStep
  <2>1. CASE MqttSeesRequest \/ MqttTakesList
    BY <2>1 DEF MqttSeesRequest, MqttTakesList
  <2>2. CASE MqttFill \/ MqttCopy \/ MqttFilled
    BY <1>0, <2>2
  <2>3. CASE MqttReply
    BY <2>3 DEF MqttReply, Signal, Signalled, MqttAnswered
  <2>4. CASE MqttApply
    BY <2>4 DEF MqttApply
  <2>5. CASE MqttCheck
    BY <2>5 DEF MqttCheck
  <2>6. CASE MqttCloseGap
    BY <2>6 DEF MqttCloseGap
  <2>7. CASE MqttSignal
    BY <2>7 DEF MqttSignal, Signal, Signalled
  <2>8. CASE MqttFreeRules
    BY <2>8 DEF MqttFreeRules
  <2>9. CASE MqttFreeCron
    BY <2>9 DEF MqttFreeCron, Stopping
  <2>10. CASE MqttWaitCron
    BY <2>10 DEF MqttWaitCron, Stopping
  <2>11. CASE MqttWaitRules
    BY <2>11 DEF MqttWaitRules
  <2>12. CASE MqttParse
    BY <2>12 DEF MqttParse, Loaded
  <2>13. CASE MqttStart
    BY <2>13 DEF MqttStart
  <2> QED  BY <1>4, <2>1, <2>2, <2>3, <2>4, <2>5, <2>6, <2>7, <2>8, <2>9, <2>10, <2>11,
              <2>12, <2>13 DEF MqttStep
<1>5. CASE RulesStep
  <2> USE DEF RulesAt, Continue
  <2>1. CASE RulesPoll
    BY <2>1 DEF RulesPoll
  <2>2. CASE RulesNode
    BY <2>2 DEF RulesNode
  <2>3. CASE RulesWrite
    BY <2>3 DEF RulesWrite
  <2>4. CASE RulesQuestion
    BY <2>4 DEF RulesQuestion
  <2>5. CASE RulesAsk \/ RulesTest \/ RulesBlock \/ RulesWake
    <3>1. CASE RulesAsk
      BY <3>1 DEF RulesAsk
    <3>2. CASE RulesTest
      BY <3>2 DEF RulesTest
    <3>3. CASE RulesBlock
      BY <3>3 DEF RulesBlock
    <3>4. CASE RulesWake
      BY <3>4 DEF RulesWake
    <3> QED  BY <2>5, <3>1, <3>2, <3>3, <3>4
  <2>6. CASE RulesUse
    <3>1. PICK id \in Nat : rules' = Continue(rules, id)
      BY <2>6, UseEnds
    <3> QED  BY <2>6, <3>1, UseEnds DEF ListGone
  <2>7. CASE RulesRemove
    BY <2>7 DEF RulesRemove
  <2>8. CASE RulesCheck
    BY <2>8 DEF RulesCheck
  <2> QED  BY <1>5, <2>1, <2>2, <2>3, <2>4, <2>5, <2>6, <2>7, <2>8 DEF RulesStep
<1>6. CASE RulesWakeSpuriously
  BY <1>6 DEF RulesWakeSpuriously, RulesAt
<1>7. CASE CronStep
  <2> USE DEF CronAt
  <2>1. CASE CronLook
    BY <2>1 DEF CronLook
  <2>2. CASE CronWalk
    BY <2>2 DEF CronWalk
  <2>3. CASE CronWalked
    BY <2>3 DEF CronWalked
  <2>4. CASE CronCheck
    BY <2>4 DEF CronCheck
  <2> QED  BY <1>7, <2>1, <2>2, <2>3, <2>4 DEF CronStep
<1>8. CASE MainCloseGap
  BY <1>8 DEF MainCloseGap, MainGoes
<1>9. CASE MainStep
  BY <1>9 DEF MainStep, MainSignal, MainStop, MainWait, MainGoes, Signal, Signalled, Stopping
<1>10. CASE RulesUsesFreed \/ CronUsesFreed \/ MqttUsesFreed
  BY <1>10 DEF RulesUsesFreed, CronUsesFreed, MqttUsesFreed, Crash
<1> QED  BY <1>1, <1>2, <1>3, <1>4, <1>5, <1>6, <1>7, <1>8, <1>9, <1>10 DEF Next

-----------------------------------------------------------------------------
(* Types *)

\* The actions that change each variable.
LEMMA Changes ==
  ASSUME Next
  PROVE  /\ UNCHANGED store \/ MqttApply \/ \E t \in Topics, d \in Values : MqttPublish(t, d)
         /\ UNCHANGED files \/ MqttParse \/ \E f \in RuleFiles : MqttSaveRules(f)
         /\ \/ UNCHANGED lists \/ MqttCheck \/ MqttSignal \/ MqttFreeRules \/ MqttFreeCron
            \/ MqttParse \/ RulesCheck \/ CronCheck
         /\ \/ UNCHANGED trigger_q \/ MqttApply \/ RulesRemove \/ CronWalk
            \/ \E t \in Topics, d \in Values : MqttPublish(t, d)
         /\ UNCHANGED rules_q \/ RulesWrite \/ RulesUse \/ MqttApply \/ MqttParse
         /\ \/ UNCHANGED gap \/ RulesQuestion \/ RulesAsk \/ RulesUse \/ MqttReply
            \/ MqttCloseGap \/ MainCloseGap
         /\ \/ UNCHANGED thread_state \/ RulesCheck \/ MqttCheck \/ MqttFreeCron
            \/ MqttWaitCron \/ MqttStart \/ CronCheck
            \/ \E thread \in {"mqtt", "rules", "cron"} : thread_state' = Stopping(thread)
         /\ \/ UNCHANGED mqtt \/ MqttNoPacket \/ MqttStep \/ RulesUse
            \/ \E f \in RuleFiles : MqttSaveRules(f)
         /\ \/ UNCHANGED rules \/ MqttFill \/ MqttCopy \/ MqttFilled \/ MqttReply \/ MqttSignal \/ MqttStart \/ RulesStep
            \/ RulesWakeSpuriously \/ Signal
         /\ UNCHANGED cron \/ MqttStart \/ CronStep
         /\ UNCHANGED crashed \/ crashed' = TRUE
<1> USE DEF lists, queues
<1>1. CASE \E t \in Topics, d \in Values : MqttPublish(t, d)
  BY <1>1 DEF MqttPublish, MqttAt
<1>2. CASE \E f \in RuleFiles : MqttSaveRules(f)
  BY <1>2 DEF MqttSaveRules, MqttAt
<1>3. CASE MqttNoPacket
  BY <1>3 DEF MqttNoPacket, MqttAt
<1>4. CASE MqttStep
  BY <1>4 DEF MqttStep, MqttSeesRequest, MqttTakesList, MqttFill, MqttCopy, MqttFilled, MqttReply, MqttApply, MqttCheck,
     MqttCloseGap, MqttSignal, MqttFreeRules, MqttFreeCron, MqttWaitCron, MqttWaitRules, MqttParse,
     MqttStart, MqttAt
<1>5. CASE RulesStep
  BY <1>5 DEF RulesStep, RulesPoll, RulesNode, RulesWrite, RulesQuestion, RulesAsk, RulesTest,
      RulesBlock, RulesWake, RulesUse, RulesRemove, RulesCheck, RulesAt, ListGone
<1>6. CASE RulesWakeSpuriously
  BY <1>6 DEF RulesWakeSpuriously, RulesAt
<1>7. CASE CronStep
  BY <1>7 DEF CronStep, CronLook, CronWalk, CronWalked, CronCheck, CronAt
<1>8. CASE MainCloseGap
  BY <1>8 DEF MainCloseGap, MainGoes
<1>9. CASE MainStep
  BY <1>9 DEF MainStep, MainSignal, MainStop, MainWait, MainGoes
<1>10. CASE RulesUsesFreed \/ CronUsesFreed \/ MqttUsesFreed
  BY <1>10 DEF RulesUsesFreed, CronUsesFreed, MqttUsesFreed, Crash
<1> QED  BY <1>1, <1>2, <1>3, <1>4, <1>5, <1>6, <1>7, <1>8, <1>9, <1>10 DEF Next

LEMMA StoreStep ==
  ASSUME Records, Next
  PROVE  store' \in [Topics -> Values]
<1> USE DEF Records, TypeOK
<1>1. CASE \E t \in Topics, d \in Values : MqttPublish(t, d)
  BY <1>1 DEF MqttPublish
<1>2. CASE MqttApply /\ rules_q # <<>>
  <2> DEFINE w == Head(rules_q)
  <2>1. w \in Write
    BY <1>2, HeadTailProperties
  <2>2. (IF w.from = NoName THEN w.data ELSE store[w.from]) \in Values
    BY <2>1 DEF Write
  <2> QED  BY <1>2, <2>1, <2>2 DEF MqttApply, Write
<1>3. CASE MqttApply /\ rules_q = <<>>
  BY <1>3 DEF MqttApply
<1>4. CASE UNCHANGED store
  BY <1>4
<1> QED  BY <1>1, <1>2, <1>3, <1>4, Changes

LEMMA FilesStep ==
  ASSUME Records, Next
  PROVE  rules_topic' \in RuleFiles \cup {NoFile} /\ rules_file' \in RuleFiles
<1> USE DEF Records, TypeOK, files
<1>1. CASE \E f \in RuleFiles : MqttSaveRules(f)
  BY <1>1 DEF MqttSaveRules
<1>2. CASE MqttParse
  BY <1>2 DEF MqttParse
<1>3. CASE UNCHANGED files
  BY <1>3
<1> QED  BY <1>1, <1>2, <1>3, Changes

LEMMA ListsStep ==
  ASSUME Records, Next
  PROVE  /\ mqtt_triggers' \in Seq([name : Topics, next_id : Nat])
         /\ \A id \in DOMAIN rules_nodes' : rules_nodes'[id] \in Node
         /\ cron_triggers' \in Seq(Nat)
<1> USE DEF Records, TypeOK, lists
<1>1. CASE MqttCheck \/ MqttSignal
  <2>1. /\ UNCHANGED <<rules_nodes, cron_triggers>>
        /\ mqtt_triggers' = <<>> \/ UNCHANGED mqtt_triggers
    BY <1>1 DEF MqttCheck, MqttSignal
  <2>2. CASE mqtt_triggers' = <<>>
    BY <2>1, <2>2
  <2>3. CASE UNCHANGED mqtt_triggers
    BY <2>1, <2>3
  <2> QED  BY <2>1, <2>2, <2>3
<1>2. CASE MqttFreeRules \/ RulesCheck
  BY <1>2 DEF MqttFreeRules, RulesCheck
<1>3. CASE MqttFreeCron \/ CronCheck
  <2>1. /\ UNCHANGED <<mqtt_triggers, rules_nodes>>
        /\ cron_triggers' = <<>> \/ UNCHANGED cron_triggers
    BY <1>3 DEF MqttFreeCron, CronCheck, CronAt
  <2>2. CASE cron_triggers' = <<>>
    BY <2>1, <2>2
  <2>3. CASE UNCHANGED cron_triggers
    BY <2>1, <2>3
  <2> QED  BY <2>1, <2>2, <2>3
<1>4. CASE MqttParse
  <2>1. IsFile(rules_file)
    BY FileAssumption
  <2>2. CASE UNCHANGED lists
    BY <2>2
  <2>3. CASE Loaded(rules_file) /\ rules_file.ok
    BY <2>1, <2>3 DEF Loaded, IsFile
  <2>4. CASE Loaded(rules_file) /\ ~rules_file.ok
    BY <2>4 DEF Loaded
  <2> QED  BY <1>4, <2>2, <2>3, <2>4 DEF MqttParse
<1>5. CASE UNCHANGED lists
  BY <1>5
<1> QED  BY <1>1, <1>2, <1>3, <1>4, <1>5, Changes

LEMMA TriggerQueueStep ==
  ASSUME Records, Rule, Next
  PROVE  trigger_q' \in Seq(Nat)
<1> USE DEF Records, TypeOK, queues
<1>1. \A t \in Topics : trigger_q \o TriggeredBy(t) \in Seq(Nat)
  BY TriggeredByType, ConcatProperties
<1>2. CASE \E t \in Topics, d \in Values : MqttPublish(t, d)
  BY <1>1, <1>2 DEF MqttPublish
<1>3. CASE MqttApply /\ rules_q # <<>>
  <2>1. Head(rules_q) \in Write
    BY <1>3, HeadTailProperties
  <2>2. Head(rules_q).name \in Topics
    BY <2>1 DEF Write
  <2> QED  BY <1>1, <1>3, <2>2 DEF MqttApply
<1>4. CASE MqttApply /\ rules_q = <<>>
  BY <1>4 DEF MqttApply
<1>5. CASE RulesRemove
  <2>1. trigger_q # <<>> /\ trigger_q' = Tail(trigger_q)
    BY <1>5 DEF RulesRemove, RulesAt, Rule
  <2> QED  BY <2>1, HeadTailProperties
<1>6. CASE CronWalk
  <2>1. Head(cron.walk) \in Nat
    BY <1>6, HeadTailProperties DEF CronWalk
  <2>2. trigger_q' = trigger_q \/ trigger_q' = Append(trigger_q, Head(cron.walk))
    BY <1>6 DEF CronWalk
  <2>3. Append(trigger_q, Head(cron.walk)) \in Seq(Nat)
    BY <2>1, AppendProperties
  <2> QED  BY <2>2, <2>3
<1>7. CASE UNCHANGED trigger_q
  BY <1>7
<1> QED  BY <1>2, <1>3, <1>4, <1>5, <1>6, <1>7, Changes

LEMMA RulesQueueStep ==
  ASSUME Records, Rule, Next
  PROVE  rules_q' \in Seq(Write)
<1> USE DEF Records, TypeOK, queues
<1>1. CASE RulesWrite
  <2>1. rules.node \in Node /\ rules.node.kind \in Writing
    BY <1>1 DEF RulesWrite, RulesAt, Rule, Executing
  <2>2. CASE rules.node.kind = "ACTION_VALUE"
    <3>1. [name |-> rules.node.name, data |-> rules.node.str, from |-> NoName] \in Write
      BY <2>1, <2>2 DEF Node, Write
    <3> QED  BY <1>1, <2>2, <3>1, AppendProperties DEF RulesWrite
  <2>3. CASE rules.node.kind = "ACTION_TOPIC"
    <3>1. [name |-> rules.node.name, data |-> NoData, from |-> rules.node.str] \in Write
      BY <2>1, <2>3 DEF Node, Write, Values
    <3> QED  BY <1>1, <2>3, <3>1, AppendProperties DEF RulesWrite
  <2> QED  BY <2>1, <2>2, <2>3 DEF Writing
<1>2. CASE RulesUse
  <2>1. rules_q' = rules_q \/ \E w \in Write : rules_q' = Append(rules_q, w)
    BY <1>2, UseEnds
  <2>2. \A w \in Write : Append(rules_q, w) \in Seq(Write)
    BY AppendProperties
  <2> QED  BY <2>1, <2>2, ZenonT(40)
<1>3. CASE MqttApply
  <2>1. CASE rules_q # <<>>
    <3>1. rules_q' = Tail(rules_q)
      BY <1>3, <2>1 DEF MqttApply
    <3> QED  BY <2>1, <3>1, HeadTailProperties
  <2>2. CASE rules_q = <<>>
    BY <1>3, <2>2 DEF MqttApply
  <2> QED  BY <2>1, <2>2
<1>4. CASE MqttParse
  <2>1. rules_file.variables \in Seq(Write)
    BY FileAssumption DEF IsFile
  <2>2. rules_q' = rules_q \/ rules_q' = rules_q \o rules_file.variables
    BY <1>4 DEF MqttParse
  <2>3. rules_q \o rules_file.variables \in Seq(Write)
    BY <2>1, ConcatProperties
  <2> QED  BY <2>2, <2>3
<1>5. CASE UNCHANGED rules_q
  BY <1>5
<1> QED  BY <1>1, <1>2, <1>3, <1>4, <1>5, Changes

LEMMA GapStep ==
  ASSUME Records, Next
  PROVE  gap' \in [request : {0, 1}, msg : Pointers]
<1> USE DEF Records, TypeOK, Pointers
<1>1. CASE RulesQuestion \/ RulesAsk
  BY <1>1 DEF RulesQuestion, RulesAsk
<1>2. CASE RulesUse
  BY <1>2 DEF RulesUse, ListGone, Dangling
<1>3. CASE MqttReply \/ MqttCloseGap \/ MainCloseGap
  BY <1>3 DEF MqttReply, MqttCloseGap, MainCloseGap
<1>4. CASE UNCHANGED gap
  BY <1>4
<1> QED  BY <1>1, <1>2, <1>3, <1>4, Changes

LEMMA StatesStep ==
  ASSUME Records, Next
  PROVE  thread_state' \in [{"mqtt", "rules", "cron"} -> ThreadStates]
<1> USE DEF Records, TypeOK, ThreadStates
<1>1. CASE MqttCheck \/ RulesCheck \/ CronCheck
  BY <1>1 DEF MqttCheck, RulesCheck, CronCheck
<1>2. CASE MqttFreeCron \/ MqttWaitCron
  BY <1>2 DEF MqttFreeCron, MqttWaitCron, Stopping
<1>3. CASE \E thread \in {"mqtt", "rules", "cron"} : thread_state' = Stopping(thread)
  BY <1>3 DEF Stopping
<1>4. CASE MqttStart
  BY <1>4 DEF MqttStart
<1>5. CASE UNCHANGED thread_state
  BY <1>5
<1> QED  BY <1>1, <1>2, <1>3, <1>4, <1>5, Changes

LEMMA MqttThreadStep ==
  ASSUME Records, Next
  PROVE  mqtt' \in [pc : MqttPcs, held : Pointers, item : Nat]
<1> USE DEF Records, TypeOK, MqttPcs, Pointers
<1>1. CASE MqttNoPacket \/ \E f \in RuleFiles : MqttSaveRules(f)
  <2>1. UNCHANGED mqtt \/ \E pc \in {"GAP", "CLOSE"} : mqtt' = [mqtt EXCEPT !.pc = pc]
    BY <1>1 DEF MqttNoPacket, MqttSaveRules, MqttGoesTo
  <2>2. ASSUME NEW pc \in {"GAP", "CLOSE"}, mqtt' = [mqtt EXCEPT !.pc = pc]
        PROVE  mqtt' \in [pc : MqttPcs, held : Pointers, item : Nat]
    BY <2>2
  <2> QED  BY <2>1, <2>2
<1>2. CASE MqttStep
  <2>1. CASE MqttTakesList \/ MqttReply
    BY <2>1 DEF MqttTakesList, MqttReply, MqttAnswered
  <2>2. CASE MqttCopy
    <3>1. mqtt' = [mqtt EXCEPT !.pc = "FILL", !.item = mqtt.item + 1]
      BY <2>2 DEF MqttCopy
    <3>2. mqtt.item + 1 \in Nat
      OBVIOUS
    <3> QED  BY <3>1, <3>2
  <2>3. CASE ~(MqttTakesList \/ MqttReply \/ MqttCopy)
    <3>1. \E pc \in MqttPcs : mqtt' = [mqtt EXCEPT !.pc = pc]
      BY <1>2, <2>3 DEF MqttStep, MqttSeesRequest, MqttFill, MqttFilled, MqttApply, MqttCheck,
         MqttCloseGap, MqttSignal, MqttFreeRules, MqttFreeCron, MqttWaitCron, MqttWaitRules,
         MqttParse, MqttStart, MqttGoesTo
    <3>2. ASSUME NEW pc \in MqttPcs, mqtt' = [mqtt EXCEPT !.pc = pc]
          PROVE  mqtt' \in [pc : MqttPcs, held : Pointers, item : Nat]
      BY <3>2
    <3> QED  BY <3>1, <3>2
  <2> QED  BY <2>1, <2>2, <2>3
<1>3. CASE RulesUse
  BY <1>3 DEF RulesUse, ListGone, Dangling
<1>4. CASE UNCHANGED mqtt
  BY <1>4
<1> QED  BY <1>1, <1>2, <1>3, <1>4, Changes

\* What the rules thread is, wherever it goes on.
LEMMA ContinueType ==
  ASSUME Records, NEW id \in Nat
  PROVE  Continue(rules, id) \in [pc : RulesPcs, id : Nat, node : Node \cup {NoNode}, list : List]
<1>1. NoList \in List
  BY DEF NoList, List
<1> QED  BY <1>1 DEF Continue, Records, RulesPcs

LEMMA RulesThreadStep ==
  ASSUME Records, Rule, Asked, Next
  PROVE  rules' \in [pc : RulesPcs, id : Nat, node : Node \cup {NoNode}, list : List]
<1> USE DEF Records, TypeOK, RulesPcs, Waiting
<1>1. CASE MqttFill \/ MqttCopy \/ MqttFilled
  BY <1>1, FillSteps
<1>2. CASE Signal \/ MqttReply \/ MqttSignal
  BY <1>2 DEF MqttReply, MqttSignal, Signal, Signalled
<1>3. CASE MqttStart \/ RulesWakeSpuriously
  BY <1>3 DEF MqttStart, RulesWakeSpuriously
<1>4. CASE RulesStep
  <2>1. CASE RulesPoll
    <3>1. CASE trigger_q = <<>>
      BY <2>1, <3>1 DEF RulesPoll
    <3>2. CASE trigger_q # <<>>
      BY <2>1, <3>2, HeadTailProperties, ContinueType DEF RulesPoll
    <3> QED  BY <3>1, <3>2
  <2>2. CASE RulesNode
    <3>1. CASE rules.id \in DOMAIN rules_nodes
      BY <2>2, <3>1 DEF RulesNode
    <3>2. CASE rules.id \notin DOMAIN rules_nodes
      BY <2>2, <3>2, ContinueType DEF RulesNode
    <3> QED  BY <3>1, <3>2
  <2>3. CASE RulesWrite
    <3>1. rules.node.nextid \in Nat
      BY <2>3 DEF RulesWrite, RulesAt, Rule, Executing, Node
    <3> QED  BY <2>3, <3>1, ContinueType DEF RulesWrite
  <2>4. CASE RulesQuestion
    <3> DEFINE names == NamesAsked(rules.node)
               data == [i \in DOMAIN names |-> NoData]
    <3>1. names \in Seq(Topics)
      BY <2>4 DEF RulesQuestion, RulesAt, Rule, Executing, NamesAsked, Node
    <3>2. data \in Seq(Values)
      BY <3>1 DEF Values
    <3>3. rules' = [rules EXCEPT !.pc = "ASK",
                      !.list = [names |-> names, data |-> data, filled |-> FALSE]]
      BY <2>4 DEF RulesQuestion
    <3> HIDE DEF names, data
    <3> QED  BY <3>1, <3>2, <3>3 DEF List
  <2>5. CASE RulesAsk \/ RulesTest \/ RulesBlock \/ RulesWake
    <3>1. CASE RulesAsk
      BY <3>1 DEF RulesAsk
    <3>2. CASE RulesTest
      BY <3>2 DEF RulesTest
    <3>3. CASE RulesBlock
      BY <3>3 DEF RulesBlock
    <3>4. CASE RulesWake
      BY <3>4 DEF RulesWake
    <3> QED  BY <2>5, <3>1, <3>2, <3>3, <3>4
  <2>6. CASE RulesUse
    BY <2>6, UseEnds, ContinueType
  <2>7. CASE RulesRemove \/ RulesCheck
    BY <2>7, ZenonT(40) DEF RulesRemove, RulesCheck
  <2> QED  BY <1>4, <2>1, <2>2, <2>3, <2>4, <2>5, <2>6, <2>7 DEF RulesStep
<1>5. CASE UNCHANGED rules
  BY <1>5
<1> QED  BY <1>1, <1>2, <1>3, <1>4, <1>5, Changes

LEMMA CronThreadStep ==
  ASSUME Records, Next
  PROVE  cron' \in [pc : CronPcs, walk : Seq(Nat)]
<1> USE DEF Records, TypeOK, CronPcs
<1>1. CASE MqttStart
  BY <1>1 DEF MqttStart
<1>2. CASE CronLook \/ CronWalked
  <2>1. CASE cron' = [pc |-> "WALK", walk |-> cron_triggers]
    BY <2>1
  <2>2. CASE cron' = [pc |-> "SLEEP", walk |-> <<>>]
    BY <2>2
  <2>3. CASE cron' = [cron EXCEPT !.pc = "SLEEP"]
    BY <2>3
  <2> QED  BY <1>2, <2>1, <2>2, <2>3 DEF CronLook, CronWalked
<1>3. CASE CronCheck
  BY <1>3 DEF CronCheck
<1>4. CASE CronWalk
  BY <1>4, HeadTailProperties DEF CronWalk
<1>5. CASE UNCHANGED cron
  BY <1>5
<1> QED  BY <1>1, <1>2, <1>3, <1>4, <1>5, Changes DEF CronStep

LEMMA RecordsStep ==
  ASSUME Records, Rule, Asked, Next
  PROVE  Records'
<1>1. crashed' \in BOOLEAN
  BY Changes DEF Records, TypeOK
<1> QED  BY <1>1, StoreStep, FilesStep, ListsStep, TriggerQueueStep, RulesQueueStep, GapStep,
            StatesStep, MqttThreadStep, RulesThreadStep, CronThreadStep
         DEF Records, TypeOK, List

-----------------------------------------------------------------------------
(* The invariant holds *)

LEMMA InitStep ==
  ASSUME Init
  PROVE  IInv
<1>1. PICK f \in RuleFiles :
        /\ store = [t \in Topics |-> NoData]
        /\ rules_file = f
        /\ rules_topic = IF f.ok THEN f ELSE NoFile
        /\ mqtt_triggers = IF f.ok THEN f.triggers ELSE <<>>
        /\ rules_nodes = IF f.ok THEN f.nodes ELSE <<>>
        /\ cron_triggers = IF f.ok THEN f.cron ELSE <<>>
        /\ rules_q = f.variables
  BY DEF Init
<1>2. /\ trigger_q = <<>>
      /\ gap = [request |-> 0, msg |-> "NULL"]
      /\ thread_state = [mqtt |-> "RUNNING", rules |-> "RUNNING", cron |-> "RUNNING"]
      /\ mqtt = [pc |-> "PACKET", held |-> "NULL", item |-> 0]
      /\ rules = [pc |-> "POLL", id |-> 0, node |-> NoNode, list |-> NoList]
      /\ cron = [pc |-> "LOOK", walk |-> <<>>]
      /\ crashed = FALSE
  BY DEF Init
<1>3. IsFile(f)
  BY FileAssumption
<1>4. Records
  <2>1. store \in [Topics -> Values]
    BY <1>1 DEF Values
  <2>2. /\ rules_topic \in RuleFiles \cup {NoFile} /\ rules_file \in RuleFiles
        /\ rules_q \in Seq(Write)
    BY <1>1, <1>3 DEF IsFile
  <2>3. /\ mqtt_triggers \in Seq([name : Topics, next_id : Nat])
        /\ \A id \in DOMAIN rules_nodes : rules_nodes[id] \in Node
        /\ cron_triggers \in Seq(Nat)
    <3>1. CASE f.ok
      BY <1>1, <1>3, <3>1 DEF IsFile
    <3>2. CASE ~f.ok
      BY <1>1, <3>2
    <3> QED  BY <3>1, <3>2
  <2>4. gap \in [request : {0, 1}, msg : Pointers]
    BY <1>2 DEF Pointers
  <2>5. thread_state \in [{"mqtt", "rules", "cron"} -> ThreadStates]
    BY <1>2 DEF ThreadStates
  <2>6. mqtt \in [pc : MqttPcs, held : Pointers, item : Nat] /\ cron \in [pc : CronPcs, walk : Seq(Nat)]
    BY <1>2 DEF MqttPcs, Pointers, CronPcs
  <2>7. NoList \in List
    BY DEF NoList, List
  <2>8. rules \in [pc : RulesPcs, id : Nat, node : Node \cup {NoNode}, list : List]
    BY <1>2, <2>7 DEF RulesPcs
  <2> QED  BY <1>2, <2>1, <2>2, <2>3, <2>4, <2>5, <2>6, <2>8 DEF Records, TypeOK, List
<1>5. Rule
  BY <1>2 DEF Rule, Executing, Questioning, NoList
<1>6. Ended
  BY <1>2 DEF Ended
<1>7. Emptied
  BY <1>1, <1>2 DEF Emptied, EngineIsOneFile, lists
<1>8. Asked
  BY <1>2 DEF Asked, Questioning, Waiting
<1>9. Answering
  BY <1>2 DEF Answering, HalfDone, Questioning
<1>10. InUse
  BY <1>2 DEF InUse, Executing, Questioning
<1>11. FilledOnce
  BY <1>2 DEF FilledOnce, NoList
<1> QED  BY <1>4, <1>5, <1>6, <1>7, <1>8, <1>9, <1>10, <1>11 DEF IInv

LEMMA NextStep ==
  ASSUME IInv, [Next]_vars
  PROVE  IInv'
<1>1. CASE Next
  BY <1>1, RecordsStep, RuleStep, EndedStep, EmptiedStep, AskedStep, AnsweringStep, FilledOnceStep,
     InUseStep DEF IInv
<1>2. CASE UNCHANGED vars
  BY <1>2 DEF vars, lists, files, queues, IInv, Records, TypeOK, Rule, Executing, Questioning, Ended,
     Emptied, AllOfOneFile, EngineIsOneFile, Reloading, Asked, GapClosed,
     Answering, HalfDone, FilledOnce, InUse
<1> QED  BY <1>1, <1>2

\* The invariant holds of the rules engine, whatever the rules files are.
THEOREM Invariant == Spec => []IInv
BY InitStep, NextStep, PTL DEF Spec

\* Every variable of the threads and of what they share has its type.
THEOREM TypeCorrect == Spec => []TypeOK
<1>1. IInv => TypeOK
  BY DEF IInv, Records
<1> QED  BY <1>1, Invariant, PTL

\* Whenever the three threads run and no reload is under way, their triggers
\* and nodes are those of one file, or there are none.
THEOREM OneFileAtATime == Spec => []EngineIsOneFile
<1>1. IInv => EngineIsOneFile
  BY DEF IInv, Emptied
<1> QED  BY <1>1, Invariant, PTL

\* Memory of the rules is used after it was freed only between the moment a
\* reload frees it and the end of the thread that uses it, or after the main
\* thread closed the gap under an answer.
THEOREM FreedUse == Spec => FreedUsedOnlyInReload
<1>1. ASSUME IInv, [Next]_vars, crashed' /\ ~crashed
      PROVE  \/ mqtt.pc \in {"FREE_RULES", "FREE_CRON", "WAIT_CRON", "WAIT_RULES"}
             \/ mqtt.pc \in {"FILL", "COPY"} /\ main # "RUN"
  <2>1. RulesUsesFreed \/ CronUsesFreed \/ MqttUsesFreed
    <3>1. \/ UNCHANGED crashed \/ RulesUsesFreed \/ CronUsesFreed \/ MqttUsesFreed
      BY <1>1 DEF vars, Next, MqttPublish, MqttSaveRules, MqttNoPacket, MqttStep, MqttSeesRequest,
         MqttTakesList, MqttFill, MqttCopy, MqttFilled, MqttReply, MqttApply, MqttCheck, MqttCloseGap, MqttSignal,
         MqttFreeRules, MqttFreeCron, MqttWaitCron, MqttWaitRules, MqttParse, MqttStart, MqttAt,
         RulesStep, RulesPoll, RulesNode, RulesWrite, RulesQuestion, RulesAsk, RulesTest, RulesBlock,
         RulesWake, RulesUse, RulesRemove, RulesCheck, RulesWakeSpuriously, RulesAt,
         CronStep, CronLook, CronWalk, CronWalked, CronCheck, CronAt,
         MainCloseGap, MainStep, MainSignal, MainStop, MainWait, MainGoes
    <3> QED  BY <1>1, <3>1
  <2>2. CASE RulesUsesFreed
    BY <1>1, <2>2 DEF RulesUsesFreed, IInv, InUse, Executing, Questioning
  <2>3. CASE CronUsesFreed
    BY <1>1, <2>3 DEF CronUsesFreed, IInv, InUse
  <2>4. CASE MqttUsesFreed
    BY <1>1, <2>4 DEF MqttUsesFreed, IInv, Asked
  <2> QED  BY <2>1, <2>2, <2>3, <2>4
<1> QED  BY <1>1, Invariant, PTL DEF Spec, FreedUsedOnlyInReload

-----------------------------------------------------------------------------
(* The gap implements TopicReads *)

Going == rules.pc = "USE"

LEMMA SameReads ==
  ASSUME UNCHANGED <<store, GapClosed, HalfFilled, Questioning, Going, rules.list>>
  PROVE  UNCHANGED Reads!vars
BY DEF Reads!vars, Going

LEMMA QuestionNames ==
  ASSUME IInv, Questioning
  PROVE  /\ rules.list.names # <<>> /\ rules.list.data # <<>>
         /\ DOMAIN rules.list.data = DOMAIN rules.list.names
<1>1. rules.list.names # <<>>
  BY DEF IInv, Rule, NamesAsked
<1>2. /\ rules.list.names \in Seq(Topics) /\ rules.list.data \in Seq(Values)
      /\ Len(rules.list.data) = Len(rules.list.names)
  BY DEF IInv, Records, List, Rule
<1> QED  BY <1>1, <1>2

\* After the main thread closed the gap, the answer may be read in any state.
LEMMA TornStep ==
  ASSUME IInv, IInv', Questioning, Questioning', rules'.list.names = rules.list.names,
         main # "RUN", HalfFilled', UNCHANGED <<store, main>>
  PROVE  Reads!Tear
<1>1. rules'.list.data \in Seq(Values)
  BY DEF IInv, Records, List
<1>2. <<>> \in Seq(Values)
  OBVIOUS
<1> QED  BY <1>1, <1>2, QuestionNames DEF Reads!Tear, GapClosed

LEMMA FillReads ==
  ASSUME IInv, IInv', MqttFill \/ MqttCopy \/ MqttFilled
  PROVE  Reads!Next \/ UNCHANGED Reads!vars
<1> USE DEF Going, Questioning
<1>1. /\ UNCHANGED <<store, main>> /\ mqtt.pc \in {"FILL", "COPY"}
      /\ mqtt'.pc \in {"FILL", "COPY", "REPLY"} /\ mqtt'.held = mqtt.held
      /\ rules'.pc = rules.pc /\ rules'.list.names = rules.list.names
      /\ mqtt.held # "LIVE" => UNCHANGED rules
  BY FillSteps DEF IInv
<1>2. UNCHANGED GapClosed
  BY <1>1 DEF GapClosed, Reloading
<1>3. CASE mqtt.held # "LIVE"
  <2>1. UNCHANGED HalfFilled
    BY <1>1, <1>3 DEF HalfFilled
  <2>2. UNCHANGED <<store, rules, Questioning, Going>>
    BY <1>1, <1>3
  <2> QED  BY <1>2, <2>1, <2>2, SameReads
<1>4. ASSUME mqtt.held = "LIVE", MqttFill \/ MqttCopy
      PROVE  Reads!Next \/ UNCHANGED Reads!vars
  <2>1. mqtt'.pc \in {"FILL", "COPY"}
    BY <1>4 DEF MqttFill, MqttCopy, MqttGoesTo, IInv, Records
  <2>5. rules'.list.filled = rules.list.filled
    BY <1>4 DEF MqttFill, MqttCopy, IInv, Records, List
  <2>2. Questioning
    BY <1>4 DEF IInv, Asked
  <2>3. CASE main # "RUN"
    <3>1. HalfFilled'
      BY <1>1, <1>4, <2>1, <2>3 DEF HalfFilled
    <3>2. Reads!Tear
      BY <1>1, <2>2, <2>3, <3>1, TornStep
    <3> QED  BY <3>2 DEF Reads!Next
  <2>4. CASE main = "RUN"
    <3>1. gap.request = 1 /\ rules.pc # "USE"
      BY <1>1, <2>4 DEF IInv, Asked, Waiting
    <3>2. rules.list.filled = FALSE
      BY <1>1, <2>4, <3>1 DEF IInv, FilledOnce, Records, List
    <3>3. UNCHANGED HalfFilled
      BY <1>1, <2>4 DEF HalfFilled
    <3>4. UNCHANGED (IF Questioning THEN rules.list.names ELSE <<>>)
      BY <1>1
    <3>5. UNCHANGED (IF rules.list.filled THEN rules.list.data ELSE <<>>)
      BY <2>5, <3>2
    <3>6. UNCHANGED (IF rules.pc = "USE" THEN rules.list.data ELSE <<>>)
      BY <1>1, <3>1
    <3> QED  BY <1>1, <1>2, <3>3, <3>4, <3>5, <3>6 DEF Reads!vars
  <2> QED  BY <2>3, <2>4
<1>5. ASSUME mqtt.held = "LIVE", MqttFilled
      PROVE  Reads!Answer
  <2>1. /\ mqtt.pc = "FILL" /\ mqtt'.pc = "REPLY" /\ ~Filling(rules.list)
        /\ rules'.list.filled = TRUE /\ rules'.list.data = rules.list.data
    BY <1>5 DEF MqttFilled, MqttAt, MqttGoesTo, IInv, Records, List
  <2>2. Questioning
    BY <1>5 DEF IInv, Asked
  <2>3. /\ rules.list.names \in Seq(Topics) /\ rules.list.data \in Seq(Values)
        /\ mqtt.item \in Nat \ {0}
    BY <2>1 DEF IInv, Records, List, Answering
  <2>4. \A i \in DOMAIN rules.list.names : i < mqtt.item
    BY <1>5, <2>1, <2>3 DEF Filling
  <2>5. rules.list.data = [i \in DOMAIN rules.list.names |-> store[rules.list.names[i]]]
    <3>1. \A i \in DOMAIN rules.list.names : rules.list.data[i] = store[rules.list.names[i]]
      BY <1>5, <2>1, <2>4 DEF IInv, Answering, HalfDone
    <3>2. DOMAIN rules.list.data = DOMAIN rules.list.names
      BY <2>2, QuestionNames
    <3> QED  BY <2>3, <3>1, <3>2
  <2>6. rules.pc = "USE" => HalfFilled
    BY <1>5, <2>1 DEF HalfFilled, IInv, Asked, Waiting
  <2>7. ~HalfFilled'
    BY <2>1 DEF HalfFilled
  <2> QED  BY <1>1, <1>2, <2>1, <2>2, <2>5, <2>6, <2>7, QuestionNames DEF Reads!Answer
<1> QED  BY <1>3, <1>4, <1>5 DEF Reads!Next

LEMMA MqttReads ==
  ASSUME IInv, IInv', MqttStep
  PROVE  Reads!Next \/ UNCHANGED Reads!vars
<1> USE DEF MqttAt, MqttGoesTo, GapClosed, HalfFilled, Reloading, Questioning, Going
<1>1. CASE MqttSeesRequest
  <2>1. UNCHANGED <<store, rules, GapClosed, HalfFilled>>
    BY <1>1 DEF MqttSeesRequest, IInv, Records, MqttPcs
  <2> QED  BY <2>1, SameReads
<1>2. CASE MqttTakesList
  <2>1. /\ UNCHANGED <<store, rules, main, GapClosed>> /\ ~HalfFilled
        /\ HalfFilled' => main # "RUN" /\ gap.msg = "LIVE"
    BY <1>2 DEF MqttTakesList, IInv, Records, MqttPcs
  <2>2. CASE HalfFilled'
    <3>1. Questioning
      BY <2>1, <2>2 DEF IInv, Asked
    <3>2. Reads!Tear
      BY <2>1, <2>2, <3>1, TornStep
    <3> QED  BY <3>2 DEF Reads!Next
  <2>3. CASE ~HalfFilled'
    BY <2>1, <2>3, SameReads
  <2> QED  BY <2>2, <2>3
<1>3. CASE MqttReply \/ MqttSignal
  <2>1. /\ UNCHANGED <<store, GapClosed, HalfFilled>>
        /\ rules' = Signalled(rules)
    BY <1>3 DEF MqttReply, MqttSignal, MqttAnswered, Signal, IInv, Records
  <2>2. UNCHANGED <<rules.list, Questioning, Going>>
    BY <2>1 DEF Signalled, IInv, Records
  <2> QED  BY <2>1, <2>2, SameReads
<1>4. CASE MqttApply
  <2>1. UNCHANGED <<rules, GapClosed, HalfFilled, Questioning>>
    BY <1>4 DEF MqttApply, IInv, Records
  <2>2. store' \in [Topics -> Values]
    BY DEF IInv, Records, TypeOK
  <2>3. Reads!Publish
    BY <2>1, <2>2 DEF Reads!Publish
  <2> QED  BY <2>3 DEF Reads!Next
<1>5. CASE MqttCheck
  <2>1. UNCHANGED <<store, rules, GapClosed, HalfFilled>>
    BY <1>5 DEF MqttCheck, IInv, Records
  <2> QED  BY <2>1, SameReads
<1>6. CASE MqttCloseGap
  <2>1. UNCHANGED <<store, rules, Questioning>> /\ GapClosed'
    BY <1>6 DEF MqttCloseGap, IInv, Records
  <2>2. Reads!Close
    BY <2>1 DEF Reads!Close
  <2> QED  BY <2>2 DEF Reads!Next
<1>7. CASE MqttFreeRules \/ MqttFreeCron \/ MqttWaitCron \/ MqttWaitRules \/ MqttParse
  <2>1. UNCHANGED <<store, rules, GapClosed, HalfFilled>>
    BY <1>7 DEF MqttFreeRules, MqttFreeCron, MqttWaitCron, MqttWaitRules, MqttParse, IInv, Records
  <2> QED  BY <2>1, SameReads
<1>8. CASE MqttStart
  <2>1. /\ UNCHANGED <<store, main, rules.list>>
        /\ ~Questioning /\ ~Questioning' /\ ~HalfFilled /\ ~HalfFilled'
        /\ ~Going /\ ~Going'
    BY <1>8 DEF MqttStart, IInv, Ended, Records
  <2>2. ~rules.list.filled
    BY <2>1 DEF IInv, Rule
  <2>3. CASE main = "RUN"
    <3>1. ~GapClosed'
      BY <1>8, <2>1, <2>3 DEF MqttStart, IInv, Records
    <3>2. Reads!Reopen
      BY <2>1, <2>2, <3>1 DEF Reads!Reopen
    <3> QED  BY <3>2 DEF Reads!Next
  <2>4. CASE main # "RUN"
    BY <2>1, <2>4, SameReads
  <2> QED  BY <2>3, <2>4
<1>9. CASE MqttFill \/ MqttCopy \/ MqttFilled
  BY <1>9, FillReads
<1> QED  BY <1>1, <1>2, <1>3, <1>4, <1>5, <1>6, <1>7, <1>8, <1>9 DEF MqttStep

\* The rules thread leaves the gap: the request was answered or the gap closed.
LEMMA LeavesGap ==
  ASSUME IInv, IInv', RulesTest, gap.request # 1
  PROVE  Reads!Next
<1>1. /\ UNCHANGED <<store, mqtt, main, rules.list, GapClosed, HalfFilled>>
      /\ rules.pc = "TEST" /\ rules'.pc = "USE"
  BY DEF RulesTest, RulesAt, GapClosed, HalfFilled, Reloading, IInv, Records
<1>2. Questioning /\ Questioning'
  BY <1>1 DEF Questioning
<1>3. gap.request = 0
  BY DEF IInv, Records, TypeOK
<1>4. CASE HalfFilled
  <2>1. Reads!Tear
    BY <1>1, <1>2, <1>4, TornStep DEF HalfFilled
  <2> QED  BY <2>1 DEF Reads!Next
<1>5. CASE ~HalfFilled
  <2>1. ~HalfDone
    BY <1>3, <1>5 DEF HalfFilled, HalfDone, IInv, Asked
  <2>2. rules.list.filled \/ GapClosed
    BY <1>1, <1>3 DEF IInv, Asked, Waiting
  <2>3. CASE rules.list.filled
    <3>1. Reads!Leave
      BY <1>1, <1>2, <2>3, QuestionNames DEF Reads!Leave
    <3> QED  BY <3>1 DEF Reads!Next
  <2>4. CASE ~rules.list.filled
    <3>1. rules.list.data = [i \in DOMAIN rules.list.names |-> NoData]
      BY <1>2, <2>1, <2>4 DEF IInv, Answering
    <3>2. Reads!Leave
      BY <1>1, <1>2, <2>2, <2>4, <3>1, QuestionNames DEF Reads!Leave
    <3> QED  BY <3>2 DEF Reads!Next
  <2> QED  BY <2>3, <2>4
<1> QED  BY <1>4, <1>5

LEMMA RulesReads ==
  ASSUME IInv, IInv', RulesStep \/ RulesWakeSpuriously
  PROVE  Reads!Next \/ UNCHANGED Reads!vars
<1>1. CASE RulesPoll \/ RulesNode \/ RulesWrite
  <2>1. UNCHANGED <<store, mqtt, main>> /\ rules.pc \in {"POLL", "NODE", "CALL"}
    BY <1>1 DEF RulesPoll, RulesNode, RulesWrite, RulesAt
  <2>2. \/ rules' = [rules EXCEPT !.pc = "CHECK"]
        \/ rules' = [rules EXCEPT !.pc = "CALL", !.node = rules_nodes[rules.id]]
        \/ \E id : rules' = Continue(rules, id)
    BY <1>1 DEF RulesPoll, RulesNode, RulesWrite
  <2>3. rules'.pc \in {"CHECK", "CALL", "REMOVE", "NODE"}
    BY <2>2 DEF Continue, IInv, Records
  <2>4. ~Questioning /\ ~Questioning' /\ rules.pc # "USE" /\ rules'.pc # "USE"
    BY <2>1, <2>3 DEF Questioning
  <2>5. rules.list.filled = FALSE /\ rules'.list.filled = FALSE
    BY <2>4 DEF IInv, Rule, Records, List
  <2> QED  BY <2>1, <2>4, <2>5 DEF Reads!vars, GapClosed, HalfFilled, Reloading
<1>2. CASE RulesQuestion
  <2> DEFINE names == NamesAsked(rules.node)
  <2>1. /\ UNCHANGED <<store, mqtt, main>>
        /\ ~Questioning /\ Questioning' /\ rules.pc # "USE" /\ rules'.pc # "USE"
        /\ rules'.list.names = names /\ rules'.list.filled = FALSE
    BY <1>2 DEF RulesQuestion, RulesAt, Questioning, IInv, Records
  <2>2. ~rules.list.filled
    BY <2>1 DEF IInv, Rule
  <2>3. Reads!Ask(names)
    BY <2>1, <2>2 DEF Reads!Ask, GapClosed, HalfFilled, Reloading
  <2>4. rules.node \in Node
    BY <1>2 DEF RulesQuestion, RulesAt, IInv, Rule, Executing
  <2>5. \E t, u \in Topics : names = <<t>> \/ names = <<t, u>>
    <3>1. CASE rules.node.kind = "CONDITION_TOPIC"
      <4>1. rules.node.name \in Topics /\ rules.node.str \in Topics
        BY <2>4, <3>1 DEF Node
      <4> QED  BY <3>1, <4>1 DEF NamesAsked
    <3>2. CASE rules.node.kind # "CONDITION_TOPIC"
      BY <2>4, <3>2 DEF NamesAsked, Node
    <3> QED  BY <3>1, <3>2
  <2> HIDE DEF names
  <2> QED  BY <2>3, <2>5 DEF Reads!Next
<1>3. CASE \/ RulesAsk \/ RulesBlock \/ RulesWake \/ RulesWakeSpuriously
           \/ RulesTest /\ gap.request = 1
  <2>1. UNCHANGED <<store, mqtt, main, rules.list, Questioning, Going>>
    BY <1>3 DEF RulesAsk, RulesTest, RulesBlock, RulesWake, RulesWakeSpuriously, RulesAt,
       Questioning, Going, IInv, Records, RulesPcs
  <2> QED  BY <2>1, SameReads DEF GapClosed, HalfFilled, Reloading
<1>4. CASE RulesTest /\ gap.request # 1
  BY <1>4, LeavesGap
<1>5. CASE RulesUse
  <2>1. PICK id \in Nat : rules' = Continue(rules, id)
    BY <1>5, UseEnds DEF IInv
  <2>2. rules.pc = "USE" /\ UNCHANGED <<store, main>>
    BY <1>5, UseEnds DEF IInv
  <2>3. mqtt'.pc = mqtt.pc /\ mqtt'.held # "LIVE"
    BY <1>5, UseEnds DEF IInv, Records, ListGone, Dangling
  <2>4. Questioning /\ ~Questioning' /\ rules'.list.filled = FALSE /\ rules'.pc # "USE"
    BY <2>1, <2>2 DEF Questioning, Continue, NoList, IInv, Records
  <2>5. Reads!Use
    BY <2>2, <2>3, <2>4, QuestionNames DEF Reads!Use, GapClosed, HalfFilled, Reloading
  <2> QED  BY <2>5 DEF Reads!Next
<1>6. CASE RulesRemove \/ RulesCheck
  <2>1. UNCHANGED <<store, mqtt, main, rules.list, Questioning, Going>>
    BY <1>6 DEF RulesRemove, RulesCheck, RulesAt, Questioning, Going, IInv, Records
  <2> QED  BY <2>1, SameReads DEF GapClosed, HalfFilled, Reloading
<1>7. CASE RulesTest
  BY <1>3, <1>4, <1>7
<1> QED  BY <1>1, <1>2, <1>3, <1>5, <1>6, <1>7 DEF RulesStep

LEMMA StepReads ==
  ASSUME IInv, IInv', Next
  PROVE  Reads!Next \/ UNCHANGED Reads!vars
<1>1. CASE \E t \in Topics, d \in Values : MqttPublish(t, d)
  <2>1. UNCHANGED <<mqtt, rules, main>>
    BY <1>1 DEF MqttPublish, MqttAt
  <2>2. store' \in [Topics -> Values]
    BY DEF IInv, Records, TypeOK
  <2>3. Reads!Publish
    BY <1>1, <2>1, <2>2 DEF Reads!Publish, GapClosed, HalfFilled, Reloading, Questioning
  <2> QED  BY <2>3 DEF Reads!Next
<1>2. CASE MqttNoPacket \/ \E f \in RuleFiles : MqttSaveRules(f)
  <2>1. UNCHANGED <<store, rules, GapClosed, HalfFilled>>
    BY <1>2 DEF MqttNoPacket, MqttSaveRules, MqttAt, MqttGoesTo, GapClosed, HalfFilled,
       Reloading, IInv, Records
  <2> QED  BY <2>1, SameReads DEF Questioning, Going
<1>3. CASE MqttStep
  BY <1>3, MqttReads
<1>4. CASE RulesStep \/ RulesWakeSpuriously
  BY <1>4, RulesReads
<1>5. CASE CronStep \/ RulesUsesFreed \/ CronUsesFreed \/ MqttUsesFreed
  <2>1. UNCHANGED <<store, mqtt, rules, main>>
    BY <1>5 DEF CronStep, CronLook, CronWalk, CronWalked, CronCheck, CronAt,
       RulesUsesFreed, CronUsesFreed, MqttUsesFreed, Crash
  <2> QED  BY <2>1, SameReads DEF GapClosed, HalfFilled, Reloading, Questioning, Going
<1>6. CASE MainCloseGap
  <2>1. UNCHANGED <<store, rules>> /\ GapClosed'
    BY <1>6 DEF MainCloseGap, MainGoes, GapClosed
  <2>2. Reads!Close
    BY <2>1 DEF Reads!Close, Questioning, HalfFilled
  <2> QED  BY <2>2 DEF Reads!Next
<1>7. CASE MainStep
  <2>1. UNCHANGED <<store, GapClosed, HalfFilled>>
    BY <1>7 DEF MainStep, MainSignal, MainStop, MainWait, MainGoes, GapClosed, HalfFilled,
       Reloading
  <2>2. rules' = rules \/ rules' = Signalled(rules)
    BY <1>7 DEF MainStep, MainSignal, MainStop, MainWait, Signal
  <2>3. UNCHANGED <<rules.list, Questioning, Going>>
    BY <2>2 DEF Signalled, Questioning, Going, IInv, Records
  <2> QED  BY <2>1, <2>3, SameReads
<1> QED  BY <1>1, <1>2, <1>3, <1>4, <1>5, <1>6, <1>7 DEF Next

\* A rule decides on the data all topics of its question had at one moment of
\* the question, whatever the other threads do, or on none because the gap was
\* closed, unless the main thread closed the gap under the mqtt thread, which
\* was still filling the answer: the gap implements TopicReads.
THEOREM ReadsRefined == Spec => ReadsAreSnapshots
<1>1. Init => Reads!Init
  <2> SUFFICES ASSUME Init
               PROVE  Reads!Init
    OBVIOUS
  <2>1. /\ store \in [Topics -> Values]
        /\ rules.pc = "POLL" /\ rules.list.filled = FALSE
        /\ main = "RUN" /\ mqtt.pc = "PACKET"
    BY DEF Init, NoList, Values
  <2> QED  BY <2>1 DEF Reads!Init, GapClosed, HalfFilled, Reloading, Questioning
<1>2. IInv /\ IInv' /\ [Next]_vars => [Reads!Next]_(Reads!vars)
  <2>1. ASSUME UNCHANGED vars
        PROVE  UNCHANGED Reads!vars
    BY <2>1, SameReads DEF vars, GapClosed, HalfFilled, Reloading, Questioning, Going
  <2> QED  BY <2>1, StepReads
<1> QED  BY <1>1, <1>2, Invariant, PTL DEF Spec, ReadsAreSnapshots, Reads!Spec

=============================================================================
