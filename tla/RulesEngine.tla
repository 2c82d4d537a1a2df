---------------------------- MODULE RulesEngine ----------------------------
(***************************************************************************)
(* The rules engine: the rules thread (thread_rules.c, rules.c), the cron  *)
(* thread (thread_cron.c), the part of the mqtt thread that serves them    *)
(* and reloads the rules (thread_mqtt.c), and the main thread that stops   *)
(* them all.  They share two queues, the lists of triggers and nodes, and  *)
(* the gap (msgs.c), by which the rules thread asks the mqtt thread for    *)
(* the data of topics.                                                     *)
(*                                                                         *)
(* A step is what one thread does between two points where another can     *)
(* see it.  The build is RULES_ENGINE=1 on POSIX threads.                  *)
(***************************************************************************)
EXTENDS Naturals, FiniteSets, Sequences, SequencesExt

CONSTANTS
  Topics,      \* topics and variables the rules are about
  NoName,      \* no topic
  Text,        \* data that is not a number
  NoData,      \* NULL: the topic does not exist or has no data
  MaxNumber,   \* numbers are 0..MaxNumber and wrap
  RuleFiles,   \* the rules files that may be published
  NoFile,      \* the rules topic without data
  FileFails,   \* TRUE: opening the rules file may fail
  MaxTriggers, \* bound on trigger_q for new publications and cron triggers
  MaxWrites    \* bound on rules_q for new rules

ASSUME DataAssumption ==
  /\ MaxNumber \in Nat
  /\ NoName \notin Topics
  /\ Text \notin 0..MaxNumber
  /\ NoData \notin 0..MaxNumber \cup {Text}

Numbers == 0..MaxNumber
Values == Numbers \cup {Text, NoData}

Asking == {"CONDITION_VALUE", "CONDITION_TOPIC", "INCREMENT", "DECREMENT"}
Writing == {"ACTION_VALUE", "ACTION_TOPIC"}

\* A node: the topic it is about, what it is compared with or set to, and the
\* node that comes next (nextid_false: if the condition is false); 0 is none.
Node ==
  {n \in [kind : Asking \cup Writing,
          name : Topics,
          str : Values \cup Topics,
          condition : {"==", "!=", ">=", "<=", ">", "<"},
          nextid : Nat,
          nextid_false : Nat] :
     n.str \in IF n.kind \in {"CONDITION_TOPIC", "ACTION_TOPIC"} THEN Topics ELSE Values}

\* A write of the rules thread: the data, or the topic it is copied from.
Write == [name : Topics, data : Values, from : Topics \cup {NoName}]

\* A rules file: what its entries load, and whether all of them are right.
IsFile(f) ==
  /\ f.ok \in BOOLEAN
  /\ f.triggers \in Seq([name : Topics, next_id : Nat])
  /\ \A id \in DOMAIN f.nodes : id \in Nat \ {0} /\ f.nodes[id] \in Node
  /\ f.cron \in Seq(Nat)
  /\ f.variables \in Seq(Write)

ASSUME FileAssumption ==
  /\ NoFile \notin RuleFiles
  /\ \A f \in RuleFiles : IsFile(f)

VARIABLES
  store,          \* data of each topic of pub_list
  rules_topic,    \* file kept as the data of the rules topic
  rules_file,     \* content of the rules file
  mqtt_triggers,  \* list of triggers of the mqtt thread
  rules_nodes,    \* nodes by id
  cron_triggers,  \* list of triggers of the cron thread
  trigger_q,      \* queue of triggered nodes: mqtt and cron to rules
  rules_q,        \* queue of writes: rules to mqtt
  gap,            \* the gap: request, and msg, the list asked for
  thread_state,   \* thread_state of the mqtt, rules and cron threads
  mqtt,           \* mqtt thread: where it is, the list it was asked for, and
                  \* the place in it
  rules,          \* rules thread: where it is, the node it executes, its list
  cron,           \* cron thread: where it is, the triggers it still walks
  main,           \* main thread: where it is
  crashed         \* freed memory was used and the process ended

lists == <<mqtt_triggers, rules_nodes, cron_triggers>>
files == <<rules_topic, rules_file>>
queues == <<trigger_q, rules_q>>
vars == <<store, files, lists, queues, gap, thread_state, mqtt, rules, cron, main, crashed>>

\* The rules thread has no node, or asks for nothing.
NoNode == [kind |-> "NONE"]
NoList == [names |-> <<>>, data |-> <<>>, filled |-> FALSE]

\* What the process shares when its threads have started with file f.
Init ==
  \E f \in RuleFiles :
    /\ store = [t \in Topics |-> NoData]
    /\ rules_file = f
    /\ rules_topic = IF f.ok THEN f ELSE NoFile
    /\ mqtt_triggers = IF f.ok THEN f.triggers ELSE <<>>
    /\ rules_nodes = IF f.ok THEN f.nodes ELSE <<>>
    /\ cron_triggers = IF f.ok THEN f.cron ELSE <<>>
    /\ trigger_q = <<>>
    /\ rules_q = f.variables
    /\ gap = [request |-> 0, msg |-> "NULL"]
    /\ thread_state = [mqtt |-> "RUNNING", rules |-> "RUNNING", cron |-> "RUNNING"]
    /\ mqtt = [pc |-> "PACKET", held |-> "NULL", item |-> 0]
    /\ rules = [pc |-> "POLL", id |-> 0, node |-> NoNode, list |-> NoList]
    /\ cron = [pc |-> "LOOK", walk |-> <<>>]
    /\ main = "RUN"
    /\ crashed = FALSE

\* thread_rules_stop, thread_cron_stop, thread_mqtt_stop: what they set
\* before they wait.
Stopping(thread) ==
  [thread_state EXCEPT ![thread] = IF @ = "RUNNING" THEN "STAYING" ELSE @]

\* Freed memory is used: the process may end there, or find the old content.
Crash ==
  /\ crashed' = TRUE
  /\ UNCHANGED <<store, files, lists, queues, gap, thread_state, mqtt, rules, cron, main>>

-----------------------------------------------------------------------------
(* The gap (msgs.c).  The rules thread holds the mutex from RulesAsk until *)
(* it waits; every other use of the mutex is a single step.                *)

Unlocked == rules.pc \notin {"TEST", "BLOCK"}

\* pthread_cond_signal: it wakes the rules thread if that is waiting, and is
\* lost if it is not.
Signalled(r) == IF r.pc = "WAIT" THEN [r EXCEPT !.pc = "WOKEN"] ELSE r
Signal == rules' = Signalled(rules)

\* The list of the rules thread is no longer its own: pointers to it dangle.
Dangling(p) == IF p = "LIVE" THEN "FREED" ELSE p

-----------------------------------------------------------------------------
(* Rules thread *)

RulesAt(pc) == rules.pc = pc /\ UNCHANGED <<files, cron, main, crashed>>

\* The node with the id given is executed next, or the rule ends.
Continue(r, id) ==
  [r EXCEPT !.pc = IF id = 0 THEN "REMOVE" ELSE "NODE",
            !.id = id, !.node = NoNode, !.list = NoList]

\* The first trigger of the queue is executed; it leaves the queue afterwards.
RulesPoll ==
  /\ RulesAt("POLL")
  /\ rules' = IF trigger_q = <<>> THEN [rules EXCEPT !.pc = "CHECK"]
              ELSE Continue(rules, Head(trigger_q))
  /\ UNCHANGED <<store, lists, queues, gap, thread_state, mqtt>>

\* node_execute: the node is looked up, and the rule ends if there is none.
RulesNode ==
  /\ RulesAt("NODE")
  /\ rules' = IF rules.id \in DOMAIN rules_nodes
              THEN [rules EXCEPT !.pc = "CALL", !.node = rules_nodes[rules.id]]
              ELSE Continue(rules, 0)
  /\ UNCHANGED <<store, lists, queues, gap, thread_state, mqtt>>

\* rf_action_value, rf_action_topic, rf_variable_set: the write is queued.
RulesWrite ==
  /\ RulesAt("CALL")
  /\ rules.node.kind \in Writing
  /\ rules_q' = Append(rules_q,
       IF rules.node.kind = "ACTION_VALUE"
       THEN [name |-> rules.node.name, data |-> rules.node.str, from |-> NoName]
       ELSE [name |-> rules.node.name, data |-> NoData, from |-> rules.node.str])
  /\ rules' = Continue(rules, rules.node.nextid)
  /\ UNCHANGED <<store, lists, trigger_q, gap, thread_state, mqtt>>

\* The functions that ask: the list is made and put into the gap, before
\* msggap_request takes the mutex.
NamesAsked(n) == IF n.kind = "CONDITION_TOPIC" THEN <<n.name, n.str>> ELSE <<n.name>>

RulesQuestion ==
  /\ RulesAt("CALL")
  /\ rules.node.kind \in Asking
  /\ LET names == NamesAsked(rules.node)
     IN  rules' = [rules EXCEPT !.pc = "ASK",
           !.list = [names |-> names, data |-> [i \in DOMAIN names |-> NoData],
                     filled |-> FALSE]]
  /\ gap' = [gap EXCEPT !.msg = "LIVE"]
  /\ UNCHANGED <<store, lists, queues, thread_state, mqtt>>

RulesAsk ==
  /\ RulesAt("ASK")
  /\ gap' = [gap EXCEPT !.request = 1]
  /\ rules' = [rules EXCEPT !.pc = "TEST"]
  /\ UNCHANGED <<store, lists, queues, thread_state, mqtt>>

RulesTest ==
  /\ RulesAt("TEST")
  /\ rules' = [rules EXCEPT !.pc = IF gap.request = 1 THEN "BLOCK" ELSE "USE"]
  /\ UNCHANGED <<store, lists, queues, gap, thread_state, mqtt>>

\* pthread_cond_wait: a signal between the test and the wait is lost.
RulesBlock ==
  /\ RulesAt("BLOCK")
  /\ rules' = [rules EXCEPT !.pc = "WAIT"]
  /\ UNCHANGED <<store, lists, queues, gap, thread_state, mqtt>>

\* Woken up by a signal, the thread takes the mutex again and tests again.
RulesWake ==
  /\ RulesAt("WOKEN")
  /\ rules' = [rules EXCEPT !.pc = "TEST"]
  /\ UNCHANGED <<store, lists, queues, gap, thread_state, mqtt>>

\* Mutant of RulesWakeSpuriously: "if" instead of "while" before the wait.
RulesWakeOnce ==
  /\ RulesAt("WAIT")
  /\ rules' = [rules EXCEPT !.pc = "USE"]
  /\ UNCHANGED <<store, lists, queues, gap, thread_state, mqtt>>

\* pthread_cond_wait may return without a signal.
RulesWakeSpuriously ==
  /\ RulesAt("WAIT")
  /\ rules' = [rules EXCEPT !.pc = "TEST"]
  /\ UNCHANGED <<store, lists, queues, gap, thread_state, mqtt>>

\* The comparison of two data, as numbers if numeric, else as strings, which
\* are only compared for equality: the id of the next node.
Holds(x, condition, y) ==
  CASE condition = "==" -> x = y
    [] condition = "!=" -> x # y
    [] condition = ">=" -> x >= y
    [] condition = "<=" -> x <= y
    [] condition = ">"  -> x > y
    [] condition = "<"  -> x < y

NextOf(n, x, y, numeric) ==
  IF ~numeric /\ n.condition \notin {"==", "!="} THEN 0
  ELSE IF Holds(x, n.condition, y) THEN n.nextid ELSE n.nextid_false

\* Mutant of Stepped: the number does not wrap.
SteppedOn(n, x) == IF n.kind = "INCREMENT" THEN x + 1 ELSE x - 1

Stepped(n, x) ==
  (IF n.kind = "INCREMENT" THEN x + 1 ELSE x + MaxNumber) % (MaxNumber + 1)

\* string_to_double and string_to_long read on after the data, which has no
\* end mark: what is a number may be taken for a string.
ReadAsNumbers(numeric, D) == numeric => D \subseteq Numbers

\* The list of the rules thread is freed, or handed over with the write.
ListGone ==
  /\ gap' = [gap EXCEPT !.msg = Dangling(@)]
  /\ mqtt' = [mqtt EXCEPT !.held = Dangling(@)]

RulesUse ==
  /\ RulesAt("USE")
  /\ LET n == rules.node
         d == rules.list.data
         value == IF n.kind = "CONDITION_TOPIC" THEN d[2] ELSE n.str
     IN  \/ /\ NoData \in ToSet(d)
            /\ rules' = Continue(rules, 0)
            /\ UNCHANGED rules_q
         \/ /\ NoData \notin ToSet(d)
            /\ n.kind \in {"CONDITION_VALUE", "CONDITION_TOPIC"}
            /\ \E numeric \in BOOLEAN :
                 /\ ReadAsNumbers(numeric, {d[1], value})
                 /\ rules' = Continue(rules, NextOf(n, d[1], value, numeric))
            /\ UNCHANGED rules_q
         \/ /\ NoData \notin ToSet(d)
            /\ n.kind \in {"INCREMENT", "DECREMENT"}
            /\ \E numeric \in BOOLEAN :
                 /\ ReadAsNumbers(numeric, {d[1]})
                 /\ rules' = Continue(rules, IF numeric THEN n.nextid ELSE 0)
                 /\ rules_q' = IF numeric
                               THEN Append(rules_q, [name |-> n.name, from |-> NoName,
                                                     data |-> Stepped(n, d[1])])
                               ELSE rules_q
  /\ ListGone
  /\ UNCHANGED <<store, lists, trigger_q, thread_state>>

\* msg_trigger_rules_remove
RulesRemove ==
  /\ RulesAt("REMOVE")
  /\ rules' = [rules EXCEPT !.pc = "CHECK"]
  /\ trigger_q' = Tail(trigger_q)
  /\ UNCHANGED <<store, lists, rules_q, gap, thread_state, mqtt>>

\* Mutant of RulesCheck: the thread ends without THREAD_STOPPED.
RulesCheckQuiet ==
  /\ RulesAt("CHECK")
  /\ rules' = [rules EXCEPT !.pc = IF thread_state.rules = "STAYING" THEN "ENDED" ELSE "POLL"]
  /\ UNCHANGED <<store, lists, queues, gap, thread_state, mqtt>>

\* After each turn of thread_run: the thread goes on, or frees its nodes and ends.
RulesCheck ==
  /\ RulesAt("CHECK")
  /\ IF thread_state.rules = "STAYING"
     THEN /\ rules' = [rules EXCEPT !.pc = "ENDED"]
          /\ rules_nodes' = <<>>
          /\ thread_state' = [thread_state EXCEPT !.rules = "STOPPED"]
     ELSE /\ rules' = [rules EXCEPT !.pc = "POLL"]
          /\ UNCHANGED <<rules_nodes, thread_state>>
  /\ UNCHANGED <<store, mqtt_triggers, cron_triggers, queues, gap, mqtt>>

\* The nodes the thread looks through, or the parameters it uses, are being
\* freed or were freed.
RulesUsesFreed ==
  /\ \/ rules.pc = "NODE" /\ mqtt.pc = "FREE_RULES" /\ rules_nodes # <<>>
     \/ /\ \/ rules.pc = "CALL"
           \/ rules.pc = "USE" /\ NoData \notin ToSet(rules.list.data)
        /\ mqtt.pc = "FREE_RULES" \/ rules.id \notin DOMAIN rules_nodes
  /\ Crash

RulesStep ==
  \/ RulesPoll \/ RulesNode \/ RulesWrite \/ RulesQuestion
  \/ RulesAsk \/ RulesTest \/ RulesBlock \/ RulesWake
  \/ RulesUse \/ RulesRemove \/ RulesCheck

-----------------------------------------------------------------------------
(* Mqtt thread: one turn of thread_run takes packets, answers the gap,     *)
(* applies one write of the rules and looks at its state.                  *)

MqttAt(pc) == mqtt.pc = pc /\ UNCHANGED <<cron, main, crashed>>
MqttGoesTo(pc) == mqtt' = [mqtt EXCEPT !.pc = pc]

\* mqtt_trigger_send: the triggers of topic t, in list order.
TriggeredBy(t) ==
  LET mine == {i \in DOMAIN mqtt_triggers : mqtt_triggers[i].name = t}
      Place(n) == CHOOSE i \in mine : Cardinality({j \in mine : j =< i}) = n
  IN  [n \in 1..Cardinality(mine) |-> mqtt_triggers[Place(n)].next_id]

\* A client publishes a topic.
MqttPublish(t, d) ==
  /\ MqttAt("PACKET")
  /\ Len(trigger_q \o TriggeredBy(t)) =< MaxTriggers
  /\ store' = [store EXCEPT ![t] = d]
  /\ trigger_q' = trigger_q \o TriggeredBy(t)
  /\ UNCHANGED <<files, lists, rules_q, gap, thread_state, mqtt, rules>>

\* No packet is left for this turn.
MqttNoPacket ==
  /\ MqttAt("PACKET")
  /\ MqttGoesTo("GAP")
  /\ UNCHANGED <<store, files, lists, queues, gap, thread_state, rules>>

\* msggap_get_request: a request is seen.
MqttSeesRequest ==
  /\ MqttAt("GAP")
  /\ Unlocked
  /\ MqttGoesTo(IF gap.request = 1 THEN "MSG" ELSE "APPLY")
  /\ UNCHANGED <<store, files, lists, queues, gap, thread_state, rules>>

\* The list is only read after the mutex was given back.
MqttTakesList ==
  /\ MqttAt("MSG")
  /\ mqtt' = [pc |-> "FILL", held |-> gap.msg, item |-> 1]
  /\ UNCHANGED <<store, files, lists, queues, gap, thread_state, rules>>

\* mqtt_get_topic_data fills the items of the list one after the other.
Filling(list) == mqtt.held = "LIVE" /\ mqtt.item \in DOMAIN list.names
DataOfItem(list) == store[list.names[mqtt.item]]

\* list_data_replace_data: the old data of the item is freed, and the new data
\* allocated; until it is copied, who reads the item may find anything there.
MqttFill ==
  /\ MqttAt("FILL")
  /\ Filling(rules.list)
  /\ MqttGoesTo("COPY")
  /\ \E v \in IF DataOfItem(rules.list) = NoData THEN {NoData} ELSE Values :
       rules' = [rules EXCEPT !.list.data[mqtt.item] = v]
  /\ UNCHANGED <<store, files, lists, queues, gap, thread_state>>

MqttCopy ==
  /\ MqttAt("COPY")
  /\ mqtt' = [mqtt EXCEPT !.pc = "FILL", !.item = @ + 1]
  /\ rules' = IF Filling(rules.list)
              THEN [rules EXCEPT !.list.data[mqtt.item] = DataOfItem(rules.list)]
              ELSE rules
  /\ UNCHANGED <<store, files, lists, queues, gap, thread_state>>

\* Mutant of MqttFilled: only the first item is filled.
MqttFilledFirst ==
  /\ MqttAt("FILL")
  /\ mqtt.item > 1
  /\ MqttGoesTo("REPLY")
  /\ rules' = IF mqtt.held = "LIVE" THEN [rules EXCEPT !.list.filled = TRUE] ELSE rules
  /\ UNCHANGED <<store, files, lists, queues, gap, thread_state>>

\* The end of the list
MqttFilled ==
  /\ MqttAt("FILL")
  /\ ~Filling(rules.list)
  /\ MqttGoesTo("REPLY")
  /\ rules' = IF mqtt.held = "LIVE" THEN [rules EXCEPT !.list.filled = TRUE] ELSE rules
  /\ UNCHANGED <<store, files, lists, queues, gap, thread_state>>

\* The list was freed by the rules thread while the mqtt thread held it.
MqttUsesFreed == mqtt.pc \in {"FILL", "COPY"} /\ mqtt.held = "FREED" /\ Crash

MqttAnswered == mqtt' = [pc |-> "APPLY", held |-> "NULL", item |-> 0]

\* Mutants of MqttReply: nobody is woken; the request stays.
MqttReplySilently ==
  /\ MqttAt("REPLY")
  /\ Unlocked
  /\ MqttAnswered
  /\ gap' = [gap EXCEPT !.request = 0]
  /\ UNCHANGED <<store, files, lists, queues, thread_state, rules>>

MqttReplyKept ==
  /\ MqttAt("REPLY")
  /\ Unlocked
  /\ MqttAnswered
  /\ Signal
  /\ UNCHANGED <<store, files, lists, queues, gap, thread_state>>

\* msggap_reply
MqttReply ==
  /\ MqttAt("REPLY")
  /\ Unlocked
  /\ MqttAnswered
  /\ gap' = [gap EXCEPT !.request = 0]
  /\ Signal
  /\ UNCHANGED <<store, files, lists, queues, thread_state>>

\* mqtt_set_topic_data, for the first write of the queue.
MqttApply ==
  /\ MqttAt("APPLY")
  /\ MqttGoesTo("CHECK")
  /\ IF rules_q = <<>> THEN UNCHANGED <<store, queues>>
     ELSE LET w == Head(rules_q)
          IN  /\ store' = [store EXCEPT ![w.name] =
                             IF w.from = NoName THEN w.data ELSE store[w.from]]
              /\ trigger_q' = trigger_q \o TriggeredBy(w.name)
              /\ rules_q' = Tail(rules_q)
  /\ UNCHANGED <<files, lists, gap, thread_state, rules>>

MqttCheck ==
  /\ MqttAt("CHECK")
  /\ IF thread_state.mqtt = "STAYING"
     THEN /\ MqttGoesTo("ENDED")
          /\ mqtt_triggers' = <<>>
          /\ thread_state' = [thread_state EXCEPT !.mqtt = "STOPPED"]
     ELSE /\ MqttGoesTo("PACKET")
          /\ UNCHANGED <<mqtt_triggers, thread_state>>
  /\ UNCHANGED <<store, files, rules_nodes, cron_triggers, queues, gap, rules>>

-----------------------------------------------------------------------------
(* Mqtt thread: new rules (mqtt_save_rules, parse_json_file)               *)

\* A client publishes the rules topic: its data is written to the file.
MqttSaveRules(f) ==
  /\ MqttAt("PACKET")
  /\ Len(rules_q) =< MaxWrites
  /\ rules_topic' = f
  /\ \/ FileFails /\ UNCHANGED <<rules_file, mqtt>>
     \/ rules_file' = f /\ MqttGoesTo("CLOSE")
  /\ UNCHANGED <<store, lists, queues, gap, thread_state, rules>>

\* msggap_close, without the mutex
MqttCloseGap ==
  /\ MqttAt("CLOSE")
  /\ MqttGoesTo("SIGNAL")
  /\ gap' = [gap EXCEPT !.request = 0]
  /\ UNCHANGED <<store, files, lists, queues, thread_state, rules>>

\* The list of the mqtt thread is emptied, and thread_rules_remove_all begins.
MqttSignal ==
  /\ MqttAt("SIGNAL")
  /\ MqttGoesTo("FREE_RULES")
  /\ mqtt_triggers' = <<>>
  /\ Signal
  /\ UNCHANGED <<store, files, rules_nodes, cron_triggers, queues, gap, thread_state>>

\* thread_rules_remove_all ends, and thread_cron_remove_all begins.
MqttFreeRules ==
  /\ MqttAt("FREE_RULES")
  /\ MqttGoesTo("FREE_CRON")
  /\ rules_nodes' = <<>>
  /\ UNCHANGED <<store, files, mqtt_triggers, cron_triggers, queues, gap, thread_state, rules>>

\* thread_cron_remove_all ends, and thread_cron_stop begins.
MqttFreeCron ==
  /\ MqttAt("FREE_CRON")
  /\ MqttGoesTo("WAIT_CRON")
  /\ cron_triggers' = <<>>
  /\ thread_state' = Stopping("cron")
  /\ UNCHANGED <<store, files, mqtt_triggers, rules_nodes, queues, gap, rules>>

\* thread_cron_stop ends, and thread_rules_stop begins.
MqttWaitCron ==
  /\ MqttAt("WAIT_CRON")
  /\ thread_state.cron = "STOPPED"
  /\ MqttGoesTo("WAIT_RULES")
  /\ thread_state' = Stopping("rules")
  /\ UNCHANGED <<store, files, lists, queues, gap, rules>>

\* Mutant of MqttWaitRules: the rules thread is not waited for.
MqttWaitRulesNot ==
  /\ MqttAt("WAIT_RULES")
  /\ MqttGoesTo("PARSE")
  /\ UNCHANGED <<store, files, lists, queues, gap, thread_state, rules>>

MqttWaitRules ==
  /\ MqttAt("WAIT_RULES")
  /\ thread_state.rules = "STOPPED"
  /\ MqttGoesTo("PARSE")
  /\ UNCHANGED <<store, files, lists, queues, gap, thread_state, rules>>

\* Mutant of Loaded: a file that is wrong keeps what was loaded before the error.
LoadedInPart(f) ==
  /\ mqtt_triggers' = f.triggers
  /\ rules_nodes' = IF f.ok THEN f.nodes ELSE <<>>
  /\ cron_triggers' = f.cron

\* What parse_json_file loads: nothing of a file that is wrong somewhere.
Loaded(f) ==
  /\ mqtt_triggers' = IF f.ok THEN f.triggers ELSE <<>>
  /\ rules_nodes' = IF f.ok THEN f.nodes ELSE <<>>
  /\ cron_triggers' = IF f.ok THEN f.cron ELSE <<>>

\* The rules topic is given the data of the file, or none if it is wrong;
\* the variables before the error keep their writes.
MqttParse ==
  /\ MqttAt("PARSE")
  /\ MqttGoesTo("START")
  /\ \/ FileFails /\ UNCHANGED <<lists, rules_topic, rules_q>>
     \/ /\ Loaded(rules_file)
        /\ rules_topic' = IF rules_file.ok THEN rules_file ELSE NoFile
        /\ rules_q' = rules_q \o rules_file.variables
  /\ UNCHANGED <<store, rules_file, trigger_q, gap, thread_state, rules>>

\* thread_rules_start and thread_cron_start
MqttStart ==
  /\ mqtt.pc = "START"
  /\ MqttGoesTo("PACKET")
  /\ thread_state' = [thread_state EXCEPT !.rules = "RUNNING", !.cron = "RUNNING"]
  /\ rules' = [rules EXCEPT !.pc = "POLL"]
  /\ cron' = [cron EXCEPT !.pc = "LOOK"]
  /\ UNCHANGED <<store, files, lists, queues, gap, main, crashed>>

MqttStep ==
  \/ MqttSeesRequest \/ MqttTakesList \/ MqttFill \/ MqttCopy \/ MqttFilled \/ MqttReply
  \/ MqttApply \/ MqttCheck
  \/ MqttCloseGap \/ MqttSignal \/ MqttFreeRules \/ MqttFreeCron
  \/ MqttWaitCron \/ MqttWaitRules \/ MqttParse \/ MqttStart

-----------------------------------------------------------------------------
(* Cron thread *)

CronAt(pc) ==
  /\ cron.pc = pc
  /\ UNCHANGED <<store, files, mqtt_triggers, rules_nodes, rules_q, gap, mqtt, rules, main, crashed>>

\* In the first second of a minute the list is walked.
CronLook ==
  /\ CronAt("LOOK")
  /\ \/ cron' = [pc |-> "WALK", walk |-> cron_triggers]
     \/ cron' = [pc |-> "SLEEP", walk |-> <<>>]
  /\ UNCHANGED <<cron_triggers, trigger_q, thread_state>>

\* A trigger may match the minute or not.
CronWalk ==
  /\ CronAt("WALK")
  /\ cron.walk # <<>>
  /\ cron' = [cron EXCEPT !.walk = Tail(@)]
  /\ \/ UNCHANGED trigger_q
     \/ /\ Len(trigger_q) < MaxTriggers
        /\ trigger_q' = Append(trigger_q, Head(cron.walk))
  /\ UNCHANGED <<cron_triggers, thread_state>>

CronWalked ==
  /\ CronAt("WALK")
  /\ cron.walk = <<>>
  /\ cron' = [cron EXCEPT !.pc = "SLEEP"]
  /\ UNCHANGED <<cron_triggers, trigger_q, thread_state>>

\* Mutant of CronCheck: the thread never looks at its state.
CronCheckNot ==
  /\ CronAt("SLEEP")
  /\ cron' = [cron EXCEPT !.pc = "LOOK"]
  /\ UNCHANGED <<cron_triggers, trigger_q, thread_state>>

\* sleep_500ms: the thread goes on, or frees its triggers and ends.
CronCheck ==
  /\ CronAt("SLEEP")
  /\ IF thread_state.cron = "STAYING"
     THEN /\ cron' = [cron EXCEPT !.pc = "ENDED"]
          /\ cron_triggers' = <<>>
          /\ thread_state' = [thread_state EXCEPT !.cron = "STOPPED"]
     ELSE /\ cron' = [cron EXCEPT !.pc = "LOOK"]
          /\ UNCHANGED <<cron_triggers, thread_state>>
  /\ UNCHANGED trigger_q

\* The trigger the walk is at is being freed or was freed.
CronUsesFreed ==
  /\ cron.walk # <<>>
  /\ mqtt.pc = "FREE_CRON" \/ cron_triggers = <<>>
  /\ Crash

CronStep == CronLook \/ CronWalk \/ CronWalked \/ CronCheck

-----------------------------------------------------------------------------
(* Main thread: the end of main() *)

MainGoes(from, to) ==
  /\ main = from
  /\ main' = to
  /\ UNCHANGED <<store, files, lists, queues, mqtt, cron, crashed>>

\* msggap_close, without the mutex
MainCloseGap ==
  /\ MainGoes("RUN", "SIGNAL")
  /\ gap' = [gap EXCEPT !.request = 0]
  /\ UNCHANGED <<thread_state, rules>>

MainSignal ==
  /\ MainGoes("SIGNAL", "STOP_MQTT")
  /\ Signal
  /\ UNCHANGED <<gap, thread_state>>

\* thread_mqtt_stop, thread_cron_stop, thread_rules_stop: the state is set,
\* and then the thread is waited for.
MainStop(thread, from, to) ==
  /\ MainGoes(from, to)
  /\ thread_state' = Stopping(thread)
  /\ UNCHANGED <<gap, rules>>

MainWait(thread, from, to) ==
  /\ MainGoes(from, to)
  /\ thread_state[thread] = "STOPPED"
  /\ UNCHANGED <<gap, thread_state, rules>>

MainStep ==
  \/ MainSignal
  \/ MainStop("mqtt", "STOP_MQTT", "WAIT_MQTT")
  \/ MainWait("mqtt", "WAIT_MQTT", "STOP_CRON")
  \/ MainStop("cron", "STOP_CRON", "WAIT_CRON")
  \/ MainWait("cron", "WAIT_CRON", "STOP_RULES")
  \/ MainStop("rules", "STOP_RULES", "WAIT_RULES")
  \/ MainWait("rules", "WAIT_RULES", "EXIT")

-----------------------------------------------------------------------------
(* Specification *)

\* After exit() or a crash no thread runs.
Alive == ~crashed /\ main # "EXIT"

Next ==
  /\ Alive
  /\ \/ \E t \in Topics, d \in Values : MqttPublish(t, d)
     \/ \E f \in RuleFiles : MqttSaveRules(f)
     \/ MqttNoPacket
     \/ MqttStep
     \/ RulesStep
     \/ RulesWakeSpuriously
     \/ CronStep
     \/ MainCloseGap
     \/ MainStep
     \/ RulesUsesFreed \/ CronUsesFreed \/ MqttUsesFreed

Spec == Init /\ [][Next]_vars

\* Every thread that can run runs, the packets of one turn of the mqtt thread
\* come to an end, and the mutex of the gap is not kept from it for ever by a
\* thread that wakes up without a signal again and again.  Nothing makes a
\* client publish, the operator stop the program, or a wait return without a
\* signal.
FairSpec ==
  /\ Spec
  /\ WF_vars(Alive /\ RulesStep)
  /\ WF_vars(Alive /\ CronStep)
  /\ WF_vars(Alive /\ MainStep)
  /\ WF_vars(Alive /\ MqttStep)
  /\ SF_vars(Alive /\ MqttNoPacket)
  /\ SF_vars(Alive /\ MqttSeesRequest)
  /\ SF_vars(Alive /\ MqttReply)

-----------------------------------------------------------------------------
(* Invariants *)

\* Every variable has its type.
Pointers == {"NULL", "LIVE", "FREED"}
ThreadStates == {"RUNNING", "STAYING", "STOPPED"}
TypeOK ==
  /\ store \in [Topics -> Values]
  /\ rules_topic \in RuleFiles \cup {NoFile}
  /\ rules_file \in RuleFiles
  /\ mqtt_triggers \in Seq([name : Topics, next_id : Nat])
  /\ \A id \in DOMAIN rules_nodes : rules_nodes[id] \in Node
  /\ cron_triggers \in Seq(Nat)
  /\ trigger_q \in Seq(Nat)
  /\ rules_q \in Seq(Write)
  /\ gap \in [request : {0, 1}, msg : Pointers]
  /\ thread_state \in [{"mqtt", "rules", "cron"} -> ThreadStates]
  /\ mqtt.held \in Pointers /\ mqtt.item \in Nat
  /\ rules.id \in Nat
  /\ rules.node \in Node \cup {NoNode}
  /\ rules.list.names \in Seq(Topics) /\ rules.list.data \in Seq(Values)
  /\ cron.walk \in Seq(Nat)
  /\ crashed \in BOOLEAN

\* The mqtt thread is between mqtt_save_rules and the threads it starts.
Reloading ==
  mqtt.pc \in {"CLOSE", "SIGNAL", "FREE_RULES", "FREE_CRON", "WAIT_CRON",
               "WAIT_RULES", "PARSE", "START"}

\* The threads work with the triggers and nodes of one file or with none,
\* never with a part of a file or a mixture of two: a reload empties the three
\* lists before it loads them, and a file that is wrong at its end unloads
\* what was loaded from its beginning.
EngineIsOneFile ==
  ~Reloading /\ (\A thread \in DOMAIN thread_state : thread_state[thread] = "RUNNING")
    => \/ lists = << <<>>, <<>>, <<>> >>
       \/ \E f \in RuleFiles : f.ok /\ lists = <<f.triggers, f.nodes, f.cron>>

-----------------------------------------------------------------------------
(* Action properties *)

\* Freed memory is only used while the mqtt thread is taking the old rules
\* away from threads that still run, or when the main thread closed the gap
\* under the mqtt thread: never after a reload, and never in between.
FreedUsedOnlyInReload ==
  [][crashed' /\ ~crashed =>
       \/ mqtt.pc \in {"FREE_RULES", "FREE_CRON", "WAIT_CRON", "WAIT_RULES"}
       \/ mqtt.pc \in {"FILL", "COPY"} /\ main # "RUN"]_vars

\* A rule leaves the gap with the data of all its topics as they were at one
\* moment of its question, or without any because the gap was closed, unless
\* the main thread closes the gap and the mqtt thread is still filling the list.
GapClosed == main # "RUN" \/ (Reloading /\ mqtt.pc # "CLOSE")
HalfFilled == main # "RUN" /\ mqtt.pc \in {"FILL", "COPY"} /\ mqtt.held = "LIVE"
Questioning == rules.pc \in {"ASK", "TEST", "BLOCK", "WAIT", "WOKEN", "USE"}
Reads == INSTANCE TopicReads WITH
  Unasked <- <<>>,
  question <- IF Questioning THEN rules.list.names ELSE <<>>,
  answer <- IF rules.list.filled THEN rules.list.data ELSE <<>>,
  read <- IF rules.pc = "USE" THEN rules.list.data ELSE <<>>,
  closed <- GapClosed,
  torn <- HalfFilled
ReadsAreSnapshots == Reads!Spec

-----------------------------------------------------------------------------
(* Liveness *)

\* The rules thread waits for an answer that nobody will give.
Unanswerable == rules.pc = "WAIT" /\ (mqtt.pc \in {"WAIT_RULES", "ENDED"})

\* A question is answered, unless the thread that answers is being stopped or
\* is itself waiting for the thread that asks.
QuestionsEnd == rules.pc = "ASK" ~> rules.pc = "USE" \/ Unanswerable \/ ~Alive

\* A rule that was triggered comes to its end and leaves the queue.
TriggersServed ==
  rules.pc = "NODE" ~> rules.pc = "CHECK" \/ Unanswerable \/ ~Alive

\* New rules get into force, unless the rules thread asks for a topic after
\* the gap was closed.
ReloadEndsUnlessAsked ==
  mqtt.pc = "CLOSE" ~> mqtt.pc = "PACKET" \/ Unanswerable \/ ~Alive

\* The program stops when it is told to, with the same exception.
StopsUnlessAsked == main = "SIGNAL" ~> main = "EXIT" \/ Unanswerable \/ crashed

-----------------------------------------------------------------------------
(* What the README says of the engine, and the code does not keep *)

\* "Rules can be modified on the fly by publishing to this specific rules
\* topic" (README.md:27): new rules get into force while the program runs, also
\* when a rule is about to ask for a topic at that moment.
RulesModifiedOnTheFly ==
  mqtt.pc = "CLOSE" /\ rules.pc = "ASK"
    ~> mqtt.pc = "PACKET" \/ main # "RUN" \/ crashed

=============================================================================
