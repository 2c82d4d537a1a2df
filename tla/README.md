# A TLA+ model of the whsnbg gateway

whsnbg is an MQTT 3.1.1 broker and MQTT-SN gateway in one C program: MQTT
clients connect over TCP (plain, TLS, WebSocket), wireless sensors speak MQTT-SN
over UDP, and both share one store of topics.  An optional rules engine reacts to
topics and to the clock.  This directory holds TLA+ modules of the program, the
TLC configurations that check them, and theorems checked by TLAPS.

The model is of the Makefile's default build (`-DNDEBUG`, so `assert()` is
compiled out) unless a module says otherwise.  Paths below are relative to
`src/src/` of the repository.

## 1. Inventory

### 1.1 Threads and how they talk

| Thread | File | Runs | Talks to |
|---|---|---|---|
| main | `main.c` | starts and stops the others, waits for signals | flags of every thread |
| tcp | `thread_tcp.c` | `select` over the listening socket and the connections, WebSocket framing | mqtt, by `msg_tcp_mqtt` and `msg_mqtt_tcp` queues |
| udp | `thread_udp.c` | one UDP socket | mqtt, by `msg_udp_mqtt` and `msg_mqtt_udp` queues |
| mqtt | `thread_mqtt.c` | all MQTT and MQTT-SN handlers, the timer, the topic store | every other thread |
| rules | `thread_rules.c`, `rules.c` | executes the nodes of triggered rules | mqtt: trigger queue in, topic writes out, and a synchronous "gap" to read a topic |
| cron | `thread_cron.c`, `cron_trigger.c` | compares the clock with the cron triggers | rules, by the trigger queue |
| mysql | `thread_mysql.c` | writes publications to a database | mqtt, by `msg_mqtt_mysql` |

Queues are linked lists under a mutex (`msgs.c`).  The mqtt thread polls all of
them in `thread_run` and calls `timer_handle` every 100 turns.

### 1.2 Components, their state and operations

| Component | State | Operations | What makes it correct |
|---|---|---|---|
| MQTT-SN sessions (`thread_mqtt.c`, `list_mqttsn_conn.c`) | `mqttsn_conns`: address, state, keep-alive countdown, subscriptions, will, registered topic ids, messages waiting for REGACK, messages to publish | one handler per packet type, `mqttsn_send_buffered_msgs`, `mqttsn_publish_send`, `mqttsn_conn_close`, `timer_handle` | one session per address; acknowledgements meet what was sent; ids told before they are used; nothing unsent is lost; sleepers are left alone; silent clients expire; wills reach subscribers |
| Topic store (`lists.c`) | `pub_list`: name, data, retain, topic id; `mqttsn_topic_id`, `mqttsn_msg_id` | add, find, replace, match against filters | ids unique and stable; a filter matches what MQTT says |
| MQTT sessions (`thread_mqtt.c`, `list_mqtt_conn.c`) | `mqtt_conns`: address, keep-alive countdown, subscriptions, will, right to publish; no state per message, nothing kept beyond the connection | handlers, `mqtt_publish_send`, `mqtt_conn_close`, timer | one session per connection, which ends with it; a packet meets its own session; a will is published once; a silent or refused client is disconnected |
| TCP connections (`thread_tcp.c`, `list_tcp_conn.c`) | descriptors, buffers, WebSocket state | accept, read, write, close on either side's order | the two threads agree which connection is open; no bytes of a frame are lost or repeated |
| Inter-thread queues and gaps (`msgs.c`) | lists, mutexes, one condition variable per gap | add, get, remove, request, answer, close | FIFO, one consumer; a request is answered or its thread stops |
| Rules engine (`rules.c`, `thread_rules.c`, `mqtt_trigger.c`) | nodes, triggers, trigger queue | execute a node, read and write topics, reload | a trigger runs its nodes once; a reload does not free what runs; no thread waits for ever |
| Cron (`cron_trigger.c`, `thread_cron.c`) | triggers, second of the clock | match, fire | each matching minute fires once |
| Parsers (`parse_conf.c`, `parse_json.c`), users (`list_mqtt_user.c`), codecs (`mqtt.c`, `mqttsn.c`, `utf8.c`), TLS, MySQL, sensor data | read once, or none | | pure input, output or conversion |

### 1.3 What is hard here

* Packets of a lossy network in any order against session records that several
  handlers, the fan-out of publications and the timer change
  (`mqttsn_packet_handle`, `thread_mqtt.c:739`).
* Lists that are changed while they are walked (`timer_handle`).
* Counters that wrap and ids that are never given back.
* Threads that stop each other while one waits for the other (`msgs.c:166`).
* Two threads with their own idea of the same TCP connection.

`PROJECT.json` lists the hazards with their lines and the properties that watch them.

## 2. Plan

| | Modules | State |
|---|---|---|
| 1 | **MqttsnGateway**: sessions, topic store and timer; **MqttsnGatewayProofs**, **MqttsnStepProofs** | done |
| 2 | **RulesEngine**, which implements **TopicReads**; **RulesEngineProofs** | done |
| 3 | **BrokerQueues**, **TcpThread** and **MqttBroker**, composed in **TcpBroker**, which implements **ConnectionSessions**; **TcpBrokerProofs** on **ListLemmas** | done |
| 4 | **TopicFilters**, **TopicFiltersProofs** on **ListLemmas** | done |
| 5 | **CronFields**, **CronClock**, **CronClockProofs** | done |
| 6 | **WsFraming**, **WsFramingProofs** | done for short frames |
| 7 | StartStop (the start of `main`, all threads), the HTTP upgrade, the UDP thread, MySQL | left out, see section 10 |

No module has a RECURSIVE operator.

## 3. MqttsnGateway: the sessions, the store and the timer

All handlers run on the mqtt thread, so a handler is one action.  A handler that
ends in `mqttsn_send_buffered_msgs` contains that call (`Flush`); a publication
contains its fan-out over the whole list (`PublishSend`); the end of a session
contains the publication of its will (`Close`).  Only `timer_handle` is split,
one action per session visited, with the variable `visit` for the sessions still
to visit; every other action waits for `Idle`, as the code does.

| Model | Code |
|---|---|
| `mqttsn_conns`, `conn` | the list of `list_mqttsn_conn_t`; `NoConn` is a record that does not exist |
| `topic_id`, `retain`, `mqttsn_topic_id` | the elements of `pub_list` and the counter of their ids |
| `SendBuffered`, `IdsUsed` | `mqttsn_send_buffered_msgs`: the record afterwards, and how many message ids it used |
| `Queued`, `Delivered`, `PublishSend` | `mqttsn_publish_send` and the two `..._msg_add` helpers |
| `SessionOf`, `Connect` | CONNECT: session by address first, then by client id |
| `Touch` | every packet whose only effect is the restarted countdown |
| `WillTopic`, `WillMsg`, `Pingreq`, `Sleep`, `Disconnect`, `Register`, `Regack`, `Publish`, `Puback`, `Pubcomp`, `Subscribe`, `Unsubscribe` | the cases of `mqttsn_packet_handle` |
| `BrokerPublish` | a PUBLISH or a will of an MQTT client, as the MQTT-SN side sees it |
| `TimerStart`, `TimerVisit` | `timer_handle` |

The only variable that is not in the code is the field `told`, the topic ids a
client was sent in its session.  Payloads are left out.  A wildcard
subscription is the set of topics it matches.  A list that holds a topic once
is a sequence; the order in which a SUBSCRIBE finds several retained topics is
any order (`Orders`).

**The environment** is the network with its clients: any packet from any session
at any time.  That covers loss, repetition, delay and reordering, and clients
that are wrong: an acknowledgement carries any message id and any topic id, 0
and ids nobody was told included, and does what the handlers make of it.

* A REGACK finds its message by the message id, and queues the topic named by the
  topic id in the packet, with the quality of the message (`Registered`,
  `thread_mqtt.c:1006-1019`).  If the id names no topic the message is removed
  all the same, and the publication is lost; if it names another topic, that one
  is queued instead.
* Message id 0 is what the lists hold for "never sent"; the assertion that would
  catch it (`lists.c:581`) is compiled out.  An acknowledgement with it finds the first
  message that was never sent (`MsgFind`).

Both are a client's own doing, and no document of the repository speaks of
them.  `KeptUntilSent` and `TopicIdTold` are stated for all acknowledgements and name
the exact steps in which a client does this to itself (`Crossed`, `AckedUnsent`,
`StrayRegack`; a step that the right REGACK makes too is not `Crossed`): any other step that
loses a publication or uses an id the client was not told violates them.

**Topic ids** come round: with more topics than ids two topics share one
(`thread_mqtt.c:408`).  A packet that names a topic by such an id may mean any of
them in the model, where the code takes the first in the list.

**Bounds.**  The code's 65535 for message and topic ids is `MaxMsgId` and
`MaxTopicId`, and the retransmission time of 5 s is `SendTimeout`.  Nothing else
is bounded: every list is finite because it holds a topic id at most once.

### Runs

| Run | Instance | What it shows |
|---|---|---|
| `session` | 1 client, 1 topic, QoS 0, 1 and 2, sleep, acknowledgements with any ids | `TypeOK`; a session in a protocol state has its keep-alive armed; CONNACK and PINGRESP only come when both lists are empty; a sleeper is sent nothing; an unsent publication is lost only to QoS 0, as the lists hold one publication of a topic and the last one queued sets its quality (`Demoted`), or to a wrong acknowledgement of the client itself; under the timer's fairness silent clients expire and an unacknowledged PUBLISH is repeated |
| `topics` | 1 client, 3 topics for 2 topic ids, 1 wildcard, acknowledgements with any ids | only heads are in flight, ids exist and are unique until they wrap, and a PUBLISH is put in line only with an id that was told or asked for by a wrong REGACK |
| `sessions` | 2 clients, 2 addresses, wills | addresses stay unique while clients move, the walk of the timer survives removals, wills reach the other subscribers |

Why these are enough: the record of a session depends on other sessions only
through the store and the fan-out, and two sessions already meet in every way
the code knows (same address, same client id, will of one to the other, removal
in front of and behind the walk).  `SendTimeout = 1` still separates "just sent"
from "to be repeated"; two message ids are enough for the counter to wrap
between two transmissions; the invariants and action properties of these runs are also
proved without bounds.  `Durations` stay below 60, where the tolerance is 50%; the other branch
of `Tolerated` is covered by the proof.

In `topics` the third topic takes the id of the first, so the counter wraps and ids are shared
within the bounds.

**Symmetry** of clients and addresses is used in `sessions`, and of topics in `topics`; neither
has a liveness property.

**Fairness.**  `FairSpec` asks for weak fairness of `TimerStart` and of
`TimerVisit` and of nothing else: `thread_run` reaches `timer_handle` every 100
turns whatever arrives, and the function walks to the end of the list.  Clients
owe nothing.

## 4. RulesEngine: four threads, two queues and a gap

Here the steps are small: an action is what one thread does between two points
where another thread can see or disturb it.  The record of each thread has a
program counter `pc` named after what comes next.

| Model | Code |
|---|---|
| `trigger_q`, `rules_q` | the queues of `msg_trigger_rules.c` and `msg_rules_mqtt.c`, oldest first |
| `gap` | `msggap_t`; the mutex is not a variable: the rules thread holds it at `TEST` and `BLOCK` (`Unlocked` is its complement), all other uses are one step |
| `RulesPoll` ... `RulesCheck` | `thread_run` of `thread_rules.c` and `node_execute` |
| `RulesWrite`, `RulesQuestion`, `RulesUse` | the functions of `rules.c`; those that ask are split where they wait |
| `RulesAsk`, `RulesTest`, `RulesBlock`, `RulesWake` | `msggap_request`, with the instant between the test and `pthread_cond_wait` in which the signal of `msggap_close`, sent without the mutex, is lost |
| `MqttPublish`, `MqttNoPacket`, `MqttSeesRequest` ... `MqttCheck` | one turn of the mqtt thread |
| `MqttFill`, `MqttCopy`, `MqttFilled` | `mqtt_get_topic_data`, item by item of the list: the old data is freed and new data allocated, whose content may be anything; it is copied; the list is at its end |
| `MqttSaveRules` ... `MqttStart` | `mqtt_save_rules`: close the gap, free the lists, stop cron and rules, `parse_json_file`, start |
| `CronLook` ... `CronCheck` | `thread_cron.c`; whether a trigger matches the minute is a free choice |
| `MainCloseGap`, `MainSignal`, `MainStop`, `MainWait` | the end of `main` |
| `list.filled` | not in the code, where unanswered and "no such topic" are both NULL: the whole list was filled |

**Data.**  A topic holds a number, `Text` (any string that is not a number) or
NULL.  `string_to_double` and `string_to_long` read past the end of the data,
which has no terminator, so a number may be taken for a string
(`ReadAsNumbers`).  Numbers wrap at `MaxNumber`.

**Freed memory.**  The mqtt thread frees nodes and cron triggers while their
threads may be in the middle of them, and the main thread may close the gap
while the mqtt thread fills the list of a question.  Using such memory either
ends the process (`RulesUsesFreed`, `CronUsesFreed`, `MqttUsesFreed` set
`crashed`) or finds the old content (the ordinary action).

**Bounds.**  `MaxTriggers` and `MaxWrites` hold back new publications, cron
triggers and reloads, never the threads: a write of a rule and the triggers it
sets off are always queued.

`TopicReads` is what the gap is for: who asks about one or two topics goes on
with what the store held of all of them at one instant of the question, or with no data
at all because the gap was closed, and the gap is only opened again when nobody asks.
`Reads` maps `RulesEngine` to it, with `read` for what the rules thread finds in the
list once it is out of the gap.

In one case the code breaks the promise, and `TopicReads` names it.  At the end of the program main
closes the gap (`main.c:168`) without the mutex and without the mqtt thread.  If that thread
is filling the list at the time, the rules thread is let go and may read an item that is
not written yet, or one whose data is being copied.  The answer is then `torn`,
from the close until the list is filled or the rules thread is done with it, and nothing is
promised of what is read of it.  `torn` is exactly `HalfFilled`: a list that is being filled
while main is past the close.  A reload cannot do this, because there the mqtt thread itself
closes the gap.

| Run | Instance | What it shows |
|---|---|---|
| `rules_safety` | 2 topics that hold 0, a text or nothing, 3 files (one wrong), failing `fopen` | `TypeOK`; the engine never holds a part of a file or a mixture (`EngineIsOneFile`); freed memory is only used in the windows named above (`FreedUsedOnlyInReload`); `ReadsAreSnapshots`, the refinement of `TopicReads` |
| `rules_live` | 2 topics, 1 file | questions are answered, rules end, reload and stop end, unless the rules thread asks after the gap was closed (`Unanswerable`): there is no other way to hang |
| `claim_reload` | the same | `README.md:27` says rules can be modified on the fly; a rule that asks at that moment makes the mqtt and the rules thread wait for each other for ever |

The files are chosen so that every function of `rules.c` runs (DECREMENT is the function
of INCREMENT), a condition has both outcomes, a write copies a topic, a cron and a topic
trigger exist, a question names two topics, and one file is wrong after its triggers and a
variable.  With `MaxNumber = 0` there is one number, and adding to it wraps.  They have no loop: a loop of nodes is endless
recursion in the code, which the model would follow but not survey.  One
question at a time is all the rules thread can have, so a longer queue adds no
new meeting of two threads.

**Deadlock** is not checked in these runs: the program stops in earnest, by
`exit`, by a crash, or by the hang of `claim_reload`.

**Fairness.**  Each thread is scheduled (weak fairness of its steps).  Strong
fairness of `MqttNoPacket` says that the packets of one turn end: a TCP message
holds finitely many.  Strong fairness of the two steps that take the mutex says
that a rules thread which keeps waking without a signal does not keep the mutex
from the mqtt thread for ever.  Nothing makes clients publish or the operator
stop the program.

What the model also has, and no property forbids because no document speaks of
it: an increment may be lost, because the mqtt thread answers a question before
it applies the write queued by the rule that ran before; triggers queued before
a reload are executed with the nodes of the new file; and when the rules file
cannot be opened, only the rules topic has the new rules.

## 5. The broker: two threads and two queues

The tcp thread owns the sockets of the MQTT clients, the mqtt thread their
sessions.  They share two queues and nothing else, and both name a client by its
address: an order to close and the notice that a connection is gone may reach
the other thread when the address belongs to a newer connection.  What must hold
all the same is that each connection has one session, that no packet is handled in
the session of another connection, and that the session ends with its connection.

| Model | Code |
|---|---|
| `BrokerQueues` | the queues of `msg_tcp_mqtt.c` and `msg_mqtt_tcp.c`, and the packets with the fields the handlers branch on |
| `Accept`, `RecvEnd`, `Recv`, `Serve` (`TcpThread`) | `conn_new`, a failed `recv`, `mqtt_message_handle` with its buffer, and the branch of a `select` that timed out |
| `CloseConn` | `conn_close`, which tells the mqtt thread |
| `Take` (`MqttBroker`) | one turn of the loop of `thread_run` around `mqtt_packet_handle`: the packets of a message are handled one by one, with other steps of the tcp thread in between |
| `HandleNotice`, `EndSession` | a close notice: `mqtt_conn_close`, which publishes the will, and the removal |
| `Connect`, `ConnectAgain`, `Publish`, `PublishForbidden`, `Subscribe`, `Unsubscribe`, `Stateless`, `Disconnect`, `Ignore` | the cases of `mqtt_packet_handle` with the decisions of `mqtt.c` |
| `PublishSend`, `RetainedFor` | `mqtt_publish_send` and the retained publications of a SUBSCRIBE |
| `Timer` | the MQTT half of `timer_handle`, between two messages |

`conn` in a message or a session, `handled`, `past` and `ordered` are history:
the code knows addresses only.  A packet is two halves long, so that reads may
end within one or hold several.  `MaxBuf` is the buffer of 32768 bytes: a
client whose whole packets and a part of the next do not fit is closed.

**ConnectionSessions** is the promise: sessions begin, are the only ones of their
address, end after the close of their connection, and do end.  `SessionOf` maps
`TcpBroker` to it, and `ImplementsSessions` asks for its liveness too.

| Run | Instance | What it shows |
|---|---|---|
| `broker` | 3 connections, of which 2 are accepted in a run, 2 from one address; scripts with refusals of every kind, an expiring client with a will, a subscriber, QoS 0 and 1, a second CONNECT, DISCONNECT | sessions follow connections, packets are handled once and in order however reads cut them, packets meet their own session, the wills of clients that did not say goodbye are published once and never to their own address, whoever is to be disconnected is, silent clients lose their session |

Two connections from one address are what it takes for a late order or notice to
meet a newer connection; the third is the other subscriber.  `MaxQueue` only holds
back the timer, which would otherwise order the same connection closed without
end; handlers and the tcp thread are never held back.  The theorems of section
9 hold without these bounds.

**Fairness** (`FairSpec`): the mqtt thread polls (weak fairness of its handlers and
its timer), and `select` times out again and again (weak fairness of `Serve`).
The second is an assumption on the clients: as long as none pauses for a hundredth
of a second the code sends nothing.  Clients owe nothing else.

**The will after DISCONNECT.**  MQTT 3.1.1, which `README.md:11` of the repository names as
supported, wants the will discarded when the client sends DISCONNECT
([MQTT-3.14.4-3]).  The code publishes it: the handler (`thread_mqtt.c:711`) only orders the
connection closed, the notice that comes back runs `mqtt_conn_close`
(`:345-363`), and that publishes the will of every session.  The model does
what the code does.  `WillPublished` is about the other ends of a session and leaves out
those whose client said goodbye (`SaidGoodbye`): it neither asks for their will nor
forbids it.

What the model has and no property forbids: an order that is carried out late may
close a newer connection from the same address; retained publications of a
SUBSCRIBE come with the quality of service of the session's first subscription
(`thread_mqtt.c:650`).  The filters of one SUBSCRIBE are taken to be distinct:
if two are the same, `list_sub_add_replace` shortens the list the SUBACK walks over.

## 6. Frames, minutes and filters

### WsFraming

`ws_frame_handle` and `ws_frame_parse` for one upgraded connection.  Clients mask, and
payloads have at most 125 bytes (`ShortPayload`), so a header is six bytes.  Bytes are named by frame and
place: a byte that is taken for another shows.  `Read` is a read with the part of
it that belongs to a frame begun before, `Parse` one pass of
`ws_frame_parse_loop`.

`FramesProcessed` says that every frame is processed once, whole, in order and as
soon as it was read, for reads that hold several frames with a payload and end anywhere, in a header
as well as in a payload of such a frame.  From the first read on that `SplitWell` rules out it says
nothing, because the code goes wrong there:

* A read that goes on behind a frame an earlier read began: with the payload
  begun, `ws_frame_parse_loop` is called with the count of the whole read instead of
  the rest (`thread_tcp.c:782`); with only the header begun, the rest is looked for
  behind a whole header (`:704`).
* A read that goes on behind a frame without a payload, which ends the loop
  (`:717`), or one that splits such a frame, whose header is not kept (`:711`).  So a frame
  without a payload must come whole and last in its read.

No document of the repository speaks of split frames, so this is no claim.  The model
follows the code until it takes other bytes for opcode and length (`astray`).

Run `websocket`: all sequences of up to three of five kinds of frames (with and
without payload, processed, answered, closing) and reads of up to 27 bytes, which is
three of the longest.

### CronFields and CronClock

`CronFields` is `cron_trigger.c`: entries, fields, lines, `fix_day_dow` and
`flag_starting_jobs`, next to what crontab(5) says of a line.  `CronClock` is
`thread_cron.c` on a clock of 100 ms ticks: the look, the walk, the naps of
`sleep_500ms` and the stop.  Every step may take longer by an element of `Delays`.

* `OncePerMinute`: after a walk the thread sleeps a whole second, so that second 0 is
  over; delays do no harm.
* `NoMinuteMissed`: two looks are half a second apart, so half a second may be lost
  between them (`Slack`); a minute is missed after a longer delay.
* `StartsAsWritten`: a well-formed line starts its trigger in the minutes it names.

`Wellformed` excludes what the code reads in its own way: the end of a range with
a step (`1-5/2` goes to the end of the field), steps on `*` where numbers begin at 1
(`*/2` in the days counts from 0), ranges that go down (they wrap), all
numbers written one by one where `*` is meant (days and weekdays), and numbers out of
range.  A field that does not parse leaves the ones behind it empty and the trigger
in the list, where it never starts, or starts by the fields before.

Run `cron`: 24 lines, each field with numbers, lists, ranges and steps, well formed or
not, and a list of three triggers, from 23:58 on 31 December to 0:02 on 1 January.
The thread starts one second before a minute (tick 590) or in the middle of
second 59 (1197), and runs until after the next one; delays are 0, the longest that may not
miss a minute, and one tick more.

### TopicFilters

`pname_matches_sname` (`lists.c`), one turn of its loop a step, next to the definition of
MQTT 3.1.1 by levels.  The broker does not look at the filters of a SUBSCRIBE, so all
strings are inputs.  Run `filters`: every filter of up to five characters of `a / + #` with
every name of up to four of `a b /`.  Five characters hold a wildcard between two levels
and `#` behind two; four hold a level that is longer than its counterpart.

`ExactNames` holds of all of them.  `WildcardsMatch` excludes empty levels, and `#` for
no level: `a/#` does not match `a`, nor `+/#` `a`; `a/+` does not match `a/`.  Names
that begin with `$` are not treated apart.  `claim_filters` in the next section is what the
code matches too much.

## 7. Where the code and its documents part

| Run | Said at | What happens |
|---|---|---|
| `claim_regack` (MqttsnClaims) | `assert(0)` in `thread_mqtt.c:1021` | a REGISTER sent again gets a new message id, so the REGACK of the first is not found |
| `claim_reload` (RulesEngine) | `README.md:27` | see section 4 |
| `claim_filters` (TopicFilters) | `README.md:11` | at the last character of the name the shortcut for `/#` takes the place of the comparison: the trace is the filter `aa/#` with the name `ab`, which match |

`asked` in MqttsnClaims is a history variable: the REGISTERs that wait for an answer.  It
follows the gateway's steps and restricts none.

Other behaviour of MqttsnGateway that no property of the runs forbids: a REGACK
looks the topic up in `reg_list` where one would expect it to be added
(`thread_mqtt.c:1010`), so that every later publication registers it again; a CONNECT refused for
a duration of 0 leaves a session without keep-alive; a late PUBACK may remove a newer
publication of its topic that was not sent (`lists.c:568`).  With the rules engine, a topic a rule
creates has no topic id (`thread_mqtt.c:279`); that write is not an action of
MqttsnGateway.

## 8. Mutants

Next to some definitions stands a second one marked as a mutant: the definition
with a plausible bug (a missing return, a counter that is not moved on, a lookup
in the wrong order).  No action uses it.  `PROJECT.json` pairs every property of
a run with the mutant that breaks it, which shows that the property depends on
that piece of code.

## 9. Proofs

All proofs are for any values of the constants that satisfy the named assumptions, which TLC
evaluates on every run.

### MqttsnGatewayProofs

`MqttsnGatewayProofs` proves, for any number of clients, addresses, topics and
wildcards and any bounds:

| Theorem | Property |
|---|---|
| `TypeCorrect` | `TypeOK` |
| `AddressesUnique` | `AddrUnique` |
| `WalkInStep` | `WalkFollowsList` |
| `HeadInFlight` | `OneInFlight` |
| `KeptIdsExist` | `TopicsExist` |
| `IdsUnique` | `TopicIdsUnique` |
| `SessionsTimed` | `KeepaliveArmed` |

All follow from one inductive invariant, `IInv`.  None of the properties is
inductive alone:

* `TypeOK` needs that a retained topic has an id, or SUBSCRIBE would queue the
  topic id 0.
* `AddrUnique` and `WalkFollowsList` need that the list has no repetitions:
  otherwise removing a session would leave a second one with its address, and
  the walk would not know which of the two it stands on.
* `TopicIdTold`, an action property proved in `MqttsnStepProofs`, needs that what was *sent* of the
  list of unregistered topics was told (a REGACK finds its message by the id of the REGISTER), which in
  turn needs that only its head was sent.  `Queues(A, B)` says this of both lists.
* `TopicIdsUnique` needs that n topics hold ids up to n (`IdsCounted`), as long as there
  are ids for n: then the counter has not come round when a topic is added.
  Nothing is assumed of the number of topics.  The property says nothing once there are more
  of them than ids, where it would be false: the code does not look for a free id.

The proof goes bottom-up: lemmas on lists (`LeastPosition` to
`RemoveAtProperties`), on the types of the operators, on what list operations
keep of `Queues`, on what record operations keep of `GoodConn` (`Follows`), on the
shared steps (`PublishSendGood`, `FlushGood`, `AssignTopicIdGood`, `CloseGood`),
then one lemma per kind of action and `NextStep`.

Assumptions used: `NamesAssumption`, `NumbersAssumption`, `TopicsAssumption`,
`InputsAssumption`.  TLC evaluates them on every run.

### MqttsnStepProofs

The action properties, for the same constants, from `IInv` again:

| Theorem | Property |
|---|---|
| `PublishedIdsTold` | `TopicIdTold` |
| `NothingLost` | `KeptUntilSent` |
| `AnsweredWhenDrained` | `DrainedBeforeAnswer` |
| `SleepersLeftAlone` | `SleepersUndisturbed` |
| `WillReaches` | `WillDelivered` |

All but the last follow from `StepOf(c)`, which says in one formula what a step may do to the record of
a session and is proved once for every action (`NextStepOf`): the record is forgotten, or
becomes a record s that holds all that waited, but for what a wrong acknowledgement takes away
(`HoldingBut`, `Excused`), and has no more to publish than the client was told (`Tells`), after which
the buffered messages may be sent.  A stray REGACK is the one step without `Tells`.  Under it are a lemma on what `list_msg_add` keeps (`Extends`), one on
what sending keeps (`SendBufferedKeeps`), and one per operation on a record.
Both properties of the REGACK need the invariant: `KeptUntilSent`, because what waits for one is the
id of a topic of the store, or the right REGACK would lose it; `TopicIdTold`, because a message found
by an id other than 0 was sent, so that the client was told.
`WillDelivered` needs that the list has no repetitions, so that closing one session keeps the
others (`RemovedOnly`).

### ListLemmas

What appending, removing, cutting and joining do to a sequence, in the form the other proofs
need, and two facts that stand in for induction: a set of numbers that is not empty has a
least element (`LeastNumber`), and a property of 0 that each number hands on to the next
holds up to any bound (`CountedUp`; the numbers of the property are a set, not an operator).
`FlattenSeq` of the community modules is defined by a recursive function; `CountedUp` shows that
this function exists and agrees with any other of its equation (`FlatteningExists`,
`FlatteningsAgree`).  From there come the lists joined up to one of them, `UpTo(s, k)`
(`UpToFirst`, `UpToNext`), what a list more at the end or one less at the front does to the whole
(`FlattenAppend`, `FlattenHead`), and where each byte or packet of the parts stands in it
(`FlattenAt`).

### TcpBrokerProofs

| Theorem | Property |
|---|---|
| `TypeCorrect` | `TypeOK` |
| `SessionFollows` | `SessionFollowsConnection` |
| `PacketsMeetOwnSession` | `OwnSession` |
| `OrdersArrive` | `OrderOnItsWay` |
| `PacketsHandledInOrder` | `HandledInOrder` |
| `WillsArePublished` | `WillPublished` |
| `Refinement` | every step is a step of ConnectionSessions or leaves it unchanged (`ImplementsSessions` without its fairness) |

The invariant `IInv` has four parts.

* `Shape`: types; the first message has a packet left; the list of sessions has no
  repetitions and a session's connection comes from its address.
* `QueueInv`, of the queue to the mqtt thread: one open connection per address; packets are of
  connections that were accepted; between packets of two connections from one address lies the
  notice of the older; packets of one connection have no notice of their address between them;
  a closed connection's packets have a notice behind them; notices are ahead of the packets of
  an open connection.
* `SessionInv`: a session's connection is not one whose session ended; if it is closed a notice
  is queued; packets ahead of the first notice of the address are the session's own, and those
  of others come later; while it is open no notice of its address is queued; a session that ended
  has no packets left.
* `OrdersInv`: who is to be disconnected has an order queued.

`OwnSession` needs all of them: that packets of a newer connection meet the
session of an older one is kept off by the order of notices in the queue, which in turn rests
on one open connection per address.  The assumption behind that is in `Accept`:
an address is not accepted again before its old socket has reported its end.

`HandledInOrder` has an invariant of its own, `HandledInv`, for each connection: no more is read
than its script has, and nothing of a socket that is not accepted yet (`Read`); and the packets it
has in the queue, in the order of the messages, are those of its script from the first of the
message at work up to the last passed on (`InStep`).  The message at work stays at the head until
its last packet is handled, so the stretch begins `Begun` packets before the next to handle, where
`Begun` is how many of them are handled already.  A step changes one end of the stretch: what is
passed on its back, and the message that is used up its front.

`WillPublished` counts publications, so its proof, which does not use that the client said goodbye or did not, is about how many times each address gets
the will: the fan-out sends one to each session of a list without repetitions (`SentOnce`),
all of them behind what was queued (`PublicationsBehind`), and a step that ends no session with a
will makes the property true without counting.

The queue is looked at through two predicates, where packets of a connection and notices of
an address stand, so that the lemmas on the parts (`SessionOpen`, `SessionNote` and so on) need no
sequences.

### RulesEngineProofs

| Theorem | Property |
|---|---|
| `TypeCorrect` | `TypeOK` |
| `OneFileAtATime` | `EngineIsOneFile` |
| `FreedUse` | `FreedUsedOnlyInReload` |
| `ReadsRefined` | `ReadsAreSnapshots` |

They hold for any topics, any rules files that are files (`FileAssumption`), queues of any
length and any order of the steps of the four threads.  The invariant `IInv` has eight parts.

* `Records`: types.  The node of a rule decides whether its text is a topic or data, so the
  names the rules thread asks for are topics.
* `Rule`: a rule that is executed has its trigger at the head of the queue and its node in
  hand; the list of a question has one datum for each name.
* `Ended`: `THREAD_STOPPED` is only set by a thread that ended, and a reload that has waited for
  a thread finds it ended until it starts it again.
* `Emptied`: what a reload has freed is empty until the file is loaded, so a load after a
  failed `fopen` or a wrong file leaves no part of the old rules.  `EngineIsOneFile` is not
  inductive without it, nor without `Ended`: a rules thread that were to end after the load
  would empty the new nodes.
* `Asked`: while `main` runs, the mqtt thread only works on a request that is open, and
  the rules thread waits for it with its list alive; a request ends with an answer or with a
  close.  `ReadsAreSnapshots` and the last case of `FreedUsedOnlyInReload` rest on it.
* `Answering`: of a list that is being filled (`HalfDone`), the items before the one at work hold
  what the store holds, which the mqtt thread alone changes; a list that nobody fills or has
  filled holds no data.  So the list is a snapshot when its end is reached.
* `FilledOnce`: while `main` runs, a list that is filled is not filled again: its request is over or
  about to be answered.
* `InUse`: a node in hand, or a cron trigger ahead of the walk, is missing from its list only
  between its removal and the end of the thread.

`Changes` says which actions change which variable; the lemmas on the types
go through those only.

### CronClockProofs and TopicFiltersProofs

| Theorem | Property | Invariant |
|---|---|---|
| `CronClockProofs!TypeCorrect` | `TypeOK` | `Shape`: also, triggers are the parsed lines until the stop |
| `NeverTwice` | `OncePerMinute` | `NotAgain`: second 0 of the last start is over before the next look |
| `NoneMissed` | `NoMinuteMissed` | `OnTime`: all minutes due up to the last look have their starts |
| `LinesMean` | `StartsAsWritten` | `Shape` with `LineMeans`: a well-formed line starts at a local time iff it names it |
| `PositionsStay` | `TypeOK` | itself, with `LevelHasEnd` for the level a `+` skips |
| `ExactMatch` | `ExactNames` | `AlikeSoFar`: the positions are equal and the names alike up to them |
| `LevelsMatch` | `WildcardsMatch` | `LevelsSoFar`: both positions are in the same level, and the levels before it match |

`LineMeans` goes field by field: the places an entry fills (`FilledIs`, `EntryPlaces`), the
fields of a line (`FieldPlaces`, `Fields`), and then which of the two day fields
`fix_day_dow` empties (`Restricts`).  It needs that local times are within their ranges,
which `CalendarAssumption` says of every minute of the calendar (`Time`): that is what
`localtime` returns.

`WildcardsMatch` compares the loop with a reference that cuts both names at their slashes, and
finds the slashes by counting.  Its proof first says where they are: the numbers of a finite set
are its elements in ascending order (`RankTaken`, `SlashesAscend`), so a level is what lies
between two of them (`LevelsAre`, `LikeIs`, `MatchesIs`).  Then the loop is a walk (`Walk`): at
the start of a turn the two positions are in a level k of both, the levels before k match, and of
level k either the characters up to the positions are alike (`Here`) or a `+` has skipped all
(`Skipped`).  A turn goes on in the level or into the next (`WalkOn`, `WalkSkips`), or ends the
loop: with a match (`WalkMatchesRest` for `#`, `WalkMatchesAll`), because a character differs
(`WalkDiffers`), or because one of the names is over before the other (`WalkStops`).  The last
two rest on the level in hand having no match in the other name (`LevelUnlike`, `LastLevel`).
The test for a filter that ends in `/#`, which accepts a name one level shorter, is never true
under the antecedent, which gives the `#` a level to stand for (`ShortcutUntaken`).

### WsFramingProofs

| Theorem | Property | Invariant |
|---|---|---|
| `TypeCorrect` | `TypeOK` | `Shape`: also, a payload is collected only with a whole header of a frame of the client, nothing waiting behind it and something missing |
| `FramesArrive` | `FramesProcessed` | `FrameInv`, with `Shape` |

They hold for any sequence of frames with payloads of up to 125 bytes (`ShortPayload`) and reads of any
length.
`FrameInv` says, as long as every read split well: the parse was never led astray, the processed frames
are a beginning of the script, and what the code holds in the header, in the
collected payload and in the read buffer, in this order, are the bytes of the client that begin
with the next frame and end with the last byte read (`Pending`).  That alone is not inductive.
`WithinFrame` adds that what waits behind a kept header is no more than the rest of its frame, and
`EmptyWhole` that a frame without payload was read in one piece and at the end of a read: these
are the two restrictions of `SplitWell`, carried from the read to the pass of the parser that would go
wrong.  `Start(s, n)` is where frame n begins; the bytes at and behind it come from `FlattenAt`.

### Only model-checked

Every invariant and every action property of the passing runs is a theorem.  What is left to TLC is
liveness, which like ENABLED is out of reach of the installed provers: `SilentClientExpires` and
`Retransmission` of MqttsnGateway; `OrderedIsClosed`, `SilentClientEnds` and the fairness in
`ImplementsSessions` of TcpBroker, whose steps `Refinement` proves; `QuestionsEnd`, `TriggersServed`,
`ReloadEndsUnlessAsked` and `StopsUnlessAsked` of RulesEngine.  The runs that expect a violation
have a counterexample and no proof.

## 10. What is not modelled

* **Start of `main`, stop of the tcp, udp and mysql threads.**  The end of `main` as the rules
  engine sees it is in RulesEngine.  With the rules engine, `thread_mqtt_set_rules_topic_data`
  runs on the main thread while the mqtt thread may be running.
* **HTTP upgrade** of a WebSocket connection: parsing of text.  A connection that has just been
  upgraded is read as a frame in the same turn (`thread_tcp.c:914`), which may block
  the thread.  **Extended lengths** of frames, for payloads of 126 bytes and more: a longer header, and
  a length that is read from it.  There a payload of exactly 127 bytes has its length read a second time, as
  one of eight bytes (`:688`), which the model does not show.
* **UDP thread**: takes datagrams from a socket to a queue and back, without a decision; it is part of
  the lossy network of MqttsnGateway.
* **MySQL thread, TLS, sensor data codec**: optional; output, a library, and a conversion.
* **Configuration parser**: reads a file once.  **cJSON**: vendored.
* **Byte layouts, logging, data of topics**, the names of months and days in cron lines.
* **Simulators** under `utils`: test clients with a Windows user interface and its library, not the
  gateway.
