---------------------------- MODULE MqttsnClaims -----------------------------
(***************************************************************************)
(* What an assertion of the repository says of the MQTT-SN gateway, and    *)
(* the code does not do.                                                   *)
(*                                                                         *)
(* asked is a history variable: the message ids of the REGISTERs sent to a *)
(* client in its session whose REGACK has not arrived.                     *)
(***************************************************************************)
EXTENDS MqttsnGateway

VARIABLE asked

claimVars == <<vars, asked>>

\* The message id of the REGISTER that was sent when r became s, if any.
RegisterSent(r, s) ==
  {m \in MsgIds : /\ s.reg_msg_list # <<>>
                  /\ s.reg_msg_list[1].msg_id = m
                  /\ r.reg_msg_list = <<>> \/ r.reg_msg_list[1] # s.reg_msg_list[1]}

Answered(c) == {m \in asked[c] : \E id \in 0..MaxTopicId : Regack(c, m, id)}

\* asked follows the step of the gateway: a new session forgets, a REGACK
\* answers, and what was sent waits.
Asked ==
  asked' = [c \in Clients |->
              IF c \notin Live' \/ conn'[c].told = {} THEN {}
              ELSE (asked[c] \ Answered(c)) \cup RegisterSent(conn[c], conn'[c])]

ClaimSpec ==
  /\ Init /\ asked = [c \in Clients |-> {}]
  /\ [][Next /\ Asked]_claimVars

-----------------------------------------------------------------------------

\* thread_mqtt.c:1021, assert(0) "something wrong": a REGACK that answers a
\* REGISTER of the session finds it in reg_msg_list.
RegackFindsRegister ==
  \A c \in Live : \A m \in asked[c] : MsgFind(conn[c].reg_msg_list, m) # 0

=============================================================================
