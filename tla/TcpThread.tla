------------------------------- MODULE TcpThread -------------------------------
(***************************************************************************)
(* The "tcp" thread (thread_tcp.c) for connections to the plain MQTT port, *)
(* in the default build, without TLS.  A turn of its loop either reads     *)
(* from the sockets select reports or, when select has timed out, takes    *)
(* one message of the mqtt thread; the sockets of one turn are independent *)
(* of each other, so a read is a step.                                     *)
(*                                                                         *)
(* The client is the environment: it sends some prefix of one of Scripts,  *)
(* in pieces of any size, and may end its side at any moment.  A packet is *)
(* two halves long, so that a read may end within one.                     *)
(***************************************************************************)
EXTENDS BrokerQueues

CONSTANTS
  Scripts,  \* what the client of each connection may send: sequences of packets
  Sizes,    \* amounts of data a read may return, in halves of a packet
  MaxBuf,   \* SOCK_BUF_LENGTH, in halves of a packet (32768 bytes in the code)
  MaxConns  \* connections accepted in one run

ASSUME ScriptsAssumption == \A k \in Conns : Scripts[k] \subseteq Seq(Packet)
ASSUME BufAssumption == MaxBuf \in Nat \ {0} /\ Sizes \subseteq 1..MaxBuf

VARIABLES
  sock,    \* each connection: not accepted yet, in the list conns, or closed
  script,  \* what its client sends
  recvd,   \* halves of packets read from it
  passed   \* packets passed on to the mqtt thread

tcp_vars == <<sock, script, recvd, passed>>

TcpInit ==
  /\ sock = [k \in Conns |-> "new"]
  /\ script = [k \in Conns |-> <<>>]
  /\ recvd = [k \in Conns |-> 0]
  /\ passed = [k \in Conns |-> 0]

-----------------------------------------------------------------------------

OpenAt(a) == {k \in Conns : sock[k] = "open" /\ AddrOf[k] = a}

\* The part of recv_buf that holds data.
recv_cnt(k) == recvd[k] - 2 * passed[k]

\* conn_new.  An address is free again only when its old connection has been
\* reset or ended, which select reports in the same turn as the new one.  The
\* connections from one address are numbered in the order they are accepted.
Accept(k) ==
  /\ sock[k] = "new"
  /\ Cardinality({j \in Conns : sock[j] # "new"}) < MaxConns
  /\ \A j \in Conns : AddrOf[j] = AddrOf[k] /\ j < k => sock[j] # "new"
  /\ OpenAt(AddrOf[k]) = {}
  /\ sock' = [sock EXCEPT ![k] = "open"]
  /\ \E s \in Scripts[k] : script' = [script EXCEPT ![k] = s]
  /\ UNCHANGED <<recvd, passed, queues>>

\* Mutant of CloseConn: the mqtt thread is not told.
CloseConnSilently(k) ==
  /\ sock' = [sock EXCEPT ![k] = "closed"]
  /\ UNCHANGED tcp_mqtt

\* conn_close
CloseConn(k) ==
  /\ sock' = [sock EXCEPT ![k] = "closed"]
  /\ tcp_mqtt' = Append(tcp_mqtt, Notice(AddrOf[k], k))

\* recv returns 0 or an error: the client has shut down or reset.
RecvEnd(k) ==
  /\ sock[k] = "open"
  /\ CloseConn(k)
  /\ UNCHANGED <<script, recvd, passed, mqtt_tcp>>

\* Mutant of PassOn: the buffer is passed on but not freed.
PassOnAgain(k, n) ==
  /\ tcp_mqtt' = Append(tcp_mqtt, Received(k, SubSeq(script[k], 1, n)))
  /\ passed' = [passed EXCEPT ![k] = n]

\* The buffer ends with a packet: all of it goes to the mqtt thread.
PassOn(k, n) ==
  /\ tcp_mqtt' = Append(tcp_mqtt, Received(k, SubSeq(script[k], passed[k] + 1, n)))
  /\ passed' = [passed EXCEPT ![k] = n]

\* mqtt_packets_buffer_check: does the data end where a packet ends?
Whole(n) == n % 2 = 0

\* mqtt_message_handle, when recv returns n halves.
Recv(k, n) ==
  /\ sock[k] = "open"
  /\ recvd[k] + n =< 2 * Len(script[k])
  /\ \/ /\ recv_cnt(k) + n > MaxBuf
        /\ CloseConn(k)
        /\ UNCHANGED <<recvd, passed>>
     \/ /\ recv_cnt(k) + n =< MaxBuf
        /\ recvd' = [recvd EXCEPT ![k] = @ + n]
        /\ IF Whole(recvd'[k])
           THEN PassOn(k, recvd'[k] \div 2)
           ELSE UNCHANGED <<tcp_mqtt, passed>>
        /\ UNCHANGED sock
  /\ UNCHANGED <<script, mqtt_tcp>>

\* The branch of a select that timed out: the first message of the mqtt thread.
Serve ==
  /\ mqtt_tcp # <<>>
  /\ LET m == Head(mqtt_tcp) IN
     \/ /\ m.close
        /\ \E k \in OpenAt(m.addr) : CloseConn(k)
     \/ /\ ~m.close
        /\ OpenAt(m.addr) # {}
        /\ UNCHANGED <<sock, tcp_mqtt>>   \* sock_send, whose result is ignored
     \/ /\ OpenAt(m.addr) = {}
        /\ tcp_mqtt' = Append(tcp_mqtt, Notice(m.addr, NoConn))
        /\ UNCHANGED sock
  /\ mqtt_tcp' = Tail(mqtt_tcp)
  /\ UNCHANGED <<script, recvd, passed>>

TcpNext ==
  \/ \E k \in Conns : Accept(k) \/ RecvEnd(k)
  \/ \E k \in Conns, n \in Sizes : Recv(k, n)
  \/ Serve

=============================================================================
