-------------------------- MODULE ConnectionSessions --------------------------
(***************************************************************************)
(* What the tcp and the mqtt thread promise together: a session belongs to *)
(* one connection.  It begins once the connection is there, it is the only *)
(* one of its address, it ends after the connection has closed and not     *)
(* before, it does end then, and it never comes back.  The threads know    *)
(* addresses only, and hear of each other through queues.                  *)
(***************************************************************************)
CONSTANTS Conns, AddrOf

VARIABLES
  sock,    \* each connection: "new", "open" or "closed"
  session  \* the session of each connection: "none", "live" or "ended"

vars == <<sock, session>>

Init ==
  /\ sock = [k \in Conns |-> "new"]
  /\ session = [k \in Conns |-> "none"]

Others(k) == {j \in Conns \ {k} : AddrOf[j] = AddrOf[k]}

Open(k) ==
  /\ sock[k] = "new"
  /\ \A j \in Others(k) : sock[j] # "open"
  /\ sock' = [sock EXCEPT ![k] = "open"]
  /\ UNCHANGED session

Close(k) ==
  /\ sock[k] = "open"
  /\ sock' = [sock EXCEPT ![k] = "closed"]
  /\ UNCHANGED session

Begin(k) ==
  /\ sock[k] # "new"
  /\ session[k] = "none"
  /\ \A j \in Others(k) : session[j] # "live"
  /\ session' = [session EXCEPT ![k] = "live"]
  /\ UNCHANGED sock

End(k) ==
  /\ sock[k] = "closed"
  /\ session[k] = "live"
  /\ session' = [session EXCEPT ![k] = "ended"]
  /\ UNCHANGED sock

Next == \E k \in Conns : Open(k) \/ Close(k) \/ Begin(k) \/ End(k)

Spec == Init /\ [][Next]_vars

FairSpec == Spec /\ \A k \in Conns : WF_vars(End(k))

=============================================================================
