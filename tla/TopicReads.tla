---------------------------- MODULE TopicReads ----------------------------
(***************************************************************************)
(* What the gap between the rules thread and the mqtt thread promises: who *)
(* asks about some topics goes on with what the store held of all of them  *)
(* at one moment of the question, or with no data at all because the gap   *)
(* was closed.  An answer is not written at once; nothing is promised of   *)
(* what is read of one that is torn: still being written when the asker,   *)
(* whom a close has let go, may read it.                                   *)
(***************************************************************************)
EXTENDS Sequences

CONSTANTS
  Topics,    \* names of the topics
  Values,    \* what the store holds of a topic
  NoData,    \* the value of a topic without data
  Unasked    \* no question is open

VARIABLES
  store,     \* data of each topic
  question,  \* the topics asked for, Unasked if there is no question
  answer,    \* the data given for each topic of the question, <<>> before
  read,      \* the data the asker goes on with, <<>> while it still asks
  closed,    \* the gap was closed and not opened again
  torn       \* an answer is being written although the gap was closed

vars == <<store, question, answer, read, closed, torn>>

Init ==
  /\ store \in [Topics -> Values]
  /\ question = Unasked
  /\ answer = <<>>
  /\ read = <<>>
  /\ closed = FALSE
  /\ torn = FALSE

\* The topics change whether somebody asks or not, but not in the moment of
\* an answer.
Publish ==
  /\ store' \in [Topics -> Values]
  /\ UNCHANGED <<question, answer, read, closed, torn>>

Ask(names) ==
  /\ question = Unasked
  /\ question' = names
  /\ answer' = <<>>
  /\ read' = <<>>
  /\ UNCHANGED <<store, closed, torn>>

\* The answer is whole; what is read of it changes only if it was torn.
Answer ==
  /\ question # Unasked
  /\ read = <<>> \/ torn
  /\ answer' = [i \in DOMAIN question |-> store[question[i]]]
  /\ read' = IF read = <<>> THEN <<>> ELSE answer'
  /\ torn' = FALSE
  /\ UNCHANGED <<store, question, closed>>

\* The asker goes on, with the answer, or with no data because of the close.
Leave ==
  /\ question # Unasked
  /\ read = <<>>
  /\ \/ /\ answer # <<>>
        /\ read' = answer
     \/ /\ answer = <<>>
        /\ closed
        /\ read' = [i \in DOMAIN question |-> NoData]
  /\ UNCHANGED <<store, question, answer, closed, torn>>

\* The question ends.
Use ==
  /\ question # Unasked
  /\ read # <<>>
  /\ question' = Unasked
  /\ answer' = <<>>
  /\ read' = <<>>
  /\ torn' = FALSE
  /\ UNCHANGED <<store, closed>>

Close ==
  /\ closed' = TRUE
  /\ torn' \in BOOLEAN
  /\ UNCHANGED <<store, question, answer, read>>

\* The answer is being written after the close.
Tear ==
  /\ question # Unasked
  /\ closed
  /\ torn' = TRUE
  /\ answer' \in Seq(Values)
  /\ read' \in Seq(Values)
  /\ UNCHANGED <<store, question, closed>>

\* A gap is only opened again when nobody is asking.
Reopen ==
  /\ question = Unasked
  /\ closed' = FALSE
  /\ UNCHANGED <<store, question, answer, read, torn>>

Next ==
  \/ Publish
  \/ \E t, u \in Topics : Ask(<<t>>) \/ Ask(<<t, u>>)
  \/ Answer
  \/ Leave
  \/ Use
  \/ Close
  \/ Tear
  \/ Reopen

Spec == Init /\ [][Next]_vars

=============================================================================
