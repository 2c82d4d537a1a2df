--------------------------- MODULE MCRulesEngine ---------------------------
(* Instances of RulesEngine for TLC: two topics and three rules files. *)
EXTENDS RulesEngine

CONSTANTS x, y

N(kind, name, str, condition, nextid, nextid_false) ==
  [kind |-> kind, name |-> name, str |-> str, condition |-> condition,
   nextid |-> nextid, nextid_false |-> nextid_false]

\* A publication of x is compared with y, and counted in y or copied to it.
Compare ==
  [ok |-> TRUE,
   triggers |-> <<[name |-> x, next_id |-> 1]>>,
   nodes |-> <<N("CONDITION_TOPIC", x, y, "!=", 2, 3),
               N("INCREMENT", y, 0, "==", 0, 0),
               N("ACTION_TOPIC", y, x, "==", 0, 0)>>,
   cron |-> <<>>,
   variables |-> <<>>]

\* Every minute x is looked at, and set when it is 0.
Minutely ==
  [ok |-> TRUE,
   triggers |-> <<>>,
   nodes |-> <<N("CONDITION_VALUE", x, 0, "==", 2, 0),
               N("ACTION_VALUE", x, Text, "==", 0, 0)>>,
   cron |-> <<1>>,
   variables |-> <<>>]

\* A file with an error after a trigger of each kind and a variable.
Broken ==
  [ok |-> FALSE,
   triggers |-> <<[name |-> x, next_id |-> 1]>>,
   nodes |-> <<>>,
   cron |-> <<1>>,
   variables |-> <<[name |-> y, data |-> 0, from |-> NoName]>>]

Files == {Compare, Minutely, Broken}

\* For the liveness properties: a publication of x is looked at and copied.
Watch ==
  [ok |-> TRUE,
   triggers |-> <<[name |-> x, next_id |-> 1]>>,
   nodes |-> <<N("CONDITION_VALUE", x, 0, "==", 2, 0),
               N("ACTION_TOPIC", y, x, "==", 0, 0)>>,
   cron |-> <<>>,
   variables |-> <<>>]

OneFile == {Watch}

=============================================================================
