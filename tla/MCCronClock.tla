----------------------------- MODULE MCCronClock -----------------------------
(* Instances of CronClock for TLC. *)
EXTENDS CronClock, TLC

E(from, to, step) == [from |-> from, to |-> to, step |-> step]
N(from) == E(from, None, None)

Every == [mins |-> <<All>>, hrs |-> <<All>>, days |-> <<All>>, mons |-> <<All>>, dow |-> <<All>>]

\* A line for each value of each field, some of them not well formed.
Mins(f) == [Every EXCEPT !.mins = f]
Hrs(f) == [Every EXCEPT !.hrs = f]
Mons(f) == [Every EXCEPT !.mons = f]
Days(f, g) == [Every EXCEPT !.days = f, !.dow = g]

ManyLines ==
  {Every, Mins(<<N(0)>>), Mins(<<N(59), N(0)>>), Mins(<<E(0, 1, None)>>),
    Mins(<<E(Star, None, 2)>>), Mins(<<E(1, None, 29)>>), Mins(<<E(0, 10, 59)>>),
    Mins(<<E(58, 0, None)>>), Mins(<<N(0), N(60)>>),
    Hrs(<<N(23)>>), Hrs(<<E(0, 1, None)>>), Hrs(<<N(24)>>),
    Mons(<<N(1)>>), Mons(<<E(2, 12, None)>>), Mons(<<N(13)>>),
    Days(<<N(31)>>, <<All>>), Days(<<E(1, 30, None)>>, <<All>>), Days(<<N(40)>>, <<All>>),
    Days(<<All>>, <<N(0)>>), Days(<<All>>, <<E(1, 6, None)>>), Days(<<All>>, <<N(7)>>),
    Days(<<N(31)>>, <<N(0)>>), Days(<<N(31)>>, <<N(1)>>), Days(<<N(2)>>, <<N(1), N(6)>>)}

ListsToCheck == {<<l>> : l \in ManyLines} \cup {<<Every, Mins(<<N(0)>>), Hrs(<<N(23)>>)>>}

\* From 23:58 on Saturday 31 December to 0:02 on Sunday 1 January.
T(min, hour, mday, mon, wday) ==
  [min |-> min, hour |-> hour, mday |-> mday, mon |-> mon, wday |-> wday]
NewYear ==
  0 :> T(58, 23, 31, 11, 6) @@ 1 :> T(59, 23, 31, 11, 6)
    @@ 2 :> T(0, 0, 1, 0, 0) @@ 3 :> T(1, 0, 1, 0, 0)

=============================================================================
