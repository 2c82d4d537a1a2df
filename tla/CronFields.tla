------------------------------ MODULE CronFields ------------------------------
(***************************************************************************)
(* The cron string of a trigger (cron_trigger.c): five fields, each a list *)
(* of entries, are parsed into five sets of places, and a trigger starts   *)
(* in the minutes all of them hold.  An entry is "*", a number or a range, *)
(* with or without a step behind it; names of months and days stand for    *)
(* numbers and are left out, and so are fields that are no such list and   *)
(* the month 0, which parse_field would place in front of its array.       *)
(***************************************************************************)
EXTENDS Integers, FiniteSets, Sequences

Star == -1  \* "*"
None == -1  \* no end of a range, no step

Entry == [from : Nat \cup {Star}, to : Nat \cup {None}, step : Nat \cup {None}]
Field == Seq(Entry)
Line == [mins : Field, hrs : Field, days : Field, mons : Field, dow : Field]

-----------------------------------------------------------------------------
(* parse_field, for an array of size places; number n has place n + off *)

FirstPlace(e, off) == IF e.from = Star THEN 0 ELSE e.from + off

\* A step after a number takes the field to its end, as it must for "1/5".
LastPlace(e, size, off) ==
  IF e.from = Star \/ e.step # None THEN size - 1
  ELSE IF e.to # None THEN e.to + off
  ELSE FirstPlace(e, off)

\* The loop goes round the array until it meets the last place; if there is no
\* such place it gives up after 1024 rounds.
FailSafe == 1024
Fits(e, size, off) == LastPlace(e, size, off) < size
Rounds(e, size, off) ==
  IF Fits(e, size, off) THEN (LastPlace(e, size, off) - FirstPlace(e, off)) % size ELSE FailSafe - 1

Filled(e, size, off) ==
  {(FirstPlace(e, off) + n) % size :
     n \in {r \in 0..Rounds(e, size, off) :
              IF e.step = None THEN TRUE
              ELSE IF e.step = 0 THEN r = 0
              ELSE r % e.step = 0}}

\* The entries up to the first that does not fit.
Parsed(field, size, off) ==
  UNION {Filled(field[n], size, off) :
           n \in {m \in DOMAIN field : \A l \in 1..(m - 1) : Fits(field[l], size, off)}}

Sound(field, size, off) == \A n \in DOMAIN field : Fits(field[n], size, off)

-----------------------------------------------------------------------------
(* parse_cronstring *)

\* Mutant of FixDayDow: both fields count, whatever is restricted.
FixDayDowNot(cl) == cl

\* fix_day_dow: of the two fields only the one that is restricted counts.
FixDayDow(cl) ==
  LET weekUsed == cl.dow # 0..6
      daysUsed == cl.days # 0..31
  IN  IF weekUsed = daysUsed THEN cl
      ELSE IF weekUsed THEN [cl EXCEPT !.days = {}]
      ELSE [cl EXCEPT !.dow = {}]

\* A field that does not parse leaves the ones behind it empty, and the
\* trigger stays in the list.
CronLine(line) ==
  LET mins == Sound(line.mins, 60, 0)
      hrs == mins /\ Sound(line.hrs, 24, 0)
      days == hrs /\ Sound(line.days, 32, 0)
      mons == days /\ Sound(line.mons, 12, -1)
      dow == mons /\ Sound(line.dow, 7, 0)
      cl == [mins |-> Parsed(line.mins, 60, 0),
             hrs |-> IF mins THEN Parsed(line.hrs, 24, 0) ELSE {},
             days |-> IF hrs THEN Parsed(line.days, 32, 0) ELSE {},
             mons |-> IF days THEN Parsed(line.mons, 12, -1) ELSE {},
             dow |-> IF mons THEN Parsed(line.dow, 7, 0) ELSE {}]
  IN  IF dow THEN FixDayDow(cl) ELSE cl

\* What flag_starting_jobs looks at of a local time.
Time == [min : 0..59, hour : 0..23, mday : 1..31, mon : 0..11, wday : 0..6]

\* flag_starting_jobs, at a local time
Starting(cl, t) ==
  /\ t.min \in cl.mins
  /\ t.hour \in cl.hrs
  /\ t.mday \in cl.days \/ t.wday \in cl.dow
  /\ t.mon \in cl.mons

-----------------------------------------------------------------------------
(* What a cron string means, by crontab(5) *)

All == [from |-> Star, to |-> None, step |-> None]

\* The numbers of an entry.
Means(e, numbers) ==
  {n \in numbers :
     CASE e.step # None -> n >= e.from /\ (n - (IF e.from = Star THEN 0 ELSE e.from)) % e.step = 0
       [] e.to # None -> n \in e.from..e.to
       [] OTHER -> e.from \in {n, Star}}

Named(field, numbers) == UNION {Means(field[n], numbers) : n \in DOMAIN field}

\* Numbers of the field, ranges that go up, steps behind a number or, where
\* counting begins at 0, "*"; and "*" for a field that restricts nothing.  The
\* end of a range with a step is lost in parse_field.
WellWritten(field, numbers) ==
  /\ \A n \in DOMAIN field :
       LET e == field[n] IN
       /\ e.from \in numbers \cup {Star}
       /\ e.to # None => e.to \in numbers /\ 0 =< e.from /\ e.from =< e.to /\ e.step = None
       /\ e.step # None => e.step > 0 /\ (e.from = Star => 0 \in numbers)
  /\ Named(field, numbers) = numbers => field = <<All>>

Wellformed(line) ==
  /\ WellWritten(line.mins, 0..59)
  /\ WellWritten(line.hrs, 0..23)
  /\ WellWritten(line.days, 1..31)
  /\ WellWritten(line.mons, 1..12)
  /\ WellWritten(line.dow, 0..6)

\* A day is named by its number or by its weekday; a "*" names a day only when
\* the other is one too.
NamesDay(line, t) ==
  LET mday == t.mday \in Named(line.days, 1..31)
      wday == t.wday \in Named(line.dow, 0..6)
  IN  IF <<All>> \in {line.days, line.dow} THEN mday /\ wday ELSE mday \/ wday

NamesMinute(line, t) ==
  /\ t.min \in Named(line.mins, 0..59)
  /\ t.hour \in Named(line.hrs, 0..23)
  /\ t.mon + 1 \in Named(line.mons, 1..12)
  /\ NamesDay(line, t)

=============================================================================
