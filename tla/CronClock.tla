------------------------------ MODULE CronClock ------------------------------
(***************************************************************************)
(* The cron thread (thread_cron.c): it looks at the clock, and in second 0 *)
(* of a minute walks over the triggers and starts those whose line names   *)
(* the minute; then it sleeps half a second, or a whole one after a walk,  *)
(* in naps of 100 ms, and leaves when it is to stop.  A nap may last       *)
(* longer, and any time may pass between two steps.                        *)
(***************************************************************************)
EXTENDS CronFields

CONSTANTS
  Lists,      \* what the list of the triggers may be: sequences of cron lines
  Calendar,   \* the local time of each minute of the run
  FirstTicks, \* when the thread may be started
  LastTick,   \* end of the run
  Delays      \* extra time a step may take

\* The clock counts ticks of 100 ms.
Second == 10
Minute == 60 * Second

ASSUME ListsAssumption == Lists \subseteq Seq(Line)
ASSUME DelaysAssumption == Delays \subseteq Nat
ASSUME FirstTicksAssumption == FirstTicks \subseteq Nat
ASSUME CalendarAssumption ==
  DOMAIN Calendar \subseteq Nat /\ \A m \in DOMAIN Calendar : Calendar[m] \in Time

VARIABLES
  now,           \* the clock
  lines,         \* cron strings of the triggers
  triggers,      \* cron_triggers, as parsed
  thread_state,  \* "running", "staying" or "stopped"
  pc,            \* "look", "walk" or "nap"
  item,          \* the trigger the walk is at
  naps,          \* naps left until the next look
  starts,        \* history: minutes each trigger was passed on to the rules thread in
  begin,         \* history: when the thread was started
  lag,           \* history: time lost since the last look
  punctual       \* history: never was more lost than Slack

history == <<starts, begin, lag, punctual>>
vars == <<now, lines, triggers, thread_state, pc, item, naps, history>>

Init ==
  /\ now \in FirstTicks
  /\ lines \in Lists
  /\ triggers = [i \in DOMAIN lines |-> CronLine(lines[i])]
  /\ thread_state = "running"
  /\ pc = "look"
  /\ item = 0
  /\ naps = 0
  /\ starts = [i \in DOMAIN lines |-> <<>>]
  /\ begin = now
  /\ lag = 0
  /\ punctual = TRUE

-----------------------------------------------------------------------------

SecondOf(t) == (t \div Second) % 60
MinuteOf(t) == t \div Minute

\* What two looks may be apart over the half second the thread sleeps, so that
\* a look falls into every second.
Slack == 5

\* A step that takes the time work ends: the clock has moved by that and a delay.
Passes(work) ==
  \E d \in Delays :
    /\ now' = now + work + d
    /\ now' =< LastTick
    /\ lag' = IF punctual THEN lag + d ELSE 0
    /\ punctual' = (punctual /\ lag + d =< Slack)

\* Mutant of NapsAfter: a walk is followed by one sleep as well.
NapsAfterOnce(walk) == 5

\* Mutant of NapsAfter: every look is followed by two sleeps.
NapsAfterTwice(walk) == 10

\* sleep_500ms, after a walk twice
NapsAfter(walk) == IF walk THEN 10 ELSE 5

Due(t) == SecondOf(t) = 0

Look ==
  /\ pc = "look"
  /\ \E d \in Delays :
       /\ now' = now + d
       /\ now' =< LastTick
       /\ punctual' = (punctual /\ lag + d =< Slack)
  /\ lag' = 0
  /\ IF Due(now')
     THEN pc' = "walk" /\ item' = 1 /\ UNCHANGED naps
     ELSE pc' = "nap" /\ naps' = NapsAfter(FALSE) /\ UNCHANGED item
  /\ UNCHANGED <<lines, triggers, thread_state, starts, begin>>

\* flag_starting_jobs looks at the clock again.
Walk ==
  /\ pc = "walk"
  /\ item \in DOMAIN triggers
  /\ Passes(0)
  /\ starts' = IF Starting(triggers[item], Calendar[MinuteOf(now')])
               THEN [starts EXCEPT ![item] = Append(@, MinuteOf(now'))]
               ELSE starts
  /\ item' = item + 1
  /\ UNCHANGED <<lines, triggers, thread_state, pc, naps, begin>>

Walked ==
  /\ pc = "walk"
  /\ item \notin DOMAIN triggers
  /\ pc' = "nap"
  /\ naps' = NapsAfter(TRUE)
  /\ UNCHANGED <<now, lines, triggers, thread_state, item, history>>

\* Mutant of Slept: the last nap is left out.
SleptEarly(left) == left = 1

Slept(left) == left = 0

\* A nap of sleep_500ms, after which the thread sees that it is to stop.
Nap ==
  /\ pc = "nap"
  /\ thread_state # "stopped"
  /\ Passes(1)
  /\ IF thread_state = "staying"
     THEN /\ triggers' = <<>>
          /\ thread_state' = "stopped"
          /\ UNCHANGED <<pc, naps>>
     ELSE /\ naps' = naps - 1
          /\ pc' = IF Slept(naps') THEN "look" ELSE "nap"
          /\ UNCHANGED <<triggers, thread_state>>
  /\ UNCHANGED <<lines, item, starts, begin>>

\* thread_cron_stop, on another thread
Stop ==
  /\ thread_state = "running"
  /\ thread_state' = "staying"
  /\ UNCHANGED <<now, lines, triggers, pc, item, naps, history>>

Next == Look \/ Walk \/ Walked \/ Nap \/ Stop

Spec == Init /\ [][Next]_vars

-----------------------------------------------------------------------------

\* Types, and the place in the code the thread is at.
TypeOK ==
  /\ now \in Nat
  /\ begin \in 0..now
  /\ lines \in Lists
  /\ Len(triggers) \in {0, Len(lines)}
  /\ thread_state \in {"running", "staying", "stopped"}
  /\ pc = "nap" <=> naps > 0
  /\ pc = "walk" => item \in 1..(Len(triggers) + 1)
  /\ starts \in [DOMAIN lines -> Seq(0..MinuteOf(now))]
  /\ lag \in Nat

\* thread_run sleeps a whole second after a walk: a trigger never starts twice
\* in a minute, whatever is delayed for how long.
OncePerMinute ==
  \A i \in DOMAIN starts :
    \A m, n \in DOMAIN starts[i] :
      m < n => starts[i][m] < starts[i][n]

\* parse_field, fix_day_dow and flag_starting_jobs: a line that is well formed
\* starts its trigger in the minutes it names and in no others.
StartsAsWritten ==
  \A i \in DOMAIN triggers :
    Wellformed(lines[i]) =>
      \A m \in DOMAIN Calendar :
        Starting(triggers[i], Calendar[m]) <=> NamesMinute(lines[i], Calendar[m])

\* The thread looks twice a second: a trigger starts in every minute it is to
\* start in, unless more time was lost between two looks than Slack.
NoMinuteMissed ==
  punctual /\ thread_state = "running" /\ pc # "walk" =>
    \A i \in DOMAIN triggers, m \in DOMAIN Calendar :
      /\ begin =< m * Minute /\ m * Minute + Second =< now
      /\ Starting(triggers[i], Calendar[m])
      => \E n \in DOMAIN starts[i] : starts[i][n] = m

=============================================================================
