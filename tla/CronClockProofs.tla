--------------------------- MODULE CronClockProofs ---------------------------
(***************************************************************************)
(* What holds of the cron thread for any triggers, any delays and any      *)
(* length of the run.                                                      *)
(***************************************************************************)
EXTENDS CronClock, SequenceTheorems, TLAPS

-----------------------------------------------------------------------------
(* The clock *)

\* A minute has 600 ticks, and second 0 is its first ten.
LEMMA Clock ==
  ASSUME NEW t \in Nat
  PROVE  /\ MinuteOf(t) \in Nat
         /\ 600 * MinuteOf(t) =< t /\ t < 600 * MinuteOf(t) + 600
         /\ Due(t) <=> t < 600 * MinuteOf(t) + 10
BY DEF MinuteOf, Due, SecondOf, Minute, Second

LEMMA LaterMinute ==
  ASSUME NEW s \in Nat, NEW t \in Nat, s =< t
  PROVE  MinuteOf(s) =< MinuteOf(t)
BY Clock

\* A minute that has begun is not after the minute of the clock.
LEMMA BegunMinute ==
  ASSUME NEW t \in Nat, NEW m \in Nat, 600 * m =< t
  PROVE  m =< MinuteOf(t)
BY Clock

-----------------------------------------------------------------------------
(* The inductive invariant *)

\* The triggers are the parsed lines until the thread stops.
Place ==
  /\ item \in Nat
  /\ naps \in Nat
  /\ pc \in {"look", "walk", "nap"}
  /\ punctual \in BOOLEAN
  /\ thread_state # "stopped" => triggers = [i \in DOMAIN lines |-> CronLine(lines[i])]
  /\ thread_state = "stopped" => triggers = <<>> /\ pc = "nap"

Shape == TypeOK /\ Place

\* Second 0 of the last minute a trigger started in is over before the next
\* look; in a walk, the triggers that are still to come have not started.
NotAgain ==
  \A i \in DOMAIN starts :
    \A n \in DOMAIN starts[i] :
      /\ pc # "walk" => 600 * starts[i][n] + 10 =< now + naps
      /\ pc = "walk" /\ item =< i => starts[i][n] < MinuteOf(now)

Once == OncePerMinute /\ NotAgain

\* The minutes since first that the trigger is to start in and that had begun
\* by then are among its starts.
DoneBy(first, then, trigger, minutes) ==
  \A m \in DOMAIN Calendar :
    /\ first =< 600 * m /\ 600 * m =< then
    /\ Starting(trigger, Calendar[m])
    => \E n \in DOMAIN minutes : minutes[n] = m

\* The last look was at now + naps - lag - 5, or at now - lag in a walk.
OnTime ==
  punctual /\ thread_state # "stopped" =>
    /\ lag =< 5
    /\ pc # "walk" =>
         \A i \in DOMAIN triggers : DoneBy(begin, now + naps - lag - 5, triggers[i], starts[i])
    /\ pc = "walk" =>
         /\ now - lag \in Nat
         /\ Due(now - lag)
         /\ \A i \in DOMAIN triggers :
              DoneBy(begin, IF i < item THEN now - lag ELSE now - lag - 10, triggers[i], starts[i])

-----------------------------------------------------------------------------
(* Steps *)

LEMMA LinesAreLists ==
  ASSUME TypeOK
  PROVE  lines \in Seq(Line) /\ DOMAIN lines = 1..Len(lines) /\ Len(lines) \in Nat
<1>1. lines \in Seq(Line)
  BY ListsAssumption DEF TypeOK
<1> QED  BY <1>1, LenProperties

\* As many triggers as lines.
LEMMA AsManyTriggers ==
  ASSUME lines \in Seq(Line)
  PROVE  Len([i \in DOMAIN lines |-> CronLine(lines[i])]) = Len(lines)
<1> DEFINE cls == [i \in DOMAIN lines |-> CronLine(lines[i])]
<1>1. Len(lines) \in Nat /\ DOMAIN lines = 1..Len(lines)
  BY LenProperties
<1>2. cls \in [1..Len(lines) -> {CronLine(lines[i]) : i \in DOMAIN lines}]
  BY <1>1
<1>3. cls \in Seq({CronLine(lines[i]) : i \in DOMAIN lines})
  <2> HIDE DEF cls
  <2> QED  BY <1>1, <1>2, SeqDef
<1>4. DOMAIN cls = 1..Len(lines)
  BY <1>1
<1> HIDE DEF cls
<1>5. DOMAIN cls = 1..Len(cls) /\ Len(cls) \in Nat
  BY <1>3, LenProperties
<1>6. Len(cls) = Len(lines)
  BY <1>1, <1>4, <1>5
<1> QED  BY <1>6 DEF cls

\* What a step with a clock does to the times.
LEMMA TimePasses ==
  ASSUME TypeOK, Place, NEW work \in Nat, Passes(work)
  PROVE  /\ now' \in Nat
         /\ now + work =< now'
         /\ lag' \in Nat
         /\ punctual' \in BOOLEAN
         /\ punctual' => punctual /\ lag' =< 5 /\ now' - lag' = now + work - lag
<1>1. PICK d \in Delays : /\ now' = now + work + d
                          /\ lag' = IF punctual THEN lag + d ELSE 0
                          /\ punctual' = (punctual /\ lag + d =< Slack)
  BY DEF Passes
<1>2. d \in Nat /\ now \in Nat /\ lag \in Nat
  BY DelaysAssumption DEF TypeOK
<1>3. punctual' \in BOOLEAN /\ (punctual' => punctual /\ lag + d =< Slack)
  BY <1>1
<1>4. now' \in Nat /\ now + work =< now' /\ lag' \in Nat
  BY <1>1, <1>2
<1>5. ASSUME punctual'
      PROVE  lag' =< 5 /\ now' - lag' = now + work - lag
  <2>1. lag' = lag + d
    BY <1>1, <1>3, <1>5
  <2>2. lag + d =< 5
    BY <1>3, <1>5 DEF Slack
  <2> QED  BY <1>1, <1>2, <2>1, <2>2
<1> QED  BY <1>3, <1>4, <1>5

LEMMA LookPasses ==
  ASSUME TypeOK, Place, Look
  PROVE  /\ now' \in Nat
         /\ now =< now'
         /\ lag' = 0
         /\ punctual' \in BOOLEAN
         /\ punctual' => punctual /\ now' - now =< 5 - lag
<1>1. PICK d \in Delays : /\ now' = now + d
                          /\ punctual' = (punctual /\ lag + d =< Slack)
  BY DEF Look
<1>2. d \in Nat /\ now \in Nat /\ lag \in Nat
  BY DelaysAssumption DEF TypeOK
<1>3. punctual' \in BOOLEAN /\ (punctual' => punctual /\ lag + d =< Slack)
  BY <1>1
<1>4. now' \in Nat /\ now =< now' /\ lag' = 0
  BY <1>1, <1>2 DEF Look
<1>5. ASSUME punctual'
      PROVE  now' - now =< 5 - lag
  BY <1>1, <1>2, <1>3, <1>5 DEF Slack
<1> QED  BY <1>3, <1>4, <1>5

\* The minutes of the starts stay minutes that have begun.
LEMMA StartsLater ==
  ASSUME TypeOK, now' \in Nat, now =< now'
  PROVE  starts \in [DOMAIN lines -> Seq(0..MinuteOf(now'))]
<1>1. now \in Nat
  BY DEF TypeOK
<1>2. MinuteOf(now) \in Nat /\ MinuteOf(now') \in Nat /\ MinuteOf(now) =< MinuteOf(now')
  BY <1>1, Clock, LaterMinute, ZenonT(40)
<1>3. 0..MinuteOf(now) \subseteq 0..MinuteOf(now')
  BY <1>2
<1>4. Seq(0..MinuteOf(now)) \subseteq Seq(0..MinuteOf(now'))
  BY <1>3, SeqMonotonic
<1> QED  BY <1>4 DEF TypeOK

\* A walk passes a trigger on once or not at all, in the minute it looks at.
LEMMA WalkStarts ==
  ASSUME TypeOK, Place, Walk, NEW i \in DOMAIN starts
  PROVE  LET minute == MinuteOf(now')
         IN  /\ item \in DOMAIN lines
             /\ starts' \in [DOMAIN lines -> Seq(0..minute)]
             /\ \/ starts'[i] = starts[i]
                \/ /\ i = item
                   /\ DOMAIN starts'[i] = 1..(Len(starts[i]) + 1)
                   /\ \A n \in DOMAIN starts[i] : starts'[i][n] = starts[i][n]
                   /\ starts'[i][Len(starts[i]) + 1] = minute
             /\ i # item => starts'[i] = starts[i]
             /\ i = item /\ Starting(triggers[i], Calendar[minute]) =>
                  starts'[i][Len(starts[i]) + 1] = minute /\ Len(starts[i]) + 1 \in DOMAIN starts'[i]
             /\ Len(starts[i]) \in Nat
             /\ DOMAIN starts[i] = 1..Len(starts[i])
<1> DEFINE minute == MinuteOf(now')
<1>1. /\ item \in DOMAIN triggers
      /\ starts' = IF Starting(triggers[item], Calendar[minute])
                   THEN [starts EXCEPT ![item] = Append(@, minute)]
                   ELSE starts
  BY DEF Walk
<1>2. item \in DOMAIN lines
  BY <1>1 DEF Place, Walk
<1>3. now' \in Nat /\ now + 0 =< now'
  BY TimePasses DEF Walk
<1>4. starts \in [DOMAIN lines -> Seq(0..minute)] /\ minute \in 0..minute
  <2>1. now =< now'
    BY <1>3 DEF TypeOK
  <2>2. starts \in [DOMAIN lines -> Seq(0..MinuteOf(now'))]
    BY <1>3, <2>1, StartsLater
  <2>3. minute \in Nat
    BY <1>3, Clock
  <2>4. minute \in 0..minute
    <3> HIDE DEF minute
    <3> QED  BY <2>3
  <2> QED  BY <2>2, <2>4
<1>5. starts[i] \in Seq(0..minute) /\ starts[item] \in Seq(0..minute) /\ DOMAIN starts = DOMAIN lines
  BY <1>2, <1>4
<1>6. Len(starts[i]) \in Nat /\ DOMAIN starts[i] = 1..Len(starts[i])
  BY <1>5, LenProperties
<1> HIDE DEF minute
<1>7. /\ Append(starts[item], minute) \in Seq(0..minute)
      /\ i = item =>
           /\ DOMAIN Append(starts[i], minute) = 1..(Len(starts[i]) + 1)
           /\ \A n \in 1..Len(starts[i]) : Append(starts[i], minute)[n] = starts[i][n]
           /\ Append(starts[i], minute)[Len(starts[i]) + 1] = minute
  <2>1. Append(starts[item], minute) \in Seq(0..minute)
    BY <1>4, <1>5, AppendProperties
  <2>2. /\ Len(Append(starts[i], minute)) = Len(starts[i]) + 1
        /\ \A n \in 1..Len(starts[i]) : Append(starts[i], minute)[n] = starts[i][n]
        /\ Append(starts[i], minute)[Len(starts[i]) + 1] = minute
        /\ Append(starts[i], minute) \in Seq(0..minute)
    BY <1>4, <1>5, AppendProperties
  <2>3. DOMAIN Append(starts[i], minute) = 1..(Len(starts[i]) + 1)
    BY <2>2, LenProperties
  <2> QED  BY <2>1, <2>2, <2>3
<1>8. CASE Starting(triggers[item], Calendar[minute])
  <2>1. starts' = [starts EXCEPT ![item] = Append(@, minute)]
    BY <1>1, <1>8 DEF minute
  <2>2. starts' \in [DOMAIN lines -> Seq(0..minute)]
    BY <1>2, <1>4, <1>7, <2>1
  <2>3. i # item => starts'[i] = starts[i]
    BY <1>5, <2>1
  <2>4. i = item => starts'[i] = Append(starts[i], minute)
    BY <1>5, <2>1
  <2>5. Len(starts[i]) + 1 \in 1..(Len(starts[i]) + 1)
    BY <1>6
  <2> QED  BY <1>2, <1>6, <1>7, <2>2, <2>3, <2>4, <2>5 DEF minute
<1>9. CASE ~Starting(triggers[item], Calendar[minute])
  <2>1. starts' = starts
    BY <1>1, <1>9 DEF minute
  <2> QED  BY <1>2, <1>4, <1>6, <1>9, <2>1 DEF minute
<1> QED  BY <1>8, <1>9

-----------------------------------------------------------------------------
(* Type correctness *)

LEMMA ShapeInit == Init => Shape
<1> SUFFICES ASSUME Init PROVE Shape
  OBVIOUS
<1>1. /\ now \in Nat /\ begin = now /\ lines \in Lists /\ pc = "look" /\ naps = 0 /\ item = 0
      /\ lag = 0 /\ punctual = TRUE /\ thread_state = "running"
      /\ triggers = [i \in DOMAIN lines |-> CronLine(lines[i])]
      /\ starts = [i \in DOMAIN lines |-> <<>>]
  BY FirstTicksAssumption DEF Init
<1>2. Len(triggers) = Len(lines)
  BY <1>1, AsManyTriggers, ListsAssumption
<1>3. starts \in [DOMAIN lines -> Seq(0..MinuteOf(now))]
  <2>1. <<>> \in Seq(0..MinuteOf(now))
    BY EmptySeq
  <2> QED  BY <1>1, <2>1
<1>4. begin \in 0..now
  BY <1>1
<1> QED  BY <1>1, <1>2, <1>3, <1>4 DEF Shape, TypeOK, Place

LEMMA ShapeStep == Shape /\ [Next]_vars => Shape'
<1> SUFFICES ASSUME TypeOK, Place, [Next]_vars PROVE TypeOK' /\ Place'
  BY DEF Shape
<1>0. /\ now \in Nat /\ begin \in 0..now /\ lines \in Lists /\ naps \in Nat /\ item \in Nat
      /\ lag \in Nat /\ starts \in [DOMAIN lines -> Seq(0..MinuteOf(now))]
      /\ Len(triggers) \in {0, Len(lines)} /\ (pc = "nap" <=> naps > 0)
  BY DEF TypeOK, Place
<1>1. CASE Look
  <2>1. now' \in Nat /\ now =< now' /\ lag' = 0 /\ punctual' \in BOOLEAN
    BY <1>1, LookPasses
  <2>2. UNCHANGED <<lines, triggers, thread_state, starts, begin>> /\ thread_state # "stopped"
    BY <1>1 DEF Look, Place
  <2>3. starts' \in [DOMAIN lines' -> Seq(0..MinuteOf(now'))]
    BY <2>1, <2>2, StartsLater
  <2>4. \/ pc' = "walk" /\ item' = 1 /\ naps' = naps
        \/ pc' = "nap" /\ naps' = 5 /\ item' = item
    BY <1>1 DEF Look, NapsAfter
  <2>5. ~(naps > 0) /\ pc = "look"
    BY <1>0, <1>1 DEF Look
  <2>6. Len(triggers) \in Nat
    BY <1>0, LinesAreLists
  <2>7. /\ naps' \in Nat /\ item' \in Nat /\ pc' \in {"look", "walk", "nap"}
        /\ (pc' = "nap" <=> naps' > 0)
        /\ pc' = "walk" => item' \in 1..(Len(triggers) + 1)
    BY <1>0, <2>4, <2>5, <2>6
  <2>8. begin \in 0..now'
    BY <1>0, <2>1
  <2>9. lag' \in Nat
    BY <2>1
  <2>10. TypeOK'
    BY <1>0, <2>1, <2>2, <2>3, <2>7, <2>8, <2>9 DEF TypeOK
  <2>11. Place'
    BY <2>1, <2>2, <2>7 DEF Place
  <2> QED  BY <2>10, <2>11
<1>2. CASE Walk
  <2>1. now' \in Nat /\ now + 0 =< now' /\ lag' \in Nat /\ punctual' \in BOOLEAN
    BY <1>2, TimePasses DEF Walk
  <2>2. /\ UNCHANGED <<lines, triggers, thread_state, pc, naps, begin>>
        /\ item' = item + 1 /\ pc = "walk" /\ item \in DOMAIN triggers
    BY <1>2 DEF Walk
  <2>3. thread_state # "stopped" /\ triggers = [i \in DOMAIN lines |-> CronLine(lines[i])]
    BY <2>2 DEF Place
  <2>4. Len(triggers) = Len(lines) /\ DOMAIN triggers = 1..Len(lines) /\ Len(lines) \in Nat
    BY <2>3, AsManyTriggers, LinesAreLists
  <2>5. item' \in 1..(Len(triggers') + 1) /\ item' \in Nat
    BY <2>2, <2>4
  <2>6. starts' \in [DOMAIN lines' -> Seq(0..MinuteOf(now'))]
    <3>1. item \in DOMAIN starts
      BY <1>0, <2>2, <2>3
    <3> QED  BY <1>2, <2>2, <3>1, WalkStarts
  <2>7. begin' \in 0..now'
    BY <1>0, <2>1, <2>2
  <2>8. TypeOK'
    BY <1>0, <2>1, <2>2, <2>5, <2>6, <2>7 DEF TypeOK
  <2>9. Place'
    BY <2>1, <2>2, <2>3, <2>5 DEF Place
  <2> QED  BY <2>8, <2>9
<1>3. CASE Walked
  <2>1. /\ UNCHANGED <<now, lines, triggers, thread_state, item, starts, begin, lag, punctual>>
        /\ pc = "walk" /\ pc' = "nap" /\ naps' = 10
    BY <1>3 DEF Walked, NapsAfter, history
  <2>2. naps' \in Nat /\ naps' > 0
    BY <2>1
  <2>3. TypeOK'
    BY <2>1, <2>2 DEF TypeOK
  <2>4. Place'
    BY <2>1, <2>2 DEF Place
  <2> QED  BY <2>3, <2>4
<1>4. CASE Nap
  <2>1. now' \in Nat /\ now + 1 =< now' /\ lag' \in Nat /\ punctual' \in BOOLEAN
    BY <1>4, TimePasses DEF Nap
  <2>2. UNCHANGED <<lines, item, starts, begin>> /\ pc = "nap"
    BY <1>4 DEF Nap
  <2>3. now =< now'
    BY <1>0, <2>1
  <2>4. starts' \in [DOMAIN lines' -> Seq(0..MinuteOf(now'))]
    BY <2>1, <2>2, <2>3, StartsLater
  <2>5. begin' \in 0..now'
    BY <1>0, <2>1, <2>2, <2>3
  <2>6. CASE thread_state = "staying"
    <3>1. triggers' = <<>> /\ thread_state' = "stopped" /\ UNCHANGED <<pc, naps>>
      BY <1>4, <2>6 DEF Nap
    <3>2. Len(triggers') \in {0, Len(lines')}
      BY <3>1
    <3>3. TypeOK'
      BY <1>0, <2>1, <2>2, <2>4, <2>5, <3>1, <3>2 DEF TypeOK
    <3>4. Place'
      BY <2>1, <2>2, <3>1 DEF Place
    <3> QED  BY <3>3, <3>4
  <2>7. CASE thread_state # "staying"
    <3>1. /\ naps' = naps - 1 /\ UNCHANGED <<triggers, thread_state>>
          /\ pc' = IF naps' = 0 THEN "look" ELSE "nap"
      BY <1>4, <2>7 DEF Nap, Slept
    <3>2. naps > 0
      BY <1>0, <2>2
    <3>3. naps' \in Nat /\ (pc' = "nap" <=> naps' > 0) /\ pc' \in {"look", "nap"}
      BY <1>0, <3>1, <3>2
    <3>4. thread_state # "stopped"
      BY <1>4 DEF Nap
    <3>5. TypeOK'
      BY <1>0, <2>1, <2>2, <2>4, <2>5, <3>1, <3>3 DEF TypeOK
    <3>6. Place'
      BY <2>1, <2>2, <3>1, <3>3, <3>4 DEF Place
    <3> QED  BY <3>5, <3>6
  <2> QED  BY <2>6, <2>7
<1>5. CASE Stop
  <2>1. /\ UNCHANGED <<now, lines, triggers, pc, item, naps, starts, begin, lag, punctual>>
        /\ thread_state = "running" /\ thread_state' = "staying"
    BY <1>5 DEF Stop, history
  <2> QED  BY <2>1 DEF TypeOK, Place
<1>6. CASE UNCHANGED vars
  BY <1>6 DEF TypeOK, Place, vars, history
<1> QED  BY <1>1, <1>2, <1>3, <1>4, <1>5, <1>6 DEF Next

\* Spec keeps its types: TypeOK is inductive with Place.
THEOREM TypeCorrect == Spec => []TypeOK
<1>1. Shape => TypeOK
  BY DEF Shape
<1> QED  BY <1>1, ShapeInit, ShapeStep, PTL DEF Spec

-----------------------------------------------------------------------------
(* Once a minute *)

LEMMA OnceInit == Init => Once
<1> SUFFICES ASSUME Init PROVE Once
  OBVIOUS
<1>1. starts = [i \in DOMAIN lines |-> <<>>]
  BY DEF Init
<1>2. \A i \in DOMAIN starts : DOMAIN starts[i] = {}
  BY <1>1
<1> QED  BY <1>2 DEF Once, OncePerMinute, NotAgain

\* The minutes of a trigger's starts, as numbers.
LEMMA StartMinutes ==
  ASSUME TypeOK, NEW i \in DOMAIN starts, NEW n \in DOMAIN starts[i]
  PROVE  starts[i][n] \in Nat /\ starts[i][n] =< MinuteOf(now)
<1>1. now \in Nat /\ starts[i] \in Seq(0..MinuteOf(now))
  BY DEF TypeOK
<1>2. MinuteOf(now) \in Nat
  BY <1>1, Clock
<1>3. DOMAIN starts[i] = 1..Len(starts[i])
  BY <1>1, LenProperties
<1>4. starts[i][n] \in 0..MinuteOf(now)
  BY <1>1, <1>3, ElementOfSeq, LenProperties
<1> QED  BY <1>2, <1>4

LEMMA OnceStep == Shape /\ Once /\ [Next]_vars => Once'
<1> SUFFICES ASSUME TypeOK, Place, Once, [Next]_vars PROVE Once'
  BY DEF Shape
<1>0. now \in Nat /\ naps \in Nat /\ (pc = "nap" <=> naps > 0) /\ MinuteOf(now) \in Nat
  BY Clock DEF TypeOK, Place
<1>s. ASSUME UNCHANGED starts
      PROVE  OncePerMinute'
  BY <1>s DEF Once, OncePerMinute
<1>1. CASE Look
  <2>1. now' \in Nat /\ now =< now'
    BY <1>1, LookPasses
  <2>2. UNCHANGED starts /\ pc = "look" /\ naps = 0
    BY <1>0, <1>1 DEF Look
  <2>3. ASSUME NEW i \in DOMAIN starts, NEW n \in DOMAIN starts[i]
        PROVE  /\ pc' # "walk" => 600 * starts[i][n] + 10 =< now' + naps'
               /\ pc' = "walk" => starts[i][n] < MinuteOf(now')
    <3>1. 600 * starts[i][n] + 10 =< now /\ starts[i][n] \in Nat
      BY <1>0, <2>2, StartMinutes DEF Once, NotAgain
    <3>2. CASE Due(now')
      <4>1. pc' = "walk" /\ now' < 600 * MinuteOf(now') + 10 /\ MinuteOf(now') \in Nat
        BY <1>1, <2>1, <3>2, Clock DEF Look
      <4> QED  BY <1>0, <2>1, <3>1, <4>1
    <3>3. CASE ~Due(now')
      <4>1. pc' = "nap" /\ naps' = 5
        BY <1>1, <3>3 DEF Look, NapsAfter
      <4> QED  BY <1>0, <2>1, <3>1, <4>1
    <3> QED  BY <3>2, <3>3
  <2>4. NotAgain'
    BY <2>2, <2>3 DEF NotAgain
  <2> QED  BY <1>s, <2>2, <2>4 DEF Once
<1>2. CASE Walk
  <2>1. now' \in Nat /\ now =< now'
    BY <1>0, <1>2, TimePasses DEF Walk
  <2>2. pc = "walk" /\ pc' = "walk" /\ item' = item + 1 /\ item \in Nat
    BY <1>2 DEF Walk, Place
  <2>3. /\ DOMAIN starts' = DOMAIN starts /\ DOMAIN starts = DOMAIN lines
        /\ DOMAIN lines = 1..Len(lines) /\ Len(lines) \in Nat
    <3>1. item \in DOMAIN starts
      BY <1>2 DEF Walk, Place, TypeOK
    <3> QED  BY <1>2, <3>1, WalkStarts, LinesAreLists DEF TypeOK
  <2>4. MinuteOf(now') \in Nat /\ MinuteOf(now) =< MinuteOf(now')
    BY <1>0, <2>1, Clock, LaterMinute
  <2>5. ASSUME NEW i \in DOMAIN starts
        PROVE  /\ \A m, n \in DOMAIN starts'[i] : m < n => starts'[i][m] < starts'[i][n]
               /\ item' =< i => \A n \in DOMAIN starts'[i] : starts'[i][n] < MinuteOf(now')
    <3>1. /\ \A m, n \in DOMAIN starts[i] : m < n => starts[i][m] < starts[i][n]
          /\ item =< i => \A n \in DOMAIN starts[i] : starts[i][n] < MinuteOf(now)
      BY <2>2 DEF Once, OncePerMinute, NotAgain
    <3>2. \A n \in DOMAIN starts[i] : starts[i][n] \in Nat
      BY StartMinutes
    <3>3. CASE starts'[i] = starts[i]
      <4>1. i \in Nat
        BY <2>3
      <4> QED  BY <1>0, <2>2, <2>4, <3>1, <3>2, <3>3, <4>1
    <3>4. CASE starts'[i] # starts[i]
      <4>1. /\ i = item
            /\ Len(starts[i]) \in Nat
            /\ DOMAIN starts[i] = 1..Len(starts[i])
            /\ DOMAIN starts'[i] = 1..(Len(starts[i]) + 1)
            /\ \A n \in DOMAIN starts[i] : starts'[i][n] = starts[i][n]
            /\ starts'[i][Len(starts[i]) + 1] = MinuteOf(now')
        BY <1>2, <3>4, WalkStarts
      <4>2. \A n \in DOMAIN starts[i] : starts[i][n] < MinuteOf(now')
        BY <1>0, <2>2, <2>4, <3>1, <3>2, <4>1
      <4>3. ~(item' =< i)
        BY <2>2, <4>1
      <4>4. ASSUME NEW m \in DOMAIN starts'[i], NEW n \in DOMAIN starts'[i], m < n
            PROVE  starts'[i][m] < starts'[i][n]
        <5>1. m \in DOMAIN starts[i]
          BY <4>1, <4>4
        <5>2. CASE n \in DOMAIN starts[i]
          BY <3>1, <4>1, <4>4, <5>1, <5>2
        <5>3. CASE n \notin DOMAIN starts[i]
          <6>1. n = Len(starts[i]) + 1
            BY <4>1, <5>3
          <6> QED  BY <4>1, <4>2, <5>1, <6>1
        <5> QED  BY <5>2, <5>3
      <4> QED  BY <4>3, <4>4
    <3> QED  BY <3>3, <3>4
  <2>6. OncePerMinute'
    BY <2>3, <2>5 DEF OncePerMinute
  <2>7. NotAgain'
    BY <2>2, <2>3, <2>5 DEF NotAgain
  <2> QED  BY <2>6, <2>7 DEF Once
<1>3. CASE Walked
  <2>1. UNCHANGED <<starts, now>> /\ pc' = "nap" /\ naps' = 10
    BY <1>3 DEF Walked, NapsAfter, history
  <2>2. ASSUME NEW i \in DOMAIN starts, NEW n \in DOMAIN starts[i]
        PROVE  600 * starts[i][n] + 10 =< now + 10
    BY <1>0, StartMinutes, Clock
  <2>3. NotAgain'
    BY <2>1, <2>2 DEF NotAgain
  <2> QED  BY <1>s, <2>1, <2>3 DEF Once
<1>4. CASE Nap
  <2>1. now' \in Nat /\ now + 1 =< now'
    BY <1>4, TimePasses DEF Nap
  <2>2. UNCHANGED starts /\ pc = "nap" /\ pc' # "walk" /\ (naps' = naps \/ naps' = naps - 1)
    BY <1>4 DEF Nap
  <2>3. ASSUME NEW i \in DOMAIN starts, NEW n \in DOMAIN starts[i]
        PROVE  600 * starts[i][n] + 10 =< now' + naps'
    <3>1. 600 * starts[i][n] + 10 =< now + naps /\ starts[i][n] \in Nat
      BY <2>2, StartMinutes DEF Once, NotAgain
    <3> QED  BY <1>0, <2>1, <2>2, <3>1
  <2>4. NotAgain'
    BY <2>2, <2>3 DEF NotAgain
  <2> QED  BY <1>s, <2>2, <2>4 DEF Once
<1>5. CASE Stop
  <2>1. UNCHANGED <<now, pc, item, naps, starts>>
    BY <1>5 DEF Stop, history
  <2> QED  BY <1>s, <2>1 DEF Once, NotAgain
<1>6. CASE UNCHANGED vars
  <2>1. UNCHANGED <<now, pc, item, naps, starts>>
    BY <1>6 DEF vars, history
  <2> QED  BY <1>s, <2>1 DEF Once, NotAgain
<1> QED  BY <1>1, <1>2, <1>3, <1>4, <1>5, <1>6 DEF Next

\* thread_run: no trigger starts twice in a minute, however steps are delayed.
THEOREM NeverTwice == Spec => []OncePerMinute
<1>1. Init => Shape /\ Once
  BY ShapeInit, OnceInit
<1>2. (Shape /\ Once) /\ [Next]_vars => (Shape /\ Once)'
  BY ShapeStep, OnceStep
<1>3. Shape /\ Once => OncePerMinute
  BY DEF Once
<1> QED  BY <1>1, <1>2, <1>3, PTL DEF Spec

-----------------------------------------------------------------------------
(* No minute missed *)

LEMMA OnTimeInit == Init => OnTime
<1> SUFFICES ASSUME Init PROVE OnTime
  OBVIOUS
<1>1. /\ now \in Nat /\ begin = now /\ naps = 0 /\ lag = 0 /\ pc = "look"
  BY FirstTicksAssumption DEF Init
<1>2. \A m \in DOMAIN Calendar : m \in Nat
  BY CalendarAssumption
<1>3. \A m \in DOMAIN Calendar : ~(begin =< 600 * m /\ 600 * m =< now + naps - lag - 5)
  BY <1>1, <1>2
<1>4. lag =< 5 /\ pc # "walk"
  BY <1>1
<1> QED  BY <1>3, <1>4 DEF OnTime, DoneBy

LEMMA DoneByEarlier ==
  ASSUME NEW first \in Int, NEW last \in Int, NEW then \in Int, then =< last,
         NEW trigger, NEW minutes, DoneBy(first, last, trigger, minutes)
  PROVE  DoneBy(first, then, trigger, minutes)
BY CalendarAssumption DEF DoneBy

\* A look that is not due finds no minute begun since the last one.
LEMMA NotDue ==
  ASSUME NEW t \in Nat, ~Due(t), NEW last \in Int, t =< last + 10, NEW m \in Nat, 600 * m =< t
  PROVE  600 * m =< last
<1> DEFINE minute == MinuteOf(t)
<1>1. minute \in Nat /\ m =< minute
  BY BegunMinute, Clock
<1>2. ~(t < 600 * minute + 10)
  BY Clock
<1> HIDE DEF minute
<1> QED  BY <1>1, <1>2

LEMMA NothingDue ==
  ASSUME NEW t \in Nat, ~Due(t), NEW last \in Int, t =< last + 10,
         NEW first \in Int, NEW trigger, NEW minutes, DoneBy(first, last, trigger, minutes)
  PROVE  DoneBy(first, t, trigger, minutes)
BY NotDue, CalendarAssumption, ZenonT(40) DEF DoneBy

\* No minute begins within half a second after a look in second 0.
LEMMA SameMinute ==
  ASSUME NEW t \in Nat, Due(t), NEW first \in Int, NEW trigger, NEW minutes,
         DoneBy(first, t, trigger, minutes)
  PROVE  DoneBy(first, t + 5, trigger, minutes)
<1>1. ASSUME NEW m \in Nat, 600 * m =< t + 5
      PROVE  600 * m =< t
  <2>1. /\ MinuteOf(t) \in Nat /\ 600 * MinuteOf(t) =< t /\ t < 600 * MinuteOf(t) + 10
    BY Clock
  <2>2. m =< MinuteOf(t)
    BY <1>1, <2>1
  <2> QED  BY <2>1, <2>2
<1> QED  BY <1>1, CalendarAssumption DEF DoneBy

LEMMA SameBounds ==
  ASSUME NEW t \in Nat, NEW u \in Nat, t =< u, u =< t + 5, t < 600 * MinuteOf(t) + 10
  PROVE  MinuteOf(u) = MinuteOf(t)
BY DEF MinuteOf, Minute, Second

LEMMA StillSameMinute ==
  ASSUME NEW t \in Nat, Due(t), NEW u \in Nat, t =< u, u =< t + 5
  PROVE  MinuteOf(u) = MinuteOf(t)
BY Clock, SameBounds

LEMMA OnTimeStep == Shape /\ OnTime /\ [Next]_vars => OnTime'
<1>a. SUFFICES ASSUME TypeOK, Place, OnTime, [Next]_vars, punctual', thread_state' # "stopped"
               PROVE  OnTime'
  BY DEF Shape, OnTime
\* Names for the times after the step.
<1>b. SUFFICES ASSUME NEW then \in Nat, NEW left \in Nat, NEW late \in Nat,
                      now' = then, naps' = left, lag' = late
               PROVE  OnTime'
  <2>1. now' \in Nat /\ naps' \in Nat /\ lag' \in Nat
    BY <1>a, ShapeStep DEF Shape, TypeOK, Place
  <2> QED  BY <2>1
<1>0. /\ now \in Nat /\ naps \in Nat /\ lag \in Nat /\ item \in Nat /\ begin \in Int
      /\ (pc = "nap" <=> naps > 0)
  BY <1>a DEF TypeOK, Place
<1>t. ASSUME thread_state # "stopped"
      PROVE  /\ DOMAIN triggers = 1..Len(lines) /\ Len(triggers) = Len(lines) /\ Len(lines) \in Nat
             /\ DOMAIN triggers = DOMAIN starts
  BY <1>a, <1>t, LinesAreLists, AsManyTriggers DEF Place, TypeOK
<1>n. ASSUME pc' # "walk", lag' =< 5, NEW last, last = now' + naps' - lag' - 5,
             \A i \in DOMAIN triggers' : DoneBy(begin', last, triggers'[i], starts'[i])
      PROVE  OnTime'
  BY <1>a, <1>n DEF OnTime
<1>w. ASSUME pc' = "walk", lag' =< 5, now' - lag' \in Nat, Due(now' - lag'),
             \A i \in DOMAIN triggers' :
               DoneBy(begin', IF i < item' THEN now' - lag' ELSE now' - lag' - 10,
                      triggers'[i], starts'[i])
      PROVE  OnTime'
  BY <1>a, <1>w DEF OnTime
<1>1. CASE Look
  <2>p. punctual
    BY <1>a, <1>1, LookPasses
  <2>1. /\ now' \in Nat /\ lag' = 0 /\ now' - now =< 5 - lag
    BY <1>a, <1>1, LookPasses
  <2>2. UNCHANGED <<triggers, starts, begin, thread_state>> /\ pc = "look" /\ naps = 0
    BY <1>b, <1>0, <1>1 DEF Look
  <2>3. \A i \in DOMAIN triggers : DoneBy(begin, now - lag - 5, triggers[i], starts[i])
    <3>1. now + naps - lag - 5 = now - lag - 5
      BY <1>b, <1>0, <2>2
    <3> QED  BY <1>a, <2>p, <2>2, <3>1 DEF OnTime
  <2>4. CASE Due(now')
    <3>1. pc' = "walk" /\ item' = 1
      BY <1>1, <2>4 DEF Look
    <3>2. ASSUME NEW i \in DOMAIN triggers
          PROVE  ~(i < 1) /\ DoneBy(begin, now' - 10, triggers[i], starts[i])
      <4>1. i \in 1..Len(lines)
        BY <1>a, <1>t, <2>2
      <4>2. now' - 10 =< now - lag - 5 /\ now' - 10 \in Int /\ now - lag - 5 \in Int
        BY <1>b, <1>0, <2>1
      <4> QED  BY <1>b, <1>0, <2>3, <4>1, <4>2, DoneByEarlier
    <3>3. now' - lag' = now'
      BY <1>b, <2>1
    <3>4. now' - lag' \in Nat /\ Due(now' - lag') /\ lag' =< 5
      BY <1>b, <2>1, <2>4, <3>3
    <3>5. \A i \in DOMAIN triggers :
            DoneBy(begin, IF i < item' THEN now' - lag' ELSE now' - lag' - 10, triggers[i], starts[i])
      BY <3>1, <3>2, <3>3
    <3> QED  BY <1>w, <2>2, <3>1, <3>4, <3>5
  <2>5. CASE ~Due(now')
    <3>1. pc' = "nap" /\ naps' = 5
      BY <1>1, <2>5 DEF Look, NapsAfter
    <3>2. now' =< (now - lag - 5) + 10 /\ now - lag - 5 \in Int
      BY <1>b, <1>0, <2>1
    <3>3. \A i \in DOMAIN triggers : DoneBy(begin, now', triggers[i], starts[i])
      BY <1>b, <1>0, <2>1, <2>3, <2>5, <3>2, NothingDue
    <3>4. now' + naps' - lag' - 5 = now'
      BY <1>b, <2>1, <3>1
    <3>5. lag' =< 5
      BY <1>b, <2>1
    <3> QED  BY <1>n, <2>2, <3>1, <3>3, <3>4, <3>5
  <2> QED  BY <2>4, <2>5
<1>2. CASE Walk
  <2> DEFINE look == now - lag
  <2>p. punctual
    BY <1>a, <1>2, TimePasses DEF Walk
  <2>1. /\ now' \in Nat /\ lag' \in Nat /\ lag' =< 5 /\ now' - lag' = now + 0 - lag
    BY <1>a, <1>2, TimePasses DEF Walk
  <2>2. /\ UNCHANGED <<triggers, begin, thread_state, pc>>
        /\ pc = "walk" /\ item' = item + 1 /\ item \in DOMAIN triggers
    BY <1>2 DEF Walk
  <2>3. /\ look \in Nat /\ Due(look)
        /\ \A i \in DOMAIN triggers :
             DoneBy(begin, IF i < item THEN look ELSE look - 10, triggers[i], starts[i])
    BY <1>a, <2>p, <2>2 DEF OnTime, Place
  <2>4. now' - lag' = look /\ now' = look + lag'
    BY <1>b, <1>0, <2>1
  <2> HIDE DEF look
  <2>5. DOMAIN triggers = 1..Len(lines) /\ Len(lines) \in Nat /\ DOMAIN triggers = DOMAIN starts
    BY <1>a, <1>t, <2>2
  <2>6. ASSUME NEW i \in DOMAIN triggers
        PROVE  DoneBy(begin, IF i < item' THEN look ELSE look - 10, triggers[i], starts'[i])
    <3>1. i \in Nat
      BY <2>5
    <3>2. CASE i # item
      <4>1. starts'[i] = starts[i]
        BY <1>a, <1>2, <2>5, <3>2, WalkStarts
      <4>2. i < item <=> i < item'
        BY <1>b, <1>0, <2>2, <3>1, <3>2
      <4> QED  BY <2>3, <4>1, <4>2
    <3>3. CASE i = item
      <4>1. DoneBy(begin, look - 10, triggers[i], starts[i])
        BY <1>b, <1>0, <2>3, <3>3
      <4>2. MinuteOf(now') = MinuteOf(look)
        <5>1. look =< then /\ then =< look + 5
          BY <1>b, <2>1, <2>4
        <5> QED  BY <1>b, <2>3, <5>1, StillSameMinute
      <4>3. /\ DOMAIN starts[i] = 1..Len(starts[i]) /\ Len(starts[i]) \in Nat
            /\ \A n \in DOMAIN starts[i] : n \in DOMAIN starts'[i] /\ starts'[i][n] = starts[i][n]
            /\ Starting(triggers[i], Calendar[MinuteOf(look)]) =>
                 \E n \in DOMAIN starts'[i] : starts'[i][n] = MinuteOf(look)
        BY <1>a, <1>2, <2>5, <3>3, <4>2, WalkStarts
      <4>4. ASSUME NEW m \in DOMAIN Calendar, begin =< 600 * m, 600 * m =< look,
                   Starting(triggers[i], Calendar[m])
            PROVE  \E n \in DOMAIN starts'[i] : starts'[i][n] = m
        <5>1. m \in Nat
          BY CalendarAssumption
        <5>2. m =< MinuteOf(look) /\ MinuteOf(look) \in Nat /\ 600 * MinuteOf(look) =< look
          BY <2>3, <4>4, <5>1, BegunMinute, Clock
        <5>3. CASE m = MinuteOf(look)
          BY <4>3, <4>4, <5>3
        <5>4. CASE m # MinuteOf(look)
          <6>1. 600 * m =< look - 10
            BY <2>3, <5>1, <5>2, <5>4
          <6>2. PICK n \in DOMAIN starts[i] : starts[i][n] = m
            BY <4>1, <4>4, <6>1 DEF DoneBy
          <6> QED  BY <4>3, <6>2
        <5> QED  BY <5>3, <5>4
      <4>5. i < item'
        BY <1>b, <1>0, <2>2, <3>3
      <4> QED  BY <4>4, <4>5 DEF DoneBy
    <3> QED  BY <3>2, <3>3
  <2> QED  BY <1>b, <1>w, <2>1, <2>2, <2>3, <2>4, <2>6
<1>3. CASE Walked
  <2>1. /\ UNCHANGED <<now, triggers, thread_state, starts, begin, lag, punctual>>
        /\ pc = "walk" /\ item \notin DOMAIN triggers /\ pc' = "nap" /\ naps' = 10
    BY <1>3 DEF Walked, NapsAfter, history
  <2>2. /\ lag =< 5 /\ now - lag \in Nat /\ Due(now - lag)
        /\ \A i \in DOMAIN triggers :
             DoneBy(begin, IF i < item THEN now - lag ELSE now - lag - 10, triggers[i], starts[i])
    BY <1>b, <1>a, <2>1 DEF OnTime
  <2>3. \A i \in DOMAIN triggers : i < item
    <3>1. item \in 1..(Len(triggers) + 1)
      BY <1>b, <1>a, <2>1 DEF TypeOK
    <3> QED  BY <1>b, <1>a, <1>t, <2>1, <3>1
  <2>4. \A i \in DOMAIN triggers : DoneBy(begin, (now - lag) + 5, triggers[i], starts[i])
    BY <1>b, <1>0, <2>2, <2>3, SameMinute
  <2>5. now + 10 - lag - 5 = (now - lag) + 5
    BY <1>b, <1>0
  <2> QED  BY <1>b, <1>n, <2>1, <2>2, <2>4, <2>5
<1>4. CASE Nap
  <2>p. punctual
    BY <1>a, <1>4, TimePasses DEF Nap
  <2>1. /\ now' \in Nat /\ lag' \in Nat /\ lag' =< 5 /\ now' - lag' = now + 1 - lag
    BY <1>a, <1>4, TimePasses DEF Nap
  <2>2. /\ thread_state # "stopped" /\ thread_state # "staying" /\ pc = "nap"
    BY <1>a, <1>4 DEF Nap
  <2>3. /\ UNCHANGED <<triggers, starts, begin>> /\ naps' = naps - 1 /\ pc' # "walk"
    BY <1>4, <2>2 DEF Nap
  <2>4. now' + naps' - lag' - 5 = now + naps - lag - 5
    BY <1>b, <1>0, <2>1, <2>3
  <2>5. \A i \in DOMAIN triggers : DoneBy(begin, now + naps - lag - 5, triggers[i], starts[i])
    BY <1>a, <2>p, <2>2 DEF OnTime
  <2> QED  BY <1>b, <1>n, <2>1, <2>3, <2>4, <2>5
<1>5. CASE Stop
  <2>1. /\ UNCHANGED <<now, triggers, pc, item, naps, starts, begin, lag, punctual>>
        /\ thread_state = "running"
    BY <1>5 DEF Stop, history
  <2> QED  BY <1>b, <1>a, <2>1 DEF OnTime
<1>6. CASE UNCHANGED vars
  BY <1>a, <1>6 DEF OnTime, vars, history
<1> QED  BY <1>a, <1>1, <1>2, <1>3, <1>4, <1>5, <1>6 DEF Next

\* thread_run: a trigger starts in every minute it is to start in, unless more
\* than Slack is lost between two looks.
THEOREM NoneMissed == Spec => []NoMinuteMissed
<1>1. Init => Shape /\ OnTime
  BY ShapeInit, OnTimeInit
<1>2. (Shape /\ OnTime) /\ [Next]_vars => (Shape /\ OnTime)'
  BY ShapeStep, OnTimeStep
<1>3. Shape /\ OnTime => NoMinuteMissed
  <2> SUFFICES ASSUME TypeOK, Place, OnTime, punctual, thread_state = "running", pc # "walk",
                      NEW i \in DOMAIN triggers, NEW m \in DOMAIN Calendar,
                      begin =< m * Minute, m * Minute + Second =< now,
                      Starting(triggers[i], Calendar[m])
               PROVE  \E n \in DOMAIN starts[i] : starts[i][n] = m
    BY DEF Shape, NoMinuteMissed
  <2>1. lag =< 5 /\ DoneBy(begin, now + naps - lag - 5, triggers[i], starts[i])
    BY DEF OnTime
  <2>2. now \in Nat /\ naps \in Nat /\ lag \in Nat /\ m \in Nat
    BY CalendarAssumption DEF TypeOK, Place
  <2>3. m * Minute = 600 * m /\ Second = 10
    BY <2>2 DEF Minute, Second
  <2>4. begin =< 600 * m /\ 600 * m =< now + naps - lag - 5
    BY <2>1, <2>2, <2>3
  <2> QED  BY <2>1, <2>4 DEF DoneBy
<1> QED  BY <1>1, <1>2, <1>3, PTL DEF Spec

-----------------------------------------------------------------------------
(* The fields of a cron line *)

\* How many numbers the fields have room for.
Sizes == {7, 12, 24, 32, 60}

LEMMA SmallMod ==
  ASSUME NEW size \in Sizes, NEW x \in 0..(size - 1)
  PROVE  x % size = x
<1>1. CASE size = 7   BY <1>1
<1>2. CASE size = 12  BY <1>2
<1>3. CASE size = 24  BY <1>3
<1>4. CASE size = 32  BY <1>4
<1>5. CASE size = 60  BY <1>5
<1> QED  BY <1>1, <1>2, <1>3, <1>4, <1>5 DEF Sizes

\* Whether the step of an entry takes the place that is r behind the first.
Taken(e, r) == IF e.step = None THEN TRUE ELSE IF e.step = 0 THEN r = 0 ELSE r % e.step = 0

LEMMA TakenIs ==
  ASSUME NEW e, NEW r, e.step # None, e.step # 0
  PROVE  Taken(e, r) <=> r % e.step = 0
BY DEF Taken

LEMMA MeansStep ==
  ASSUME NEW e, NEW numbers, NEW n \in numbers, e.step # None, e.to = None
  PROVE  n \in Means(e, numbers)
           <=> n >= e.from /\ (n - (IF e.from = Star THEN 0 ELSE e.from)) % e.step = 0
<1> DEFINE Steps == n >= e.from /\ (n - (IF e.from = Star THEN 0 ELSE e.from)) % e.step = 0
           Ranges == n \in e.from..e.to
           Equals == e.from \in {n, Star}
<1>1. n \in Means(e, numbers)
        <=> CASE e.step # None -> Steps [] e.to # None -> Ranges [] OTHER -> Equals
  BY Zenon DEF Means
<1> HIDE DEF Steps, Ranges, Equals
<1>2. (CASE e.step # None -> Steps [] e.to # None -> Ranges [] OTHER -> Equals) <=> Steps
  OBVIOUS
<1> QED  BY <1>1, <1>2 DEF Steps

\* The places an entry fills, when it does not go round.
LEMMA FilledIs ==
  ASSUME NEW size \in Sizes, NEW off, NEW e, NEW first \in 0..(size - 1), NEW last \in first..(size - 1),
         FirstPlace(e, off) = first, LastPlace(e, size, off) = last
  PROVE  /\ Fits(e, size, off)
         /\ Filled(e, size, off) \subseteq 0..(size - 1)
         /\ \A p \in 0..(size - 1) :
              p \in Filled(e, size, off) <=> first =< p /\ p =< last /\ Taken(e, p - first)
<1>1. size \in Nat \ {0} /\ first \in Nat /\ last \in Nat
  BY DEF Sizes
<1>2. Fits(e, size, off)
  BY <1>1 DEF Fits
<1>3. Rounds(e, size, off) = last - first
  <2>1. last - first \in 0..(size - 1)
    BY <1>1
  <2>2. (last - first) % size = last - first
    BY <2>1, SmallMod
  <2> QED  BY <1>2, <2>2 DEF Rounds
<1>4. Filled(e, size, off) = {(first + r) % size : r \in {r \in 0..(last - first) : Taken(e, r)}}
  BY <1>3 DEF Filled, Taken
<1>5. \A r \in 0..(last - first) : first + r \in 0..(size - 1) /\ (first + r) % size = first + r
  <2> SUFFICES ASSUME NEW r \in 0..(last - first)
               PROVE  first + r \in 0..(size - 1) /\ (first + r) % size = first + r
    OBVIOUS
  <2> DEFINE x == first + r
  <2>1. x \in 0..(size - 1)
    BY <1>1
  <2> HIDE DEF x
  <2>2. x % size = x
    BY <2>1, SmallMod
  <2> QED  BY <2>1, <2>2 DEF x
<1>6. Filled(e, size, off) = {first + r : r \in {r \in 0..(last - first) : Taken(e, r)}}
  BY <1>4, <1>5
<1>7. Filled(e, size, off) \subseteq 0..(size - 1)
  BY <1>5, <1>6
<1>8. ASSUME NEW p \in 0..(size - 1)
      PROVE  p \in Filled(e, size, off) <=> first =< p /\ p =< last /\ Taken(e, p - first)
  <2>1. ASSUME p \in Filled(e, size, off)
        PROVE  first =< p /\ p =< last /\ Taken(e, p - first)
    <3>1. PICK r \in 0..(last - first) : Taken(e, r) /\ p = first + r
      BY <1>6, <2>1
    <3>2. first =< p /\ p =< last /\ p - first = r
      BY <1>1, <3>1
    <3> QED  BY <3>1, <3>2
  <2>2. ASSUME first =< p, p =< last, Taken(e, p - first)
        PROVE  p \in Filled(e, size, off)
    <3>1. p - first \in 0..(last - first) /\ first + (p - first) = p
      BY <1>1, <2>2
    <3> QED  BY <1>6, <2>2, <3>1
  <2> QED  BY <2>1, <2>2
<1> QED  BY <1>2, <1>7, <1>8

\* The numbers from low to high of a field of size places
IsField(low, high, size, off) ==
  /\ size \in Sizes /\ off \in {-1, 0} /\ low \in Nat /\ high \in Nat
  /\ low =< high /\ 0 =< low + off /\ high + off = size - 1

WellEntry(e, numbers) ==
  /\ e.from \in numbers \cup {Star}
  /\ e.to # None => e.to \in numbers /\ 0 =< e.from /\ e.from =< e.to /\ e.step = None
  /\ e.step # None => e.step > 0 /\ (e.from = Star => 0 \in numbers)

LEMMA EntryPlaces ==
  ASSUME NEW low, NEW high, NEW size, NEW off, IsField(low, high, size, off),
         NEW e \in Entry, WellEntry(e, low..high)
  PROVE  /\ Fits(e, size, off)
         /\ Filled(e, size, off) \subseteq 0..(size - 1)
         /\ \A n \in low..high :
              n + off \in Filled(e, size, off) <=> n \in Means(e, low..high)
         /\ e = All => Filled(e, size, off) = 0..(size - 1)
<1>1. /\ size \in Sizes /\ size \in Nat \ {0} /\ off \in {-1, 0} /\ low \in Nat /\ high \in Nat
      /\ low =< high /\ 0 =< low + off /\ high + off = size - 1
  BY DEF IsField, Sizes
<1>2. /\ e.from \in Nat \cup {-1} /\ e.to \in Nat \cup {-1} /\ e.step \in Nat \cup {-1}
      /\ Star = -1 /\ None = -1
  BY DEF Entry, Star, None
<1>3. \A n \in low..high : n + off \in 0..(size - 1)
  BY <1>1
<1>4. CASE e.from = Star
  <2>1. e.to = None
    BY <1>1, <1>2, <1>4 DEF WellEntry
  <2>2. FirstPlace(e, off) = 0 /\ LastPlace(e, size, off) = size - 1
    BY <1>4 DEF FirstPlace, LastPlace
  <2>3. 0 \in 0..(size - 1) /\ size - 1 \in 0..(size - 1)
    BY <1>1
  <2>4. /\ Fits(e, size, off) /\ Filled(e, size, off) \subseteq 0..(size - 1)
        /\ \A p \in 0..(size - 1) :
             p \in Filled(e, size, off) <=> 0 =< p /\ p =< size - 1 /\ Taken(e, p - 0)
    BY <1>1, <2>2, <2>3, FilledIs
  <2>5. \A p \in 0..(size - 1) : p \in Filled(e, size, off) <=> Taken(e, p)
    <3>1. \A p \in 0..(size - 1) : 0 =< p /\ p =< size - 1 /\ p - 0 = p
      BY <1>1
    <3> QED  BY <2>4, <3>1
  <2>6. CASE e.step = None
    <3>1. \A p \in 0..(size - 1) : p \in Filled(e, size, off)
      BY <2>5, <2>6 DEF Taken
    <3>2. \A n \in low..high : n \in Means(e, low..high)
      BY <1>4, <2>1, <2>6 DEF Means
    <3> QED  BY <1>3, <2>4, <3>1, <3>2
  <2>7. CASE e.step # None
    <3>1. off = 0 /\ e.step # 0
      BY <1>1, <1>2, <1>4, <2>7 DEF WellEntry
    <3>2. \A n \in low..high : n + off = n /\ n - 0 = n /\ n >= -1
      BY <1>1, <3>1
    <3>3. \A n \in low..high : n \in Filled(e, size, off) <=> n % e.step = 0
      <4> TAKE n \in low..high
      <4>1. n \in 0..(size - 1)
        BY <1>3, <3>2
      <4>2. n \in Filled(e, size, off) <=> Taken(e, n)
        BY <2>5, <4>1
      <4> QED  BY <2>7, <3>1, <4>2, TakenIs
    <3>4. \A n \in low..high : n \in Means(e, low..high) <=> n >= e.from /\ (n - 0) % e.step = 0
      BY <1>4, <2>1, <2>7, MeansStep
    <3>5. \A n \in low..high : n \in Means(e, low..high) <=> n % e.step = 0
      BY <1>2, <1>4, <3>2, <3>4
    <3>6. e # All
      BY <2>7 DEF All
    <3> QED  BY <2>4, <3>2, <3>3, <3>5, <3>6
  <2> QED  BY <2>6, <2>7
<1>5. CASE e.from # Star
  <2> DEFINE first == e.from + off
             last == LastPlace(e, size, off)
  <2>1. e.from \in low..high
    BY <1>5 DEF WellEntry
  <2>2. FirstPlace(e, off) = first /\ first \in 0..(size - 1) /\ first \in Nat
    BY <1>1, <1>5, <2>1 DEF FirstPlace
  <2>3. e.to # None => e.to \in low..high /\ e.from =< e.to /\ e.step = None
    BY DEF WellEntry
  <2>4. last = IF e.step # None THEN size - 1 ELSE IF e.to # None THEN e.to + off ELSE first
    BY <1>5, <2>2 DEF LastPlace
  <2>5. last \in first..(size - 1)
    BY <1>1, <2>1, <2>2, <2>3, <2>4
  <2>6. e # All
    BY <1>5 DEF All
  <2> HIDE DEF first, last
  <2>7. /\ Fits(e, size, off) /\ Filled(e, size, off) \subseteq 0..(size - 1)
        /\ \A p \in 0..(size - 1) :
             p \in Filled(e, size, off) <=> first =< p /\ p =< last /\ Taken(e, p - first)
    BY <1>1, <2>2, <2>5, FilledIs DEF last
  <2>8. ASSUME NEW n \in low..high
        PROVE  n + off \in Filled(e, size, off) <=> n \in Means(e, low..high)
    <3>1. /\ first =< n + off <=> e.from =< n
          /\ (n + off) - first = n - e.from
      BY <1>1, <2>1 DEF first
    <3>2. n + off \in Filled(e, size, off)
            <=> e.from =< n /\ n + off =< last /\ Taken(e, n - e.from)
      BY <1>3, <2>7, <3>1
    <3>3. CASE e.step # None
      <4>0. e.to = None
        BY <2>3, <3>3
      <4>1. n + off =< last /\ e.step # 0
        BY <1>1, <1>2, <2>4, <3>3 DEF WellEntry
      <4>2. Taken(e, n - e.from) <=> (n - e.from) % e.step = 0
        BY <3>3, <4>1, TakenIs
      <4>3. n \in Means(e, low..high) <=> n >= e.from /\ (n - e.from) % e.step = 0
        BY <1>5, <3>3, <4>0, MeansStep
      <4>4. n >= e.from <=> e.from =< n
        BY <1>1, <2>1
      <4> QED  BY <3>2, <4>1, <4>2, <4>3, <4>4
    <3>4. CASE e.step = None /\ e.to # None
      <4>1. n + off =< last <=> n =< e.to
        BY <1>1, <2>3, <2>4, <3>4
      <4>2. Taken(e, n - e.from)
        BY <3>4 DEF Taken
      <4>3. n \in Means(e, low..high) <=> n \in e.from..e.to
        BY <3>4 DEF Means
      <4>4. n \in e.from..e.to <=> e.from =< n /\ n =< e.to
        BY <1>1, <2>1, <2>3, <3>4
      <4> QED  BY <3>2, <4>1, <4>2, <4>3, <4>4
    <3>5. CASE e.step = None /\ e.to = None
      <4>1. n + off =< last <=> n =< e.from
        BY <1>1, <2>1, <2>4, <3>5 DEF first
      <4>2. Taken(e, n - e.from)
        BY <3>5 DEF Taken
      <4>3. n \in Means(e, low..high) <=> e.from \in {n, Star}
        BY <3>5 DEF Means
      <4>4. e.from =< n /\ n =< e.from <=> e.from = n
        BY <1>1, <2>1
      <4> QED  BY <1>5, <3>2, <4>1, <4>2, <4>3, <4>4
    <3> QED  BY <3>3, <3>4, <3>5
  <2> QED  BY <2>6, <2>7, <2>8
<1> QED  BY <1>4, <1>5

\* parse_field makes of a field that is well written the numbers it names.
LEMMA FieldPlaces ==
  ASSUME NEW low, NEW high, NEW size, NEW off, IsField(low, high, size, off),
         NEW field \in Field, WellWritten(field, low..high)
  PROVE  /\ Sound(field, size, off)
         /\ \A n \in low..high :
              n + off \in Parsed(field, size, off) <=> n \in Named(field, low..high)
         /\ field = <<All>> => Parsed(field, size, off) = 0..(size - 1)
<1>1. /\ DOMAIN field = 1..Len(field) /\ Len(field) \in Nat
      /\ \A m \in DOMAIN field : field[m] \in Entry
  BY LenProperties, ElementOfSeq DEF Field
<1>2. \A m \in DOMAIN field : WellEntry(field[m], low..high)
  BY DEF WellWritten, WellEntry
<1>3. ASSUME NEW m \in DOMAIN field
      PROVE  /\ Fits(field[m], size, off)
             /\ \A n \in low..high :
                  n + off \in Filled(field[m], size, off) <=> n \in Means(field[m], low..high)
             /\ field[m] = All => Filled(field[m], size, off) = 0..(size - 1)
  BY <1>1, <1>2, EntryPlaces
<1>4. Sound(field, size, off)
  BY <1>3 DEF Sound
<1>5. Parsed(field, size, off) = UNION {Filled(field[m], size, off) : m \in DOMAIN field}
  <2>1. \A m \in DOMAIN field : \A l \in 1..(m - 1) : l \in DOMAIN field
    BY <1>1
  <2>2. {m \in DOMAIN field : \A l \in 1..(m - 1) : Fits(field[l], size, off)} = DOMAIN field
    BY <1>3, <2>1
  <2> QED  BY <2>2 DEF Parsed
<1>6. ASSUME NEW n \in low..high
      PROVE  n + off \in Parsed(field, size, off) <=> n \in Named(field, low..high)
  <2>1. n + off \in Parsed(field, size, off)
          <=> \E m \in DOMAIN field : n + off \in Filled(field[m], size, off)
    BY <1>5
  <2>2. n \in Named(field, low..high) <=> \E m \in DOMAIN field : n \in Means(field[m], low..high)
    BY DEF Named
  <2> QED  BY <1>3, <2>1, <2>2
<1>7. ASSUME field = <<All>>
      PROVE  Parsed(field, size, off) = 0..(size - 1)
  <2>1. DOMAIN field = {1} /\ field[1] = All
    BY <1>7
  <2>2. Parsed(field, size, off) = Filled(field[1], size, off)
    BY <1>5, <2>1
  <2> QED  BY <1>3, <2>1, <2>2
<1> QED  BY <1>4, <1>6, <1>7

LEMMA Fields ==
  /\ IsField(0, 59, 60, 0) /\ IsField(0, 23, 24, 0) /\ IsField(1, 31, 32, 0)
  /\ IsField(1, 12, 12, -1) /\ IsField(0, 6, 7, 0)
BY DEF IsField, Sizes

\* A field that is not "*" leaves some of its numbers out.
LEMMA Restricts ==
  ASSUME NEW low, NEW high, NEW size, IsField(low, high, size, 0),
         NEW field \in Field, WellWritten(field, low..high)
  PROVE  Parsed(field, size, 0) = 0..high <=> field = <<All>>
<1> DEFINE parsed == Parsed(field, size, 0)
           named == Named(field, low..high)
<1>1. /\ field = <<All>> => parsed = 0..high
      /\ \A n \in low..high : n + 0 \in parsed <=> n \in named
  <2>1. size - 1 = high
    BY DEF IsField, Sizes
  <2>2. /\ field = <<All>> => parsed = 0..(size - 1)
        /\ \A n \in low..high : n + 0 \in parsed <=> n \in named
    BY FieldPlaces
  <2> QED  BY <2>1, <2>2
<1>2. named \subseteq low..high
  BY DEF Named, Means
<1>3. named = low..high => field = <<All>>
  BY DEF WellWritten
<1>4. \A n \in low..high : n + 0 = n /\ n \in 0..high
  BY DEF IsField
<1> HIDE DEF parsed, named
<1>5. parsed = 0..high => named = low..high
  BY <1>1, <1>2, <1>4
<1> QED  BY <1>1, <1>3, <1>5 DEF parsed

\* What the parser makes of a line is what the line says.
LEMMA LineMeans ==
  ASSUME NEW line \in Line, Wellformed(line), NEW t \in Time
  PROVE  Starting(CronLine(line), t) <=> NamesMinute(line, t)
<1> DEFINE mins == Parsed(line.mins, 60, 0)
           hrs == Parsed(line.hrs, 24, 0)
           days == Parsed(line.days, 32, 0)
           mons == Parsed(line.mons, 12, -1)
           dow == Parsed(line.dow, 7, 0)
           cl == [mins |-> mins, hrs |-> hrs, days |-> days, mons |-> mons, dow |-> dow]
<1>1. /\ line.mins \in Field /\ line.hrs \in Field /\ line.days \in Field
      /\ line.mons \in Field /\ line.dow \in Field
  BY DEF Line
<1>2. /\ t.min \in 0..59 /\ t.hour \in 0..23 /\ t.mday \in 1..31 /\ t.mon \in 0..11
      /\ t.wday \in 0..6
  BY DEF Time
<1>3. /\ Sound(line.mins, 60, 0) /\ Sound(line.hrs, 24, 0) /\ Sound(line.days, 32, 0)
      /\ Sound(line.mons, 12, -1) /\ Sound(line.dow, 7, 0)
      /\ \A n \in 0..59 : n + 0 \in mins <=> n \in Named(line.mins, 0..59)
      /\ \A n \in 0..23 : n + 0 \in hrs <=> n \in Named(line.hrs, 0..23)
      /\ \A n \in 1..31 : n + 0 \in days <=> n \in Named(line.days, 1..31)
      /\ \A n \in 1..12 : n + (-1) \in mons <=> n \in Named(line.mons, 1..12)
      /\ \A n \in 0..6 : n + 0 \in dow <=> n \in Named(line.dow, 0..6)
  <2>1. Sound(line.mins, 60, 0) /\ \A n \in 0..59 : n + 0 \in mins <=> n \in Named(line.mins, 0..59)
    <3> DEFINE low == 0
               high == 59
               size == 60
               off == 0
               field == line.mins
    <3>1. IsField(low, high, size, off) /\ field \in Field /\ WellWritten(field, low..high)
      BY <1>1, Fields DEF Wellformed
    <3> HIDE DEF low, high, size, off, field
    <3>2. /\ Sound(field, size, off)
          /\ \A n \in low..high : n + off \in Parsed(field, size, off) <=> n \in Named(field, low..high)
      BY <3>1, FieldPlaces
    <3> QED  BY <3>2 DEF low, high, size, off, field
  <2>2. Sound(line.hrs, 24, 0) /\ \A n \in 0..23 : n + 0 \in hrs <=> n \in Named(line.hrs, 0..23)
    <3> DEFINE low == 0
               high == 23
               size == 24
               off == 0
               field == line.hrs
    <3>1. IsField(low, high, size, off) /\ field \in Field /\ WellWritten(field, low..high)
      BY <1>1, Fields DEF Wellformed
    <3> HIDE DEF low, high, size, off, field
    <3>2. /\ Sound(field, size, off)
          /\ \A n \in low..high : n + off \in Parsed(field, size, off) <=> n \in Named(field, low..high)
      BY <3>1, FieldPlaces
    <3> QED  BY <3>2 DEF low, high, size, off, field
  <2>3. Sound(line.days, 32, 0) /\ \A n \in 1..31 : n + 0 \in days <=> n \in Named(line.days, 1..31)
    <3> DEFINE low == 1
               high == 31
               size == 32
               off == 0
               field == line.days
    <3>1. IsField(low, high, size, off) /\ field \in Field /\ WellWritten(field, low..high)
      BY <1>1, Fields DEF Wellformed
    <3> HIDE DEF low, high, size, off, field
    <3>2. /\ Sound(field, size, off)
          /\ \A n \in low..high : n + off \in Parsed(field, size, off) <=> n \in Named(field, low..high)
      BY <3>1, FieldPlaces
    <3> QED  BY <3>2 DEF low, high, size, off, field
  <2>4. Sound(line.mons, 12, -1) /\ \A n \in 1..12 : n + (-1) \in mons <=> n \in Named(line.mons, 1..12)
    <3> DEFINE low == 1
               high == 12
               size == 12
               off == -1
               field == line.mons
    <3>1. IsField(low, high, size, off) /\ field \in Field /\ WellWritten(field, low..high)
      BY <1>1, Fields DEF Wellformed
    <3> HIDE DEF low, high, size, off, field
    <3>2. /\ Sound(field, size, off)
          /\ \A n \in low..high : n + off \in Parsed(field, size, off) <=> n \in Named(field, low..high)
      BY <3>1, FieldPlaces
    <3> QED  BY <3>2 DEF low, high, size, off, field
  <2>5. Sound(line.dow, 7, 0) /\ \A n \in 0..6 : n + 0 \in dow <=> n \in Named(line.dow, 0..6)
    <3> DEFINE low == 0
               high == 6
               size == 7
               off == 0
               field == line.dow
    <3>1. IsField(low, high, size, off) /\ field \in Field /\ WellWritten(field, low..high)
      BY <1>1, Fields DEF Wellformed
    <3> HIDE DEF low, high, size, off, field
    <3>2. /\ Sound(field, size, off)
          /\ \A n \in low..high : n + off \in Parsed(field, size, off) <=> n \in Named(field, low..high)
      BY <3>1, FieldPlaces
    <3> QED  BY <3>2 DEF low, high, size, off, field
  <2> QED  BY <2>1, <2>2, <2>3, <2>4, <2>5
<1>4. CronLine(line) = FixDayDow(cl)
  BY <1>3 DEF CronLine
<1>5. /\ days = 0..31 <=> line.days = <<All>>
      /\ dow = 0..6 <=> line.dow = <<All>>
  <2>1. days = 0..31 <=> line.days = <<All>>
    <3> DEFINE low == 1
               high == 31
               size == 32
               field == line.days
    <3>1. IsField(low, high, size, 0) /\ field \in Field /\ WellWritten(field, low..high)
      BY <1>1, Fields DEF Wellformed
    <3> HIDE DEF low, high, size, field
    <3>2. Parsed(field, size, 0) = 0..high <=> field = <<All>>
      BY <3>1, Restricts
    <3> QED  BY <3>2 DEF high, size, field
  <2>2. dow = 0..6 <=> line.dow = <<All>>
    <3> DEFINE low == 0
               high == 6
               size == 7
               field == line.dow
    <3>1. IsField(low, high, size, 0) /\ field \in Field /\ WellWritten(field, low..high)
      BY <1>1, Fields DEF Wellformed
    <3> HIDE DEF low, high, size, field
    <3>2. Parsed(field, size, 0) = 0..high <=> field = <<All>>
      BY <3>1, Restricts
    <3> QED  BY <3>2 DEF high, size, field
  <2> QED  BY <2>1, <2>2
<1> HIDE DEF mins, hrs, days, mons, dow
<1>6. /\ t.min \in mins <=> t.min \in Named(line.mins, 0..59)
      /\ t.hour \in hrs <=> t.hour \in Named(line.hrs, 0..23)
      /\ t.mon \in mons <=> t.mon + 1 \in Named(line.mons, 1..12)
  <2>1. t.min + 0 = t.min /\ t.hour + 0 = t.hour /\ t.mon + 1 \in 1..12 /\ (t.mon + 1) + (-1) = t.mon
    BY <1>2
  <2> QED  BY <1>2, <1>3, <2>1
<1>7. /\ t.mday \in days <=> t.mday \in Named(line.days, 1..31)
      /\ t.wday \in dow <=> t.wday \in Named(line.dow, 0..6)
  <2>1. t.mday + 0 = t.mday /\ t.wday + 0 = t.wday
    BY <1>2
  <2> QED  BY <1>2, <1>3, <2>1
<1>8. /\ CronLine(line).mins = mins /\ CronLine(line).hrs = hrs /\ CronLine(line).mons = mons
      /\ CronLine(line).days = IF dow # 0..6 /\ days = 0..31 THEN {} ELSE days
      /\ CronLine(line).dow = IF dow = 0..6 /\ days # 0..31 THEN {} ELSE dow
  BY <1>4 DEF FixDayDow
<1>9. t.mday \in CronLine(line).days \/ t.wday \in CronLine(line).dow <=> NamesDay(line, t)
  <2> DEFINE mday == t.mday \in Named(line.days, 1..31)
             wday == t.wday \in Named(line.dow, 0..6)
  <2>1. NamesDay(line, t) <=>
          IF line.days = <<All>> \/ line.dow = <<All>> THEN mday /\ wday ELSE mday \/ wday
    BY DEF NamesDay
  <2>2. (line.days = <<All>> => mday) /\ (line.dow = <<All>> => wday)
    <3>1. t.mday \in 0..31 /\ t.wday \in 0..6
      BY <1>2
    <3> QED  BY <1>5, <1>7, <3>1
  <2>3. (t.mday \in days <=> mday) /\ (t.wday \in dow <=> wday)
    BY <1>7
  <2> HIDE DEF mday, wday
  <2>4. CASE line.days = <<All>> /\ line.dow = <<All>>
    BY <1>5, <1>8, <2>1, <2>2, <2>3, <2>4
  <2>5. CASE line.days = <<All>> /\ line.dow # <<All>>
    BY <1>5, <1>8, <2>1, <2>2, <2>3, <2>5
  <2>6. CASE line.days # <<All>> /\ line.dow = <<All>>
    BY <1>5, <1>8, <2>1, <2>2, <2>3, <2>6
  <2>7. CASE line.days # <<All>> /\ line.dow # <<All>>
    BY <1>5, <1>8, <2>1, <2>3, <2>7
  <2> QED  BY <2>4, <2>5, <2>6, <2>7
<1>10. Starting(CronLine(line), t)
         <=> /\ t.min \in mins /\ t.hour \in hrs /\ t.mon \in mons
             /\ t.mday \in CronLine(line).days \/ t.wday \in CronLine(line).dow
  BY <1>8 DEF Starting
<1> QED  BY <1>6, <1>9, <1>10 DEF NamesMinute

\* parse_field, fix_day_dow and flag_starting_jobs: whatever lines the triggers
\* have, one that is well formed starts its trigger in the minutes it names, of
\* any local time there is, and in no others.
THEOREM LinesMean == Spec => []StartsAsWritten
<1>1. Init => Shape
  BY ShapeInit
<1>2. Shape /\ [Next]_vars => Shape'
  BY ShapeStep
<1>3. Shape => StartsAsWritten
  <2> SUFFICES ASSUME Shape, NEW i \in DOMAIN triggers, Wellformed(lines[i]),
                      NEW m \in DOMAIN Calendar
               PROVE  Starting(triggers[i], Calendar[m]) <=> NamesMinute(lines[i], Calendar[m])
    BY DEF StartsAsWritten
  <2>1. thread_state # "stopped"
    BY DEF Shape, Place
  <2>2. i \in DOMAIN lines /\ triggers[i] = CronLine(lines[i])
    BY <2>1 DEF Shape, Place
  <2>3. lines[i] \in Line
    <3>1. lines \in Seq(Line)
      BY LinesAreLists DEF Shape
    <3> QED  BY <2>2, <3>1, LenProperties, ElementOfSeq
  <2>4. Calendar[m] \in Time
    BY CalendarAssumption
  <2> QED  BY <2>2, <2>3, <2>4, LineMeans
<1> QED  BY <1>1, <1>2, <1>3, PTL DEF Spec

=============================================================================
