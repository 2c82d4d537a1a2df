----------------------------- MODULE TopicFilters -----------------------------
(***************************************************************************)
(* Whether the filter of a subscription matches the name of a topic:       *)
(* pname_matches_sname (lists.c), which walks over both with a position    *)
(* each, one turn of its loop a step.  Every publication, will and         *)
(* retained message finds its subscribers this way.  Nothing looks at the  *)
(* filter of a SUBSCRIBE but that it is not empty, so it may be written in *)
(* any way.                                                                *)
(***************************************************************************)
EXTENDS Integers, FiniteSets, Sequences

CONSTANTS
  SubNames,  \* filters to look at, sequences of characters
  PubNames   \* names to look at

ASSUME NamesAssumption ==
  /\ SubNames \subseteq Seq(STRING) \ {<<>>}
  /\ PubNames \subseteq Seq(STRING) \ {<<>>}

VARIABLES
  sname, pname,  \* the filter and the name
  spos, ppos,    \* positions in them, from 0
  res, wild,     \* matched; by a "#"
  pc             \* "loop" or "done"

names == <<sname, pname>>
vars == <<names, spos, ppos, res, wild, pc>>

slen == Len(sname)
plen == Len(pname)

Init ==
  /\ sname \in SubNames
  /\ pname \in PubNames
  /\ spos = 0
  /\ ppos = 0
  /\ res = 0
  /\ wild = 0
  /\ pc = "loop"

-----------------------------------------------------------------------------

Inside == pc = "loop" /\ spos < slen /\ ppos < plen

\* The loop is left: a match without "#" needs both to be at their end.
Leave(r, w) ==
  /\ pc' = "done"
  /\ wild' = w
  /\ res' = IF w = 0 /\ (ppos' < plen \/ spos' < slen) THEN 0 ELSE r

\* Mutant of Shortcut: the characters behind are not looked at.
ShortcutBlind(s, p) == p = plen - 1 /\ s = slen - 3

\* At the last character of the name, "/#" one character on ends the filter.
Shortcut(s, p) ==
  /\ p = plen - 1
  /\ s = slen - 3
  /\ sname[s + 2] = "/"
  /\ sname[s + 3] = "#"

\* The end of a turn that matched so far.
Matched ==
  IF spos' = slen /\ ppos' = plen THEN Leave(1, 0)
  ELSE IF Shortcut(spos', ppos') THEN Leave(1, 1)
  ELSE UNCHANGED <<res, wild, pc>>

Alike ==
  /\ Inside
  /\ sname[spos + 1] = pname[ppos + 1]
  /\ spos' = spos + 1
  /\ ppos' = ppos + 1
  /\ Matched
  /\ UNCHANGED names

EndsLevel(p) == p = plen \/ pname[p + 1] = "/"

\* Mutant of LevelEnd: the slash belongs to the level.
LevelEndPast(from) == 1 + CHOOSE p \in from..plen : EndsLevel(p) /\ \A q \in from..(p - 1) : ~EndsLevel(q)

\* Mutant of LevelEnd: slashes are passed as well.
LevelEndOfName(from) == plen

\* The end of the level of the name.
LevelEnd(from) == CHOOSE p \in from..plen : EndsLevel(p) /\ \A q \in from..(p - 1) : ~EndsLevel(q)

Plus ==
  /\ Inside
  /\ sname[spos + 1] # pname[ppos + 1]
  /\ sname[spos + 1] = "+"
  /\ spos' = spos + 1
  /\ ppos' = LevelEnd(ppos)
  /\ Matched
  /\ UNCHANGED names

Hash ==
  /\ Inside
  /\ sname[spos + 1] # pname[ppos + 1]
  /\ sname[spos + 1] = "#"
  /\ UNCHANGED <<names, spos, ppos>>
  /\ Leave(IF spos + 1 = slen THEN 1 ELSE 0, 1)

Differ ==
  /\ Inside
  /\ sname[spos + 1] \notin {pname[ppos + 1], "+", "#"}
  /\ UNCHANGED <<names, spos, ppos>>
  /\ Leave(0, wild)

\* One of the two is at its end.
Over ==
  /\ pc = "loop"
  /\ ~Inside
  /\ UNCHANGED <<names, spos, ppos>>
  /\ Leave(res, wild)

Next == Alike \/ Plus \/ Hash \/ Differ \/ Over

Spec == Init /\ [][Next]_vars

-----------------------------------------------------------------------------
(* What MQTT 3.1.1 says of filters *)

\* The levels of a name, between its slashes.
Levels(s) ==
  LET slashes == {0, Len(s) + 1} \cup {i \in DOMAIN s : s[i] = "/"}
      Slash(k) == CHOOSE i \in slashes : Cardinality({j \in slashes : j < i}) = k - 1
  IN  [k \in 1..(Cardinality(slashes) - 1) |-> SubSeq(s, Slash(k) + 1, Slash(k + 1) - 1)]

\* Wildcards take a level of their own, and "#" is the last.
WellFormed(s) ==
  LET l == Levels(s)
  IN  \A k \in DOMAIN l : \A i \in DOMAIN l[k] :
        /\ l[k][i] \in {"+", "#"} => Len(l[k]) = 1
        /\ l[k][i] = "#" => k = Len(l)

MultiLevel(s) == s[Len(s)] = "#"

\* A "#" stands for any number of levels, none included.
Matches(s, p) ==
  LET f == Levels(s)
      n == Levels(p)
      given == IF MultiLevel(s) THEN Len(f) - 1 ELSE Len(f)
  IN  /\ IF MultiLevel(s) THEN Len(n) >= given ELSE Len(n) = given
      /\ \A k \in 1..given : f[k] \in {n[k], <<"+">>}

Wildless(s) == \A i \in DOMAIN s : s[i] \notin {"+", "#"}

-----------------------------------------------------------------------------

\* The positions stay in the names, so that everything read is part of them.
TypeOK ==
  /\ sname \in SubNames
  /\ pname \in PubNames
  /\ spos \in 0..slen
  /\ ppos \in 0..plen
  /\ res \in {0, 1}
  /\ wild \in {0, 1}
  /\ pc \in {"loop", "done"}

\* A filter without wildcards matches the topic of that name and no other.
ExactNames == pc = "done" /\ Wildless(sname) => (res = 1 <=> sname = pname)

\* A filter with wildcards matches what it should, where no level is empty and
\* "#" stands for a level at least.
WildcardsMatch ==
  pc = "done" /\ WellFormed(sname) /\ Wildless(pname)
  /\ (\A k \in DOMAIN Levels(sname) : Levels(sname)[k] # <<>>)
  /\ (\A k \in DOMAIN Levels(pname) : Levels(pname)[k] # <<>>)
  /\ (MultiLevel(sname) => Len(Levels(pname)) >= Len(Levels(sname)))
  => (res = 1 <=> Matches(sname, pname))

\* README.md names "MQTT Protocol Specification Versions 3.1.0 and 3.1.1": a
\* filter that is written as they want matches the topics they say it does.
\* At the last character of the name the shortcut for "/#" takes the place of
\* the comparison with that character.
FiltersAsSpecified ==
  pc = "done" /\ WellFormed(sname) /\ Wildless(pname) => (res = 1 <=> Matches(sname, pname))

=============================================================================
