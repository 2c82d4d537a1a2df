-------------------------- MODULE TopicFiltersProofs --------------------------
(***************************************************************************)
(* What holds of pname_matches_sname for filters and names of any length.  *)
(***************************************************************************)
EXTENDS TopicFilters, ListLemmas, FiniteSetTheorems

\* Both names are sequences with an element.
LEMMA NamesAreLists ==
  ASSUME TypeOK
  PROVE  /\ sname \in Seq(STRING) /\ pname \in Seq(STRING)
         /\ slen \in Nat /\ plen \in Nat /\ slen > 0 /\ plen > 0
         /\ DOMAIN sname = 1..slen /\ DOMAIN pname = 1..plen
<1>1. sname \in Seq(STRING) /\ pname \in Seq(STRING) /\ sname # <<>> /\ pname # <<>>
  BY NamesAssumption DEF TypeOK
<1> QED  BY <1>1, LenProperties, EmptySeq DEF slen, plen

\* A level has an end, the first there is and at the latest that of the name.
LEMMA LevelHasEnd ==
  ASSUME TypeOK, NEW from \in 0..plen
  PROVE  /\ LevelEnd(from) \in from..plen /\ EndsLevel(LevelEnd(from))
         /\ \A q \in from..(LevelEnd(from) - 1) : ~EndsLevel(q)
<1>1. plen \in Nat
  BY NamesAreLists
<1> DEFINE ends == {p \in from..plen : EndsLevel(p)}
<1>2. plen \in ends
  BY <1>1 DEF EndsLevel
<1>3. \E p \in ends : \A q \in ends : p =< q
  <2>1. ends \subseteq Nat /\ ends # {}
    BY <1>1, <1>2
  <2> HIDE DEF ends
  <2> QED  BY <2>1, LeastNumber
<1>4. PICK p \in ends : \A q \in ends : p =< q
  BY <1>3
<1>5. p \in from..plen /\ EndsLevel(p) /\ \A q \in from..(p - 1) : ~EndsLevel(q)
  BY <1>1, <1>4
<1> QED  BY <1>5 DEF LevelEnd
-----------------------------------------------------------------------------
(* Positions *)

LEMMA LeaveKeepsTypes ==
  ASSUME NEW r \in {0, 1}, NEW w \in {0, 1}, Leave(r, w)
  PROVE  res' \in {0, 1} /\ wild' \in {0, 1} /\ pc' \in {"loop", "done"}
BY DEF Leave

LEMMA MatchedKeepsTypes ==
  ASSUME TypeOK, Matched
  PROVE  res' \in {0, 1} /\ wild' \in {0, 1} /\ pc' \in {"loop", "done"}
<1>1. CASE Leave(1, 0)
  BY <1>1, LeaveKeepsTypes
<1>2. CASE Leave(1, 1)
  BY <1>2, LeaveKeepsTypes
<1>3. CASE UNCHANGED <<res, wild, pc>>
  BY <1>3 DEF TypeOK
<1> QED  BY <1>1, <1>2, <1>3 DEF Matched

LEMMA TypeStep == TypeOK /\ [Next]_vars => TypeOK'
<1> SUFFICES ASSUME TypeOK, [Next]_vars PROVE TypeOK'
  OBVIOUS
<1>0. slen \in Nat /\ plen \in Nat /\ spos \in 0..slen /\ ppos \in 0..plen
  BY NamesAreLists DEF TypeOK
<1>t. ASSUME UNCHANGED names, spos' \in 0..slen, ppos' \in 0..plen,
             res' \in {0, 1}, wild' \in {0, 1}, pc' \in {"loop", "done"}
      PROVE  TypeOK'
  BY <1>t DEF TypeOK, names, slen, plen
<1>1. CASE Alike
  <2>1. spos' \in 0..slen /\ ppos' \in 0..plen
    BY <1>0, <1>1 DEF Alike, Inside
  <2> QED  BY <1>1, <1>t, <2>1, MatchedKeepsTypes DEF Alike
<1>2. CASE Plus
  <2>1. spos' \in 0..slen
    BY <1>0, <1>2 DEF Plus, Inside
  <2>2. ppos' \in 0..plen
    <3>1. ppos' \in ppos..plen
      BY <1>0, <1>2, LevelHasEnd DEF Plus
    <3> QED  BY <1>0, <3>1
  <2> QED  BY <1>2, <1>t, <2>1, <2>2, MatchedKeepsTypes DEF Plus
<1>3. CASE Hash
  <2>1. res' \in {0, 1} /\ wild' \in {0, 1} /\ pc' \in {"loop", "done"}
    BY <1>3 DEF Hash, Leave
  <2> QED  BY <1>0, <1>3, <1>t, <2>1 DEF Hash
<1>4. CASE Differ
  <2>1. res' \in {0, 1} /\ wild' \in {0, 1} /\ pc' \in {"loop", "done"}
    BY <1>4, LeaveKeepsTypes DEF Differ, TypeOK
  <2> QED  BY <1>0, <1>4, <1>t, <2>1 DEF Differ
<1>5. CASE Over
  <2>1. res' \in {0, 1} /\ wild' \in {0, 1} /\ pc' \in {"loop", "done"}
    BY <1>5, LeaveKeepsTypes DEF Over, TypeOK
  <2> QED  BY <1>0, <1>5, <1>t, <2>1 DEF Over
<1>6. CASE UNCHANGED vars
  BY <1>6 DEF TypeOK, vars, names, slen, plen
<1> QED  BY <1>1, <1>2, <1>3, <1>4, <1>5, <1>6 DEF Next

LEMMA TypeInit == Init => TypeOK
<1> SUFFICES ASSUME Init PROVE TypeOK
  OBVIOUS
<1>1. sname \in Seq(STRING) /\ pname \in Seq(STRING)
  BY NamesAssumption DEF Init
<1>2. slen \in Nat /\ plen \in Nat
  BY <1>1, LenProperties DEF slen, plen
<1> QED  BY <1>2 DEF Init, TypeOK

\* pname_matches_sname never reads beyond a filter or a name.
THEOREM PositionsStay == Spec => []TypeOK
BY TypeInit, TypeStep, PTL DEF Spec

-----------------------------------------------------------------------------
(* Filters without wildcards *)

\* As long as the loop goes on, the names are alike up to one position.
AlikeSoFar ==
  Wildless(sname) =>
    /\ wild = 0
    /\ pc = "loop" =>
         /\ res = 0
         /\ spos = ppos
         /\ \A i \in 1..spos : sname[i] = pname[i]
         /\ ~(spos = slen /\ ppos = plen)
    /\ pc = "done" => (res = 1 <=> sname = pname)

LEMMA NoWildcard ==
  ASSUME TypeOK, Wildless(sname), NEW i \in 1..slen
  PROVE  sname[i] # "+" /\ sname[i] # "#"
BY NamesAreLists DEF Wildless

LEMMA NoShortcut ==
  ASSUME TypeOK, Wildless(sname), NEW s \in 0..slen, NEW p
  PROVE  ~Shortcut(s, p)
<1> SUFFICES ASSUME s = slen - 3, sname[s + 3] = "#" PROVE FALSE
  BY DEF Shortcut
<1>1. slen \in Nat
  BY NamesAreLists
<1>2. s + 3 = slen /\ slen \in 1..slen
  BY <1>1, NamesAreLists
<1> QED  BY <1>2, NoWildcard

LEMMA AlikeInit == Init => AlikeSoFar
<1> SUFFICES ASSUME Init PROVE AlikeSoFar
  OBVIOUS
<1>1. slen > 0 /\ slen \in Nat
  BY TypeInit, NamesAreLists
<1>2. ~(spos = slen /\ ppos = plen)
  BY <1>1 DEF Init
<1>3. \A i \in 1..spos : sname[i] = pname[i]
  BY DEF Init
<1> QED  BY <1>2, <1>3 DEF Init, AlikeSoFar

LEMMA AlikeStep == TypeOK /\ AlikeSoFar /\ [Next]_vars => AlikeSoFar'
<1> SUFFICES ASSUME TypeOK, AlikeSoFar, [Next]_vars, Wildless(sname), UNCHANGED names
             PROVE  AlikeSoFar'
  <2>1. ASSUME [Next]_vars PROVE UNCHANGED names
    <3>1. CASE Next
      BY <3>1 DEF Next, Alike, Plus, Hash, Differ, Over
    <3>2. CASE UNCHANGED vars
      BY <3>2 DEF vars
    <3> QED  BY <2>1, <3>1, <3>2
  <2> QED  BY <2>1 DEF AlikeSoFar, Wildless, names
<1>0. /\ slen \in Nat /\ plen \in Nat /\ spos \in 0..slen /\ ppos \in 0..plen
      /\ sname \in Seq(STRING) /\ pname \in Seq(STRING) /\ wild = 0
  BY NamesAreLists DEF TypeOK, AlikeSoFar
<1>n. slen' = slen /\ plen' = plen /\ sname' = sname /\ pname' = pname
  BY DEF names, slen, plen
<1>i. ASSUME Inside
      PROVE  /\ pc = "loop" /\ res = 0 /\ spos = ppos /\ spos + 1 \in 1..slen /\ spos + 1 \in 1..plen
             /\ \A i \in 1..spos : sname[i] = pname[i]
  BY <1>0, <1>i DEF Inside, AlikeSoFar
<1>d. ASSUME wild' = 0, pc' = "done", res' = 1 <=> sname = pname
      PROVE  AlikeSoFar'
  BY <1>d, <1>n DEF AlikeSoFar
<1>1. CASE Alike
  <2>1. /\ pc = "loop" /\ res = 0 /\ spos = ppos /\ spos + 1 \in 1..slen
        /\ \A i \in 1..spos : sname[i] = pname[i]
    BY <1>1, <1>i DEF Alike
  <2>2. sname[spos + 1] = pname[spos + 1] /\ spos' = spos + 1 /\ ppos' = spos + 1
    BY <1>1, <2>1 DEF Alike
  <2>3. \A i \in 1..(spos + 1) : sname[i] = pname[i]
    BY <1>0, <2>1, <2>2
  <2>4. CASE spos + 1 = slen /\ spos + 1 = plen
    <3>1. Leave(1, 0) /\ ~(ppos' < plen) /\ ~(spos' < slen)
      BY <1>0, <1>1, <2>2, <2>4 DEF Alike, Matched
    <3>2. sname = pname
      <4>1. Len(sname) = Len(pname) /\ \A i \in 1..Len(sname) : sname[i] = pname[i]
        BY <2>3, <2>4 DEF slen, plen
      <4> QED  BY <1>0, <4>1, SeqEqual
    <3>3. res' = 1 /\ wild' = 0 /\ pc' = "done"
      BY <3>1 DEF Leave
    <3> QED  BY <1>d, <3>2, <3>3
  <2>5. CASE ~(spos + 1 = slen /\ spos + 1 = plen)
    <3>1. ~Shortcut(spos', ppos')
      BY <1>0, <2>1, <2>2, NoShortcut
    <3>2. UNCHANGED <<res, wild, pc>>
      BY <1>1, <2>2, <2>5, <3>1 DEF Alike, Matched
    <3> QED  BY <1>0, <1>n, <2>1, <2>2, <2>3, <2>5, <3>2 DEF AlikeSoFar
  <2> QED  BY <2>4, <2>5
<1>2. CASE Plus
  <2>1. sname[spos + 1] = "+" /\ spos + 1 \in 1..slen
    BY <1>2, <1>i DEF Plus
  <2> QED  BY <2>1, NoWildcard
<1>3. CASE Hash
  <2>1. sname[spos + 1] = "#" /\ spos + 1 \in 1..slen
    BY <1>3, <1>i DEF Hash
  <2> QED  BY <2>1, NoWildcard
<1>4. CASE Differ
  <2>1. sname[spos + 1] # pname[spos + 1]
    BY <1>4, <1>i DEF Differ
  <2>2. sname # pname
    BY <2>1
  <2>3. res' = 0 /\ wild' = 0 /\ pc' = "done"
    BY <1>0, <1>4 DEF Differ, Leave
  <2> QED  BY <1>d, <2>2, <2>3
<1>5. CASE Over
  <2>1. pc = "loop" /\ ~(spos < slen /\ ppos < plen) /\ Leave(res, wild)
    BY <1>5 DEF Over, Inside
  <2>2. res = 0 /\ spos = ppos /\ ~(spos = slen /\ ppos = plen)
    BY <2>1 DEF AlikeSoFar
  <2>3. slen # plen
    BY <1>0, <2>1, <2>2
  <2>4. sname # pname
    BY <2>3 DEF slen, plen
  <2>5. res' = 0 /\ wild' = 0 /\ pc' = "done"
    BY <1>0, <2>1, <2>2 DEF Leave
  <2> QED  BY <1>d, <2>4, <2>5
<1>6. CASE UNCHANGED vars
  BY <1>6 DEF AlikeSoFar, vars, names, slen, plen, Wildless
<1> QED  BY <1>1, <1>2, <1>3, <1>4, <1>5, <1>6 DEF Next

\* A filter without wildcards finds the topic of its name and no other.
THEOREM ExactMatch == Spec => []ExactNames
<1>1. Init => TypeOK /\ AlikeSoFar
  BY TypeInit, AlikeInit
<1>2. (TypeOK /\ AlikeSoFar) /\ [Next]_vars => (TypeOK /\ AlikeSoFar)'
  BY TypeStep, AlikeStep
<1>3. AlikeSoFar => ExactNames
  BY DEF AlikeSoFar, ExactNames
<1> QED  BY <1>1, <1>2, <1>3, PTL DEF Spec

-----------------------------------------------------------------------------
(* Levels *)

Below(S, i) == {j \in S : j < i}

\* An element of a finite set of numbers stands behind fewer than the ones above it.
LEMMA RankGrows ==
  ASSUME NEW S \in SUBSET Nat, IsFiniteSet(S), NEW i \in S
  PROVE  /\ Cardinality(Below(S, i)) \in 0..(Cardinality(S) - 1)
         /\ \A j \in S : i < j => Cardinality(Below(S, i)) < Cardinality(Below(S, j))
         /\ (\A j \in S : i =< j) => Cardinality(Below(S, i)) = 0
         /\ (\A j \in S : j =< i) => Cardinality(Below(S, i)) = Cardinality(S) - 1
<1> DEFINE B(j) == Below(S, j)
<1>0. /\ \A j \in S : j \in Nat
      /\ \A j, k : j \in B(k) <=> j \in S /\ j < k
  BY DEF Below
<1>1. \A j : IsFiniteSet(B(j)) /\ Cardinality(B(j)) \in Nat
  <2>1. TAKE j
  <2>2. B(j) \in SUBSET S
    BY DEF Below
  <2> QED  BY <2>2, FS_Subset, FS_CardinalityType
<1>2. i \notin B(i) /\ Cardinality(B(i) \cup {i}) = Cardinality(B(i)) + 1
  <2>1. i \notin B(i)
    BY DEF Below
  <2> HIDE DEF B
  <2> QED  BY <1>1, <2>1, FS_AddElement
<1>3. Cardinality(S) \in Nat
  BY FS_CardinalityType
<1>4. Cardinality(B(i)) + 1 =< Cardinality(S)
  <2>1. B(i) \cup {i} \in SUBSET S
    BY DEF Below
  <2>2. Cardinality(B(i) \cup {i}) =< Cardinality(S)
    BY <2>1, FS_Subset
  <2> QED  BY <1>2, <2>2
<1>5. ASSUME NEW j \in S, i < j
      PROVE  Cardinality(B(i)) < Cardinality(B(j))
  <2>1. B(i) \cup {i} \in SUBSET B(j)
    <3> HIDE DEF B
    <3>1. \A k \in S : k < i => k < j
      BY <1>0, <1>5
    <3>2. \A k \in B(i) \cup {i} : k \in B(j)
      BY <1>0, <1>5, <3>1
    <3> QED  BY <3>2
  <2>2. Cardinality(B(i) \cup {i}) =< Cardinality(B(j))
    BY <1>1, <2>1, FS_Subset
  <2> HIDE DEF B
  <2> QED  BY <1>1, <1>2, <2>2
<1>6. ASSUME \A j \in S : i =< j
      PROVE  Cardinality(B(i)) = 0
  <2> HIDE DEF B
  <2>1. B(i) = {}
    <3>1. \A k \in S : ~(k < i)
      BY <1>0, <1>6
    <3> QED  BY <1>0, <3>1
  <2> QED  BY <2>1, FS_EmptySet
<1>7. ASSUME \A j \in S : j =< i
      PROVE  Cardinality(B(i)) = Cardinality(S) - 1
  <2> HIDE DEF B
  <2>1. B(i) \cup {i} = S
    <3>1. \A k \in S : k < i \/ k = i
      BY <1>0, <1>7
    <3> QED  BY <1>0, <3>1
  <2> QED  BY <1>1, <1>2, <2>1
<1>8. Cardinality(B(i)) \in 0..(Cardinality(S) - 1)
  <2> HIDE DEF B
  <2> QED  BY <1>1, <1>3, <1>4
<1> QED  BY <1>5, <1>6, <1>7, <1>8

\* Every number of elements is that of the ones below some element.
LEMMA RankTaken ==
  ASSUME NEW S \in SUBSET Nat, IsFiniteSet(S), NEW n \in Nat, Cardinality(S) = n + 1
  PROVE  \A r \in 0..n : \E i \in S : Cardinality(Below(S, i)) = r
<1> DEFINE I == {r \in 0..n : \E i \in S : Cardinality(Below(S, i)) = r}
<1>1. 0 \in I
  <2>1. S # {}
    <3>1. n + 1 # 0
      OBVIOUS
    <3> QED  BY <3>1, FS_EmptySet
  <2>2. PICK i \in S : \A j \in S : i =< j
    BY <2>1, LeastNumber
  <2>3. Cardinality(Below(S, i)) = 0
    BY <2>2, RankGrows
  <2> QED  BY <2>3
<1>2. ASSUME NEW r \in 0..n, r \in I, r # n
      PROVE  r + 1 \in I
  <2>1. PICK i \in S : Cardinality(Below(S, i)) = r
    BY <1>2
  <2> DEFINE above == {j \in S : i < j}
  <2>2. above # {}
    <3>1. SUFFICES ASSUME above = {} PROVE FALSE
      OBVIOUS
    <3>2. \A j \in S : j =< i
      BY <3>1
    <3>3. Cardinality(Below(S, i)) = Cardinality(S) - 1
      BY <3>2, RankGrows
    <3> QED  BY <1>2, <2>1, <3>3
  <2>3. PICK j \in above : \A m \in above : j =< m
    <3>1. above \subseteq Nat
      OBVIOUS
    <3> HIDE DEF above
    <3> QED  BY <2>2, <3>1, LeastNumber
  <2>4. Below(S, j) = Below(S, i) \cup {i} /\ i \notin Below(S, i)
    <3>1. (\A m \in S : m \in Nat) /\ i < j /\ ~(i < i)
      BY <2>3
    <3>2. \A m \in S : m < j => ~(i < m)
      BY <2>3, <3>1
    <3>3. \A m \in S : m < j <=> m < i \/ m = i
      BY <3>1, <3>2
    <3>4. \A m, t : m \in Below(S, t) <=> m \in S /\ m < t
      BY DEF Below
    <3>5. \A m : m \in Below(S, j) <=> m \in Below(S, i) \cup {i}
      BY <3>3, <3>4, Zenon
    <3> QED  BY <3>1, <3>4, <3>5, Zenon
  <2>5. IsFiniteSet(Below(S, i))
    <3>1. Below(S, i) \in SUBSET S
      BY DEF Below
    <3> QED  BY <3>1, FS_Subset
  <2>6. Cardinality(Below(S, j)) = r + 1
    BY <2>1, <2>4, <2>5, FS_AddElement
  <2> QED  BY <1>2, <2>3, <2>6
<1>3. \A r \in 0..n : r \in I
  <2>1. \A r \in 0..n : r \in I /\ r # n => r + 1 \in I
    BY <1>2
  <2> HIDE DEF I
  <2> QED  BY <1>1, <2>1, CountedUp
<1> QED  BY <1>3

\* Where the levels of a name end: in front of it, at its slashes, behind it.
Slashes(s) == {0, Len(s) + 1} \cup {i \in DOMAIN s : s[i] = "/"}

Slash(s, k) == CHOOSE i \in Slashes(s) : Cardinality(Below(Slashes(s), i)) = k - 1

Count(s) == Cardinality(Slashes(s)) - 1

LEMMA SlashIs ==
  ASSUME NEW s \in Seq(STRING)
  PROVE  /\ Count(s) \in Nat \ {0} /\ Len(s) \in Nat
         /\ Slashes(s) \in SUBSET (0..Len(s) + 1) /\ IsFiniteSet(Slashes(s))
         /\ Cardinality(Slashes(s)) = Count(s) + 1
         /\ \A k \in 1..Count(s) + 1 :
              Slash(s, k) \in Slashes(s) /\ Cardinality(Below(Slashes(s), Slash(s, k))) = k - 1
<1> DEFINE S == Slashes(s)
           n == Count(s)
<1>1. Len(s) \in Nat /\ DOMAIN s = 1..Len(s)
  BY LenProperties
<1>2. S \in SUBSET (0..Len(s) + 1) /\ S \in SUBSET Nat
  BY <1>1 DEF Slashes
<1>3. IsFiniteSet(S)
  <2>1. IsFiniteSet(0..Len(s) + 1)
    BY <1>1, FS_Interval
  <2> QED  BY <1>2, <2>1, FS_Subset
<1>4. Cardinality(S) \in Nat /\ Cardinality(S) >= 2
  <2>1. {0, Len(s) + 1} \in SUBSET S
    BY DEF Slashes
  <2>2. Cardinality({0} \cup {Len(s) + 1}) = 2
    <3> DEFINE e == Len(s) + 1
    <3>1. IsFiniteSet({0}) /\ Cardinality({0}) = 1
      BY FS_Singleton
    <3>2. e \notin {0}
      BY <1>1
    <3> HIDE DEF e
    <3>3. Cardinality({0} \cup {e}) = 1 + 1
      BY <3>1, <3>2, FS_AddElement
    <3>4. 1 + 1 = 2
      OBVIOUS
    <3> QED  BY <3>3, <3>4, Zenon DEF e
  <2>3. {0, Len(s) + 1} = {0} \cup {Len(s) + 1}
    OBVIOUS
  <2>4. Cardinality({0, Len(s) + 1}) =< Cardinality(S)
    BY <1>3, <2>1, FS_Subset
  <2> QED  BY <1>3, <2>2, <2>3, <2>4, FS_CardinalityType
<1>5. n \in Nat \ {0} /\ Cardinality(S) = n + 1
  BY <1>4 DEF Count
<1>6. ASSUME NEW k \in 1..n + 1
      PROVE  Slash(s, k) \in S /\ Cardinality(Below(S, Slash(s, k))) = k - 1
  <2>1. k - 1 \in 0..n
    BY <1>5, <1>6
  <2>2. \A r \in 0..n : \E i \in S : Cardinality(Below(S, i)) = r
    <3> HIDE DEF S, n
    <3> QED  BY <1>2, <1>3, <1>5, RankTaken
  <2>3. \E i \in S : Cardinality(Below(S, i)) = k - 1
    BY <2>1, <2>2
  <2> QED  BY <2>3 DEF Slash
<1> QED  BY <1>1, <1>2, <1>3, <1>5, <1>6

\* The ends of the levels follow one another with no slash between them.
LEMMA SlashesAscend ==
  ASSUME NEW s \in Seq(STRING)
  PROVE  /\ Slash(s, 1) = 0 /\ Slash(s, Count(s) + 1) = Len(s) + 1
         /\ \A k \in 1..Count(s) + 1 : Slash(s, k) \in 0..Len(s) + 1
         /\ \A k \in 1..Count(s) :
              /\ Slash(s, k) < Slash(s, k + 1)
              /\ \A i \in Slash(s, k) + 1..Slash(s, k + 1) - 1 : s[i] # "/"
              /\ k # Count(s) => s[Slash(s, k + 1)] = "/" /\ Slash(s, k + 1) =< Len(s)
<1> DEFINE S == Slashes(s)
           n == Count(s)
           l == Len(s)
           R(i) == Cardinality(Below(S, i))
           e == l + 1
<1>1. /\ n \in Nat \ {0} /\ l \in Nat /\ S \in SUBSET (0..l + 1) /\ IsFiniteSet(S)
      /\ Cardinality(S) = n + 1
      /\ \A k \in 1..n + 1 : Slash(s, k) \in S /\ R(Slash(s, k)) = k - 1
  BY SlashIs
<1>2. /\ 0 \in S /\ e \in S /\ DOMAIN s = 1..l
      /\ \A i \in S : i # 0 /\ i # e => s[i] = "/"
      /\ \A i \in 1..l : s[i] = "/" => i \in S
  BY LenProperties DEF Slashes
<1>3. S \in SUBSET Nat
  BY <1>1
<1>4. /\ \A i \in S : R(i) \in 0..n
      /\ \A i, j \in S : i < j => R(i) < R(j)
      /\ R(0) = 0 /\ R(e) = n
  <2>1. \A i \in S : R(i) \in 0..n
    BY <1>1, <1>3, RankGrows
  <2>2. \A i, j \in S : i < j => R(i) < R(j)
    BY <1>1, <1>3, RankGrows
  <2>3. \A i \in S : 0 =< i /\ i =< e
    BY <1>1
  <2>4. R(0) = 0
    BY <1>1, <1>2, <1>3, <2>3, RankGrows
  <2>5. R(e) = (n + 1) - 1
    <3> HIDE DEF e
    <3> QED  BY <1>1, <1>2, <1>3, <2>3, RankGrows
  <2> QED  BY <1>1, <2>1, <2>2, <2>4, <2>5
<1>5. \A i \in S : R(i) \in Nat
  BY <1>1, <1>4
<1>12. e = l + 1
  OBVIOUS
<1>13. \A i \in S : i \in Nat /\ i =< l + 1
  BY <1>1
<1> HIDE DEF S, R, n, l, e
<1>6. \A i, j \in S : R(i) = R(j) => i = j
  BY <1>3, <1>4, <1>5
<1>7. \A i, j \in S : R(i) < R(j) => i < j
  BY <1>3, <1>4, <1>5
<1>8. Slash(s, 1) = 0
  <2>1. Slash(s, 1) \in S /\ R(Slash(s, 1)) = 0
    BY <1>1
  <2> QED  BY <1>2, <1>4, <1>6, <2>1
<1>9. Slash(s, n + 1) = l + 1
  <2> DEFINE m == n + 1
  <2>1. m \in 1..n + 1 /\ m - 1 = n
    BY <1>1
  <2> HIDE DEF m
  <2>2. Slash(s, m) \in S /\ R(Slash(s, m)) = n
    BY <1>1, <2>1
  <2>3. Slash(s, m) = e
    BY <1>2, <1>4, <1>6, <2>2
  <2> QED  BY <1>12, <2>3 DEF m
<1>10. \A k \in 1..n + 1 : Slash(s, k) \in 0..l + 1
  BY <1>1
<1>11. ASSUME NEW k \in 1..n
       PROVE  /\ Slash(s, k) < Slash(s, k + 1)
              /\ \A i \in Slash(s, k) + 1..Slash(s, k + 1) - 1 : s[i] # "/"
              /\ k # n => s[Slash(s, k + 1)] = "/" /\ Slash(s, k + 1) =< l
  <2> DEFINE a == Slash(s, k)
             m == k + 1
             b == Slash(s, m)
  <2>1. k \in 1..n + 1 /\ m \in 1..n + 1 /\ m - 1 = k /\ k - 1 < k /\ k \in Nat
    BY <1>1
  <2> HIDE DEF m
  <2>2. a \in S /\ b \in S /\ R(a) = k - 1 /\ R(b) = k
    BY <1>1, <2>1
  <2>3. a \in Nat /\ b \in Nat /\ a =< l + 1 /\ b =< l + 1
    BY <1>13, <2>2
  <2> HIDE DEF a, b
  <2>4. a < b
    BY <1>7, <2>1, <2>2
  <2>5. ASSUME NEW i \in a + 1..b - 1, s[i] = "/"
        PROVE  FALSE
    <3>1. i \in 1..l /\ a < i /\ i < b
      BY <1>1, <2>3
    <3>2. i \in S
      BY <1>2, <2>5, <3>1
    <3>3. R(a) < R(i) /\ R(i) < R(b) /\ R(i) \in Nat
      BY <1>4, <1>5, <2>2, <3>1, <3>2
    <3> QED  BY <2>2, <3>3
  <2>6. ASSUME k # n
        PROVE  s[b] = "/" /\ b =< l
    <3>1. b # 0
      BY <2>3, <2>4
    <3>2. b # e
      BY <1>4, <2>2, <2>6
    <3> QED  BY <1>1, <1>2, <1>12, <2>2, <2>3, <3>1, <3>2
  <2> QED  BY <2>4, <2>5, <2>6 DEF a, b, m
<1> QED  BY <1>8, <1>9, <1>10, <1>11 DEF n, l

\* The levels are the parts between those ends.
LEMMA LevelsAre ==
  ASSUME NEW s \in Seq(STRING)
  PROVE  /\ Len(Levels(s)) = Count(s) /\ DOMAIN Levels(s) = 1..Count(s)
         /\ \A k \in 1..Count(s) :
              /\ Levels(s)[k] \in Seq(STRING)
              /\ Len(Levels(s)[k]) = Slash(s, k + 1) - Slash(s, k) - 1
              /\ \A i \in 1..Slash(s, k + 1) - Slash(s, k) - 1 :
                   Levels(s)[k][i] = s[Slash(s, k) + i]
<1> DEFINE n == Count(s)
           P(k) == SubSeq(s, Slash(s, k) + 1, Slash(s, k + 1) - 1)
<1>1. Levels(s) = [k \in 1..n |-> P(k)]
  BY DEF Levels, Slash, Slashes, Below, Count
<1>2. n \in Nat /\ Len(s) \in Nat
  BY SlashIs
<1>3. ASSUME NEW k \in 1..n
      PROVE  /\ P(k) \in Seq(STRING)
             /\ Len(P(k)) = Slash(s, k + 1) - Slash(s, k) - 1
             /\ \A i \in 1..Slash(s, k + 1) - Slash(s, k) - 1 : P(k)[i] = s[Slash(s, k) + i]
  <2> DEFINE a == Slash(s, k)
             b == Slash(s, k + 1)
             c == a + 1
             d == b - 1
  <2>1. a \in 0..Len(s) + 1 /\ b \in 0..Len(s) + 1 /\ a < b
    <3>1. k \in 1..n + 1 /\ k + 1 \in 1..n + 1
      BY <1>2
    <3> QED  BY <3>1, SlashesAscend
  <2> HIDE DEF a, b
  <2>2. c \in Nat /\ d \in Nat /\ 1 =< c /\ c =< d + 1 /\ d =< Len(s)
    BY <1>2, <2>1
  <2>3. d + 1 - c = b - a - 1 /\ \A i \in 1..(b - a - 1) : c + i - 1 = a + i
    BY <1>2, <2>1
  <2> HIDE DEF c, d
  <2>4. /\ SubSeq(s, c, d) \in Seq(STRING)
        /\ Len(SubSeq(s, c, d)) = d + 1 - c
        /\ \A i \in 1..(d + 1 - c) : SubSeq(s, c, d)[i] = s[c + i - 1]
    BY <2>2, PartOf
  <2>5. \A i \in 1..(b - a - 1) : SubSeq(s, c, d)[i] = s[a + i]
    BY <2>3, <2>4
  <2> QED  BY <2>3, <2>4, <2>5 DEF a, b, c, d
<1> HIDE DEF P
<1>4. Len(Levels(s)) = n /\ DOMAIN Levels(s) = 1..n
  BY <1>1, <1>2
<1> QED  BY <1>1, <1>3, <1>4 DEF P

-----------------------------------------------------------------------------
(* What is asked of a filter and a name *)

Plain(s, p) ==
  /\ WellFormed(s) /\ Wildless(p)
  /\ \A k \in DOMAIN Levels(s) : Levels(s)[k] # <<>>
  /\ \A k \in DOMAIN Levels(p) : Levels(p)[k] # <<>>
  /\ MultiLevel(s) => Len(Levels(p)) >= Len(Levels(s))

\* A level of the filter matches that of the name, by their places.
Like(s, p, k) ==
  \/ /\ Slash(s, k + 1) - Slash(s, k) = Slash(p, k + 1) - Slash(p, k)
     /\ \A i \in 1..Slash(s, k + 1) - Slash(s, k) - 1 : s[Slash(s, k) + i] = p[Slash(p, k) + i]
  \/ Slash(s, k + 1) = Slash(s, k) + 2 /\ s[Slash(s, k) + 1] = "+"

LEMMA LevelPlace ==
  ASSUME NEW s \in Seq(STRING), NEW k \in 1..Count(s)
  PROVE  /\ Count(s) \in Nat \ {0} /\ Len(s) \in Nat
         /\ Slash(s, k) \in Nat /\ Slash(s, k + 1) \in Nat
         /\ Slash(s, k) < Slash(s, k + 1) /\ Slash(s, k + 1) =< Len(s) + 1
         /\ \A i \in Slash(s, k) + 1..Slash(s, k + 1) - 1 : s[i] # "/"
         /\ k = Count(s) => Slash(s, k + 1) = Len(s) + 1
         /\ k # Count(s) => Slash(s, k + 1) =< Len(s) /\ s[Slash(s, k + 1)] = "/"
         /\ Levels(s)[k] \in Seq(STRING)
         /\ Len(Levels(s)[k]) = Slash(s, k + 1) - Slash(s, k) - 1
         /\ \A i \in 1..Slash(s, k + 1) - Slash(s, k) - 1 : Levels(s)[k][i] = s[Slash(s, k) + i]
<1>1. Count(s) \in Nat \ {0} /\ Len(s) \in Nat
  BY SlashIs
<1> DEFINE m == k + 1
<1>2. k \in 1..Count(s) + 1 /\ m \in 1..Count(s) + 1
  BY <1>1
<1>3. Slash(s, k) \in 0..Len(s) + 1 /\ Slash(s, m) \in 0..Len(s) + 1
  <2> HIDE DEF m
  <2> QED  BY <1>2, SlashesAscend
<1>4. k = Count(s) => Slash(s, k + 1) = Len(s) + 1
  BY SlashesAscend
<1>5. /\ Slash(s, k) < Slash(s, k + 1)
      /\ \A i \in Slash(s, k) + 1..Slash(s, k + 1) - 1 : s[i] # "/"
      /\ k # Count(s) => s[Slash(s, k + 1)] = "/" /\ Slash(s, k + 1) =< Len(s)
  BY SlashesAscend
<1>6. /\ Levels(s)[k] \in Seq(STRING)
      /\ Len(Levels(s)[k]) = Slash(s, k + 1) - Slash(s, k) - 1
      /\ \A i \in 1..Slash(s, k + 1) - Slash(s, k) - 1 : Levels(s)[k][i] = s[Slash(s, k) + i]
  BY LevelsAre
<1>7. Slash(s, k) \in Nat /\ Slash(s, m) \in Nat /\ Slash(s, m) =< Len(s) + 1
  BY <1>1, <1>3
<1> QED  BY <1>1, <1>4, <1>5, <1>6, <1>7

LEMMA OneElement ==
  ASSUME NEW S, NEW e \in S
  PROVE  <<e>> \in Seq(S) /\ Len(<<e>>) = 1 /\ <<e>>[1] = e
OBVIOUS

LEMMA LikeIs ==
  ASSUME NEW s \in Seq(STRING), NEW p \in Seq(STRING), NEW k \in 1..Count(s), k \in 1..Count(p)
  PROVE  Levels(s)[k] \in {Levels(p)[k], <<"+">>} <=> Like(s, p, k)
<1> DEFINE a == Slash(s, k)
           b == Slash(s, k + 1)
           c == Slash(p, k)
           d == Slash(p, k + 1)
           f == Levels(s)[k]
           g == Levels(p)[k]
<1>1. /\ a \in Nat /\ b \in Nat /\ a < b
      /\ f \in Seq(STRING) /\ Len(f) = b - a - 1 /\ \A i \in 1..b - a - 1 : f[i] = s[a + i]
  BY LevelPlace
<1>2. /\ c \in Nat /\ d \in Nat /\ c < d
      /\ g \in Seq(STRING) /\ Len(g) = d - c - 1 /\ \A i \in 1..d - c - 1 : g[i] = p[c + i]
  BY LevelPlace
<1>d. Like(s, p, k) <=>
        \/ b - a = d - c /\ \A i \in 1..b - a - 1 : s[a + i] = p[c + i]
        \/ b = a + 2 /\ s[a + 1] = "+"
  BY DEF Like
<1> HIDE DEF a, b, c, d, f, g
<1>3. f = g <=> b - a = d - c /\ \A i \in 1..b - a - 1 : s[a + i] = p[c + i]
  <2>1. f = g <=> Len(f) = Len(g) /\ \A i \in 1..Len(f) : f[i] = g[i]
    <3>1. ASSUME Len(f) = Len(g), \A i \in 1..Len(f) : f[i] = g[i] PROVE f = g
      BY <1>1, <1>2, <3>1, SameParts
    <3> QED  BY <3>1
  <2>2. Len(f) = Len(g) <=> b - a = d - c
    BY <1>1, <1>2
  <2>3. ASSUME b - a = d - c
        PROVE  (\A i \in 1..Len(f) : f[i] = g[i]) <=> \A i \in 1..b - a - 1 : s[a + i] = p[c + i]
    BY <1>1, <1>2, <2>3
  <2> QED  BY <2>1, <2>2, <2>3
<1>4. f = <<"+">> <=> b = a + 2 /\ s[a + 1] = "+"
  <2> DEFINE S == STRING \cup {"+"}
  <2>0. <<"+">> \in Seq(S) /\ Len(<<"+">>) = 1 /\ <<"+">>[1] = "+"
    BY OneElement
  <2>3. f \in Seq(S)
    <3>1. f \in [1..Len(f) -> STRING] /\ Len(f) \in Nat
      BY <1>1, LenProperties
    <3>2. f = [i \in 1..Len(f) |-> f[i]] /\ \A i \in 1..Len(f) : f[i] \in S
      BY <3>1
    <3> QED  BY <3>1, <3>2, TypedList
  <2>1. ASSUME f = <<"+">> PROVE b = a + 2 /\ s[a + 1] = "+"
    <3>1. Len(f) = 1 /\ f[1] = "+"
      BY <2>0, <2>1
    <3>2. b - a - 1 = 1
      BY <1>1, <3>1
    <3>3. b = a + 2 /\ 1 \in 1..b - a - 1
      BY <1>1, <3>2
    <3> QED  BY <1>1, <3>1, <3>3
  <2>2. ASSUME b = a + 2, s[a + 1] = "+" PROVE f = <<"+">>
    <3>1. b - a - 1 = 1
      BY <1>1, <2>2
    <3>2. Len(f) = 1 /\ f[1] = "+"
      BY <1>1, <2>2, <3>1
    <3> DEFINE q == <<"+">>
    <3>3. q \in Seq(S) /\ Len(q) = 1 /\ q[1] = "+"
      BY <2>0
    <3> HIDE DEF q, S
    <3>4. Len(f) = Len(q) /\ \A i \in 1..Len(f) : f[i] = q[i]
      BY <3>2, <3>3
    <3>5. f = q
      BY <2>3, <3>3, <3>4, SameParts
    <3> QED  BY <3>5 DEF q
  <2> QED  BY <2>1, <2>2
<1>5. f \in {g, <<"+">>} <=> f = g \/ f = <<"+">>
  OBVIOUS
<1>6. f \in {g, <<"+">>} <=> Like(s, p, k)
  BY <1>d, <1>3, <1>4, <1>5, Zenon
<1> QED  BY <1>6 DEF f, g

\* How many levels of the filter are compared.
Given(s) == IF MultiLevel(s) THEN Count(s) - 1 ELSE Count(s)

LEMMA MatchesIs ==
  ASSUME NEW s \in Seq(STRING), NEW p \in Seq(STRING)
  PROVE  Matches(s, p) <=>
           /\ IF MultiLevel(s) THEN Count(p) >= Given(s) ELSE Count(p) = Given(s)
           /\ \A k \in 1..Given(s) : Like(s, p, k)
<1>1. Len(Levels(s)) = Count(s) /\ Len(Levels(p)) = Count(p)
  BY LevelsAre
<1>2. Count(s) \in Nat \ {0} /\ Count(p) \in Nat \ {0}
  BY SlashIs
<1>3. Matches(s, p) <=>
        /\ IF MultiLevel(s) THEN Count(p) >= Given(s) ELSE Count(p) = Given(s)
        /\ \A k \in 1..Given(s) : Levels(s)[k] \in {Levels(p)[k], <<"+">>}
  BY <1>1, Zenon DEF Matches, Given
<1>4. Given(s) \in Nat /\ Given(s) =< Count(s)
  BY <1>2 DEF Given
<1>5. ASSUME IF MultiLevel(s) THEN Count(p) >= Given(s) ELSE Count(p) = Given(s),
             NEW k \in 1..Given(s)
      PROVE  Levels(s)[k] \in {Levels(p)[k], <<"+">>} <=> Like(s, p, k)
  <2>1. Count(p) >= Given(s)
    BY <1>2, <1>4, <1>5
  <2>2. k \in 1..Count(s) /\ k \in 1..Count(p)
    BY <1>2, <1>4, <2>1
  <2> QED  BY <2>2, LikeIs
<1> QED  BY <1>3, <1>5, Zenon

\* The levels of a well-formed filter and of a name without wildcards.
LEMMA PlainLevel ==
  ASSUME NEW s \in Seq(STRING), NEW p \in Seq(STRING), Plain(s, p),
         NEW k \in 1..Count(s), k \in 1..Count(p)
  PROVE  /\ Slash(s, k) + 1 < Slash(s, k + 1)
         /\ \A i \in Slash(s, k) + 1..Slash(s, k + 1) - 1 :
              /\ s[i] \in {"+", "#"} => Slash(s, k + 1) = Slash(s, k) + 2
              /\ s[i] = "#" => k = Count(s)
         /\ Slash(p, k) + 1 < Slash(p, k + 1)
         /\ \A i \in 1..Len(p) : p[i] # "+" /\ p[i] # "#"
<1>1. k \in DOMAIN Levels(s) /\ k \in DOMAIN Levels(p)
  BY LevelsAre
<1> DEFINE a == Slash(s, k)
           b == Slash(s, k + 1)
           c == Slash(p, k)
           d == Slash(p, k + 1)
           f == Levels(s)[k]
           g == Levels(p)[k]
<1>2. /\ a \in Nat /\ b \in Nat /\ a < b
      /\ f \in Seq(STRING) /\ Len(f) = b - a - 1 /\ \A i \in 1..b - a - 1 : f[i] = s[a + i]
  BY LevelPlace
<1>3. /\ c \in Nat /\ d \in Nat /\ c < d /\ g \in Seq(STRING) /\ Len(g) = d - c - 1
  BY LevelPlace
<1>4. f # <<>> /\ g # <<>>
  BY <1>1 DEF Plain
<1>5. \A i \in DOMAIN f : /\ f[i] \in {"+", "#"} => Len(f) = 1
                          /\ f[i] = "#" => k = Len(Levels(s))
  BY <1>1 DEF Plain, WellFormed
<1>6. Len(Levels(s)) = Count(s)
  BY LevelsAre
<1>7. \A i \in 1..Len(p) : p[i] # "+" /\ p[i] # "#"
  BY LenProperties DEF Plain, Wildless
<1> HIDE DEF a, b, c, d, f, g
<1>8. Len(f) # 0 /\ Len(g) # 0 /\ DOMAIN f = 1..Len(f)
  BY <1>2, <1>3, <1>4, EmptySeq, LenProperties
<1>9. a + 1 < b /\ c + 1 < d
  BY <1>2, <1>3, <1>8
<1>10. ASSUME NEW i \in a + 1..b - 1
       PROVE  /\ s[i] \in {"+", "#"} => b = a + 2
              /\ s[i] = "#" => k = Count(s)
  <2> DEFINE j == i - a
  <2>1. j \in 1..b - a - 1 /\ a + j = i
    BY <1>2, <1>10
  <2> HIDE DEF j
  <2>2. j \in DOMAIN f /\ f[j] = s[i]
    BY <1>2, <1>8, <2>1
  <2>3. (s[i] \in {"+", "#"} => Len(f) = 1) /\ (s[i] = "#" => k = Len(Levels(s)))
    BY <1>5, <2>2, Zenon
  <2>4. Len(f) = 1 => b = a + 2
    <3>1. \A n \in Nat : n = b - a - 1 /\ n = 1 => b = a + 2
      BY <1>2
    <3>2. b - a - 1 \in Nat
      BY <1>2
    <3> QED  BY <1>2, <3>1, <3>2
  <2> QED  BY <1>6, <2>3, <2>4
<1> QED  BY <1>7, <1>9, <1>10 DEF a, b, c, d

-----------------------------------------------------------------------------
(* How far the walk has come *)

\* The walk is in level k of both, i characters into the filter and j into the
\* name; the levels before match.
Reached(s, p, i, j, k) ==
  /\ k \in 1..Count(s) /\ k \in 1..Count(p)
  /\ i \in Nat /\ Slash(s, k) =< i /\ i < Slash(s, k + 1)
  /\ j \in Nat /\ Slash(p, k) =< j /\ j < Slash(p, k + 1)
  /\ \A m \in 1..k - 1 : Like(s, p, m)

\* Within the level the characters are alike so far.
Here(s, p, i, j, k) ==
  /\ i - Slash(s, k) = j - Slash(p, k)
  /\ \A m \in 1..i - Slash(s, k) : s[Slash(s, k) + m] = p[Slash(p, k) + m]

\* Or it was skipped by a "+".
Skipped(s, p, i, j, k) ==
  /\ Slash(s, k + 1) = Slash(s, k) + 2 /\ s[Slash(s, k) + 1] = "+"
  /\ i = Slash(s, k) + 1 /\ j = Slash(p, k + 1) - 1

Walk(s, p, i, j, k) ==
  Reached(s, p, i, j, k) /\ (Here(s, p, i, j, k) \/ Skipped(s, p, i, j, k))

\* What a level k looks like, from a to b in the filter and c to d in the name:
\* its places, and its characters.
Extent(s, p, k, a, b, c, d) ==
  /\ Count(s) \in Nat /\ Count(p) \in Nat /\ Len(s) \in Nat /\ Len(p) \in Nat
  /\ k \in Nat /\ 1 =< k /\ k =< Count(s) /\ k =< Count(p)
  /\ a \in Nat /\ b \in Nat /\ a + 1 < b /\ b =< Len(s) + 1
  /\ c \in Nat /\ d \in Nat /\ c + 1 < d /\ d =< Len(p) + 1
  /\ k = Count(s) => b = Len(s) + 1
  /\ k # Count(s) => b =< Len(s)
  /\ k = Count(p) => d = Len(p) + 1
  /\ k # Count(p) => d =< Len(p)
  /\ MultiLevel(s) => Count(p) >= Count(s)

InLevel(s, p, k, a, b, c, d) ==
  /\ Extent(s, p, k, a, b, c, d)
  /\ \A i \in a + 1..b - 1 :
       /\ s[i] # "/"
       /\ s[i] = "+" => b = a + 2
       /\ s[i] = "#" => b = a + 2 /\ k = Count(s)
  /\ \A i \in c + 1..d - 1 : p[i] # "/"
  /\ \A i \in 1..Len(p) : p[i] # "+" /\ p[i] # "#"
  /\ k # Count(s) => s[b] = "/"
  /\ k # Count(p) => p[d] = "/"

LEMMA LevelIs ==
  ASSUME NEW s \in Seq(STRING), NEW p \in Seq(STRING), Plain(s, p),
         NEW k \in 1..Count(s), k \in 1..Count(p)
  PROVE  InLevel(s, p, k, Slash(s, k), Slash(s, k + 1), Slash(p, k), Slash(p, k + 1))
<1> DEFINE a == Slash(s, k)
           b == Slash(s, k + 1)
           c == Slash(p, k)
           d == Slash(p, k + 1)
<1>1. /\ Count(s) \in Nat /\ Len(s) \in Nat /\ a \in Nat /\ b \in Nat /\ b =< Len(s) + 1
      /\ \A i \in a + 1..b - 1 : s[i] # "/"
      /\ k = Count(s) => b = Len(s) + 1
      /\ k # Count(s) => b =< Len(s) /\ s[b] = "/"
  BY LevelPlace
<1>2. /\ Count(p) \in Nat /\ Len(p) \in Nat /\ c \in Nat /\ d \in Nat /\ d =< Len(p) + 1
      /\ \A i \in c + 1..d - 1 : p[i] # "/"
      /\ k = Count(p) => d = Len(p) + 1
      /\ k # Count(p) => d =< Len(p) /\ p[d] = "/"
  BY LevelPlace
<1>3. /\ a + 1 < b
      /\ \A i \in a + 1..b - 1 :
           /\ s[i] \in {"+", "#"} => b = a + 2
           /\ s[i] = "#" => k = Count(s)
      /\ c + 1 < d
      /\ \A i \in 1..Len(p) : p[i] # "+" /\ p[i] # "#"
  BY PlainLevel
<1>4. MultiLevel(s) => Count(p) >= Count(s)
  BY LevelsAre DEF Plain
<1>5. k \in Nat /\ 1 =< k /\ k =< Count(s) /\ k =< Count(p)
  BY <1>1, <1>2
<1> HIDE DEF a, b, c, d
<1>6. \A i \in a + 1..b - 1 :
        /\ s[i] # "/"
        /\ s[i] = "+" => b = a + 2
        /\ s[i] = "#" => b = a + 2 /\ k = Count(s)
  BY <1>1, <1>3, Zenon
<1>7. Extent(s, p, k, a, b, c, d)
  BY <1>1, <1>2, <1>3, <1>4, <1>5 DEF Extent
<1>8. InLevel(s, p, k, a, b, c, d)
  BY <1>1, <1>2, <1>3, <1>6, <1>7 DEF InLevel
<1> QED  BY <1>8 DEF a, b, c, d

\* The walk in terms of the places of its level.
Within(i, j, a, b, c, d) ==
  i \in Nat /\ a =< i /\ i < b /\ j \in Nat /\ c =< j /\ j < d

Placed(s, p, i, j, a, b, c, d) ==
  /\ Within(i, j, a, b, c, d)
  /\ \/ i - a = j - c /\ \A m \in 1..i - a : s[a + m] = p[c + m]
     \/ b = a + 2 /\ s[a + 1] = "+" /\ i = a + 1 /\ j = d - 1

LEMMA WalkIs ==
  ASSUME NEW s, NEW p, NEW i, NEW j, NEW k
  PROVE  Walk(s, p, i, j, k) <=>
           /\ k \in 1..Count(s) /\ k \in 1..Count(p)
           /\ \A m \in 1..k - 1 : Like(s, p, m)
           /\ Placed(s, p, i, j, Slash(s, k), Slash(s, k + 1), Slash(p, k), Slash(p, k + 1))
BY Zenon DEF Walk, Reached, Here, Skipped, Placed, Within

\* The walk begins in the first levels.
LEMMA WalkBegins ==
  ASSUME NEW s \in Seq(STRING), NEW p \in Seq(STRING)
  PROVE  Walk(s, p, 0, 0, 1)
<1>1. 1 \in 1..Count(s) /\ 1 \in 1..Count(p)
  BY SlashIs
<1>2. Slash(s, 1) = 0 /\ Slash(p, 1) = 0 /\ 0 < Slash(s, 1 + 1) /\ 0 < Slash(p, 1 + 1)
  BY <1>1, SlashesAscend
<1>3. \A m \in 1..1 - 1 : Like(s, p, m)
  OBVIOUS
<1>4. Placed(s, p, 0, 0, 0, Slash(s, 1 + 1), 0, Slash(p, 1 + 1))
  BY <1>2 DEF Placed, Within
<1> QED  BY <1>1, <1>2, <1>3, <1>4, WalkIs

\* At the end of a level of both, the level matches.
LEMMA LevelEnds ==
  ASSUME NEW s \in Seq(STRING), NEW p \in Seq(STRING), Plain(s, p),
         NEW i, NEW j, NEW k, Walk(s, p, i, j, k),
         i + 1 = Slash(s, k + 1), j + 1 = Slash(p, k + 1)
  PROVE  \A m \in 1..k : Like(s, p, m)
<1> DEFINE a == Slash(s, k)
           b == Slash(s, k + 1)
           c == Slash(p, k)
           d == Slash(p, k + 1)
<1>1. /\ k \in 1..Count(s) /\ k \in 1..Count(p)
      /\ \A m \in 1..k - 1 : Like(s, p, m)
      /\ Placed(s, p, i, j, a, b, c, d)
  BY WalkIs
<1>2. InLevel(s, p, k, a, b, c, d)
  BY <1>1, LevelIs
<1>3. Like(s, p, k) <=>
        \/ b - a = d - c /\ \A m \in 1..b - a - 1 : s[a + m] = p[c + m]
        \/ b = a + 2 /\ s[a + 1] = "+"
  BY DEF Like
<1>4. i + 1 = b /\ j + 1 = d
  OBVIOUS
<1> HIDE DEF a, b, c, d
<1>5. Like(s, p, k)
  <2>1. CASE i - a = j - c /\ \A m \in 1..i - a : s[a + m] = p[c + m]
    <3>1. b - a = d - c /\ b - a - 1 = i - a
      BY <1>1, <1>2, <1>4, <2>1 DEF InLevel, Placed, Extent, Within
    <3> QED  BY <1>3, <2>1, <3>1
  <2>2. CASE b = a + 2 /\ s[a + 1] = "+" /\ i = a + 1 /\ j = d - 1
    BY <1>3, <2>2
  <2> QED  BY <1>1, <2>1, <2>2 DEF Placed
<1>6. \A m \in 1..k : m \in 1..k - 1 \/ m = k
  BY <1>2 DEF InLevel, Extent
<1> QED  BY <1>1, <1>5, <1>6

\* Within a level, a character that differs from that of the name and is no
\* wildcard, or the end of one of the two levels, leaves the level unmatched.
LEMMA LevelUnlike ==
  ASSUME NEW s \in Seq(STRING), NEW p \in Seq(STRING), Plain(s, p),
         NEW i, NEW j, NEW k, Walk(s, p, i, j, k), Here(s, p, i, j, k),
         \/ i + 1 = Slash(s, k + 1) /\ j + 1 # Slash(p, k + 1)
         \/ i + 1 # Slash(s, k + 1) /\ j + 1 = Slash(p, k + 1) /\ s[i + 1] # "+"
         \/ i + 1 # Slash(s, k + 1) /\ j + 1 # Slash(p, k + 1)
              /\ s[i + 1] # p[j + 1] /\ s[i + 1] # "+"
  PROVE  ~Like(s, p, k)
<1> DEFINE a == Slash(s, k)
           b == Slash(s, k + 1)
           c == Slash(p, k)
           d == Slash(p, k + 1)
<1>1. /\ k \in 1..Count(s) /\ k \in 1..Count(p) /\ Placed(s, p, i, j, a, b, c, d)
  BY WalkIs
<1>2. InLevel(s, p, k, a, b, c, d)
  BY <1>1, LevelIs
<1>3. Like(s, p, k) <=>
        \/ b - a = d - c /\ \A m \in 1..b - a - 1 : s[a + m] = p[c + m]
        \/ b = a + 2 /\ s[a + 1] = "+"
  BY DEF Like
<1>4. i - a = j - c /\ \A m \in 1..i - a : s[a + m] = p[c + m]
  BY DEF Here
<1>5. \/ i + 1 = b /\ j + 1 # d
      \/ i + 1 # b /\ j + 1 = d /\ s[i + 1] # "+"
      \/ i + 1 # b /\ j + 1 # d /\ s[i + 1] # p[j + 1] /\ s[i + 1] # "+"
  OBVIOUS
<1> HIDE DEF a, b, c, d
<1>6. /\ a \in Nat /\ b \in Nat /\ c \in Nat /\ d \in Nat /\ i \in Nat /\ j \in Nat
      /\ a + 1 < b /\ c + 1 < d /\ a =< i /\ i < b /\ c =< j /\ j < d
      /\ b =< Len(s) + 1 /\ d =< Len(p) + 1 /\ Len(p) \in Nat
      /\ \A m \in 1..Len(p) : p[m] # "+"
  BY <1>1, <1>2 DEF InLevel, Placed, Extent, Within
<1>7. ASSUME b = a + 2, s[a + 1] = "+"
      PROVE  FALSE
  <2>1. i = a \/ i = a + 1
    BY <1>6, <1>7
  <2>2. CASE i = a
    <3>1. i + 1 # b /\ s[i + 1] = "+"
      BY <1>6, <1>7, <2>2
    <3> QED  BY <1>5, <3>1
  <2>3. CASE i = a + 1
    <3>1. 1 \in 1..i - a /\ c + 1 \in 1..Len(p)
      BY <1>6, <2>3
    <3>2. s[a + 1] = p[c + 1]
      BY <1>4, <3>1
    <3> QED  BY <1>6, <1>7, <3>1, <3>2
  <2> QED  BY <2>1, <2>2, <2>3
<1>8. ASSUME b - a = d - c, \A m \in 1..b - a - 1 : s[a + m] = p[c + m]
      PROVE  FALSE
  <2>1. i + 1 # b /\ j + 1 # d /\ s[i + 1] # p[j + 1]
    <3>1. i + 1 = b <=> j + 1 = d
      BY <1>4, <1>6, <1>8
    <3> QED  BY <1>5, <3>1
  <2> DEFINE m == i + 1 - a
  <2>2. m \in 1..b - a - 1 /\ a + m = i + 1 /\ c + m = j + 1
    BY <1>4, <1>6, <1>8, <2>1
  <2> HIDE DEF m
  <2> QED  BY <1>8, <2>1, <2>2
<1> QED  BY <1>3, <1>7, <1>8

\* In the last level of a filter that ends with "#" there is nothing else.
LEMMA LastLevel ==
  ASSUME NEW s \in Seq(STRING), NEW p \in Seq(STRING), Plain(s, p),
         NEW i, NEW j, NEW k, Walk(s, p, i, j, k), MultiLevel(s), k = Count(s)
  PROVE  i = Slash(s, k) /\ i + 1 = Len(s) /\ s[i + 1] = "#"
<1> DEFINE a == Slash(s, k)
           b == Slash(s, k + 1)
           c == Slash(p, k)
           d == Slash(p, k + 1)
<1>1. k \in 1..Count(s) /\ k \in 1..Count(p) /\ \A m \in 1..k - 1 : Like(s, p, m)
  BY WalkIs
<1>2. InLevel(s, p, k, a, b, c, d)
  BY <1>1, LevelIs
<1>3. Placed(s, p, i, j, a, b, c, d)
  BY WalkIs
<1>b. Extent(s, p, k, a, b, c, d) /\ Within(i, j, a, b, c, d)
  BY <1>2, <1>3 DEF InLevel, Placed
<1> USE DEF InLevel, Extent, Placed, Within
<1> HIDE DEF a, b, c, d
<1>4. b = Len(s) + 1 /\ s[Len(s)] = "#"
  BY <1>2 DEF MultiLevel
<1>5. Len(s) \in a + 1..b - 1
  BY <1>b, <1>4
<1>6. b = a + 2
  BY <1>2, <1>4, <1>5
<1>7. i = a
  <2>1. ASSUME i = a + 1 PROVE FALSE
    <3>1. a + 1 = Len(s) /\ 1 \in 1..i - a /\ c + 1 \in 1..Len(p)
      BY <1>b, <1>4, <1>6, <2>1
    <3>3. s[a + 1] = "#"
      BY <1>4, <3>1
    <3>2. CASE i - a = j - c /\ \A m \in 1..i - a : s[a + m] = p[c + m]
      <4>1. s[a + 1] = p[c + 1]
        BY <3>1, <3>2
      <4> QED  BY <1>2, <3>1, <3>3, <4>1
    <3>4. s[a + 1] # "+"
      BY <3>3
    <3> QED  BY <1>3, <3>2, <3>4, Zenon
  <2>2. i # a + 1
    BY <2>1
  <2>3. i \in Nat /\ a \in Nat /\ a =< i /\ i < a + 2
    BY <1>b, <1>6
  <2> QED  BY <2>2, <2>3
<1>8. i + 1 = Len(s)
  BY <1>b, <1>4, <1>6, <1>7
<1> QED  BY <1>4, <1>7, <1>8 DEF a

\* The shortcut for "/#" is not taken.
LEMMA ShortcutUntaken ==
  ASSUME NEW s \in Seq(STRING), NEW p \in Seq(STRING), Plain(s, p),
         NEW i, NEW j, NEW k, Walk(s, p, i, j, k)
  PROVE  ~(i = Len(s) - 3 /\ j = Len(p) - 1 /\ s[i + 2] = "/" /\ s[i + 3] = "#")
<1>a. SUFFICES ASSUME i = Len(s) - 3 /\ j = Len(p) - 1, s[i + 2] = "/", s[i + 3] = "#"
               PROVE  FALSE
  OBVIOUS
<1>c. i = Len(s) - 3 /\ j = Len(p) - 1
  BY <1>a
<1> DEFINE a == Slash(s, k)
           b == Slash(s, k + 1)
           c == Slash(p, k)
           d == Slash(p, k + 1)
<1>1. k \in 1..Count(s) /\ k \in 1..Count(p) /\ \A m \in 1..k - 1 : Like(s, p, m)
  BY WalkIs
<1>2. InLevel(s, p, k, a, b, c, d)
  BY <1>1, LevelIs
<1>3. Placed(s, p, i, j, a, b, c, d)
  BY WalkIs
<1>b. Extent(s, p, k, a, b, c, d) /\ Within(i, j, a, b, c, d)
  BY <1>2, <1>3 DEF InLevel, Placed
<1> USE DEF InLevel, Extent, Placed, Within
<1> DEFINE l == k + 1
           e == Slash(s, l + 1)
           g == Slash(p, l + 1)
<1>4. ASSUME l \in 1..Count(s), l \in 1..Count(p)
      PROVE  InLevel(s, p, l, b, e, d, g)
  <2> HIDE DEF l
  <2>1. InLevel(s, p, l, Slash(s, l), Slash(s, l + 1), Slash(p, l), Slash(p, l + 1))
    BY <1>4, LevelIs
  <2> QED  BY <2>1 DEF l
<1>5. l = k + 1
  OBVIOUS
<1> HIDE DEF a, b, c, d, e, g, l
<1>6. MultiLevel(s)
  <2>1. i + 3 = Len(s)
    BY <1>b, <1>c
  <2> QED  BY <1>a, <2>1 DEF MultiLevel
<1>7. b = i + 1 \/ b = i + 2
  <2>1. ~(i + 2 \in a + 1..b - 1)
    BY <1>2, <1>a
  <2> QED  BY <1>b, <2>1
<1>8. k # Count(s)
  BY <1>b, <1>c, <1>7
<1>9. l \in 1..Count(s) /\ l \in 1..Count(p) /\ k # Count(p)
  BY <1>b, <1>5, <1>6, <1>8
<1>10. InLevel(s, p, l, b, e, d, g)
  BY <1>4, <1>9
<1>11. CASE b = i + 1
  <2>1. i + 2 \in b + 1..e - 1
    BY <1>b, <1>10, <1>11
  <2> QED  BY <1>a, <1>10, <2>1
<1>12. CASE b = i + 2
  <2>1. d = Len(p)
    <3>1. d =< Len(p)
      BY <1>b, <1>9
    <3> QED  BY <1>b, <1>c, <3>1
  <2>2. d + 1 < g /\ g =< Len(p) + 1 /\ g \in Nat
    BY <1>10
  <2> QED  BY <1>b, <2>1, <2>2
<1> QED  BY <1>7, <1>11, <1>12

\* A character that is the same in both takes the walk on.
LEMMA WalkOn ==
  ASSUME NEW s \in Seq(STRING), NEW p \in Seq(STRING), Plain(s, p),
         NEW i, NEW j, NEW k, Walk(s, p, i, j, k), i < Len(s), j < Len(p)
  PROVE  s[i + 1] = p[j + 1] => \E m : Walk(s, p, i + 1, j + 1, m)
<1>a. SUFFICES ASSUME s[i + 1] = p[j + 1]
               PROVE  \E m : Walk(s, p, i + 1, j + 1, m)
  OBVIOUS
<1> DEFINE a == Slash(s, k)
           b == Slash(s, k + 1)
           c == Slash(p, k)
           d == Slash(p, k + 1)
<1>1. k \in 1..Count(s) /\ k \in 1..Count(p) /\ \A m \in 1..k - 1 : Like(s, p, m)
  BY WalkIs
<1>2. InLevel(s, p, k, a, b, c, d)
  BY <1>1, LevelIs
<1>3. Placed(s, p, i, j, a, b, c, d)
  BY WalkIs
<1>b. Extent(s, p, k, a, b, c, d) /\ Within(i, j, a, b, c, d)
  BY <1>2, <1>3 DEF InLevel, Placed
<1> USE DEF InLevel, Extent, Placed, Within
<1>4. CASE i + 1 = b
  <2> DEFINE l == k + 1
             e == Slash(s, l + 1)
             g == Slash(p, l + 1)
  <2>1. k # Count(s) /\ s[i + 1] = "/"
    <3> HIDE DEF a, b, c, d
    <3>1. k # Count(s)
      BY <1>b, <1>4
    <3> QED  BY <1>2, <1>4, <3>1
  <2>2. j + 1 = d /\ k # Count(p)
    <3> HIDE DEF a, b, c, d
    <3>1. ~(j + 1 \in c + 1..d - 1)
      BY <1>2, <1>a, <2>1
    <3>2. j + 1 = d
      BY <1>b, <3>1
    <3> QED  BY <1>b, <3>2
  <2>3. \A m \in 1..k : Like(s, p, m)
    BY <1>4, <2>2, LevelEnds
  <2>4. l \in 1..Count(s) /\ l \in 1..Count(p) /\ \A m \in 1..l - 1 : Like(s, p, m)
    <3> HIDE DEF a, b, c, d
    <3>1. l \in 1..Count(s) /\ l \in 1..Count(p) /\ l - 1 = k
      BY <1>2, <2>1, <2>2
    <3> QED  BY <2>3, <3>1
  <2>5. InLevel(s, p, l, b, e, d, g)
    <3> HIDE DEF l
    <3>1. InLevel(s, p, l, Slash(s, l), Slash(s, l + 1), Slash(p, l), Slash(p, l + 1))
      BY <2>4, LevelIs
    <3> QED  BY <3>1 DEF l
  <2>6. Placed(s, p, i + 1, j + 1, b, e, d, g)
    <3> HIDE DEF a, b, c, d, e, g
    <3>1. b \in Nat /\ d \in Nat /\ e \in Nat /\ g \in Nat /\ b < e /\ d < g
      BY <2>5
    <3>2. b - b = d - d /\ \A m \in 1..b - b : s[b + m] = p[d + m]
      BY <3>1
    <3>3. Placed(s, p, b, d, b, e, d, g)
      BY <3>1, <3>2
    <3> QED  BY <1>4, <2>2, <3>3
  <2>7. Walk(s, p, i + 1, j + 1, l)
    BY <2>4, <2>6, WalkIs
  <2> QED  BY <2>7
<1>5. CASE i + 1 # b
  <2>1. Placed(s, p, i + 1, j + 1, a, b, c, d)
    <3> HIDE DEF a, b, c, d
    <3>1. i + 1 \in a + 1..b - 1
      BY <1>b, <1>5
    <3>2. p[j + 1] # "/"
      BY <1>2, <1>a, <3>1
    <3>3. j + 1 # d
      <4>1. ASSUME j + 1 = d PROVE k # Count(p)
        BY <1>b, <4>1
      <4> QED  BY <1>2, <3>2, <4>1
    <3>4. i - a = j - c /\ \A m \in 1..i - a : s[a + m] = p[c + m]
      <4>1. ~(b = a + 2 /\ i = a + 1)
        BY <1>b, <1>5
      <4> QED  BY <1>3, <4>1, Zenon
    <3>5. \A m \in 1..(i + 1) - a : m \in 1..i - a \/ (a + m = i + 1 /\ c + m = j + 1)
      BY <1>b, <3>4
    <3>6. \A m \in 1..(i + 1) - a : s[a + m] = p[c + m]
      BY <1>a, <3>4, <3>5
    <3>7. Within(i + 1, j + 1, a, b, c, d)
      BY <1>b, <1>5, <3>3
    <3>8. (i + 1) - a = (j + 1) - c
      BY <1>b, <3>4
    <3> QED  BY <3>6, <3>7, <3>8, Zenon
  <2>2. Walk(s, p, i + 1, j + 1, k)
    BY <1>1, <2>1, WalkIs
  <2> QED  BY <2>2
<1> QED  BY <1>4, <1>5

\* A "+" takes it to the end of the level.
LEMMA WalkSkips ==
  ASSUME NEW s \in Seq(STRING), NEW p \in Seq(STRING), Plain(s, p),
         NEW i, NEW j, NEW k, Walk(s, p, i, j, k),
         i < Len(s), j < Len(p), NEW e \in j..Len(p)
  PROVE  /\ s[i + 1] = "+"
         /\ e = Len(p) \/ p[e + 1] = "/"
         /\ \A q \in j..e - 1 : ~(q = Len(p) \/ p[q + 1] = "/")
         => Walk(s, p, i + 1, e, k)
<1>a. SUFFICES ASSUME s[i + 1] = "+", e = Len(p) \/ p[e + 1] = "/",
                      \A q \in j..e - 1 : ~(q = Len(p) \/ p[q + 1] = "/")
               PROVE  Walk(s, p, i + 1, e, k)
  OBVIOUS
<1> DEFINE a == Slash(s, k)
           b == Slash(s, k + 1)
           c == Slash(p, k)
           d == Slash(p, k + 1)
<1>1. k \in 1..Count(s) /\ k \in 1..Count(p) /\ \A m \in 1..k - 1 : Like(s, p, m)
  BY WalkIs
<1>2. InLevel(s, p, k, a, b, c, d)
  BY <1>1, LevelIs
<1>3. Placed(s, p, i, j, a, b, c, d)
  BY WalkIs
<1>b. Extent(s, p, k, a, b, c, d) /\ Within(i, j, a, b, c, d)
  BY <1>2, <1>3 DEF InLevel, Placed
<1> USE DEF InLevel, Extent, Placed, Within
<1>4. Placed(s, p, i + 1, e, a, b, c, d)
  <2> HIDE DEF a, b, c, d
  <2>1. i + 1 # b
    <3>1. ASSUME i + 1 = b PROVE k # Count(s)
      BY <1>b, <3>1
    <3> QED  BY <1>2, <1>a, <3>1
  <2>2. b = a + 2 /\ i = a
    <3>1. i + 1 \in a + 1..b - 1
      BY <1>b, <2>1
    <3>2. b = a + 2
      BY <1>2, <1>a, <3>1
    <3> QED  BY <1>b, <2>1, <3>2
  <2>3. j = c
    <3>1. i - a = j - c
      <4>1. i # a + 1
        BY <1>b, <2>2
      <4> QED  BY <1>3, <4>1, Zenon
    <3> QED  BY <1>b, <2>2, <3>1
  <2>4. e = d - 1
    <3>1. ASSUME e < d - 1 PROVE FALSE
      <4>1. e + 1 \in c + 1..d - 1 /\ e # Len(p)
        BY <1>b, <2>3, <3>1
      <4> QED  BY <1>2, <1>a, <4>1
    <3>2. ASSUME d - 1 < e PROVE FALSE
      <4>1. d - 1 \in j..e - 1 /\ (d - 1) + 1 = d
        BY <1>b, <3>2
      <4>2. d - 1 # Len(p) /\ p[d] # "/"
        <5> DEFINE q == d - 1
        <5>1. q \in j..e - 1 /\ q + 1 = d
          BY <4>1
        <5> HIDE DEF q
        <5>2. q # Len(p) /\ p[q + 1] # "/"
          BY <1>a, <5>1
        <5> QED  BY <5>1, <5>2 DEF q
      <4>3. k = Count(p)
        BY <1>2, <4>2
      <4>4. d - 1 = Len(p)
        BY <1>b, <4>3
      <4> QED  BY <4>2, <4>4
    <3> QED  BY <1>b, <3>1, <3>2
  <2>5. s[a + 1] = "+"
    BY <1>a, <2>2
  <2>6. Within(i + 1, e, a, b, c, d)
    BY <1>b, <2>2, <2>4
  <2> QED  BY <2>2, <2>4, <2>5, <2>6
<1> QED  BY <1>1, <1>4, WalkIs

\* A "#" is the end of the filter, and what is before it matches.
LEMMA WalkMatchesRest ==
  ASSUME NEW s \in Seq(STRING), NEW p \in Seq(STRING), Plain(s, p),
         NEW i, NEW j, NEW k, Walk(s, p, i, j, k), i < Len(s)
  PROVE  s[i + 1] = "#" => i + 1 = Len(s) /\ Matches(s, p)
<1>a. SUFFICES ASSUME s[i + 1] = "#" PROVE i + 1 = Len(s) /\ Matches(s, p)
  OBVIOUS
<1> DEFINE a == Slash(s, k)
           b == Slash(s, k + 1)
           c == Slash(p, k)
           d == Slash(p, k + 1)
<1>1. k \in 1..Count(s) /\ k \in 1..Count(p) /\ \A m \in 1..k - 1 : Like(s, p, m)
  BY WalkIs
<1>2. InLevel(s, p, k, a, b, c, d)
  BY <1>1, LevelIs
<1>3. Placed(s, p, i, j, a, b, c, d)
  BY WalkIs
<1>b. Extent(s, p, k, a, b, c, d) /\ Within(i, j, a, b, c, d)
  BY <1>2, <1>3 DEF InLevel, Placed
<1> USE DEF InLevel, Extent, Placed, Within
<1> HIDE DEF a, b, c, d
<1>4. i + 1 # b
  <2>1. ASSUME i + 1 = b PROVE k # Count(s)
    BY <1>b, <2>1
  <2> QED  BY <1>2, <1>a, <2>1
<1>5. i + 1 \in a + 1..b - 1
  BY <1>b, <1>4
<1>6. b = a + 2 /\ k = Count(s)
  BY <1>2, <1>a, <1>5
<1>7. i + 1 = Len(s)
  BY <1>b, <1>5, <1>6
<1>8. MultiLevel(s)
  BY <1>a, <1>7 DEF MultiLevel
<1>9. Given(s) = k - 1
  BY <1>6, <1>8 DEF Given
<1>10. Count(p) >= Given(s)
  BY <1>b, <1>9
<1>11. Matches(s, p)
  BY <1>1, <1>8, <1>9, <1>10, MatchesIs
<1> QED  BY <1>7, <1>11

\* When both end together they match.
LEMMA WalkMatchesAll ==
  ASSUME NEW s \in Seq(STRING), NEW p \in Seq(STRING), Plain(s, p),
         NEW i, NEW j, NEW k, Walk(s, p, i, j, k), i = Len(s), j = Len(p)
  PROVE  Matches(s, p)
<1> DEFINE a == Slash(s, k)
           b == Slash(s, k + 1)
           c == Slash(p, k)
           d == Slash(p, k + 1)
<1>1. k \in 1..Count(s) /\ k \in 1..Count(p) /\ \A m \in 1..k - 1 : Like(s, p, m)
  BY WalkIs
<1>2. InLevel(s, p, k, a, b, c, d)
  BY <1>1, LevelIs
<1>3. Placed(s, p, i, j, a, b, c, d)
  BY WalkIs
<1>b. Extent(s, p, k, a, b, c, d) /\ Within(i, j, a, b, c, d)
  BY <1>2, <1>3 DEF InLevel, Placed
<1> USE DEF InLevel, Extent, Placed, Within
<1>4. k = Count(s) /\ k = Count(p) /\ i + 1 = b /\ j + 1 = d
  <2> HIDE DEF a, b, c, d
  <2> QED  BY <1>b
<1>5. \A m \in 1..k : Like(s, p, m)
  BY <1>4, LevelEnds
<1>6. ~MultiLevel(s)
  <2>1. i + 1 # Len(s)
    BY <1>2
  <2> QED  BY <1>4, <2>1, LastLevel
<1>7. Given(s) = k
  BY <1>4, <1>6 DEF Given
<1> QED  BY <1>4, <1>5, <1>6, <1>7, MatchesIs

\* A level that does not match and is to be compared
LEMMA Unmatched ==
  ASSUME NEW s \in Seq(STRING), NEW p \in Seq(STRING),
         NEW k \in 1..Count(s), ~Like(s, p, k), MultiLevel(s) => k # Count(s)
  PROVE  ~Matches(s, p)
<1>1. k \in 1..Given(s)
  BY SlashIs DEF Given
<1> QED  BY <1>1, MatchesIs

\* A character that differs and is no wildcard ends it without a match.
LEMMA WalkDiffers ==
  ASSUME NEW s \in Seq(STRING), NEW p \in Seq(STRING), Plain(s, p),
         NEW i, NEW j, NEW k, Walk(s, p, i, j, k), i < Len(s), j < Len(p)
  PROVE  s[i + 1] \notin {p[j + 1], "+", "#"} => ~Matches(s, p)
<1>a. SUFFICES ASSUME s[i + 1] # p[j + 1], s[i + 1] # "+", s[i + 1] # "#"
               PROVE  ~Matches(s, p)
  OBVIOUS
<1> DEFINE a == Slash(s, k)
           b == Slash(s, k + 1)
           c == Slash(p, k)
           d == Slash(p, k + 1)
<1>1. k \in 1..Count(s) /\ k \in 1..Count(p) /\ \A m \in 1..k - 1 : Like(s, p, m)
  BY WalkIs
<1>2. InLevel(s, p, k, a, b, c, d)
  BY <1>1, LevelIs
<1>3. Placed(s, p, i, j, a, b, c, d)
  BY WalkIs
<1>b. Extent(s, p, k, a, b, c, d) /\ Within(i, j, a, b, c, d)
  BY <1>2, <1>3 DEF InLevel, Placed
<1> USE DEF InLevel, Extent, Placed, Within
<1>4. i + 1 = b => j + 1 # d
  <2> HIDE DEF a, b, c, d
  <2>1. ASSUME i + 1 = b, j + 1 = d PROVE FALSE
    <3>1. k # Count(s) /\ k # Count(p)
      BY <1>b, <2>1
    <3>2. s[b] = "/" /\ p[d] = "/"
      BY <1>2, <3>1
    <3> QED  BY <1>a, <2>1, <3>2
  <2> QED  BY <2>1
<1>5. Here(s, p, i, j, k)
  <2>1. ASSUME Skipped(s, p, i, j, k) PROVE FALSE
    <3>1. b = a + 2 /\ i = a + 1 /\ j = d - 1
      BY <2>1 DEF Skipped
    <3> HIDE DEF a, b, c, d
    <3>2. i + 1 = b /\ j + 1 = d
      BY <1>b, <3>1
    <3> QED  BY <1>4, <3>2
  <2> QED  BY <2>1 DEF Walk
<1>6. ~Like(s, p, k)
  BY <1>a, <1>4, <1>5, LevelUnlike
<1>7. MultiLevel(s) => k # Count(s)
  BY <1>a, LastLevel
<1> QED  BY <1>1, <1>6, <1>7, Unmatched

\* When one of the two ends before the other they do not match.
LEMMA WalkStops ==
  ASSUME NEW s \in Seq(STRING), NEW p \in Seq(STRING), Plain(s, p),
         NEW i, NEW j, NEW k, Walk(s, p, i, j, k),
         \/ i = Len(s) /\ j < Len(p)
         \/ i < Len(s) /\ j = Len(p)
  PROVE  ~Matches(s, p)
<1> DEFINE a == Slash(s, k)
           b == Slash(s, k + 1)
           c == Slash(p, k)
           d == Slash(p, k + 1)
<1>1. k \in 1..Count(s) /\ k \in 1..Count(p) /\ \A m \in 1..k - 1 : Like(s, p, m)
  BY WalkIs
<1>2. InLevel(s, p, k, a, b, c, d)
  BY <1>1, LevelIs
<1>3. Placed(s, p, i, j, a, b, c, d)
  BY WalkIs
<1>b. Extent(s, p, k, a, b, c, d) /\ Within(i, j, a, b, c, d)
  BY <1>2, <1>3 DEF InLevel, Placed
<1> USE DEF InLevel, Extent, Placed, Within
<1>4. CASE i = Len(s) /\ j < Len(p)
  <2>1. k = Count(s) /\ i + 1 = b /\ i + 1 # Len(s)
    <3> HIDE DEF a, b, c, d
    <3> QED  BY <1>b, <1>4
  <2>2. ~MultiLevel(s)
    BY <2>1, LastLevel
  <2>3. CASE k = Count(p)
    <3>1. j + 1 # d
      <4> HIDE DEF a, b, c, d
      <4> QED  BY <1>b, <1>4, <2>3
    <3>2. Here(s, p, i, j, k)
      <4>1. ASSUME Skipped(s, p, i, j, k) PROVE FALSE
        <5>1. j = d - 1
          BY <4>1 DEF Skipped
        <5> HIDE DEF a, b, c, d
        <5> QED  BY <1>2, <3>1, <5>1
      <4> QED  BY <4>1 DEF Walk
    <3>3. ~Like(s, p, k)
      BY <2>1, <3>1, <3>2, LevelUnlike
    <3> QED  BY <1>1, <2>2, <3>3, Unmatched
  <2>4. CASE k # Count(p)
    <3>1. Given(s) # Count(p)
      BY <2>1, <2>2, <2>4 DEF Given
    <3> QED  BY <2>2, <3>1, MatchesIs
  <2> QED  BY <2>3, <2>4
<1>5. CASE i < Len(s) /\ j = Len(p)
  <2>1. k = Count(p) /\ j + 1 = d
    <3> HIDE DEF a, b, c, d
    <3> QED  BY <1>b, <1>5
  <2>2. CASE k = Count(s)
    <3>1. i + 1 # b
      <4> HIDE DEF a, b, c, d
      <4> QED  BY <1>b, <1>5, <2>2
    <3>2. Here(s, p, i, j, k)
      <4>1. ASSUME Skipped(s, p, i, j, k) PROVE FALSE
        <5>1. b = a + 2 /\ i = a + 1
          BY <4>1 DEF Skipped
        <5> HIDE DEF a, b, c, d
        <5> QED  BY <1>2, <3>1, <5>1
      <4> QED  BY <4>1 DEF Walk
    <3>3. i # a
      <4>1. i - a = j - c
        BY <3>2 DEF Here
      <4> HIDE DEF a, b, c, d
      <4> QED  BY <1>b, <2>1, <4>1
    <3>4. s[i + 1] # "+"
      <4> HIDE DEF a, b, c, d
      <4>1. i + 1 \in a + 1..b - 1 /\ b # a + 2
        BY <1>b, <3>1, <3>3
      <4> QED  BY <1>2, <4>1
    <3>5. ~Like(s, p, k)
      BY <2>1, <3>1, <3>2, <3>4, LevelUnlike
    <3>6. ~MultiLevel(s)
      BY <2>2, <3>3, LastLevel
    <3> QED  BY <1>1, <3>5, <3>6, Unmatched
  <2>3. CASE k # Count(s)
    <3>1. Count(p) < Count(s) /\ Count(p) \in Nat /\ Count(s) \in Nat
      <4> HIDE DEF a, b, c, d
      <4> QED  BY <1>2, <2>1, <2>3
    <3>2. ~MultiLevel(s)
      <4> HIDE DEF a, b, c, d
      <4> QED  BY <1>2, <3>1
    <3>3. Given(s) # Count(p)
      BY <3>1, <3>2 DEF Given
    <3> QED  BY <3>2, <3>3, MatchesIs
  <2> QED  BY <2>2, <2>3
<1> QED  BY <1>4, <1>5

-----------------------------------------------------------------------------
(* Filters with wildcards *)

\* As long as the loop goes on, the walk is within a level of both, and what is
\* left to compare decides.
LevelsSoFar ==
  Plain(sname, pname) =>
    /\ pc = "loop" =>
         /\ res = 0 /\ wild = 0
         /\ ~(spos = slen /\ ppos = plen)
         /\ \E k : Walk(sname, pname, spos, ppos, k)
    /\ pc = "done" => (res = 1 <=> Matches(sname, pname))

LEMMA LevelsInit == Init => LevelsSoFar
<1> SUFFICES ASSUME Init PROVE LevelsSoFar
  OBVIOUS
<1>1. slen > 0 /\ slen \in Nat /\ sname \in Seq(STRING) /\ pname \in Seq(STRING)
  BY TypeInit, NamesAreLists
<1>2. ~(spos = slen /\ ppos = plen)
  BY <1>1 DEF Init
<1>3. Walk(sname, pname, spos, ppos, 1)
  BY <1>1, WalkBegins DEF Init
<1> QED  BY <1>2, <1>3 DEF Init, LevelsSoFar

\* The end of a turn that matched
LEMMA LevelsMatched ==
  ASSUME TypeOK, Plain(sname, pname), UNCHANGED names,
         pc = "loop", res = 0, wild = 0, Matched,
         spos' \in 0..slen, ppos' \in 0..plen,
         NEW k, Walk(sname, pname, spos', ppos', k)
  PROVE  LevelsSoFar'
<1>1. sname \in Seq(STRING) /\ pname \in Seq(STRING) /\ slen = Len(sname) /\ plen = Len(pname)
  BY NamesAreLists DEF slen, plen
<1>2. slen' = slen /\ plen' = plen /\ sname' = sname /\ pname' = pname
  BY DEF names, slen, plen
<1>3. CASE spos' = slen /\ ppos' = plen
  <2>1. Leave(1, 0) /\ ~(ppos' < plen) /\ ~(spos' < slen)
    BY <1>1, <1>3, NamesAreLists DEF Matched
  <2>2. res' = 1 /\ pc' = "done"
    BY <2>1 DEF Leave
  <2>3. Matches(sname, pname)
    BY <1>1, <1>3, WalkMatchesAll
  <2> QED  BY <1>2, <2>2, <2>3 DEF LevelsSoFar
<1>4. CASE ~(spos' = slen /\ ppos' = plen)
  <2>1. ~Shortcut(spos', ppos')
    BY <1>1, ShortcutUntaken DEF Shortcut
  <2>2. UNCHANGED <<res, wild, pc>>
    BY <1>4, <2>1 DEF Matched
  <2> QED  BY <1>2, <1>4, <2>2 DEF LevelsSoFar
<1> QED  BY <1>3, <1>4

LEMMA LevelsStep == TypeOK /\ LevelsSoFar /\ [Next]_vars => LevelsSoFar'
<1> SUFFICES ASSUME TypeOK, LevelsSoFar, [Next]_vars, Plain(sname, pname), UNCHANGED names
             PROVE  LevelsSoFar'
  <2>1. ASSUME [Next]_vars PROVE UNCHANGED names
    <3>1. CASE Next
      BY <3>1 DEF Next, Alike, Plus, Hash, Differ, Over
    <3>2. CASE UNCHANGED vars
      BY <3>2 DEF vars
    <3> QED  BY <2>1, <3>1, <3>2
  <2> QED  BY <2>1 DEF LevelsSoFar, names
<1>0. /\ slen \in Nat /\ plen \in Nat /\ spos \in 0..slen /\ ppos \in 0..plen
      /\ sname \in Seq(STRING) /\ pname \in Seq(STRING)
      /\ slen = Len(sname) /\ plen = Len(pname)
  BY NamesAreLists DEF TypeOK, slen, plen
<1>n. slen' = slen /\ plen' = plen /\ sname' = sname /\ pname' = pname
  BY DEF names, slen, plen
<1>i. ASSUME pc = "loop"
      PROVE  /\ res = 0 /\ wild = 0 /\ ~(spos = slen /\ ppos = plen)
             /\ \E k : Walk(sname, pname, spos, ppos, k)
  BY <1>i DEF LevelsSoFar
<1>d. ASSUME pc' = "done", res' = 1 <=> Matches(sname, pname)
      PROVE  LevelsSoFar'
  BY <1>d, <1>n DEF LevelsSoFar
<1>1. CASE Alike
  <2>1. pc = "loop" /\ spos < slen /\ ppos < plen /\ sname[spos + 1] = pname[ppos + 1]
    BY <1>1 DEF Alike, Inside
  <2>2. PICK k : Walk(sname, pname, spos, ppos, k)
    BY <1>i, <2>1
  <2>3. PICK m : Walk(sname, pname, spos + 1, ppos + 1, m)
    BY <1>0, <2>1, <2>2, WalkOn
  <2>4. spos' = spos + 1 /\ ppos' = ppos + 1 /\ spos' \in 0..slen /\ ppos' \in 0..plen /\ Matched
    BY <1>0, <1>1, <2>1 DEF Alike
  <2> QED  BY <1>i, <2>1, <2>3, <2>4, LevelsMatched
<1>2. CASE Plus
  <2>1. pc = "loop" /\ spos < slen /\ ppos < plen /\ sname[spos + 1] = "+"
    BY <1>2 DEF Plus, Inside
  <2>2. PICK k : Walk(sname, pname, spos, ppos, k)
    BY <1>i, <2>1
  <2>3. /\ LevelEnd(ppos) \in ppos..plen /\ EndsLevel(LevelEnd(ppos))
        /\ \A q \in ppos..(LevelEnd(ppos) - 1) : ~EndsLevel(q)
    BY <1>0, LevelHasEnd
  <2>4. Walk(sname, pname, spos + 1, LevelEnd(ppos), k)
    <3> DEFINE e == LevelEnd(ppos)
    <3>1. /\ e \in ppos..Len(pname) /\ (e = Len(pname) \/ pname[e + 1] = "/")
          /\ \A q \in ppos..e - 1 : ~(q = Len(pname) \/ pname[q + 1] = "/")
      BY <1>0, <2>3 DEF EndsLevel
    <3> HIDE DEF e
    <3>2. Walk(sname, pname, spos + 1, e, k)
      BY <1>0, <2>1, <2>2, <3>1, WalkSkips
    <3> QED  BY <3>2 DEF e
  <2>5. /\ spos' = spos + 1 /\ ppos' = LevelEnd(ppos) /\ Matched
        /\ spos' \in 0..slen /\ ppos' \in 0..plen
    BY <1>0, <1>2, <2>1, <2>3 DEF Plus
  <2> QED  BY <1>i, <2>1, <2>4, <2>5, LevelsMatched
<1>3. CASE Hash
  <2>1. pc = "loop" /\ spos < slen /\ sname[spos + 1] = "#"
    BY <1>3 DEF Hash, Inside
  <2>2. PICK k : Walk(sname, pname, spos, ppos, k)
    BY <1>i, <2>1
  <2>3. spos + 1 = slen /\ Matches(sname, pname)
    BY <1>0, <2>1, <2>2, WalkMatchesRest
  <2>4. res' = 1 /\ pc' = "done"
    BY <1>3, <2>3 DEF Hash, Leave
  <2> QED  BY <1>d, <2>3, <2>4
<1>4. CASE Differ
  <2>1. /\ pc = "loop" /\ spos < slen /\ ppos < plen
        /\ sname[spos + 1] \notin {pname[ppos + 1], "+", "#"}
    BY <1>4 DEF Differ, Inside
  <2>2. PICK k : Walk(sname, pname, spos, ppos, k)
    BY <1>i, <2>1
  <2>3. ~Matches(sname, pname)
    BY <1>0, <2>1, <2>2, WalkDiffers
  <2>4. res' = 0 /\ pc' = "done"
    BY <1>4 DEF Differ, Leave
  <2> QED  BY <1>d, <2>3, <2>4
<1>5. CASE Over
  <2>1. pc = "loop" /\ ~(spos < slen /\ ppos < plen) /\ Leave(res, wild)
    BY <1>5 DEF Over, Inside
  <2>2. PICK k : Walk(sname, pname, spos, ppos, k)
    BY <1>i, <2>1
  <2>3. (spos = slen /\ ppos < plen) \/ (spos < slen /\ ppos = plen)
    <3>1. ~(spos = slen /\ ppos = plen)
      BY <1>i, <2>1
    <3> QED  BY <1>0, <2>1, <3>1
  <2>4. ~Matches(sname, pname)
    BY <1>0, <2>2, <2>3, WalkStops
  <2>5. res' = 0 /\ pc' = "done"
    BY <1>i, <2>1 DEF Leave
  <2> QED  BY <1>d, <2>4, <2>5
<1>6. CASE UNCHANGED vars
  BY <1>6 DEF LevelsSoFar, vars, names, slen, plen
<1> QED  BY <1>1, <1>2, <1>3, <1>4, <1>5, <1>6 DEF Next

\* A well-formed filter matches what MQTT says of it, for filters and names of
\* any length without empty levels, as long as a "#" has a level to stand for.
THEOREM LevelsMatch == Spec => []WildcardsMatch
<1>1. Init => TypeOK /\ LevelsSoFar
  BY TypeInit, LevelsInit
<1>2. (TypeOK /\ LevelsSoFar) /\ [Next]_vars => (TypeOK /\ LevelsSoFar)'
  BY TypeStep, LevelsStep
<1>3. LevelsSoFar => WildcardsMatch
  BY DEF LevelsSoFar, WildcardsMatch, Plain
<1> QED  BY <1>1, <1>2, <1>3, PTL DEF Spec
=============================================================================
