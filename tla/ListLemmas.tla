------------------------------ MODULE ListLemmas ------------------------------
(***************************************************************************)
(* Lemmas about the operators of sequences the models are built from, as   *)
(* far as the library has none.                                            *)
(***************************************************************************)
EXTENDS Integers, SequencesExt, SequenceTheorems, FunctionTheorems,
        NaturalsInduction, WellFoundedInduction, TLAPS

-----------------------------------------------------------------------------
(* Lists *)

\* Of a queue with messages of many shapes, such as mqtt_tcp, it is enough to
\* know that it is a list.
IsList(s) == \E S : s \in Seq(S)

LEMMA ListProperties ==
  ASSUME NEW s, IsList(s)
  PROVE  /\ Len(s) \in Nat
         /\ DOMAIN s = 1..Len(s)
         /\ s = <<>> <=> Len(s) = 0
<1>1. PICK S : s \in Seq(S)
  BY DEF IsList
<1> QED  BY <1>1, LenProperties, EmptySeq

LEMMA ListAppend ==
  ASSUME NEW s, IsList(s), NEW e
  PROVE  /\ IsList(Append(s, e))
         /\ Len(Append(s, e)) = Len(s) + 1
         /\ \A i \in 1..Len(s) : Append(s, e)[i] = s[i]
         /\ Append(s, e)[Len(s) + 1] = e
<1>1. PICK S : s \in Seq(S)
  BY DEF IsList
<1>2. s \in Seq(S \cup {e}) /\ e \in S \cup {e}
  BY <1>1, SeqMonotonic
<1> QED  BY <1>2, AppendProperties DEF IsList

LEMMA ListConcat ==
  ASSUME NEW s, IsList(s), NEW t, IsList(t)
  PROVE  /\ IsList(s \o t)
         /\ Len(s \o t) = Len(s) + Len(t)
         /\ \A i \in 1..Len(s) : (s \o t)[i] = s[i]
         /\ \A i \in 1..Len(t) : (s \o t)[Len(s) + i] = t[i]
<1>1. PICK S : s \in Seq(S)
  BY DEF IsList
<1>2. PICK T : t \in Seq(T)
  BY DEF IsList
<1>3. s \in Seq(S \cup T) /\ t \in Seq(S \cup T)
  BY <1>1, <1>2, SeqMonotonic
<1>4. /\ s \o t \in Seq(S \cup T)
      /\ Len(s \o t) = Len(s) + Len(t)
      /\ \A i \in 1..Len(s) + Len(t) :
           (s \o t)[i] = IF i =< Len(s) THEN s[i] ELSE t[i - Len(s)]
  BY <1>3, ConcatProperties
<1>5. Len(s) \in Nat /\ Len(t) \in Nat
  BY <1>1, <1>2, LenProperties
<1> QED  BY <1>4, <1>5 DEF IsList

LEMMA ListTail ==
  ASSUME NEW s, IsList(s), s # <<>>
  PROVE  /\ Head(s) = s[1] /\ Len(s) > 0
         /\ IsList(Tail(s))
         /\ Len(Tail(s)) = Len(s) - 1
         /\ \A i \in 1..Len(s) - 1 : Tail(s)[i] = s[i + 1]
<1>1. PICK S : s \in Seq(S)
  BY DEF IsList
<1> QED  BY <1>1, HeadTailProperties, EmptySeq DEF IsList

LEMMA ListMade ==
  ASSUME NEW n \in Nat, NEW f, f = [i \in 1..n |-> f[i]]
  PROVE  IsList(f) /\ Len(f) = n
<1>1. f \in [1..n -> {f[i] : i \in 1..n}]
  OBVIOUS
<1>2. f \in Seq({f[i] : i \in 1..n})
  BY <1>1
<1>3. Len(f) = n
  BY <1>1, <1>2, LenProperties
<1> QED  BY <1>2, <1>3 DEF IsList

\* A function on 1..n with values in S is a list of elements of S.
LEMMA TypedList ==
  ASSUME NEW S, NEW n \in Nat, NEW f, f = [i \in 1..n |-> f[i]],
         \A i \in 1..n : f[i] \in S
  PROVE  f \in Seq(S) /\ Len(f) = n
<1>1. f \in [1..n -> S]
  OBVIOUS
<1>2. f \in Seq(S)
  BY <1>1
<1> QED  BY <1>1, <1>2, LenProperties

\* A part of a list
LEMMA PartOf ==
  ASSUME NEW S, NEW s \in Seq(S), NEW a \in Nat, NEW b \in Nat,
         1 =< a, a =< b + 1, b =< Len(s)
  PROVE  /\ SubSeq(s, a, b) \in Seq(S)
         /\ Len(SubSeq(s, a, b)) = b + 1 - a
         /\ \A i \in 1..(b + 1 - a) : SubSeq(s, a, b)[i] = s[a + i - 1]
<1>1. Len(s) \in Nat /\ \A i \in 1..Len(s) : s[i] \in S
  BY LenProperties, ElementOfSeq
<1>2. \A i \in a..b : s[i] \in S
  BY <1>1
<1>3. /\ SubSeq(s, a, b) \in Seq(S)
      /\ Len(SubSeq(s, a, b)) = IF a =< b THEN b - a + 1 ELSE 0
      /\ \A i \in 1..(b - a + 1) : SubSeq(s, a, b)[i] = s[a + i - 1]
  BY <1>2, SubSeqProperties
<1>4. b + 1 - a = IF a =< b THEN b - a + 1 ELSE 0
  OBVIOUS
<1>5. 1..(b + 1 - a) = 1..(b - a + 1)
  OBVIOUS
<1> QED  BY <1>3, <1>4, <1>5

\* Two parts of lists are the same if their elements are.
LEMMA SameParts ==
  ASSUME NEW S, NEW s \in Seq(S), NEW t \in Seq(S), Len(s) = Len(t),
         \A i \in 1..Len(s) : s[i] = t[i]
  PROVE  s = t
BY SeqEqual

-----------------------------------------------------------------------------
(* Induction *)

\* A non-empty set of numbers has a least one.
LEMMA LeastNumber ==
  ASSUME NEW I, I \subseteq Nat, I # {}
  PROVE  \E m \in I : \A i \in I : m =< i
<1> DEFINE Less == {p \in Nat \X Nat : p[1] < p[2]}
<1>1. IsWellFoundedOn(Less, Nat)
  BY NatLessThanWellFounded DEF OpToRel
<1>2. PICK x \in I : \A y \in I : ~(<<y, x>> \in Less)
  <2> HIDE DEF Less
  <2> QED  BY <1>1, WFMin, Zenon
<1>3. ASSUME NEW y \in I, y < x
      PROVE  <<y, x>> \in Less
  BY <1>3
<1>4. \A y \in I : x =< y
  <2>1. TAKE y \in I
  <2>2. ~(y < x)
    <3> HIDE DEF Less
    <3> QED  BY <1>2, <1>3
  <2> QED  BY <2>2
<1> QED  BY <1>4

\* The principle the lemmas below use in place of the one with an operator:
\* a set of numbers that has 0, and with a number below n its successor, has
\* every number up to n.
LEMMA CountedUp ==
  ASSUME NEW n \in Nat, NEW I, 0 \in I,
         \A i \in 0..n : i \in I /\ i # n => i + 1 \in I
  PROVE  \A i \in 0..n : i \in I
<1>1. SUFFICES ASSUME (0..n) \ I # {}
               PROVE  FALSE
  OBVIOUS
<1>2. PICK m \in (0..n) \ I : \A i \in (0..n) \ I : m =< i
  <2> DEFINE J == (0..n) \ I
  <2>1. J \subseteq Nat /\ J # {}
    BY <1>1
  <2> HIDE DEF J
  <2>2. \E m \in J : \A i \in J : m =< i
    BY <2>1, LeastNumber
  <2> QED  BY <2>2 DEF J
<1>3. m # 0 /\ m - 1 \in 0..n
  BY <1>2
<1>4. m - 1 \in I
  BY <1>2, <1>3
<1>5. m - 1 # n /\ (m - 1) + 1 = m
  BY <1>2, <1>3
<1>6. m \in I
  BY <1>3, <1>4, <1>5, Zenon
<1> QED  BY <1>2, <1>6

-----------------------------------------------------------------------------
(* A list of lists made one *)

Lists(S) == Seq(Seq(S))

LEMMA ListsProperties ==
  ASSUME NEW S, NEW s \in Lists(S)
  PROVE  /\ Len(s) \in Nat /\ DOMAIN s = 1..Len(s)
         /\ s = <<>> <=> Len(s) = 0
         /\ \A i \in 1..Len(s) : s[i] \in Seq(S)
<1>1. s \in Seq(Seq(S))
  BY DEF Lists
<1> QED  BY <1>1, LenProperties, EmptySeq, ElementOfSeq

LEMMA ListsAppend ==
  ASSUME NEW S, NEW s \in Lists(S), NEW t \in Seq(S)
  PROVE  /\ Append(s, t) \in Lists(S)
         /\ Len(Append(s, t)) = Len(s) + 1
         /\ \A i \in 1..Len(s) : Append(s, t)[i] = s[i]
         /\ Append(s, t)[Len(s) + 1] = t
<1>1. s \in Seq(Seq(S))
  BY DEF Lists
<1>2. Append(s, t) \in Seq(Seq(S))
  BY <1>1, AppendProperties
<1> QED  BY <1>1, <1>2, AppendProperties DEF Lists

LEMMA ListsTail ==
  ASSUME NEW S, NEW s \in Lists(S), s # <<>>
  PROVE  /\ Len(s) # 0 /\ Head(s) = s[1]
         /\ Tail(s) \in Lists(S)
         /\ Len(Tail(s)) = Len(s) - 1
         /\ \A i \in 1..(Len(s) - 1) : Tail(s)[i] = s[i + 1]
<1>1. s \in Seq(Seq(S))
  BY DEF Lists
<1>2. Tail(s) \in Seq(Seq(S))
  BY <1>1, HeadTailProperties
<1> QED  BY <1>1, <1>2, HeadTailProperties, EmptySeq DEF Lists

LEMMA ListsPrefix ==
  ASSUME NEW S, NEW s \in Lists(S), NEW k \in 0..Len(s)
  PROVE  /\ SubSeq(s, 1, k) \in Lists(S)
         /\ k = Len(s) => SubSeq(s, 1, k) = s
         /\ k # 0 => SubSeq(s, 1, k) = Append(SubSeq(s, 1, k - 1), s[k])
<1>1. s \in Seq(Seq(S)) /\ Len(s) \in Nat
  BY LenProperties DEF Lists
<1>2. \A j \in Int : j =< Len(s) => SubSeq(s, 1, j) \in Seq(Seq(S))
  <2>1. TAKE j \in Int
  <2>2. HAVE j =< Len(s)
  <2>3. \A i \in 1..j : i \in 1..Len(s)
    BY <1>1, <2>2
  <2>4. \A i \in 1..j : s[i] \in Seq(S)
    BY <1>1, <2>3, ElementOfSeq
  <2> QED  BY <2>4, SubSeqProperties
<1>3. k = Len(s) => SubSeq(s, 1, k) = s
  BY <1>1, SubSeqFull
<1>4. ASSUME k # 0
      PROVE  SubSeq(s, 1, k) = Append(SubSeq(s, 1, k - 1), s[k])
  <2>1. k \in 1..Len(s) /\ 1 \in 1..Len(s) /\ k - 1 \in Int /\ k - 1 =< Len(s)
    BY <1>1, <1>4
  <2>2. SubSeq(s, 1, k) = SubSeq(s, 1, k - 1) \o <<s[k]>>
    BY <1>1, <2>1, SubSeqRecursiveSecond
  <2>3. s[k] \in Seq(S) /\ SubSeq(s, 1, k - 1) \in Seq(Seq(S))
    BY <1>1, <1>2, <2>1, ElementOfSeq
  <2> QED  BY <2>2, <2>3, AppendIsConcat
<1> QED  BY <1>1, <1>2, <1>3, <1>4 DEF Lists

\* ConcatAssociative, in the form that can be used of any terms.
LEMMA ConcatsAssociate ==
  \A S : \A a, b, c \in Seq(S) : (a \o b) \o c = a \o (b \o c)
BY ConcatAssociative

\* What FlattenSeq makes of the first i lists, for each i up to n.
IsFlattening(f, s, n) ==
  f = [i \in 1..n |-> IF i = 1 THEN s[i] ELSE f[i-1] \o s[i]]

LEMMA FlatteningExists ==
  ASSUME NEW s, NEW n \in Nat
  PROVE  \E f : IsFlattening(f, s, n)
<1> DEFINE I == {m \in 0..n : \E f : IsFlattening(f, s, m)}
<1>1. 0 \in I
  <2> DEFINE f == [i \in 1..0 |-> s[i]]
  <2>1. 1..0 = {}
    OBVIOUS
  <2>2. \A i \in 1..0 : s[i] = IF i = 1 THEN s[i] ELSE f[i-1] \o s[i]
    BY <2>1
  <2>3. IsFlattening(f, s, 0)
    BY <2>2 DEF IsFlattening
  <2> QED  BY <2>3
<1>2. ASSUME NEW m \in 0..n, m \in I, m # n
      PROVE  m + 1 \in I
  <2>1. PICK f : IsFlattening(f, s, m)
    BY <1>2
  <2> DEFINE g == [i \in 1..(m + 1) |-> IF i =< m THEN f[i]
                                        ELSE IF i = 1 THEN s[i] ELSE f[i-1] \o s[i]]
  <2>2. ASSUME NEW i \in 1..(m + 1)
        PROVE  g[i] = IF i = 1 THEN s[i] ELSE g[i-1] \o s[i]
    <3>1. i # 1 => i - 1 \in 1..m /\ g[i-1] = f[i-1]
      OBVIOUS
    <3>2. i =< m => f[i] = IF i = 1 THEN s[i] ELSE f[i-1] \o s[i]
      <4>1. f = [j \in 1..m |-> IF j = 1 THEN s[j] ELSE f[j-1] \o s[j]]
        BY <2>1 DEF IsFlattening
      <4> DEFINE e == [j \in 1..m |-> IF j = 1 THEN s[j] ELSE f[j-1] \o s[j]]
      <4>2. i =< m => e[i] = IF i = 1 THEN s[i] ELSE f[i-1] \o s[i]
        OBVIOUS
      <4>3. f[i] = e[i]
        BY <4>1
      <4> QED  BY <4>2, <4>3
    <3> QED  BY <3>1, <3>2
  <2>3. g = [i \in 1..(m + 1) |-> g[i]]
    OBVIOUS
  <2>4. IsFlattening(g, s, m + 1)
    <3> HIDE DEF g
    <3>1. [i \in 1..(m + 1) |-> g[i]]
            = [i \in 1..(m + 1) |-> IF i = 1 THEN s[i] ELSE g[i-1] \o s[i]]
      BY <2>2
    <3> QED  BY <3>1, <2>3 DEF IsFlattening
  <2>5. \E h : IsFlattening(h, s, m + 1)
    BY <2>4
  <2> QED  BY <2>5, <1>2
<1>3. n \in I
  <2> HIDE DEF I
  <2> QED  BY <1>1, <1>2, CountedUp
<1> QED  BY <1>3

LEMMA FlatteningAt ==
  ASSUME NEW f, NEW s, NEW n \in Nat, IsFlattening(f, s, n), NEW i \in 1..n
  PROVE  f[i] = IF i = 1 THEN s[1] ELSE f[i-1] \o s[i]
<1> DEFINE e == [j \in 1..n |-> IF j = 1 THEN s[j] ELSE f[j-1] \o s[j]]
<1>1. e[i] = IF i = 1 THEN s[1] ELSE f[i-1] \o s[i]
  OBVIOUS
<1>2. f[i] = e[i]
  BY DEF IsFlattening
<1> QED  BY <1>1, <1>2

LEMMA FlatteningNext ==
  ASSUME NEW f, NEW s, NEW n \in Nat, IsFlattening(f, s, n)
  PROVE  \A i \in 1..(n - 1) : f[i + 1] = f[i] \o s[i + 1]
<1>1. TAKE i \in 1..(n - 1)
<1> DEFINE e == [j \in 1..n |-> IF j = 1 THEN s[j] ELSE f[j-1] \o s[j]]
<1>2. i + 1 \in 1..n /\ i + 1 # 1 /\ (i + 1) - 1 = i
  OBVIOUS
<1>3. e[i + 1] = f[i] \o s[i + 1]
  BY <1>2
<1>4. f[i + 1] = e[i + 1]
  BY DEF IsFlattening
<1> QED  BY <1>3, <1>4

LEMMA FlatteningFirst ==
  ASSUME NEW f, NEW s, NEW n \in Nat, IsFlattening(f, s, n), n # 0
  PROVE  f[1] = s[1]
<1>1. 1 \in 1..n
  OBVIOUS
<1> QED  BY <1>1, FlatteningAt

LEMMA FlatteningTyped ==
  ASSUME NEW S, NEW s \in Lists(S),
         NEW f, NEW n \in 0..Len(s), IsFlattening(f, s, n)
  PROVE  \A i \in 1..n : f[i] \in Seq(S)
<1> DEFINE I == {i \in 0..n : i # 0 => f[i] \in Seq(S)}
<1>1. 0 \in I
  BY ListsProperties
<1>2. ASSUME NEW i \in 0..n, i \in I, i # n
      PROVE  i + 1 \in I
  <2>1. i + 1 \in 1..n /\ i + 1 \in 1..Len(s) /\ (i + 1) - 1 = i
    BY <1>2, ListsProperties
  <2>2. s[i + 1] \in Seq(S)
    BY <2>1, ListsProperties
  <2>3. f[i + 1] = IF i + 1 = 1 THEN s[1] ELSE f[i] \o s[i + 1]
    BY <2>1, FlatteningAt
  <2>4. i # 0 => f[i] \in Seq(S)
    BY <1>2
  <2>5. i # 0 => f[i] \o s[i + 1] \in Seq(S)
    BY <2>2, <2>4, ConcatProperties
  <2>6. f[i + 1] \in Seq(S)
    BY <2>2, <2>3, <2>5
  <2> QED  BY <2>1, <2>6
<1>3. \A i \in 0..n : i \in I
  <2> HIDE DEF I
  <2>1. n \in Nat
    BY ListsProperties
  <2> QED  BY <1>1, <1>2, <2>1, CountedUp
<1> QED  BY <1>3

\* Lists that agree on their first k members are made one in the same way
\* as far as these.
LEMMA FlatteningsAgree ==
  ASSUME NEW f, NEW s, NEW m \in Nat, IsFlattening(f, s, m),
         NEW g, NEW t, NEW n \in Nat, IsFlattening(g, t, n),
         NEW k \in Nat, k =< m, k =< n, \A i \in 1..k : s[i] = t[i]
  PROVE  \A i \in 1..k : f[i] = g[i]
<1> DEFINE I == {i \in 0..k : i # 0 => f[i] = g[i]}
<1>1. 0 \in I
  OBVIOUS
<1>2. ASSUME NEW i \in 0..k, i \in I, i # k
      PROVE  i + 1 \in I
  <2>1. i + 1 \in 1..m /\ i + 1 \in 1..n /\ i + 1 \in 1..k /\ (i + 1) - 1 = i
    BY <1>2
  <2>2. f[i + 1] = IF i + 1 = 1 THEN s[1] ELSE f[i] \o s[i + 1]
    BY <2>1, FlatteningAt
  <2>3. g[i + 1] = IF i + 1 = 1 THEN t[1] ELSE g[i] \o t[i + 1]
    BY <2>1, FlatteningAt
  <2>4. s[i + 1] = t[i + 1] /\ (i # 0 => f[i] = g[i])
    BY <1>2, <2>1
  <2>5. f[i + 1] = g[i + 1]
    <3>1. CASE i = 0
      BY <2>2, <2>3, <2>4, <3>1
    <3>2. CASE i # 0
      BY <2>2, <2>3, <2>4, <3>2, i + 1 # 1
    <3> QED  BY <3>1, <3>2
  <2> QED  BY <2>1, <2>5
<1>3. \A i \in 0..k : i \in I
  <2> HIDE DEF I
  <2> QED  BY <1>1, <1>2, CountedUp
<1> QED  BY <1>3

LEMMA FlattenSeqIs ==
  ASSUME NEW s, NEW n \in Nat, Len(s) = n, n # 0
  PROVE  \E f : IsFlattening(f, s, n) /\ FlattenSeq(s) = f[n]
<1> DEFINE F == CHOOSE f : f = [i \in 1..n |-> IF i = 1 THEN s[i] ELSE f[i-1] \o s[i]]
<1>1. \E f : f = [i \in 1..n |-> IF i = 1 THEN s[i] ELSE f[i-1] \o s[i]]
  BY FlatteningExists DEF IsFlattening
<1>2. IsFlattening(F, s, n)
  BY <1>1 DEF IsFlattening
<1>3. FlattenSeq(s) = F[n]
  BY DEF FlattenSeq
<1> QED  BY <1>2, <1>3

LEMMA FlattenEmpty == FlattenSeq(<<>>) = <<>>
BY EmptySeq DEF FlattenSeq

LEMMA FlattenTyped ==
  ASSUME NEW S, NEW s \in Lists(S)
  PROVE  FlattenSeq(s) \in Seq(S)
<1> DEFINE n == Len(s)
<1>1. n \in Nat
  BY ListsProperties
<1>2. CASE n = 0
  BY <1>2, ListsProperties, EmptySeq, FlattenEmpty
<1>3. CASE n # 0
  <2>1. PICK f : IsFlattening(f, s, n) /\ FlattenSeq(s) = f[n]
    BY <1>1, <1>3, FlattenSeqIs
  <2>2. n \in 0..Len(s) /\ n \in 1..n
    BY <1>1, <1>3
  <2> QED  BY <2>1, <2>2, FlatteningTyped
<1> QED  BY <1>2, <1>3

\* A list put behind the others comes last.
LEMMA FlattenAppend ==
  ASSUME NEW S, NEW s \in Lists(S), NEW t \in Seq(S)
  PROVE  FlattenSeq(Append(s, t)) = FlattenSeq(s) \o t
<1> DEFINE n == Len(s)
           u == Append(s, t)
<1>1. /\ n \in Nat /\ u \in Lists(S)
      /\ Len(u) = n + 1 /\ u[n + 1] = t /\ \A i \in 1..n : u[i] = s[i]
  BY ListsProperties, ListsAppend
<1>2. PICK g : IsFlattening(g, u, n + 1) /\ FlattenSeq(u) = g[n + 1]
  <2> HIDE DEF u
  <2> QED  BY <1>1, FlattenSeqIs
<1>3. g[n + 1] = IF n + 1 = 1 THEN u[1] ELSE g[n] \o u[n + 1]
  <2>1. n + 1 \in Nat /\ n + 1 \in 1..(n + 1) /\ (n + 1) - 1 = n
    BY <1>1
  <2> HIDE DEF u, n
  <2> QED  BY <1>2, <2>1, FlatteningAt
<1>4. CASE n = 0
  <2>1. FlattenSeq(u) = t
    BY <1>1, <1>2, <1>3, <1>4
  <2>2. FlattenSeq(s) = <<>>
    BY <1>4, ListsProperties, FlattenEmpty
  <2> QED  BY <2>1, <2>2, ConcatEmptySeq
<1>5. CASE n # 0
  <2>1. PICK f : IsFlattening(f, s, n) /\ FlattenSeq(s) = f[n]
    BY <1>1, <1>5, FlattenSeqIs
  <2>2. f[n] = g[n]
    <3> DEFINE m == n + 1
    <3>1. n \in Nat /\ n \in 1..n /\ m \in Nat /\ n =< m /\ n =< n
      BY <1>1, <1>5
    <3>2. IsFlattening(g, u, m) /\ IsFlattening(f, s, n)
      BY <1>2, <2>1
    <3>3. \A i \in 1..n : s[i] = u[i]
      BY <1>1
    <3> HIDE DEF u, n, m
    <3>4. \A a, b : IsFlattening(f, a, n) /\ IsFlattening(g, b, m)
                        /\ (\A i \in 1..n : a[i] = b[i])
                      => \A i \in 1..n : f[i] = g[i]
      BY <3>1, FlatteningsAgree
    <3>5. \A i \in 1..n : f[i] = g[i]
      BY <3>2, <3>3, <3>4, Zenon
    <3> QED  BY <3>1, <3>5
  <2> QED  BY <1>1, <1>2, <1>3, <1>5, <2>1, <2>2
<1> QED  BY <1>4, <1>5

\* The first list comes first.
LEMMA FlattenHead ==
  ASSUME NEW S, NEW s \in Lists(S), s # <<>>
  PROVE  FlattenSeq(s) = Head(s) \o FlattenSeq(Tail(s))
<1> DEFINE n == Len(s) - 1
           u == Tail(s)
<1>1. /\ n \in Nat /\ u \in Lists(S) /\ Len(u) = n /\ Len(s) = n + 1
      /\ Head(s) = s[1] /\ s[1] \in Seq(S)
      /\ \A i \in 1..n : u[i] = s[i + 1] /\ u[i] \in Seq(S)
  <2>1. Len(s) \in Nat \ {0} /\ 1 \in 1..Len(s) /\ n \in Nat
    BY ListsProperties
  <2>2. /\ u \in Lists(S) /\ Len(u) = n /\ Head(s) = s[1]
        /\ \A i \in 1..n : u[i] = s[i + 1]
    BY ListsTail
  <2>3. s[1] \in Seq(S)
    BY <2>1, ListsProperties
  <2>4. \A i \in 1..n : u[i] \in Seq(S)
    <3> HIDE DEF u, n
    <3> QED  BY <2>2, ListsProperties
  <2> QED  BY <2>1, <2>2, <2>3, <2>4
<1>2. PICK f : IsFlattening(f, s, n + 1) /\ FlattenSeq(s) = f[n + 1]
  <2> DEFINE m == n + 1
  <2>1. m \in Nat /\ Len(s) = m /\ m # 0
    BY <1>1
  <2> HIDE DEF m
  <2>2. \E f : IsFlattening(f, s, m) /\ FlattenSeq(s) = f[m]
    BY <2>1, FlattenSeqIs
  <2> QED  BY <2>2 DEF m
<1>3. ASSUME NEW i \in 1..(n + 1)
      PROVE  f[i] = IF i = 1 THEN s[1] ELSE f[i-1] \o s[i]
  <2> DEFINE m == n + 1
  <2>1. m \in Nat /\ i \in 1..m /\ IsFlattening(f, s, m)
    BY <1>1, <1>2
  <2> HIDE DEF m
  <2> QED  BY <2>1, FlatteningAt
<1> HIDE DEF n, u
<1>4. \A a, b, c \in Seq(S) : (a \o b) \o c = a \o (b \o c)
  BY ConcatsAssociate
<1>5. CASE n = 0
  <2>1. u = <<>>
    BY <1>1, <1>5, ListsProperties
  <2>2. FlattenSeq(s) = s[1]
    BY <1>1, <1>2, <1>3, <1>5
  <2> QED  BY <1>1, <2>1, <2>2, FlattenEmpty, ConcatEmptySeq DEF u
<1>6. CASE n # 0
  <2>1. PICK g : IsFlattening(g, u, n) /\ FlattenSeq(u) = g[n]
    BY <1>1, <1>6, FlattenSeqIs
  <2>2. \A i \in 1..n : g[i] \in Seq(S)
    <3>1. n \in 0..Len(u)
      BY <1>1
    <3> QED  BY <1>1, <2>1, <3>1, FlatteningTyped
  <2>0. \A i \in 1..(n - 1) : g[i + 1] = g[i] \o u[i + 1]
    <3>1. n \in Nat /\ IsFlattening(g, u, n)
      BY <1>1, <2>1
    <3> QED  BY <3>1, FlatteningNext
  <2> DEFINE I == {i \in 0..n : i # 0 => f[i + 1] = s[1] \o g[i]}
  <2>3. 0 \in I
    BY <1>1
  <2>4. ASSUME NEW i \in 0..n, i \in I, i # n
        PROVE  i + 1 \in I
    <3>1. i + 1 \in 1..n /\ (i + 1) + 1 \in 1..(n + 1) /\ (i + 1) + 1 # 1
      BY <1>1, <2>4
    <3> HIDE DEF I
    <3>2. f[(i + 1) + 1] = f[i + 1] \o u[i + 1]
      <4>1. ((i + 1) + 1) - 1 = i + 1
        OBVIOUS
      <4>2. s[(i + 1) + 1] = u[i + 1]
        BY <1>1, <3>1
      <4> QED  BY <1>3, <3>1, <4>1, <4>2
    <3>3. f[(i + 1) + 1] = s[1] \o g[i + 1]
      <4>1. CASE i = 0
        <5>1. f[1] = s[1]
          BY <1>1, <1>3
        <5>2. g[1] = u[1]
          BY <1>1, <1>6, <2>1, FlatteningFirst
        <5>3. (i + 1) + 1 = 2 /\ i + 1 = 1
          BY <4>1
        <5> QED  BY <3>2, <5>1, <5>2, <5>3
      <4>2. CASE i # 0
        <5>1. i \in 1..n /\ i \in 1..(n - 1)
          BY <1>1, <3>1, <4>2
        <5>2. g[i + 1] = g[i] \o u[i + 1]
          BY <2>0, <3>1, <5>1
        <5>3. f[i + 1] = s[1] \o g[i]
          BY <2>4, <4>2 DEF I
        <5>4. g[i] \in Seq(S) /\ u[i + 1] \in Seq(S) /\ s[1] \in Seq(S)
          BY <1>1, <2>2, <3>1, <5>1
        <5>5. (s[1] \o g[i]) \o u[i + 1] = s[1] \o (g[i] \o u[i + 1])
          BY <1>4, <5>4, Zenon
        <5> QED  BY <3>2, <5>2, <5>3, <5>5, Zenon
      <4> QED  BY <4>1, <4>2
    <3>4. i + 1 \in 0..n
      BY <3>1
    <3> QED  BY <3>3, <3>4 DEF I
  <2>5. \A i \in 0..n : i \in I
    <3> HIDE DEF I
    <3> QED  BY <1>1, <2>3, <2>4, CountedUp
  <2>6. n \in 0..n
    BY <1>1
  <2>7. f[n + 1] = s[1] \o g[n]
    BY <1>6, <2>5, <2>6
  <2> QED  BY <1>1, <1>2, <2>1, <2>7 DEF u
<1> QED  BY <1>5, <1>6

-----------------------------------------------------------------------------
(* Where each of the lists is *)

\* The first k of the lists, made one.
UpTo(s, k) == FlattenSeq(SubSeq(s, 1, k))

LEMMA UpToTyped ==
  ASSUME NEW S, NEW s \in Lists(S), NEW k \in 0..Len(s)
  PROVE  UpTo(s, k) \in Seq(S) /\ Len(UpTo(s, k)) \in Nat
<1>1. SubSeq(s, 1, k) \in Lists(S)
  BY ListsPrefix
<1> QED  BY <1>1, FlattenTyped, LenProperties DEF UpTo

LEMMA UpToNext ==
  ASSUME NEW S, NEW s \in Lists(S), NEW k \in 1..Len(s)
  PROVE  /\ UpTo(s, k) = UpTo(s, k - 1) \o s[k]
         /\ Len(UpTo(s, k)) = Len(UpTo(s, k - 1)) + Len(s[k])
<1>1. s[k] \in Seq(S) /\ k - 1 \in 0..Len(s) /\ k \in 0..Len(s) /\ k # 0
  BY ListsProperties
<1>2. SubSeq(s, 1, k - 1) \in Lists(S)
  BY <1>1, ListsPrefix
<1>3. SubSeq(s, 1, k) = Append(SubSeq(s, 1, k - 1), s[k])
  BY <1>1, ListsPrefix
<1>4. UpTo(s, k) = UpTo(s, k - 1) \o s[k]
  BY <1>1, <1>2, <1>3, FlattenAppend DEF UpTo
<1> QED  BY <1>1, <1>4, UpToTyped, ConcatProperties

\* The lists up to k come before those behind k.
LEMMA UpToFirst ==
  ASSUME NEW S, NEW s \in Lists(S), NEW k \in 0..Len(s)
  PROVE  \E r \in Seq(S) : FlattenSeq(s) = UpTo(s, k) \o r
<1> DEFINE n == Len(s)
           I == {i \in 0..n : \E r \in Seq(S) : FlattenSeq(s) = UpTo(s, n - i) \o r}
<1>0. \A a, b, c \in Seq(S) : (a \o b) \o c = a \o (b \o c)
  BY ConcatsAssociate
<1>1. n \in Nat
  BY ListsProperties
<1>2. 0 \in I
  <2>1. FlattenSeq(s) = UpTo(s, n)
    <3>1. n \in 0..Len(s)
      BY <1>1
    <3>2. SubSeq(s, 1, n) = s
      BY <3>1, ListsPrefix
    <3> QED  BY <3>2 DEF UpTo
  <2>2. UpTo(s, n) \o <<>> = UpTo(s, n) /\ <<>> \in Seq(S)
    BY <2>1, FlattenTyped, ConcatEmptySeq, EmptySeq
  <2>3. n - 0 = n
    BY <1>1
  <2>4. \E r \in Seq(S) : FlattenSeq(s) = UpTo(s, n) \o r
    BY <2>1, <2>2
  <2> HIDE DEF n
  <2> QED  BY <1>1, <2>3, <2>4
<1>3. ASSUME NEW i \in 0..n, i \in I, i # n
      PROVE  i + 1 \in I
  <2> DEFINE j == n - i
  <2>1. j \in 1..n /\ j - 1 = n - (i + 1) /\ j - 1 \in 0..n /\ i + 1 \in 0..n
    BY <1>1, <1>3
  <2>2. PICK r \in Seq(S) : FlattenSeq(s) = UpTo(s, j) \o r
    BY <1>3
  <2> HIDE DEF j
  <2>3. UpTo(s, j) = UpTo(s, j - 1) \o s[j] /\ s[j] \in Seq(S)
    BY <2>1, UpToNext, ListsProperties
  <2>4. UpTo(s, j - 1) \in Seq(S)
    BY <2>1, UpToTyped
  <2>5. FlattenSeq(s) = UpTo(s, j - 1) \o (s[j] \o r) /\ s[j] \o r \in Seq(S)
    <3>1. (UpTo(s, j - 1) \o s[j]) \o r = UpTo(s, j - 1) \o (s[j] \o r)
      BY <1>0, <2>3, <2>4, Zenon
    <3>2. s[j] \o r \in Seq(S)
      BY <2>3, ConcatProperties
    <3> QED  BY <2>2, <2>3, <3>1, <3>2, Zenon
  <2>6. \E q \in Seq(S) : FlattenSeq(s) = UpTo(s, n - (i + 1)) \o q
    BY <2>1, <2>5
  <2> QED  BY <2>1, <2>6
<1>4. \A i \in 0..n : i \in I
  <2> HIDE DEF I, n
  <2> QED  BY <1>1, <1>2, <1>3, CountedUp
<1>5. n - k \in 0..n /\ n - (n - k) = k
  BY <1>1
<1>6. n - k \in I
  <2> HIDE DEF I, n
  <2> QED  BY <1>4, <1>5
<1>7. \E r \in Seq(S) : FlattenSeq(s) = UpTo(s, n - (n - k)) \o r
  BY <1>6
<1> QED  BY <1>5, <1>7

\* List k is found where those before it end.
LEMMA FlattenAt ==
  ASSUME NEW S, NEW s \in Lists(S), NEW k \in 1..Len(s)
  PROVE  /\ Len(UpTo(s, k - 1)) \in Nat /\ Len(s[k]) \in Nat
         /\ Len(UpTo(s, k)) = Len(UpTo(s, k - 1)) + Len(s[k])
         /\ Len(UpTo(s, k)) =< Len(FlattenSeq(s))
         /\ \A i \in 1..Len(s[k]) : FlattenSeq(s)[Len(UpTo(s, k - 1)) + i] = s[k][i]
<1>1. Len(s) \in Nat /\ k - 1 \in 0..Len(s) /\ k \in 0..Len(s) /\ s[k] \in Seq(S)
  BY ListsProperties
<1> DEFINE p == UpTo(s, k - 1)
           q == UpTo(s, k)
<1>2. PICK r \in Seq(S) : FlattenSeq(s) = q \o r
  BY <1>1, UpToFirst
<1>3. q = p \o s[k] /\ p \in Seq(S) /\ q \in Seq(S)
  BY <1>1, UpToNext, UpToTyped
<1> HIDE DEF p, q
<1>4. /\ Len(p) \in Nat /\ Len(s[k]) \in Nat /\ Len(q) \in Nat /\ Len(r) \in Nat
      /\ Len(q) = Len(p) + Len(s[k])
      /\ Len(q \o r) = Len(q) + Len(r)
      /\ \A i \in 1..Len(p) + Len(s[k]) :
           q[i] = IF i =< Len(p) THEN p[i] ELSE s[k][i - Len(p)]
      /\ \A i \in 1..Len(q) + Len(r) :
           (q \o r)[i] = IF i =< Len(q) THEN q[i] ELSE r[i - Len(q)]
  BY <1>1, <1>3, LenProperties, ConcatProperties
<1>5. ASSUME NEW i \in 1..Len(s[k])
      PROVE  (q \o r)[Len(p) + i] = s[k][i]
  <2>1. Len(p) + i \in 1..Len(q) + Len(r) /\ Len(p) + i =< Len(q) /\ ~(Len(p) + i =< Len(p))
        /\ (Len(p) + i) - Len(p) = i /\ Len(p) + i \in 1..Len(p) + Len(s[k])
    BY <1>4
  <2> QED  BY <1>4, <2>1
<1>6. FlattenSeq(s) = q \o r /\ Len(q) =< Len(q \o r)
  BY <1>2, <1>4
<1>7. /\ Len(p) \in Nat /\ Len(s[k]) \in Nat
      /\ Len(q) = Len(p) + Len(s[k])
      /\ Len(q) =< Len(FlattenSeq(s))
      /\ \A i \in 1..Len(s[k]) : FlattenSeq(s)[Len(p) + i] = s[k][i]
  BY <1>4, <1>5, <1>6, Zenon
<1> QED  BY <1>7 DEF p, q

-----------------------------------------------------------------------------
(* Parts of a sequence *)

\* What is left of the elements m + 1 to n when the first k of them are gone.
LEMMA SubSeqLeft ==
  ASSUME NEW S, NEW s \in Seq(S), NEW m \in Nat, NEW n \in Nat, n =< Len(s), NEW k \in Nat
  PROVE  SubSeq(SubSeq(s, m + 1, n), k + 1, Len(SubSeq(s, m + 1, n))) = SubSeq(s, m + k + 1, n)
<1> DEFINE t == SubSeq(s, m + 1, n)
           u == SubSeq(t, k + 1, Len(t))
           v == SubSeq(s, m + k + 1, n)
<1>1. Len(s) \in Nat /\ \A i \in 1..Len(s) : s[i] \in S
  BY LenProperties, ElementOfSeq
<1>2. /\ t \in Seq(S) /\ Len(t) = IF m + 1 =< n THEN n - (m + 1) + 1 ELSE 0
      /\ \A i \in 1..(n - (m + 1) + 1) : t[i] = s[(m + 1) + i - 1]
  <2>1. m + 1 \in Int /\ \A i \in (m + 1)..n : s[i] \in S
    BY <1>1
  <2> QED  BY <2>1, SubSeqProperties
<1>3. /\ v \in Seq(S) /\ Len(v) = IF m + k + 1 =< n THEN n - (m + k + 1) + 1 ELSE 0
      /\ \A i \in 1..(n - (m + k + 1) + 1) : v[i] = s[(m + k + 1) + i - 1]
  <2>1. m + k + 1 \in Int /\ \A i \in (m + k + 1)..n : s[i] \in S
    BY <1>1
  <2> QED  BY <2>1, SubSeqProperties
<1> HIDE DEF t, v
<1>4. Len(t) \in Nat /\ \A i \in 1..Len(t) : t[i] \in S
  BY <1>2, LenProperties, ElementOfSeq
<1>5. /\ u \in Seq(S) /\ Len(u) = IF k + 1 =< Len(t) THEN Len(t) - (k + 1) + 1 ELSE 0
      /\ \A i \in 1..(Len(t) - (k + 1) + 1) : u[i] = t[(k + 1) + i - 1]
  <2>1. k + 1 \in Int /\ Len(t) \in Int /\ \A i \in (k + 1)..Len(t) : t[i] \in S
    BY <1>4
  <2> QED  BY <2>1, SubSeqProperties
<1> HIDE DEF u
<1>6. Len(u) = Len(v)
  BY <1>2, <1>3, <1>4, <1>5
<1>7. ASSUME NEW i \in 1..Len(u)
      PROVE  u[i] = v[i]
  <2>1. /\ i \in 1..(Len(t) - (k + 1) + 1) /\ i \in 1..(n - (m + k + 1) + 1)
        /\ (k + 1) + i - 1 \in 1..(n - (m + 1) + 1)
    BY <1>2, <1>3, <1>4, <1>5, <1>6
  <2>2. u[i] = s[(m + 1) + ((k + 1) + i - 1) - 1]
    BY <1>2, <1>5, <2>1
  <2>3. v[i] = s[(m + k + 1) + i - 1]
    BY <1>3, <2>1
  <2>4. (m + 1) + ((k + 1) + i - 1) - 1 = (m + k + 1) + i - 1
    BY <2>1
  <2> QED  BY <2>2, <2>3, <2>4
<1> QED  BY <1>3, <1>5, <1>6, <1>7, SeqEqual DEF t, u, v

\* What follows the first of two sequences is the second.
LEMMA ConcatLeft ==
  ASSUME NEW S, NEW a \in Seq(S), NEW b \in Seq(S)
  PROVE  SubSeq(a \o b, Len(a) + 1, Len(a \o b)) = b
<1> DEFINE t == SubSeq(a \o b, Len(a) + 1, Len(a \o b))
<1>1. /\ Len(a) \in Nat /\ Len(b) \in Nat /\ a \o b \in Seq(S)
      /\ Len(a \o b) = Len(a) + Len(b)
      /\ \A i \in 1..Len(a) + Len(b) : (a \o b)[i] = IF i =< Len(a) THEN a[i] ELSE b[i - Len(a)]
  BY LenProperties, ConcatProperties
<1> DEFINE c == a \o b
           n == Len(a)
<1> HIDE DEF c
<1>2. c \in Seq(S) /\ Len(c) = n + Len(b) /\ n \in Nat
      /\ \A i \in 1..n + Len(b) : c[i] = IF i =< n THEN a[i] ELSE b[i - n]
  BY <1>1 DEF c
<1> HIDE DEF n
<1>3. \A i \in 1..Len(c) : c[i] \in S
  BY <1>2, ElementOfSeq
<1>4. /\ SubSeq(c, n + 1, Len(c)) \in Seq(S)
      /\ Len(SubSeq(c, n + 1, Len(c))) = IF n + 1 =< Len(c) THEN Len(c) - (n + 1) + 1 ELSE 0
      /\ \A i \in 1..(Len(c) - (n + 1) + 1) : SubSeq(c, n + 1, Len(c))[i] = c[(n + 1) + i - 1]
  <2>1. n + 1 \in Int /\ Len(c) \in Int /\ \A i \in (n + 1)..Len(c) : c[i] \in S
    BY <1>1, <1>2, <1>3
  <2> QED  BY <2>1, SubSeqProperties
<1> DEFINE d == SubSeq(c, n + 1, Len(c))
<1> HIDE DEF d
<1>5. Len(d) = Len(b)
  BY <1>1, <1>2, <1>4 DEF d
<1>6. ASSUME NEW i \in 1..Len(b)
      PROVE  d[i] = b[i]
  <2>1. i \in 1..(Len(c) - (n + 1) + 1) /\ (n + 1) + i - 1 = n + i
        /\ n + i \in 1..n + Len(b) /\ ~(n + i =< n) /\ (n + i) - n = i
    BY <1>1, <1>2
  <2>2. d[i] = c[n + i]
    BY <1>4, <2>1 DEF d
  <2> QED  BY <1>2, <2>1, <2>2
<1>7. d = b
  BY <1>4, <1>5, <1>6, SeqEqual DEF d
<1> QED  BY <1>7 DEF c, d, n

\* What is left of a part of a list when the first elements of it are gone.
LEMMA SubSeqRest ==
  ASSUME NEW S, NEW s \in Seq(S), NEW d \in Nat, NEW n \in Nat, n =< Len(s),
         NEW a \in Seq(S), NEW b \in Seq(S), a # <<>>, a \o b = SubSeq(s, d + 1, n)
  PROVE  b = SubSeq(s, d + Len(a) + 1, n) /\ d + Len(a) =< n
<1> DEFINE c == a \o b
           e == Len(a)
<1>1. /\ Len(s) \in Nat /\ e \in Nat /\ e # 0 /\ Len(b) \in Nat /\ Len(c) = e + Len(b)
      /\ \A i \in 1..Len(s) : s[i] \in S
  BY LenProperties, ConcatProperties, ElementOfSeq, EmptySeq
<1>2. b = SubSeq(c, e + 1, Len(c))
  BY ConcatLeft
<1>3. c = SubSeq(s, d + 1, n)
  OBVIOUS
<1> HIDE DEF c, e
<1>4. SubSeq(c, e + 1, Len(c)) = SubSeq(s, d + e + 1, n)
  <2>1. \A k \in Nat : SubSeq(SubSeq(s, d + 1, n), k + 1, Len(SubSeq(s, d + 1, n)))
                       = SubSeq(s, d + k + 1, n)
    BY SubSeqLeft
  <2> QED  BY <1>1, <1>3, <2>1
<1>5. Len(c) = IF d + 1 =< n THEN n - (d + 1) + 1 ELSE 0
  <2>1. d + 1 \in Int /\ \A i \in (d + 1)..n : s[i] \in S
    BY <1>1
  <2>2. Len(SubSeq(s, d + 1, n)) = IF d + 1 =< n THEN n - (d + 1) + 1 ELSE 0
    BY <2>1, SubSeqProperties
  <2> QED  BY <1>3, <2>2
<1>6. d + e =< n
  BY <1>1, <1>5
<1> QED  BY <1>2, <1>4, <1>6 DEF e

=============================================================================
